------------------------------ MODULE Installer ------------------------------
(***************************************************************************)
(* The commands of infs that change ~/.inference, step by step: `install`  *)
(* (commands/install.rs), the TUI's install thread (tui/install_task.rs),  *)
(* `uninstall`, `default` and the TUI's "set as default".  Nothing locks   *)
(* the directory: the processes in Procs (shells, the TUI, its install     *)
(* threads) interleave between any two system calls, and may be killed.    *)
(*                                                                         *)
(* A step that fails returns early with `?`: Finish(p, "failed").  Small   *)
(* file-system calls (unlink, symlink, a write of the default file) fail   *)
(* only for the reasons the model has (a link in the way, a file that is   *)
(* gone); the network and the extraction may fail at any time.             *)
(***************************************************************************)
EXTENDS ToolchainPaths

CONSTANTS Procs,        \* processes and threads that run commands
          Commands,     \* the commands they may run
          ArchiveOf,    \* version -> the managed binaries its archive holds
          MAX_RETRIES,  \* download attempts; 3 in the code
          MaxCrashes    \* bound: how often a process is killed mid-command

AllCommands == {"install", "tui_install", "uninstall", "default", "tui_default"}

ASSUME InstallerAssumption ==
    /\ Commands \subseteq AllCommands
    /\ ArchiveOf \in [Versions -> SUBSET Binaries]
    /\ MAX_RETRIES \in Nat \ {0}
    /\ MaxCrashes \in Nat

VARIABLES archive,   \* downloads/<archive>, one file name for all versions
          tmp,       \* the same path with extension .tmp
          pc,        \* the step a process is about to take
          job,       \* its command and the command's version argument
          tgt,       \* the version it makes the default
          idx,       \* its position in MANAGED_BINARIES
          attempt,   \* the download attempts that have failed
          src,       \* the archive it extracts
          wasDefault, \* is_default in uninstall.rs
          fd,        \* the name its open download file has now
          outcome,   \* how its last command ended
          listed,    \* versions a TUI toolchain list may still show
          everDefault, \* history: versions ever written to the default file
          quiet,     \* history: no crash, failed extraction, incomplete
                     \* archive or use of a stale list so far
          crashes

downloads == <<archive, tmp>>
locals == <<tgt, idx, attempt, src, wasDefault>>
history == <<listed, everDefault, quiet, crashes>>
vars == <<disk, downloads, pc, job, locals, fd, outcome, history>>

Steps == {"idle", "resolve", "readDefault", "connect", "write", "rename",
          "verify", "open", "extract", "metadata", "configure", "truncate",
          "setDefault", "unlink", "link", "rmArchive", "check", "rmdir",
          "removed", "rmDefault", "rmLinks", "repair"}

Outcomes == {"none", "ok", "already", "failed", "crashed"}

TypeOK ==
    /\ PathsTypeOK
    /\ archive \in Content
    /\ tmp \in Content
    /\ pc \in [Procs -> Steps]
    /\ job \in [Procs -> [cmd : AllCommands, ver : Versions]]
    /\ tgt \in [Procs -> VersionOrNone]
    /\ idx \in [Procs -> 0..NumBinaries]
    /\ attempt \in [Procs -> 0..MAX_RETRIES]
    /\ src \in [Procs -> Content]
    /\ wasDefault \in [Procs -> BOOLEAN]
    /\ fd \in [Procs -> {"closed", "tmp", "archive", "unlinked"}]
    /\ outcome \in [Procs -> Outcomes]
    /\ listed \in SUBSET Versions
    /\ everDefault \in SUBSET Versions
    /\ quiet \in BOOLEAN
    /\ crashes \in 0..MaxCrashes

Init ==
    /\ PathsInit
    /\ archive = NoVersion
    /\ tmp = NoVersion
    /\ pc = [p \in Procs |-> "idle"]
    /\ job = [p \in Procs |-> [cmd |-> "install", ver |-> CHOOSE v \in Versions : TRUE]]
    /\ tgt = [p \in Procs |-> NoVersion]
    /\ idx = [p \in Procs |-> 0]
    /\ attempt = [p \in Procs |-> 0]
    /\ src = [p \in Procs |-> NoVersion]
    /\ wasDefault = [p \in Procs |-> FALSE]
    /\ fd = [p \in Procs |-> "closed"]
    /\ outcome = [p \in Procs |-> "none"]
    /\ listed = {}
    /\ everDefault = {}
    /\ quiet = TRUE
    /\ crashes = 0

-----------------------------------------------------------------------------
(* Control: where a process goes next.                                     *)

ver(p) == job[p].ver

Goto(p, step) ==
    /\ pc' = [pc EXCEPT ![p] = step]
    /\ UNCHANGED <<job, outcome>>

\* The command returns; what it held in memory is gone, its file is closed.
Finish(p, how) ==
    /\ pc' = [pc EXCEPT ![p] = "idle"]
    /\ outcome' = [outcome EXCEPT ![p] = how]
    /\ tgt' = [tgt EXCEPT ![p] = NoVersion]
    /\ idx' = [idx EXCEPT ![p] = 0]
    /\ attempt' = [attempt EXCEPT ![p] = 0]
    /\ src' = [src EXCEPT ![p] = NoVersion]
    /\ wasDefault' = [wasDefault EXCEPT ![p] = FALSE]
    /\ UNCHANGED job

\* One local variable changes: the target, or the loop index.
SetTgt(p, v) ==
    /\ tgt' = [tgt EXCEPT ![p] = v]
    /\ UNCHANGED <<idx, attempt, src, wasDefault>>

SetIdx(p, i) ==
    /\ idx' = [idx EXCEPT ![p] = i]
    /\ UNCHANGED <<tgt, attempt, src, wasDefault>>

\* Renaming or removing a path changes the name under which the processes
\* that have the file open still write to it.
Renamed(from, to) == [q \in Procs |-> IF fd[q] = from THEN to ELSE fd[q]]

-----------------------------------------------------------------------------
(* Starting a command.                                                     *)

FirstStep(c) ==
    CASE c \in {"install", "tui_install"} -> "resolve"
      [] c \in {"uninstall", "default"} -> "check"
      [] c = "tui_default" -> "truncate"

\* The TUI offers the versions of its list, which may be out of date, and
\* does not look again whether the version is installed.
Start(p) ==
    /\ pc[p] = "idle"
    /\ \E c \in Commands, v \in Versions :
        /\ c = "tui_default" => v \in listed
        /\ job' = [job EXCEPT ![p] = [cmd |-> c, ver |-> v]]
        /\ pc' = [pc EXCEPT ![p] = FirstStep(c)]
        /\ SetTgt(p, IF c = "tui_default" THEN v ELSE NoVersion)
        /\ quiet' = (quiet /\ (c = "tui_default" => is_version_installed(v)))
    /\ outcome' = [outcome EXCEPT ![p] = "none"]
    /\ UNCHANGED <<disk, downloads, fd, listed, everDefault, crashes>>

-----------------------------------------------------------------------------
(* install: fetch_artifact and the test for an installed version.  The     *)
(* TUI's thread stops at an installed version; the command goes on to make *)
(* it the default when there is none.                                      *)

ResolveVersion(p) ==
    /\ pc[p] = "resolve"
    /\ \/ Finish(p, "failed")             \* the manifest cannot be fetched
       \/ /\ is_version_installed(ver(p))
          /\ job[p].cmd = "tui_install"
          /\ Finish(p, "already")
       \/ /\ is_version_installed(ver(p))
          /\ job[p].cmd = "install"
          /\ Goto(p, "readDefault")
          /\ UNCHANGED locals
       \/ /\ ~is_version_installed(ver(p))
          /\ Goto(p, "connect")
          /\ UNCHANGED locals
    /\ UNCHANGED <<disk, downloads, fd, history>>

ReadDefault(p) ==
    /\ pc[p] = "readDefault"
    /\ \/ /\ default # NoVersion
          /\ Finish(p, "already")
       \/ /\ default = NoVersion
          /\ Goto(p, "truncate")
          /\ SetTgt(p, ver(p))
    /\ UNCHANGED <<disk, downloads, fd, history>>

-----------------------------------------------------------------------------
(* download_file: up to MAX_RETRIES attempts into the .tmp path, then a    *)
(* rename onto the archive path.                                           *)

\* File::create truncates the file if it is there, also under a process
\* that is writing to it.
CreateTmp(p) ==
    /\ pc[p] = "connect"
    /\ tmp' = Junk
    /\ fd' = [fd EXCEPT ![p] = "tmp"]
    /\ Goto(p, "write")
    /\ UNCHANGED <<disk, archive, locals, history>>

WriteInto(p, content) ==
    /\ tmp' = IF fd[p] = "tmp" THEN content ELSE tmp
    /\ archive' = IF fd[p] = "archive" THEN content ELSE archive

\* A chunk of the body, not the last: shows only when another process has
\* filled the file in the meantime.
WriteChunk(p) ==
    /\ pc[p] = "write"
    /\ \/ fd[p] = "tmp" /\ tmp # Junk
       \/ fd[p] = "archive" /\ archive # Junk
    /\ WriteInto(p, Junk)
    /\ UNCHANGED <<disk, pc, job, locals, fd, outcome, history>>

\* The last chunk.  The body may still be corrupted (or mixed with that of
\* another process): only the checksum tells.
WriteEnd(p) ==
    /\ pc[p] = "write"
    /\ \E body \in {ver(p), Junk} : WriteInto(p, body)
    /\ fd' = [fd EXCEPT ![p] = "closed"]
    /\ Goto(p, "rename")
    /\ UNCHANGED <<disk, locals, history>>

\* Mutant: failed attempts are not counted.
MutFailAttempt(p) ==
    /\ pc[p] \in {"connect", "write"}
    /\ tmp' = NoVersion
    /\ fd' = [Renamed("tmp", "unlinked") EXCEPT ![p] = "closed"]
    /\ Goto(p, "connect")
    /\ UNCHANGED <<disk, archive, locals, history>>

\* An attempt fails: the .tmp path is removed, whoever created it, and the
\* next attempt begins unless this was the last.
FailAttempt(p) ==
    /\ pc[p] \in {"connect", "write"}
    /\ tmp' = NoVersion
    /\ fd' = [Renamed("tmp", "unlinked") EXCEPT ![p] = "closed"]
    /\ \/ /\ attempt[p] + 1 < MAX_RETRIES
          /\ attempt' = [attempt EXCEPT ![p] = @ + 1]
          /\ UNCHANGED <<tgt, idx, src, wasDefault>>
          /\ Goto(p, "connect")
       \/ /\ attempt[p] + 1 >= MAX_RETRIES
          /\ Finish(p, "failed")
    /\ UNCHANGED <<disk, archive, history>>

RenameTmp(p) ==
    /\ pc[p] = "rename"
    /\ \/ /\ tmp = NoVersion              \* another process took it away
          /\ Finish(p, "failed")
          /\ UNCHANGED <<downloads, fd>>
       \/ /\ tmp # NoVersion
          /\ archive' = tmp
          /\ tmp' = NoVersion
          /\ fd' = [q \in Procs |-> CASE fd[q] = "tmp" -> "archive"
                                      [] fd[q] = "archive" -> "unlinked"
                                      [] OTHER -> fd[q]]
          /\ Goto(p, "verify")
          /\ UNCHANGED locals
    /\ UNCHANGED <<disk, history>>

-----------------------------------------------------------------------------
(* verify_checksum, extract_archive, set_executable_permissions,           *)
(* write_metadata.  A failure leaves what has been extracted in place.     *)

\* Mutant: the checksum is not compared.
MutVerifyChecksum(p) ==
    /\ pc[p] = "verify"
    /\ Goto(p, "open")
    /\ UNCHANGED <<disk, downloads, locals, fd, history>>

VerifyChecksum(p) ==
    /\ pc[p] = "verify"
    /\ \/ archive = ver(p) /\ Goto(p, "open") /\ UNCHANGED locals
       \/ archive # ver(p) /\ Finish(p, "failed")
    /\ UNCHANGED <<disk, downloads, fd, history>>

\* The directory is made before the archive is opened.
OpenArchive(p) ==
    /\ pc[p] = "open"
    /\ present' = present \cup {ver(p)}
    /\ listed' = listed \cup {ver(p)}
    /\ \/ /\ archive = NoVersion
          /\ Finish(p, "failed")
          /\ quiet' = FALSE
       \/ /\ archive # NoVersion
          /\ Goto(p, "extract")
          /\ src' = [src EXCEPT ![p] = archive]
          /\ idx' = [idx EXCEPT ![p] = 1]
          /\ UNCHANGED <<tgt, attempt, wasDefault>>
          /\ UNCHANGED quiet
    /\ UNCHANGED <<bin, meta, default, link, downloads, fd, everDefault, crashes>>

EntriesOf(a) == IF a \in Versions THEN ArchiveOf[a] ELSE Binaries

\* One entry of the archive; unpacking makes the parent directory again if
\* it has been removed.
ExtractEntry(p) ==
    /\ pc[p] = "extract"
    /\ LET b == idx[p]
           v == ver(p)
       IN  /\ IF b \in EntriesOf(src[p])
              THEN /\ present' = present \cup {v}
                   /\ bin' = [bin EXCEPT ![v][b] = src[p]]
              ELSE UNCHANGED <<present, bin>>
           /\ IF b < NumBinaries
              THEN /\ SetIdx(p, b + 1)
                   /\ Goto(p, "extract")
              ELSE /\ UNCHANGED locals
                   /\ Goto(p, "metadata")
    /\ UNCHANGED <<meta, default, link, downloads, fd, history>>

ExtractFail(p) ==
    /\ pc[p] = "extract"
    /\ Finish(p, "failed")
    /\ quiet' = FALSE
    /\ UNCHANGED <<disk, downloads, fd, listed, everDefault, crashes>>

WriteMetadata(p) ==
    /\ pc[p] = "metadata"
    /\ \/ /\ ver(p) \in present
          /\ meta' = meta \cup {ver(p)}
          /\ Goto(p, "configure")
          /\ UNCHANGED locals
       \/ /\ ver(p) \notin present
          /\ Finish(p, "failed")
          /\ UNCHANGED meta
    /\ UNCHANGED <<present, bin, default, link, downloads, fd, history>>

\* is_first_install || current_default.is_none()
Configure(p) ==
    /\ pc[p] = "configure"
    /\ IF list_installed_versions = {ver(p)} \/ default = NoVersion
       THEN /\ SetTgt(p, ver(p))
            /\ Goto(p, "truncate")
       ELSE /\ UNCHANGED locals
            /\ Goto(p, "rmArchive")
    /\ UNCHANGED <<disk, downloads, fd, history>>

RemoveArchive(p) ==
    /\ pc[p] = "rmArchive"
    /\ archive' = NoVersion
    /\ fd' = Renamed("archive", "unlinked")
    /\ Finish(p, "ok")
    /\ UNCHANGED <<disk, tmp, history>>

-----------------------------------------------------------------------------
(* set_default_version: std::fs::write truncates the file, then fills it;  *)
(* an empty file reads as no default.                                      *)

\* Mutant: the links are made before the default file is written.
MutTruncateDefault(p) ==
    /\ pc[p] = "truncate"
    /\ default' = NoVersion
    /\ SetIdx(p, 1)
    /\ Goto(p, "unlink")
    /\ UNCHANGED <<toolchains, link, downloads, fd, history>>

TruncateDefault(p) ==
    /\ pc[p] = "truncate"
    /\ default' = NoVersion
    /\ Goto(p, "setDefault")
    /\ UNCHANGED <<toolchains, link, downloads, locals, fd, history>>

WriteDefault(p) ==
    /\ pc[p] = "setDefault"
    /\ default' = tgt[p]
    /\ everDefault' = everDefault \cup {tgt[p]}
    /\ SetIdx(p, 1)
    /\ Goto(p, "unlink")
    /\ UNCHANGED <<toolchains, link, downloads, fd, listed, quiet, crashes>>

-----------------------------------------------------------------------------
(* update_symlinks: create_symlink for each managed binary, in order.  The *)
(* first failure stops the loop and fails the command.                     *)

\* The source must exist; an old link is removed if it leads somewhere.
Unlink(p) ==
    /\ pc[p] = "unlink"
    /\ LET b == idx[p]
       IN  \/ /\ ~binary_exists(tgt[p], b)
              /\ Finish(p, "failed")
              /\ quiet' = FALSE
              /\ UNCHANGED link
           \/ /\ binary_exists(tgt[p], b)
              /\ link' = IF link_target_exists(b)
                         THEN [link EXCEPT ![b] = NoVersion] ELSE link
              /\ Goto(p, "link")
              /\ UNCHANGED <<locals, quiet>>
    /\ UNCHANGED <<toolchains, default, downloads, fd, listed, everDefault, crashes>>

\* Mutant: install forgets the archive in downloads/.
MutAfterLinks(p) == Finish(p, "ok")

\* After the last link: an install that extracted still removes its archive,
\* one that found the version installed is done.
AfterLinks(p) ==
    IF job[p].cmd \in {"install", "tui_install"}
    THEN IF src[p] # NoVersion
         THEN Goto(p, "rmArchive") /\ UNCHANGED locals
         ELSE Finish(p, "already")
    ELSE Finish(p, "ok")

\* symlink(2) refuses to replace a link that is still there.
CreateLink(p) ==
    /\ pc[p] = "link"
    /\ LET b == idx[p]
       IN  \/ /\ link_present(b)
              /\ Finish(p, "failed")
              /\ UNCHANGED link
           \/ /\ ~link_present(b)
              /\ link' = [link EXCEPT ![b] = tgt[p]]
              /\ IF b < NumBinaries
                 THEN /\ SetIdx(p, b + 1)
                      /\ Goto(p, "unlink")
                 ELSE AfterLinks(p)
    /\ UNCHANGED <<toolchains, default, downloads, fd, history>>

-----------------------------------------------------------------------------
(* The guards of uninstall and default.                                    *)

CheckUninstall(p) ==
    /\ pc[p] = "check"
    /\ job[p].cmd = "uninstall"
    /\ \/ ~is_version_installed(ver(p)) /\ Finish(p, "failed")
       \/ /\ is_version_installed(ver(p))
          /\ wasDefault' = [wasDefault EXCEPT ![p] = (default = ver(p))]
          /\ UNCHANGED <<tgt, idx, attempt, src>>
          /\ Goto(p, "rmdir")
    /\ UNCHANGED <<disk, downloads, fd, history>>

\* Mutant: default does not ask whether the version is installed.
MutCheckDefault(p) ==
    /\ pc[p] = "check"
    /\ job[p].cmd = "default"
    /\ SetTgt(p, ver(p))
    /\ Goto(p, "truncate")
    /\ UNCHANGED <<disk, downloads, fd, history>>

CheckDefault(p) ==
    /\ pc[p] = "check"
    /\ job[p].cmd = "default"
    /\ \/ ~is_version_installed(ver(p)) /\ Finish(p, "failed")
       \/ /\ is_version_installed(ver(p))
          /\ default = ver(p)
          /\ Finish(p, "already")
       \/ /\ is_version_installed(ver(p))
          /\ default # ver(p)
          /\ SetTgt(p, ver(p))
          /\ Goto(p, "truncate")
    /\ UNCHANGED <<disk, downloads, fd, history>>

-----------------------------------------------------------------------------
(* uninstall: remove_dir_all entry by entry, in the order the directory    *)
(* happens to list them, then the default and the links.                   *)

RemoveEntry(p) ==
    /\ pc[p] = "rmdir"
    /\ \/ \E b \in Binaries :
            /\ binary_exists(ver(p), b)
            /\ bin' = [bin EXCEPT ![ver(p)][b] = NoVersion]
            /\ UNCHANGED meta
       \/ /\ ver(p) \in meta
          /\ meta' = meta \ {ver(p)}
          /\ UNCHANGED bin
    /\ UNCHANGED <<present, default, link, downloads, pc, job, locals, fd, outcome, history>>

RemoveDir(p) ==
    /\ pc[p] = "rmdir"
    /\ \A b \in Binaries : ~binary_exists(ver(p), b)
    /\ ver(p) \notin meta
    /\ \/ /\ ver(p) \in present
          /\ present' = present \ {ver(p)}
          /\ Goto(p, "removed")
          /\ UNCHANGED locals
       \/ /\ ver(p) \notin present          \* removed by another process
          /\ Finish(p, "failed")
          /\ UNCHANGED present
    /\ UNCHANGED <<bin, meta, default, link, downloads, fd, history>>

\* An extraction into the directory makes the final rmdir fail.
RemoveDirFail(p) ==
    /\ pc[p] = "rmdir"
    /\ \E q \in Procs \ {p} : pc[q] \in {"extract", "metadata"} /\ ver(q) = ver(p)
    /\ Finish(p, "failed")
    /\ UNCHANGED <<disk, downloads, fd, history>>

\* Mutant: uninstall stops when the directory is gone.
MutAfterRemove(p) ==
    /\ pc[p] = "removed"
    /\ Finish(p, "ok")
    /\ UNCHANGED <<disk, downloads, fd, history>>

AfterRemove(p) ==
    /\ pc[p] = "removed"
    /\ \/ /\ wasDefault[p]
          /\ list_installed_versions = {}
          /\ Goto(p, "rmDefault")
          /\ UNCHANGED locals
       \/ /\ wasDefault[p]
          /\ \E v \in Versions :
                /\ is_last_installed(v)
                /\ SetTgt(p, v)
          /\ Goto(p, "truncate")
       \/ /\ ~wasDefault[p]
          /\ validate_symlinks = {}
          /\ Finish(p, "ok")
       \/ /\ ~wasDefault[p]
          /\ validate_symlinks # {}
          /\ Goto(p, "repair")
          /\ UNCHANGED locals
    /\ UNCHANGED <<disk, downloads, fd, history>>

RemoveDefault(p) ==
    /\ pc[p] = "rmDefault"
    /\ default' = NoVersion
    /\ SetIdx(p, 1)
    /\ Goto(p, "rmLinks")
    /\ UNCHANGED <<toolchains, link, downloads, fd, history>>

\* remove_symlink, for each managed binary in order.
RemoveLink(p) ==
    /\ pc[p] = "rmLinks"
    /\ LET b == idx[p]
       IN  /\ link' = [link EXCEPT ![b] = NoVersion]
           /\ IF b < NumBinaries
              THEN /\ SetIdx(p, b + 1)
                   /\ Goto(p, "rmLinks")
              ELSE Finish(p, "ok")
    /\ UNCHANGED <<toolchains, default, downloads, fd, history>>

\* repair_symlinks: relink to the default, or remove all links.
RepairLinks(p) ==
    /\ pc[p] = "repair"
    /\ IF validate_symlinks = {}
       THEN Finish(p, "ok")
       ELSE IF default # NoVersion /\ is_version_installed(default)
            THEN /\ tgt' = [tgt EXCEPT ![p] = default]
                 /\ idx' = [idx EXCEPT ![p] = 1]
                 /\ UNCHANGED <<attempt, src, wasDefault>>
                 /\ Goto(p, "unlink")
            ELSE /\ SetIdx(p, 1)
                 /\ Goto(p, "rmLinks")
    /\ UNCHANGED <<disk, downloads, fd, history>>

-----------------------------------------------------------------------------
\* The process is killed: memory and open files go, the disk stays.
Crash(p) ==
    /\ pc[p] # "idle"
    /\ crashes < MaxCrashes
    /\ crashes' = crashes + 1
    /\ Finish(p, "crashed")
    /\ fd' = [fd EXCEPT ![p] = "closed"]
    /\ quiet' = FALSE
    /\ UNCHANGED <<disk, downloads, listed, everDefault>>

Step(p) ==
    \/ ResolveVersion(p) \/ ReadDefault(p)
    \/ CreateTmp(p) \/ WriteChunk(p) \/ WriteEnd(p) \/ FailAttempt(p) \/ RenameTmp(p)
    \/ VerifyChecksum(p) \/ OpenArchive(p) \/ ExtractEntry(p) \/ ExtractFail(p)
    \/ WriteMetadata(p) \/ Configure(p) \/ RemoveArchive(p)
    \/ TruncateDefault(p) \/ WriteDefault(p) \/ Unlink(p) \/ CreateLink(p)
    \/ CheckUninstall(p) \/ CheckDefault(p)
    \/ RemoveEntry(p) \/ RemoveDir(p) \/ RemoveDirFail(p) \/ AfterRemove(p)
    \/ RemoveDefault(p) \/ RemoveLink(p) \/ RepairLinks(p)

Next == \E p \in Procs : Start(p) \/ Step(p) \/ Crash(p)

Spec == Init /\ [][Next]_vars

\* The operating system runs every process, and a request times out after
\* REQUEST_TIMEOUT_SECS; nobody is obliged to start a command.
FairSpec == Spec /\ \A p \in Procs : WF_vars(Step(p))
-----------------------------------------------------------------------------
(* Properties of commands that do not overlap (one process at a time), for *)
(* every crash, network failure, failed extraction and incomplete archive. *)

Ended(p, cs, how) == pc[p] = "idle" /\ job[p].cmd \in cs /\ outcome[p] = how

\* Integrity: whatever was left in downloads/ by crashed and failed installs
\* of other versions under the same file name, toolchains/<v>/ only ever holds
\* binaries of v's published archive (download, rename, verify, extract).
OnlyVerifiedBinaries ==
    \A v \in Versions, b \in Binaries : bin[v][b] \in {NoVersion, v}

\* When install returns success after an extraction, the version is complete
\* with its metadata, some version is the default, and the shared archive
\* path is clean again.
InstallOkIsComplete ==
    \A p \in Procs : Ended(p, {"install", "tui_install"}, "ok") =>
        /\ ver(p) \in meta
        /\ \A b \in ArchiveOf[ver(p)] : bin[ver(p)][b] = ver(p)
        /\ default # NoVersion
        /\ archive = NoVersion

\* install of an installed version never ends without a default: the recovery
\* path of install.rs for a lost default file.
InstallLeavesADefault ==
    \A p \in Procs : Ended(p, {"install"}, "already") => default # NoVersion

\* uninstall removes the directory even when a later step fails, so that a
\* half-extracted version can always be cleared; when it succeeds the version
\* is not the default and no link is broken.
UninstallClears ==
    \A p \in Procs :
        /\ Ended(p, {"uninstall"}, "failed") => ver(p) \notin present
        /\ Ended(p, {"uninstall"}, "ok") =>
              /\ ver(p) \notin present
              /\ default # ver(p)
              /\ validate_symlinks = {}

\* When a change of the default succeeds, the file and every managed link name
\* the version and no link is broken.
SwitchOkIsLinked ==
    \A p \in Procs : Ended(p, {"default", "tui_default"}, "ok") =>
        /\ default = ver(p)
        /\ link = [b \in Binaries |-> ver(p)]
        /\ validate_symlinks = {}

AllIdle == \A p \in Procs : pc[p] = "idle"

\* A command that reports success has done all of its work, and a failed
\* uninstall has at least removed the version: install.rs, install_task.rs,
\* uninstall.rs, default.rs.
SuccessIsComplete ==
    /\ InstallOkIsComplete
    /\ InstallLeavesADefault
    /\ UninstallClears
    /\ SwitchOkIsLinked

\* Every command returns: retries are bounded and no loop waits for another.
CommandsReturn == \A p \in Procs : pc[p] # "idle" ~> pc[p] = "idle"

-----------------------------------------------------------------------------
(* Properties of overlapping commands.                                     *)

\* Whatever interleaves or crashes, a link points only into a version that was
\* written to the default file before.
LinksFollowDefaults ==
    \A b \in Binaries : link_present(b) => link[b] \in everDefault

\* The default file only ever names versions that had a directory.
DefaultsWereInstalled == everDefault \subseteq listed

\* repair_symlinks "repairs broken symlinks by updating them to point to the
\* default version": between undisturbed commands no link is broken.
QuietLinksWork == quiet /\ AllIdle => validate_symlinks = {}

\* The TUI's install "performs the same operations as the CLI install command",
\* so that it too ends with some default set.
TuiInstallLeavesADefault ==
    \A p \in Procs : Ended(p, {"tui_install"}, "already") => default # NoVersion
=============================================================================
