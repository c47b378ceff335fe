--------------------------- MODULE CommandProofs ---------------------------
(***************************************************************************)
(* Theorems about the commands of Installer.  First, for every set of      *)
(* processes, versions and commands, any archives and any bound on         *)
(* crashes: types, where links and defaults come from, and integrity.      *)
(* Then, for commands that do not overlap, what they achieve: a command    *)
(* that reports success has done its work, and what it leaves can be used. *)
(***************************************************************************)
EXTENDS Installer, Resolution, TLAPS

-----------------------------------------------------------------------------
(* Type correctness.  TypeOK is proved in four parts; it is inductive only *)
(* together with LocalsOK: a step indexes bin and link with idx[p] and     *)
(* tgt[p], which have values of the right kind only where they are used.   *)

ControlOK ==
    /\ pc \in [Procs -> Steps]
    /\ job \in [Procs -> [cmd : AllCommands, ver : Versions]]
    /\ outcome \in [Procs -> Outcomes]
    /\ tgt \in [Procs -> VersionOrNone]
    /\ idx \in [Procs -> 0..NumBinaries]
    /\ attempt \in [Procs -> 0..MAX_RETRIES]
    /\ src \in [Procs -> Content]
    /\ wasDefault \in [Procs -> BOOLEAN]

FilesOK ==
    /\ archive \in Content
    /\ tmp \in Content
    /\ fd \in [Procs -> {"closed", "tmp", "archive", "unlinked"}]

HistoryOK ==
    /\ listed \in SUBSET Versions
    /\ everDefault \in SUBSET Versions
    /\ quiet \in BOOLEAN
    /\ crashes \in 0..MaxCrashes

\* TypeOK is the conjunction of its parts, before and after a step.
LEMMA TypeParts ==
    /\ TypeOK <=> PathsTypeOK /\ ControlOK /\ FilesOK /\ HistoryOK
    /\ TypeOK' <=> PathsTypeOK' /\ ControlOK' /\ FilesOK' /\ HistoryOK'
BY DEF TypeOK, ControlOK, FilesOK, HistoryOK

LoopSteps == {"extract", "unlink", "link", "rmLinks"}
TargetSteps == {"truncate", "setDefault", "unlink", "link"}

LocalOK(p) ==
    /\ pc[p] \in LoopSteps => idx[p] \in Binaries
    /\ pc[p] \in TargetSteps => tgt[p] \in Versions

LocalsOK == \A p \in Procs : LocalOK(p)

ControlInv == ControlOK /\ LocalsOK

TypeInv == TypeOK /\ LocalsOK

\* A step of p leaves the control state of every other process alone.
OthersStay(p) ==
    \A q \in Procs \ {p} :
        /\ pc'[q] = pc[q] /\ job'[q] = job[q]
        /\ tgt'[q] = tgt[q] /\ idx'[q] = idx[q] /\ src'[q] = src[q]

\* LocalsOK speaks of each process alone.
LEMMA LocalsStay ==
    ASSUME LocalsOK, NEW p \in Procs, OthersStay(p), LocalOK(p)'
    PROVE  LocalsOK'
BY DEF LocalsOK, LocalOK, OthersStay

\* What Finish does to the control state.
LEMMA FinishKeeps ==
    ASSUME ControlInv, NEW p \in Procs, NEW how \in Outcomes, Finish(p, how)
    PROVE  ControlInv' /\ OthersStay(p) /\ job' = job /\ pc'[p] = "idle"
<1> USE PathsAssumption, InstallerAssumption DEF Finish, ControlOK, ControlInv
<1>1. pc' \in [Procs -> Steps]
    BY DEF Steps
<1>2. tgt' \in [Procs -> VersionOrNone] /\ src' \in [Procs -> Content]
    BY DEF VersionOrNone, Content
<1>3. idx' \in [Procs -> 0..NumBinaries] /\ attempt' \in [Procs -> 0..MAX_RETRIES]
    OBVIOUS
<1>4. ControlOK'
    BY <1>1, <1>2, <1>3
<1>5. OthersStay(p)
    BY DEF OthersStay
<1>6. LocalOK(p)'
    BY DEF LocalOK, LoopSteps, TargetSteps
<1> QED BY <1>4, <1>5, <1>6, LocalsStay

\* What Goto does, with the local variables unchanged or one of them set.
LEMMA GotoMoves ==
    ASSUME ControlOK, NEW p \in Procs, NEW s \in Steps, Goto(p, s),
           \/ UNCHANGED locals
           \/ \E v \in VersionOrNone : SetTgt(p, v)
           \/ \E i \in 0..NumBinaries : SetIdx(p, i)
    PROVE  ControlOK' /\ OthersStay(p) /\ job' = job /\ pc'[p] = s
<1> USE PathsAssumption, InstallerAssumption DEF Goto, ControlOK, OthersStay
<1>1. CASE UNCHANGED locals
    BY <1>1 DEF locals
<1>2. CASE \E v \in VersionOrNone : SetTgt(p, v)
    BY <1>2 DEF SetTgt
<1>3. CASE \E i \in 0..NumBinaries : SetIdx(p, i)
    BY <1>3 DEF SetIdx
<1> QED BY <1>1, <1>2, <1>3

\* A step that uses neither idx nor tgt may be next whatever they are.
LEMMA GotoKeeps ==
    ASSUME ControlInv, NEW p \in Procs,
           NEW s \in Steps \ (LoopSteps \cup TargetSteps),
           Goto(p, s), UNCHANGED locals
    PROVE  ControlInv' /\ OthersStay(p) /\ job' = job /\ pc'[p] = s
BY GotoMoves, LocalsStay DEF ControlInv, LocalOK

\* The target is set when set_default_version is next.
LEMMA GotoTruncate ==
    ASSUME ControlInv, NEW p \in Procs, NEW v \in Versions,
           Goto(p, "truncate"), SetTgt(p, v)
    PROVE  ControlInv' /\ OthersStay(p) /\ job' = job /\ pc'[p] = "truncate" /\ tgt'[p] = v
<1>1. ControlOK' /\ OthersStay(p) /\ job' = job /\ pc'[p] = "truncate"
    BY GotoMoves DEF Steps, ControlInv, VersionOrNone
<1>2. tgt'[p] = v
    BY DEF SetTgt, ControlInv, ControlOK
<1>3. LocalOK(p)'
    BY <1>1, <1>2 DEF LocalOK, LoopSteps
<1> QED BY <1>1, <1>2, <1>3, LocalsStay DEF ControlInv

\* The index is set when the body of a loop is next.
LEMMA GotoLoop ==
    ASSUME ControlInv, NEW p \in Procs, NEW s \in {"extract", "unlink", "rmLinks"},
           NEW i \in Binaries, Goto(p, s), SetIdx(p, i),
           s = "unlink" => tgt[p] \in Versions
    PROVE  ControlInv' /\ OthersStay(p) /\ job' = job /\ pc'[p] = s /\ tgt' = tgt
<1>1. i \in 0..NumBinaries
    BY PathsAssumption DEF Binaries
<1>2. ControlOK' /\ OthersStay(p) /\ job' = job /\ pc'[p] = s
    BY <1>1, GotoMoves DEF Steps, ControlInv
<1>3. idx'[p] = i /\ tgt' = tgt
    BY DEF SetIdx, ControlInv, ControlOK
<1>4. LocalOK(p)'
    BY <1>2, <1>3 DEF LocalOK, TargetSteps
<1> QED BY <1>2, <1>3, <1>4, LocalsStay DEF ControlInv

\* The other two steps inside update_symlinks.
LEMMA GotoLink ==
    ASSUME ControlInv, NEW p \in Procs, UNCHANGED locals,
           \/ pc[p] = "truncate" /\ Goto(p, "setDefault")
           \/ pc[p] = "unlink" /\ Goto(p, "link")
    PROVE  ControlInv' /\ OthersStay(p) /\ job' = job
<1>1. ControlOK' /\ OthersStay(p) /\ job' = job
    BY GotoMoves DEF Steps, ControlInv
<1>2. LocalOK(p)'
    BY DEF LocalOK, LocalsOK, LoopSteps, TargetSteps, ControlInv, ControlOK, Goto, locals
<1> QED BY <1>1, <1>2, LocalsStay DEF ControlInv

\* Every step of a command keeps the control state well formed.
LEMMA StepControlInv ==
    ASSUME TypeInv, NEW p \in Procs, Step(p)
    PROVE  ControlInv' /\ OthersStay(p) /\ job' = job
<1> USE PathsAssumption, InstallerAssumption
<1>0. ControlInv /\ ver(p) \in Versions /\ idx[p] \in 0..NumBinaries /\ LocalOK(p)
      /\ default \in VersionOrNone /\ archive \in Content
    BY TypeParts DEF TypeInv, ControlInv, ControlOK, ver, LocalsOK, PathsTypeOK, FilesOK
<1> USE <1>0
<1>1. CASE CreateTmp(p) \/ WriteEnd(p) \/ VerifyChecksum(p) \/ RenameTmp(p) \/ WriteMetadata(p)
    BY <1>1, FinishKeeps, GotoKeeps
    DEF CreateTmp, WriteEnd, VerifyChecksum, RenameTmp, WriteMetadata, LoopSteps, TargetSteps, Steps, Outcomes
<1>2. CASE ResolveVersion(p) \/ ExtractFail(p) \/ RemoveArchive(p) \/ RemoveDir(p) \/ RemoveDirFail(p)
    BY <1>2, FinishKeeps, GotoKeeps
    DEF ResolveVersion, ExtractFail, RemoveArchive, RemoveDir, RemoveDirFail, LoopSteps, TargetSteps, Steps, Outcomes
<1>3. CASE WriteChunk(p) \/ RemoveEntry(p)
    BY <1>3 DEF WriteChunk, RemoveEntry, ControlInv, ControlOK, LocalsOK, LocalOK, OthersStay, locals
<1>4. CASE ReadDefault(p) \/ Configure(p) \/ CheckDefault(p)
    BY <1>4, FinishKeeps, GotoKeeps, GotoTruncate
    DEF ReadDefault, Configure, CheckDefault, LoopSteps, TargetSteps, Steps, Outcomes
<1>5. CASE FailAttempt(p)
  <2>1. CASE Finish(p, "failed")
    BY <2>1, FinishKeeps DEF Outcomes
  <2>2. CASE /\ attempt[p] + 1 < MAX_RETRIES
             /\ attempt' = [attempt EXCEPT ![p] = @ + 1]
             /\ UNCHANGED <<tgt, idx, src, wasDefault>>
             /\ Goto(p, "connect")
    <3>1. ControlOK' /\ OthersStay(p) /\ job' = job /\ pc'[p] = "connect"
        BY <2>2 DEF ControlInv, ControlOK, OthersStay, Goto, Steps
    <3>2. LocalOK(p)'
        BY <3>1 DEF LocalOK, LoopSteps, TargetSteps
    <3> QED BY <3>1, <3>2, LocalsStay DEF ControlInv
  <2> QED BY <1>5, <2>1, <2>2 DEF FailAttempt
<1>6. CASE OpenArchive(p)
  <2>1. CASE Finish(p, "failed")
    BY <2>1, FinishKeeps DEF Outcomes
  <2>2. CASE /\ Goto(p, "extract")
             /\ src' = [src EXCEPT ![p] = archive]
             /\ idx' = [idx EXCEPT ![p] = 1]
             /\ UNCHANGED <<tgt, attempt, wasDefault>>
    <3>1. ControlOK' /\ OthersStay(p) /\ job' = job /\ pc'[p] = "extract" /\ idx'[p] = 1
        BY <2>2 DEF ControlInv, ControlOK, OthersStay, Goto, Steps
    <3>2. LocalOK(p)'
        BY <3>1 DEF LocalOK, TargetSteps, Binaries
    <3> QED BY <3>1, <3>2, LocalsStay DEF ControlInv
  <2> QED BY <1>6, <2>1, <2>2 DEF OpenArchive
<1>7. CASE ExtractEntry(p)
  <2>1. idx[p] \in Binaries
    BY <1>7 DEF ExtractEntry, LocalOK, LoopSteps
  <2>2. CASE idx[p] < NumBinaries /\ SetIdx(p, idx[p] + 1) /\ Goto(p, "extract")
    <3>1. idx[p] + 1 \in Binaries
        BY <2>1, <2>2 DEF Binaries
    <3> QED BY <2>2, <3>1, GotoLoop
  <2>3. CASE UNCHANGED locals /\ Goto(p, "metadata")
    BY <2>3, GotoKeeps DEF LoopSteps, TargetSteps, Steps
  <2> QED BY <1>7, <2>2, <2>3 DEF ExtractEntry
<1>8. CASE TruncateDefault(p)
    BY <1>8, GotoLink DEF TruncateDefault
<1>9. CASE WriteDefault(p)
  <2>1. tgt[p] \in Versions /\ 1 \in Binaries
    BY <1>9 DEF WriteDefault, LocalOK, TargetSteps, Binaries
  <2> QED BY <1>9, <2>1, GotoLoop DEF WriteDefault
<1>10. CASE Unlink(p)
    BY <1>10, FinishKeeps, GotoLink DEF Unlink, Outcomes
<1>11. CASE CreateLink(p)
  <2>1. idx[p] \in Binaries /\ tgt[p] \in Versions
    BY <1>11 DEF CreateLink, LocalOK, LoopSteps, TargetSteps
  <2>2. CASE idx[p] < NumBinaries /\ SetIdx(p, idx[p] + 1) /\ Goto(p, "unlink")
    <3>1. idx[p] + 1 \in Binaries
        BY <2>1, <2>2 DEF Binaries
    <3> QED BY <2>1, <2>2, <3>1, GotoLoop
  <2>3. CASE Finish(p, "failed") \/ AfterLinks(p)
    BY <2>3, FinishKeeps, GotoKeeps DEF AfterLinks, LoopSteps, TargetSteps, Steps, Outcomes
  <2> QED BY <1>11, <2>2, <2>3 DEF CreateLink
<1>12. CASE CheckUninstall(p)
  <2>1. CASE Finish(p, "failed")
    BY <2>1, FinishKeeps DEF Outcomes
  <2>2. CASE /\ wasDefault' = [wasDefault EXCEPT ![p] = (default = ver(p))]
             /\ UNCHANGED <<tgt, idx, attempt, src>>
             /\ Goto(p, "rmdir")
    <3>1. ControlOK' /\ OthersStay(p) /\ job' = job /\ pc'[p] = "rmdir"
        BY <2>2 DEF ControlInv, ControlOK, OthersStay, Goto, Steps
    <3>2. LocalOK(p)'
        BY <3>1 DEF LocalOK, LoopSteps, TargetSteps
    <3> QED BY <3>1, <3>2, LocalsStay DEF ControlInv
  <2> QED BY <1>12, <2>1, <2>2 DEF CheckUninstall
<1>13. CASE AfterRemove(p)
    BY <1>13, FinishKeeps, GotoKeeps, GotoTruncate
    DEF AfterRemove, LoopSteps, TargetSteps, Steps, Outcomes
<1>14. CASE RemoveDefault(p)
  <2>1. 1 \in Binaries
    BY DEF Binaries
  <2> QED BY <1>14, <2>1, GotoLoop DEF RemoveDefault
<1>15. CASE RemoveLink(p)
  <2>1. idx[p] \in Binaries
    BY <1>15 DEF RemoveLink, LocalOK, LoopSteps
  <2>2. CASE idx[p] < NumBinaries /\ SetIdx(p, idx[p] + 1) /\ Goto(p, "rmLinks")
    <3>1. idx[p] + 1 \in Binaries
        BY <2>1, <2>2 DEF Binaries
    <3> QED BY <2>2, <3>1, GotoLoop
  <2>3. CASE Finish(p, "ok")
    BY <2>3, FinishKeeps DEF Outcomes
  <2> QED BY <1>15, <2>2, <2>3 DEF RemoveLink
<1>16. CASE RepairLinks(p)
  <2>1. CASE Finish(p, "ok")
    BY <2>1, FinishKeeps DEF Outcomes
  <2>2. CASE SetIdx(p, 1) /\ Goto(p, "rmLinks")
    <3>1. 1 \in Binaries
        BY DEF Binaries
    <3> QED BY <2>2, <3>1, GotoLoop
  <2>3. CASE /\ default # NoVersion
             /\ tgt' = [tgt EXCEPT ![p] = default]
             /\ idx' = [idx EXCEPT ![p] = 1]
             /\ UNCHANGED <<attempt, src, wasDefault>>
             /\ Goto(p, "unlink")
    <3>1. default \in Versions /\ 1 \in Binaries
        BY <2>3 DEF VersionOrNone, Binaries
    <3>2. /\ ControlOK' /\ OthersStay(p) /\ job' = job /\ pc'[p] = "unlink"
          /\ idx'[p] = 1 /\ tgt'[p] = default
        BY <2>3 DEF ControlInv, ControlOK, OthersStay, Goto, Steps
    <3>3. LocalOK(p)'
        BY <3>1, <3>2 DEF LocalOK
    <3> QED BY <3>2, <3>3, LocalsStay DEF ControlInv
  <2> QED BY <1>16, <2>1, <2>2, <2>3 DEF RepairLinks
<1> QED BY <1>1, <1>2, <1>3, <1>4, <1>5, <1>6, <1>7, <1>8, <1>9, <1>10, <1>11, <1>12, <1>13, <1>14, <1>15, <1>16 DEF Step

\* The steps of a command that change no toolchain, default or link.
KeepsDisk(p) ==
    \/ ResolveVersion(p) \/ ReadDefault(p) \/ CreateTmp(p) \/ WriteChunk(p) \/ WriteEnd(p)
    \/ FailAttempt(p) \/ RenameTmp(p) \/ VerifyChecksum(p) \/ ExtractFail(p) \/ Configure(p)
    \/ RemoveArchive(p) \/ CheckUninstall(p) \/ CheckDefault(p) \/ RemoveDirFail(p)
    \/ AfterRemove(p) \/ RepairLinks(p)

\* The steps of KeepsDisk leave toolchains/, bin/ and the default file alone.
LEMMA KeepsDiskUnchanged ==
    ASSUME NEW p \in Procs, KeepsDisk(p) PROVE UNCHANGED disk
BY DEF KeepsDisk, ResolveVersion, ReadDefault, CreateTmp, WriteChunk, WriteEnd, FailAttempt,
       RenameTmp, VerifyChecksum, ExtractFail, Configure, RemoveArchive, CheckUninstall,
       CheckDefault, RemoveDirFail, AfterRemove, RepairLinks

\* Every step of a command keeps the disk well typed.
LEMMA StepPathsTypeOK ==
    ASSUME TypeInv, NEW p \in Procs, Step(p)
    PROVE  PathsTypeOK'
<1> USE PathsAssumption, InstallerAssumption DEF PathsTypeOK
<1>0. PathsTypeOK /\ ver(p) \in Versions /\ LocalOK(p) /\ src[p] \in Content
    BY TypeParts DEF TypeInv, ControlOK, ver, LocalsOK
<1> USE <1>0
<1>1. CASE KeepsDisk(p)
    BY <1>1, KeepsDiskUnchanged DEF disk, toolchains
<1>2. CASE OpenArchive(p)
    BY <1>2 DEF OpenArchive
<1>3. CASE ExtractEntry(p)
  <2>1. idx[p] \in Binaries
    BY <1>3 DEF ExtractEntry, LocalOK, LoopSteps
  <2>2. [bin EXCEPT ![ver(p)][idx[p]] = src[p]] \in [Versions -> [Binaries -> Content]]
    BY <2>1
  <2>3. present' \in SUBSET Versions /\ bin' \in [Versions -> [Binaries -> Content]]
    BY <1>3, <2>2 DEF ExtractEntry
  <2> QED BY <1>3, <2>3 DEF ExtractEntry
<1>4. CASE WriteMetadata(p)
    BY <1>4 DEF WriteMetadata
<1>5. CASE TruncateDefault(p) \/ RemoveDefault(p)
    BY <1>5 DEF TruncateDefault, RemoveDefault, toolchains, VersionOrNone
<1>6. CASE WriteDefault(p)
    BY <1>6 DEF WriteDefault, toolchains, VersionOrNone, LocalOK, TargetSteps
<1>7. CASE Unlink(p)
    BY <1>7 DEF Unlink, toolchains, VersionOrNone
<1>8. CASE CreateLink(p)
    BY <1>8 DEF CreateLink, toolchains, VersionOrNone, LocalOK, TargetSteps
<1>9. CASE RemoveEntry(p)
    BY <1>9 DEF RemoveEntry, Content
<1>10. CASE RemoveDir(p)
    BY <1>10 DEF RemoveDir
<1>11. CASE RemoveLink(p)
    BY <1>11 DEF RemoveLink, toolchains, VersionOrNone
<1> QED BY <1>1, <1>2, <1>3, <1>4, <1>5, <1>6, <1>7, <1>8, <1>9, <1>10, <1>11 DEF Step, KeepsDisk

\* Every step of a command keeps the download files and the history well typed.
LEMMA StepFilesHistoryOK ==
    ASSUME TypeInv, NEW p \in Procs, Step(p)
    PROVE  FilesOK' /\ HistoryOK'
<1> USE PathsAssumption, InstallerAssumption
<1>0. FilesOK /\ HistoryOK /\ ver(p) \in Versions /\ LocalOK(p)
    BY TypeParts DEF TypeInv, ControlOK, ver, LocalsOK
<1> USE <1>0 DEF FilesOK, HistoryOK, downloads, history
<1>1. CASE CreateTmp(p) \/ WriteChunk(p) \/ WriteEnd(p)
    BY <1>1 DEF CreateTmp, WriteChunk, WriteEnd, WriteInto, Content
<1>2. CASE FailAttempt(p) \/ RenameTmp(p) \/ RemoveArchive(p)
    BY <1>2 DEF FailAttempt, RenameTmp, RemoveArchive, Renamed, Content
<1>3. CASE OpenArchive(p) \/ WriteDefault(p) \/ Unlink(p) \/ ExtractFail(p)
    BY <1>3 DEF OpenArchive, WriteDefault, Unlink, ExtractFail, LocalOK, TargetSteps
<1>4. CASE \/ ResolveVersion(p) \/ ReadDefault(p) \/ VerifyChecksum(p) \/ ExtractEntry(p)
           \/ WriteMetadata(p) \/ Configure(p) \/ TruncateDefault(p) \/ CreateLink(p)
    BY <1>4 DEF ResolveVersion, ReadDefault, VerifyChecksum, ExtractEntry, WriteMetadata,
                Configure, TruncateDefault, CreateLink
<1>5. CASE \/ CheckUninstall(p) \/ CheckDefault(p) \/ RemoveEntry(p) \/ RemoveDir(p)
           \/ RemoveDirFail(p) \/ AfterRemove(p) \/ RemoveDefault(p) \/ RemoveLink(p)
           \/ RepairLinks(p)
    BY <1>5 DEF CheckUninstall, CheckDefault, RemoveEntry, RemoveDir, RemoveDirFail,
                AfterRemove, RemoveDefault, RemoveLink, RepairLinks
<1> QED BY <1>1, <1>2, <1>3, <1>4, <1>5 DEF Step

\* Init establishes the invariant.
LEMMA InitTypeInv == Init => TypeInv
<1> SUFFICES ASSUME Init PROVE TypeInv
    OBVIOUS
<1> USE PathsAssumption, InstallerAssumption DEF Init, PathsInit
<1>1. PathsTypeOK
    BY DEF PathsTypeOK, VersionOrNone, Content
<1>2. ControlOK
    BY DEF ControlOK, AllCommands, Steps, Outcomes, VersionOrNone, Content
<1>3. FilesOK /\ HistoryOK
    BY DEF FilesOK, HistoryOK, Content
<1>4. LocalsOK
    BY DEF LocalsOK, LocalOK, LoopSteps, TargetSteps
<1> QED BY <1>1, <1>2, <1>3, <1>4, TypeParts DEF TypeInv

\* Starting a command and being killed.
LEMMA StartTypeInv ==
    ASSUME TypeInv, NEW p \in Procs, Start(p)
    PROVE  TypeInv' /\ OthersStay(p)
<1> USE PathsAssumption, InstallerAssumption
<1>1. PICK c \in Commands, v \in Versions :
        /\ c = "tui_default" => v \in listed
        /\ job' = [job EXCEPT ![p] = [cmd |-> c, ver |-> v]]
        /\ pc' = [pc EXCEPT ![p] = FirstStep(c)]
        /\ SetTgt(p, IF c = "tui_default" THEN v ELSE NoVersion)
        /\ quiet' = (quiet /\ (c = "tui_default" => is_version_installed(v)))
    BY DEF Start
<1>2. ControlOK /\ PathsTypeOK /\ FilesOK /\ HistoryOK /\ LocalsOK
    BY TypeParts DEF TypeInv
<1>3. /\ c \in AllCommands /\ FirstStep(c) \in {"resolve", "check", "truncate"}
      /\ FirstStep(c) = "truncate" => c = "tui_default"
    BY DEF FirstStep, AllCommands
<1>4. ControlOK'
    BY <1>1, <1>2, <1>3 DEF ControlOK, Start, SetTgt, Steps, Outcomes, VersionOrNone
<1>5. OthersStay(p)
    BY <1>1, <1>2 DEF ControlOK, OthersStay, SetTgt
<1>6. LocalOK(p)'
    BY <1>1, <1>2, <1>3 DEF LocalOK, ControlOK, SetTgt, LoopSteps, TargetSteps
<1>7. PathsTypeOK' /\ FilesOK' /\ HistoryOK'
    BY <1>1, <1>2 DEF Start, PathsTypeOK, FilesOK, HistoryOK, disk, toolchains, downloads
<1> QED BY <1>2, <1>4, <1>5, <1>6, <1>7, LocalsStay, TypeParts DEF TypeInv

\* Being killed resets the process and touches no file.
LEMMA CrashTypeInv ==
    ASSUME TypeInv, NEW p \in Procs, Crash(p)
    PROVE  TypeInv' /\ OthersStay(p) /\ pc'[p] = "idle"
<1> USE PathsAssumption, InstallerAssumption
<1>1. ControlInv /\ PathsTypeOK /\ FilesOK /\ HistoryOK
    BY TypeParts DEF TypeInv, ControlInv
<1>2. ControlInv' /\ OthersStay(p) /\ pc'[p] = "idle"
    BY <1>1, FinishKeeps DEF Crash, Outcomes
<1>3. PathsTypeOK' /\ FilesOK'
    BY <1>1 DEF Crash, PathsTypeOK, FilesOK, disk, toolchains, downloads
<1>4. crashes' \in 0..MaxCrashes
  <2>1. crashes \in 0..MaxCrashes /\ crashes < MaxCrashes /\ crashes' = crashes + 1
    BY <1>1 DEF Crash, HistoryOK
  <2> QED BY <2>1
<1>5. HistoryOK'
    BY <1>1, <1>4 DEF Crash, HistoryOK
<1> QED BY <1>2, <1>3, <1>5, TypeParts DEF TypeInv, ControlInv

\* The type invariant is inductive.
LEMMA NextTypeInv == TypeInv /\ [Next]_vars => TypeInv'
<1> SUFFICES ASSUME TypeInv, [Next]_vars PROVE TypeInv'
    OBVIOUS
<1>1. ASSUME NEW p \in Procs, Step(p) PROVE TypeInv'
    BY <1>1, StepControlInv, StepPathsTypeOK, StepFilesHistoryOK, TypeParts DEF TypeInv, ControlInv
<1>2. CASE UNCHANGED vars
    BY <1>2 DEF vars, disk, toolchains, downloads, locals, history, TypeInv, TypeOK, PathsTypeOK,
                LocalsOK, LocalOK
<1> QED BY <1>1, <1>2, StartTypeInv, CrashTypeInv DEF Next

\* Type correctness of every behaviour of the commands, for every number of
\* processes, versions and managed binaries.
THEOREM TypeCorrect == Spec => []TypeOK
<1>1. Spec => []TypeInv
    BY InitTypeInv, NextTypeInv, PTL DEF Spec
<1>2. TypeInv => TypeOK
    BY DEF TypeInv
<1> QED BY <1>1, <1>2, PTL

-----------------------------------------------------------------------------
(* Where links and defaults come from.  LinksFollowDefaults and            *)
(* DefaultsWereInstalled are inductive only together with what a command   *)
(* knows between its check of the version and the link it makes: the       *)
(* version has been listed, and, once the default file is written, has     *)
(* been the default.                                                       *)

\* Steps behind a test that the command's own version is installed.
InstalledSteps == {"readDefault", "extract", "metadata", "configure"}

KnowsOK(p) ==
    /\ pc[p] \in InstalledSteps => ver(p) \in listed
    /\ pc[p] \in TargetSteps => tgt[p] \in listed
    /\ pc[p] \in {"unlink", "link"} => tgt[p] \in everDefault

DiskOK ==
    /\ present \subseteq listed
    /\ everDefault \subseteq listed
    /\ default # NoVersion => default \in everDefault
    /\ \A b \in Binaries : link[b] # NoVersion => link[b] \in everDefault

Provenance == DiskOK /\ \A p \in Procs : KnowsOK(p)

\* The history only grows.
LEMMA HistoryGrows ==
    ASSUME NEW p \in Procs, Start(p) \/ Step(p) \/ Crash(p)
    PROVE  listed \subseteq listed' /\ everDefault \subseteq everDefault'
<1>1. CASE Start(p) \/ Crash(p)
    BY <1>1 DEF Start, Crash
<1>2. CASE OpenArchive(p) \/ WriteDefault(p) \/ Unlink(p) \/ ExtractFail(p)
    BY <1>2 DEF OpenArchive, WriteDefault, Unlink, ExtractFail
<1>3. CASE \/ ResolveVersion(p) \/ ReadDefault(p) \/ VerifyChecksum(p) \/ ExtractEntry(p)
           \/ WriteMetadata(p) \/ Configure(p) \/ TruncateDefault(p) \/ CreateLink(p)
           \/ CreateTmp(p) \/ WriteChunk(p) \/ WriteEnd(p) \/ FailAttempt(p)
    BY <1>3 DEF ResolveVersion, ReadDefault, VerifyChecksum, ExtractEntry, WriteMetadata,
                Configure, TruncateDefault, CreateLink, CreateTmp, WriteChunk, WriteEnd,
                FailAttempt, history
<1>4. CASE \/ CheckUninstall(p) \/ CheckDefault(p) \/ RemoveEntry(p) \/ RemoveDir(p)
           \/ RemoveDirFail(p) \/ AfterRemove(p) \/ RemoveDefault(p) \/ RemoveLink(p)
           \/ RepairLinks(p) \/ RenameTmp(p) \/ RemoveArchive(p)
    BY <1>4 DEF CheckUninstall, CheckDefault, RemoveEntry, RemoveDir, RemoveDirFail,
                AfterRemove, RemoveDefault, RemoveLink, RepairLinks, RenameTmp, RemoveArchive,
                history
<1> QED BY <1>1, <1>2, <1>3, <1>4 DEF Step

\* KnowsOK speaks of each process alone, and of sets that only grow.
LEMMA KnowledgeStays ==
    ASSUME Provenance, NEW p \in Procs, OthersStay(p), KnowsOK(p)',
           listed \subseteq listed', everDefault \subseteq everDefault'
    PROVE  \A q \in Procs : KnowsOK(q)'
BY DEF Provenance, KnowsOK, OthersStay, ver

\* What a step teaches the process that takes it.
LEMMA StepKnowsOK ==
    ASSUME TypeInv, Provenance, NEW p \in Procs, Step(p)
    PROVE  KnowsOK(p)'
<1> USE PathsAssumption
<1>0. /\ ControlInv /\ ControlOK /\ PathsTypeOK /\ KnowsOK(p) /\ DiskOK
      /\ job' = job /\ listed \subseteq listed' /\ everDefault \subseteq everDefault'
    BY TypeParts, StepControlInv, HistoryGrows DEF TypeInv, ControlInv, Provenance
<1> USE <1>0 DEF KnowsOK, ver
<1>1. ASSUME NEW how \in Outcomes, Finish(p, how) PROVE KnowsOK(p)'
    BY <1>1, FinishKeeps DEF InstalledSteps, TargetSteps
<1>2. ASSUME NEW s \in Steps \ (InstalledSteps \cup TargetSteps), Goto(p, s) PROVE KnowsOK(p)'
  <2>1. pc'[p] = s /\ s \notin InstalledSteps /\ s \notin TargetSteps
    BY <1>2 DEF Goto, ControlOK
  <2> QED BY <2>1 DEF TargetSteps
<1>3. CASE CreateTmp(p) \/ WriteEnd(p) \/ VerifyChecksum(p) \/ RenameTmp(p) \/ FailAttempt(p)
    BY <1>1, <1>2, <1>3 DEF CreateTmp, WriteEnd, VerifyChecksum, RenameTmp, FailAttempt,
                            InstalledSteps, TargetSteps, Steps, Outcomes
<1>4. CASE ExtractFail(p) \/ RemoveArchive(p) \/ RemoveDir(p) \/ RemoveDirFail(p)
           \/ RemoveDefault(p) \/ RemoveLink(p) \/ CheckUninstall(p)
    BY <1>1, <1>2, <1>4 DEF ExtractFail, RemoveArchive, RemoveDir, RemoveDirFail, RemoveDefault,
                            RemoveLink, CheckUninstall, InstalledSteps, TargetSteps, Steps, Outcomes
<1>5. CASE WriteChunk(p) \/ RemoveEntry(p)
    BY <1>5 DEF WriteChunk, RemoveEntry, locals
<1>6. ASSUME NEW v \in listed, Goto(p, "truncate"), SetTgt(p, v) PROVE KnowsOK(p)'
    BY <1>6 DEF Goto, SetTgt, ControlOK, InstalledSteps
<1>7. CASE ReadDefault(p) \/ CheckDefault(p) \/ Configure(p)
  <2>1. is_version_installed(ver(p)) => ver(p) \in listed
    BY DEF is_version_installed, DiskOK
  <2>2. pc[p] \in InstalledSteps => ver(p) \in listed
    OBVIOUS
  <2> QED BY <1>1, <1>2, <1>6, <1>7, <2>1, <2>2
          DEF ReadDefault, CheckDefault, Configure, InstalledSteps, TargetSteps, Steps, Outcomes
<1>8. CASE ResolveVersion(p)
  <2>1. CASE is_version_installed(ver(p)) /\ Goto(p, "readDefault")
    BY <2>1 DEF Goto, ControlOK, is_version_installed, DiskOK, TargetSteps
  <2> QED BY <1>1, <1>2, <1>8, <2>1 DEF ResolveVersion, InstalledSteps, TargetSteps, Steps, Outcomes
<1>9. CASE OpenArchive(p)
  <2>1. CASE Goto(p, "extract")
    BY <1>9, <2>1 DEF Goto, ControlOK, OpenArchive, TargetSteps
  <2> QED BY <1>1, <1>9, <2>1 DEF OpenArchive, Outcomes
<1>10. CASE ExtractEntry(p) \/ WriteMetadata(p)
  <2>1. CASE pc[p] \in InstalledSteps /\ (Goto(p, "extract") \/ Goto(p, "metadata") \/ Goto(p, "configure"))
    BY <2>1 DEF Goto, ControlOK, TargetSteps
  <2> QED BY <1>1, <1>10, <2>1 DEF ExtractEntry, WriteMetadata, InstalledSteps, Outcomes
<1>11. CASE TruncateDefault(p)
    BY <1>11 DEF TruncateDefault, Goto, ControlOK, locals, InstalledSteps, TargetSteps
<1>12. CASE WriteDefault(p)
    BY <1>12 DEF WriteDefault, Goto, SetIdx, ControlOK, InstalledSteps, TargetSteps
<1>13. CASE Unlink(p)
  <2>1. CASE Goto(p, "link") /\ UNCHANGED locals
    BY <1>13, <2>1 DEF Unlink, Goto, ControlOK, locals, InstalledSteps, TargetSteps
  <2> QED BY <1>1, <1>13, <2>1 DEF Unlink, Outcomes
<1>14. CASE CreateLink(p)
  <2>1. CASE Goto(p, "unlink") /\ SetIdx(p, idx[p] + 1)
    BY <1>14, <2>1 DEF CreateLink, Goto, SetIdx, ControlOK, InstalledSteps, TargetSteps
  <2> QED BY <1>1, <1>2, <1>14, <2>1
          DEF CreateLink, AfterLinks, InstalledSteps, TargetSteps, Steps, Outcomes
<1>15. CASE AfterRemove(p)
  <2>1. \A v \in Versions : is_last_installed(v) => v \in listed
    BY DEF is_last_installed, list_installed_versions, DiskOK
  <2> QED BY <1>1, <1>2, <1>6, <1>15, <2>1
          DEF AfterRemove, InstalledSteps, TargetSteps, Steps, Outcomes
<1>16. CASE RepairLinks(p)
  <2>1. CASE /\ default # NoVersion
             /\ tgt' = [tgt EXCEPT ![p] = default]
             /\ Goto(p, "unlink")
    BY <2>1 DEF Goto, ControlOK, DiskOK, InstalledSteps
  <2> QED BY <1>1, <1>2, <1>16, <2>1
          DEF RepairLinks, InstalledSteps, TargetSteps, Steps, Outcomes
<1> QED BY <1>3, <1>4, <1>5, <1>7, <1>8, <1>9, <1>10, <1>11, <1>12, <1>13, <1>14, <1>15, <1>16
        DEF Step

\* A step keeps the provenance of what is on the disk.
LEMMA StepDiskOK ==
    ASSUME TypeInv, Provenance, NEW p \in Procs, Step(p)
    PROVE  DiskOK'
<1> USE PathsAssumption
<1>0. /\ PathsTypeOK /\ KnowsOK(p) /\ DiskOK /\ LocalOK(p)
      /\ listed \subseteq listed' /\ everDefault \subseteq everDefault'
    BY TypeParts, HistoryGrows DEF TypeInv, LocalsOK, Provenance
<1> USE <1>0 DEF DiskOK, PathsTypeOK
<1>1. CASE KeepsDisk(p)
  <2>1. everDefault' = everDefault
    BY <1>1 DEF KeepsDisk, ResolveVersion, ReadDefault, CreateTmp, WriteChunk, WriteEnd,
                FailAttempt, RenameTmp, VerifyChecksum, ExtractFail, Configure, RemoveArchive,
                CheckUninstall, CheckDefault, RemoveDirFail, AfterRemove, RepairLinks, history
  <2> QED BY <1>1, <2>1, KeepsDiskUnchanged DEF disk, toolchains
<1>2. CASE OpenArchive(p)
    BY <1>2 DEF OpenArchive
<1>3. CASE ExtractEntry(p)
    BY <1>3 DEF ExtractEntry, KnowsOK, InstalledSteps, history
<1>4. CASE WriteMetadata(p) \/ RemoveEntry(p) \/ RemoveDir(p)
    BY <1>4 DEF WriteMetadata, RemoveEntry, RemoveDir, history
<1>5. CASE TruncateDefault(p) \/ RemoveDefault(p)
    BY <1>5 DEF TruncateDefault, RemoveDefault, toolchains, history
<1>6. CASE WriteDefault(p)
    BY <1>6 DEF WriteDefault, toolchains, KnowsOK, TargetSteps
<1>7. CASE Unlink(p)
    BY <1>7 DEF Unlink, toolchains
<1>8. CASE CreateLink(p)
    BY <1>8 DEF CreateLink, toolchains, KnowsOK, history
<1>9. CASE RemoveLink(p)
    BY <1>9 DEF RemoveLink, toolchains, history
<1> QED BY <1>1, <1>2, <1>3, <1>4, <1>5, <1>6, <1>7, <1>8, <1>9 DEF Step, KeepsDisk

\* Provenance is inductive on top of the type invariant.
LEMMA NextProvenance == TypeInv /\ Provenance /\ [Next]_vars => Provenance'
<1> SUFFICES ASSUME TypeInv, Provenance, [Next]_vars PROVE Provenance'
    OBVIOUS
<1>1. ASSUME NEW p \in Procs, Step(p) PROVE Provenance'
    BY <1>1, StepKnowsOK, StepDiskOK, StepControlInv, HistoryGrows, KnowledgeStays DEF Provenance
<1>2. ASSUME NEW p \in Procs, Crash(p) PROVE Provenance'
  <2>1. KnowsOK(p)'
    BY <1>2, CrashTypeInv DEF KnowsOK, InstalledSteps, TargetSteps
  <2>2. DiskOK'
    BY <1>2 DEF Crash, Provenance, DiskOK, disk, toolchains
  <2> QED BY <1>2, <2>1, <2>2, CrashTypeInv, HistoryGrows, KnowledgeStays DEF Provenance
<1>3. ASSUME NEW p \in Procs, Start(p) PROVE Provenance'
  <2>1. PICK c \in Commands, v \in Versions :
          /\ c = "tui_default" => v \in listed
          /\ pc' = [pc EXCEPT ![p] = FirstStep(c)]
          /\ SetTgt(p, IF c = "tui_default" THEN v ELSE NoVersion)
    BY <1>3 DEF Start
  <2>2. /\ FirstStep(c) \in {"resolve", "check", "truncate"}
        /\ FirstStep(c) = "truncate" => c = "tui_default"
    BY InstallerAssumption DEF FirstStep, AllCommands
  <2>3. pc'[p] = FirstStep(c) /\ (c = "tui_default" => tgt'[p] = v) /\ listed' = listed
    BY <1>3, <2>1, TypeParts DEF TypeInv, ControlOK, SetTgt, Start
  <2>4. KnowsOK(p)'
    BY <2>1, <2>2, <2>3 DEF KnowsOK, InstalledSteps, TargetSteps
  <2>5. DiskOK'
    BY <1>3 DEF Start, Provenance, DiskOK, disk, toolchains
  <2> QED BY <1>3, <2>4, <2>5, StartTypeInv, HistoryGrows, KnowledgeStays DEF Provenance
<1>4. CASE UNCHANGED vars
    BY <1>4 DEF vars, disk, toolchains, locals, history, Provenance, DiskOK, KnowsOK, ver
<1> QED BY <1>1, <1>2, <1>3, <1>4 DEF Next

\* An empty ~/.inference has nothing whose provenance could be wrong.
LEMMA InitProvenance == Init => Provenance
BY DEF Init, PathsInit, Provenance, DiskOK, KnowsOK, InstalledSteps, TargetSteps

\* For any number of overlapping and killed commands, a managed link points
\* only into a version that was written to the default file before it
\* (set_default_version always precedes update_symlinks).
THEOREM LinksFollowDefaultsHolds == Spec => []LinksFollowDefaults
<1>1. Spec => [](TypeInv /\ Provenance)
    BY InitTypeInv, NextTypeInv, InitProvenance, NextProvenance, PTL DEF Spec
<1>2. Provenance => LinksFollowDefaults
    BY DEF Provenance, DiskOK, LinksFollowDefaults, link_present
<1> QED BY <1>1, <1>2, PTL

\* For any number of overlapping and killed commands, a version is written to
\* the default file only after its directory has existed.
THEOREM DefaultsWereInstalledHolds == Spec => []DefaultsWereInstalled
<1>1. Spec => [](TypeInv /\ Provenance)
    BY InitTypeInv, NextTypeInv, InitProvenance, NextProvenance, PTL DEF Spec
<1>2. Provenance => DefaultsWereInstalled
    BY DEF Provenance, DiskOK, DefaultsWereInstalled
<1> QED BY <1>1, <1>2, PTL

-----------------------------------------------------------------------------
(* Integrity.  The archive path is shared by all versions, so that the     *)
(* checksum says something about what is extracted later only if no other  *)
(* command replaces the file in between: commands that do not overlap.     *)

Solo == \A p, q \in Procs : p = q

\* What the checksum of p's archive guarantees from verify to extraction.
VerifiedOK(p) ==
    /\ pc[p] = "open" => archive = ver(p)
    /\ pc[p] = "extract" => src[p] = ver(p)

Integrity == OnlyVerifiedBinaries /\ \A p \in Procs : VerifiedOK(p)

\* A process that is neither about to open its archive nor extracting it has
\* nothing to keep, whatever happens to the archive.
LEMMA ElsewhereIsVerified ==
    ASSUME NEW p \in Procs, ControlOK, NEW s \in Steps \ {"open", "extract"},
           pc' = [pc EXCEPT ![p] = s]
    PROVE  VerifiedOK(p)'
BY DEF ControlOK, VerifiedOK

\* Every step keeps what the checksum guaranteed to the process that takes it.
LEMMA StepVerifiedOK ==
    ASSUME TypeInv, NEW p \in Procs, VerifiedOK(p), Step(p)
    PROVE  VerifiedOK(p)'
<1>0. ControlOK /\ LocalOK(p)
    BY TypeParts DEF TypeInv, LocalsOK
<1> USE <1>0
<1>1. CASE VerifyChecksum(p)
    BY <1>1, ElsewhereIsVerified
    DEF VerifyChecksum, Goto, Finish, downloads, VerifiedOK, ControlOK, Steps, ver
<1>2. CASE OpenArchive(p)
    BY <1>2, ElsewhereIsVerified DEF OpenArchive, Goto, Finish, VerifiedOK, ControlOK, Steps, ver
<1>3. CASE ExtractEntry(p)
    BY <1>3, ElsewhereIsVerified
    DEF ExtractEntry, Goto, SetIdx, locals, VerifiedOK, ControlOK, Steps, ver
<1>4. CASE WriteChunk(p) \/ RemoveEntry(p)
    BY <1>4 DEF WriteChunk, RemoveEntry, locals, VerifiedOK, ver
<1>5. CASE \/ ResolveVersion(p) \/ ReadDefault(p) \/ CreateTmp(p) \/ WriteEnd(p)
           \/ FailAttempt(p) \/ RenameTmp(p) \/ ExtractFail(p) \/ WriteMetadata(p)
           \/ Configure(p) \/ RemoveArchive(p)
    BY <1>5, ElsewhereIsVerified
    DEF ResolveVersion, ReadDefault, CreateTmp, WriteEnd, FailAttempt, RenameTmp, ExtractFail,
        WriteMetadata, Configure, RemoveArchive, Goto, Finish, Steps
<1>6. CASE \/ TruncateDefault(p) \/ WriteDefault(p) \/ Unlink(p) \/ CreateLink(p)
           \/ CheckUninstall(p) \/ CheckDefault(p)
    BY <1>6, ElsewhereIsVerified
    DEF TruncateDefault, WriteDefault, Unlink, CreateLink, AfterLinks, CheckUninstall,
        CheckDefault, Goto, Finish, Steps
<1>7. CASE \/ RemoveDir(p) \/ RemoveDirFail(p) \/ AfterRemove(p) \/ RemoveDefault(p)
           \/ RemoveLink(p) \/ RepairLinks(p)
    BY <1>7, ElsewhereIsVerified
    DEF RemoveDir, RemoveDirFail, AfterRemove, RemoveDefault, RemoveLink, RepairLinks, Goto,
        Finish, Steps
<1> QED BY <1>1, <1>2, <1>3, <1>4, <1>5, <1>6, <1>7 DEF Step

\* Only the extraction of a verified archive writes a binary.
LEMMA StepBinaries ==
    ASSUME TypeInv, OnlyVerifiedBinaries, NEW p \in Procs, VerifiedOK(p), Step(p)
    PROVE  OnlyVerifiedBinaries'
<1>0. PathsTypeOK /\ ControlOK
    BY TypeParts DEF TypeInv
<1> USE <1>0 DEF OnlyVerifiedBinaries
<1>1. CASE KeepsDisk(p)
    BY <1>1, KeepsDiskUnchanged DEF disk, toolchains
<1>2. CASE ExtractEntry(p)
  <2>1. src[p] = ver(p) /\ ver(p) \in Versions
    BY <1>2 DEF ExtractEntry, VerifiedOK, ControlOK, ver
  <2>2. bin' = [bin EXCEPT ![ver(p)][idx[p]] = src[p]] \/ bin' = bin
    BY <1>2 DEF ExtractEntry
  <2> QED BY <2>1, <2>2 DEF PathsTypeOK
<1>3. CASE RemoveEntry(p)
    BY <1>3 DEF RemoveEntry, PathsTypeOK
<1>4. CASE OpenArchive(p) \/ WriteMetadata(p) \/ RemoveDir(p)
    BY <1>4 DEF OpenArchive, WriteMetadata, RemoveDir
<1>5. CASE \/ TruncateDefault(p) \/ WriteDefault(p) \/ Unlink(p) \/ CreateLink(p)
           \/ RemoveDefault(p) \/ RemoveLink(p)
    BY <1>5 DEF TruncateDefault, WriteDefault, Unlink, CreateLink, RemoveDefault, RemoveLink,
                toolchains
<1> QED BY <1>1, <1>2, <1>3, <1>4, <1>5 DEF Step, KeepsDisk

\* With one process, Integrity is inductive on top of the type invariant.
LEMMA NextIntegrity ==
    ASSUME Solo, TypeInv, Integrity, [Next]_vars
    PROVE  Integrity'
<1>1. ASSUME NEW p \in Procs, Step(p) PROVE Integrity'
    BY <1>1, StepVerifiedOK, StepBinaries DEF Integrity, Solo
<1>2. ASSUME NEW p \in Procs, Crash(p) PROVE Integrity'
  <2>1. VerifiedOK(p)'
    BY <1>2, TypeParts, ElsewhereIsVerified DEF TypeInv, Crash, Finish, Steps
  <2> QED BY <1>2, <2>1 DEF Integrity, Solo, Crash, disk, toolchains, OnlyVerifiedBinaries
<1>3. ASSUME NEW p \in Procs, Start(p) PROVE Integrity'
  <2>1. PICK c \in Commands : pc' = [pc EXCEPT ![p] = FirstStep(c)]
    BY <1>3 DEF Start
  <2>2. FirstStep(c) \in Steps \ {"open", "extract"}
    BY InstallerAssumption DEF FirstStep, AllCommands, Steps
  <2>3. VerifiedOK(p)'
    BY <2>1, <2>2, TypeParts, ElsewhereIsVerified DEF TypeInv
  <2> QED BY <1>3, <2>3 DEF Integrity, Solo, Start, disk, toolchains, OnlyVerifiedBinaries
<1>4. CASE UNCHANGED vars
    BY <1>4 DEF vars, disk, toolchains, downloads, locals, Integrity, OnlyVerifiedBinaries,
                VerifiedOK, ver
<1> QED BY <1>1, <1>2, <1>3, <1>4 DEF Next

\* Commands that do not overlap put only binaries of v's published archive into
\* toolchains/<v>/, whatever earlier commands left under the shared archive
\* path and wherever they were killed (verify_checksum before extract_archive).
THEOREM SoloIntegrity ==
    ASSUME Solo
    PROVE  Spec => []OnlyVerifiedBinaries
<1>1. Init => Integrity
    BY DEF Init, PathsInit, Integrity, OnlyVerifiedBinaries, VerifiedOK
<1>2. TypeInv /\ Integrity /\ [Next]_vars => Integrity'
    BY NextIntegrity
<1>3. Integrity => OnlyVerifiedBinaries
    BY DEF Integrity
<1> QED BY <1>1, <1>2, <1>3, InitTypeInv, NextTypeInv, PTL DEF Spec

-----------------------------------------------------------------------------
(* Where a command is, and what it has achieved by then.                   *)

Installs == {"install", "tui_install"}
Switches == {"default", "tui_default"}

cmd(p) == job[p].cmd

\* Every binary of the archive is there.
Whole(v) == \A b \in ArchiveOf[v] : bin[v][b] = v

\* The steps of a command.
FlowOK(p) ==
    /\ pc[p] \in {"resolve", "readDefault", "connect", "write", "rename", "verify", "open",
                  "extract", "metadata", "configure", "rmArchive"} => cmd(p) \in Installs
    /\ pc[p] \in {"rmdir", "removed", "rmDefault", "rmLinks", "repair"} => cmd(p) = "uninstall"
    /\ pc[p] = "check" => cmd(p) \in {"uninstall", "default"}

\* An install extracts one binary after the other, and what it has extracted
\* is still there when it writes the default, the links and the metadata, and
\* when it ends.
InstallOK(p) ==
    /\ pc[p] \in {"idle", "resolve", "readDefault"} => src[p] = NoVersion
    /\ pc[p] = "extract" => \A b \in ArchiveOf[ver(p)] : b < idx[p] => bin[ver(p)][b] = ver(p)
    /\ \/ pc[p] \in {"metadata", "configure", "rmArchive"}
       \/ pc[p] \in TargetSteps /\ cmd(p) \in Installs /\ src[p] # NoVersion
       => Whole(ver(p))
    /\ \/ pc[p] \in {"configure", "rmArchive"}
       \/ pc[p] \in TargetSteps /\ cmd(p) \in Installs /\ src[p] # NoVersion
       => ver(p) \in meta
    /\ pc[p] = "rmArchive" => default # NoVersion

\* update_symlinks: the links before the current one are made and work, and
\* the default is the version they point into.
LinkingOK(p) ==
    pc[p] \in {"unlink", "link"} =>
        /\ default = tgt[p]
        /\ \A b \in Binaries : b < idx[p] => link[b] = tgt[p] /\ binary_exists(tgt[p], b)
        /\ pc[p] = "link" => binary_exists(tgt[p], idx[p])

SwitchOK(p) == pc[p] \in TargetSteps /\ cmd(p) \in Switches => tgt[p] = ver(p)

\* An uninstall has removed the directory before it looks at the default and
\* the links, and never chooses the version again.
UninstallOK(p) ==
    /\ pc[p] \in {"rmdir", "removed"} => (wasDefault[p] <=> default = ver(p))
    /\ \/ pc[p] \in {"removed", "rmDefault", "rmLinks", "repair"}
       \/ pc[p] \in TargetSteps /\ cmd(p) = "uninstall"
       => ver(p) \notin present
    /\ pc[p] \in {"rmLinks", "repair"} => default # ver(p)
    /\ pc[p] \in TargetSteps /\ cmd(p) = "uninstall" => tgt[p] # ver(p)
    /\ pc[p] = "rmLinks" => \A b \in Binaries : b < idx[p] => link[b] = NoVersion

CommandOK(p) == FlowOK(p) /\ InstallOK(p) /\ LinkingOK(p) /\ SwitchOK(p) /\ UninstallOK(p)

\* SuccessIsComplete, for one process.
EndedOK(p) ==
    /\ Ended(p, Installs, "ok") =>
          ver(p) \in meta /\ Whole(ver(p)) /\ default # NoVersion /\ archive = NoVersion
    /\ Ended(p, {"install"}, "already") => default # NoVersion
    /\ Ended(p, {"uninstall"}, "failed") => ver(p) \notin present
    /\ Ended(p, {"uninstall"}, "ok") =>
          ver(p) \notin present /\ default # ver(p) /\ validate_symlinks = {}
    /\ Ended(p, Switches, "ok") =>
          default = ver(p) /\ link = [b \in Binaries |-> ver(p)] /\ validate_symlinks = {}

-----------------------------------------------------------------------------
(* What the disk holds, as long as nothing has disturbed a command.        *)

\* A binary is in the directory of a version whose archive holds it.
StockOK ==
    \A v \in Versions, b \in Binaries :
        binary_exists(v, b) => v \in present /\ b \in ArchiveOf[v] /\ bin[v][b] = v

\* A directory that is neither being filled nor being removed is whole.
PresentOK(p) ==
    \A v \in present : Whole(v) \/ (v = ver(p) /\ pc[p] \in {"extract", "rmdir"})

\* The default has a directory, unless it is being replaced because that has
\* just been removed; the version that is about to be the default has one.
DefaultOK(p) ==
    /\ default # NoVersion =>
          \/ default \in present
          \/ /\ pc[p] \in {"removed", "rmDefault", "truncate"}
             /\ cmd(p) = "uninstall"
             /\ default = ver(p)
    /\ pc[p] \in TargetSteps => tgt[p] \in present
    /\ pc[p] \in {"readDefault", "configure"} => ver(p) \in present

\* All links that update_symlinks or remove_symlink has not come to yet are
\* alike: absent, or into a version whose archive has every managed binary.
\* That version is still there once the first link has been replaced, since
\* only a link that works makes way.
LinksOK(p, u) ==
    /\ u # NoVersion => ArchiveOf[u] = Binaries
    /\ pc[p] \notin {"unlink", "link", "rmLinks"} => \A b \in Binaries : link[b] = u
    /\ pc[p] \in {"unlink", "link", "rmLinks"} => \A b \in Binaries : b > idx[p] => link[b] = u
    /\ pc[p] \in {"unlink", "rmLinks"} => link[idx[p]] = u
    /\ pc[p] \in {"unlink", "link"} /\ idx[p] > 1 => u = NoVersion \/ u \in present
    /\ pc[p] = "link" =>
          \/ link[idx[p]] = NoVersion /\ (u = NoVersion \/ u \in present)
          \/ link[idx[p]] = u /\ idx[p] = 1

QuietOK(p) ==
    quiet => PresentOK(p) /\ DefaultOK(p) /\ \E u \in VersionOrNone : LinksOK(p, u)

-----------------------------------------------------------------------------
(* The steps of a command.                                                 *)

\* The process after Finish.
LEMMA FinishAt ==
    ASSUME ControlOK, NEW p \in Procs, NEW how, Finish(p, how)
    PROVE  pc'[p] = "idle" /\ outcome'[p] = how /\ src'[p] = NoVersion
BY DEF Finish, ControlOK

\* The process after Goto.
LEMMA GotoAt ==
    ASSUME ControlOK, NEW p \in Procs, NEW s, Goto(p, s)
    PROVE  pc'[p] = s
BY DEF Goto, ControlOK

\* The local variables of the process after a step that sets one or none.
LEMMA LocalsAt ==
    ASSUME ControlOK, NEW p \in Procs
    PROVE  /\ UNCHANGED locals => UNCHANGED <<tgt, idx, src, wasDefault>>
           /\ \A v : SetTgt(p, v) => tgt'[p] = v /\ UNCHANGED <<idx, src, wasDefault>>
           /\ \A i : SetIdx(p, i) => idx'[p] = i /\ UNCHANGED <<tgt, src, wasDefault>>
BY DEF locals, SetTgt, SetIdx, ControlOK

\* An idle process has nothing to keep to, a busy one has not ended.
LEMMA IdleOrBusy ==
    ASSUME NEW p \in Procs
    PROVE  /\ pc'[p] = "idle" /\ src'[p] = NoVersion => CommandOK(p)'
           /\ pc'[p] # "idle" => EndedOK(p)'
<1>1. ASSUME pc'[p] = "idle", src'[p] = NoVersion PROVE CommandOK(p)'
  <2>1. FlowOK(p)'
    BY <1>1 DEF FlowOK
  <2>2. InstallOK(p)'
    BY <1>1 DEF InstallOK, TargetSteps
  <2>3. LinkingOK(p)'
    BY <1>1 DEF LinkingOK
  <2>4. SwitchOK(p)'
    BY <1>1 DEF SwitchOK, TargetSteps
  <2>5. UninstallOK(p)'
    BY <1>1 DEF UninstallOK, TargetSteps
  <2> QED BY <2>1, <2>2, <2>3, <2>4, <2>5 DEF CommandOK
<1>2. ASSUME pc'[p] # "idle" PROVE EndedOK(p)'
    BY <1>2 DEF EndedOK, Ended
<1> QED BY <1>1, <1>2

\* The facts about a step that every case needs.
StepOf(p) ==
    /\ ControlOK /\ PathsTypeOK /\ LocalOK(p)
    /\ ver(p) \in Versions /\ ver(p)' = ver(p) /\ cmd(p)' = cmd(p) /\ cmd(p) \in AllCommands
    /\ CommandOK(p) /\ EndedOK(p) /\ VerifiedOK(p)

\* The steps of a command follow each other.
LEMMA FlowStep ==
    ASSUME NEW p \in Procs, StepOf(p), Step(p)
    PROVE  FlowOK(p)'
<1> USE FinishAt, GotoAt DEF StepOf, CommandOK, FlowOK, Installs
<1>1. CASE WriteChunk(p) \/ RemoveEntry(p)
    BY <1>1 DEF WriteChunk, RemoveEntry
<1>2. CASE \/ ResolveVersion(p) \/ ReadDefault(p) \/ CreateTmp(p) \/ WriteEnd(p) \/ FailAttempt(p)
           \/ RenameTmp(p) \/ VerifyChecksum(p)
    BY <1>2 DEF ResolveVersion, ReadDefault, CreateTmp, WriteEnd, FailAttempt, RenameTmp, VerifyChecksum
<1>3. CASE \/ OpenArchive(p) \/ ExtractEntry(p) \/ ExtractFail(p) \/ WriteMetadata(p)
           \/ Configure(p) \/ RemoveArchive(p)
    BY <1>3 DEF OpenArchive, ExtractEntry, ExtractFail, WriteMetadata, Configure, RemoveArchive
<1>4. CASE TruncateDefault(p) \/ WriteDefault(p) \/ Unlink(p) \/ CheckUninstall(p) \/ CheckDefault(p)
    BY <1>4 DEF TruncateDefault, WriteDefault, Unlink, CheckUninstall, CheckDefault, cmd
<1>5. CASE CreateLink(p)
    BY <1>5 DEF CreateLink, AfterLinks, cmd
<1>6. CASE \/ RemoveDir(p) \/ RemoveDirFail(p) \/ AfterRemove(p) \/ RemoveDefault(p)
           \/ RemoveLink(p) \/ RepairLinks(p)
    BY <1>6 DEF RemoveDir, RemoveDirFail, AfterRemove, RemoveDefault, RemoveLink, RepairLinks
<1> QED BY <1>1, <1>2, <1>3, <1>4, <1>5, <1>6 DEF Step

\* What an install has extracted stays there.
LEMMA InstallStep ==
    ASSUME NEW p \in Procs, StepOf(p), Step(p)
    PROVE  InstallOK(p)'
<1> USE FinishAt, GotoAt, LocalsAt DEF StepOf, CommandOK, FlowOK, InstallOK, Installs, TargetSteps, Whole
<1>1. CASE WriteChunk(p)
    BY <1>1 DEF WriteChunk, disk, toolchains, locals
<1>2. CASE \/ ResolveVersion(p) \/ CreateTmp(p) \/ WriteEnd(p) \/ FailAttempt(p)
           \/ RenameTmp(p) \/ VerifyChecksum(p) \/ ExtractFail(p)
    BY <1>2 DEF ResolveVersion, CreateTmp, WriteEnd, FailAttempt, RenameTmp, VerifyChecksum, ExtractFail
<1>3. CASE ReadDefault(p)
    BY <1>3 DEF ReadDefault
<1>4. CASE OpenArchive(p)
  <2>1. CASE pc'[p] = "extract" /\ idx' = [idx EXCEPT ![p] = 1]
    <3>1. idx'[p] = 1
      BY <2>1 DEF ControlOK
    <3>2. \A b \in ArchiveOf[ver(p)] : ~(b < 1)
      BY InstallerAssumption DEF Binaries
    <3> QED BY <2>1, <3>1, <3>2
  <2> QED BY <1>4, <2>1 DEF OpenArchive
<1>5. CASE ExtractEntry(p)
  <2>1. PICK b \in Binaries, v \in Versions : b = idx[p] /\ v = ver(p)
    BY <1>5 DEF ExtractEntry, LocalOK, LoopSteps
  <2>2. src[p] = v /\ EntriesOf(src[p]) = ArchiveOf[v]
    BY <1>5, <2>1 DEF ExtractEntry, VerifiedOK, EntriesOf
  <2>3. bin' = [bin EXCEPT ![v][b] = v] \/ (bin' = bin /\ b \notin ArchiveOf[v])
    BY <1>5, <2>1, <2>2 DEF ExtractEntry
  <2>4. ASSUME NEW c \in ArchiveOf[v], c <= b PROVE bin'[v][c] = v
    <3>1. c \in Binaries
      BY InstallerAssumption
    <3>2. c # b => bin[v][c] = v
      BY <1>5, <2>1, <2>4, <3>1 DEF ExtractEntry, Binaries
    <3> QED BY <2>1, <2>3, <3>1, <3>2 DEF PathsTypeOK
  <2>5. CASE b < NumBinaries
    <3>1. idx'[p] = b + 1 /\ pc'[p] = "extract"
      BY <1>5, <2>1, <2>5 DEF ExtractEntry
    <3>2. \A c \in ArchiveOf[v] : c < b + 1 => c <= b
      BY InstallerAssumption DEF Binaries
    <3> QED BY <2>1, <2>4, <3>1, <3>2
  <2>6. CASE ~(b < NumBinaries)
    <3>1. pc'[p] = "metadata"
      BY <1>5, <2>1, <2>6 DEF ExtractEntry
    <3>2. \A c \in ArchiveOf[v] : c <= b
      BY <2>6, InstallerAssumption, PathsAssumption DEF Binaries
    <3> QED BY <2>1, <2>4, <3>1, <3>2
  <2> QED BY <2>5, <2>6
<1>6. CASE WriteMetadata(p)
    BY <1>6 DEF WriteMetadata
<1>7. CASE Configure(p)
    BY <1>7 DEF Configure, disk, toolchains
<1>8. CASE RemoveArchive(p) \/ TruncateDefault(p) \/ WriteDefault(p) \/ Unlink(p)
    BY <1>8 DEF RemoveArchive, TruncateDefault, WriteDefault, Unlink, disk, toolchains, locals
<1>9. CASE CreateLink(p)
  <2>1. default # NoVersion
    BY <1>9, PathsAssumption DEF CreateLink, LinkingOK, LocalOK
  <2>2. UNCHANGED <<bin, meta, default>>
    BY <1>9 DEF CreateLink, toolchains
  <2>3. \/ pc'[p] = "idle" /\ src'[p] = NoVersion
        \/ pc'[p] = "unlink" /\ UNCHANGED src
        \/ pc'[p] = "rmArchive" /\ src[p] # NoVersion /\ cmd(p) \in Installs
    BY <1>9 DEF CreateLink, AfterLinks, cmd
  <2> QED BY <1>9, <2>1, <2>2, <2>3 DEF CreateLink
<1>10. CASE CheckUninstall(p) \/ CheckDefault(p)
    BY <1>10 DEF CheckUninstall, CheckDefault
<1>11. CASE \/ RemoveEntry(p) \/ RemoveDir(p) \/ RemoveDirFail(p) \/ AfterRemove(p)
            \/ RemoveDefault(p) \/ RemoveLink(p) \/ RepairLinks(p)
    BY <1>11 DEF RemoveEntry, RemoveDir, RemoveDirFail, AfterRemove, RemoveDefault, RemoveLink, RepairLinks
<1> QED BY <1>1, <1>2, <1>3, <1>4, <1>5, <1>6, <1>7, <1>8, <1>9, <1>10, <1>11 DEF Step

\* The links are made in order, and those that are made stay.
LEMMA LinkingStep ==
    ASSUME NEW p \in Procs, StepOf(p), Step(p)
    PROVE  LinkingOK(p)'
<1> USE FinishAt, GotoAt, LocalsAt DEF StepOf, CommandOK, LinkingOK, binary_exists
<1>1. CASE WriteChunk(p) \/ RemoveEntry(p)
    BY <1>1 DEF WriteChunk, RemoveEntry
<1>2. CASE \/ ResolveVersion(p) \/ ReadDefault(p) \/ CreateTmp(p) \/ WriteEnd(p) \/ FailAttempt(p)
           \/ RenameTmp(p) \/ VerifyChecksum(p)
    BY <1>2 DEF ResolveVersion, ReadDefault, CreateTmp, WriteEnd, FailAttempt, RenameTmp, VerifyChecksum
<1>3. CASE \/ OpenArchive(p) \/ ExtractEntry(p) \/ ExtractFail(p) \/ WriteMetadata(p)
           \/ Configure(p) \/ RemoveArchive(p)
    BY <1>3 DEF OpenArchive, ExtractEntry, ExtractFail, WriteMetadata, Configure, RemoveArchive
<1>4. CASE TruncateDefault(p) \/ CheckUninstall(p) \/ CheckDefault(p)
    BY <1>4 DEF TruncateDefault, CheckUninstall, CheckDefault
<1>5. CASE WriteDefault(p)
  <2>1. pc'[p] = "unlink" /\ idx'[p] = 1 /\ default' = tgt'[p]
    BY <1>5 DEF WriteDefault
  <2> QED BY <2>1 DEF Binaries
<1>6. CASE Unlink(p)
  <2>1. UNCHANGED <<bin, default>> /\ idx[p] \in Binaries
    BY <1>6 DEF Unlink, toolchains, LocalOK, LoopSteps
  <2>2. CASE pc'[p] = "link" /\ UNCHANGED <<tgt, idx>> /\ binary_exists(tgt[p], idx[p])
    <3>1. PICK i \in Binaries : i = idx[p]
      BY <2>1
    <3>2. link' = link \/ link' = [link EXCEPT ![i] = NoVersion]
      BY <1>6, <3>1 DEF Unlink
    <3>3. \A b \in Binaries : b < i => b # i
      BY DEF Binaries
    <3>4. \A b \in Binaries : b < idx[p] => link'[b] = link[b]
      BY <3>1, <3>2, <3>3 DEF PathsTypeOK
    <3> QED BY <1>6, <2>1, <2>2, <3>4 DEF Unlink
  <2> QED BY <1>6, <2>2 DEF Unlink
<1>7. CASE CreateLink(p)
  <2>1. PICK i \in Binaries : i = idx[p]
    BY <1>7 DEF CreateLink, LocalOK, LoopSteps
  <2>2. CASE pc'[p] = "unlink" /\ idx'[p] = i + 1 /\ tgt' = tgt /\ link' = [link EXCEPT ![i] = tgt[p]]
    <3>1. \A b \in Binaries : b < i + 1 => b < i \/ b = i
      BY DEF Binaries
    <3>2. UNCHANGED <<bin, default>>
      BY <1>7 DEF CreateLink, toolchains
    <3> QED BY <1>7, <2>1, <2>2, <3>1, <3>2 DEF CreateLink, PathsTypeOK, Binaries
  <2>3. \/ pc'[p] \in {"idle", "rmArchive"}
        \/ /\ pc'[p] = "unlink" /\ idx'[p] = i + 1
           /\ tgt' = tgt /\ link' = [link EXCEPT ![i] = tgt[p]]
    BY <1>7, <2>1 DEF CreateLink, AfterLinks
  <2> QED BY <2>2, <2>3
<1>8. CASE \/ RemoveDir(p) \/ RemoveDirFail(p) \/ AfterRemove(p) \/ RemoveDefault(p) \/ RemoveLink(p)
    BY <1>8 DEF RemoveDir, RemoveDirFail, AfterRemove, RemoveDefault, RemoveLink
<1>9. CASE RepairLinks(p)
  <2>1. \/ pc'[p] \in {"idle", "rmLinks"}
        \/ pc'[p] = "unlink" /\ idx'[p] = 1 /\ default' = tgt'[p]
    BY <1>9 DEF RepairLinks, ControlOK, disk
  <2> QED BY <2>1 DEF Binaries
<1> QED BY <1>1, <1>2, <1>3, <1>4, <1>5, <1>6, <1>7, <1>8, <1>9 DEF Step

\* A change of the default is to the version that was asked for.
LEMMA SwitchStep ==
    ASSUME NEW p \in Procs, StepOf(p), Step(p)
    PROVE  SwitchOK(p)'
<1> USE FinishAt, GotoAt, LocalsAt DEF StepOf, CommandOK, FlowOK, SwitchOK, Installs, Switches, TargetSteps
<1>1. CASE WriteChunk(p) \/ RemoveEntry(p)
    BY <1>1 DEF WriteChunk, RemoveEntry
<1>2. CASE \/ ResolveVersion(p) \/ ReadDefault(p) \/ CreateTmp(p) \/ WriteEnd(p) \/ FailAttempt(p)
           \/ RenameTmp(p) \/ VerifyChecksum(p)
    BY <1>2 DEF ResolveVersion, ReadDefault, CreateTmp, WriteEnd, FailAttempt, RenameTmp, VerifyChecksum
<1>3. CASE \/ OpenArchive(p) \/ ExtractEntry(p) \/ ExtractFail(p) \/ WriteMetadata(p)
           \/ Configure(p) \/ RemoveArchive(p)
    BY <1>3 DEF OpenArchive, ExtractEntry, ExtractFail, WriteMetadata, Configure, RemoveArchive
<1>4. CASE TruncateDefault(p) \/ WriteDefault(p) \/ Unlink(p) \/ CheckUninstall(p) \/ CheckDefault(p)
    BY <1>4 DEF TruncateDefault, WriteDefault, Unlink, CheckUninstall, CheckDefault
<1>5. CASE CreateLink(p)
  <2>1. pc'[p] \in {"idle", "rmArchive"} \/ (pc'[p] = "unlink" /\ tgt' = tgt)
    BY <1>5 DEF CreateLink, AfterLinks
  <2> QED BY <1>5, <2>1 DEF CreateLink
<1>6. CASE \/ RemoveDir(p) \/ RemoveDirFail(p) \/ AfterRemove(p) \/ RemoveDefault(p)
           \/ RemoveLink(p) \/ RepairLinks(p)
    BY <1>6 DEF RemoveDir, RemoveDirFail, AfterRemove, RemoveDefault, RemoveLink, RepairLinks
<1> QED BY <1>1, <1>2, <1>3, <1>4, <1>5, <1>6 DEF Step

\* An uninstall has removed the version and does not choose it again.
LEMMA UninstallStep ==
    ASSUME NEW p \in Procs, StepOf(p), Step(p)
    PROVE  UninstallOK(p)'
<1> USE FinishAt, GotoAt, LocalsAt DEF StepOf, CommandOK, FlowOK, UninstallOK, Installs, TargetSteps
<1>1. CASE WriteChunk(p) \/ RemoveEntry(p)
    BY <1>1 DEF WriteChunk, RemoveEntry, disk, toolchains, locals
<1>2. CASE \/ ResolveVersion(p) \/ ReadDefault(p) \/ CreateTmp(p) \/ WriteEnd(p) \/ FailAttempt(p)
           \/ RenameTmp(p) \/ VerifyChecksum(p)
    BY <1>2 DEF ResolveVersion, ReadDefault, CreateTmp, WriteEnd, FailAttempt, RenameTmp, VerifyChecksum
<1>3. CASE \/ OpenArchive(p) \/ ExtractEntry(p) \/ ExtractFail(p) \/ WriteMetadata(p)
           \/ Configure(p) \/ RemoveArchive(p)
    BY <1>3 DEF OpenArchive, ExtractEntry, ExtractFail, WriteMetadata, Configure, RemoveArchive
<1>4. CASE TruncateDefault(p) \/ WriteDefault(p) \/ Unlink(p)
    BY <1>4 DEF TruncateDefault, WriteDefault, Unlink, toolchains
<1>5. CASE CreateLink(p)
  <2>1. \/ pc'[p] = "idle"
        \/ pc'[p] = "rmArchive"
        \/ pc'[p] = "unlink" /\ UNCHANGED tgt
    BY <1>5 DEF CreateLink, AfterLinks
  <2> QED BY <1>5, <2>1 DEF CreateLink, toolchains
<1>6. CASE CheckUninstall(p)
  <2>1. \/ pc'[p] = "idle"
        \/ pc'[p] = "rmdir" /\ wasDefault' = [wasDefault EXCEPT ![p] = (default = ver(p))]
    BY <1>6 DEF CheckUninstall
  <2>2. pc'[p] = "rmdir" => (wasDefault'[p] <=> default = ver(p))
    BY <2>1 DEF ControlOK
  <2> QED BY <1>6, <2>1, <2>2 DEF CheckUninstall, disk
<1>7. CASE CheckDefault(p)
    BY <1>7 DEF CheckDefault, cmd
<1>8. CASE RemoveDir(p) \/ RemoveDirFail(p)
    BY <1>8 DEF RemoveDir, RemoveDirFail
<1>9. CASE AfterRemove(p)
  <2>1. UNCHANGED <<present, default>> /\ ver(p) \notin present
    BY <1>9 DEF AfterRemove, disk, toolchains
  <2>2. \/ pc'[p] \in {"idle", "rmDefault"}
        \/ pc'[p] = "truncate" /\ tgt'[p] \in present
        \/ pc'[p] = "repair" /\ ~wasDefault[p]
    BY <1>9 DEF AfterRemove, is_last_installed, list_installed_versions
  <2>3. ~wasDefault[p] => default # ver(p)
    BY <1>9 DEF AfterRemove
  <2> QED BY <2>1, <2>2, <2>3
<1>10. CASE RemoveDefault(p)
  <2>1. /\ pc'[p] = "rmLinks" /\ idx'[p] = 1 /\ default' = NoVersion
        /\ ver(p) \notin present /\ UNCHANGED present
    BY <1>10 DEF RemoveDefault, toolchains
  <2> QED BY <2>1, PathsAssumption DEF Binaries
<1>11. CASE RemoveLink(p)
  <2>1. PICK i \in Binaries : i = idx[p]
    BY <1>11 DEF RemoveLink, LocalOK, LoopSteps
  <2>2. \/ pc'[p] = "idle"
        \/ pc'[p] = "rmLinks" /\ idx'[p] = i + 1 /\ link' = [link EXCEPT ![i] = NoVersion]
    BY <1>11, <2>1 DEF RemoveLink
  <2>3. UNCHANGED <<present, default>>
    BY <1>11 DEF RemoveLink, toolchains
  <2>4. \A b \in Binaries : b < i + 1 => b < i \/ b = i
    BY DEF Binaries
  <2> QED BY <1>11, <2>1, <2>2, <2>3, <2>4 DEF RemoveLink, PathsTypeOK
<1>12. CASE RepairLinks(p)
  <2>1. UNCHANGED <<present, default>> /\ ver(p) \notin present /\ default # ver(p)
    BY <1>12 DEF RepairLinks, disk, toolchains
  <2>2. \/ pc'[p] = "idle"
        \/ pc'[p] = "unlink" /\ tgt'[p] = default
        \/ pc'[p] = "rmLinks" /\ idx'[p] = 1
    BY <1>12 DEF RepairLinks, ControlOK
  <2> QED BY <2>1, <2>2 DEF Binaries
<1> QED BY <1>1, <1>2, <1>3, <1>4, <1>5, <1>6, <1>7, <1>8, <1>9, <1>10, <1>11, <1>12 DEF Step

\* The last link is made: all of them work.
LEMMA LastLink ==
    ASSUME NEW p \in Procs, StepOf(p), CreateLink(p), ~link_present(idx[p]), ~(idx[p] < NumBinaries)
    PROVE  /\ default' = tgt[p]
           /\ \A b \in Binaries : binary_exists(tgt[p], b)
           /\ link' = [b \in Binaries |-> tgt[p]]
           /\ validate_symlinks' = {}
<1>1. PICK i \in Binaries : i = idx[p]
    BY DEF CreateLink, StepOf, LocalOK, LoopSteps
<1>2. \A b \in Binaries : b = i \/ b < i
    BY <1>1, PathsAssumption DEF Binaries
<1>3. link' = [link EXCEPT ![i] = tgt[p]] /\ UNCHANGED <<bin, default>>
    BY <1>1 DEF CreateLink, toolchains
<1>4. default = tgt[p] /\ \A b \in Binaries : binary_exists(tgt[p], b) /\ (b < i => link[b] = tgt[p])
    BY <1>1, <1>2 DEF StepOf, CommandOK, LinkingOK, CreateLink
<1>5. link' = [b \in Binaries |-> tgt[p]]
    BY <1>2, <1>3, <1>4 DEF StepOf, PathsTypeOK
<1>6. \A b \in Binaries : link'[b] = tgt[p] /\ bin'[tgt[p]][b] # NoVersion
    BY <1>3, <1>4, <1>5 DEF binary_exists
<1>7. validate_symlinks' = {}
    BY <1>6 DEF validate_symlinks, link_target_exists, binary_exists
<1> QED BY <1>3, <1>4, <1>5, <1>7

\* The last link is removed: none is broken.
LEMMA LastUnlink ==
    ASSUME NEW p \in Procs, StepOf(p), RemoveLink(p), ~(idx[p] < NumBinaries)
    PROVE  validate_symlinks' = {}
<1>1. PICK i \in Binaries : i = idx[p]
    BY DEF RemoveLink, StepOf, LocalOK, LoopSteps
<1>2. \A b \in Binaries : b = i \/ b < i
    BY <1>1, PathsAssumption DEF Binaries
<1>3. link' = [link EXCEPT ![i] = NoVersion]
    BY <1>1 DEF RemoveLink
<1>4. \A b \in Binaries : link'[b] = NoVersion
    BY <1>1, <1>2, <1>3 DEF StepOf, CommandOK, UninstallOK, RemoveLink, PathsTypeOK
<1> QED BY <1>4 DEF validate_symlinks, link_present

\* A command that returns has done what its outcome says.
LEMMA EndedStep ==
    ASSUME Solo, NEW p \in Procs, StepOf(p), Step(p)
    PROVE  EndedOK(p)'
<1> USE FinishAt, GotoAt DEF StepOf, CommandOK, FlowOK
<1>0. pc'[p] # "idle" => EndedOK(p)'
    BY IdleOrBusy
<1>1. CASE WriteChunk(p) \/ RemoveEntry(p)
    BY <1>0, <1>1 DEF WriteChunk, RemoveEntry
<1>2. ASSUME cmd(p) \in Installs, pc'[p] = "idle", outcome'[p] = "failed" PROVE EndedOK(p)'
    BY <1>2 DEF EndedOK, Ended, Installs, Switches, cmd
<1>3. CASE \/ CreateTmp(p) \/ WriteEnd(p) \/ FailAttempt(p) \/ RenameTmp(p) \/ VerifyChecksum(p)
           \/ OpenArchive(p) \/ ExtractEntry(p) \/ ExtractFail(p) \/ WriteMetadata(p) \/ Configure(p)
    BY <1>0, <1>2, <1>3 DEF CreateTmp, WriteEnd, FailAttempt, RenameTmp, VerifyChecksum, OpenArchive,
       ExtractEntry, ExtractFail, WriteMetadata, Configure
<1>4. CASE ResolveVersion(p)
  <2>1. \/ pc'[p] # "idle"
        \/ pc'[p] = "idle" /\ outcome'[p] = "failed" /\ cmd(p) \in Installs
        \/ pc'[p] = "idle" /\ outcome'[p] = "already" /\ cmd(p) = "tui_install"
    BY <1>4 DEF ResolveVersion, cmd
  <2>2. CASE pc'[p] = "idle" /\ outcome'[p] = "already" /\ cmd(p) = "tui_install"
    BY <2>2 DEF EndedOK, Ended, Installs, Switches, cmd
  <2> QED BY <1>0, <1>2, <2>1, <2>2
<1>5. CASE ReadDefault(p)
  <2>1. \/ pc'[p] # "idle"
        \/ /\ pc'[p] = "idle" /\ outcome'[p] = "already" /\ cmd(p) \in Installs
           /\ default' # NoVersion
    BY <1>5 DEF ReadDefault, disk
  <2>2. CASE pc'[p] = "idle" /\ outcome'[p] = "already" /\ cmd(p) \in Installs /\ default' # NoVersion
    BY <2>2 DEF EndedOK, Ended, Installs, Switches, cmd
  <2> QED BY <1>0, <2>1, <2>2
<1>6. CASE RemoveArchive(p)
  <2>1. /\ pc'[p] = "idle" /\ outcome'[p] = "ok" /\ cmd(p) \in Installs
        /\ archive' = NoVersion /\ default' # NoVersion
    BY <1>6 DEF RemoveArchive, disk, InstallOK
  <2>2. ver(p) \in meta' /\ Whole(ver(p))'
    BY <1>6 DEF RemoveArchive, disk, toolchains, InstallOK, Whole
  <2> QED BY <2>1, <2>2 DEF EndedOK, Ended, Installs, Switches, cmd
<1>7. CASE TruncateDefault(p) \/ WriteDefault(p) \/ RemoveDefault(p)
    BY <1>0, <1>7 DEF TruncateDefault, WriteDefault, RemoveDefault
<1>8. ASSUME pc'[p] = "idle", outcome'[p] = "failed", cmd(p) = "uninstall" => ver(p) \notin present'
      PROVE  EndedOK(p)'
    BY <1>8 DEF EndedOK, Ended, Installs, Switches, cmd
<1>9. CASE Unlink(p)
  <2>1. cmd(p) = "uninstall" => ver(p) \notin present'
    BY <1>9 DEF Unlink, toolchains, UninstallOK, TargetSteps
  <2>2. pc'[p] = "link" \/ (pc'[p] = "idle" /\ outcome'[p] = "failed")
    BY <1>9 DEF Unlink
  <2> QED BY <1>0, <1>8, <2>1, <2>2
<1>10. CASE CreateLink(p)
  <2>1. cmd(p) = "uninstall" => ver(p) \notin present' /\ tgt[p] # ver(p)
    BY <1>10 DEF CreateLink, toolchains, UninstallOK, TargetSteps
  <2>2. CASE link_present(idx[p])
    BY <1>8, <1>10, <2>1, <2>2 DEF CreateLink
  <2>3. CASE ~link_present(idx[p]) /\ idx[p] < NumBinaries
    BY <1>0, <1>10, <2>3 DEF CreateLink
  <2>4. CASE ~link_present(idx[p]) /\ ~(idx[p] < NumBinaries)
    <3>1. /\ default' = tgt[p] /\ tgt[p] \in Versions
          /\ link' = [b \in Binaries |-> tgt[p]] /\ validate_symlinks' = {}
      BY <1>10, <2>4, LastLink DEF LocalOK, TargetSteps, CreateLink
    <3>2. \/ pc'[p] # "idle"
          \/ pc'[p] = "idle" /\ outcome'[p] = "already" /\ cmd(p) \in Installs
          \/ pc'[p] = "idle" /\ outcome'[p] = "ok" /\ cmd(p) \notin Installs
      BY <1>10, <2>4 DEF CreateLink, AfterLinks, Installs, cmd
    <3>3. cmd(p) \in Switches => tgt[p] = ver(p)
      BY <1>10 DEF CreateLink, SwitchOK, TargetSteps
    <3>4. CASE pc'[p] = "idle" /\ outcome'[p] = "already" /\ cmd(p) \in Installs
      BY <3>1, <3>4, PathsAssumption DEF EndedOK, Ended, Installs, Switches, cmd
    <3>5. CASE pc'[p] = "idle" /\ outcome'[p] = "ok" /\ cmd(p) \notin Installs
      BY <2>1, <3>1, <3>3, <3>5 DEF EndedOK, Ended, Installs, Switches, cmd
    <3> QED BY <1>0, <3>2, <3>4, <3>5
  <2> QED BY <2>2, <2>3, <2>4
<1>11. CASE CheckUninstall(p)
  <2>1. pc'[p] # "idle" \/ (pc'[p] = "idle" /\ outcome'[p] = "failed" /\ ver(p) \notin present')
    BY <1>11 DEF CheckUninstall, is_version_installed, disk, toolchains
  <2> QED BY <1>0, <1>8, <2>1
<1>12. CASE CheckDefault(p)
  <2>1. cmd(p) = "default" /\ (pc'[p] # "idle" \/ (pc'[p] = "idle" /\ outcome'[p] \in {"failed", "already"}))
    BY <1>12 DEF CheckDefault, cmd
  <2> QED BY <1>0, <2>1 DEF EndedOK, Ended, Installs, Switches, cmd
<1>13. CASE RemoveDir(p)
  <2>1. pc'[p] # "idle" \/ (pc'[p] = "idle" /\ outcome'[p] = "failed" /\ ver(p) \notin present')
    BY <1>13 DEF RemoveDir
  <2> QED BY <1>0, <1>8, <2>1
<1>14. CASE RemoveDirFail(p)
    BY <1>14 DEF RemoveDirFail, Solo
<1>15. ASSUME pc'[p] = "idle", outcome'[p] = "ok", cmd(p) = "uninstall", ver(p) \notin present',
              default' # ver(p), validate_symlinks' = {}
       PROVE  EndedOK(p)'
    BY <1>15 DEF EndedOK, Ended, Installs, Switches, cmd
<1>16. CASE AfterRemove(p)
  <2>1. UNCHANGED <<present, default>> /\ validate_symlinks' = validate_symlinks
    BY <1>16 DEF AfterRemove, disk, toolchains, validate_symlinks, link_present, link_target_exists,
                 binary_exists
  <2>2. \/ pc'[p] # "idle"
        \/ /\ pc'[p] = "idle" /\ outcome'[p] = "ok" /\ cmd(p) = "uninstall"
           /\ ~wasDefault[p] /\ validate_symlinks = {}
    BY <1>16 DEF AfterRemove
  <2>3. ver(p) \notin present /\ (~wasDefault[p] => default # ver(p))
    BY <1>16 DEF AfterRemove, UninstallOK
  <2> QED BY <1>0, <1>15, <2>1, <2>2, <2>3
<1>17. CASE RemoveLink(p)
  <2>1. /\ UNCHANGED <<present, default>> /\ ver(p) \notin present /\ default # ver(p)
        /\ cmd(p) = "uninstall"
    BY <1>17 DEF RemoveLink, toolchains, UninstallOK
  <2>2. pc'[p] # "idle" \/ (pc'[p] = "idle" /\ outcome'[p] = "ok" /\ ~(idx[p] < NumBinaries))
    BY <1>17 DEF RemoveLink
  <2> QED BY <1>0, <1>15, <1>17, <2>1, <2>2, LastUnlink
<1>18. CASE RepairLinks(p)
  <2>1. UNCHANGED <<present, default>> /\ validate_symlinks' = validate_symlinks
    BY <1>18 DEF RepairLinks, disk, toolchains, validate_symlinks, link_present, link_target_exists,
                 binary_exists
  <2>2. /\ pc'[p] # "idle" \/ (pc'[p] = "idle" /\ outcome'[p] = "ok" /\ validate_symlinks = {})
        /\ ver(p) \notin present /\ default # ver(p) /\ cmd(p) = "uninstall"
    BY <1>18 DEF RepairLinks, UninstallOK
  <2> QED BY <1>0, <1>15, <2>1, <2>2
<1> QED BY <1>1, <1>3, <1>4, <1>5, <1>6, <1>7, <1>9, <1>10, <1>11, <1>12, <1>13, <1>14, <1>16, <1>17, <1>18
        DEF Step

-----------------------------------------------------------------------------
(* What the commands leave on the disk.                                    *)

\* Only an extraction writes binaries, and only those of its archive; a
\* directory is removed when it is empty.
LEMMA StockStep ==
    ASSUME StockOK, NEW p \in Procs, StepOf(p), Step(p)
    PROVE  StockOK'
<1> USE DEF StepOf, StockOK, binary_exists
<1>1. CASE KeepsDisk(p)
    BY <1>1, KeepsDiskUnchanged DEF disk, toolchains
<1>2. CASE OpenArchive(p) \/ WriteMetadata(p)
    BY <1>2 DEF OpenArchive, WriteMetadata
<1>3. CASE ExtractEntry(p)
  <2>1. src[p] = ver(p) /\ EntriesOf(src[p]) = ArchiveOf[ver(p)]
    BY <1>3 DEF ExtractEntry, VerifiedOK, EntriesOf
  <2>2. \/ bin' = bin /\ present' = present
        \/ /\ bin' = [bin EXCEPT ![ver(p)][idx[p]] = ver(p)] /\ present' = present \cup {ver(p)}
           /\ idx[p] \in ArchiveOf[ver(p)]
    BY <1>3, <2>1 DEF ExtractEntry
  <2> QED BY <2>2 DEF PathsTypeOK
<1>4. CASE RemoveEntry(p)
    BY <1>4 DEF RemoveEntry, PathsTypeOK
<1>5. CASE RemoveDir(p)
    BY <1>5 DEF RemoveDir
<1>6. CASE \/ TruncateDefault(p) \/ WriteDefault(p) \/ Unlink(p) \/ CreateLink(p)
           \/ RemoveDefault(p) \/ RemoveLink(p)
    BY <1>6 DEF TruncateDefault, WriteDefault, Unlink, CreateLink, RemoveDefault, RemoveLink, toolchains
<1> QED BY <1>1, <1>2, <1>3, <1>4, <1>5, <1>6 DEF Step, KeepsDisk

\* The facts about a step after which everything is still undisturbed.
QuietStepOf(p) ==
    /\ StepOf(p) /\ StockOK /\ PresentOK(p) /\ DefaultOK(p)
    /\ quiet'

\* A directory is whole again when the step that fills it is done.
LEMMA PresentStep ==
    ASSUME Solo, NEW p \in Procs, QuietStepOf(p), Step(p)
    PROVE  PresentOK(p)'
<1> USE FinishAt, GotoAt DEF QuietStepOf, StepOf, PresentOK, Whole
<1>1. CASE UNCHANGED <<present, bin>> /\ pc[p] \notin {"extract", "rmdir"}
    BY <1>1
<1>2. CASE \/ ResolveVersion(p) \/ ReadDefault(p) \/ CreateTmp(p) \/ WriteChunk(p) \/ WriteEnd(p)
           \/ FailAttempt(p) \/ RenameTmp(p) \/ VerifyChecksum(p) \/ WriteMetadata(p)
           \/ Configure(p) \/ RemoveArchive(p)
    BY <1>1, <1>2 DEF ResolveVersion, ReadDefault, CreateTmp, WriteChunk, WriteEnd, FailAttempt,
       RenameTmp, VerifyChecksum, WriteMetadata, Configure, RemoveArchive, disk, toolchains
<1>3. CASE \/ TruncateDefault(p) \/ WriteDefault(p) \/ Unlink(p) \/ CreateLink(p)
           \/ CheckUninstall(p) \/ CheckDefault(p) \/ AfterRemove(p) \/ RemoveDefault(p)
           \/ RemoveLink(p) \/ RepairLinks(p)
    BY <1>1, <1>3 DEF TruncateDefault, WriteDefault, Unlink, CreateLink, CheckUninstall, CheckDefault,
       AfterRemove, RemoveDefault, RemoveLink, RepairLinks, disk, toolchains
<1>4. CASE OpenArchive(p)
  <2>1. pc'[p] = "extract" /\ present' = present \cup {ver(p)} /\ UNCHANGED bin
    BY <1>4 DEF OpenArchive
  <2> QED BY <1>4, <2>1 DEF OpenArchive
<1>5. CASE ExtractEntry(p)
  <2>1. \/ bin' = bin /\ present' = present
        \/ bin' = [bin EXCEPT ![ver(p)][idx[p]] = src[p]] /\ present' = present \cup {ver(p)}
    BY <1>5 DEF ExtractEntry
  <2>2. \A v \in present' : v # ver(p) => v \in present /\ v \in Versions /\ bin'[v] = bin[v]
    BY <2>1 DEF PathsTypeOK
  <2>3. pc'[p] = "extract" \/ pc'[p] = "metadata"
    BY <1>5 DEF ExtractEntry
  <2>4. pc'[p] = "metadata" => Whole(ver(p))'
    BY <1>5, InstallStep DEF InstallOK
  <2> QED BY <1>5, <2>2, <2>3, <2>4
<1>6. CASE ExtractFail(p)
    BY <1>6 DEF ExtractFail
<1>7. CASE RemoveEntry(p)
  <2>1. \/ UNCHANGED bin
        \/ \E b \in Binaries : bin' = [bin EXCEPT ![ver(p)][b] = NoVersion]
    BY <1>7 DEF RemoveEntry
  <2>2. \A v \in present : v # ver(p) => bin'[v] = bin[v]
    BY <2>1 DEF PathsTypeOK
  <2> QED BY <1>7, <2>2 DEF RemoveEntry
<1>8. CASE RemoveDir(p)
    BY <1>8 DEF RemoveDir
<1>9. CASE RemoveDirFail(p)
    BY <1>9 DEF RemoveDirFail, Solo
<1> QED BY <1>2, <1>3, <1>4, <1>5, <1>6, <1>7, <1>8, <1>9 DEF Step

\* The default has a directory: it is only ever given to a version that has
\* one, and taken away with it.
LEMMA DefaultStep ==
    ASSUME Solo, NEW p \in Procs, QuietStepOf(p), Step(p)
    PROVE  DefaultOK(p)'
<1> USE FinishAt, GotoAt, LocalsAt
    DEF QuietStepOf, StepOf, DefaultOK, TargetSteps, CommandOK, FlowOK, Installs, is_version_installed
<1>1. CASE ResolveVersion(p) \/ ReadDefault(p) \/ CreateTmp(p) \/ WriteEnd(p) \/ FailAttempt(p)
    BY <1>1 DEF ResolveVersion, ReadDefault, CreateTmp, WriteEnd, FailAttempt, disk, toolchains
<1>2. CASE \/ RenameTmp(p) \/ VerifyChecksum(p) \/ WriteMetadata(p) \/ Configure(p)
           \/ RemoveArchive(p)
    BY <1>2 DEF RenameTmp, VerifyChecksum, WriteMetadata, Configure, RemoveArchive, disk, toolchains
<1>3. CASE WriteChunk(p) \/ RemoveEntry(p)
    BY <1>3 DEF WriteChunk, RemoveEntry, disk, toolchains, locals
<1>4. CASE OpenArchive(p) \/ ExtractEntry(p) \/ ExtractFail(p)
  <2>1. present \subseteq present' /\ UNCHANGED default
    BY <1>4 DEF OpenArchive, ExtractEntry, ExtractFail, disk, toolchains
  <2>2. pc[p] \in {"open", "extract"} /\ pc'[p] \in {"idle", "extract", "metadata"}
    BY <1>4 DEF OpenArchive, ExtractEntry, ExtractFail
  <2> QED BY <2>1, <2>2
<1>5. CASE TruncateDefault(p) \/ WriteDefault(p)
    BY <1>5 DEF TruncateDefault, WriteDefault, toolchains
<1>6. CASE Unlink(p)
    BY <1>6 DEF Unlink, toolchains
<1>7. CASE CreateLink(p)
  <2>1. pc'[p] \in {"idle", "rmArchive"} \/ (pc'[p] = "unlink" /\ UNCHANGED tgt)
    BY <1>7 DEF CreateLink, AfterLinks
  <2> QED BY <1>7, <2>1 DEF CreateLink, toolchains
<1>8. CASE CheckUninstall(p) \/ CheckDefault(p)
    BY <1>8 DEF CheckUninstall, CheckDefault, disk, toolchains
<1>9. CASE RemoveDir(p) \/ RemoveDirFail(p)
    BY <1>9 DEF RemoveDir, RemoveDirFail, Solo
<1>10. CASE AfterRemove(p)
  <2>1. wasDefault[p] \/ default # ver(p)
    BY <1>10 DEF AfterRemove, UninstallOK
  <2> QED BY <1>10, <2>1 DEF AfterRemove, is_last_installed, list_installed_versions, disk, toolchains
<1>11. CASE RemoveDefault(p) \/ RemoveLink(p)
    BY <1>11 DEF RemoveDefault, RemoveLink, toolchains
<1>12. CASE RepairLinks(p)
  <2>1. \/ pc'[p] \in {"idle", "rmLinks"}
        \/ pc'[p] = "unlink" /\ tgt'[p] = default /\ default \in present
    BY <1>12 DEF RepairLinks, ControlOK
  <2> QED BY <1>12, <2>1 DEF RepairLinks, disk, toolchains
<1> QED BY <1>1, <1>2, <1>3, <1>4, <1>5, <1>6, <1>7, <1>8, <1>9, <1>10, <1>11, <1>12 DEF Step

\* The links stay alike.  A link that works leads to a version that is there,
\* and a version that is there and whole has all of its links working, so that
\* update_symlinks replaces all or, at the first, none.
LEMMA LinksStep ==
    ASSUME NEW p \in Procs, QuietStepOf(p), Step(p), NEW u \in VersionOrNone, LinksOK(p, u)
    PROVE  \E w \in VersionOrNone : LinksOK(p, w)'
<1> USE FinishAt, GotoAt, LocalsAt DEF QuietStepOf, StepOf, LinksOK
<1>1. CASE /\ UNCHANGED link
           /\ pc[p] \notin {"unlink", "link", "rmLinks"} /\ pc'[p] \notin {"unlink", "link", "rmLinks"}
    BY <1>1
<1>2. CASE \/ ResolveVersion(p) \/ ReadDefault(p) \/ CreateTmp(p) \/ WriteChunk(p) \/ WriteEnd(p)
           \/ FailAttempt(p) \/ RenameTmp(p) \/ VerifyChecksum(p) \/ OpenArchive(p) \/ ExtractEntry(p)
    BY <1>1, <1>2 DEF ResolveVersion, ReadDefault, CreateTmp, WriteChunk, WriteEnd, FailAttempt,
       RenameTmp, VerifyChecksum, OpenArchive, ExtractEntry, disk
<1>3. CASE \/ ExtractFail(p) \/ WriteMetadata(p) \/ Configure(p) \/ RemoveArchive(p)
           \/ TruncateDefault(p) \/ CheckUninstall(p) \/ CheckDefault(p) \/ RemoveEntry(p)
           \/ RemoveDir(p) \/ RemoveDirFail(p) \/ AfterRemove(p)
    BY <1>1, <1>3 DEF ExtractFail, WriteMetadata, Configure, RemoveArchive, TruncateDefault,
       CheckUninstall, CheckDefault, RemoveEntry, RemoveDir, RemoveDirFail, AfterRemove, disk
<1>4. ASSUME UNCHANGED link, pc[p] \notin {"unlink", "link", "rmLinks"},
             pc'[p] \in {"unlink", "rmLinks"}, idx'[p] = 1
      PROVE  LinksOK(p, u)'
  <2>1. 1 \in Binaries /\ \A b \in Binaries : link[b] = u
    BY <1>4, PathsAssumption DEF Binaries
  <2> QED BY <1>4, <2>1
<1>5. CASE WriteDefault(p) \/ RemoveDefault(p)
    BY <1>4, <1>5 DEF WriteDefault, RemoveDefault
<1>6. CASE RepairLinks(p)
  <2>1. UNCHANGED link /\ (pc'[p] = "idle" \/ (pc'[p] \in {"unlink", "rmLinks"} /\ idx'[p] = 1))
    BY <1>6 DEF RepairLinks, disk, ControlOK
  <2> QED BY <1>1, <1>4, <1>6, <2>1 DEF RepairLinks
<1>7. CASE Unlink(p)
  <2>1. PICK i \in Binaries : i = idx[p]
    BY <1>7 DEF Unlink, LocalOK, LoopSteps
  <2>2. /\ pc[p] = "unlink" /\ pc'[p] = "link" /\ UNCHANGED <<present, idx>>
        /\ link' = IF link_target_exists(i) THEN [link EXCEPT ![i] = NoVersion] ELSE link
    BY <1>7, <2>1 DEF Unlink, toolchains
  <2>3. link[i] = u /\ \A b \in Binaries : b > i => link[b] = u
    BY <2>1, <2>2
  <2>4. CASE link_target_exists(i)
    <3>1. u \in present
      BY <2>3, <2>4 DEF link_target_exists, link_present, StockOK, VersionOrNone
    <3>2. link'[i] = NoVersion /\ \A b \in Binaries : b > i => link'[b] = u
      BY <2>2, <2>3, <2>4 DEF PathsTypeOK, Binaries
    <3>3. LinksOK(p, u)'
      BY <2>1, <2>2, <3>1, <3>2
    <3> QED BY <3>3
  <2>5. CASE ~link_target_exists(i)
    <3>1. u = NoVersion \/ i = 1
      <4>1. SUFFICES ASSUME u # NoVersion, u \in present PROVE FALSE
        BY <2>1, <2>2 DEF Binaries
      <4>2. bin[u][i] = u /\ u \in Versions
        BY <2>2, <4>1 DEF PresentOK, Whole, PathsTypeOK
      <4> QED BY <2>3, <2>5, <4>1, <4>2, PathsAssumption DEF link_target_exists, link_present, binary_exists
    <3>2. LinksOK(p, u)'
      BY <2>1, <2>2, <2>3, <2>5, <3>1
    <3> QED BY <3>2
  <2> QED BY <2>4, <2>5
<1>8. CASE CreateLink(p)
  <2>1. PICK i \in Binaries : i = idx[p]
    BY <1>8 DEF CreateLink, LocalOK, LoopSteps
  <2>2. pc[p] = "link" /\ UNCHANGED <<present, bin>>
    BY <1>8 DEF CreateLink, toolchains
  <2>3. CASE link_present(i)
    <3>1. pc'[p] = "idle" /\ UNCHANGED link
      BY <1>8, <2>1, <2>3 DEF CreateLink
    <3>2. i = 1 /\ link[i] = u
      BY <2>1, <2>2, <2>3 DEF link_present
    <3>3. \A b \in Binaries : b = i \/ b > i
      BY <3>2 DEF Binaries
    <3>4. LinksOK(p, u)'
      BY <2>1, <2>2, <3>1, <3>2, <3>3
    <3> QED BY <3>4
  <2>4. CASE ~link_present(i) /\ i < NumBinaries
    <3>1. /\ pc'[p] = "unlink" /\ idx'[p] = i + 1 /\ link' = [link EXCEPT ![i] = tgt[p]]
      BY <1>8, <2>1, <2>4 DEF CreateLink
    <3>2. u = NoVersion \/ u \in present
      BY <2>1, <2>2, <2>4 DEF link_present
    <3>3. i + 1 \in Binaries /\ i + 1 > i /\ \A b \in Binaries : b > i => b # i
      BY <2>4, PathsAssumption DEF Binaries
    <3>4. \A b \in Binaries : b > i => link'[b] = u
      BY <2>1, <2>2, <3>1, <3>3 DEF PathsTypeOK
    <3>5. \A b \in Binaries : b > i + 1 => b > i
      BY DEF Binaries
    <3>6. LinksOK(p, u)'
      BY <2>2, <3>1, <3>2, <3>3, <3>4, <3>5
    <3> QED BY <3>6
  <2>5. CASE ~link_present(i) /\ ~(i < NumBinaries)
    <3>1. PICK t \in Versions : t = tgt[p]
      BY <1>8 DEF LocalOK, TargetSteps, CreateLink
    <3>2. link' = [b \in Binaries |-> t] /\ \A b \in Binaries : binary_exists(t, b)
      BY <1>8, <2>1, <2>5, <3>1, LastLink
    <3>3. \A b \in Binaries : b \in ArchiveOf[t]
      BY <3>2 DEF StockOK
    <3>4. ArchiveOf[t] = Binaries
      BY <3>3, InstallerAssumption
    <3>5. pc'[p] \in {"idle", "rmArchive"}
      BY <1>8, <2>1, <2>5 DEF CreateLink, AfterLinks
    <3>6. LinksOK(p, t)'
      BY <3>2, <3>4, <3>5
    <3> QED BY <3>6 DEF VersionOrNone
  <2> QED BY <2>3, <2>4, <2>5
<1>9. CASE RemoveLink(p)
  <2>1. PICK i \in Binaries : i = idx[p]
    BY <1>9 DEF RemoveLink, LocalOK, LoopSteps
  <2>2. pc[p] = "rmLinks" /\ link' = [link EXCEPT ![i] = NoVersion]
    BY <1>9, <2>1 DEF RemoveLink
  <2>3. CASE i < NumBinaries
    <3>1. pc'[p] = "rmLinks" /\ idx'[p] = i + 1
      BY <1>9, <2>1, <2>3 DEF RemoveLink
    <3>2. i + 1 \in Binaries /\ i + 1 > i /\ \A b \in Binaries : b > i => b # i
      BY <2>3, PathsAssumption DEF Binaries
    <3>3. \A b \in Binaries : b > i => link'[b] = u
      BY <2>1, <2>2, <3>2 DEF PathsTypeOK
    <3>4. \A b \in Binaries : b > i + 1 => b > i
      BY DEF Binaries
    <3>5. LinksOK(p, u)'
      BY <3>1, <3>2, <3>3, <3>4
    <3> QED BY <3>5
  <2>4. CASE ~(i < NumBinaries)
    <3>1. pc'[p] = "idle"
      BY <1>9, <2>1, <2>4 DEF RemoveLink
    <3>2. \A b \in Binaries : b = i \/ b < i
      BY <2>4, PathsAssumption DEF Binaries
    <3>3. \A b \in Binaries : link'[b] = NoVersion
      BY <2>1, <2>2, <3>2 DEF CommandOK, UninstallOK, PathsTypeOK
    <3>4. LinksOK(p, NoVersion)'
      BY <3>1, <3>3
    <3> QED BY <3>4 DEF VersionOrNone
  <2> QED BY <2>3, <2>4
<1> QED BY <1>2, <1>3, <1>5, <1>6, <1>7, <1>8, <1>9 DEF Step

-----------------------------------------------------------------------------
(* The invariant.                                                          *)

CommandInv ==
    /\ StockOK
    /\ \A p \in Procs : CommandOK(p) /\ EndedOK(p) /\ QuietOK(p)

\* An empty ~/.inference and no command.
LEMMA InitCommandInv == Init => CommandInv
<1> SUFFICES ASSUME Init PROVE CommandInv
    OBVIOUS
<1> USE DEF Init, PathsInit
<1>1. StockOK
    BY DEF StockOK, binary_exists
<1>2. ASSUME NEW p \in Procs PROVE CommandOK(p) /\ EndedOK(p) /\ QuietOK(p)
  <2>1. pc[p] = "idle" /\ outcome[p] = "none" /\ src[p] = NoVersion
    OBVIOUS
  <2>2. CommandOK(p)
    BY <2>1 DEF CommandOK, FlowOK, InstallOK, LinkingOK, SwitchOK, UninstallOK, TargetSteps
  <2>3. EndedOK(p)
    BY <2>1 DEF EndedOK, Ended
  <2>4. PresentOK(p) /\ DefaultOK(p) /\ LinksOK(p, NoVersion)
    BY <2>1 DEF PresentOK, DefaultOK, LinksOK, TargetSteps
  <2> QED BY <2>2, <2>3, <2>4 DEF QuietOK, VersionOrNone
<1> QED BY <1>1, <1>2 DEF CommandInv

\* Every step of the only process keeps it.
LEMMA StepCommandInv ==
    ASSUME Solo, TypeInv, Integrity, CommandInv, NEW p \in Procs, Step(p)
    PROVE  CommandInv'
<1>1. job' = job
    BY StepControlInv
<1>2. StepOf(p)
    BY <1>1, TypeParts DEF TypeInv, LocalsOK, CommandInv, Integrity, StepOf, ver, cmd, ControlOK
<1>3. StockOK'
    BY <1>2, StockStep DEF CommandInv
<1>4. CommandOK(p)' /\ EndedOK(p)'
    BY <1>2, FlowStep, InstallStep, LinkingStep, SwitchStep, UninstallStep, EndedStep DEF CommandOK
<1>5. QuietOK(p)'
  <2>1. SUFFICES ASSUME quiet' PROVE PresentOK(p)' /\ DefaultOK(p)' /\ \E u \in VersionOrNone : LinksOK(p, u)'
    BY DEF QuietOK, VersionOrNone
  <2>2. quiet
    BY <2>1 DEF Step, ResolveVersion, ReadDefault, CreateTmp, WriteChunk, WriteEnd, FailAttempt,
       RenameTmp, VerifyChecksum, OpenArchive, ExtractEntry, ExtractFail, WriteMetadata, Configure,
       RemoveArchive, TruncateDefault, WriteDefault, Unlink, CreateLink, CheckUninstall, CheckDefault,
       RemoveEntry, RemoveDir, RemoveDirFail, AfterRemove, RemoveDefault, RemoveLink, RepairLinks, history
  <2>3. PICK u \in VersionOrNone : QuietStepOf(p) /\ LinksOK(p, u)
    BY <1>2, <2>1, <2>2 DEF CommandInv, QuietOK, QuietStepOf
  <2> QED BY <2>3, PresentStep, DefaultStep, LinksStep
<1> QED BY <1>3, <1>4, <1>5 DEF CommandInv, Solo

\* A process that is killed has nothing left to do.
LEMMA CrashCommandInv ==
    ASSUME Solo, TypeInv, CommandInv, NEW p \in Procs, Crash(p)
    PROVE  CommandInv'
<1>1. pc'[p] = "idle" /\ src'[p] = NoVersion /\ outcome'[p] = "crashed" /\ ~quiet'
    BY TypeParts, FinishAt DEF TypeInv, Crash
<1>2. StockOK'
    BY DEF CommandInv, StockOK, binary_exists, Crash, disk, toolchains
<1>3. EndedOK(p)'
    BY <1>1 DEF EndedOK, Ended
<1> QED BY <1>1, <1>2, <1>3, IdleOrBusy DEF CommandInv, QuietOK, Solo

\* A command starts from what the one before has left.
LEMMA StartCommandInv ==
    ASSUME Solo, TypeInv, CommandInv, NEW p \in Procs, Start(p)
    PROVE  CommandInv'
<1>1. PICK c \in Commands, v \in Versions :
        /\ job' = [job EXCEPT ![p] = [cmd |-> c, ver |-> v]]
        /\ pc' = [pc EXCEPT ![p] = FirstStep(c)]
        /\ SetTgt(p, IF c = "tui_default" THEN v ELSE NoVersion)
        /\ quiet' = (quiet /\ (c = "tui_default" => is_version_installed(v)))
    BY DEF Start
<1>2. ControlOK /\ PathsTypeOK
    BY TypeParts DEF TypeInv
<1>3. /\ c \in AllCommands /\ pc[p] = "idle" /\ UNCHANGED <<present, bin, meta, default, link>>
      /\ src[p] = NoVersion
    BY InstallerAssumption DEF Start, disk, toolchains, CommandInv, CommandOK, InstallOK
<1>4. cmd(p)' = c /\ ver(p)' = v /\ pc'[p] = FirstStep(c) /\ src'[p] = NoVersion
    BY <1>1, <1>2, <1>3, LocalsAt DEF cmd, ver, ControlOK
<1>5. c = "tui_default" => tgt'[p] = v
    BY <1>1, <1>2, LocalsAt
<1>6. \/ pc'[p] = "resolve" /\ c \in Installs
      \/ pc'[p] = "check" /\ c \in {"uninstall", "default"}
      \/ pc'[p] = "truncate" /\ c = "tui_default"
    BY <1>3, <1>4 DEF FirstStep, AllCommands, Installs
<1>7. StockOK'
    BY <1>3 DEF CommandInv, StockOK, binary_exists
<1>8. CommandOK(p)'
  <2>1. FlowOK(p)'
    BY <1>4, <1>6 DEF FlowOK
  <2>2. InstallOK(p)'
    BY <1>4, <1>6 DEF InstallOK, TargetSteps, Installs
  <2>3. LinkingOK(p)'
    BY <1>6 DEF LinkingOK
  <2>4. SwitchOK(p)'
    BY <1>4, <1>5, <1>6 DEF SwitchOK, TargetSteps, Installs, Switches
  <2>5. UninstallOK(p)'
    BY <1>4, <1>6 DEF UninstallOK, TargetSteps
  <2> QED BY <2>1, <2>2, <2>3, <2>4, <2>5 DEF CommandOK
<1>9. EndedOK(p)'
    BY <1>6, IdleOrBusy
<1>10. QuietOK(p)'
  <2>1. SUFFICES ASSUME quiet' PROVE PresentOK(p)' /\ DefaultOK(p)' /\ \E u \in VersionOrNone : LinksOK(p, u)'
    BY DEF QuietOK, VersionOrNone
  <2>2. quiet /\ (c = "tui_default" => v \in present)
    BY <1>1, <2>1 DEF is_version_installed
  <2>3. PresentOK(p) /\ DefaultOK(p)
    BY <2>2 DEF CommandInv, QuietOK
  <2>4. PICK u \in VersionOrNone : LinksOK(p, u)
    BY <2>2 DEF CommandInv, QuietOK
  <2>5. PresentOK(p)'
    BY <1>3, <2>3 DEF PresentOK, Whole
  <2>6. DefaultOK(p)'
    BY <1>3, <1>5, <1>6, <2>2, <2>3 DEF DefaultOK, TargetSteps
  <2>7. LinksOK(p, u)'
    BY <1>3, <1>6, <2>4 DEF LinksOK
  <2> QED BY <2>5, <2>6, <2>7
<1> QED BY <1>7, <1>8, <1>9, <1>10 DEF CommandInv, Solo

\* The invariant, with what it rests on.
LEMMA NextCommandInv ==
    ASSUME Solo, TypeInv, Integrity, CommandInv, [Next]_vars
    PROVE  CommandInv'
<1>1. CASE UNCHANGED vars
  <2> USE <1>1 DEF vars, disk, toolchains, downloads, locals, history
  <2>1. StockOK'
    BY DEF CommandInv, StockOK, binary_exists
  <2>2. ASSUME NEW p \in Procs PROVE CommandOK(p)'
    BY DEF CommandInv, CommandOK, FlowOK, InstallOK, LinkingOK, SwitchOK, UninstallOK, Whole,
           binary_exists, cmd, ver
  <2>3. ASSUME NEW p \in Procs PROVE EndedOK(p)'
    BY DEF CommandInv, EndedOK, Ended, Whole, ver, validate_symlinks, link_present, link_target_exists,
           binary_exists
  <2>4. ASSUME NEW p \in Procs PROVE QuietOK(p)'
    BY DEF CommandInv, QuietOK, PresentOK, DefaultOK, LinksOK, Whole, cmd, ver
  <2> QED BY <2>1, <2>2, <2>3, <2>4 DEF CommandInv
<1> QED BY <1>1, StepCommandInv, CrashCommandInv, StartCommandInv DEF Next

\* With one process, the invariants hold together.
LEMMA SoloInvariants ==
    ASSUME Solo
    PROVE  Spec => [](TypeInv /\ CommandInv)
<1>1. Init => Integrity
    BY DEF Init, PathsInit, Integrity, OnlyVerifiedBinaries, VerifiedOK
<1>2. TypeInv /\ Integrity /\ CommandInv /\ [Next]_vars => TypeInv' /\ Integrity' /\ CommandInv'
    BY NextTypeInv, NextIntegrity, NextCommandInv
<1> QED BY <1>1, <1>2, InitTypeInv, InitCommandInv, PTL DEF Spec

\* With one command at a time, whatever fails and wherever a command is killed,
\* a command that reports success has done all of its work, and an uninstall
\* that fails has at least removed the version (install.rs, install_task.rs,
\* uninstall.rs, default.rs).
THEOREM SoloSuccessIsComplete ==
    ASSUME Solo
    PROVE  Spec => []SuccessIsComplete
<1>1. CommandInv => SuccessIsComplete
  <2>1. SUFFICES ASSUME CommandInv PROVE SuccessIsComplete
    OBVIOUS
  <2>2. InstallOkIsComplete
    BY <2>1 DEF CommandInv, EndedOK, Installs, InstallOkIsComplete, Whole
  <2>3. InstallLeavesADefault
    BY <2>1 DEF CommandInv, EndedOK, InstallLeavesADefault
  <2>4. UninstallClears
    BY <2>1 DEF CommandInv, EndedOK, UninstallClears
  <2>5. SwitchOkIsLinked
    BY <2>1 DEF CommandInv, EndedOK, Switches, SwitchOkIsLinked
  <2> QED BY <2>2, <2>3, <2>4, <2>5 DEF SuccessIsComplete
<1> QED BY <1>1, SoloInvariants, PTL

-----------------------------------------------------------------------------
(* Resolution between commands.                                            *)

\* What `which` answers: nothing, a file in another directory, or the target
\* of the link in the managed one.
LEMMA WhichAnswers ==
    ASSUME NEW env \in Environments, NEW b
    PROVE  \/ which(env, b) = NotFound
           \/ which(env, b) = Found("system", NoVersion)
           \/ which(env, b) = Found("managed", link[b]) /\ link_target_exists(b)
<1>1. /\ DOMAIN env.path \subseteq {1, 2}
      /\ 2 \in DOMAIN env.path => 1 \in DOMAIN env.path
      /\ \A i \in DOMAIN env.path : env.path[i] \in {"managed", "system"}
    BY DEF Environments
<1>2. CASE \E i \in DOMAIN env.path : Holds(env, env.path[i], b)
  <2>1. \E i \in DOMAIN env.path : /\ Holds(env, env.path[i], b)
                                   /\ \A j \in 1..(i - 1) : ~Holds(env, env.path[j], b)
    BY <1>1, <1>2
  <2>2. PICK i \in DOMAIN env.path :
          /\ Holds(env, env.path[i], b)
          /\ which(env, b) = Found(env.path[i], IF env.path[i] = "managed" THEN link[b] ELSE NoVersion)
    BY <1>2, <2>1 DEF which
  <2> QED BY <1>1, <2>2 DEF Holds
<1> QED BY <1>2 DEF which

\* A disk that undisturbed commands have left can be used.
LEMMA QuietIsUsable ==
    ASSUME PathsTypeOK, StockOK, NEW p \in Procs, pc[p] = "idle", QuietOK(p), quiet,
           default # NoVersion => ArchiveOf[default] = Binaries, NEW env \in Environments
    PROVE  /\ "error" \notin run_all_checks(env)
           /\ \A a, b \in Binaries :
                 which(env, a).place = "managed" /\ which(env, b).place = "managed"
                     => which(env, a).version = which(env, b).version
           /\ default # NoVersion /\ env.override # "missing" =>
                 LET found == find_infc(env)
                 IN  /\ found # NotFound
                     /\ found.place \in {"managed", "toolchain"} =>
                           \A b \in Binaries : bin[found.version][b] = found.version
                     /\ found.place = "system" =>
                           \/ infc \in detect_path_conflicts(env)
                           \/ ~link_target_exists(infc)
<1> USE PathsAssumption
<1>1. PICK u \in VersionOrNone :
        (u # NoVersion => ArchiveOf[u] = Binaries) /\ \A b \in Binaries : link[b] = u
    BY DEF QuietOK, LinksOK
<1>2. \A v \in present : Whole(v)
    BY DEF QuietOK, PresentOK
<1>3. default # NoVersion => default \in present /\ \A b \in Binaries : bin[default][b] = default
    BY <1>2 DEF QuietOK, DefaultOK, Whole
<1>4. \A b \in Binaries : link_target_exists(b) => \A c \in Binaries : bin[u][c] = u
  <2>1. SUFFICES ASSUME NEW b \in Binaries, link_target_exists(b) PROVE Whole(u) /\ ArchiveOf[u] = Binaries
    BY DEF Whole
  <2>2. u \in present /\ u # NoVersion
    BY <1>1, <2>1 DEF link_target_exists, link_present, StockOK, VersionOrNone
  <2> QED BY <1>1, <1>2, <2>2
<1>5. infc \in Binaries
    BY DEF infc, Binaries
<1>6. ASSUME default # NoVersion, NEW b \in Binaries
      PROVE  DefaultToolchain(b) = Found("toolchain", default)
    BY <1>3, <1>6 DEF DefaultToolchain, binary_exists, PathsTypeOK, VersionOrNone
<1>7. \A v : \A place \in {"toolchain", "system", "managed"} : Found(place, v) # NotFound
    BY DEF Found, NotFound
<1>8. "error" \notin run_all_checks(env)
  <2>1. check_default_toolchain # "error"
    BY <1>3 DEF check_default_toolchain, is_version_installed
  <2>2. ASSUME NEW b \in Binaries PROVE check_binary(env, b) # "error"
    BY <1>6, <1>7 DEF check_binary
  <2> QED BY <2>1, <2>2 DEF run_all_checks
<1>9. ASSUME NEW a \in Binaries, which(env, a).place = "managed"
      PROVE  which(env, a).version = u
    BY <1>1, <1>9, WhichAnswers DEF Found, NotFound
<1>10. ASSUME default # NoVersion, env.override # "missing", NEW found, found = find_infc(env)
       PROVE  /\ found # NotFound
              /\ found.place \in {"managed", "toolchain"} =>
                    \A b \in Binaries : bin[found.version][b] = found.version
              /\ found.place = "system" =>
                    infc \in detect_path_conflicts(env) \/ ~link_target_exists(infc)
  <2>1. \/ found = Found("override", NoVersion)
        \/ found = which(env, infc) /\ which(env, infc) # NotFound
        \/ found = Found("toolchain", default)
    BY <1>5, <1>6, <1>10 DEF find_infc
  <2>2. CASE found = Found("override", NoVersion)
    BY <2>2 DEF Found, NotFound
  <2>3. CASE found = Found("toolchain", default)
    BY <1>3, <1>10, <2>3 DEF Found, NotFound
  <2>4. CASE found = which(env, infc) /\ which(env, infc) # NotFound
    <3>1. CASE which(env, infc) = Found("system", NoVersion)
      BY <1>5, <2>4, <3>1 DEF Found, detect_path_conflicts
    <3>2. CASE which(env, infc) = Found("managed", link[infc]) /\ link_target_exists(infc)
      BY <1>1, <1>4, <1>5, <2>4, <3>2 DEF Found
    <3> QED BY <2>4, <3>1, <3>2, WhichAnswers
  <2> QED BY <2>1, <2>2, <2>3, <2>4
<1> QED BY <1>8, <1>9, <1>10

\* With one command at a time, if none was killed, no extraction broke off and
\* no stale list was used, whatever the sequence of installs, switches and
\* uninstalls was: doctor reports no error, the managed links lead to one
\* version, and with a default build and run find a compiler of a complete
\* version (find_infc, run_all_checks, detect_path_conflicts).
THEOREM SoloToolchainIsUsable ==
    ASSUME Solo, Procs # {}
    PROVE  Spec => []ToolchainIsUsable
<1>1. TypeInv /\ CommandInv => ToolchainIsUsable
  <2>1. SUFFICES ASSUME TypeInv, CommandInv, quiet, AllIdle,
                        default # NoVersion => ArchiveOf[default] = Binaries,
                        NEW env \in Environments
                 PROVE  /\ "error" \notin run_all_checks(env)
                        /\ \A a, b \in Binaries :
                              which(env, a).place = "managed" /\ which(env, b).place = "managed"
                                  => which(env, a).version = which(env, b).version
                        /\ default # NoVersion /\ env.override # "missing" =>
                              LET found == find_infc(env)
                              IN  /\ found # NotFound
                                  /\ found.place \in {"managed", "toolchain"} =>
                                        \A b \in Binaries : bin[found.version][b] = found.version
                                  /\ found.place = "system" =>
                                        \/ infc \in detect_path_conflicts(env)
                                        \/ ~link_target_exists(infc)
    BY DEF ToolchainIsUsable
  <2>2. PICK p \in Procs : pc[p] = "idle" /\ QuietOK(p)
    BY <2>1 DEF AllIdle, CommandInv
  <2> QED BY <2>1, <2>2, QuietIsUsable, TypeParts DEF TypeInv, CommandInv
<1> QED BY <1>1, SoloInvariants, PTL
=============================================================================
