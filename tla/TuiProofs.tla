------------------------------ MODULE TuiProofs ------------------------------
(* What the screen shows is there, for every list of versions and any number  *)
(* of installations.  The invariant has three parts: the lists on the screen, *)
(* the threads with their channels, and the progress screen, whose channel is *)
(* always that of the thread started last.                                    *)
EXTENDS Tui, FiniteSetTheorems, TLAPS

-----------------------------------------------------------------------------
(* The lists.                                                                 *)

ToolchainsOK(t) ==
  /\ t \in [toolchains : SUBSET Versions, dflt : VersionOrNone, selected : Nat, loaded : BOOLEAN]
  /\ t.toolchains # {} => t.selected < Cardinality(t.toolchains)

VersionsOK(v) ==
  /\ v \in [versions : SUBSET Versions, selected : Nat, loaded : BOOLEAN, loading : BOOLEAN]
  /\ v.versions # {} => v.selected < Cardinality(v.versions)

ListsOK == ToolchainsOK(toolchains_state) /\ VersionsOK(version_select_state)

DiskOK == present \subseteq Versions /\ default \in VersionOrNone

-----------------------------------------------------------------------------
(* The threads.                                                               *)

\* The thread that was started last.
IsLatest(i) ==
  i \in Threads /\ thread[i] # "unused" /\ \A j \in Threads : j > i => thread[j] = "unused"

\* Threads are started in their order, and say "completed" only once their
\* version is there.
ThreadsOK ==
  /\ thread \in [Threads -> {"unused", "running", "extracted", "ended"}]
  /\ tver \in [Threads -> VersionOrNone]
  /\ chan \in [Threads -> Messages]
  /\ \A i \in Threads : \A j \in Threads :
       j < i /\ thread[i] # "unused" => thread[j] # "unused"
  /\ \A i \in Threads :
       /\ thread[i] # "unused" => tver[i] \in Versions
       /\ thread[i] = "extracted" => tver[i] \in present
       /\ chan[i] = "completed" => thread[i] = "ended" /\ tver[i] \in present

\* The progress screen listens to the last thread, and what it calls installed
\* is what that thread has installed.
ProgressOK ==
  /\ progress_state \in [completed : BOOLEAN, error : BOOLEAN]
  /\ install_receiver # 0 => IsLatest(install_receiver)
  /\ progress_state.completed /\ ~progress_state.error =>
       \E i \in Threads : IsLatest(i) /\ thread[i] = "ended" /\ tver[i] \in present

Inv == ListsOK /\ DiskOK /\ ThreadsOK /\ ProgressOK

-----------------------------------------------------------------------------
(* What becomes of a list.                                                    *)

\* A list of versions has a length.
LEMMA Lengths ==
  ASSUME NEW S \in SUBSET Versions
  PROVE  /\ Cardinality(S) \in Nat
         /\ S # {} => 0 < Cardinality(S)
<1>1. IsFiniteSet(S)
  BY TuiAssumption, FS_Subset
<1>2. Cardinality(S) \in Nat
  BY <1>1, FS_CardinalityType
<1>. QED  BY <1>1, <1>2, FS_EmptySet

\* select_previous and select_next stay within the list.
LEMMA MovesStay ==
  ASSUME NEW S \in SUBSET Versions, NEW i \in Nat, S # {} => i < Cardinality(S), NEW j \in Moves(S, i)
  PROVE  j \in Nat /\ (S # {} => j < Cardinality(S))
<1>1. CASE S = {}
  BY <1>1 DEF Moves
<1>2. CASE S # {}
  <2>1. PICK n \in Nat : n = Cardinality(S) /\ 0 < n /\ i < n
    BY <1>2, Lengths
  <2>2. j \in {IF i = 0 THEN 0 ELSE i - 1, IF i + 1 < n THEN i + 1 ELSE n - 1}
    BY <1>2, <2>1 DEF Moves
  <2>. QED  BY <2>1, <2>2
<1>. QED  BY <1>1, <1>2

\* A list that has just been read, or is empty, is selected at its start.
LEMMA FreshLists ==
  /\ ToolchainsOK(NewToolchains)
  /\ VersionsOK(NewVersionSelect)
  /\ VersionsOK([versions |-> Versions, selected |-> 0, loaded |-> TRUE, loading |-> FALSE])
  /\ DiskOK => ToolchainsOK(Loaded)
<1>1. ToolchainsOK(NewToolchains)
  BY DEF ToolchainsOK, NewToolchains, VersionOrNone
<1>2. VersionsOK(NewVersionSelect)
  BY DEF VersionsOK, NewVersionSelect
<1>3. VersionsOK([versions |-> Versions, selected |-> 0, loaded |-> TRUE, loading |-> FALSE])
  BY Lengths DEF VersionsOK
<1>4. ASSUME DiskOK
      PROVE  ToolchainsOK(Loaded)
  BY <1>4, Lengths DEF ToolchainsOK, Loaded, DiskOK
<1>. QED  BY <1>1, <1>2, <1>3, <1>4

\* The changes that keep the versions of a list and its selection.
LEMMA SameLists ==
  /\ \A t : ToolchainsOK(t) => ToolchainsOK([t EXCEPT !.loaded = FALSE])
  /\ \A t : \A v \in Versions : ToolchainsOK(t) => ToolchainsOK([t EXCEPT !.dflt = v])
  /\ \A v : VersionsOK(v) => VersionsOK([v EXCEPT !.loading = TRUE])
  /\ \A v : VersionsOK(v) => VersionsOK([v EXCEPT !.loaded = TRUE, !.loading = FALSE])
<1>1. ASSUME NEW t, ToolchainsOK(t)
      PROVE  ToolchainsOK([t EXCEPT !.loaded = FALSE])
  BY <1>1 DEF ToolchainsOK
<1>2. ASSUME NEW t, ToolchainsOK(t), NEW v \in Versions
      PROVE  ToolchainsOK([t EXCEPT !.dflt = v])
  BY <1>2 DEF ToolchainsOK, VersionOrNone
<1>3. ASSUME NEW v, VersionsOK(v)
      PROVE  VersionsOK([v EXCEPT !.loading = TRUE])
  BY <1>3 DEF VersionsOK
<1>4. ASSUME NEW v, VersionsOK(v)
      PROVE  VersionsOK([v EXCEPT !.loaded = TRUE, !.loading = FALSE])
  BY <1>4 DEF VersionsOK
<1>. QED  BY <1>1, <1>2, <1>3, <1>4

\* navigate_to shows lists that are in order.
LEMMA ShownLists ==
  /\ \A t : ToolchainsOK(t) /\ DiskOK /\ ShowToolchains(t) => ToolchainsOK(toolchains_state)'
  /\ \A v, r : VersionsOK(v) /\ ShowVersionSelect(v, r) => VersionsOK(version_select_state)'
<1>1. ASSUME NEW t, ToolchainsOK(t), DiskOK, ShowToolchains(t)
      PROVE  ToolchainsOK(toolchains_state)'
  <2>1. toolchains_state' = t \/ toolchains_state' = Loaded
    BY <1>1 DEF ShowToolchains
  <2>2. ToolchainsOK(toolchains_state')
    BY <1>1, <2>1, FreshLists
  <2>. QED  BY <2>2 DEF ToolchainsOK
<1>2. ASSUME NEW v, NEW r, VersionsOK(v), ShowVersionSelect(v, r)
      PROVE  VersionsOK(version_select_state)'
  <2>1. version_select_state' = v \/ version_select_state' = [v EXCEPT !.loading = TRUE]
    BY <1>2 DEF ShowVersionSelect
  <2>2. VersionsOK(version_select_state')
    BY <1>2, <2>1, SameLists
  <2>. QED  BY <2>2 DEF VersionsOK
<1>. QED  BY <1>1, <1>2

\* A step that leaves a list as it is.
LEMMA KeptLists ==
  /\ UNCHANGED toolchains_state => (ToolchainsOK(toolchains_state) => ToolchainsOK(toolchains_state)')
  /\ UNCHANGED version_select_state => (VersionsOK(version_select_state) => VersionsOK(version_select_state)')
  BY DEF ToolchainsOK, VersionsOK

\* navigate_to leaves both lists in order.
LEMMA NavigationLists ==
  ASSUME ListsOK, DiskOK, NEW s, NEW r, NavigateTo(s, r)
  PROVE  ListsOK'
<1>1. ToolchainsOK(toolchains_state)'
  BY ShownLists, KeptLists DEF NavigateTo, ListsOK
<1>2. VersionsOK(version_select_state)'
  BY ShownLists, KeptLists DEF NavigateTo, ListsOK
<1>. QED  BY <1>1, <1>2 DEF ListsOK

\* Every step leaves both lists in order.
LEMMA ListsStep ==
  ASSUME ListsOK, DiskOK, [Next]_vars
  PROVE  ListsOK'
<1>. USE DEF ListsOK
<1>1. CASE UNCHANGED <<toolchains_state, version_select_state>>
  BY <1>1, KeptLists
<1>2. CASE Poll
  <2>1. \/ UNCHANGED version_select_state
        \/ version_select_state' = [versions |-> Versions, selected |-> 0, loaded |-> TRUE, loading |-> FALSE]
        \/ version_select_state' = [version_select_state EXCEPT !.loaded = TRUE, !.loading = FALSE]
    BY <1>2 DEF Poll, PollVersions, loading
  <2>2. VersionsOK(version_select_state')
    BY <2>1, FreshLists, SameLists
  <2>. QED  BY <1>2, <2>2, KeptLists DEF Poll, VersionsOK
<1>3. CASE \E s \in {"Toolchains", "Doctor"} : NavigateTo(s, version_load_receiver)
  BY <1>3, NavigationLists
<1>4. CASE MoveToolchain
  <2>1. PICK i \in Moves(toolchains_state.toolchains, toolchains_state.selected) :
          toolchains_state' = [toolchains_state EXCEPT !.selected = i]
    BY <1>4 DEF MoveToolchain
  <2>2. i \in Nat /\ (toolchains_state.toolchains # {} => i < Cardinality(toolchains_state.toolchains))
    BY <2>1, MovesStay DEF ToolchainsOK
  <2>3. ToolchainsOK(toolchains_state)'
    BY <2>1, <2>2 DEF ToolchainsOK
  <2>. QED  BY <1>4, <2>3, KeptLists DEF MoveToolchain, loading
<1>5. CASE MoveVersion
  <2>1. PICK i \in Moves(version_select_state.versions, version_select_state.selected) :
          version_select_state' = [version_select_state EXCEPT !.selected = i]
    BY <1>5 DEF MoveVersion
  <2>2. i \in Nat /\ (version_select_state.versions # {} => i < Cardinality(version_select_state.versions))
    BY <2>1, MovesStay DEF VersionsOK
  <2>3. VersionsOK(version_select_state)'
    BY <2>1, <2>2 DEF VersionsOK
  <2>. QED  BY <1>5, <2>3, KeptLists DEF MoveVersion
<1>6. CASE OpenVersionSelect
  BY <1>6, FreshLists, ShownLists, KeptLists DEF OpenVersionSelect
<1>7. CASE SetAsDefault
  <2>1. PICK v \in At(toolchains_state.toolchains, toolchains_state.selected) :
          toolchains_state' = [Loaded EXCEPT !.dflt = v] \/ UNCHANGED toolchains_state
    BY <1>7 DEF SetAsDefault
  <2>2. v \in Versions
    BY DEF At, ToolchainsOK
  <2>3. ToolchainsOK(toolchains_state')
    BY <2>1, <2>2, FreshLists, SameLists
  <2>. QED  BY <1>7, <2>3, KeptLists DEF SetAsDefault, ToolchainsOK, loading
<1>8. CASE LeaveVersionSelect
  BY <1>8, NavigationLists DEF LeaveVersionSelect
<1>9. CASE ReturnFromProgress
  <2>1. \/ UNCHANGED toolchains_state
        \/ ShowToolchains(toolchains_state)
        \/ ShowToolchains([toolchains_state EXCEPT !.loaded = FALSE])
    BY <1>9 DEF ReturnFromProgress
  <2>2. ToolchainsOK(toolchains_state)'
    BY <2>1, ShownLists, KeptLists, SameLists
  <2>3. VersionsOK(version_select_state)'
    BY <1>9, ShownLists, KeptLists DEF ReturnFromProgress, loading
  <2>. QED  BY <2>2, <2>3
<1>10. CASE Restart
  BY <1>10, FreshLists DEF Restart, ToolchainsOK, VersionsOK
<1>11. CASE NoKey \/ CommandKey \/ BackToMain \/ StartInstallation \/ CancelInstallation \/ Quit
  BY <1>11, <1>1 DEF NoKey, CommandKey, BackToMain, StartInstallation, CancelInstallation, Quit, loading
<1>12. CASE MenuKey \/ ExecuteCommand
  BY <1>12, <1>1, <1>3 DEF MenuKey, ExecuteCommand, loading
<1>13. CASE LoaderAnswers
  BY <1>13, <1>1 DEF LoaderAnswers
<1>14. ASSUME NEW i \in Threads, ThreadStep(i) \/ ThreadReports(i)
       PROVE  UNCHANGED <<toolchains_state, version_select_state>>
  BY <1>14 DEF ThreadStep, ThreadReports, ThreadExtracts, ThreadCompletes, ThreadFails, loading
<1>15. CASE UNCHANGED vars
  BY <1>15, <1>1 DEF vars, loading
<1>. QED
  BY <1>1, <1>2, <1>4, <1>5, <1>6, <1>7, <1>8, <1>9, <1>10, <1>11, <1>12, <1>13, <1>14, <1>15
  DEF Next, KeyStep

-----------------------------------------------------------------------------
(* The disk, the threads and the progress screen.                             *)

\* The versions that are there are versions of the manifest.
LEMMA DiskStep ==
  ASSUME ListsOK, DiskOK, ThreadsOK, [Next]_vars
  PROVE  DiskOK' /\ present \subseteq present'
<1>. USE DEF DiskOK
<1>1. CASE UNCHANGED disk
  BY <1>1 DEF disk
<1>2. CASE SetAsDefault
  <2>1. PICK v \in At(toolchains_state.toolchains, toolchains_state.selected) : default' = v
    BY <1>2 DEF SetAsDefault
  <2>2. v \in Versions
    BY DEF At, ListsOK, ToolchainsOK
  <2>. QED  BY <1>2, <2>1, <2>2 DEF SetAsDefault, VersionOrNone
<1>3. CASE Restart
  BY <1>3, TuiAssumption DEF Restart, VersionOrNone, disk
<1>4. ASSUME NEW i \in Threads, ThreadStep(i) \/ ThreadReports(i)
      PROVE  DiskOK' /\ present \subseteq present'
  BY <1>4 DEF ThreadStep, ThreadReports, ThreadExtracts, ThreadCompletes, ThreadFails, ThreadsOK,
              VersionOrNone, disk
<1>5. CASE Poll \/ Quit \/ LoaderAnswers \/ UNCHANGED vars
  BY <1>5, <1>1 DEF Poll, Quit, LoaderAnswers, vars
<1>6. CASE KeyStep /\ ~SetAsDefault
  BY <1>6, <1>1 DEF KeyStep, NoKey, MenuKey, CommandKey, ExecuteCommand, MoveToolchain, MoveVersion,
                    BackToMain, OpenVersionSelect, LeaveVersionSelect, StartInstallation,
                    CancelInstallation, ReturnFromProgress
<1>. QED  BY <1>2, <1>3, <1>4, <1>5, <1>6 DEF Next

\* The threads are in order when only the disk has grown.
LEMMA ThreadsKept ==
  ASSUME ThreadsOK, UNCHANGED threads, present \subseteq present'
  PROVE  ThreadsOK'
  BY DEF ThreadsOK, threads

\* The progress screen is right when it and the threads are as before.
LEMMA ProgressKept ==
  ASSUME ProgressOK, UNCHANGED <<thread, tver, progress_state>>, present \subseteq present',
         install_receiver' = install_receiver \/ install_receiver' = 0
  PROVE  ProgressOK'
  BY DEF ProgressOK, IsLatest

\* Of two threads that were started last, both are the same.
LEMMA OneLatest ==
  ASSUME NEW i, NEW j, IsLatest(i), IsLatest(j)
  PROVE  i = j
  BY TuiAssumption DEF IsLatest, Threads

\* The keys and answers that neither the threads nor the progress screen notice.
LEMMA QuietStep ==
  ASSUME ThreadsOK, ProgressOK, present \subseteq present',
         \/ NoKey \/ MenuKey \/ CommandKey \/ ExecuteCommand \/ MoveToolchain \/ MoveVersion
         \/ BackToMain \/ OpenVersionSelect \/ SetAsDefault \/ LeaveVersionSelect
         \/ LoaderAnswers \/ UNCHANGED vars
  PROVE  ThreadsOK' /\ ProgressOK'
<1>1. UNCHANGED threads /\ UNCHANGED progress
  BY DEF NoKey, MenuKey, CommandKey, ExecuteCommand, MoveToolchain, MoveVersion,
         BackToMain, OpenVersionSelect, SetAsDefault, LeaveVersionSelect, LoaderAnswers, vars
<1>. QED  BY <1>1, ThreadsKept, ProgressKept DEF threads, progress

\* A final message is taken from the channel of the last thread, which has ended.
LEMMA PollStep ==
  ASSUME ThreadsOK, ProgressOK, Poll
  PROVE  ThreadsOK' /\ ProgressOK'
<1>1. UNCHANGED <<thread, tver, present>>
  BY DEF Poll, disk
<1>2. CASE install_receiver = 0
  BY <1>1, <1>2, ThreadsKept, ProgressKept DEF Poll, PollInstall, threads
<1>3. CASE install_receiver # 0
  <2>1. PICK i \in Threads : i = install_receiver /\ IsLatest(i)
    BY <1>3 DEF ProgressOK, IsLatest
  <2>2. chan' = [chan EXCEPT ![i] = "empty"]
    BY <1>3, <2>1 DEF Poll, PollInstall
  <2>3. chan' \in [Threads -> Messages] /\ \A j \in Threads : chan'[j] = "completed" => chan[j] = "completed"
    BY <2>2 DEF ThreadsOK, Messages
  <2>4. ThreadsOK'
    BY <1>1, <2>3 DEF ThreadsOK
  <2>5. CASE chan[i] = "completed"
    <3>1. progress_state' = [completed |-> TRUE, error |-> FALSE] /\ install_receiver' = 0
      BY <1>3, <2>1, <2>5 DEF Poll, PollInstall
    <3>2. thread[i] = "ended" /\ tver[i] \in present
      BY <2>5 DEF ThreadsOK
    <3>. QED  BY <1>1, <2>1, <2>4, <3>1, <3>2 DEF ProgressOK, IsLatest
  <2>6. CASE chan[i] = "failed"
    <3>1. progress_state' = [completed |-> TRUE, error |-> TRUE] /\ install_receiver' = 0
      BY <1>3, <2>1, <2>6 DEF Poll, PollInstall
    <3>. QED  BY <2>4, <3>1 DEF ProgressOK
  <2>7. CASE chan[i] \notin {"completed", "failed"}
    <3>1. UNCHANGED <<progress_state, install_receiver>>
      BY <1>3, <2>1, <2>7 DEF Poll, PollInstall
    <3>. QED  BY <1>1, <2>4, <3>1, ProgressKept
  <2>. QED  BY <2>5, <2>6, <2>7
<1>. QED  BY <1>2, <1>3

\* The thread that is started is the last one, and the screen listens to it.
LEMMA StartStep ==
  ASSUME ThreadsOK, ProgressOK, StartInstallation, VersionsOK(version_select_state)
  PROVE  ThreadsOK' /\ ProgressOK'
<1>1. PICK v \in At(version_select_state.versions, version_select_state.selected) \cap Available,
           i \in Threads :
         /\ thread[i] = "unused"
         /\ \A j \in Threads : j < i => thread[j] # "unused"
         /\ thread' = [thread EXCEPT ![i] = "running"]
         /\ tver' = [tver EXCEPT ![i] = v]
         /\ install_receiver' = i
  BY DEF StartInstallation
<1>2. v \in Versions
  BY <1>1, TuiAssumption
<1>3. progress_state' = NewProgress /\ UNCHANGED <<chan, present>>
  BY DEF StartInstallation, disk
<1>4. \A j \in Threads : j > i => thread[j] = "unused"
  BY <1>1 DEF ThreadsOK
<1>5. /\ thread' \in [Threads -> {"unused", "running", "extracted", "ended"}]
      /\ tver' \in [Threads -> VersionOrNone]
      /\ thread'[i] = "running" /\ tver'[i] = v
      /\ \A j \in Threads \ {i} : thread'[j] = thread[j] /\ tver'[j] = tver[j]
  BY <1>1, <1>2 DEF ThreadsOK, VersionOrNone
<1>6. \A j \in Threads : \A k \in Threads : k < j /\ thread'[j] # "unused" => thread'[k] # "unused"
  BY <1>1, <1>5 DEF ThreadsOK
<1>7. chan[i] # "completed"
  BY <1>1 DEF ThreadsOK
<1>8. \A j \in Threads : /\ thread'[j] # "unused" => tver'[j] \in Versions
                         /\ thread'[j] = "extracted" => tver'[j] \in present
                         /\ chan[j] = "completed" => thread'[j] = "ended" /\ tver'[j] \in present
  BY <1>2, <1>5, <1>7 DEF ThreadsOK
<1>9. ThreadsOK'
  BY <1>3, <1>5, <1>6, <1>8 DEF ThreadsOK
<1>10. IsLatest(i)'
  <2>1. \A j \in Threads : j > i => j \in Threads \ {i}
    BY DEF Threads
  <2>. QED  BY <1>4, <1>5, <2>1 DEF IsLatest
<1>. QED  BY <1>1, <1>3, <1>9, <1>10 DEF ProgressOK, NewProgress

\* An installation given up, left or forgotten by a new App.
LEMMA LeaveStep ==
  ASSUME ThreadsOK, ProgressOK, present \subseteq present',
         CancelInstallation \/ ReturnFromProgress \/ Restart
  PROVE  ThreadsOK' /\ ProgressOK'
<1>1. UNCHANGED threads
  BY DEF CancelInstallation, ReturnFromProgress, Restart
<1>2. ThreadsOK'
  BY <1>1, ThreadsKept
<1>3. CASE CancelInstallation
  BY <1>2, <1>3 DEF CancelInstallation, ProgressOK
<1>4. CASE ReturnFromProgress
  BY <1>1, <1>2, <1>4, ProgressKept DEF ReturnFromProgress, threads
<1>5. CASE Restart
  BY <1>2, <1>5 DEF Restart, ProgressOK, NewProgress
<1>. QED  BY <1>3, <1>4, <1>5

\* The process ends, and its threads with it.
LEMMA QuitStep ==
  ASSUME ThreadsOK, ProgressOK, Quit
  PROVE  ThreadsOK' /\ ProgressOK'
<1>1. UNCHANGED <<tver, chan, present, install_receiver, progress_state>>
  BY DEF Quit, disk, progress
<1>2. /\ thread' \in [Threads -> {"unused", "running", "extracted", "ended"}]
      /\ \A i \in Threads : (thread'[i] = "unused") = (thread[i] = "unused")
      /\ \A i \in Threads : thread'[i] \in {"unused", "ended"}
      /\ \A i \in Threads : thread[i] = "ended" => thread'[i] = "ended"
  BY DEF Quit, ThreadsOK
<1>3. ThreadsOK'
  BY <1>1, <1>2 DEF ThreadsOK
<1>4. \A i : IsLatest(i) => IsLatest(i)'
  BY <1>2 DEF IsLatest
<1>. QED  BY <1>1, <1>2, <1>3, <1>4 DEF ProgressOK, IsLatest

\* A step of one thread: what it says is done.
LEMMA OneThreadStep ==
  ASSUME ThreadsOK, ProgressOK, present \subseteq present', NEW i \in Threads,
         ThreadStep(i) \/ ThreadReports(i)
  PROVE  ThreadsOK' /\ ProgressOK'
<1>1. UNCHANGED <<tver, install_receiver, progress_state>>
  BY DEF ThreadStep, ThreadReports, ThreadExtracts, ThreadCompletes, ThreadFails, progress
<1>. DEFINE Becomes(s, m) == /\ thread' = [thread EXCEPT ![i] = s]
                             /\ chan' = [chan EXCEPT ![i] = m]
                             /\ s \in {"running", "extracted", "ended"}
                             /\ m \in Messages
                             /\ thread[i] \in {"running", "extracted"}
                             /\ s = "extracted" => tver[i] \in present'
                             /\ m = "completed" => s = "ended" /\ tver[i] \in present'
<1>2. PICK s, m : Becomes(s, m)
  <2>1. ASSUME ThreadReports(i) PROVE Becomes(thread[i], "progress")
    <3>1. thread' = [thread EXCEPT ![i] = thread[i]]
      BY <2>1 DEF ThreadReports, ThreadsOK
    <3>. QED  BY <2>1, <3>1 DEF ThreadReports, Send, ThreadsOK, Messages, disk
  <2>2. ASSUME ThreadExtracts(i) PROVE Becomes("extracted", chan[i])
    <3>1. chan' = [chan EXCEPT ![i] = chan[i]]
      BY <2>2 DEF ThreadExtracts, ThreadsOK
    <3>2. chan[i] # "completed" /\ chan[i] \in Messages
      BY <2>2 DEF ThreadExtracts, ThreadsOK
    <3>. QED  BY <2>2, <3>1, <3>2 DEF ThreadExtracts
  <2>3. ASSUME ThreadCompletes(i) PROVE Becomes("ended", "completed")
    BY <2>3 DEF ThreadCompletes, Send, ThreadsOK, Messages
  <2>4. ASSUME ThreadFails(i) PROVE Becomes("ended", "failed")
    BY <2>4 DEF ThreadFails, Send, Messages
  <2>. HIDE DEF Becomes
  <2>. QED  BY <2>1, <2>2, <2>3, <2>4 DEF ThreadStep
<1>3. /\ thread' \in [Threads -> {"unused", "running", "extracted", "ended"}]
      /\ chan' \in [Threads -> Messages]
      /\ thread'[i] = s /\ chan'[i] = m
      /\ \A j \in Threads \ {i} : thread'[j] = thread[j] /\ chan'[j] = chan[j]
  BY <1>2 DEF ThreadsOK
<1>4. \A j \in Threads : (thread'[j] = "unused") = (thread[j] = "unused")
  BY <1>2, <1>3
<1>5. \A j \in Threads : /\ thread'[j] # "unused" => tver[j] \in Versions
                         /\ thread'[j] = "extracted" => tver[j] \in present'
                         /\ chan'[j] = "completed" => thread'[j] = "ended" /\ tver[j] \in present'
  BY <1>2, <1>3, <1>4 DEF ThreadsOK
<1>6. ThreadsOK'
  BY <1>1, <1>3, <1>4, <1>5 DEF ThreadsOK
<1>7. \A j : IsLatest(j) => IsLatest(j)'
  BY <1>4 DEF IsLatest
<1>8. \A j \in Threads : thread[j] = "ended" => thread'[j] = "ended"
  BY <1>2, <1>3
<1>. QED  BY <1>1, <1>6, <1>7, <1>8 DEF ProgressOK

-----------------------------------------------------------------------------
(* The invariant.                                                             *)

\* Nothing is shown and nothing is installed at the start.
LEMMA InitInv == Init => Inv
<1>. SUFFICES ASSUME Init PROVE Inv
  OBVIOUS
<1>1. ListsOK
  BY FreshLists DEF Init, AppInit, ListsOK
<1>2. DiskOK
  BY DEF Init, DiskOK, VersionOrNone
<1>3. ThreadsOK
  BY DEF Init, ThreadsOK, VersionOrNone, Messages
<1>4. ProgressOK
  BY DEF Init, AppInit, ProgressOK, NewProgress
<1>. QED  BY <1>1, <1>2, <1>3, <1>4 DEF Inv

\* Every step keeps the invariant.
LEMMA NextInv == Inv /\ [Next]_vars => Inv'
<1>. SUFFICES ASSUME Inv, [Next]_vars PROVE Inv'
  OBVIOUS
<1>1. ListsOK /\ DiskOK /\ ThreadsOK /\ ProgressOK
  BY DEF Inv
<1>2. ListsOK'
  BY <1>1, ListsStep
<1>3. DiskOK' /\ present \subseteq present'
  BY <1>1, DiskStep
<1>4. ThreadsOK' /\ ProgressOK'
  <2>1. CASE Poll
    BY <1>1, <2>1, PollStep
  <2>2. CASE StartInstallation
    BY <1>1, <2>2, StartStep DEF ListsOK
  <2>3. CASE CancelInstallation \/ ReturnFromProgress \/ Restart
    BY <1>1, <1>3, <2>3, LeaveStep
  <2>4. CASE Quit
    BY <1>1, <2>4, QuitStep
  <2>5. ASSUME NEW i \in Threads, ThreadStep(i) \/ ThreadReports(i)
        PROVE  ThreadsOK' /\ ProgressOK'
    BY <1>1, <1>3, <2>5, OneThreadStep
  <2>6. CASE \/ NoKey \/ MenuKey \/ CommandKey \/ ExecuteCommand \/ MoveToolchain \/ MoveVersion
             \/ BackToMain \/ OpenVersionSelect \/ SetAsDefault \/ LeaveVersionSelect
             \/ LoaderAnswers \/ UNCHANGED vars
    BY <1>1, <1>3, <2>6, QuietStep
  <2>. QED  BY <2>1, <2>2, <2>3, <2>4, <2>5, <2>6 DEF Next, KeyStep
<1>. QED  BY <1>2, <1>3, <1>4 DEF Inv

\* A screen that keeps the invariant shows what is there: Latest is the thread
\* that the invariant speaks of.
LEMMA InvScreen == Inv => ScreenIsReal
<1>. SUFFICES ASSUME Inv PROVE ScreenIsReal
  OBVIOUS
<1>1. SelectionInBounds
  BY DEF Inv, ListsOK, ToolchainsOK, VersionsOK, SelectionInBounds
<1>2. ASSUME progress_state.completed, ~progress_state.error
      PROVE  thread[Latest] = "ended" /\ tver[Latest] \in present
  <2>1. PICK i \in Threads : IsLatest(i) /\ thread[i] = "ended" /\ tver[i] \in present
    BY <1>2 DEF Inv, ProgressOK
  <2>2. Latest \in Threads /\ thread[Latest] # "unused" /\ \A j \in Threads : j > Latest => thread[j] = "unused"
    BY <2>1 DEF Latest, IsLatest
  <2>3. Latest = i
    BY <2>1, <2>2, OneLatest DEF IsLatest
  <2>. QED  BY <2>1, <2>3
<1>. QED  BY <1>1, <1>2 DEF ScreenIsReal

\* What the screen shows is there, whatever keys are pressed and however many
\* installations run, fail or are cancelled behind it: a selection is on an
\* entry of its list, and "installed" is said of a version that is installed,
\* never because of the message of another thread.
THEOREM ScreenIsRealHolds == Spec => []ScreenIsReal
<1>1. Init => Inv
  BY InitInv
<1>2. Inv /\ [Next]_vars => Inv'
  BY NextInv
<1>3. Inv => ScreenIsReal
  BY InvScreen
<1>. QED  BY <1>1, <1>2, <1>3, PTL DEF Spec
=============================================================================
