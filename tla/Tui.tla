-------------------------------- MODULE Tui --------------------------------
(***************************************************************************)
(* The terminal UI of infs (apps/infs/src/tui): one event loop that polls  *)
(* two channels and then handles at most one key, a thread that loads the  *)
(* versions of the manifest, and threads that install.  A thread's effect  *)
(* on ~/.inference is two steps here, extraction and configuration; module *)
(* Installer has the rest of it.                                           *)
(*                                                                         *)
(* A list on the screen is the set of its versions and the position of the *)
(* selection; both lists are sorted.  Of a channel only the last message   *)
(* matters: a poll drains it, and what precedes the last only changes the  *)
(* text on the screen.                                                     *)
(***************************************************************************)
EXTENDS Naturals, FiniteSets

CONSTANTS Versions,    \* the versions of the manifest
          Available,   \* those with an artifact for this platform
          MaxThreads   \* bound: installations started

ASSUME TuiAssumption ==
    /\ Versions \subseteq Nat \ {0} /\ IsFiniteSet(Versions)
    /\ Available \subseteq Versions
    /\ MaxThreads \in Nat \ {0}

Threads == 1..MaxThreads
NoVersion == 0
VersionOrNone == Versions \cup {NoVersion}

VARIABLES phase,     \* run_app: "poll", "key", "command" (a child), "exited"
          screen, input_mode, previous_screen,
          pending_command,
          toolchains_state, version_select_state, doctor_loaded,
          version_load_receiver,  \* "None", or what the loader has sent
          install_receiver,       \* the thread whose channel is polled, 0: None
          progress_state,
          present, default,       \* ~/.inference
          thread,    \* state of each install thread
          tver,      \* the version it installs
          chan,      \* the last message in its channel
          cancelled, \* history: versions whose installation was cancelled
          confirmed  \* history: versions whose success the user has seen

nav == <<screen, input_mode, previous_screen, pending_command>>
loading == <<version_select_state, version_load_receiver>>
progress == <<install_receiver, progress_state>>
disk == <<present, default>>
threads == <<thread, tver, chan>>
history == <<cancelled, confirmed>>
vars == <<phase, nav, toolchains_state, loading, doctor_loaded, progress, disk, threads, history>>

Screens == {"Main", "Toolchains", "Doctor", "Progress", "VersionSelect"}
Messages == {"empty", "progress", "completed", "failed"}

NewToolchains == [toolchains |-> {}, dflt |-> NoVersion, selected |-> 0, loaded |-> FALSE]
NewVersionSelect == [versions |-> {}, selected |-> 0, loaded |-> FALSE, loading |-> FALSE]
NewProgress == [completed |-> FALSE, error |-> FALSE]

TypeOK ==
    /\ phase \in {"poll", "key", "command", "exited"}
    /\ screen \in Screens
    /\ input_mode \in {"Normal", "Command"}
    /\ previous_screen \in Screens \cup {"None"}
    /\ pending_command \in BOOLEAN
    /\ toolchains_state \in [toolchains : SUBSET Versions, dflt : VersionOrNone,
                             selected : Nat, loaded : BOOLEAN]
    /\ version_select_state \in [versions : SUBSET Versions, selected : Nat,
                                 loaded : BOOLEAN, loading : BOOLEAN]
    /\ doctor_loaded \in BOOLEAN
    /\ version_load_receiver \in {"None", "empty", "ok", "error"}
    /\ install_receiver \in 0..MaxThreads
    /\ progress_state \in [completed : BOOLEAN, error : BOOLEAN]
    /\ present \in SUBSET Versions
    /\ default \in VersionOrNone
    /\ thread \in [Threads -> {"unused", "running", "extracted", "ended"}]
    /\ tver \in [Threads -> VersionOrNone]
    /\ chan \in [Threads -> Messages]
    /\ cancelled \in SUBSET Threads
    /\ confirmed \in SUBSET Versions

\* App::default()
AppInit ==
    /\ screen = "Main"
    /\ input_mode = "Normal"
    /\ previous_screen = "None"
    /\ pending_command = FALSE
    /\ toolchains_state = NewToolchains
    /\ version_select_state = NewVersionSelect
    /\ doctor_loaded = FALSE
    /\ version_load_receiver = "None"
    /\ install_receiver = 0
    /\ progress_state = NewProgress

Init ==
    /\ phase = "poll"
    /\ AppInit
    /\ present = {}
    /\ default = NoVersion
    /\ thread = [i \in Threads |-> "unused"]
    /\ tver = [i \in Threads |-> NoVersion]
    /\ chan = [i \in Threads |-> "empty"]
    /\ cancelled = {}
    /\ confirmed = {}

-----------------------------------------------------------------------------
(* Lists.                                                                  *)

\* The version at a position of a sorted list.
At(S, i) == {v \in S : Cardinality({w \in S : w < v}) = i}

\* select_previous and select_next do not wrap, and leave an empty list alone.
Moves(S, i) ==
    IF S = {} THEN {i}
    ELSE {IF i = 0 THEN 0 ELSE i - 1,
          IF i + 1 < Cardinality(S) THEN i + 1 ELSE Cardinality(S) - 1}

-----------------------------------------------------------------------------
(* navigate_to, given the state of the lists it looks at.                  *)

\* load_toolchain_data reads the directory and the default file.
Loaded == [toolchains |-> present, dflt |-> default, selected |-> 0, loaded |-> TRUE]

ShowToolchains(tcs) ==
    toolchains_state' = IF tcs.loaded THEN tcs ELSE Loaded

\* load_version_data spawns the loader with a new channel.
ShowVersionSelect(vss, receiver) ==
    IF ~vss.loaded /\ ~vss.loading
    THEN /\ version_select_state' = [vss EXCEPT !.loading = TRUE]
         /\ version_load_receiver' = "empty"
    ELSE /\ version_select_state' = vss
         /\ version_load_receiver' = receiver

NavigateTo(s, receiver) ==
    /\ screen' = s
    /\ IF s = "Toolchains" THEN ShowToolchains(toolchains_state) ELSE UNCHANGED toolchains_state
    /\ IF s = "VersionSelect" THEN ShowVersionSelect(version_select_state, receiver)
       ELSE /\ UNCHANGED version_select_state
            /\ version_load_receiver' = receiver
    /\ doctor_loaded' = (doctor_loaded \/ s = "Doctor")

-----------------------------------------------------------------------------
(* Polling.                                                                *)

\* Mutant: every message is taken for the last one.
MutPollInstall ==
    IF install_receiver # 0 /\ chan[install_receiver] # "empty"
    THEN /\ progress_state' = [completed |-> chan[install_receiver] # "progress", error |-> FALSE]
         /\ install_receiver' = 0
         /\ chan' = [chan EXCEPT ![install_receiver] = "empty"]
    ELSE UNCHANGED <<progress_state, install_receiver, chan>>

\* poll_install_progress: only a final message completes the progress state
\* and closes the channel.
PollInstall ==
    IF install_receiver # 0
    THEN LET msg == chan[install_receiver]
         IN  /\ chan' = [chan EXCEPT ![install_receiver] = "empty"]
             /\ IF msg \in {"completed", "failed"}
                THEN /\ progress_state' = [completed |-> TRUE, error |-> msg = "failed"]
                     /\ install_receiver' = 0
                ELSE UNCHANGED <<progress_state, install_receiver>>
    ELSE UNCHANGED <<progress_state, install_receiver, chan>>

\* poll_version_loading
PollVersions ==
    IF version_load_receiver \in {"ok", "error"}
    THEN /\ version_select_state' =
                IF version_load_receiver = "ok"
                THEN [versions |-> Versions, selected |-> 0, loaded |-> TRUE, loading |-> FALSE]
                ELSE [version_select_state EXCEPT !.loaded = TRUE, !.loading = FALSE]
         /\ version_load_receiver' = "None"
    ELSE UNCHANGED loading

Poll ==
    /\ phase = "poll"
    /\ phase' = "key"
    /\ PollInstall
    /\ PollVersions
    /\ UNCHANGED <<nav, toolchains_state, doctor_loaded, disk, thread, tver, history>>

-----------------------------------------------------------------------------
(* Keys.  Each handler runs to its end before the next poll.               *)

Key(s) == phase = "key" /\ input_mode = "Normal" /\ screen = s /\ phase' = "poll"

\* No key within the poll's timeout, or one that changes no more than the menu's
\* selection, the text of the command line or the doctor's checks.
NoKey ==
    /\ phase = "key"
    /\ phase' = "poll"
    /\ UNCHANGED <<nav, toolchains_state, loading, doctor_loaded, progress, disk, threads, history>>

\* 'q', "Quit", "exit", Ctrl-C: main returns and the process ends.
Quit ==
    /\ phase = "key"
    /\ phase' = "exited"
    /\ thread' = [i \in Threads |-> IF thread[i] = "unused" THEN "unused" ELSE "ended"]
    /\ UNCHANGED <<nav, toolchains_state, loading, doctor_loaded, progress, disk, tver, chan, history>>

\* The menu, by key or Enter.
MenuKey ==
    /\ Key("Main")
    /\ \E s \in {"Toolchains", "Doctor"} : NavigateTo(s, version_load_receiver)
    /\ UNCHANGED <<input_mode, previous_screen, pending_command, progress, disk, threads, history>>

\* ':' and then typing; the text is of no account until Enter.
CommandKey ==
    /\ Key("Main")
    /\ input_mode' = "Command"
    /\ UNCHANGED <<screen, previous_screen, pending_command, toolchains_state, loading,
                   doctor_loaded, progress, disk, threads, history>>

\* Esc, or Enter on a command: nothing to do, a screen, or a command that needs
\* the terminal (the loop breaks and run() starts a child process).
ExecuteCommand ==
    /\ phase = "key"
    /\ input_mode = "Command"
    /\ input_mode' = "Normal"
    /\ \/ /\ phase' = "poll"
          /\ UNCHANGED <<screen, pending_command, toolchains_state, loading, doctor_loaded>>
       \/ /\ phase' = "poll"
          /\ \E s \in {"Toolchains", "Doctor"} : NavigateTo(s, version_load_receiver)
          /\ UNCHANGED pending_command
       \/ /\ phase' = "command"
          /\ pending_command' = TRUE
          /\ UNCHANGED <<screen, toolchains_state, loading, doctor_loaded>>
    /\ UNCHANGED <<previous_screen, progress, disk, threads, history>>

\* Up and Down in the two lists.
MoveToolchain ==
    /\ Key("Toolchains")
    /\ \E i \in Moves(toolchains_state.toolchains, toolchains_state.selected) :
         toolchains_state' = [toolchains_state EXCEPT !.selected = i]
    /\ UNCHANGED <<nav, loading, doctor_loaded, progress, disk, threads, history>>

MoveVersion ==
    /\ Key("VersionSelect")
    /\ \E i \in Moves(version_select_state.versions, version_select_state.selected) :
         version_select_state' = [version_select_state EXCEPT !.selected = i]
    /\ UNCHANGED <<nav, toolchains_state, version_load_receiver, doctor_loaded, progress, disk,
                   threads, history>>

BackToMain ==
    /\ Key(screen)
    /\ screen \in {"Toolchains", "Doctor"}
    /\ screen' = "Main"
    /\ UNCHANGED <<input_mode, previous_screen, pending_command, toolchains_state, loading,
                   doctor_loaded, progress, disk, threads, history>>

\* Mutant: the version list of an earlier visit is kept.
MutOpenVersionSelect ==
    /\ Key("Toolchains")
    /\ previous_screen' = "Toolchains"
    /\ screen' = "VersionSelect"
    /\ ShowVersionSelect(version_select_state, version_load_receiver)
    /\ UNCHANGED <<input_mode, pending_command, toolchains_state, doctor_loaded, progress, disk,
                   threads, history>>

\* 'i', or Enter on an empty list: a fresh list of versions.
OpenVersionSelect ==
    /\ Key("Toolchains")
    /\ previous_screen' = "Toolchains"
    /\ screen' = "VersionSelect"
    /\ ShowVersionSelect(NewVersionSelect, version_load_receiver)
    /\ UNCHANGED <<input_mode, pending_command, toolchains_state, doctor_loaded, progress, disk,
                   threads, history>>

\* Enter on a toolchain: nothing if the list says it is the default, else the
\* default is written and the list loaded again, or an error is shown.
SetAsDefault ==
    /\ Key("Toolchains")
    /\ \E v \in At(toolchains_state.toolchains, toolchains_state.selected) :
         /\ toolchains_state.dflt # v
         /\ default' = v
         /\ \/ toolchains_state' = [Loaded EXCEPT !.dflt = v]
            \/ UNCHANGED toolchains_state        \* update_symlinks failed
    /\ UNCHANGED <<nav, loading, doctor_loaded, progress, present, threads, history>>

\* Esc: back to where the list was opened from.
LeaveVersionSelect ==
    /\ Key("VersionSelect")
    /\ NavigateTo(IF previous_screen = "None" THEN "Main" ELSE previous_screen, "None")
    /\ previous_screen' = "None"
    /\ UNCHANGED <<input_mode, pending_command, progress, disk, threads, history>>

\* Mutant: the channel of the installation before stays connected.
MutStartInstallation ==
    /\ Key("VersionSelect")
    /\ \E v \in At(version_select_state.versions, version_select_state.selected) \cap Available,
          i \in Threads :
         /\ thread[i] = "unused"
         /\ \A j \in Threads : j < i => thread[j] # "unused"
         /\ thread' = [thread EXCEPT ![i] = "running"]
         /\ tver' = [tver EXCEPT ![i] = v]
         /\ install_receiver' = IF i > 1 THEN i - 1 ELSE i
    /\ progress_state' = NewProgress
    /\ previous_screen' = screen
    /\ screen' = "Progress"
    /\ UNCHANGED <<input_mode, pending_command, toolchains_state, loading, doctor_loaded, disk,
                   chan, history>>

\* Enter on a version that is available: start_installation.  The screen to
\* return to becomes the version list, whatever it was.
StartInstallation ==
    /\ Key("VersionSelect")
    /\ \E v \in At(version_select_state.versions, version_select_state.selected) \cap Available,
          i \in Threads :
         /\ thread[i] = "unused"
         /\ \A j \in Threads : j < i => thread[j] # "unused"
         /\ thread' = [thread EXCEPT ![i] = "running"]
         /\ tver' = [tver EXCEPT ![i] = v]
         /\ install_receiver' = i
    /\ progress_state' = NewProgress
    /\ previous_screen' = screen
    /\ screen' = "Progress"
    /\ UNCHANGED <<input_mode, pending_command, toolchains_state, loading, doctor_loaded, disk,
                   chan, history>>

\* The thread the progress screen is about: the last one started.
Latest == CHOOSE i \in Threads :
            thread[i] # "unused" /\ \A j \in Threads : j > i => thread[j] = "unused"

\* Esc while the installation runs: the receiver is dropped, and nothing else.
CancelInstallation ==
    /\ Key("Progress")
    /\ ~progress_state.completed
    /\ install_receiver' = 0
    /\ progress_state' = [completed |-> TRUE, error |-> TRUE]
    /\ cancelled' = cancelled \cup {Latest}
    /\ UNCHANGED <<nav, toolchains_state, loading, doctor_loaded, disk, threads, confirmed>>

\* Esc afterwards: return_from_progress.
ReturnFromProgress ==
    /\ Key("Progress")
    /\ progress_state.completed
    /\ LET back == IF previous_screen = "None" THEN "Main" ELSE previous_screen
           tcs == IF previous_screen = "Toolchains"
                  THEN [toolchains_state EXCEPT !.loaded = FALSE] ELSE toolchains_state
       IN  /\ screen' = back
           /\ IF back = "Toolchains" THEN ShowToolchains(tcs) ELSE UNCHANGED toolchains_state
           /\ IF back = "VersionSelect"
              THEN ShowVersionSelect(version_select_state, version_load_receiver)
              ELSE UNCHANGED loading
    /\ previous_screen' = "None"
    /\ install_receiver' = 0
    /\ confirmed' = IF progress_state.error THEN confirmed ELSE confirmed \cup {tver[Latest]}
    /\ UNCHANGED <<input_mode, pending_command, doctor_loaded, progress_state, disk, threads,
                   cancelled>>

\* run(): the child has ended (an `infs install` may have installed and
\* configured a version) and a new App starts.  Threads of the old one live on.
Restart ==
    /\ phase = "command"
    /\ phase' = "poll"
    /\ \/ UNCHANGED disk
       \/ \E v \in Available :
            /\ present' = present \cup {v}
            /\ default' = IF present' = {v} \/ default = NoVersion THEN v ELSE default
    /\ screen' = "Main"
    /\ input_mode' = "Normal"
    /\ previous_screen' = "None"
    /\ pending_command' = FALSE
    /\ toolchains_state' = NewToolchains
    /\ version_select_state' = NewVersionSelect
    /\ doctor_loaded' = FALSE
    /\ version_load_receiver' = "None"
    /\ install_receiver' = 0
    /\ progress_state' = NewProgress
    /\ UNCHANGED <<threads, history>>

KeyStep ==
    \/ NoKey \/ MenuKey \/ CommandKey \/ ExecuteCommand \/ MoveToolchain \/ MoveVersion
    \/ BackToMain \/ OpenVersionSelect \/ SetAsDefault \/ LeaveVersionSelect
    \/ StartInstallation \/ CancelInstallation \/ ReturnFromProgress

-----------------------------------------------------------------------------
(* The background threads.  They die with the process and only then.       *)

\* The loader answers into its own channel; when that has been replaced or
\* dropped nobody notices.
LoaderAnswers ==
    /\ phase # "exited"
    /\ version_load_receiver = "empty"
    /\ version_load_receiver' \in {"ok", "error"}
    /\ UNCHANGED <<phase, nav, toolchains_state, version_select_state, doctor_loaded, progress,
                   disk, threads, history>>

Send(i, msg) == chan' = [chan EXCEPT ![i] = msg]

ThreadReports(i) ==
    /\ thread[i] \in {"running", "extracted"}
    /\ chan[i] = "empty"
    /\ Send(i, "progress")
    /\ UNCHANGED <<phase, nav, toolchains_state, loading, doctor_loaded, progress, disk, thread,
                   tver, history>>

ThreadExtracts(i) ==
    /\ thread[i] = "running"
    /\ tver[i] \notin present
    /\ thread' = [thread EXCEPT ![i] = "extracted"]
    /\ present' = present \cup {tver[i]}
    /\ UNCHANGED <<phase, nav, toolchains_state, loading, doctor_loaded, progress, default, tver,
                   chan, history>>

\* The version is there already, or has just been extracted and is made the
\* default if it is the only one or there is none.
ThreadCompletes(i) ==
    /\ \/ /\ thread[i] = "running"
          /\ tver[i] \in present
          /\ UNCHANGED default
       \/ /\ thread[i] = "extracted"
          /\ default' = IF present = {tver[i]} \/ default = NoVersion THEN tver[i] ELSE default
    /\ thread' = [thread EXCEPT ![i] = "ended"]
    /\ Send(i, "completed")
    /\ UNCHANGED <<phase, nav, toolchains_state, loading, doctor_loaded, progress, present, tver,
                   history>>

ThreadFails(i) ==
    /\ thread[i] \in {"running", "extracted"}
    /\ thread' = [thread EXCEPT ![i] = "ended"]
    /\ Send(i, "failed")
    /\ UNCHANGED <<phase, nav, toolchains_state, loading, doctor_loaded, progress, disk, tver,
                   history>>

ThreadStep(i) == ThreadExtracts(i) \/ ThreadCompletes(i) \/ ThreadFails(i)

Next ==
    \/ Poll \/ KeyStep \/ Quit \/ Restart \/ LoaderAnswers
    \/ \E i \in Threads : ThreadStep(i) \/ ThreadReports(i)

Spec == Init /\ [][Next]_vars

\* The loop runs (event::poll times out after POLL_TIMEOUT_MS), requests time
\* out, so that the loader answers and the installer ends.
FairSpec ==
    /\ Spec
    /\ WF_vars(Poll \/ KeyStep \/ Quit)
    /\ WF_vars(LoaderAnswers)
    /\ \A i \in Threads : WF_vars(ThreadStep(i))

-----------------------------------------------------------------------------
(* Properties.                                                             *)

\* The progress screen never hangs: an installation that is shown as running
\* is shown as completed or failed in the end, or the user leaves.
ProgressEnds ==
    screen = "Progress" /\ ~progress_state.completed /\ phase # "exited" ~>
        progress_state.completed \/ phase \in {"exited", "command"}

\* The version list never hangs in "loading", however often the user left it
\* while it was loading and came back.
LoadingEnds ==
    screen = "VersionSelect" ~>
        version_select_state.loaded \/ screen # "VersionSelect" \/ phase = "exited"

SelectionInBounds ==
    /\ toolchains_state.toolchains # {} =>
          toolchains_state.selected < Cardinality(toolchains_state.toolchains)
    /\ version_select_state.versions # {} =>
          version_select_state.selected < Cardinality(version_select_state.versions)

\* What the screen shows is there: a selection is on an entry of its list, also
\* when a shorter list has replaced it, and what the progress screen calls
\* installed is installed: the message of one installation is never taken for
\* that of another.
ScreenIsReal ==
    /\ SelectionInBounds
    /\ screen = "Progress" /\ progress_state.completed /\ ~progress_state.error =>
          thread[Latest] = "ended" /\ tver[Latest] \in present

\* "Reload toolchain data if we came from toolchains screen": the list of
\* toolchains shows every version whose installation the user saw succeed.
ListShowsInstalled == screen = "Toolchains" => confirmed \subseteq toolchains_state.toolchains

\* "Drop the receiver to signal cancellation": a cancelled installation does not
\* go on to install.
CancelStopsInstallation ==
    [][\A i \in cancelled : thread'[i] = "extracted" => thread[i] = "extracted"]_vars
=============================================================================
