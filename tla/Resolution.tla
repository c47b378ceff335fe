------------------------------ MODULE Resolution ------------------------------
(***************************************************************************)
(* What reads ~/.inference between the commands of Installer: the search   *)
(* for the compiler by `build` and `run` (toolchain/resolver.rs), the      *)
(* checks of `doctor` (toolchain/doctor.rs) and the detection of PATH      *)
(* conflicts (toolchain/conflict.rs).                                      *)
(*                                                                         *)
(* They depend on the disk and on the environment of the shell:            *)
(*   override  INFC_PATH: unset, or set to a file that is there or missing *)
(*   path      the directories of PATH that may hold managed binaries:     *)
(*             "managed" is ~/.inference/bin, "system" any other           *)
(*   system    the binaries in that other directory                        *)
(* Every published archive keeps its binaries in bin/, where find_infc     *)
(* looks; the fallback of binary_path to the root is not told apart.       *)
(***************************************************************************)
EXTENDS Installer

infc == 1   \* the first of MANAGED_BINARIES

Environments ==
    [override : {"unset", "file", "missing"},
     path : {<< >>, <<"managed">>, <<"system">>, <<"managed", "system">>,
             <<"system", "managed">>},
     system : SUBSET Binaries]

\* Where a binary was found, and the version it belongs to when that is known.
Found(place, v) == [place |-> place, version |-> v]
NotFound == Found("none", NoVersion)

\* which::which follows links and takes the first directory that has the file.
Holds(env, dir, b) ==
    IF dir = "managed" THEN link_target_exists(b) ELSE b \in env.system

which(env, b) ==
    IF \E i \in DOMAIN env.path : Holds(env, env.path[i], b)
    THEN LET i == CHOOSE i \in DOMAIN env.path :
                      /\ Holds(env, env.path[i], b)
                      /\ \A j \in 1..(i - 1) : ~Holds(env, env.path[j], b)
         IN  Found(env.path[i], IF env.path[i] = "managed" THEN link[b] ELSE NoVersion)
    ELSE NotFound

DefaultToolchain(b) ==
    IF default # NoVersion /\ binary_exists(default, b)
    THEN Found("toolchain", default) ELSE NotFound

\* An override that does not exist is an error, not a reason to look further.
find_infc(env) ==
    CASE env.override = "file" -> Found("override", NoVersion)
      [] env.override = "missing" -> NotFound
      [] OTHER -> IF which(env, infc) # NotFound THEN which(env, infc)
                  ELSE DefaultToolchain(infc)

\* A managed binary that exists is shadowed by another in PATH.
detect_path_conflicts(env) ==
    {b \in Binaries : which(env, b).place = "system" /\ link_target_exists(b)}

check_default_toolchain ==
    CASE default = NoVersion -> "warning"
      [] default # NoVersion /\ is_version_installed(default) -> "ok"
      [] OTHER -> "error"

check_binary(env, b) ==
    CASE which(env, b) # NotFound -> "ok"
      [] which(env, b) = NotFound /\ default = NoVersion -> "warning"
      [] OTHER -> IF DefaultToolchain(b) # NotFound THEN "ok" ELSE "error"

\* doctor asks for every managed binary but infc.
run_all_checks(env) ==
    {check_default_toolchain} \cup {check_binary(env, b) : b \in Binaries \ {infc}}

-----------------------------------------------------------------------------
\* Between undisturbed commands, whatever the sequence of installs, switches
\* and uninstalls was, if the archive of the default held every binary: doctor reports no error in any environment; with a
\* default, build and run find a compiler unless INFC_PATH misleads them; the
\* binaries reached through ~/.inference/bin all belong to one version, and
\* what is found is of a complete version, or of another directory in PATH,
\* which is then either reported as a conflict or hides a link that is broken.
\* (install, uninstall, default; find_infc, doctor, detect_path_conflicts.)
ToolchainIsUsable ==
    /\ quiet /\ AllIdle
    /\ default # NoVersion => ArchiveOf[default] = Binaries
    =>
    \A env \in Environments :
        /\ "error" \notin run_all_checks(env)
        /\ \A a, b \in Binaries :
              which(env, a).place = "managed" /\ which(env, b).place = "managed"
                  => which(env, a).version = which(env, b).version
        /\ default # NoVersion /\ env.override # "missing" =>
              LET found == find_infc(env)
              IN  /\ found # NotFound
                  /\ found.place \in {"managed", "toolchain"} =>
                        \A b \in Binaries : bin[found.version][b] = found.version
                  /\ found.place = "system" =>
                        \/ infc \in detect_path_conflicts(env)
                        \/ ~link_target_exists(infc)
=============================================================================
