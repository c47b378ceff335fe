--------------------------- MODULE ToolchainPaths ---------------------------
(***************************************************************************)
(* The directory ~/.inference as apps/infs/src/toolchain/paths.rs sees it: *)
(* toolchains/<version>/, bin/<binary> (symlinks) and the file `default`.  *)
(*                                                                         *)
(* A version is a natural number, its rank in the order of String::sort    *)
(* (list_installed_versions sorts strings, not semantic versions).  A      *)
(* managed binary is its position in MANAGED_BINARIES.  The content of a   *)
(* file is the version whose published archive it came from, Junk for      *)
(* bytes of no published archive (truncated, mixed, corrupted), or         *)
(* NoVersion when there is no file.                                        *)
(***************************************************************************)
EXTENDS Naturals, FiniteSets

CONSTANTS Versions,     \* versions the release manifest lists
          NumBinaries,  \* Len(MANAGED_BINARIES); 3 in the code
          NoVersion,    \* None: no file, no link, no default
          Junk          \* bytes of no published archive

ASSUME PathsAssumption ==
    /\ Versions \subseteq Nat /\ Versions # {}
    /\ NumBinaries \in Nat \ {0}
    /\ NoVersion \notin Versions
    /\ Junk \notin Versions
    /\ Junk # NoVersion

VARIABLES present,  \* versions v for which toolchains/<v>/ exists
          bin,      \* bin[v][b]: binary b in toolchains/<v>/
          meta,     \* versions with a .metadata.json
          default,  \* the version get_default_version returns
          link      \* bin/<binary>: the version the symlink points into

toolchains == <<present, bin, meta>>
disk == <<toolchains, default, link>>

Binaries == 1..NumBinaries
VersionOrNone == Versions \cup {NoVersion}
Content == Versions \cup {NoVersion, Junk}

PathsTypeOK ==
    /\ present \in SUBSET Versions
    /\ bin \in [Versions -> [Binaries -> Content]]
    /\ meta \in SUBSET Versions
    /\ default \in VersionOrNone
    /\ link \in [Binaries -> VersionOrNone]

PathsInit ==
    /\ present = {}
    /\ bin = [v \in Versions |-> [b \in Binaries |-> NoVersion]]
    /\ meta = {}
    /\ default = NoVersion
    /\ link = [b \in Binaries |-> NoVersion]

-----------------------------------------------------------------------------
(* Queries.  Each reads the disk and changes nothing.                      *)

\* is_version_installed looks for the directory and at nothing inside it.
is_version_installed(v) == v \in present

list_installed_versions == present

\* versions.sort() followed by last(): v is the greatest installed version.
is_last_installed(v) ==
    /\ v \in list_installed_versions
    /\ \A w \in list_installed_versions : w <= v

\* binary_path(v, b).exists(): in bin/ or in the root of the toolchain.
binary_exists(v, b) == bin[v][b] # NoVersion

\* symlink_metadata().is_ok(): there is a link, whether or not it is broken.
link_present(b) == link[b] # NoVersion

\* exists() follows the link: FALSE for a broken link as for no link.
link_target_exists(b) == link_present(b) /\ binary_exists(link[b], b)

\* validate_symlinks: the links that are there and lead nowhere.
validate_symlinks ==
    {b \in Binaries : link_present(b) /\ ~link_target_exists(b)}
=============================================================================
