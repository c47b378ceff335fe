---------------------------- MODULE MCInstaller ----------------------------
(* Instances of Installer for TLC. *)
EXTENDS Resolution, TLC

\* Every archive holds all managed binaries.
CompleteArchives == [v \in Versions |-> Binaries]

\* The archive of version 2 lacks the last managed binary.
IncompleteArchive == [v \in Versions |-> IF v = 2 THEN Binaries \ {NumBinaries} ELSE Binaries]

\* The processes are alike.
ProcSymmetry == Permutations(Procs)

\* What the later behaviour and the concurrent invariants depend on: not how a
\* command ended, nor which one an idle process ran last.
ConcurrentView ==
    <<disk, downloads, pc, locals, fd, listed, everDefault, crashes,
      [p \in Procs |-> IF pc[p] = "idle" THEN <<>> ELSE <<job[p]>>]>>
=============================================================================
