------------------------------ MODULE MCFileLock ------------------------------
(***************************************************************************)
(* Two processes, as the terminal and the daemon are, and three.           *)
(***************************************************************************)
EXTENDS FileLock, TLC

ProcSymmetry == Permutations(Procs)

=============================================================================
