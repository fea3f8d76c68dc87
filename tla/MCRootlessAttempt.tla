--------------------------- MODULE MCRootlessAttempt ---------------------------
(* A small instance of RootlessAttempt for TLC. *)
EXTENDS RootlessAttempt, TLC

\* The two processes are alike.
MCSymmetry == Permutations(Processes)

===============================================================================
