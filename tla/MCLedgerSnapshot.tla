---------------------------- MODULE MCLedgerSnapshot ----------------------------
(* A small instance of LedgerSnapshot for TLC. *)
EXTENDS LedgerSnapshot

===============================================================================
