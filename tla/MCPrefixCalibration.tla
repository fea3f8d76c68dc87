-------------------------- MODULE MCPrefixCalibration ---------------------------
(* A small instance of PrefixCalibration for TLC. *)
EXTENDS PrefixCalibration
===============================================================================
