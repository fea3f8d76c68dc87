---------------------------- MODULE MCReflexionArms -----------------------------
(* A small instance of ReflexionArms for TLC. *)
EXTENDS ReflexionArms
===============================================================================
