----------------------------- MODULE MCRunnerLedger -----------------------------
(* Small instances of RunnerLedger for TLC. *)
EXTENDS RunnerLedger

CONSTANTS prefix, branch, single

\* A clean prefix, the unit that needs it, and a singleton.
MCOrder == <<prefix, branch, single>>
MCPrefixOf == [u \in Units |-> IF u = branch THEN prefix ELSE NoUnit]
MCProjected == [u \in Units |-> 2]

===============================================================================
