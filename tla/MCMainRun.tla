------------------------------- MODULE MCMainRun -------------------------------
(* Small instances of MainRun for TLC. *)
EXTENDS MainRun

CONSTANTS r1, r2, r3, r4, prefix, branch, other, c1, c2

\* A clean prefix of two calls, its branch, and a unit of the next seed.
MCOrder == SelectSeq(<<prefix, branch, other>>, LAMBDA p : p \in Parents)
MCPrefixOf == [p \in Parents |-> IF p = branch THEN prefix ELSE NoParent]
MCSeedOf == [p \in Parents |-> IF p = other THEN 2 ELSE 1]
MCParentOf ==
  [r \in Requests |->
     CASE r \in {r1, r2} -> prefix [] r = r3 -> branch [] r = r4 -> other]
MCCallsOf ==
  [p \in Parents |->
     CASE p = prefix -> SelectSeq(<<r1, r2>>, LAMBDA r : r \in Requests)
       [] p = branch -> <<r3>> [] p = other -> <<r4>>]

\* Two KRW for each request: an answer may cost more.
MCProjectedLow == [p \in Parents |-> 2 * Len(MCCallsOf[p])]

===============================================================================
