--------------------------- MODULE MCRequestDispatch ---------------------------
(* Small instances of RequestDispatch for TLC. *)
EXTENDS RequestDispatch

CONSTANTS r1, r2, r3, prefix, branch, other, c1, c2

\* A clean prefix, the branch that grows from it and an unrelated trajectory.
MCPrefixOf == [p \in Parents |-> IF p = branch THEN prefix ELSE NoParent]

\* One request in the prefix, one in the branch, one (if any) elsewhere.
MCParentOf ==
  [r \in Requests |-> IF r = r1 THEN prefix ELSE IF r = r2 THEN branch ELSE other]

===============================================================================
