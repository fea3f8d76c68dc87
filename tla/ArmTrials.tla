------------------------------- MODULE ArmTrials --------------------------------
(***************************************************************************)
(* What the models of an arm have in common: the length of its suffix, and *)
(* how a Reflexion prompt is made of the memory.                           *)
(***************************************************************************)
EXTENDS Naturals, FiniteSets

CONSTANTS
  Horizon,      \* suffix_horizon, the number of suffix trials
  Window,       \* reflections a prompt shows (3 in the code)
  MaxAttempts   \* max_attempts of a Reflexion trial

\* The n newest entries of a memory: [-n:], and what is left of it when its
\* oldest leave while there are more than n.
Newest(memory, n) == {e \in memory : Cardinality({x \in memory : x > e}) < n}

===============================================================================
