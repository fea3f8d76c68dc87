---------------------------- MODULE MCRootlessStage ----------------------------
(* Small instances of RootlessStage for TLC. *)
EXTENDS RootlessStage

CONSTANTS solve, chained, other, bct, next, wide

\* A call, a call made of its output and an independent one; three slots of BCT.
MCOrder ==
  SelectSeq(<<solve, chained, other, bct, next, wide>>, LAMBDA s : s \in Slots)
MCStageOf == [s \in Slots |-> IF s \in {bct, next, wide} THEN "bct" ELSE "screening"]
MCPredecessor == [s \in Slots |-> IF s = chained THEN solve ELSE NoSlot]
MCVerdicts == {Estimable, NotEstimable, Review, Unclean} \cup Slots

\* Every slot may be called.  The last reservation of screening fits only if a call
\* before it is settled, and the calls of BCT reach the cap of both stages.
MCCallCap == [stage \in Stages |-> Cardinality(SlotsOf(stage))]
MCMoneyCap == [stage \in Stages |-> 4]
===============================================================================
