------------------------------ MODULE EgressBudget ------------------------------
(***************************************************************************)
(* What the rootless ledger promises whoever pays for the calls            *)
(* (rootless_local_ledger.py): a slot is put to the provider at most once, *)
(* whatever dies and is started again, and what the calls of a stage, and  *)
(* of both stages, can cost at worst is within the caps when each is made. *)
(* A call that was never settled counts at its full reservation.           *)
(***************************************************************************)
EXTENDS Naturals, FiniteSets

CONSTANTS
  Slots,          \* slot_id of every registered slot of both stages
  StageOf,        \* slot -> its stage
  CallCap,        \* stage -> SCREENING_CALL_CAP, BCT_CALL_CAP
  MoneyCap,       \* stage -> SCREENING_CAP_NANOUSD, BCT_CAP_NANOUSD
  TotalMoneyCap,  \* CUMULATIVE_CAP_NANOUSD
  Reservation     \* RESERVATION_NANOUSD

VARIABLES
  called,         \* slots put to the provider
  closed,         \* those of them whose cost is known
  paid            \* stage -> the known costs

budgetVars == <<called, closed, paid>>

Stages == {"screening", "bct"}

InStage(set, stage) == {s \in set : StageOf[s] = stage}

\* What the calls of a stage can cost at worst.
Liability(stage) ==
  paid[stage] + Reservation * Cardinality(InStage(called \ closed, stage))

-------------------------------------------------------------------------------
BudgetInit ==
  /\ called = {} /\ closed = {}
  /\ paid = [stage \in Stages |-> 0]

PutToProvider(s) ==
  /\ s \notin called
  /\ Cardinality(InStage(called, StageOf[s])) < CallCap[StageOf[s]]
  /\ Liability(StageOf[s]) + Reservation <= MoneyCap[StageOf[s]]
  /\ Liability("screening") + Liability("bct") + Reservation <= TotalMoneyCap
  /\ called' = called \cup {s}
  /\ UNCHANGED <<closed, paid>>

LearnCost(s) ==
  /\ s \in called \ closed
  /\ \E cost \in 0 .. Reservation :
       paid' = [paid EXCEPT ![StageOf[s]] = @ + cost]
  /\ closed' = closed \cup {s}
  /\ UNCHANGED called

BudgetNext == \E s \in Slots : PutToProvider(s) \/ LearnCost(s)

BudgetSpec == BudgetInit /\ [][BudgetNext]_budgetVars
===============================================================================
