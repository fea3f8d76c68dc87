--------------------------- MODULE PrefixCalibration ----------------------------
(***************************************************************************)
(* The clean-prefix calibration (execute_clean_prefix_calibration): every  *)
(* baseline runs over every trajectory once, in one process that is never  *)
(* resumed, and its calls go through MeteredClient, which reserves the     *)
(* worst cost of a call before it, to OpenAIResponsesClient, which checks  *)
(* a CostGuard and repeats a request whose answer is lost.  A lost answer  *)
(* may have been billed all the same.                                      *)
(*                                                                         *)
(* The budget was fixed from the schedule before the run (_budget).  A     *)
(* baseline absorbs the failure of most of its calls: the trial fails and  *)
(* the run goes on, with the reservation of the call kept.                 *)
(*                                                                         *)
(* A death of the process ends the run anywhere: it writes nothing, and its *)
(* run id cannot be used again (RUN_ID_ALREADY_EXISTS).                    *)
(*                                                                         *)
(* Money is counted in equal units, and an attempt costs AttemptCost at    *)
(* most, what the limits on its tokens allow.                              *)
(***************************************************************************)
EXTENDS Integers, Sequences

CONSTANTS
  Trajectories,  \* tasks times seeds (12)
  Positions,     \* prefix positions of a trajectory
  Retries,       \* retries_after_initial_attempt (3)
  AttemptCost,   \* input and output limits at the prices of the config
  MaxLost        \* bound: attempts without an answer that states its cost

ASSUME CalibrationAssumption ==
  /\ Trajectories \in Nat \ {0} /\ Positions \in Nat \ {0}
  /\ Retries \in Nat /\ AttemptCost \in Nat \ {0} /\ MaxLost \in Nat

VARIABLES
  pc,          \* running, archiving, completed or invalidated
  trajectory,  \* (task, seed) of the trial, counted from 1
  baseline,    \* index of its baseline in BASELINES
  position,    \* order_key of the trial
  call,        \* which call of the trial is next or under way
  attempts,    \* attempts of that call, 0 before the first
  meter,       \* the counters of MeteredClient
  spent,       \* CostGuard._spent
  exhausted,   \* codes of the refusals for want of budget so far
  issued,      \* attempts that went to the provider
  billed       \* what the provider bills for them

place == <<trajectory, baseline, position, call>>
calibrationVars ==
  <<pc, place, attempts, meter, spent, exhausted, issued, billed>>

\* The calls of a trial of each of BASELINES, by their method_stage: full
\* history, frozen RAG, BoT, and Reflexion with its two attempts.
CallStages == <<
  <<"full_history_generate">>,
  <<"rag_generate">>,
  <<"bot_problem_distill", "bot_instantiate_solve", "bot_thought_distill">>,
  <<"reflexion_generate", "reflexion_reflect",
    "reflexion_generate", "reflexion_reflect">> >>

stage == CallStages[baseline][call]

-------------------------------------------------------------------------------
(* The budget. *)

\* Faulty variant: the ceiling is what a run without retried attempts needs.
CallsPerPosition_Nominal == 6

\* MAXIMUM_CALLS_PER_POSITION
CallsPerPosition == 9

MaxCalls == Trajectories * Positions * CallsPerPosition
MaxAttempts == MaxCalls * (1 + Retries)

\* maximum_cost_per_semantic_call_microusd
CallCost == (1 + Retries) * AttemptCost

HardCeiling == MaxAttempts * AttemptCost

BudgetCodes == {"semantic calls", "reservations", "guard", "observed"}

-------------------------------------------------------------------------------
CalibrationInit ==
  /\ pc = "running"
  /\ trajectory = 1 /\ baseline = 1 /\ position = 1 /\ call = 1
  /\ attempts = 0
  /\ meter = [dispatched |-> 0, reserved |-> 0,
              answered |-> 0, attempts |-> 0, cost |-> 0]
  /\ spent = 0 /\ exhausted = {}
  /\ issued = 0 /\ billed = 0

\* A trial is over: the next position of the baseline, else the next baseline
\* of the trajectory, else the next trajectory.
EndTrial ==
  /\ call' = 1
  /\ \/ /\ position < Positions
        /\ position' = position + 1
        /\ UNCHANGED <<pc, trajectory, baseline>>
     \/ /\ position = Positions /\ baseline < Len(CallStages)
        /\ position' = 1 /\ baseline' = baseline + 1
        /\ UNCHANGED <<pc, trajectory>>
     \/ /\ position = Positions /\ baseline = Len(CallStages)
        /\ trajectory < Trajectories
        /\ position' = 1 /\ baseline' = 1 /\ trajectory' = trajectory + 1
        /\ pc' = pc
     \/ /\ position = Positions /\ baseline = Len(CallStages)
        /\ trajectory = Trajectories
        /\ pc' = "archiving"
        /\ UNCHANGED <<trajectory, baseline, position>>

-------------------------------------------------------------------------------
(* A call of a trial. *)

\* What catches the failure of a call.  "value" is a Phase13CalibrationError,
\* "runtime" an error of the CostGuard, "transport" one of the provider's
\* package, which is neither a ValueError nor a RuntimeError.
Absorbed(s, kind) ==
  \/ s \notin {"bot_problem_distill", "bot_thought_distill"}
  \/ kind = "value"
  \/ s = "bot_problem_distill" /\ kind = "runtime"

\* A failure that nobody absorbs is archived as an invalidated run.
Fails(kind) ==
  /\ attempts' = 0
  /\ \/ Absorbed(stage, kind) /\ EndTrial
     \/ ~Absorbed(stage, kind) /\ pc' = "invalidated" /\ UNCHANGED place

\* The content of an answer decides whether the trial goes on to its next call.
Proceeds ==
  /\ attempts' = 0
  /\ \/ /\ call < Len(CallStages[baseline])
        /\ call' = call + 1
        /\ UNCHANGED <<pc, trajectory, baseline, position>>
     \/ EndTrial

\* The code with which the meter refuses a call for want of budget.
Shortage ==
  CASE meter.dispatched >= MaxCalls -> {"semantic calls"}
    [] meter.reserved + CallCost > HardCeiling -> {"reservations"}
    [] OTHER -> {}

Ready == pc = "running" /\ attempts = 0
Asking == pc = "running" /\ attempts > 0

\* The bound of the model leaves room to lose the attempt under way.
MayLose == issued - meter.answered <= MaxLost

\* The meter refuses: the prompt of any stage but the first of BoT, which shows
\* the task alone, may be too long; the RAG call names no output limit; or the
\* budget is used up (recorded even if the call is also unfit).
RefuseCall ==
  /\ Ready
  /\ Shortage # {} \/ stage # "bot_problem_distill"
  /\ exhausted' = exhausted \cup Shortage
  /\ Fails("value")
  /\ UNCHANGED <<meter, spent, issued, billed>>

\* What the meter takes down before a call.
Reserved ==
  [meter EXCEPT !.dispatched = @ + 1, !.reserved = @ + CallCost]

\* check_before_dispatch of the guard, which has an estimate of its own.
OverCeiling(estimate) == spent + estimate > HardCeiling

\* The meter takes the call down, the guard looks at the first attempt and it
\* goes out.  Later attempts of the call are not looked at.
Ask ==
  /\ Ready /\ Shortage = {} /\ stage # "rag_generate"
  /\ meter' = Reserved
  /\ \E estimate \in 0 .. AttemptCost :
       IF OverCeiling(estimate)
       THEN /\ exhausted' = exhausted \cup {"guard"}
            /\ Fails("runtime") /\ UNCHANGED issued
       ELSE /\ attempts' = 1 /\ issued' = issued + 1
            /\ UNCHANGED <<pc, place, exhausted>>
  /\ UNCHANGED <<spent, billed>>

\* No answer: a timeout, 429 or 5xx is repeated while retries are left.
LoseAnswer ==
  /\ Asking /\ MayLose
  /\ \E bill \in 0 .. AttemptCost : billed' = billed + bill
  /\ \/ /\ attempts <= Retries
        /\ attempts' = attempts + 1 /\ issued' = issued + 1
        /\ UNCHANGED <<pc, place>>
     \/ Fails("transport") /\ UNCHANGED issued
  /\ UNCHANGED <<meter, spent, exhausted>>

\* Faulty variant: an answer counts as one attempt.
Observed_OneAttempt(bill) ==
  [meter EXCEPT !.answered = @ + 1, !.attempts = @ + 1, !.cost = @ + bill]

\* What MeteredClient adds for an answer.
Observed(bill) ==
  [meter EXCEPT !.answered = @ + 1, !.attempts = @ + attempts,
                !.cost = @ + bill]

\* An answer that states its usage: the guard and the meter count its cost,
\* and the meter compares the sums with the budget.
Answer ==
  /\ Asking
  /\ \E bill \in 0 .. AttemptCost :
       /\ billed' = billed + bill
       /\ spent' = spent + bill
       /\ meter' = Observed(bill)
  /\ IF meter'.attempts > MaxAttempts \/ meter'.cost > HardCeiling
     THEN exhausted' = exhausted \cup {"observed"} /\ Fails("value")
     ELSE Proceeds /\ UNCHANGED exhausted
  /\ UNCHANGED issued

\* An answer without usage: MissingUsageError before anything is counted.
AnswerUnpriced ==
  /\ Asking /\ MayLose
  /\ \E bill \in 0 .. AttemptCost : billed' = billed + bill
  /\ Fails("runtime")
  /\ UNCHANGED <<meter, spent, exhausted, issued>>

-------------------------------------------------------------------------------
(* The run. *)

Archive ==
  /\ pc = "archiving" /\ pc' = "completed"
  /\ UNCHANGED <<place, attempts, meter, spent, exhausted, issued, billed>>

\* Any other exception (an embedding, a verifier, the selection of a checkpoint).
Break ==
  /\ Ready \/ pc = "archiving"
  /\ pc' = "invalidated"
  /\ UNCHANGED <<place, attempts, meter, spent, exhausted, issued, billed>>

CalibrationNext ==
  RefuseCall \/ Ask \/ LoseAnswer \/ Answer \/ AnswerUnpriced
    \/ Archive \/ Break

CalibrationSpec == CalibrationInit /\ [][CalibrationNext]_calibrationVars

-------------------------------------------------------------------------------
(* Properties. *)

\* The shape of the state.
CalibrationTypeOK ==
  /\ pc \in {"running", "archiving", "completed", "invalidated"}
  /\ trajectory \in 1 .. Trajectories /\ baseline \in 1 .. Len(CallStages)
  /\ position \in 1 .. Positions /\ call \in 1 .. Len(CallStages[baseline])
  /\ attempts \in 0 .. 1 + Retries
  /\ meter \in [dispatched : Nat, reserved : Nat,
                 answered : Nat, attempts : Nat, cost : Nat]
  /\ spent \in Nat /\ exhausted \subseteq BudgetCodes
  /\ issued \in Nat /\ billed \in Nat

\* The most the provider can have billed, computed from accounting.json: what
\* the answers cost, the attempts lost before an answer, and every attempt of
\* a call that was taken down and never counted as answered.
WorstBill ==
  meter.cost + AttemptCost
    * ((meter.attempts - meter.answered)
       + (meter.dispatched - meter.answered) * (1 + Retries))

\* Whatever is lost, repeated, refused or left unpriced: the bill is within what
\* the archive lets one compute (_accounting), that within what was reserved
\* (MeteredClient.chat), and that within the ceiling of the authorization.
BillsAreReserved ==
  /\ billed <= WorstBill
  /\ WorstBill <= meter.reserved
  /\ meter.reserved <= HardCeiling
  /\ issued <= MaxAttempts

\* The budget of a run (_budget, from the schedule alone) is enough for its
\* longest course: no check of the meter or the guard ever refuses a call for
\* want of it, which a baseline would absorb as a failed trial.
NeverStarved == exhausted = {}
===============================================================================
