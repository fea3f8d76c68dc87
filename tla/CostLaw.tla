-------------------------------- MODULE CostLaw --------------------------------
(***************************************************************************)
(* What a unit of the V3 main run is projected to cost, and what its       *)
(* answers turn out to cost (phase13_v3_cost_law.py,                       *)
(* phase13_v3_cost_actual.py).                                             *)
(*                                                                         *)
(* calculate walks the units in production order and attributes to each    *)
(* the growth of every stage's rounded-up running sum; reconcile_actual    *)
(* rounds each answer up on its own.  Money is in millionths of a KRW, so  *)
(* that the rate card's rationals are whole numbers; KRW are whole.        *)
(***************************************************************************)
EXTENDS Integers, Sequences, FiniteSets, FiniteSetsExt

CONSTANTS
  Units,        \* the units of the package
  Stages,       \* the semantic stages they call
  Calls,        \* unit -> stage -> number of calls (StageOccurrences.calls)
  CacheWrite,   \* unit -> stage -> cache_write_tokens
  MaxInput,     \* stage -> maximum_input_tokens of its envelope
  MaxOutput,    \* stage -> maximum_output_tokens of its envelope
  Usages        \* stage -> the usages an answer may report (ProviderUsage)

ASSUME CostAssumption ==
  /\ IsFiniteSet(Units) /\ IsFiniteSet(Stages)
  /\ Calls \in [Units -> [Stages -> Nat]]
  /\ CacheWrite \in [Units -> [Stages -> Nat]]
  /\ MaxInput \in [Stages -> Nat] /\ MaxOutput \in [Stages -> Nat]
  /\ \A u \in Units, s \in Stages : CacheWrite[u][s] <= MaxInput[s]
  /\ \A s \in Stages : \A usage \in Usages[s] :
       /\ usage.input \in 0..MaxInput[s]
       /\ usage.cached \in 0..usage.input
       /\ usage.output \in 0..MaxOutput[s]

VARIABLES
  order,        \* the final order
  attributed,   \* how many of its units have been attributed
  sums,         \* stage -> running sums of exact input and output cost
  projected,    \* unit -> projected_krw
  answered,     \* unit -> stage -> calls answered so far
  realized      \* unit -> realized_krw of its answers

costVars == <<order, attributed, sums, projected, answered, realized>>

-------------------------------------------------------------------------------
(* The rate card. *)

Scale == 1000000

\* 0.20 and 0.02 USD per million tokens at 1600 KRW; writing to the cache adds
\* a quarter of the input price.
InputRate == 320
CachedRate == 32
OutputRate == 1920
WritePremium == 80

LongContext == 272000

\* Beyond the threshold input costs twice and output one and a half times.
InputPrice(tokens, price) == IF tokens > LongContext THEN 2 * price ELSE price

OutputPrice(tokens, price) ==
  IF tokens > LongContext THEN (3 * price) \div 2 ELSE price

\* Faulty variant: rounding down.
Ceil_Down(x) == x \div Scale

\* math.ceil, from millionths to whole KRW.
Ceil(x) == (x + Scale - 1) \div Scale

-------------------------------------------------------------------------------
(* Projection. *)

\* exact_request_cost of a call at its envelope.
ExactInput(u, s) ==
  InputPrice(MaxInput[s], MaxInput[s] * InputRate + CacheWrite[u][s] * WritePremium)

ExactOutput(s) == OutputPrice(MaxInput[s], MaxOutput[s] * OutputRate)

\* Faulty variant: one call of each group is priced.
Grown_Once(u, s) ==
  [in |-> sums[s].in + ExactInput(u, s), out |-> sums[s].out + ExactOutput(s)]

\* The running sums of stage s after the calls of unit u (T is 1).
Grown(u, s) ==
  [in |-> sums[s].in + Calls[u][s] * ExactInput(u, s),
   out |-> sums[s].out + Calls[u][s] * ExactOutput(s)]

\* Faulty variant: the growth is rounded, not the sums.
Attributed_RoundsGrowth(u) ==
  SumFunction([s \in Stages |->
    Ceil(Grown(u, s).in - sums[s].in) + Ceil(Grown(u, s).out - sums[s].out)])

\* ceil(after) - ceil(before) of both components of every stage.
Attributed(u) ==
  SumFunction([s \in Stages |->
    Ceil(Grown(u, s).in) - Ceil(sums[s].in)
      + Ceil(Grown(u, s).out) - Ceil(sums[s].out)])

\* One round of calculate's loop over the order.
Attribute ==
  /\ attributed < Len(order)
  /\ LET u == order[attributed + 1]
     IN /\ projected' = [projected EXCEPT ![u] = Attributed(u)]
        /\ sums' = [s \in Stages |-> Grown(u, s)]
  /\ attributed' = attributed + 1
  /\ UNCHANGED <<order, answered, realized>>

-------------------------------------------------------------------------------
(* Realization. *)

\* reconcile_actual of an answer that reports its usage.
ActualKrw(usage) ==
  Ceil(InputPrice(usage.input,
                  (usage.input - usage.cached) * InputRate
                    + usage.cached * CachedRate)
       + OutputPrice(usage.input, usage.output * OutputRate))

\* A call of unit u is answered, once the package with its projections exists.
Realize(u, s) ==
  /\ attributed = Len(order)
  /\ answered[u][s] < Calls[u][s]
  /\ \E usage \in Usages[s] :
       realized' = [realized EXCEPT ![u] = @ + ActualKrw(usage)]
  /\ answered' = [answered EXCEPT ![u][s] = @ + 1]
  /\ UNCHANGED <<order, attributed, sums, projected>>

-------------------------------------------------------------------------------

\* FinalOrder: every unit once.
Orders ==
  {f \in [1..Cardinality(Units) -> Units] :
     \A i, j \in 1..Cardinality(Units) : f[i] = f[j] => i = j}

CostInit ==
  /\ order \in Orders
  /\ attributed = 0
  /\ sums = [s \in Stages |-> [in |-> 0, out |-> 0]]
  /\ projected = [u \in Units |-> 0]
  /\ answered = [u \in Units |-> [s \in Stages |-> 0]]
  /\ realized = [u \in Units |-> 0]

CostNext == Attribute \/ \E u \in Units, s \in Stages : Realize(u, s)

CostSpec == CostInit /\ [][CostNext]_costVars

-------------------------------------------------------------------------------
(* Properties. *)

AttributedUnits == {order[i] : i \in 1..attributed}

\* What the calls of the units cost exactly in stage s, and in all stages.
InputOf(s) == [u \in Units |-> Calls[u][s] * ExactInput(u, s)]

OutputOf(s) == [u \in Units |-> Calls[u][s] * ExactOutput(s)]

ExactOf ==
  [u \in Units |-> SumFunction([s \in Stages |-> InputOf(s)[u] + OutputOf(s)[u]])]

\* The cost of a set of units as build_witness states it: no order, one
\* rounding for each component of each stage.
Witness(S) ==
  SumFunction([s \in Stages |->
    Ceil(SumFunctionOnSet(InputOf(s), S)) + Ceil(SumFunctionOnSet(OutputOf(s), S))])

Projected(S) == SumFunctionOnSet(projected, S)

\* After every unit, whatever the order, the projections add up to the witness
\* of the units so far: for all of them that is what build_proof demands.
AttributionIsExact == Projected(AttributedUnits) = Witness(AttributedUnits)

\* The projections of every beginning of the order cover what the requests in
\* it cost exactly at their envelopes, so that rounding never hides money.
BeginningIsCovered ==
  SumFunctionOnSet(ExactOf, AttributedUnits) <= Scale * Projected(AttributedUnits)

CallsOfUnit(u) == SumFunction(Calls[u])

StagesOfUnit(u) == {s \in Stages : Calls[u][s] > 0}

\* How far the answers of a unit can exceed its projection, which is called an
\* upper bound (phase13_v3_cost_models.py) and is not one: by less than one KRW
\* for each call and one for each component of its stages.
OvershootIsBounded ==
  \A u \in Units :
    realized[u] > 0 =>
      realized[u] < projected[u] + CallsOfUnit(u)
                      + 2 * Cardinality(StagesOfUnit(u))

===============================================================================
