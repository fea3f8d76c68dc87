----------------------------- MODULE BudgetProofs -----------------------------
(***************************************************************************)
(* Theorems about the two price laws that reserve money before it is spent,*)
(* for any package, prices and schedule.                                   *)
(*                                                                         *)
(* CostLaw: rounding running sums attributes neither more nor less than the*)
(* order-free witness, it hides no money, and what the answers of a unit   *)
(* exceed its projection by is bounded by its calls and stages.            *)
(* PrefixCalibration: the bill stays within what was reserved, and the     *)
(* budget made from the schedule is enough for every course of a run.      *)
(***************************************************************************)
EXTENDS CostLaw, PrefixCalibration, SumLemmas

-------------------------------------------------------------------------------
(* The cost law.                                                            *)

CostTypeOK ==
  /\ order \in Orders
  /\ attributed \in 0..Cardinality(Units)
  /\ sums \in [Stages -> [in : Int, out : Int]]
  /\ projected \in [Units -> Int]
  /\ answered \in [Units -> [Stages -> Nat]]
  /\ realized \in [Units -> Int]

\* The running sums of a stage are what the attributed units cost in it.
SumsAreExact ==
  \A s \in Stages :
    /\ sums[s].in = SumFunctionOnSet(InputOf(s), AttributedUnits)
    /\ sums[s].out = SumFunctionOnSet(OutputOf(s), AttributedUnits)

\* Over all stages they are what the attributed units cost.
Running == [s \in Stages |-> sums[s].in + sums[s].out]

ExactIsRunning == SumFunctionOnSet(ExactOf, AttributedUnits) = SumFunctionOnSet(Running, Stages)

\* Rounded, stage by stage, they are the witness.
Rounded == [s \in Stages |-> Ceil(sums[s].in) + Ceil(sums[s].out)]

ProjectedIsRounded == Projected(AttributedUnits) = SumFunctionOnSet(Rounded, Stages)

\* A projection falls short of what the unit costs exactly by less than one KRW
\* for each component of its stages.
ShortOfRounding(u) == 2 * (Scale - 1) * Cardinality(StagesOfUnit(u))

PricedAbove ==
  \A u \in AttributedUnits : ExactOf[u] <= Scale * projected[u] + ShortOfRounding(u)

\* What an answer to a call can cost, in millionths, and what the answers so far.
CallPrice(u, s) == ExactInput(u, s) + ExactOutput(s) + (Scale - 1)

AnsweredPrice(u) == [s \in Stages |-> answered[u][s] * CallPrice(u, s)]

AnswersArePriced ==
  \A u \in Units :
    /\ \A s \in Stages : answered[u][s] <= Calls[u][s]
    /\ Scale * realized[u] <= SumFunctionOnSet(AnsweredPrice(u), Stages)
    /\ realized[u] > 0 => StagesOfUnit(u) # {} /\ attributed = Len(order)

\* The inductive invariant.
CostIInv ==
  /\ CostTypeOK
  /\ SumsAreExact /\ ExactIsRunning /\ ProjectedIsRounded
  /\ PricedAbove /\ AnswersArePriced

-------------------------------------------------------------------------------
(* Prices and rounding. *)

LEMMA PricesAreNat ==
  ASSUME NEW u \in Units, NEW s \in Stages
  PROVE  /\ Calls[u][s] \in Nat
         /\ ExactInput(u, s) \in Nat /\ ExactOutput(s) \in Nat
         /\ InputOf(s)[u] = Calls[u][s] * ExactInput(u, s)
         /\ OutputOf(s)[u] = Calls[u][s] * ExactOutput(s)
         /\ InputOf(s)[u] \in Nat /\ OutputOf(s)[u] \in Nat
<1>1. /\ Calls[u][s] \in Nat /\ CacheWrite[u][s] \in Nat
      /\ MaxInput[s] \in Nat /\ MaxOutput[s] \in Nat
  BY CostAssumption
<1>2. ExactInput(u, s) \in Nat /\ ExactOutput(s) \in Nat
  BY <1>1 DEF ExactInput, ExactOutput, InputPrice, OutputPrice, InputRate,
              OutputRate, WritePremium, LongContext
<1>3. /\ InputOf(s)[u] = Calls[u][s] * ExactInput(u, s)
      /\ OutputOf(s)[u] = Calls[u][s] * ExactOutput(s)
  BY DEF InputOf, OutputOf
<1>4. \A k, x \in Nat : k * x \in Nat
  OBVIOUS
<1> QED BY <1>1, <1>2, <1>3, <1>4

\* So is what a unit costs exactly.
LEMMA ExactIsNat ==
  ASSUME NEW u \in Units
  PROVE  ExactOf[u] \in Nat
<1> DEFINE exact == [s \in Stages |-> InputOf(s)[u] + OutputOf(s)[u]]
<1>1. ExactOf[u] = SumFunctionOnSet(exact, Stages)
  BY DEF ExactOf, SumFunction
<1>2. \A s \in Stages : exact[s] \in Nat
  BY PricesAreNat
<1>3. IsFiniteSet(Stages)
  BY CostAssumption
<1> HIDE DEF exact
<1> QED BY <1>1, <1>2, <1>3, SumIsNat

\* Rounding up adds less than one KRW.
LEMMA CeilIs ==
  ASSUME NEW x \in Int
  PROVE  /\ Ceil(x) \in Int
         /\ x <= Scale * Ceil(x)
         /\ Scale * Ceil(x) <= x + (Scale - 1)
BY DEF Ceil, Scale

\* An answer costs no more than its call at the envelope, rounded up.
LEMMA AnswerIsPriced ==
  ASSUME NEW u \in Units, NEW s \in Stages, NEW usage \in Usages[s]
  PROVE  ActualKrw(usage) \in Int /\ Scale * ActualKrw(usage) <= CallPrice(u, s)
<1>1. /\ CacheWrite[u][s] \in Nat /\ MaxInput[s] \in Nat /\ MaxOutput[s] \in Nat
      /\ usage.input \in 0..MaxInput[s]
      /\ usage.cached \in 0..usage.input
      /\ usage.output \in 0..MaxOutput[s]
  BY CostAssumption
<1> DEFINE in == InputPrice(usage.input, (usage.input - usage.cached) * InputRate
                                           + usage.cached * CachedRate)
           out == OutputPrice(usage.input, usage.output * OutputRate)
<1>2. in \in Int /\ in <= ExactInput(u, s)
  BY <1>1 DEF ExactInput, InputPrice, InputRate, CachedRate, WritePremium, LongContext
<1>3. out \in Int /\ out <= ExactOutput(s)
  BY <1>1 DEF ExactOutput, OutputPrice, OutputRate, LongContext
<1>4. ActualKrw(usage) = Ceil(in + out)
  BY DEF ActualKrw
<1>5. ExactInput(u, s) \in Int /\ ExactOutput(s) \in Int
  BY PricesAreNat
<1> HIDE DEF in, out
<1>6. /\ Ceil(in + out) \in Int
      /\ Scale * Ceil(in + out) <= in + out + (Scale - 1)
  BY <1>2, <1>3, CeilIs
<1> QED BY <1>2, <1>3, <1>4, <1>5, <1>6 DEF CallPrice, Scale

\* Rounding a sum before and after it grows by g loses less than one KRW of g,
\* and nothing if it does not grow.
LEMMA GrowthIsRounded ==
  ASSUME NEW x \in Int, NEW g \in Int
  PROVE  /\ g <= Scale * (Ceil(x + g) - Ceil(x)) + (Scale - 1)
         /\ g = 0 => Ceil(x + g) - Ceil(x) = 0
BY DEF Ceil, Scale

-------------------------------------------------------------------------------
(* The order. *)

\* The order is a sequence of all units, and the next one is a new one.
LEMMA OrderIs ==
  ASSUME CostTypeOK
  PROVE  /\ Len(order) = Cardinality(Units) /\ Len(order) \in Nat
         /\ AttributedUnits \in SUBSET Units /\ IsFiniteSet(AttributedUnits)
         /\ attributed < Len(order) =>
              order[attributed + 1] \in Units \ AttributedUnits
         /\ attributed = Len(order) => AttributedUnits = Units
<1> DEFINE n == Cardinality(Units)
<1>1. n \in Nat
  BY CostAssumption, FS_CardinalityType
<1>2. /\ order \in [1..n -> Units]
      /\ \A i, j \in 1..n : order[i] = order[j] => i = j
      /\ attributed \in 0..n
  BY DEF CostTypeOK, Orders
<1> HIDE DEF n
<1>3. Len(order) = n
  BY <1>1, <1>2
<1>4. AttributedUnits \in SUBSET Units
  BY <1>1, <1>2 DEF AttributedUnits
<1>5. IsFiniteSet(AttributedUnits)
  BY <1>4, CostAssumption, FS_Subset
<1>6. attributed < n => order[attributed + 1] \in Units \ AttributedUnits
  <2> SUFFICES ASSUME attributed < n PROVE order[attributed + 1] \in Units \ AttributedUnits
    OBVIOUS
  <2>1. attributed + 1 \in 1..n /\ \A i \in 1..attributed : i \in 1..n /\ i # attributed + 1
    BY <1>1, <1>2
  <2> QED BY <1>2, <2>1 DEF AttributedUnits
<1>7. attributed = n => AttributedUnits = Units
  <2>1. order \in Injection(1..n, Units)
    BY <1>2 DEF Injection, IsInjective
  <2>2. Cardinality(1..n) = n
    BY <1>1, FS_Interval
  <2>3. order \in Surjection(1..n, Units)
    BY <2>1, <2>2, CostAssumption, FS_Injection DEF n
  <2> QED BY <2>3 DEF Surjection, AttributedUnits
<1> QED BY <1>1, <1>3, <1>4, <1>5, <1>6, <1>7 DEF n


-------------------------------------------------------------------------------
(* One round of calculate. *)

\* The round attributes the next unit and adds its exact cost to every stage.
LEMMA RoundIs ==
  ASSUME CostTypeOK, Attribute
  PROVE  \E u \in Units \ AttributedUnits :
           /\ AttributedUnits' = AttributedUnits \cup {u}
           /\ projected' = [projected EXCEPT ![u] = Attributed(u)]
           /\ \A s \in Stages :
                /\ sums'[s].in = sums[s].in + InputOf(s)[u]
                /\ sums'[s].out = sums[s].out + OutputOf(s)[u]
                /\ Grown(u, s) = sums'[s]
           /\ attributed' \in 0..Cardinality(Units)
           /\ sums' \in [Stages -> [in : Int, out : Int]]
<1> DEFINE u == order[attributed + 1]
<1>1. /\ attributed < Len(order) /\ attributed' = attributed + 1
      /\ projected' = [projected EXCEPT ![u] = Attributed(u)]
      /\ sums' = [s \in Stages |-> Grown(u, s)]
      /\ order' = order
  BY DEF Attribute
<1>2. u \in Units \ AttributedUnits /\ attributed \in Nat
  BY <1>1, OrderIs DEF CostTypeOK
<1>3. AttributedUnits' = AttributedUnits \cup {u}
  <2>1. AttributedUnits' = {order[i] : i \in 1..(attributed + 1)}
    BY <1>1 DEF AttributedUnits
  <2>2. 1..(attributed + 1) = (1..attributed) \cup {attributed + 1}
    BY <1>2
  <2> QED BY <2>1, <2>2 DEF AttributedUnits
<1>4. ASSUME NEW s \in Stages
      PROVE  /\ sums'[s] = Grown(u, s)
             /\ sums'[s].in = sums[s].in + InputOf(s)[u]
             /\ sums'[s].out = sums[s].out + OutputOf(s)[u]
             /\ sums'[s] \in [in : Int, out : Int]
  <2>1. /\ sums'[s] = Grown(u, s)
        /\ Grown(u, s) = [in |-> sums[s].in + InputOf(s)[u],
                          out |-> sums[s].out + OutputOf(s)[u]]
    BY <1>1, <1>2, PricesAreNat DEF Grown
  <2>2. /\ sums[s].in \in Int /\ sums[s].out \in Int
        /\ InputOf(s)[u] \in Int /\ OutputOf(s)[u] \in Int
    BY <1>2, PricesAreNat DEF CostTypeOK
  <2> HIDE DEF u
  <2>3. /\ sums[s].in + InputOf(s)[u] \in Int
        /\ sums[s].out + OutputOf(s)[u] \in Int
    BY <2>2
  <2> QED BY <2>1, <2>3
<1>5. sums' \in [Stages -> [in : Int, out : Int]]
  BY <1>1, <1>4
<1>6. attributed' \in 0..Cardinality(Units)
  BY <1>1, OrderIs DEF CostTypeOK
<1> HIDE DEF u
<1> QED BY <1>1, <1>2, <1>3, <1>4, <1>5, <1>6

\* What Attributed gives the unit is the growth of the rounded sums; it falls
\* short of the growth of the exact ones by rounding only.
LEMMA AttributedIs ==
  ASSUME CostTypeOK, NEW u \in Units,
         sums' \in [Stages -> [in : Int, out : Int]],
         \A s \in Stages :
           /\ sums'[s].in = sums[s].in + InputOf(s)[u]
           /\ sums'[s].out = sums[s].out + OutputOf(s)[u]
           /\ Grown(u, s) = sums'[s]
  PROVE  /\ Attributed(u) \in Int
         /\ SumFunctionOnSet(Rounded', Stages)
              = SumFunctionOnSet(Rounded, Stages) + Attributed(u)
         /\ ExactOf[u] <= Scale * Attributed(u) + ShortOfRounding(u)
<1> DEFINE grown == [s \in Stages |-> Ceil(Grown(u, s).in) - Ceil(sums[s].in)
                                        + Ceil(Grown(u, s).out) - Ceil(sums[s].out)]
           exact == [s \in Stages |-> InputOf(s)[u] + OutputOf(s)[u]]
           scaled == [s \in Stages |-> Scale * grown[s]]
           called == StagesOfUnit(u)
           short == [s \in Stages |-> IF s \in called THEN 2 * (Scale - 1) ELSE 0]
           total == [s \in Stages |-> scaled[s] + short[s]]
<1>0. IsFiniteSet(Stages)
  BY CostAssumption
<1>1. Attributed(u) = SumFunctionOnSet(grown, Stages)
  BY DEF Attributed, SumFunction
<1>2. ExactOf[u] = SumFunctionOnSet(exact, Stages)
  BY DEF ExactOf, SumFunction
<1>3. ASSUME NEW s \in Stages
      PROVE  /\ sums[s].in \in Int /\ sums[s].out \in Int
             /\ InputOf(s)[u] \in Int /\ OutputOf(s)[u] \in Int
             /\ s \notin called => InputOf(s)[u] = 0 /\ OutputOf(s)[u] = 0
  <2>1. \A x \in Nat : 0 * x = 0
    OBVIOUS
  <2>2. sums[s].in \in Int /\ sums[s].out \in Int
    BY DEF CostTypeOK
  <2>3. /\ Calls[u][s] \in Nat /\ InputOf(s)[u] \in Int /\ OutputOf(s)[u] \in Int
        /\ Calls[u][s] = 0 => InputOf(s)[u] = 0 /\ OutputOf(s)[u] = 0
    BY <2>1, PricesAreNat
  <2>4. s \notin called => Calls[u][s] = 0
    BY <2>3 DEF StagesOfUnit
  <2> QED BY <2>2, <2>3, <2>4
<1>4. ASSUME NEW s \in Stages
      PROVE  /\ grown[s] \in Int
             /\ Rounded[s] \in Int /\ Rounded'[s] \in Int
             /\ Rounded'[s] = Rounded[s] + grown[s]
             /\ exact[s] \in Int /\ exact[s] <= scaled[s] + short[s]
  <2> DEFINE x == sums[s].in
             y == sums[s].out
             g == InputOf(s)[u]
             h == OutputOf(s)[u]
  <2>1. /\ grown[s] = Ceil(x + g) - Ceil(x) + Ceil(y + h) - Ceil(y)
        /\ Rounded[s] = Ceil(x) + Ceil(y)
        /\ Rounded'[s] = Ceil(x + g) + Ceil(y + h)
        /\ exact[s] = g + h
        /\ scaled[s] = Scale * grown[s]
        /\ short[s] = IF s \in called THEN 2 * (Scale - 1) ELSE 0
    BY DEF Rounded
  <2>2. x \in Int /\ y \in Int /\ g \in Int /\ h \in Int
    BY <1>3
  <2>3. s \notin called => g = 0 /\ h = 0
    BY <1>3
  <2> HIDE DEF x, y, g, h, grown, exact, scaled, short, called
  <2>4. /\ Ceil(x) \in Int /\ Ceil(y) \in Int
        /\ Ceil(x + g) \in Int /\ Ceil(y + h) \in Int
    BY <2>2, CeilIs
  <2>5. /\ g <= Scale * (Ceil(x + g) - Ceil(x)) + (Scale - 1)
        /\ g = 0 => Ceil(x + g) - Ceil(x) = 0
        /\ h <= Scale * (Ceil(y + h) - Ceil(y)) + (Scale - 1)
        /\ h = 0 => Ceil(y + h) - Ceil(y) = 0
    BY <2>2, GrowthIsRounded
  <2>6. exact[s] <= scaled[s] + short[s]
    <3>1. CASE s \in called
      BY <2>1, <2>2, <2>4, <2>5, <3>1 DEF Scale
    <3>2. CASE s \notin called
      BY <2>1, <2>2, <2>3, <2>4, <2>5, <3>2 DEF Scale
    <3> QED BY <3>1, <3>2
  <2> QED BY <2>1, <2>2, <2>4, <2>6
<1>5. \A s \in Stages : scaled[s] = Scale * grown[s]
  OBVIOUS
<1>6. \A s \in Stages : short[s] \in Int /\ total[s] = scaled[s] + short[s]
  BY DEF Scale
<1>7. /\ called \in SUBSET Stages
      /\ \A s \in called : short[s] = 2 * (Scale - 1)
      /\ \A s \in Stages \ called : short[s] = 0
  BY DEF StagesOfUnit
<1>8. Scale \in Int
  BY DEF Scale
<1>9. ShortOfRounding(u) = 2 * (Scale - 1) * Cardinality(called)
  BY DEF ShortOfRounding
<1> HIDE DEF grown, exact, scaled, short, total, called
<1>10. Attributed(u) \in Int
  BY <1>0, <1>1, <1>4, SumIsInt
<1>11. SumFunctionOnSet(Rounded', Stages)
         = SumFunctionOnSet(Rounded, Stages) + SumFunctionOnSet(grown, Stages)
  BY <1>0, <1>4, SumOfBoth
<1>12. SumFunctionOnSet(scaled, Stages) = Scale * Attributed(u)
  BY <1>0, <1>1, <1>4, <1>5, <1>8, SumScaled
<1>13. \A s \in Stages : scaled[s] \in Int
  BY <1>4, <1>5, <1>8 DEF Scale
<1>14. SumFunctionOnSet(short, Stages) <= ShortOfRounding(u)
  <2>1. SumFunctionOnSet(short, Stages) = SumFunctionOnSet(short, called)
    BY <1>0, <1>6, <1>7, SumDropZeros
  <2>2. IsFiniteSet(called) /\ Cardinality(called) \in Nat
    BY <1>0, <1>7, FS_Subset, FS_CardinalityType
  <2>3. /\ 2 * (Scale - 1) \in Nat
        /\ \A s \in called : short[s] \in Int /\ short[s] <= 2 * (Scale - 1)
    BY <1>7 DEF Scale
  <2>4. SumFunctionOnSet(short, called) <= Cardinality(called) * (2 * (Scale - 1))
    BY <2>2, <2>3, SumAtMost
  <2> QED BY <1>9, <2>1, <2>2, <2>4 DEF Scale
<1>15. SumFunctionOnSet(total, Stages)
         = SumFunctionOnSet(scaled, Stages) + SumFunctionOnSet(short, Stages)
  BY <1>0, <1>6, <1>13, SumOfBoth
<1>16. SumFunctionOnSet(exact, Stages) <= SumFunctionOnSet(total, Stages)
  <2>1. \A s \in Stages : exact[s] \in Int /\ total[s] \in Int /\ exact[s] <= total[s]
    BY <1>4, <1>6, <1>13
  <2> QED BY <1>0, <2>1, SumBelow
<1>17. /\ SumFunctionOnSet(exact, Stages) \in Int
       /\ SumFunctionOnSet(short, Stages) \in Int
       /\ Cardinality(called) \in Int
  BY <1>0, <1>4, <1>6, <1>7, SumIsInt, FS_Subset, FS_CardinalityType
<1>18. ExactOf[u] <= Scale * Attributed(u) + ShortOfRounding(u)
  BY <1>2, <1>9, <1>10, <1>12, <1>14, <1>15, <1>16, <1>17 DEF Scale
<1> QED BY <1>1, <1>10, <1>11, <1>18


\* The round keeps the running sums exact and the projections with them.
LEMMA AttributeStep ==
  ASSUME CostIInv, Attribute
  PROVE  CostIInv'
<1>0. /\ CostTypeOK /\ IsFiniteSet(Stages)
      /\ UNCHANGED <<order, answered, realized>>
  BY CostAssumption DEF CostIInv, Attribute
<1>1. PICK u \in Units \ AttributedUnits :
        /\ AttributedUnits' = AttributedUnits \cup {u}
        /\ projected' = [projected EXCEPT ![u] = Attributed(u)]
        /\ \A s \in Stages :
             /\ sums'[s].in = sums[s].in + InputOf(s)[u]
             /\ sums'[s].out = sums[s].out + OutputOf(s)[u]
             /\ Grown(u, s) = sums'[s]
        /\ attributed' \in 0..Cardinality(Units)
        /\ sums' \in [Stages -> [in : Int, out : Int]]
  BY <1>0, RoundIs
<1>2. /\ Attributed(u) \in Int
      /\ SumFunctionOnSet(Rounded', Stages)
           = SumFunctionOnSet(Rounded, Stages) + Attributed(u)
      /\ ExactOf[u] <= Scale * Attributed(u) + ShortOfRounding(u)
  BY <1>0, <1>1, AttributedIs
<1>3. /\ AttributedUnits \in SUBSET Units /\ IsFiniteSet(AttributedUnits)
      /\ u \notin AttributedUnits /\ u \in Units
  BY <1>0, <1>1, OrderIs
<1>4. /\ projected \in [Units -> Int] /\ projected' \in [Units -> Int]
      /\ projected'[u] = Attributed(u)
      /\ \A v \in Units : v # u => projected'[v] = projected[v]
  BY <1>0, <1>1, <1>2 DEF CostTypeOK
<1>5. CostTypeOK'
  BY <1>0, <1>1, <1>4 DEF CostTypeOK
<1>6. SumsAreExact'
  <2> SUFFICES ASSUME NEW s \in Stages
               PROVE  /\ sums'[s].in = SumFunctionOnSet(InputOf(s), AttributedUnits')
                      /\ sums'[s].out = SumFunctionOnSet(OutputOf(s), AttributedUnits')
    BY DEF SumsAreExact, InputOf, OutputOf, ExactInput, ExactOutput
  <2>1. \A v \in AttributedUnits \cup {u} : InputOf(s)[v] \in Int /\ OutputOf(s)[v] \in Int
    BY <1>3, PricesAreNat
  <2>2. /\ sums[s].in = SumFunctionOnSet(InputOf(s), AttributedUnits)
        /\ sums[s].out = SumFunctionOnSet(OutputOf(s), AttributedUnits)
    BY DEF CostIInv, SumsAreExact
  <2>3. SumFunctionOnSet(InputOf(s), AttributedUnits \cup {u})
          = InputOf(s)[u] + SumFunctionOnSet(InputOf(s), AttributedUnits)
    BY <1>3, <2>1, SumAddOne
  <2>4. SumFunctionOnSet(OutputOf(s), AttributedUnits \cup {u})
          = OutputOf(s)[u] + SumFunctionOnSet(OutputOf(s), AttributedUnits)
    BY <1>3, <2>1, SumAddOne
  <2>5. /\ InputOf(s)[u] \in Int /\ OutputOf(s)[u] \in Int
        /\ sums[s].in \in Int /\ sums[s].out \in Int
    BY <1>0, <2>1 DEF CostTypeOK
  <2> QED BY <1>1, <2>2, <2>3, <2>4, <2>5
<1>7. ExactIsRunning'
  <2> DEFINE exact == [s \in Stages |-> InputOf(s)[u] + OutputOf(s)[u]]
  <2>1. ExactOf[u] = SumFunctionOnSet(exact, Stages)
    BY <1>3 DEF ExactOf, SumFunction
  <2>2. ASSUME NEW s \in Stages
        PROVE  /\ Running[s] \in Int /\ exact[s] \in Int
               /\ Running'[s] = Running[s] + exact[s]
    <3>1. /\ Running[s] = sums[s].in + sums[s].out
          /\ Running'[s] = sums'[s].in + sums'[s].out
          /\ exact[s] = InputOf(s)[u] + OutputOf(s)[u]
      BY DEF Running
    <3>2. /\ InputOf(s)[u] \in Int /\ OutputOf(s)[u] \in Int
          /\ sums[s].in \in Int /\ sums[s].out \in Int
      BY <1>0, <1>3, PricesAreNat DEF CostTypeOK
    <3> HIDE DEF exact
    <3> QED BY <1>1, <3>1, <3>2
  <2> HIDE DEF exact
  <2>3. SumFunctionOnSet(Running', Stages)
          = SumFunctionOnSet(Running, Stages) + SumFunctionOnSet(exact, Stages)
    BY <1>0, <2>2, SumOfBoth
  <2>4. \A v \in AttributedUnits \cup {u} : ExactOf[v] \in Int
    BY <1>3, ExactIsNat
  <2>5. SumFunctionOnSet(ExactOf, AttributedUnits \cup {u})
          = ExactOf[u] + SumFunctionOnSet(ExactOf, AttributedUnits)
    BY <1>3, <2>4, SumAddOne
  <2>6. SumFunctionOnSet(Running, Stages) \in Int /\ ExactOf[u] \in Int
    BY <1>0, <2>2, <2>4, SumIsInt
  <2>7. SumFunctionOnSet(ExactOf, AttributedUnits) = SumFunctionOnSet(Running, Stages)
    BY DEF CostIInv, ExactIsRunning
  <2>8. SumFunctionOnSet(ExactOf, AttributedUnits') = SumFunctionOnSet(Running', Stages)
    BY <1>1, <2>1, <2>3, <2>5, <2>6, <2>7
  <2> QED BY <2>8 DEF ExactIsRunning, ExactOf, InputOf, OutputOf, ExactInput, ExactOutput
<1>8. ProjectedIsRounded'
  <2>1. \A v \in AttributedUnits \cup {u} : projected'[v] \in Int
    BY <1>3, <1>4
  <2>2. SumFunctionOnSet(projected', AttributedUnits \cup {u})
          = projected'[u] + SumFunctionOnSet(projected', AttributedUnits)
    BY <1>3, <2>1, SumAddOne
  <2>3. SumFunctionOnSet(projected', AttributedUnits)
          = SumFunctionOnSet(projected, AttributedUnits)
    <3>1. \A v \in AttributedUnits : projected'[v] = projected[v]
      BY <1>3, <1>4
    <3> QED BY <1>3, <3>1, SumSame
  <2>4. SumFunctionOnSet(projected, AttributedUnits) = SumFunctionOnSet(Rounded, Stages)
    BY DEF CostIInv, ProjectedIsRounded, Projected
  <2>5. SumFunctionOnSet(projected, AttributedUnits) \in Int
    <3>1. \A v \in AttributedUnits : projected[v] \in Int
      BY <1>3, <1>4
    <3> QED BY <1>3, <3>1, SumIsInt
  <2>6. SumFunctionOnSet(projected', AttributedUnits') = SumFunctionOnSet(Rounded', Stages)
    BY <1>1, <1>2, <1>4, <2>2, <2>3, <2>4, <2>5
  <2> QED BY <2>6 DEF ProjectedIsRounded, Projected
<1>9. PricedAbove'
  <2> SUFFICES ASSUME NEW v \in AttributedUnits \cup {u}
               PROVE  ExactOf[v] <= Scale * projected'[v] + ShortOfRounding(v)
    BY <1>1 DEF PricedAbove, ExactOf, InputOf, OutputOf, ExactInput, ExactOutput,
                ShortOfRounding, StagesOfUnit
  <2>1. CASE v = u
    BY <1>2, <1>4, <2>1
  <2>2. CASE v \in AttributedUnits
    BY <1>3, <1>4, <2>2 DEF CostIInv, PricedAbove
  <2> QED BY <2>1, <2>2
<1>10. AnswersArePriced'
  <2>1. ASSUME NEW v \in Units PROVE ~ (realized[v] > 0)
    BY OrderIs DEF CostIInv, AnswersArePriced, Attribute
  <2> QED BY <1>0, <2>1 DEF CostIInv, AnswersArePriced, AnsweredPrice, CallPrice,
              ExactInput, ExactOutput, StagesOfUnit
<1> QED BY <1>5, <1>6, <1>7, <1>8, <1>9, <1>10 DEF CostIInv

-------------------------------------------------------------------------------
(* Answers. *)

\* An answer adds no more than the price of its call.
LEMMA RealizeStep ==
  ASSUME CostIInv, NEW u \in Units, NEW s \in Stages, Realize(u, s)
  PROVE  CostIInv'
<1>0. /\ CostTypeOK /\ IsFiniteSet(Stages)
      /\ UNCHANGED <<order, attributed, sums, projected>>
      /\ attributed = Len(order) /\ answered[u][s] < Calls[u][s]
      /\ answered' = [answered EXCEPT ![u][s] = @ + 1]
  BY CostAssumption DEF CostIInv, Realize
<1>1. PICK usage \in Usages[s] : realized' = [realized EXCEPT ![u] = @ + ActualKrw(usage)]
  BY DEF Realize
<1>2. ActualKrw(usage) \in Int /\ Scale * ActualKrw(usage) <= CallPrice(u, s)
  BY AnswerIsPriced
<1>3. /\ answered \in [Units -> [Stages -> Nat]]
      /\ answered' \in [Units -> [Stages -> Nat]]
      /\ answered'[u][s] = answered[u][s] + 1
      /\ \A v \in Units, x \in Stages :
           v # u \/ x # s => answered'[v][x] = answered[v][x]
  BY <1>0 DEF CostTypeOK
<1>4. /\ realized' \in [Units -> Int]
      /\ realized[u] \in Int
      /\ realized'[u] = realized[u] + ActualKrw(usage)
      /\ \A v \in Units : v # u => realized'[v] = realized[v]
  BY <1>0, <1>1, <1>2 DEF CostTypeOK
<1>5. CostTypeOK'
  BY <1>0, <1>3, <1>4 DEF CostTypeOK
<1>6. SumsAreExact' /\ ExactIsRunning' /\ ProjectedIsRounded' /\ PricedAbove'
  <2>0. /\ AttributedUnits' = AttributedUnits
        /\ SumsAreExact /\ ExactIsRunning /\ ProjectedIsRounded /\ PricedAbove
    BY <1>0 DEF AttributedUnits, CostIInv
  <2>1. SumsAreExact'
    BY <1>0, <2>0 DEF SumsAreExact, InputOf, OutputOf, ExactInput, ExactOutput
  <2>2. ExactIsRunning'
    BY <1>0, <2>0 DEF ExactIsRunning, Running, ExactOf, InputOf, OutputOf,
                      ExactInput, ExactOutput
  <2>3. ProjectedIsRounded'
    BY <1>0, <2>0 DEF ProjectedIsRounded, Rounded, Projected
  <2>4. PricedAbove'
    BY <1>0, <2>0 DEF PricedAbove, ShortOfRounding, StagesOfUnit, ExactOf, InputOf,
                      OutputOf, ExactInput, ExactOutput
  <2> QED BY <2>1, <2>2, <2>3, <2>4
<1>7. ASSUME NEW v \in Units
      PROVE  /\ \A x \in Stages : answered'[v][x] <= Calls[v][x]
             /\ Scale * realized'[v] <= SumFunctionOnSet(AnsweredPrice(v)', Stages)
             /\ realized'[v] > 0 => StagesOfUnit(v) # {} /\ attributed' = Len(order')
  <2>1. /\ \A x \in Stages : answered[v][x] <= Calls[v][x]
        /\ Scale * realized[v] <= SumFunctionOnSet(AnsweredPrice(v), Stages)
        /\ realized[v] > 0 => StagesOfUnit(v) # {}
    BY DEF CostIInv, AnswersArePriced
  <2>2. CASE v # u
    <3>1. \A x \in Stages : AnsweredPrice(v)'[x] = AnsweredPrice(v)[x]
      BY <1>3, <2>2 DEF AnsweredPrice, CallPrice, ExactInput, ExactOutput
    <3>2. SumFunctionOnSet(AnsweredPrice(v)', Stages)
            = SumFunctionOnSet(AnsweredPrice(v), Stages)
      BY <1>0, <3>1, SumSame
    <3> QED BY <1>0, <1>3, <1>4, <2>1, <2>2, <3>2
  <2>3. CASE v = u
    <3>1. \A x \in Stages : answered'[u][x] <= Calls[u][x]
      BY <1>0, <1>3, <2>1, <2>3, PricesAreNat
    <3>2. StagesOfUnit(u) # {}
      BY <1>0, <1>3, PricesAreNat DEF StagesOfUnit
    <3>3. ASSUME NEW x \in Stages
          PROVE  /\ AnsweredPrice(u)[x] \in Int /\ AnsweredPrice(u)'[x] \in Int
                 /\ x # s => AnsweredPrice(u)'[x] = AnsweredPrice(u)[x]
                 /\ x = s => AnsweredPrice(u)'[x] = AnsweredPrice(u)[x] + CallPrice(u, s)
                 /\ CallPrice(u, x) \in Int
      <4>1. /\ AnsweredPrice(u)[x] = answered[u][x] * CallPrice(u, x)
            /\ AnsweredPrice(u)'[x] = answered'[u][x] * CallPrice(u, x)
        BY DEF AnsweredPrice, CallPrice, ExactInput, ExactOutput
      <4>2. CallPrice(u, x) \in Nat
        BY PricesAreNat DEF CallPrice, Scale
      <4>3. \A k, p \in Nat : k * p \in Int /\ (k + 1) * p = k * p + p
        OBVIOUS
      <4>4. answered[u][x] \in Nat /\ answered'[u][x] \in Nat
        BY <1>3
      <4>5. AnsweredPrice(u)[x] \in Int /\ AnsweredPrice(u)'[x] \in Int
        BY <4>1, <4>2, <4>3, <4>4
      <4>6. x # s => AnsweredPrice(u)'[x] = AnsweredPrice(u)[x]
        BY <1>3, <4>1
      <4>7. x = s => AnsweredPrice(u)'[x] = AnsweredPrice(u)[x] + CallPrice(u, s)
        BY <1>3, <4>1, <4>2, <4>3, <4>4
      <4> QED BY <4>2, <4>5, <4>6, <4>7
    <3>4. SumFunctionOnSet(AnsweredPrice(u)', Stages)
            = SumFunctionOnSet(AnsweredPrice(u), Stages)
                - AnsweredPrice(u)[s] + AnsweredPrice(u)'[s]
      BY <1>0, <3>3, SumUpdate
    <3>5. SumFunctionOnSet(AnsweredPrice(u), Stages) \in Int
      BY <1>0, <3>3, SumIsInt
    <3>6. SumFunctionOnSet(AnsweredPrice(u)', Stages)
            = SumFunctionOnSet(AnsweredPrice(u), Stages) + CallPrice(u, s)
      BY <3>3, <3>4, <3>5
    <3>7. Scale * realized'[u] = Scale * realized[u] + Scale * ActualKrw(usage)
      BY <1>2, <1>4 DEF Scale
    <3>8. Scale * realized'[u] <= SumFunctionOnSet(AnsweredPrice(u)', Stages)
      BY <1>2, <1>4, <2>1, <2>3, <3>3, <3>5, <3>6, <3>7 DEF Scale
    <3> QED BY <1>0, <2>3, <3>1, <3>2, <3>8
  <2> QED BY <2>2, <2>3
<1>8. AnswersArePriced'
  BY <1>7 DEF AnswersArePriced, StagesOfUnit
<1> QED BY <1>5, <1>6, <1>8 DEF CostIInv

-------------------------------------------------------------------------------
(* The beginning. *)

LEMMA CostInvInit ==
  ASSUME CostInit
  PROVE  CostIInv
<1>0. /\ order \in Orders /\ attributed = 0 /\ IsFiniteSet(Stages)
      /\ sums = [s \in Stages |-> [in |-> 0, out |-> 0]]
      /\ projected = [u \in Units |-> 0]
      /\ answered = [u \in Units |-> [s \in Stages |-> 0]]
      /\ realized = [u \in Units |-> 0]
  BY CostAssumption DEF CostInit
<1>1. AttributedUnits = {}
  BY <1>0 DEF AttributedUnits
<1>2. CostTypeOK
  <2>1. Cardinality(Units) \in Nat
    BY CostAssumption, FS_CardinalityType
  <2>2. 0 \in 0..Cardinality(Units)
    BY <2>1
  <2> QED BY <1>0, <2>2 DEF CostTypeOK
<1>3. SumsAreExact
  BY <1>0, <1>1, SumOfNone DEF SumsAreExact
<1>4. \A f : (\A s \in Stages : f[s] = 0) => SumFunctionOnSet(f, Stages) = 0
  <2> SUFFICES ASSUME NEW f, \A s \in Stages : f[s] = 0
               PROVE  SumFunctionOnSet(f, Stages) = 0
    OBVIOUS
  <2>1. SumFunctionOnSet(f, Stages) = SumFunctionOnSet(f, {})
    BY <1>0, SumDropZeros
  <2> QED BY <2>1, SumOfNone
<1>5. ExactIsRunning /\ ProjectedIsRounded
  <2>1. \A s \in Stages : Running[s] = 0 /\ Rounded[s] = 0
    BY <1>0 DEF Running, Rounded, Ceil, Scale
  <2> QED BY <1>1, <1>4, <2>1, SumOfNone DEF ExactIsRunning, ProjectedIsRounded, Projected
<1>6. PricedAbove
  BY <1>1 DEF PricedAbove
<1>7. AnswersArePriced
  <2> SUFFICES ASSUME NEW u \in Units
               PROVE  /\ \A s \in Stages : answered[u][s] <= Calls[u][s]
                      /\ Scale * realized[u] <= SumFunctionOnSet(AnsweredPrice(u), Stages)
                      /\ ~ (realized[u] > 0)
    BY DEF AnswersArePriced
  <2>1. \A s \in Stages : AnsweredPrice(u)[s] = 0 /\ 0 <= Calls[u][s]
    <3>1. \A s \in Stages : CallPrice(u, s) \in Nat
      BY PricesAreNat DEF CallPrice, Scale
    <3>2. \A x \in Nat : 0 * x = 0
      OBVIOUS
    <3> QED BY <1>0, <3>1, <3>2, PricesAreNat DEF AnsweredPrice
  <2>2. SumFunctionOnSet(AnsweredPrice(u), Stages) = 0
    BY <1>4, <2>1
  <2> QED BY <1>0, <2>1, <2>2 DEF Scale
<1> QED BY <1>2, <1>3, <1>5, <1>6, <1>7 DEF CostIInv

LEMMA CostInvariant == CostSpec => []CostIInv
<1>1. ASSUME CostIInv, UNCHANGED costVars PROVE CostIInv'
  BY <1>1 DEF costVars, CostIInv, CostTypeOK, SumsAreExact, ExactIsRunning,
       ProjectedIsRounded, PricedAbove, AnswersArePriced, AttributedUnits,
       ExactOf, InputOf, OutputOf, ExactInput, ExactOutput, Running, Rounded,
       Projected, ShortOfRounding, StagesOfUnit, AnsweredPrice, CallPrice
<1>2. CostIInv /\ [CostNext]_costVars => CostIInv'
  BY <1>1, AttributeStep, RealizeStep DEF CostNext
<1>3. CostInit => CostIInv
  BY CostInvInit
<1> QED BY <1>2, <1>3, PTL DEF CostSpec

-------------------------------------------------------------------------------
(* Theorems. *)

\* The states keep their declared shape: what calculate attributes and
\* reconcile_actual realizes are whole numbers of KRW.
THEOREM CostTypes == CostSpec => []CostTypeOK
<1>1. CostIInv => CostTypeOK
  BY DEF CostIInv
<1> QED BY <1>1, CostInvariant, PTL

\* After every unit of any order the projections add up to the order-free
\* witness, so that the order decides who pays for a rounding and never whether.
THEOREM CostAttributionIsExact == CostSpec => []AttributionIsExact
<1>1. ASSUME CostIInv PROVE AttributionIsExact
  <2> DEFINE rounded == [s \in Stages |->
               Ceil(SumFunctionOnSet(InputOf(s), AttributedUnits))
                 + Ceil(SumFunctionOnSet(OutputOf(s), AttributedUnits))]
  <2>1. rounded = Rounded
    BY <1>1 DEF CostIInv, SumsAreExact, Rounded
  <2>2. Witness(AttributedUnits) = SumFunctionOnSet(rounded, Stages)
    BY DEF Witness, SumFunction
  <2> QED BY <1>1, <2>1, <2>2 DEF CostIInv, ProjectedIsRounded, AttributionIsExact
<1> QED BY <1>1, CostInvariant, PTL

\* The projections of every beginning of any order cover its exact cost.
THEOREM CostBeginningIsCovered == CostSpec => []BeginningIsCovered
<1>1. ASSUME CostIInv PROVE BeginningIsCovered
  <2> DEFINE scaled == [s \in Stages |-> Scale * Rounded[s]]
  <2>0. IsFiniteSet(Stages) /\ Scale \in Int
    BY CostAssumption DEF Scale
  <2>1. ASSUME NEW s \in Stages
        PROVE  /\ Running[s] \in Int /\ Rounded[s] \in Int
               /\ scaled[s] = Scale * Rounded[s]
               /\ scaled[s] \in Int /\ Running[s] <= scaled[s]
    <3> DEFINE x == sums[s].in
               y == sums[s].out
    <3>1. x \in Int /\ y \in Int
      BY <1>1 DEF CostIInv, CostTypeOK
    <3>2. /\ Running[s] = x + y /\ Rounded[s] = Ceil(x) + Ceil(y)
          /\ scaled[s] = Scale * Rounded[s]
      BY DEF Running, Rounded
    <3> HIDE DEF x, y, scaled
    <3>3. /\ Ceil(x) \in Int /\ x <= Scale * Ceil(x)
          /\ Ceil(y) \in Int /\ y <= Scale * Ceil(y)
      BY <3>1, CeilIs
    <3> QED BY <3>1, <3>2, <3>3 DEF Scale
  <2> HIDE DEF scaled
  <2>2. SumFunctionOnSet(Running, Stages) <= SumFunctionOnSet(scaled, Stages)
    BY <2>0, <2>1, SumBelow
  <2>3. SumFunctionOnSet(scaled, Stages) = Scale * SumFunctionOnSet(Rounded, Stages)
    BY <2>0, <2>1, SumScaled
  <2> QED BY <1>1, <2>2, <2>3 DEF CostIInv, ExactIsRunning, ProjectedIsRounded,
              BeginningIsCovered
<1> QED BY <1>1, CostInvariant, PTL

\* The answers of a unit exceed its projection by less than one KRW for each call
\* and two for each stage, whatever usage they report.
THEOREM CostOvershootIsBounded == CostSpec => []OvershootIsBounded
<1>1. ASSUME CostIInv, NEW u \in Units, realized[u] > 0
      PROVE  realized[u] < projected[u] + CallsOfUnit(u)
                             + 2 * Cardinality(StagesOfUnit(u))
  <2> DEFINE exact == [s \in Stages |-> InputOf(s)[u] + OutputOf(s)[u]]
             ceils == [s \in Stages |-> (Scale - 1) * Calls[u][s]]
             total == [s \in Stages |-> exact[s] + ceils[s]]
             calls == CallsOfUnit(u)
             stages == Cardinality(StagesOfUnit(u))
  <2>0. IsFiniteSet(Stages) /\ Scale - 1 \in Int
    BY CostAssumption DEF Scale
  <2>1. ASSUME NEW s \in Stages
        PROVE  /\ Calls[u][s] \in Nat /\ exact[s] \in Int /\ ceils[s] \in Int
               /\ ceils[s] = (Scale - 1) * Calls[u][s]
               /\ total[s] = exact[s] + ceils[s] /\ total[s] \in Int
               /\ AnsweredPrice(u)[s] \in Int /\ AnsweredPrice(u)[s] <= total[s]
    <3> DEFINE k == answered[u][s]
               n == Calls[u][s]
               in == ExactInput(u, s)
               out == ExactOutput(s)
    <3>1. k \in Nat /\ n \in Nat /\ k <= n /\ in \in Nat /\ out \in Nat
      BY <1>1, PricesAreNat DEF CostIInv, CostTypeOK, AnswersArePriced
    <3>2. /\ AnsweredPrice(u)[s] = k * (in + out + (Scale - 1))
          /\ exact[s] = n * in + n * out
          /\ ceils[s] = (Scale - 1) * n
          /\ total[s] = exact[s] + ceils[s]
      BY PricesAreNat DEF AnsweredPrice, CallPrice
    <3> HIDE DEF k, n, in, out, exact, ceils, total
    <3>3. \A p \in Nat : k * p \in Int /\ n * p \in Int /\ k * p <= n * p
      BY <3>1
    <3>4. in + out + (Scale - 1) \in Nat
      BY <3>1 DEF Scale
    <3>5. n * (in + out + (Scale - 1)) = n * in + n * out + (Scale - 1) * n
      BY <3>1 DEF Scale
    <3>6. n * in \in Int /\ n * out \in Int /\ (Scale - 1) * n \in Int
      BY <3>1, <3>3 DEF Scale
    <3>7. AnsweredPrice(u)[s] \in Int /\ AnsweredPrice(u)[s] <= total[s]
      BY <3>2, <3>3, <3>4, <3>5, <3>6
    <3> QED BY <3>1, <3>2, <3>6, <3>7 DEF n
  <2>2. ExactOf[u] = SumFunctionOnSet(exact, Stages)
    BY DEF ExactOf, SumFunction
  <2>3. calls = SumFunctionOnSet(Calls[u], Stages)
    <3>1. DOMAIN Calls[u] = Stages
      BY CostAssumption
    <3> QED BY <3>1 DEF CallsOfUnit, SumFunction
  <2>4. /\ stages \in Nat /\ stages > 0
    <3>1. StagesOfUnit(u) \in SUBSET Stages /\ StagesOfUnit(u) # {}
      BY <1>1 DEF CostIInv, AnswersArePriced, StagesOfUnit
    <3>2. IsFiniteSet(StagesOfUnit(u))
      BY <2>0, <3>1, FS_Subset
    <3> QED BY <3>1, <3>2, FS_EmptySet, FS_CardinalityType
  <2>5. ExactOf[u] <= Scale * projected[u] + 2 * (Scale - 1) * stages
    <3>1. u \in AttributedUnits
      BY <1>1, OrderIs DEF CostIInv, AnswersArePriced
    <3> QED BY <1>1, <3>1 DEF CostIInv, PricedAbove, ShortOfRounding
  <2>6. Scale * realized[u] <= SumFunctionOnSet(AnsweredPrice(u), Stages)
    BY <1>1 DEF CostIInv, AnswersArePriced
  <2>7. realized[u] \in Int /\ projected[u] \in Int
    BY <1>1 DEF CostIInv, CostTypeOK
  <2> HIDE DEF exact, ceils, total, calls, stages
  <2>8. SumFunctionOnSet(AnsweredPrice(u), Stages) <= SumFunctionOnSet(total, Stages)
    BY <2>0, <2>1, SumBelow
  <2>9. SumFunctionOnSet(total, Stages)
          = SumFunctionOnSet(exact, Stages) + SumFunctionOnSet(ceils, Stages)
    BY <2>0, <2>1, SumOfBoth
  <2>10. SumFunctionOnSet(ceils, Stages) = (Scale - 1) * calls
    BY <2>0, <2>1, <2>3, SumScaled
  <2>11. calls \in Nat
    BY <2>0, <2>1, <2>3, SumIsNat
  <2>12. /\ SumFunctionOnSet(exact, Stages) \in Int
         /\ SumFunctionOnSet(AnsweredPrice(u), Stages) \in Int
    BY <2>0, <2>1, SumIsInt
  <2>13. Scale * realized[u]
           <= Scale * projected[u] + 2 * (Scale - 1) * stages + (Scale - 1) * calls
    BY <2>2, <2>4, <2>5, <2>6, <2>7, <2>8, <2>9, <2>10, <2>11, <2>12 DEF Scale
  <2>14. realized[u] < projected[u] + calls + 2 * stages
    BY <2>4, <2>7, <2>11, <2>13 DEF Scale
  <2> QED BY <2>14 DEF calls, stages
<1>2. CostIInv => OvershootIsBounded
  BY <1>1 DEF OvershootIsBounded
<1> QED BY <1>2, CostInvariant, PTL

-------------------------------------------------------------------------------
(* The calibration.                                                         *)

-------------------------------------------------------------------------------
(* The course of a run: how many calls can come before the present one. *)

CallsOf == <<1, 1, 3, 4>>
CallsBefore == <<0, 1, 2, 5>>

Course(t, b, p, c) ==
  9 * (Positions * (t - 1)) + Positions * CallsBefore[b]
    + CallsOf[b] * (p - 1) + (c - 1)

Here == Course(trajectory, baseline, position, call)

PlaceOK ==
  /\ trajectory \in 1 .. Trajectories /\ baseline \in 1 .. 4
  /\ position \in 1 .. Positions /\ call \in 1 .. CallsOf[baseline]

LEMMA StageCounts ==
  /\ Len(CallStages) = 4
  /\ \A b \in 1 .. 4 : Len(CallStages[b]) = CallsOf[b]
<1>1. Len(CallStages) = 4
  BY DEF CallStages
<1>2. /\ Len(CallStages[1]) = 1 /\ Len(CallStages[2]) = 1
      /\ Len(CallStages[3]) = 3 /\ Len(CallStages[4]) = 4
  BY DEF CallStages
<1> QED BY <1>1, <1>2 DEF CallsOf

LEMMA TimesGrows ==
  ASSUME NEW k \in Nat, NEW x \in Int, NEW y \in Int, x <= y
  PROVE  k * x <= k * y
<1>1. k * (y - x) \in Nat
  OBVIOUS
<1>2. k * (y - x) = k * y - k * x
  OBVIOUS
<1> QED BY <1>1, <1>2

LEMMA OneMore ==
  ASSUME NEW k \in Nat, NEW x \in Nat
  PROVE  k * x \in Nat /\ k * (x + 1) = k * x + k
OBVIOUS

LEMMA BaselineCases ==
  ASSUME NEW b \in 1 .. 4
  PROVE  \/ b = 1 /\ CallsBefore[b] = 0 /\ CallsOf[b] = 1
         \/ b = 2 /\ CallsBefore[b] = 1 /\ CallsOf[b] = 1
         \/ b = 3 /\ CallsBefore[b] = 2 /\ CallsOf[b] = 3
         \/ b = 4 /\ CallsBefore[b] = 5 /\ CallsOf[b] = 4
BY DEF CallsBefore, CallsOf

\* Nine calls a position are enough for every place of a run.
LEMMA CourseInRange ==
  ASSUME NEW t \in 1 .. Trajectories, NEW b \in 1 .. 4,
         NEW p \in 1 .. Positions, NEW c \in 1 .. CallsOf[b]
  PROVE  Course(t, b, p, c) \in Nat /\ Course(t, b, p, c) + 1 <= MaxCalls
<1> USE CalibrationAssumption
<1> DEFINE before == Positions * (t - 1)
<1>1. before \in Nat
  OBVIOUS
<1>2. Positions * t <= Positions * Trajectories
  BY TimesGrows
<1>3. before + Positions = Positions * t
  OBVIOUS
<1>4. MaxCalls = 9 * (Positions * Trajectories)
  BY DEF MaxCalls, CallsPerPosition
<1>5. Course(t, b, p, c)
        = 9 * before + Positions * CallsBefore[b] + CallsOf[b] * (p - 1) + (c - 1)
  BY DEF Course
<1> HIDE DEF before
<1> QED BY <1>1, <1>2, <1>3, <1>4, <1>5, BaselineCases

LEMMA CourseFits ==
  ASSUME PlaceOK
  PROVE  Here \in Nat /\ Here + 1 <= MaxCalls
BY CourseInRange DEF PlaceOK, Here

\* The end of a trial comes after every call the trial may have made.
LEMMA TrialEndsLater ==
  ASSUME PlaceOK, pc = "running", EndTrial
  PROVE  /\ PlaceOK'
         /\ \/ pc' = "running" /\ Here + 1 <= Here'
            \/ pc' = "archiving"
<1> USE CalibrationAssumption, StageCounts
<1>1. CASE position < Positions /\ position' = position + 1
           /\ UNCHANGED <<pc, trajectory, baseline>>
  <2>1. PlaceOK'
    BY <1>1, BaselineCases DEF PlaceOK, EndTrial
  <2>2. Here + 1 <= Here'
    <3> DEFINE before == Positions * (trajectory - 1)
               sooner == Positions * CallsBefore[baseline]
               most == CallsOf[baseline]
               made == CallsOf[baseline] * (position - 1)
    <3>1. /\ before \in Nat /\ sooner \in Nat /\ made \in Nat
          /\ most \in Nat /\ call \in 1 .. most
      BY BaselineCases DEF PlaceOK
    <3>2. Here = 9 * before + sooner + made + (call - 1)
      BY DEF Here, Course
    <3>3. Here' = 9 * before + sooner + CallsOf[baseline] * position
      BY <1>1, BaselineCases DEF Here, Course, EndTrial, PlaceOK
    <3>4. CallsOf[baseline] * position = made + most
      BY BaselineCases DEF PlaceOK
    <3> HIDE DEF before, sooner, most, made
    <3> QED BY <3>1, <3>2, <3>3, <3>4
  <2> QED BY <1>1, <2>1, <2>2
<1>2. CASE position = Positions /\ baseline < 4 /\ position' = 1
           /\ baseline' = baseline + 1 /\ UNCHANGED <<pc, trajectory>>
  <2>1. PlaceOK'
    BY <1>2, BaselineCases DEF PlaceOK, EndTrial, CallsOf
  <2>2. Here + 1 <= Here'
    <3> DEFINE before == Positions * (trajectory - 1)
               sooner == Positions * CallsBefore[baseline]
               most == CallsOf[baseline]
               made == CallsOf[baseline] * (Positions - 1)
               later == Positions * CallsBefore[baseline + 1]
    <3>1. /\ before \in Nat /\ sooner \in Nat /\ made \in Nat
          /\ most \in Nat /\ call \in 1 .. most
      BY BaselineCases DEF PlaceOK
    <3>2. Here = 9 * before + sooner + made + (call - 1)
      BY <1>2 DEF Here, Course
    <3>3. Here' = 9 * before + later
      <4>1. baseline + 1 \in 1 .. 4
        BY <1>2 DEF PlaceOK
      <4>2. CallsOf[baseline + 1] \in Nat /\ later \in Nat
        BY <4>1, BaselineCases
      <4>3. CallsOf[baseline + 1] * (1 - 1) = 0
        BY <4>2
      <4>4. Here' = 9 * before + later + CallsOf[baseline + 1] * (1 - 1) + (1 - 1)
        BY <1>2 DEF Here, Course, EndTrial
      <4> QED BY <3>1, <4>2, <4>3, <4>4
    <3>4. later = sooner + (made + most)
      <4>1. CASE baseline = 1
        BY <4>1 DEF CallsBefore, CallsOf
      <4>2. CASE baseline = 2
        BY <4>2 DEF CallsBefore, CallsOf
      <4>3. CASE baseline = 3
        BY <4>3 DEF CallsBefore, CallsOf
      <4> QED BY <1>2, <4>1, <4>2, <4>3 DEF PlaceOK
    <3> HIDE DEF before, sooner, most, made, later
    <3> QED BY <3>1, <3>2, <3>3, <3>4
  <2> QED BY <1>2, <2>1, <2>2
<1>3. CASE position = Positions /\ baseline = 4 /\ trajectory < Trajectories
           /\ position' = 1 /\ baseline' = 1 /\ trajectory' = trajectory + 1
           /\ pc' = pc
  <2>1. PlaceOK'
    BY <1>3 DEF PlaceOK, EndTrial, CallsOf
  <2>2. Here + 1 <= Here'
    <3> DEFINE before == Positions * (trajectory - 1)
    <3>1. before \in Nat /\ Positions * trajectory = before + Positions
      BY DEF PlaceOK
    <3>2. Here = 9 * before + Positions * 5 + 4 * (Positions - 1) + (call - 1)
          /\ call <= 4
      BY <1>3 DEF Here, Course, PlaceOK, CallsBefore, CallsOf
    <3>3. Here' = 9 * (Positions * trajectory)
      BY <1>3 DEF Here, Course, EndTrial, PlaceOK, CallsBefore, CallsOf
    <3> HIDE DEF before
    <3> QED BY <3>1, <3>2, <3>3 DEF PlaceOK
  <2> QED BY <1>3, <2>1, <2>2
<1>4. CASE pc' = "archiving" /\ UNCHANGED <<trajectory, baseline, position>>
  BY <1>4, BaselineCases DEF PlaceOK, EndTrial
<1> QED BY <1>1, <1>2, <1>3, <1>4 DEF EndTrial, PlaceOK

-------------------------------------------------------------------------------
(* The inductive invariant. *)

\* 1 while a call that was taken down waits for its answer.
Open == IF attempts > 0 THEN 1 ELSE 0

\* No more calls were taken down than can come before this place.
RunInCourse ==
  /\ pc \in {"running", "archiving", "completed", "invalidated"}
  /\ PlaceOK
  /\ attempts \in 0 .. 1 + Retries
  /\ attempts > 0 => pc = "running"
  /\ meter.dispatched <= MaxCalls
  /\ pc = "running" => meter.dispatched <= Here + Open

\* The counters of the meter agree with one another and with the guard.
MeterAddsUp ==
  /\ meter \in [dispatched : Nat, reserved : Nat,
                 answered : Nat, attempts : Nat, cost : Nat]
  /\ meter.answered + Open <= meter.dispatched
  /\ meter.reserved = CallCost * meter.dispatched
  /\ meter.answered <= meter.attempts
  /\ meter.attempts <= (1 + Retries) * meter.answered
  /\ spent = meter.cost /\ meter.cost <= AttemptCost * meter.answered

\* Attempts that may have been billed and that no counted answer accounts for.
Unaccounted ==
  (meter.attempts - meter.answered)
    + (1 + Retries) * (meter.dispatched - meter.answered - Open)
    + (attempts - Open)

BillFollows ==
  /\ issued \in Nat /\ billed \in Nat
  /\ issued <= (1 + Retries) * (meter.dispatched - Open) + attempts
  /\ billed <= meter.cost + AttemptCost * Unaccounted

CalibrationIInv ==
  RunInCourse /\ MeterAddsUp /\ BillFollows /\ exhausted = {}

LEMMA BudgetTerms ==
  /\ MaxCalls \in Nat /\ CallCost \in Nat
  /\ MaxAttempts = (1 + Retries) * MaxCalls
  /\ HardCeiling = CallCost * MaxCalls
  /\ AttemptCost * MaxCalls <= HardCeiling
<1> USE CalibrationAssumption
<1>1. MaxCalls \in Nat /\ CallCost \in Nat
  BY DEF MaxCalls, CallsPerPosition, CallCost
<1>2. MaxAttempts = (1 + Retries) * MaxCalls
  BY <1>1 DEF MaxAttempts
<1>3. HardCeiling = CallCost * MaxCalls
  BY <1>1 DEF HardCeiling, MaxAttempts, CallCost
<1>4. MaxCalls * AttemptCost <= MaxCalls * CallCost
  <2>1. Retries * AttemptCost \in Nat
    OBVIOUS
  <2>2. CallCost = Retries * AttemptCost + AttemptCost
    BY DEF CallCost
  <2>3. AttemptCost <= CallCost
    BY <2>1, <2>2
  <2> QED BY <2>3, <1>1, TimesGrows
<1> QED BY <1>1, <1>2, <1>3, <1>4

LEMMA CalibrationStarts == CalibrationInit => CalibrationIInv
<1> SUFFICES ASSUME CalibrationInit PROVE CalibrationIInv
  OBVIOUS
<1> USE CalibrationAssumption DEF CalibrationInit
<1>1. PlaceOK
  BY DEF PlaceOK, CallsOf
<1>2. Open = 0
  BY DEF Open
<1>3. RunInCourse
  BY <1>1, <1>2, CourseFits, BudgetTerms DEF RunInCourse
<1>4. CallCost \in Nat
  BY DEF CallCost
<1>5. MeterAddsUp
  BY <1>2, <1>4 DEF MeterAddsUp
<1>6. Unaccounted = 0
  BY <1>2 DEF Unaccounted
<1>7. BillFollows
  BY <1>2, <1>6 DEF BillFollows
<1> QED BY <1>3, <1>5, <1>7 DEF CalibrationIInv

-------------------------------------------------------------------------------
(* The budget suffices. *)

\* Before a call: it can be taken down, reserved and estimated.
LEMMA RoomForACall ==
  ASSUME CalibrationIInv, Ready
  PROVE  /\ meter.dispatched + 1 <= MaxCalls
         /\ meter.reserved + CallCost <= HardCeiling
         /\ \A estimate \in 0 .. AttemptCost : spent + estimate <= HardCeiling
         /\ Shortage = {}
<1> USE CalibrationAssumption, BudgetTerms
<1>1. meter.dispatched + 1 <= MaxCalls
  BY CourseFits DEF CalibrationIInv, RunInCourse, MeterAddsUp, Ready, Open
<1> DEFINE d == meter.dispatched  a == meter.answered
<1>2. d \in Nat /\ a \in Nat /\ a <= d /\ d + 1 <= MaxCalls
  BY <1>1 DEF CalibrationIInv, MeterAddsUp, Open
<1>3. CallCost * (d + 1) <= CallCost * MaxCalls
  BY <1>2, TimesGrows
<1>4. meter.reserved = CallCost * d
  BY DEF CalibrationIInv, MeterAddsUp
<1>5. CallCost * (d + 1) = CallCost * d + CallCost
  BY <1>2
<1>6. meter.reserved + CallCost <= HardCeiling
  BY <1>3, <1>4, <1>5
<1>7. ASSUME NEW estimate \in 0 .. AttemptCost
      PROVE  spent + estimate <= HardCeiling
  <2>1. spent \in Nat /\ spent <= AttemptCost * a
    BY DEF CalibrationIInv, MeterAddsUp
  <2>2. AttemptCost * (a + 1) <= AttemptCost * MaxCalls
    BY <1>2, TimesGrows
  <2>3. AttemptCost * (a + 1) = AttemptCost * a + AttemptCost
    BY <1>2
  <2>4. AttemptCost * a \in Nat /\ AttemptCost * MaxCalls \in Nat /\ HardCeiling \in Nat
    BY <1>2
  <2> HIDE DEF a
  <2> QED BY <2>1, <2>2, <2>3, <2>4
<1>8. Shortage = {}
  <2>1. ~(meter.dispatched >= MaxCalls)
    BY <1>2
  <2>2. CallCost * d \in Nat /\ CallCost * MaxCalls \in Nat
    BY <1>2
  <2>3. ~(meter.reserved + CallCost > HardCeiling)
    BY <1>4, <1>6, <2>2
  <2> QED BY ONLY <2>1, <2>3 DEF Shortage
<1> QED BY <1>1, <1>6, <1>7, <1>8

\* With an answer: the sums stay within the budget.
LEMMA RoomForAnAnswer ==
  ASSUME CalibrationIInv, Asking, NEW bill \in 0 .. AttemptCost
  PROVE  /\ meter.attempts + attempts <= MaxAttempts
         /\ meter.cost + bill <= HardCeiling
<1> USE CalibrationAssumption, BudgetTerms
<1> DEFINE a == meter.answered
<1>1. a \in Nat /\ a + 1 <= MaxCalls
  BY DEF CalibrationIInv, RunInCourse, MeterAddsUp, Asking, Open
<1>2. (1 + Retries) * (a + 1) <= (1 + Retries) * MaxCalls
  BY <1>1, TimesGrows
<1>3. AttemptCost * (a + 1) <= AttemptCost * MaxCalls
  BY <1>1, TimesGrows
<1>4. /\ (1 + Retries) * (a + 1) = (1 + Retries) * a + (1 + Retries)
      /\ AttemptCost * (a + 1) = AttemptCost * a + AttemptCost
  BY <1>1
<1>5. /\ meter.attempts \in Nat /\ meter.cost \in Nat /\ attempts \in Nat
      /\ meter.attempts <= (1 + Retries) * a /\ attempts <= 1 + Retries
      /\ meter.cost <= AttemptCost * a
  <2>1. attempts \in Nat /\ attempts <= 1 + Retries
    <3>1. attempts \in 0 .. 1 + Retries
      BY DEF CalibrationIInv, RunInCourse
    <3> QED BY ONLY <3>1, CalibrationAssumption
  <2>2. MeterAddsUp
    BY DEF CalibrationIInv
  <2> QED BY <2>1, <2>2 DEF MeterAddsUp
<1>6. /\ (1 + Retries) * a \in Nat /\ AttemptCost * a \in Nat
      /\ (1 + Retries) * MaxCalls \in Nat /\ AttemptCost * MaxCalls \in Nat
      /\ HardCeiling \in Nat
  BY <1>1
<1> HIDE DEF a
<1> QED BY <1>2, <1>3, <1>4, <1>5, <1>6

-------------------------------------------------------------------------------
(* The steps. *)

\* A call that is over leaves a place the course comes to later.
LEMMA CallEnds ==
  ASSUME PlaceOK, pc = "running",
         Proceeds \/ \E kind \in {"value", "runtime", "transport"} : Fails(kind)
  PROVE  /\ attempts' = 0 /\ PlaceOK'
         /\ pc' \in {"running", "archiving", "invalidated"}
         /\ pc' = "running" => Here + 1 <= Here'
<1>1. CASE EndTrial /\ attempts' = 0
  BY <1>1, TrialEndsLater
<1>2. CASE attempts' = 0 /\ pc' = "invalidated" /\ UNCHANGED place
  BY <1>2 DEF place, PlaceOK
<1>3. CASE /\ attempts' = 0 /\ call < Len(CallStages[baseline]) /\ call' = call + 1
           /\ UNCHANGED <<pc, trajectory, baseline, position>>
  <2>1. PlaceOK'
    BY <1>3, StageCounts, BaselineCases DEF PlaceOK
  <2>2. Here \in Nat
    BY CourseFits
  <2> DEFINE before == 9 * (Positions * (trajectory - 1))
                         + Positions * CallsBefore[baseline]
                         + CallsOf[baseline] * (position - 1)
  <2>3. before \in Nat
    BY CalibrationAssumption, BaselineCases DEF PlaceOK
  <2>4. Here = before + (call - 1) /\ Here' = before + (call + 1 - 1)
    <3>1. Here = before + (call - 1)
      BY DEF Here, Course
    <3>2. Here' = Course(trajectory, baseline, position, call + 1)
      BY <1>3 DEF Here
    <3>3. Course(trajectory, baseline, position, call + 1) = before + (call + 1 - 1)
      <4>1. call \in Int
        BY BaselineCases DEF PlaceOK
      <4>2. 9 * (Positions * (trajectory - 1)) \in Int
            /\ Positions * CallsBefore[baseline] \in Int
            /\ CallsOf[baseline] * (position - 1) \in Int
        BY CalibrationAssumption, BaselineCases DEF PlaceOK
      <4> QED BY <4>1, <4>2 DEF Course
    <3> HIDE DEF before
    <3> QED BY <3>1, <3>2, <3>3
  <2> HIDE DEF before
  <2> QED BY <1>3, <2>1, <2>3, <2>4, BaselineCases DEF PlaceOK
<1> QED BY <1>1, <1>2, <1>3 DEF Proceeds, Fails

LEMMA MeterTypes ==
  ASSUME CalibrationIInv
  PROVE  /\ attempts \in Nat /\ attempts <= 1 + Retries
         /\ meter.dispatched \in Nat /\ meter.reserved \in Nat
         /\ meter.answered \in Nat /\ meter.attempts \in Nat
         /\ meter.cost \in Nat /\ meter.answered <= meter.attempts
         /\ Open = IF attempts > 0 THEN 1 ELSE 0
         /\ meter.answered + Open <= meter.dispatched
<1>1. attempts \in Nat /\ attempts <= 1 + Retries
  BY CalibrationAssumption DEF CalibrationIInv, RunInCourse
<1> QED BY <1>1 DEF CalibrationIInv, MeterAddsUp, Open

\* The course after a call that is over.
LEMMA CourseGoesOn ==
  ASSUME CalibrationIInv, pc = "running",
         Proceeds \/ \E kind \in {"value", "runtime", "transport"} : Fails(kind),
         meter'.dispatched = meter.dispatched
  PROVE  RunInCourse' /\ attempts' = 0 /\ Open' = 0
<1>1. PlaceOK
  BY DEF CalibrationIInv, RunInCourse
<1>2. /\ attempts' = 0 /\ PlaceOK'
      /\ pc' \in {"running", "archiving", "invalidated"}
      /\ pc' = "running" => Here + 1 <= Here'
  BY <1>1, CallEnds
<1>3. Open' = 0
  BY <1>2 DEF Open
<1>4. /\ meter.dispatched <= MaxCalls /\ meter.dispatched <= Here + Open
      /\ meter.dispatched \in Nat /\ Open \in 0 .. 1
  BY MeterTypes DEF CalibrationIInv, RunInCourse
<1>5. Here \in Nat /\ (PlaceOK' => Here' \in Nat)
  <2>1. Here \in Nat
    BY <1>1, CourseFits
  <2>2. ASSUME PlaceOK' PROVE Here' \in Nat
    BY <2>2, CourseInRange DEF Here, PlaceOK
  <2> QED BY <2>1, <2>2
<1>6. pc' = "running" => meter'.dispatched <= Here' + Open'
  BY <1>2, <1>3, <1>4, <1>5
<1>7. attempts' \in 0 .. 1 + Retries
  BY <1>2, CalibrationAssumption
<1>8. MaxCalls' = MaxCalls
  BY DEF MaxCalls, CallsPerPosition
<1> QED BY <1>2, <1>3, <1>4, <1>6, <1>7, <1>8 DEF RunInCourse

\* An attempt that is lost with its call, or answered without a price, is one
\* of those the meter leaves unaccounted.
LEMMA BillOfLostCall ==
  ASSUME CalibrationIInv, Asking, NEW bill \in 0 .. AttemptCost,
         billed' = billed + bill, issued' = issued, meter' = meter,
         attempts' = 0, Open' = 0
  PROVE  BillFollows'
<1> USE CalibrationAssumption
<1> DEFINE d == meter.dispatched  a == meter.answered  m == meter.attempts
           R == 1 + Retries
<1>1. /\ d \in Nat /\ a \in Nat /\ m \in Nat /\ R \in Nat
      /\ attempts \in 1 .. R /\ Open = 1 /\ a + 1 <= d
  BY MeterTypes DEF Asking
<1>2. R * (d - 1) \in Nat /\ R * d = R * (d - 1) + R
  BY <1>1
<1>3. R * (d - a - 1) \in Nat /\ R * (d - a) = R * (d - a - 1) + R
  BY <1>1
<1>4. BillFollows
  BY DEF CalibrationIInv
<1>5. issued' <= R * (d - 0) + 0
  BY <1>1, <1>2, <1>4 DEF BillFollows
<1>6. Unaccounted = (m - a) + R * (d - a - 1) + (attempts - 1)
  BY <1>1 DEF Unaccounted
<1>7. Unaccounted' = (m - a) + R * (d - a - 0) + (0 - 0)
  BY DEF Unaccounted
<1> HIDE DEF d, a, m, R
<1>8. Unaccounted \in Int /\ Unaccounted' \in Int /\ Unaccounted + 1 <= Unaccounted'
  BY <1>1, <1>3, <1>6, <1>7
<1>9. AttemptCost * (Unaccounted + 1) <= AttemptCost * Unaccounted'
  <2>1. AttemptCost \in Nat /\ Unaccounted + 1 \in Int
    BY <1>8
  <2> QED BY ONLY <1>8, <2>1, TimesGrows
<1>10. AttemptCost * (Unaccounted + 1) = AttemptCost * Unaccounted + AttemptCost
       /\ AttemptCost * Unaccounted \in Int /\ AttemptCost * Unaccounted' \in Int
  BY <1>8
<1>11. billed' <= meter'.cost + AttemptCost * Unaccounted'
  BY <1>4, <1>9, <1>10, MeterTypes DEF BillFollows
<1>12. billed' \in Nat /\ issued' \in Nat
  BY <1>4 DEF BillFollows
<1>13. issued' <= (1 + Retries) * (meter'.dispatched - Open') + attempts'
  BY <1>5 DEF d, R
<1> QED BY <1>11, <1>12, <1>13 DEF BillFollows

LEMMA Refusals == CalibrationIInv /\ RefuseCall => CalibrationIInv'
<1> SUFFICES ASSUME CalibrationIInv, RefuseCall PROVE CalibrationIInv'
  OBVIOUS
<1>1. Shortage = {} /\ Fails("value") /\ attempts = 0 /\ pc = "running"
      /\ UNCHANGED <<meter, spent, issued, billed>>
      /\ exhausted' = exhausted \cup Shortage
  BY RoomForACall DEF RefuseCall, Ready
<1>2. RunInCourse' /\ attempts' = 0 /\ Open' = 0 /\ Open = 0
  BY <1>1, CourseGoesOn DEF Open
<1>3. MeterAddsUp'
  BY <1>1, <1>2 DEF CalibrationIInv, MeterAddsUp, CallCost
<1>4. BillFollows'
  BY <1>1, <1>2 DEF CalibrationIInv, BillFollows, Unaccounted
<1> QED BY <1>1, <1>2, <1>3, <1>4 DEF CalibrationIInv

LEMMA Asks == CalibrationIInv /\ Ask => CalibrationIInv'
<1> SUFFICES ASSUME CalibrationIInv, Ask PROVE CalibrationIInv'
  OBVIOUS
<1> USE CalibrationAssumption
<1> DEFINE d == meter.dispatched  a == meter.answered  R == 1 + Retries
<1>1. /\ pc = "running" /\ attempts = 0 /\ Open = 0
      /\ d \in Nat /\ a \in Nat /\ a <= d /\ d + 1 <= MaxCalls
  BY MeterTypes, RoomForACall DEF Ask, Ready
<1>2. /\ attempts' = 1 /\ issued' = issued + 1
      /\ UNCHANGED <<pc, place, exhausted, spent, billed>>
  <2>1. Ready
    BY DEF Ask
  <2>2. PICK estimate \in 0 .. AttemptCost :
          IF OverCeiling(estimate)
          THEN /\ exhausted' = exhausted \cup {"guard"}
               /\ Fails("runtime") /\ UNCHANGED issued
          ELSE /\ attempts' = 1 /\ issued' = issued + 1
               /\ UNCHANGED <<pc, place, exhausted>>
    BY DEF Ask
  <2>3. spent + estimate <= HardCeiling
    BY <2>1, RoomForACall
  <2>4. spent + estimate \in Int /\ HardCeiling \in Int
    <3>1. spent \in Nat
      BY DEF CalibrationIInv, MeterAddsUp
    <3> QED BY <3>1, BudgetTerms
  <2>5. ~OverCeiling(estimate)
    BY ONLY <2>3, <2>4 DEF OverCeiling
  <2>6. UNCHANGED <<spent, billed>>
    BY DEF Ask
  <2> QED BY ONLY <2>2, <2>5, <2>6
<1>3. meter' = [meter EXCEPT !.dispatched = @ + 1, !.reserved = @ + CallCost]
  BY DEF Ask, Reserved
<1>4. MeterAddsUp
  BY DEF CalibrationIInv
<1>5. /\ meter'.dispatched = d + 1 /\ meter'.reserved = meter.reserved + CallCost
      /\ meter'.answered = a /\ meter'.attempts = meter.attempts
      /\ meter'.cost = meter.cost
  BY <1>3, <1>4 DEF MeterAddsUp
<1>6. Open' = 1
  BY <1>2 DEF Open
<1>7. RunInCourse'
  <2>1. PlaceOK' /\ Here' = Here /\ MaxCalls' = MaxCalls
    BY <1>2 DEF CalibrationIInv, RunInCourse, PlaceOK, place, Here, MaxCalls,
                CallsPerPosition
  <2>2. Here \in Nat /\ d <= Here + 0
    BY <1>1, CourseFits DEF CalibrationIInv, RunInCourse
  <2> QED BY <1>1, <1>2, <1>5, <1>6, <2>1, <2>2 DEF RunInCourse
<1>8. MeterAddsUp'
  <2>1. CallCost \in Nat /\ CallCost' = CallCost
    BY DEF CallCost
  <2>2. CallCost * (d + 1) = CallCost * d + CallCost
    BY <1>1, <2>1
  <2>3. meter'.reserved = CallCost * meter'.dispatched
    BY <1>4, <1>5, <2>2 DEF MeterAddsUp
  <2>4. meter' \in [dispatched : Nat, reserved : Nat,
                    answered : Nat, attempts : Nat, cost : Nat]
    <3>1. meter \in [dispatched : Nat, reserved : Nat,
                     answered : Nat, attempts : Nat, cost : Nat]
      BY ONLY <1>4 DEF MeterAddsUp
    <3>2. meter.dispatched + 1 \in Nat /\ meter.reserved + CallCost \in Nat
      BY ONLY <3>1, <2>1
    <3> QED BY ONLY <1>3, <3>1, <3>2
  <2>5. a + 1 <= d + 1
    BY <1>1
  <2> QED BY <1>2, <1>4, <1>5, <1>6, <2>1, <2>3, <2>4, <2>5 DEF MeterAddsUp
<1>9. BillFollows'
  <2>1. BillFollows
    BY DEF CalibrationIInv
  <2>2. issued' <= R * (d + 1 - 1) + 1
    BY <1>1, <1>2, <2>1 DEF BillFollows
  <2>3. Unaccounted' = Unaccounted
    <3>1. Unaccounted = (meter.attempts - a) + R * (d - a - 0) + (0 - 0)
      BY <1>1 DEF Unaccounted
    <3>2. /\ meter'.attempts - meter'.answered = meter.attempts - a
          /\ meter'.dispatched - meter'.answered - Open' = d + 1 - a - 1
          /\ attempts' - Open' = 1 - 1
      <4>1. attempts' = 1 /\ Open' = 1
        BY <1>2, <1>6
      <4>2. meter'.attempts - meter'.answered = meter.attempts - a
        BY ONLY <1>5
      <4>3. meter'.dispatched - meter'.answered - Open' = d + 1 - a - 1
        BY ONLY <1>1, <1>5, <4>1
      <4> QED BY ONLY <4>1, <4>2, <4>3
    <3>3. Unaccounted' = (meter.attempts - a) + R * (d + 1 - a - 1) + (1 - 1)
      BY ONLY <3>2 DEF Unaccounted
    <3>4. d - a - 0 = d + 1 - a - 1 /\ 1 - 1 = 0 - 0
      BY <1>1
    <3> QED BY ONLY <3>1, <3>3, <3>4
  <2>4. issued' \in Nat /\ billed' \in Nat
    BY <1>2, <2>1 DEF BillFollows
  <2>5. issued' <= (1 + Retries) * (meter'.dispatched - Open') + attempts'
    <3>1. /\ attempts' = 1 /\ Open' = 1 /\ meter'.dispatched = d + 1
          /\ issued' <= R * (d + 1 - 1) + 1
      BY <1>2, <1>5, <1>6, <2>2
    <3> QED BY ONLY <1>1, <3>1
  <2>6. billed' <= meter'.cost + AttemptCost * Unaccounted'
    <3>1. billed <= meter.cost + AttemptCost * Unaccounted
      BY ONLY <2>1 DEF BillFollows
    <3>2. billed' = billed /\ meter'.cost = meter.cost
      BY ONLY <1>2, <1>5
    <3> QED BY ONLY <2>3, <3>1, <3>2
  <2> QED BY ONLY <2>4, <2>5, <2>6 DEF BillFollows
<1> QED BY <1>2, <1>7, <1>8, <1>9 DEF CalibrationIInv

\* What the calls that change nothing but the course leave of the meter.
LEMMA MeterStands ==
  ASSUME CalibrationIInv, Asking, UNCHANGED <<meter, spent>>, Open' \in 0 .. 1,
         attempts' \in 0 .. 1 + Retries
  PROVE  MeterAddsUp'
<1>1. MeterAddsUp /\ CallCost' = CallCost
  BY DEF CalibrationIInv, CallCost
<1>2. meter.answered + Open <= meter.dispatched /\ Open = 1
      /\ meter.answered \in Nat /\ meter.dispatched \in Nat
  BY MeterTypes, CalibrationAssumption DEF Asking
<1>3. meter'.answered + Open' <= meter'.dispatched
  BY <1>2
<1> QED BY <1>1, <1>3 DEF MeterAddsUp

LEMMA Losses == CalibrationIInv /\ LoseAnswer => CalibrationIInv'
<1> SUFFICES ASSUME CalibrationIInv, LoseAnswer PROVE CalibrationIInv'
  OBVIOUS
<1> USE CalibrationAssumption
<1>1. PICK bill \in 0 .. AttemptCost : billed' = billed + bill
  BY DEF LoseAnswer
<1>2. Asking /\ UNCHANGED <<meter, spent, exhausted>>
  BY DEF LoseAnswer
<1>3. /\ attempts \in 1 .. 1 + Retries /\ Open = 1 /\ pc = "running"
  BY <1>2, MeterTypes DEF Asking
<1>4. CASE /\ attempts <= Retries /\ attempts' = attempts + 1
           /\ issued' = issued + 1 /\ UNCHANGED <<pc, place>>
  <2>1. attempts' \in 1 .. 1 + Retries /\ Open' = 1
    BY <1>3, <1>4 DEF Open
  <2>2. RunInCourse'
    <3>1. PlaceOK' /\ Here' = Here /\ MaxCalls' = MaxCalls
      BY <1>4 DEF CalibrationIInv, RunInCourse, PlaceOK, place, Here, MaxCalls,
                  CallsPerPosition
    <3> QED BY <1>2, <1>3, <1>4, <2>1, <3>1 DEF CalibrationIInv, RunInCourse
  <2>3. MeterAddsUp'
    BY <1>2, <2>1, MeterStands
  <2>4. BillFollows'
    <3>1. BillFollows
      BY DEF CalibrationIInv
    <3>2. Unaccounted' = Unaccounted + 1 /\ Unaccounted \in Int
      <4> DEFINE closed == (meter.attempts - meter.answered)
                   + (1 + Retries) * (meter.dispatched - meter.answered - 1)
      <4>1. closed \in Int
        BY MeterTypes
      <4>2. Unaccounted = closed + (attempts - 1)
        BY <1>3 DEF Unaccounted
      <4>3. Unaccounted' = closed + (attempts + 1 - 1)
        <5>1. /\ meter'.attempts - meter'.answered = meter.attempts - meter.answered
              /\ meter'.dispatched - meter'.answered - Open'
                   = meter.dispatched - meter.answered - 1
              /\ attempts' - Open' = attempts + 1 - 1
          <6>1. meter' = meter /\ attempts' = attempts + 1 /\ Open' = 1
            BY <1>2, <1>4, <2>1
          <6>2. attempts \in Int
            BY <1>3
          <6>3. attempts' - Open' = attempts + 1 - 1
            BY ONLY <6>1, <6>2
          <6>4. meter'.dispatched - meter'.answered - Open'
                  = meter.dispatched - meter.answered - 1
            BY ONLY <6>1
          <6>5. meter'.attempts - meter'.answered = meter.attempts - meter.answered
            BY ONLY <6>1
          <6> QED BY ONLY <6>3, <6>4, <6>5
        <5> QED BY ONLY <5>1 DEF Unaccounted
      <4> HIDE DEF closed
      <4> QED BY <1>3, <4>1, <4>2, <4>3
    <3>3. /\ AttemptCost * (Unaccounted + 1) = AttemptCost * Unaccounted + AttemptCost
          /\ AttemptCost * Unaccounted \in Int
      BY <3>2
    <3>4. billed \in Nat /\ bill \in 0 .. AttemptCost /\ meter.cost \in Nat
          /\ billed <= meter.cost + AttemptCost * Unaccounted
      BY <3>1, MeterTypes DEF BillFollows
    <3>5. billed' <= meter'.cost + AttemptCost * Unaccounted'
      <4>1. billed + bill <= meter.cost + (AttemptCost * Unaccounted + AttemptCost)
        BY <3>3, <3>4
      <4>2. /\ billed' = billed + bill /\ meter'.cost = meter.cost
            /\ AttemptCost * Unaccounted' = AttemptCost * Unaccounted + AttemptCost
        BY <1>1, <1>2, <3>2, <3>3
      <4> QED BY ONLY <4>1, <4>2
    <3>6. issued' <= (1 + Retries) * (meter'.dispatched - Open') + attempts'
      <4> DEFINE closed == (1 + Retries) * (meter.dispatched - 1)
      <4>1. issued \in Nat /\ issued <= closed + attempts
        BY <1>3, <3>1 DEF BillFollows
      <4>2. closed \in Int
        BY MeterTypes
      <4>3. (1 + Retries) * (meter'.dispatched - Open') = closed
        BY <1>2, <2>1
      <4>4. issued + 1 <= closed + (attempts + 1)
        <5> HIDE DEF closed
        <5> QED BY <1>3, <4>1, <4>2
      <4> QED BY ONLY <1>4, <4>3, <4>4
    <3>7. billed' \in Nat /\ issued' \in Nat
      BY <1>1, <1>4, <3>1 DEF BillFollows
    <3> QED BY ONLY <3>5, <3>6, <3>7 DEF BillFollows
  <2> QED BY <1>2, <2>2, <2>3, <2>4 DEF CalibrationIInv
<1>5. CASE Fails("transport") /\ issued' = issued
  <2>1. RunInCourse' /\ attempts' = 0 /\ Open' = 0
    BY <1>2, <1>3, <1>5, CourseGoesOn
  <2>2. MeterAddsUp'
    BY <1>2, <2>1, MeterStands
  <2>3. BillFollows'
    BY <1>1, <1>2, <1>5, <2>1, BillOfLostCall
  <2> QED BY <1>2, <2>1, <2>2, <2>3 DEF CalibrationIInv
<1> QED BY <1>4, <1>5 DEF LoseAnswer

LEMMA Unpriced == CalibrationIInv /\ AnswerUnpriced => CalibrationIInv'
<1> SUFFICES ASSUME CalibrationIInv, AnswerUnpriced PROVE CalibrationIInv'
  OBVIOUS
<1>1. PICK bill \in 0 .. AttemptCost : billed' = billed + bill
  BY DEF AnswerUnpriced
<1>2. /\ Asking /\ pc = "running" /\ Fails("runtime")
      /\ UNCHANGED <<meter, spent, exhausted, issued>>
  BY DEF AnswerUnpriced, Asking
<1>3. RunInCourse' /\ attempts' = 0 /\ Open' = 0
  BY <1>2, CourseGoesOn
<1>4. MeterAddsUp'
  BY <1>2, <1>3, MeterStands, CalibrationAssumption
<1>5. BillFollows'
  BY <1>1, <1>2, <1>3, BillOfLostCall
<1> QED BY <1>2, <1>3, <1>4, <1>5 DEF CalibrationIInv

\* The attempts of a call that is answered are counted, and its cost.
LEMMA Answers == CalibrationIInv /\ Answer => CalibrationIInv'
<1> SUFFICES ASSUME CalibrationIInv, Answer PROVE CalibrationIInv'
  OBVIOUS
<1> USE CalibrationAssumption
<1> DEFINE d == meter.dispatched  a == meter.answered  m == meter.attempts
           R == 1 + Retries
<1>1. Asking /\ UNCHANGED issued
  BY DEF Answer
<1>2. PICK bill \in 0 .. AttemptCost :
        billed' = billed + bill /\ spent' = spent + bill /\ meter' = Observed(bill)
  BY DEF Answer
<1>3. MeterAddsUp /\ BillFollows
  BY DEF CalibrationIInv
<1>4. /\ d \in Nat /\ a \in Nat /\ m \in Nat /\ meter.cost \in Nat /\ a <= m
      /\ R \in Nat /\ attempts \in 1 .. R /\ Open = 1 /\ a + 1 <= d
      /\ pc = "running"
  BY <1>1, MeterTypes DEF Asking
<1>5. /\ meter'.dispatched = d /\ meter'.reserved = meter.reserved
      /\ meter'.answered = a + 1 /\ meter'.attempts = m + attempts
      /\ meter'.cost = meter.cost + bill
      /\ meter' \in [dispatched : Nat, reserved : Nat,
                     answered : Nat, attempts : Nat, cost : Nat]
  <2>1. meter \in [dispatched : Nat, reserved : Nat,
                   answered : Nat, attempts : Nat, cost : Nat]
    BY ONLY <1>3 DEF MeterAddsUp
  <2>2. /\ meter.answered + 1 \in Nat /\ meter.attempts + attempts \in Nat
        /\ meter.cost + bill \in Nat
    BY <1>4
  <2>3. meter' = [meter EXCEPT !.answered = @ + 1, !.attempts = @ + attempts,
                               !.cost = @ + bill]
    BY ONLY <1>2 DEF Observed
  <2> QED BY ONLY <2>1, <2>2, <2>3
<1>6. Proceeds /\ UNCHANGED exhausted
  <2>1. m + attempts <= MaxAttempts /\ meter.cost + bill <= HardCeiling
    BY <1>1, RoomForAnAnswer
  <2>2. MaxAttempts \in Int /\ HardCeiling \in Int
    BY BudgetTerms
  <2>3. ~(meter'.attempts > MaxAttempts \/ meter'.cost > HardCeiling)
    BY <1>4, <1>5, <2>1, <2>2
  <2> QED BY <2>3 DEF Answer
<1>7. RunInCourse' /\ attempts' = 0 /\ Open' = 0
  BY <1>4, <1>5, <1>6, CourseGoesOn
<1>8. MeterAddsUp'
  <2>1. CallCost' = CallCost
    BY DEF CallCost
  <2>2. meter'.reserved = CallCost * meter'.dispatched
    BY ONLY <1>3, <1>5 DEF MeterAddsUp
  <2>3. m <= R * a /\ meter.cost <= AttemptCost * a /\ spent = meter.cost
    BY <1>3 DEF MeterAddsUp
  <2>4. /\ R * (a + 1) = R * a + R /\ R * a \in Nat
        /\ AttemptCost * (a + 1) = AttemptCost * a + AttemptCost
        /\ AttemptCost * a \in Nat
    <3>1. AttemptCost \in Nat
      OBVIOUS
    <3> HIDE DEF R, a
    <3> QED BY ONLY <1>4, <3>1, OneMore
  <2> HIDE DEF d, a, m, R
  <2>5. m + attempts <= R * (a + 1)
    BY <1>4, <2>3, <2>4
  <2>6. meter.cost + bill <= AttemptCost * (a + 1)
    BY <1>4, <2>3, <2>4
  <2>7. meter'.attempts <= (1 + Retries) * meter'.answered
    BY ONLY <1>5, <2>5 DEF R
  <2>8. meter'.cost <= AttemptCost * meter'.answered
    BY ONLY <1>5, <2>6
  <2>9. a + 1 <= m + attempts /\ a + 1 + 0 <= d
    BY <1>4
  <2>10. /\ meter'.answered + Open' <= meter'.dispatched
         /\ meter'.answered <= meter'.attempts
    BY ONLY <1>5, <1>7, <2>9
  <2>11. spent' = meter'.cost
    BY <1>2, <1>5, <2>3
  <2> QED BY ONLY <1>5, <2>1, <2>2, <2>7, <2>8, <2>10, <2>11 DEF MeterAddsUp
<1>9. BillFollows'
  <2>1. Unaccounted' = Unaccounted
    <3>1. Unaccounted = (m - a) + R * (d - a - 1) + (attempts - 1)
      BY <1>4 DEF Unaccounted
    <3>2. Unaccounted' = (m + attempts - (a + 1)) + R * (d - (a + 1) - 0) + (0 - 0)
      <4>1. /\ meter'.attempts - meter'.answered = m + attempts - (a + 1)
            /\ meter'.dispatched - meter'.answered - Open' = d - (a + 1) - 0
            /\ attempts' - Open' = 0 - 0
        BY ONLY <1>4, <1>5, <1>7
      <4> QED BY ONLY <4>1 DEF Unaccounted
    <3>3. d - (a + 1) - 0 = d - a - 1
      BY <1>4
    <3>4. R * (d - a - 1) \in Int
      BY <1>4
    <3> DEFINE missing == R * (d - a - 1)
    <3>5. (m - a) + missing + (attempts - 1)
            = (m + attempts - (a + 1)) + missing + (0 - 0)
      <4>1. missing \in Int
        BY <3>4
      <4> HIDE DEF missing, d, a, m, R
      <4> QED BY <1>4, <4>1
    <3> QED BY ONLY <3>1, <3>2, <3>3, <3>5
  <2>2. Unaccounted \in Int
    BY <1>4 DEF Unaccounted
  <2>3. billed' \in Nat /\ issued' \in Nat
    BY <1>1, <1>2, <1>3 DEF BillFollows
  <2>4. billed + bill <= meter.cost + bill + AttemptCost * Unaccounted
    <3>1. AttemptCost * Unaccounted \in Int
      BY <2>2
    <3> QED BY <1>3, <1>4, <3>1 DEF BillFollows
  <2>5. billed' <= meter'.cost + AttemptCost * Unaccounted'
    BY ONLY <1>2, <1>5, <2>1, <2>4
  <2>6. issued <= R * (d - 0) + 0
    <3>1. R * (d - 1) \in Nat /\ R * (d - 0) = R * (d - 1) + R
      <4>1. d - 1 \in Nat /\ d - 1 + 1 = d - 0
        BY <1>4
      <4> HIDE DEF R
      <4> QED BY ONLY <1>4, <4>1, OneMore
    <3>2. issued \in Nat /\ issued <= R * (d - 1) + attempts
      BY <1>3, <1>4 DEF BillFollows
    <3> DEFINE closed == R * (d - 1)  all == R * (d - 0)
    <3>3. closed \in Nat /\ all = closed + R /\ issued <= closed + attempts
      BY <3>1, <3>2
    <3> HIDE DEF closed, all, R
    <3>4. issued <= all
      BY <1>4, <3>2, <3>3
    <3>5. all + 0 = all
      BY <1>4, <3>3
    <3> QED BY ONLY <3>4, <3>5 DEF all
  <2>7. issued' <= (1 + Retries) * (meter'.dispatched - Open') + attempts'
    BY ONLY <1>1, <1>5, <1>7, <2>6
  <2> QED BY ONLY <2>3, <2>5, <2>7 DEF BillFollows
<1> QED BY <1>6, <1>7, <1>8, <1>9 DEF CalibrationIInv

LEMMA CalibrationEnds ==
  CalibrationIInv /\ (Archive \/ Break \/ UNCHANGED calibrationVars)
    => CalibrationIInv'
<1> SUFFICES ASSUME CalibrationIInv,
                    Archive \/ Break \/ UNCHANGED calibrationVars
             PROVE  CalibrationIInv'
  OBVIOUS
<1>1. /\ UNCHANGED <<place, attempts, meter, spent, exhausted, issued, billed>>
      /\ \/ pc' = pc
         \/ pc' \in {"completed", "invalidated"} /\ attempts = 0
  <2>1. pc = "archiving" => attempts = 0
    BY CalibrationAssumption DEF CalibrationIInv, RunInCourse
  <2> QED BY <2>1 DEF Archive, Break, Ready, calibrationVars
<1>2. /\ Open' = Open /\ PlaceOK' = PlaceOK /\ Here' = Here
      /\ MaxCalls' = MaxCalls /\ CallCost' = CallCost
      /\ Unaccounted' = Unaccounted
  BY <1>1 DEF Open, PlaceOK, Here, MaxCalls, CallsPerPosition, CallCost,
              Unaccounted, place
<1>3. RunInCourse'
  BY <1>1, <1>2, CalibrationAssumption DEF CalibrationIInv, RunInCourse
<1>4. MeterAddsUp' /\ BillFollows'
  BY <1>1, <1>2 DEF CalibrationIInv, MeterAddsUp, BillFollows
<1> QED BY <1>1, <1>3, <1>4 DEF CalibrationIInv

THEOREM CalibrationInvariant == CalibrationSpec => []CalibrationIInv
<1>1. CalibrationInit => CalibrationIInv
  BY CalibrationStarts
<1>2. CalibrationIInv /\ [CalibrationNext]_calibrationVars => CalibrationIInv'
  BY Refusals, Asks, Losses, Answers, Unpriced, CalibrationEnds
     DEF CalibrationNext
<1> QED BY <1>1, <1>2, PTL DEF CalibrationSpec

\* An answer, the attempts lost before it and the calls never answered cost
\* no more than the calls that were taken down have reserved.
LEMMA WorstBillIsReserved ==
  ASSUME NEW r \in Nat, NEW k \in Nat, NEW d \in Nat, NEW a \in Nat,
         NEW m \in Nat, NEW c \in Nat,
         a <= d, a <= m, m <= r * a, c <= k * a
  PROVE  c + k * ((m - a) + (d - a) * r) <= (r * k) * d
<1>1. /\ r * a \in Nat /\ r * d \in Nat /\ k * a \in Nat
      /\ (d - a) * r = r * d - r * a
  OBVIOUS
<1> DEFINE ra == r * a  rd == r * d  lost == (m - a) + (d - a) * r
<1>2. lost \in Int /\ lost + a <= rd
  <2>1. lost = (m - a) + (rd - ra) /\ m <= ra /\ ra \in Nat /\ rd \in Nat
    BY <1>1
  <2> HIDE DEF ra, rd, lost
  <2> QED BY <2>1
<1>3. k * (lost + a) <= k * rd
  <2>1. lost + a \in Int /\ rd \in Int
    BY <1>1, <1>2
  <2> HIDE DEF ra, rd, lost
  <2> QED BY <1>2, <2>1, TimesGrows
<1>4. k * (lost + a) = k * lost + k * a /\ k * lost \in Int
  <2> HIDE DEF lost
  <2> QED BY <1>2
<1>5. k * rd = (r * k) * d /\ k * rd \in Int
  OBVIOUS
<1>6. c + k * lost <= k * rd
  <2> DEFINE kl == k * lost  ka == k * a  all == k * rd
  <2>1. /\ kl \in Int /\ ka \in Int /\ all \in Int
        /\ c <= ka /\ kl + ka <= all
    BY <1>1, <1>3, <1>4, <1>5
  <2> HIDE DEF kl, ka, all
  <2>2. c + kl <= all
    BY <2>1
  <2> QED BY <2>2 DEF kl, all
<1> QED BY ONLY <1>5, <1>6 DEF lost

LEMMA InvariantBillsAreReserved == CalibrationIInv => BillsAreReserved
<1> SUFFICES ASSUME CalibrationIInv PROVE BillsAreReserved
  OBVIOUS
<1> USE CalibrationAssumption
<1> DEFINE d == meter.dispatched  a == meter.answered  m == meter.attempts
           R == 1 + Retries  lost == (m - a) + (d - a) * R
<1>1. /\ d \in Nat /\ a \in Nat /\ m \in Nat /\ meter.cost \in Nat
      /\ R \in Nat /\ AttemptCost \in Nat /\ a <= d /\ a <= m
      /\ attempts \in Nat /\ attempts <= R /\ Open \in 0 .. 1
      /\ Open = 0 => attempts = 0
  BY MeterTypes
<1>2. MeterAddsUp /\ BillFollows /\ d <= MaxCalls
  BY DEF CalibrationIInv, RunInCourse
<1>3. WorstBill = meter.cost + AttemptCost * lost
  BY DEF WorstBill
<1>4. billed <= WorstBill
  <2>1. Unaccounted \in Int /\ lost \in Int /\ Unaccounted <= lost
    <3>1. CASE Open = 0
      <4>1. Unaccounted = (m - a) + R * (d - a - 0) + (0 - 0)
        <5>1. attempts = 0
          BY <1>1, <3>1
        <5> QED BY <3>1, <5>1 DEF Unaccounted
      <4>2. R * (d - a - 0) = (d - a) * R /\ (d - a) * R \in Int
        BY <1>1
      <4>3. Unaccounted = lost /\ lost \in Int
        <5> DEFINE rest == (d - a) * R
        <5>1. /\ Unaccounted = (m - a) + rest + (0 - 0) /\ lost = (m - a) + rest
              /\ rest \in Int /\ m - a \in Int
          BY <1>1, <4>1, <4>2
        <5> HIDE DEF rest, lost
        <5> QED BY <5>1
      <4> HIDE DEF lost
      <4> QED BY <4>3
    <3>2. CASE Open = 1
      <4>1. Unaccounted = (m - a) + R * (d - a - 1) + (attempts - 1)
        BY <3>2 DEF Unaccounted
      <4>2. /\ (d - a) * R = R * (d - a - 1) + R
            /\ R * (d - a - 1) \in Int
        BY <1>1
      <4> DEFINE rest == R * (d - a - 1)
      <4>3. /\ Unaccounted = (m - a) + rest + (attempts - 1) /\ rest \in Int
            /\ lost = (m - a) + (rest + R)
        BY <4>1, <4>2
      <4> HIDE DEF rest, lost, R, m, a, d
      <4> QED BY <1>1, <4>3
    <3> QED BY <1>1, <3>1, <3>2
  <2> HIDE DEF lost
  <2>2. AttemptCost * Unaccounted <= AttemptCost * lost
    BY ONLY <1>1, <2>1, TimesGrows
  <2>3. AttemptCost * Unaccounted \in Int /\ AttemptCost * lost \in Int
    BY <2>1
  <2> QED BY <1>1, <1>2, <1>3, <2>2, <2>3 DEF BillFollows
<1>5. WorstBill <= meter.reserved
  <2>1. m <= R * a /\ meter.cost <= AttemptCost * a /\ meter.reserved = CallCost * d
    BY <1>2 DEF MeterAddsUp
  <2>2. CallCost = R * AttemptCost
    BY DEF CallCost
  <2> HIDE DEF R, m, a, d, lost
  <2>3. meter.cost + AttemptCost * ((m - a) + (d - a) * R) <= (R * AttemptCost) * d
    BY ONLY <1>1, <2>1, WorstBillIsReserved
  <2> QED BY ONLY <1>3, <2>1, <2>2, <2>3 DEF lost
<1>6. meter.reserved <= HardCeiling
  <2>1. meter.reserved = CallCost * d
    BY <1>2 DEF MeterAddsUp
  <2>2. CallCost * d <= CallCost * MaxCalls
    BY ONLY <1>1, <1>2, BudgetTerms, TimesGrows
  <2> QED BY ONLY <2>1, <2>2, BudgetTerms
<1>7. issued <= MaxAttempts
  <2>1. issued <= R * (d - Open) + attempts /\ issued \in Nat
    BY <1>2 DEF BillFollows
  <2>2. R * (d - Open) + attempts <= R * d
    <3>1. CASE Open = 0
      <4>1. attempts = 0
        BY <1>1, <3>1
      <4> QED BY <1>1, <3>1, <4>1
    <3>2. CASE Open = 1
      <4> DEFINE rest == R * (d - 1)
      <4>1. rest \in Int /\ R * d = rest + R /\ R * (d - Open) = rest
        BY <1>1, <3>2
      <4> HIDE DEF rest, R
      <4> QED BY <1>1, <4>1
    <3> QED BY <1>1, <3>1, <3>2
  <2> DEFINE sent == R * (d - Open) + attempts  most == R * d
             allowed == R * MaxCalls
  <2>3. sent \in Int /\ most \in Int /\ allowed \in Int
    BY <1>1, BudgetTerms
  <2>4. most <= allowed
    <3> HIDE DEF R
    <3> QED BY <1>1, <1>2, BudgetTerms, TimesGrows
  <2>5. issued <= sent /\ sent <= most
    BY <2>1, <2>2
  <2> HIDE DEF sent, most, allowed, R
  <2>6. issued <= allowed
    BY <2>1, <2>3, <2>4, <2>5
  <2> QED BY ONLY <2>6, BudgetTerms DEF allowed, R
<1> QED BY <1>4, <1>5, <1>6, <1>7 DEF BillsAreReserved

-------------------------------------------------------------------------------
(* The results. *)

\* What the provider bills is within what the archive lets one compute, that
\* within what MeteredClient.chat reserved and that within the ceiling of the
\* authorization, for any number of retries and any losses.
THEOREM CalibrationBills == CalibrationSpec => []BillsAreReserved
BY CalibrationInvariant, InvariantBillsAreReserved, PTL

\* The budget _budget makes from the schedule is enough for every course of a
\* run: neither the meter nor the guard refuses a call for want of it.
THEOREM CalibrationSuffices == CalibrationSpec => []NeverStarved
<1>1. CalibrationIInv => NeverStarved
  BY DEF CalibrationIInv, NeverStarved
<1> QED BY <1>1, CalibrationInvariant, PTL

===============================================================================
