------------------------------- MODULE ArmProofs --------------------------------
(***************************************************************************)
(* Proofs about the arms, for any number of tasks, any horizon, capacity   *)
(* and window.  ReflexionArms: no contract check fails in a seed, and the  *)
(* filter holds back the injected root and nothing else.  ArmEvidence: the *)
(* record of a unit's trials reconstructs, its registered durations miss   *)
(* nothing, and contamination lives in the memory alone.                   *)
(***************************************************************************)
EXTENDS ReflexionArms, ArmEvidence, FiniteSetTheorems, SequenceTheorems, TLAPS

-------------------------------------------------------------------------------
(* ReflexionArms: the inductive invariant. *)

\* The memory of the prefix is made of the last entries it wrote.
Recent(n) == {e \in 1 .. n : n - e < Capacity}

Writers == {"reflexion_reflector", "protocol_injector"}

Cards ==
  [parents : SUBSET Nat, trial : Nat, order : Nat, writer : Writers]

Running == phase \in {"prefix", "suffix"}

Shapes ==
  /\ phase \in {"prefix", "partition", "suffix", "blocked", "done"}
  /\ arm \in {"prefix", "clean", "contam", "filter"}
  /\ root = 0 <=> phase \in {"prefix", "blocked"}
  /\ arm = "prefix" <=> phase \in {"prefix", "blocked", "partition"}
  /\ trial \in Nat \ {0}
  /\ attempt \in 0 .. MaxAttempts
  /\ ~ Running => attempt = 0
  /\ cards \in Seq(Cards)
  /\ checkpoints \in Seq([held : SUBSET Nat, written : Nat])
  /\ root \in 0 .. Len(cards)
  /\ phase = "partition" => Len(cards) = root
  /\ pending \subseteq 1 .. root
  /\ phase # "partition" => reflections \subseteq 1 .. Len(cards)
  /\ fault = NoFault

\* An entry a trial wrote names its trial, and the root apart its parents are
\* earlier by number and by order key.
WellWritten(e) ==
  /\ cards[e].writer = "reflexion_reflector" /\ cards[e].trial # 0
  /\ cards[e].parents \subseteq 1 .. e - 1
  /\ \A p \in cards[e].parents : p # root => cards[p].order < cards[e].order

\* What the next reflection will be ordered by is later than all there are.
NextOrder == OrderKey(trial, IF attempt = 0 THEN 1 ELSE attempt)

Written == (1 .. Len(cards)) \ {root}

CardsInOrder ==
  /\ \A e \in Written : WellWritten(e)
  /\ Running => \A e \in Written : cards[e].order < NextOrder

\* Entries up to n were written before the trial after the checkpoint i.
WrittenBy(n, i) == \A e \in 1 .. n : cards[e].order < OrderKey(i + 1, 1)

PrefixKeeps ==
  root = 0 =>
    /\ reflections = Recent(Len(cards))
    /\ trial = Len(checkpoints) + 1
    /\ \A i \in 1 .. Len(checkpoints) :
         /\ checkpoints[i].written <= Len(cards)
         /\ checkpoints[i].held = Recent(checkpoints[i].written)
         /\ WrittenBy(checkpoints[i].written, i)

\* A checkpoint that could be selected had lost nothing.
BaseIsWhole ==
  /\ base = 1 .. root - 1
  /\ root # 0 => WrittenBy(root - 1, Len(checkpoints))

FilterInStep ==
  /\ evidence = IF Filtering THEN Written ELSE 1 .. root - 1
  /\ active \subseteq vouched /\ vouched \subseteq evidence
  /\ IF Filtering THEN active \subseteq reflections
     ELSE vouched = evidence /\ active \subseteq base
  /\ quarantined \subseteq {root} \ {0}
  /\ \A e \in evidence : cards[e].parents \subseteq evidence

TrialInStep ==
  attempt > 0 => legacy = ReaderView /\ visible \subseteq legacy

ArmsIInv ==
  /\ Shapes /\ CardsInOrder /\ PrefixKeeps /\ BaseIsWhole
  /\ FilterInStep /\ TrialInStep

-------------------------------------------------------------------------------
(* Facts about memories. *)

\* What is left of a memory was part of it.
LEMMA NewestIsPart ==
  ASSUME NEW memory, NEW n
  PROVE  Newest(memory, n) \subseteq memory
BY DEF Newest

\* Appending to the last entries and dropping the oldest beyond the capacity
\* leaves the last entries.
LEMMA RecentGrows ==
  ASSUME NEW n \in Nat
  PROVE  LET grown == Recent(n) \cup {n + 1}
         IN grown \ (grown \ Newest(grown, Capacity)) = Recent(n + 1)
<1> USE ArmsAssumption DEF ArmsAssumption
<1> DEFINE grown == Recent(n) \cup {n + 1}
<1>1. grown \subseteq 1 .. n + 1
  BY DEF Recent
<1>2. \A e \in grown : {x \in grown : x > e} = (e + 1) .. (n + 1)
  BY DEF Recent
<1>3. \A e \in grown : Cardinality((e + 1) .. (n + 1)) = n + 1 - e
  <2> TAKE e \in grown
  <2>1. e \in Int /\ e <= n + 1
    BY <1>1
  <2>2. Cardinality((e + 1) .. (n + 1)) =
          IF e + 1 > n + 1 THEN 0 ELSE n + 1 - (e + 1) + 1
    BY <2>1, FS_Interval
  <2> QED BY <2>1, <2>2
<1>4. Newest(grown, Capacity) = {e \in grown : n + 1 - e < Capacity}
  BY <1>2, <1>3 DEF Newest
<1>5. Newest(grown, Capacity) = Recent(n + 1)
  BY <1>4 DEF Recent
<1>6. Newest(grown, Capacity) \subseteq grown
  BY NewestIsPart
<1> QED BY <1>5, <1>6

\* A prefix memory that is not full has never lost an entry.
LEMMA NotFullIsWhole ==
  ASSUME NEW n \in Nat, Cardinality(Recent(n)) \in 1 .. Capacity - 1
  PROVE  Recent(n) = 1 .. n
<1> USE ArmsAssumption DEF ArmsAssumption
<1>1. CASE n < Capacity
  BY <1>1 DEF Recent
<1>2. CASE n >= Capacity
  <2>1. Recent(n) = (n - Capacity + 1) .. n
    BY <1>2 DEF Recent
  <2>2. Cardinality((n - Capacity + 1) .. n) = Capacity
    BY FS_Interval, <1>2
  <2> QED BY <2>1, <2>2
<1> QED BY <1>1, <1>2

-------------------------------------------------------------------------------
(* The steps. *)

\* The type of a card.
LEMMA CardShape ==
  ASSUME NEW deck \in Seq(Cards), NEW e \in 1 .. Len(deck)
  PROVE  deck[e].order \in Nat /\ deck[e].parents \subseteq Nat
<1>1. deck[e] \in Cards
  OBVIOUS
<1> QED BY <1>1 DEF Cards

\* The invariant holds before the first trial.
LEMMA ArmsStart == ArmsInit => ArmsIInv
<1> SUFFICES ASSUME ArmsInit PROVE ArmsIInv
  OBVIOUS
<1> USE ArmsAssumption DEF ArmsAssumption, ArmsInit
<1>1. Shapes
  BY DEF Shapes, Running, NoFault
<1>2. CardsInOrder
  BY DEF CardsInOrder, Written
<1>3. PrefixKeeps
  BY DEF PrefixKeeps, Recent
<1>4. BaseIsWhole
  BY DEF BaseIsWhole
<1>5. FilterInStep
  BY DEF FilterInStep, Filtering
<1>6. TrialInStep
  BY DEF TrialInStep
<1> QED BY <1>1, <1>2, <1>3, <1>4, <1>5, <1>6 DEF ArmsIInv

\* What the reader of a running arm may see is held.
LEMMA ReaderSeesHeld ==
  ASSUME ArmsIInv PROVE ReaderView \subseteq reflections
BY DEF ArmsIInv, FilterInStep, ReaderView

\* What a running trial is shown has been written.
LEMMA ReaderSeesWritten ==
  ASSUME ArmsIInv, Running PROVE ReaderView \subseteq 1 .. Len(cards)
<1>1. reflections \subseteq 1 .. Len(cards)
  BY DEF ArmsIInv, Shapes, Running
<1> QED BY <1>1, ReaderSeesHeld

\* A trial begins with what the reader may see.
LEMMA BeginTrialKeeps == ArmsIInv /\ BeginTrial => ArmsIInv'
<1> SUFFICES ASSUME ArmsIInv, BeginTrial PROVE ArmsIInv'
  OBVIOUS
<1> USE ArmsAssumption DEF ArmsAssumption, ArmsIInv
<1>1. /\ attempt = 0 /\ attempt' = 1 /\ Running
      /\ legacy' = ReaderView /\ visible' = Newest(ReaderView, Window)
      /\ UNCHANGED <<seedVars, cards, reflections, filterVars, pending>>
  BY ReaderSeesHeld DEF BeginTrial, Running
<1> USE DEF seedVars, filterVars
<1>2. Shapes'
  BY <1>1 DEF Shapes, Running
<1>3. CardsInOrder'
  BY <1>1 DEF CardsInOrder, Running, Written, WellWritten, NextOrder, OrderKey
<1>4. PrefixKeeps' /\ BaseIsWhole'
  BY <1>1 DEF PrefixKeeps, BaseIsWhole, WrittenBy
<1>5. FilterInStep'
  BY <1>1 DEF FilterInStep, Filtering, Written
<1>6. TrialInStep'
  BY <1>1, NewestIsPart DEF TrialInStep, ReaderView, Filtering
<1> QED BY <1>2, <1>3, <1>4, <1>5, <1>6

\* The type of a checkpoint.
LEMMA CheckpointShape ==
  ASSUME ArmsIInv, NEW i \in 1 .. Len(checkpoints)
  PROVE  checkpoints[i].held \subseteq Nat /\ checkpoints[i].written \in Nat
<1>1. ASSUME NEW S, checkpoints \in Seq(S) PROVE checkpoints[i] \in S
  BY <1>1
<1>2. checkpoints \in Seq([held : SUBSET Nat, written : Nat])
  BY DEF ArmsIInv, Shapes
<1>3. checkpoints[i] \in [held : SUBSET Nat, written : Nat]
  BY <1>1, <1>2
<1> QED BY <1>3

\* The cards of a step are those before it and perhaps a new one.
Grows ==
  /\ cards' \in Seq(Cards)
  /\ Len(cards) <= Len(cards')
  /\ \A e \in 1 .. Len(cards) : cards'[e] = cards[e]

\* While a trial runs, the checkpoint of its arm stays as it was.
LEMMA BaseStays ==
  ASSUME ArmsIInv, Running, Grows, UNCHANGED <<base, root>>,
         arm # "prefix" => checkpoints' = checkpoints
  PROVE  BaseIsWhole'
<1> USE DEF ArmsIInv, Shapes, BaseIsWhole, Running, Grows
<1>1. root # 0 => checkpoints' = checkpoints
  OBVIOUS
<1>2. \A e \in 1 .. root - 1 : e \in 1 .. Len(cards)
  OBVIOUS
<1> QED BY <1>1, <1>2 DEF WrittenBy

\* The trial that ends is the last that wrote; in the prefix, a checkpoint is
\* taken of what it leaves.
LEMMA TrialEndsInStep ==
  ASSUME ArmsIInv, Attempting, TrialEnds, Grows, pending' = pending,
         reflections' \subseteq 1 .. Len(cards'),
         root = 0 => reflections' = Recent(Len(cards')),
         \A e \in Written' : WellWritten(e)',
         \A e \in Written' : cards'[e].order < OrderKey(trial + 1, 1),
         FilterInStep'
  PROVE  ArmsIInv'
<1> USE ArmsAssumption DEF ArmsAssumption, ArmsIInv
<1>1. /\ attempt' = 0 /\ trial' = trial + 1 /\ Running
      /\ UNCHANGED <<phase, arm, base, root, fault>>
      /\ checkpoints' = IF arm = "prefix"
           THEN Append(checkpoints, [held |-> reflections', written |-> Len(cards')])
           ELSE checkpoints
  BY DEF TrialEnds, Attempting, Running
<1> DEFINE last == [held |-> reflections', written |-> Len(cards')]
<1>2. Len(cards) \in Nat /\ Len(cards') \in Nat
  BY DEF Shapes, Grows
<1>3. Shapes'
  <2>1. last \in [held : SUBSET Nat, written : Nat]
    BY <1>2
  <2>2. checkpoints' \in Seq([held : SUBSET Nat, written : Nat])
    <3>1. checkpoints \in Seq([held : SUBSET Nat, written : Nat])
      BY DEF Shapes
    <3>2. checkpoints' = Append(checkpoints, last) \/ checkpoints' = checkpoints
      BY <1>1
    <3>3. ASSUME NEW S, checkpoints \in Seq(S), last \in S
          PROVE  checkpoints' \in Seq(S)
      <4> HIDE DEF last
      <4> QED BY <3>2, <3>3
    <3> QED BY <2>1, <3>1, <3>3
  <2>3. root' \in 0 .. Len(cards')
    BY <1>1, <1>2 DEF Shapes, Grows
  <2>4. trial' \in Nat \ {0} /\ attempt' \in 0 .. MaxAttempts
    BY <1>1 DEF Shapes
  <2>5. phase' # "partition" /\ pending' \subseteq 1 .. root'
    BY <1>1 DEF Shapes, Running
  <2> QED BY <1>1, <2>2, <2>3, <2>4, <2>5 DEF Shapes, Running, Grows
<1>4. CardsInOrder'
  BY <1>1 DEF CardsInOrder, NextOrder
<1>5. PrefixKeeps'
  <2> SUFFICES ASSUME root = 0 PROVE PrefixKeeps'
    BY <1>1 DEF PrefixKeeps
  <2>1. arm = "prefix" /\ checkpoints' = Append(checkpoints, last)
    BY <1>1 DEF Shapes, Running
  <2>2. checkpoints \in Seq([held : SUBSET Nat, written : Nat])
    BY DEF Shapes
  <2>3. /\ Len(checkpoints') = Len(checkpoints) + 1
        /\ checkpoints'[Len(checkpoints')] = last
        /\ \A i \in 1 .. Len(checkpoints) : checkpoints'[i] = checkpoints[i]
    <3>1. last \in [held : SUBSET Nat, written : Nat]
      BY <1>2
    <3> HIDE DEF last
    <3> QED BY <2>1, <2>2, <3>1
  <2>4. Written' = 1 .. Len(cards')
    BY <1>1, <1>2 DEF Written
  <2>5. ASSUME NEW i \in 1 .. Len(checkpoints')
        PROVE  /\ checkpoints'[i].written <= Len(cards')
               /\ checkpoints'[i].held = Recent(checkpoints'[i].written)
               /\ WrittenBy(checkpoints[i].written, i)'
    <3>1. CASE i = Len(checkpoints')
      <4>1. i = trial
        BY <3>1, <2>2, <2>3 DEF PrefixKeeps
      <4>2. checkpoints'[i] = last
        BY <3>1, <2>3
      <4>3. WrittenBy(checkpoints[i].written, i)'
        BY <4>1, <4>2, <2>4 DEF WrittenBy
      <4> QED BY <4>2, <4>3, <1>2
    <3>2. CASE i # Len(checkpoints')
      <4>1. i \in 1 .. Len(checkpoints)
        BY <3>2, <2>2, <2>3
      <4>2. checkpoints'[i] = checkpoints[i]
        BY <4>1, <2>3
      <4>3. checkpoints[i].written \in Nat
        BY <4>1, CheckpointShape DEF ArmsIInv
      <4>4. /\ checkpoints[i].written <= Len(cards)
            /\ checkpoints[i].held = Recent(checkpoints[i].written)
            /\ \A e \in 1 .. checkpoints[i].written :
                 cards[e].order < OrderKey(i + 1, 1)
        BY <4>1 DEF PrefixKeeps, WrittenBy
      <4>5. \A e \in 1 .. checkpoints[i].written : cards'[e] = cards[e]
        BY <4>3, <4>4, <1>2 DEF Grows
      <4>6. WrittenBy(checkpoints[i].written, i)'
        BY <4>2, <4>4, <4>5 DEF WrittenBy
      <4> QED BY <4>2, <4>3, <4>4, <4>6, <1>2 DEF Grows
    <3> QED BY <3>1, <3>2
  <2> QED BY <1>1, <2>2, <2>3, <2>5 DEF PrefixKeeps
<1>6. BaseIsWhole'
  BY <1>1, BaseStays
<1>7. TrialInStep'
  BY <1>1 DEF TrialInStep
<1> QED BY <1>3, <1>4, <1>5, <1>6, <1>7

\* A trial that ends without a new reflection.
LEMMA EndTrialKeeps == ArmsIInv /\ EndTrial => ArmsIInv'
<1> SUFFICES ASSUME ArmsIInv, EndTrial PROVE ArmsIInv'
  OBVIOUS
<1> USE ArmsAssumption DEF ArmsAssumption
<1>1. /\ Attempting /\ TrialEnds
      /\ UNCHANGED <<cards, reflections, filterVars, pending>>
      /\ UNCHANGED <<phase, arm, base, root, fault>>
  BY DEF EndTrial, TrialEnds
<1>2. Grows
  BY <1>1 DEF Grows, ArmsIInv, Shapes
<1>3. reflections' \subseteq 1 .. Len(cards')
  BY <1>1 DEF ArmsIInv, Shapes, Attempting
<1>4. root = 0 => reflections' = Recent(Len(cards'))
  BY <1>1 DEF ArmsIInv, PrefixKeeps
<1>5. \A e \in Written' : WellWritten(e)'
  BY <1>1 DEF ArmsIInv, CardsInOrder, Written, WellWritten
<1>6. \A e \in Written' : cards'[e].order < OrderKey(trial + 1, 1)
  <2>1. \A e \in Written : cards[e].order < NextOrder
    BY <1>1 DEF ArmsIInv, CardsInOrder, Attempting, Running
  <2>2. NextOrder < OrderKey(trial + 1, 1)
    BY DEF ArmsIInv, Shapes, NextOrder, OrderKey
  <2>3. \A e \in Written : cards[e].order \in Nat
    BY CardShape DEF ArmsIInv, Shapes, Written
  <2>4. NextOrder \in Nat /\ OrderKey(trial + 1, 1) \in Nat
    BY DEF ArmsIInv, Shapes, NextOrder, OrderKey
  <2>5. Written' = Written /\ cards' = cards
    BY <1>1 DEF Written
  <2> QED BY <2>1, <2>2, <2>3, <2>4, <2>5
<1>7. FilterInStep'
  BY <1>1 DEF ArmsIInv, FilterInStep, Filtering, Written, filterVars
<1> QED BY <1>1, <1>2, <1>3, <1>4, <1>5, <1>6, <1>7, TrialEndsInStep

\* What the entry e of the running trial is, when it has been appended.
Appended(e, parents) ==
  /\ e = Len(cards) + 1
  /\ cards' = Append(cards, [parents |-> parents, trial |-> trial,
                            order |-> OrderKey(trial, attempt),
                            writer |-> "reflexion_reflector"])
  /\ parents \subseteq ReaderView /\ root' = root

LEMMA NewCard ==
  ASSUME ArmsIInv, Attempting, NEW e, NEW parents, Appended(e, parents)
  PROVE  /\ Grows /\ e \in Nat \ {0} /\ Len(cards') = e /\ e # root
         /\ Written' = Written \cup {e}
         /\ cards'[e] = [parents |-> parents, trial |-> trial,
                         order |-> OrderKey(trial, attempt),
                         writer |-> "reflexion_reflector"]
<1> DEFINE new == [parents |-> parents, trial |-> trial,
                   order |-> OrderKey(trial, attempt),
                   writer |-> "reflexion_reflector"]
<1>1. new \in Cards
  <2>1. parents \subseteq Nat
    BY ReaderSeesWritten DEF Appended, Attempting, Running
  <2>2. trial \in Nat /\ OrderKey(trial, attempt) \in Nat
    BY ArmsAssumption DEF ArmsAssumption, ArmsIInv, Shapes, OrderKey
  <2> QED BY <2>1, <2>2 DEF Cards, Writers
<1>2. cards \in Seq(Cards) /\ root \in 0 .. Len(cards)
  BY DEF ArmsIInv, Shapes
<1>3. cards' = Append(cards, new) /\ e = Len(cards) + 1 /\ root' = root
  BY DEF Appended
<1> HIDE DEF new
<1>4. /\ cards' \in Seq(Cards) /\ Len(cards') = e /\ cards'[e] = new
      /\ \A x \in 1 .. Len(cards) : cards'[x] = cards[x]
      /\ e \in Nat \ {0} /\ Len(cards) \in Nat
  BY <1>1, <1>2, <1>3
<1>5. Grows
  BY <1>3, <1>4 DEF Grows
<1>6. Written' = Written \cup {e} /\ e # root
  BY <1>2, <1>3, <1>4 DEF Written
<1> QED BY <1>4, <1>5, <1>6 DEF new

\* The new entry is well written and later than all there were.
LEMMA CardsStayInOrder ==
  ASSUME ArmsIInv, Attempting, NEW e, NEW parents, Appended(e, parents)
  PROVE  /\ \A x \in Written' : WellWritten(x)'
         /\ \A x \in Written' : cards'[x].order <= OrderKey(trial, attempt)
<1>1. /\ Grows /\ e \in Nat \ {0} /\ Len(cards') = e /\ e # root
      /\ Written' = Written \cup {e}
      /\ cards'[e] = [parents |-> parents, trial |-> trial,
                      order |-> OrderKey(trial, attempt),
                      writer |-> "reflexion_reflector"]
  BY NewCard
<1>2. /\ \A x \in Written : WellWritten(x)
      /\ \A x \in Written : cards[x].order < OrderKey(trial, attempt)
  BY DEF ArmsIInv, Shapes, CardsInOrder, NextOrder, Running, Attempting
<1>3. OrderKey(trial, attempt) \in Nat /\ trial # 0
  BY ArmsAssumption DEF ArmsAssumption, ArmsIInv, Shapes, OrderKey
<1>4. \A x \in Written : x \in 1 .. Len(cards) /\ cards[x].order \in Nat
  BY CardShape DEF ArmsIInv, Shapes, Written
<1>5. Len(cards) \in Nat /\ e = Len(cards) + 1 /\ root' = root
  BY DEF ArmsIInv, Shapes, Appended
<1>6. \A x \in 1 .. Len(cards) : cards'[x] = cards[x]
  BY <1>1 DEF Grows
<1>7. ASSUME NEW x \in Written PROVE WellWritten(x)'
  <2>1. WellWritten(x) /\ x \in 1 .. Len(cards) /\ cards'[x] = cards[x]
    BY <1>2, <1>4, <1>6
  <2>2. \A p \in cards[x].parents : p \in 1 .. Len(cards)
    BY <2>1, <1>5 DEF WellWritten
  <2> QED BY <2>1, <2>2, <1>5, <1>6 DEF WellWritten
<1>8. WellWritten(e)'
  <2>1. parents \subseteq 1 .. e - 1
    <3>1. parents \subseteq 1 .. Len(cards)
      BY ReaderSeesWritten DEF Appended, Attempting, Running
    <3> QED BY <3>1, <1>5
  <2>2. \A p \in parents : p # root => cards'[p].order < OrderKey(trial, attempt)
    BY <2>1, <1>2, <1>5, <1>6 DEF Written
  <2>3. /\ cards'[e].writer = "reflexion_reflector" /\ cards'[e].trial = trial
        /\ cards'[e].parents = parents /\ cards'[e].order = OrderKey(trial, attempt)
    BY <1>1
  <2> QED BY <2>1, <2>2, <2>3, <1>3, <1>5 DEF WellWritten
<1>9. \A x \in Written' : cards'[x].order <= OrderKey(trial, attempt)
  BY <1>1, <1>2, <1>3, <1>4, <1>6
<1> QED BY <1>1, <1>7, <1>8, <1>9

\* What a trial of the filter arm writes is admitted.
LEMMA WriteIsAdmitted ==
  ASSUME ArmsIInv, Attempting, NEW e, NEW parents, Appended(e, parents), Filtering
  PROVE  Admitted(cards', e, evidence \cup {e}, vouched, quarantined)
<1>1. /\ e \in Nat \ {0} /\ e # root /\ e = Len(cards) + 1
      /\ e \in Written' /\ cards'[e].parents = parents
  BY NewCard DEF Appended
<1>2. WellWritten(e)' /\ root' = root
  BY <1>1, CardsStayInOrder DEF Appended
<1>3. /\ parents \subseteq vouched /\ vouched \subseteq evidence
      /\ evidence = Written /\ quarantined \subseteq {root}
  BY DEF Appended, ReaderView, ArmsIInv, FilterInStep
<1>4. \A p \in parents : p # root /\ p # e /\ p \in evidence
  BY <1>1, <1>3, <1>2 DEF WellWritten, Written
<1>5. ValidEnvelope(cards', e,
        (evidence \cup {e} \cup vouched \cup quarantined \cup {root}) \ {e})
  BY <1>1, <1>2, <1>4 DEF ValidEnvelope, WellWritten
<1>6. parents \subseteq vouched \ quarantined
  BY <1>3, <1>4
<1> QED BY <1>1, <1>5, <1>6 DEF Admitted

\* The lists of the filter are brought up to the write together.
LEMMA WriteKeepsFilter ==
  ASSUME ArmsIInv, Attempting, NEW e, NEW parents, Appended(e, parents),
         RouteWrite(e), UNCHANGED <<arm, base>>,
         reflections' = (reflections \cup {e}) \ Evicted(e),
         active' = KeptIn(active, e), vouched' = KeptIn(vouched, e)
  PROVE  FilterInStep' /\ quarantined' = quarantined /\ e \notin quarantined'
<1>1. /\ Grows /\ e # root /\ e = Len(cards) + 1 /\ root' = root
      /\ Written' = Written \cup {e} /\ cards'[e].parents = parents
      /\ e \in Nat
  BY NewCard DEF Appended
<1>2. Len(cards) \in Nat /\ root \in 0 .. Len(cards)
  BY DEF ArmsIInv, Shapes
<1>3. FilterInStep
  BY DEF ArmsIInv
<1>4. evidence \subseteq Written
  BY <1>2, <1>3 DEF FilterInStep, Written
<1>5. \A x \in evidence : cards'[x].parents \subseteq evidence
  BY <1>1, <1>3, <1>4 DEF FilterInStep, Grows, Written
<1>6. CASE ~ Filtering
  <2>1. UNCHANGED <<evidence, quarantined, active, vouched>>
    BY <1>6 DEF RouteWrite, KeptIn
  <2>2. evidence' = 1 .. root' - 1 /\ ~ Filtering'
    BY <1>6, <2>1, <1>1, <1>3 DEF FilterInStep, Filtering
  <2>3. active' \subseteq vouched' /\ vouched' = evidence' /\ active' \subseteq base'
    BY <1>6, <2>1, <1>3 DEF FilterInStep
  <2>4. quarantined' \subseteq {root'} \ {0} /\ e \notin quarantined'
    BY <2>1, <1>1, <1>3 DEF FilterInStep
  <2> QED BY <2>1, <2>2, <2>3, <2>4, <1>5 DEF FilterInStep
<1>7. CASE Filtering
  <2>1. evidence' = evidence \cup {e} /\ quarantined' = quarantined
    BY <1>7, WriteIsAdmitted DEF RouteWrite
  <2>2. e \notin quarantined' /\ quarantined' \subseteq {root'} \ {0}
    BY <2>1, <1>1, <1>3 DEF FilterInStep
  <2>3. /\ active' = (active \cup {e}) \ Evicted(e)
        /\ vouched' = (vouched \cup {e}) \ Evicted(e)
    BY <1>7, <2>2 DEF KeptIn
  <2>4. evidence' = Written' /\ Filtering'
    BY <1>1, <1>3, <1>7, <2>1 DEF FilterInStep, Filtering
  <2>5. /\ active' \subseteq vouched' /\ vouched' \subseteq evidence'
        /\ active' \subseteq reflections'
    BY <1>3, <1>7, <2>1, <2>3 DEF FilterInStep
  <2>6. parents \subseteq evidence
    BY <1>3, <1>7 DEF FilterInStep, Appended, ReaderView
  <2>7. \A x \in evidence' : cards'[x].parents \subseteq evidence'
    BY <1>1, <1>5, <2>1, <2>6
  <2> QED BY <2>1, <2>2, <2>4, <2>5, <2>7 DEF FilterInStep
<1> QED BY <1>6, <1>7

\* What a reflection does to the memory of its arm: nothing is held back, and
\* the reader's view takes the new entry in and keeps the newest.
LEMMA ReflectDoes ==
  ASSUME NEW parents \in SUBSET visible, ArmsIInv, Reflect(parents),
         NEW e, e = Len(cards) + 1
  PROVE  /\ Attempting /\ attempt > 0 /\ Appended(e, parents)
         /\ UNCHANGED <<phase, arm, base, root, fault, pending>>
         /\ IF attempt = MaxAttempts THEN TrialEnds ELSE NextAttempt(e)
         /\ FilterInStep' /\ ~ Hides(e)
         /\ Evicted(e) = (ReaderView \cup {e}) \ Newest(ReaderView \cup {e}, Capacity)
         /\ legacy = ReaderView /\ ReaderView' = (ReaderView \cup {e}) \ Evicted(e)
         /\ reflections' = (reflections \cup {e}) \ Evicted(e)
         /\ ~ Filtering => active' = active
<1>1. Attempting /\ attempt > 0 /\ parents \subseteq legacy /\ legacy = ReaderView
  BY DEF Reflect, Attempting, ArmsIInv, TrialInStep
<1>2. /\ RouteWrite(e) /\ pending' = pending
      /\ reflections' = (reflections \cup {e}) \ Evicted(e)
      /\ active' = KeptIn(active, e) /\ vouched' = KeptIn(vouched, e)
      /\ IF attempt = MaxAttempts THEN TrialEnds ELSE NextAttempt(e)
  BY <1>1 DEF Reflect
<1>3. UNCHANGED <<phase, arm, base, root, fault>>
  BY <1>2 DEF TrialEnds, NextAttempt, seedVars
<1>4. Appended(e, parents)
  BY <1>1, <1>3 DEF Reflect, Appended
<1>5. FilterInStep' /\ quarantined' = quarantined /\ e \notin quarantined'
  BY <1>1, <1>2, <1>3, <1>4, WriteKeepsFilter
<1>6. ~ Hides(e)
  BY <1>5 DEF Hides
<1>7. Evicted(e) = (ReaderView \cup {e}) \ Newest(ReaderView \cup {e}, Capacity)
  BY <1>5, <1>6 DEF Evicted
<1>8. ReaderView' = (ReaderView \cup {e}) \ Evicted(e)
  BY <1>2, <1>3, <1>5 DEF ReaderView, Filtering, KeptIn
<1>9. ~ Filtering => active' = active
  BY <1>2 DEF KeptIn
<1> QED BY <1>1, <1>2, <1>3, <1>4, <1>5, <1>6, <1>7, <1>8, <1>9

\* A reflection keeps the arm's three lists in step.
LEMMA ReflectKeeps ==
  ASSUME NEW parents \in SUBSET visible, ArmsIInv, Reflect(parents)
  PROVE  ArmsIInv'
<1> DEFINE e == Len(cards) + 1
<1> HIDE DEF e
<1>1. /\ Attempting /\ attempt > 0 /\ Appended(e, parents)
      /\ UNCHANGED <<phase, arm, base, root, fault, pending>>
      /\ IF attempt = MaxAttempts THEN TrialEnds ELSE NextAttempt(e)
      /\ FilterInStep'
      /\ Evicted(e) = (ReaderView \cup {e}) \ Newest(ReaderView \cup {e}, Capacity)
      /\ legacy = ReaderView /\ ReaderView' = (ReaderView \cup {e}) \ Evicted(e)
      /\ reflections' = (reflections \cup {e}) \ Evicted(e)
  BY ReflectDoes DEF e
<1>2. /\ Grows /\ Len(cards') = e /\ e \in Nat \ {0} /\ Written' = Written \cup {e}
  BY <1>1, NewCard
<1>3. Len(cards) \in Nat /\ e = Len(cards) + 1 /\ reflections \subseteq 1 .. Len(cards)
  BY <1>1 DEF ArmsIInv, Shapes, e, Attempting
<1>4. reflections' \subseteq 1 .. Len(cards')
  <2>1. \A x \in reflections \cup {e} : x \in 1 .. e
    BY <1>2, <1>3
  <2> QED BY <2>1, <1>1, <1>2
<1>5. root = 0 => reflections' = Recent(Len(cards'))
  <2> SUFFICES ASSUME root = 0 PROVE reflections' = Recent(Len(cards'))
    OBVIOUS
  <2>1. reflections = Recent(Len(cards)) /\ ReaderView = reflections
    BY DEF ArmsIInv, PrefixKeeps, ReaderView, Filtering, Shapes
  <2> QED BY <2>1, <1>1, <1>2, <1>3, RecentGrows
<1>6. /\ \A x \in Written' : WellWritten(x)'
      /\ \A x \in Written' : cards'[x].order <= OrderKey(trial, attempt)
  BY <1>1, CardsStayInOrder
<1>7. \A x \in Written' : cards'[x].order \in Nat
  BY <1>2, CardShape DEF Grows, Written
<1>8. trial \in Nat \ {0} /\ attempt \in 1 .. MaxAttempts /\ MaxAttempts \in 1 .. 2
  BY <1>1, ArmsAssumption DEF ArmsAssumption, ArmsIInv, Shapes
<1>9. CASE attempt = MaxAttempts
  <2>1. OrderKey(trial, attempt) < OrderKey(trial + 1, 1) /\ OrderKey(trial, attempt) \in Nat
    BY <1>8 DEF OrderKey
  <2>2. \A x \in Written' : cards'[x].order < OrderKey(trial + 1, 1)
    BY <2>1, <1>6, <1>7, <1>8 DEF OrderKey
  <2> QED BY <1>1, <1>2, <1>4, <1>5, <1>6, <1>9, <2>2, TrialEndsInStep
<1>10. CASE attempt # MaxAttempts
  <2>1. /\ attempt' = attempt + 1 /\ UNCHANGED seedVars
        /\ legacy' = LegacyAfter(e)
        /\ visible' = Newest(legacy' \ hidden', Window)
    BY <1>1, <1>10 DEF NextAttempt
  <2>2. Shapes'
    <3>1. Shapes /\ Running
      BY <1>1 DEF ArmsIInv, Attempting, Running
    <3>2. UNCHANGED <<phase, arm, root, trial, checkpoints, fault, pending>>
      BY <2>1, <1>1 DEF seedVars
    <3>3. attempt' \in 0 .. MaxAttempts
      BY <2>1, <1>8, <1>10
    <3>4. cards' \in Seq(Cards) /\ root' \in 0 .. Len(cards')
      BY <3>1, <3>2, <1>2, <1>3 DEF Grows, Shapes
    <3> QED BY <3>1, <3>2, <3>3, <3>4, <1>4 DEF Shapes, Running
  <2>3. CardsInOrder'
    <3>1. NextOrder' = OrderKey(trial, attempt) + 1 /\ OrderKey(trial, attempt) \in Nat
      BY <2>1, <1>8 DEF NextOrder, OrderKey, seedVars
    <3> QED BY <3>1, <1>6, <1>7 DEF CardsInOrder
  <2>4. PrefixKeeps'
    <3> SUFFICES ASSUME root = 0 PROVE PrefixKeeps'
      BY <1>1 DEF PrefixKeeps
    <3>1. PrefixKeeps /\ UNCHANGED <<checkpoints, trial>>
      BY <2>1 DEF ArmsIInv, seedVars
    <3>2. ASSUME NEW i \in 1 .. Len(checkpoints) PROVE WrittenBy(checkpoints[i].written, i)'
      <4>1. checkpoints[i].written <= Len(cards) /\ WrittenBy(checkpoints[i].written, i)
        BY <3>1 DEF PrefixKeeps
      <4>2. \A x \in 1 .. checkpoints[i].written : cards'[x] = cards[x]
        BY <4>1, <1>2, <1>3, CheckpointShape DEF Grows
      <4> QED BY <4>1, <4>2, <3>1 DEF WrittenBy
    <3>3. \A i \in 1 .. Len(checkpoints) : checkpoints[i].written <= Len(cards')
      BY <3>1, <1>2, <1>3, CheckpointShape DEF PrefixKeeps
    <3> QED BY <3>1, <3>2, <3>3, <1>5 DEF PrefixKeeps
  <2>5. BaseIsWhole'
    <3>1. Running /\ checkpoints' = checkpoints
      BY <1>1, <2>1 DEF Attempting, Running, seedVars
    <3> QED BY <3>1, <1>1, <1>2, BaseStays
  <2>6. TrialInStep'
    <3>1. legacy' = (legacy \cup {e}) \ Evicted(e)
      BY <2>1 DEF LegacyAfter
    <3> QED BY <3>1, <2>1, <1>1, NewestIsPart DEF TrialInStep
  <2> QED BY <2>2, <2>3, <2>4, <2>5, <2>6, <1>1 DEF ArmsIInv
<1> QED BY <1>9, <1>10

\* The first n cards of a deck.
LEMMA Truncated ==
  ASSUME NEW deck \in Seq(Cards), NEW n \in 0 .. Len(deck)
  PROVE  /\ SubSeq(deck, 1, n) \in Seq(Cards)
         /\ Len(SubSeq(deck, 1, n)) = n
         /\ \A e \in 1 .. n : SubSeq(deck, 1, n)[e] = deck[e]
<1>1. \A e \in 1 .. n : deck[e] \in Cards
  OBVIOUS
<1>2. n \in Int /\ 1 \in Int
  OBVIOUS
<1>3. /\ SubSeq(deck, 1, n) \in Seq(Cards)
      /\ Len(SubSeq(deck, 1, n)) = IF 1 <= n THEN n - 1 + 1 ELSE 0
      /\ \A e \in 1 .. n - 1 + 1 : SubSeq(deck, 1, n)[e] = deck[1 + e - 1]
  BY <1>1, <1>2, SubSeqProperties
<1>4. \A e \in 1 .. n : 1 + e - 1 = e
  OBVIOUS
<1> QED BY <1>3, <1>4

\* No contract error: what is mature had lost nothing, and restores.
LEMMA MatureRestores ==
  ASSUME ArmsIInv, phase = "prefix", trial > Tasks, NEW i \in 1 .. Tasks, Mature(i)
  PROVE  /\ i \in 1 .. Len(checkpoints)
         /\ checkpoints[i].written \in 0 .. Len(cards)
         /\ checkpoints[i].held = 1 .. checkpoints[i].written
         /\ WrittenBy(checkpoints[i].written, i)
         /\ Restorable(checkpoints[i].held)
<1> DEFINE n == checkpoints[i].written
<1>1. root = 0 /\ Len(cards) \in Nat /\ Tasks \in Nat /\ Len(checkpoints) \in Nat
  BY ArmsAssumption DEF ArmsAssumption, ArmsIInv, Shapes
<1>2. i \in 1 .. Len(checkpoints)
  BY <1>1 DEF ArmsIInv, PrefixKeeps
<1>3. n \in 0 .. Len(cards) /\ checkpoints[i].held = Recent(n) /\ WrittenBy(n, i)
  BY <1>1, <1>2, CheckpointShape DEF ArmsIInv, PrefixKeeps
<1>4. Cardinality(Recent(n)) \in 1 .. Capacity - 1
  BY <1>3 DEF Mature
<1>5. Recent(n) = 1 .. n
  BY <1>3, <1>4, NotFullIsWhole
<1>6. Restorable(1 .. n)
  <2>1. \A e \in 1 .. n : cards[e].parents \subseteq 1 .. e - 1
    BY <1>1, <1>3 DEF ArmsIInv, CardsInOrder, Written, WellWritten
  <2>2. Cardinality(1 .. n) <= Capacity
    BY <1>4, <1>5, ArmsAssumption DEF ArmsAssumption
  <2>3. \A e \in 1 .. n : 1 .. e - 1 \subseteq {x \in 1 .. n : x < e}
    BY <1>3
  <2> QED BY <2>1, <2>2, <2>3 DEF Restorable
<1> QED BY <1>2, <1>3, <1>5, <1>6

\* The selected checkpoint is the memory the filter's partition starts from.
LEMMA SelectKeeps ==
  ASSUME NEW i \in 1 .. Tasks, ArmsIInv, Select(i)
  PROVE  ArmsIInv'
<1> DEFINE n == checkpoints[i].written
           new == [parents |-> {}, trial |-> 0, order |-> n + 1,
                   writer |-> "protocol_injector"]
<1>1. /\ phase = "prefix" /\ trial > Tasks /\ Mature(i) /\ attempt = 0
      /\ UNCHANGED <<reflections, trialVars>>
  BY DEF Select
<1>2. /\ i \in 1 .. Len(checkpoints) /\ n \in 0 .. Len(cards)
      /\ checkpoints[i].held = 1 .. n /\ WrittenBy(n, i)
      /\ Restorable(checkpoints[i].held)
  BY <1>1, MatureRestores
<1>3. /\ phase' = "partition" /\ checkpoints' = SubSeq(checkpoints, 1, i)
      /\ base' = 1 .. n /\ root' = n + 1
      /\ cards' = Append(SubSeq(cards, 1, n), new)
      /\ evidence' = 1 .. n /\ vouched' = 1 .. n
      /\ pending' = 1 .. n \cup {n + 1}
      /\ UNCHANGED <<trial, arm, fault, active, quarantined>>
  BY <1>2 DEF Select
<1>4. root = 0 /\ arm = "prefix" /\ cards \in Seq(Cards) /\ n \in Nat
  BY <1>1, <1>2 DEF ArmsIInv, Shapes
<1>5. active = {} /\ quarantined = {}
  BY <1>4 DEF ArmsIInv, FilterInStep, Filtering
<1>6. /\ cards' \in Seq(Cards) /\ Len(cards') = n + 1
      /\ \A e \in 1 .. n : cards'[e] = cards[e]
  <2>1. new \in Cards
    BY <1>4 DEF Cards, Writers
  <2>2. /\ SubSeq(cards, 1, n) \in Seq(Cards) /\ Len(SubSeq(cards, 1, n)) = n
        /\ \A e \in 1 .. n : SubSeq(cards, 1, n)[e] = cards[e]
    BY <1>2, <1>4, Truncated
  <2>3. ASSUME NEW deck \in Seq(Cards), Len(deck) = n, NEW c \in Cards
        PROVE  /\ Append(deck, c) \in Seq(Cards) /\ Len(Append(deck, c)) = n + 1
               /\ \A e \in 1 .. n : Append(deck, c)[e] = deck[e]
    BY <2>3
  <2> HIDE DEF new
  <2> QED BY <1>3, <2>1, <2>2, <2>3
<1>7. checkpoints' \in Seq([held : SUBSET Nat, written : Nat]) /\ Len(checkpoints') = i
  <2>1. checkpoints \in Seq([held : SUBSET Nat, written : Nat])
    BY DEF ArmsIInv, Shapes
  <2>2. ASSUME NEW S, checkpoints \in Seq(S)
        PROVE  SubSeq(checkpoints, 1, i) \in Seq(S) /\ Len(SubSeq(checkpoints, 1, i)) = i
    <3>1. i \in Int /\ 1 \in Int /\ \A k \in 1 .. i : checkpoints[k] \in S
      BY <1>2, <2>2
    <3>2. /\ SubSeq(checkpoints, 1, i) \in Seq(S)
          /\ Len(SubSeq(checkpoints, 1, i)) = IF 1 <= i THEN i - 1 + 1 ELSE 0
      BY <3>1, SubSeqProperties
    <3> QED BY <3>2, <1>2
  <2> QED BY <1>3, <2>1, <2>2
<1>8. Written' = 1 .. n
  BY <1>3, <1>4, <1>6 DEF Written
<1>9. \A e \in 1 .. n : WellWritten(e)' /\ cards'[e].parents \subseteq 1 .. n
  <2> TAKE e \in 1 .. n
  <2>1. WellWritten(e) /\ cards'[e] = cards[e]
    BY <1>2, <1>4, <1>6 DEF ArmsIInv, CardsInOrder, Written
  <2>2. \A p \in cards[e].parents : p \in 1 .. n /\ p # root
    BY <2>1, <1>4 DEF WellWritten
  <2> QED BY <2>1, <2>2, <1>6 DEF WellWritten
<1>10. Shapes'
  <2>1. root' \in 0 .. Len(cards') /\ root' # 0 /\ Len(cards') = root'
    BY <1>3, <1>4, <1>6
  <2>2. pending' \subseteq 1 .. root'
    BY <1>3, <1>4
  <2> QED BY <1>1, <1>3, <1>4, <1>6, <1>7, <2>1, <2>2 DEF ArmsIInv, Shapes, Running, trialVars
<1>11. CardsInOrder'
  BY <1>3, <1>8, <1>9 DEF CardsInOrder, Running
<1>12. PrefixKeeps'
  BY <1>3, <1>4 DEF PrefixKeeps
<1>13. BaseIsWhole'
  BY <1>2, <1>3, <1>4, <1>6, <1>7 DEF BaseIsWhole, WrittenBy
<1>14. FilterInStep'
  <2>1. ~ Filtering' /\ evidence' = 1 .. root' - 1 /\ vouched' = evidence'
    BY <1>3, <1>4 DEF Filtering
  <2>2. active' = {} /\ quarantined' = {}
    BY <1>3, <1>5
  <2>3. \A e \in evidence' : cards'[e].parents \subseteq evidence'
    BY <1>3, <1>9
  <2> QED BY <2>1, <2>2, <2>3 DEF FilterInStep
<1>15. TrialInStep'
  BY <1>1 DEF TrialInStep, trialVars
<1> QED BY <1>10, <1>11, <1>12, <1>13, <1>14, <1>15 DEF ArmsIInv

\* What the partition holds back of the entries of the checkpoint and the root
\* is the root.
LEMMA PartitionDoes ==
  ASSUME ArmsIInv, Partition
  PROVE  /\ phase = "partition" /\ arm = "prefix" /\ root # 0 /\ root \in Nat
         /\ UNCHANGED <<seedVars, cards, reflections, evidence, trialVars>>
         /\ base = 1 .. root - 1 /\ evidence = base /\ vouched = base
         /\ \E e \in pending :
              /\ pending' = pending \ {e}
              /\ \/ e \in base /\ active' = active \cup {e}
                    /\ UNCHANGED <<vouched, quarantined>>
                 \/ e = root /\ quarantined' = quarantined \cup {e}
                    /\ UNCHANGED <<active, vouched>>
<1>1. /\ phase = "partition"
      /\ UNCHANGED <<seedVars, cards, reflections, evidence, trialVars>>
  BY DEF Partition
<1>2. PICK e \in pending :
        /\ pending' = pending \ {e}
        /\ IF Admitted(cards, e, evidence, vouched, quarantined)
           THEN /\ active' = active \cup {e} /\ vouched' = vouched \cup {e}
                /\ UNCHANGED quarantined
           ELSE /\ quarantined' = quarantined \cup {e}
                /\ UNCHANGED <<active, vouched>>
  BY DEF Partition
<1>3. /\ arm = "prefix" /\ root # 0 /\ Len(cards) = root /\ root \in Nat
      /\ e \in 1 .. root
  BY <1>1, <1>2 DEF ArmsIInv, Shapes
<1>4. /\ evidence = 1 .. root - 1 /\ vouched = evidence /\ base = 1 .. root - 1
      /\ quarantined \subseteq {root}
  BY <1>3 DEF ArmsIInv, FilterInStep, Filtering, BaseIsWhole
<1>5. ASSUME e # root
      PROVE  Admitted(cards, e, evidence, vouched, quarantined)
  <2>1. e \in 1 .. root - 1 /\ e \in Written
    BY <1>3, <1>5 DEF Written
  <2>2. WellWritten(e)
    BY <2>1 DEF ArmsIInv, CardsInOrder
  <2>3. \A p \in cards[e].parents : p # root /\ p # e /\ p \in evidence
    BY <1>3, <1>4, <2>1, <2>2 DEF WellWritten
  <2>4. ValidEnvelope(cards, e,
          (evidence \cup vouched \cup quarantined \cup {root}) \ {e})
    BY <2>2, <2>3 DEF ValidEnvelope, WellWritten
  <2>5. cards[e].parents \subseteq vouched \ quarantined
    BY <1>4, <2>3
  <2> QED BY <1>4, <2>1, <2>4, <2>5 DEF Admitted
<1>6. CASE Admitted(cards, e, evidence, vouched, quarantined)
  <2>1. e \in base /\ active' = active \cup {e} /\ UNCHANGED <<vouched, quarantined>>
    BY <1>2, <1>4, <1>6 DEF Admitted
  <2> QED BY <2>1, <1>1, <1>2, <1>3, <1>4
<1>7. CASE ~ Admitted(cards, e, evidence, vouched, quarantined)
  BY <1>1, <1>2, <1>3, <1>4, <1>5, <1>7
<1> QED BY <1>6, <1>7

\* The partition keeps what the arms rest on.
LEMMA PartitionKeeps == ArmsIInv /\ Partition => ArmsIInv'
<1> SUFFICES ASSUME ArmsIInv, Partition PROVE ArmsIInv'
  OBVIOUS
<1>1. /\ phase = "partition" /\ arm = "prefix" /\ root # 0 /\ root \in Nat
      /\ UNCHANGED <<seedVars, cards, reflections, evidence, trialVars>>
      /\ base = 1 .. root - 1 /\ evidence = base /\ vouched = base
  BY PartitionDoes
<1>2. PICK e \in pending :
        /\ pending' = pending \ {e}
        /\ \/ e \in base /\ active' = active \cup {e}
              /\ UNCHANGED <<vouched, quarantined>>
           \/ e = root /\ quarantined' = quarantined \cup {e}
              /\ UNCHANGED <<active, vouched>>
  BY PartitionDoes
<1>3. /\ active \subseteq base /\ quarantined \subseteq {root} \ {0}
      /\ \A x \in evidence : cards[x].parents \subseteq evidence
  BY <1>1 DEF ArmsIInv, FilterInStep, Filtering
<1>4. FilterInStep'
  <2>1. evidence' = 1 .. root' - 1 /\ ~ Filtering' /\ base' = evidence'
    BY <1>1 DEF seedVars, Filtering
  <2>2. vouched' = evidence' /\ active' \subseteq base'
    BY <1>1, <1>2, <1>3, <2>1
  <2>3. quarantined' \subseteq {root'} \ {0}
    BY <1>1, <1>2, <1>3 DEF seedVars
  <2>4. \A x \in evidence' : cards'[x].parents \subseteq evidence'
    BY <1>1, <1>3
  <2> QED BY <2>1, <2>2, <2>3, <2>4 DEF FilterInStep
<1>5. Shapes'
  BY <1>1, <1>2 DEF ArmsIInv, Shapes, Running, seedVars, trialVars
<1>6. CardsInOrder'
  BY <1>1 DEF ArmsIInv, CardsInOrder, WellWritten, Written, Running, seedVars
<1>7. PrefixKeeps' /\ BaseIsWhole'
  BY <1>1 DEF ArmsIInv, PrefixKeeps, BaseIsWhole, WrittenBy, seedVars
<1>8. TrialInStep'
  BY <1>1 DEF ArmsIInv, Shapes, Running, TrialInStep, trialVars
<1> QED BY <1>4, <1>5, <1>6, <1>7, <1>8 DEF ArmsIInv

\* Each arm starts from the checkpoint, whatever the one before it wrote.
LEMMA BeginArmKeeps == ArmsIInv /\ BeginArm => ArmsIInv'
<1> SUFFICES ASSUME ArmsIInv, BeginArm PROVE ArmsIInv'
  OBVIOUS
<1>1. /\ phase' = "suffix" /\ arm' = NextArm[arm] /\ trial' = Len(checkpoints) + 1
      /\ cards' = SubSeq(cards, 1, root)
      /\ reflections' = IF arm' = "clean" THEN base ELSE base \cup {root}
      /\ UNCHANGED <<checkpoints, base, root, fault, filterVars, pending, trialVars>>
  BY DEF BeginArm
<1>2. /\ \/ arm = "prefix" /\ arm' = "clean"
         \/ arm = "clean" /\ arm' = "contam"
         \/ arm = "contam" /\ arm' = "filter"
      /\ root # 0 /\ attempt = 0
  BY <1>1 DEF BeginArm, ArmsIInv, Shapes, Running, NextArm, Filtering
<1>3. /\ cards \in Seq(Cards) /\ root \in 0 .. Len(cards) /\ root \in Nat
      /\ Len(checkpoints) \in Nat
  BY DEF ArmsIInv, Shapes
<1>4. /\ cards' \in Seq(Cards) /\ Len(cards') = root
      /\ \A e \in 1 .. root : cards'[e] = cards[e]
  BY <1>1, <1>3, Truncated
<1>5. base = 1 .. root - 1 /\ WrittenBy(root - 1, Len(checkpoints))
  BY <1>2 DEF ArmsIInv, BaseIsWhole
<1>6. /\ evidence = 1 .. root - 1 /\ vouched = evidence /\ active \subseteq base
      /\ quarantined \subseteq {root} \ {0}
      /\ \A e \in evidence : cards[e].parents \subseteq evidence
  BY <1>2 DEF ArmsIInv, FilterInStep, Filtering
<1>7. Written' = 1 .. root - 1 /\ \A e \in Written' : e \in Written
  BY <1>1, <1>3, <1>4 DEF Written
<1>8. Shapes'
  <2>1. reflections' \subseteq 1 .. Len(cards')
    BY <1>1, <1>2, <1>3, <1>4, <1>5
  <2>2. root' \in 0 .. Len(cards') /\ trial' \in Nat \ {0}
    BY <1>1, <1>3, <1>4
  <2>3. attempt' = attempt
    BY <1>1 DEF trialVars
  <2> QED BY <1>1, <1>2, <1>4, <2>1, <2>2, <2>3 DEF ArmsIInv, Shapes, Running
<1>9. CardsInOrder'
  <2>1. ASSUME NEW e \in Written'
        PROVE  WellWritten(e)' /\ cards'[e].order < OrderKey(Len(checkpoints) + 1, 1)
    <3>1. WellWritten(e) /\ cards'[e] = cards[e] /\ e \in 1 .. root - 1
      BY <2>1, <1>3, <1>4, <1>7 DEF ArmsIInv, CardsInOrder
    <3>2. \A p \in cards[e].parents : cards'[p] = cards[p]
      BY <3>1, <1>3, <1>4 DEF WellWritten
    <3>3. WellWritten(e)'
      BY <3>1, <3>2, <1>1 DEF WellWritten
    <3> QED BY <3>1, <3>3, <1>5 DEF WrittenBy
  <2>2. NextOrder' = OrderKey(Len(checkpoints) + 1, 1)
    BY <1>1, <1>2 DEF NextOrder, trialVars
  <2> QED BY <2>1, <2>2 DEF CardsInOrder
<1>10. PrefixKeeps'
  BY <1>1, <1>2 DEF PrefixKeeps
<1>11. BaseIsWhole'
  BY <1>1, <1>3, <1>4, <1>5 DEF BaseIsWhole, WrittenBy
<1>12. FilterInStep'
  <2>1. /\ evidence' = 1 .. root' - 1 /\ evidence' = Written' /\ vouched' = evidence'
        /\ active' \subseteq base' /\ base' = evidence' /\ base' \subseteq reflections'
        /\ quarantined' \subseteq {root'} \ {0}
    BY <1>1, <1>5, <1>6, <1>7 DEF filterVars
  <2>2. \A e \in evidence' : cards'[e].parents \subseteq evidence'
    BY <1>3, <1>4, <1>6, <2>1, <1>1
  <2> QED BY <2>1, <2>2 DEF FilterInStep
<1>13. TrialInStep'
  BY <1>1, <1>2 DEF TrialInStep, trialVars
<1> QED BY <1>8, <1>9, <1>10, <1>11, <1>12, <1>13 DEF ArmsIInv

\* The steps that only end the seed.
LEMMA SeedEndKeeps == ArmsIInv /\ (NothingSelected \/ EndSeed) => ArmsIInv'
<1> SUFFICES ASSUME ArmsIInv, NothingSelected \/ EndSeed PROVE ArmsIInv'
  OBVIOUS
<1>1. /\ \/ phase = "prefix" /\ phase' = "blocked"
         \/ phase = "suffix" /\ phase' = "done"
      /\ attempt = 0
      /\ UNCHANGED <<trial, checkpoints, arm, base, root, fault, cards, reflections,
                     filterVars, pending, trialVars>>
  BY DEF NothingSelected, EndSeed
<1>2. Shapes'
  BY <1>1 DEF ArmsIInv, Shapes, Running, trialVars
<1>3. CardsInOrder' /\ PrefixKeeps' /\ BaseIsWhole'
  BY <1>1 DEF ArmsIInv, CardsInOrder, PrefixKeeps, BaseIsWhole, Running, Written,
              WellWritten, WrittenBy
<1>4. FilterInStep' /\ TrialInStep'
  BY <1>1 DEF ArmsIInv, FilterInStep, TrialInStep, Filtering, Written, filterVars,
              trialVars
<1> QED BY <1>2, <1>3, <1>4 DEF ArmsIInv

\* A stuttering step keeps it.
LEMMA ArmsStutter == ArmsIInv /\ UNCHANGED armsVars => ArmsIInv'
BY DEF ArmsIInv, Shapes, Running, CardsInOrder, WellWritten, NextOrder, Written,
       PrefixKeeps, WrittenBy, BaseIsWhole, FilterInStep, Filtering, TrialInStep,
       ReaderView, armsVars, seedVars, filterVars, trialVars

\* The invariant is inductive.
LEMMA ArmsKeep == ArmsIInv /\ [ArmsNext]_armsVars => ArmsIInv'
<1> SUFFICES ASSUME ArmsIInv, [ArmsNext]_armsVars PROVE ArmsIInv'
  OBVIOUS
<1>1. CASE BeginTrial
  BY <1>1, BeginTrialKeeps
<1>2. CASE EndTrial
  BY <1>2, EndTrialKeeps
<1>3. CASE \E parents \in SUBSET visible : Reflect(parents)
  BY <1>3, ReflectKeeps
<1>4. CASE NothingSelected \/ EndSeed
  BY <1>4, SeedEndKeeps
<1>5. CASE \E i \in 1 .. Tasks : Select(i)
  BY <1>5, SelectKeeps
<1>6. CASE Partition
  BY <1>6, PartitionKeeps
<1>7. CASE BeginArm
  BY <1>7, BeginArmKeeps
<1>8. CASE UNCHANGED armsVars
  BY <1>8, ArmsStutter
<1> QED BY <1>1, <1>2, <1>3, <1>4, <1>5, <1>6, <1>7, <1>8 DEF ArmsNext

-------------------------------------------------------------------------------
(* Newest, as BoundedMemory sees it. *)

\* Entries are ordered by their numbers.
LEMMA Ordered ==
  ASSUME NEW S \in SUBSET Nat
  PROVE  /\ \A x, y \in S : (x > y <=> y < x) /\ (~ (x > y) <=> x <= y) /\ ~ (x < x)
         /\ \A x, y, z \in S : x < y /\ y < z => x < z
         /\ \A x, y \in S : ~ (x < y) /\ x # y => y < x
<1>1. ASSUME NEW x \in S, NEW y \in S
      PROVE  /\ (x > y <=> y < x) /\ (~ (x > y) <=> x <= y) /\ ~ (x < x)
             /\ ~ (x < y) /\ x # y => y < x
  <2>1. x \in Nat /\ y \in Nat
    OBVIOUS
  <2> QED BY <2>1
<1>2. ASSUME NEW x \in S, NEW y \in S, NEW z \in S
      PROVE  x < y /\ y < z => x < z
  <2>1. x \in Nat /\ y \in Nat /\ z \in Nat
    OBVIOUS
  <2> QED BY <2>1
<1> QED BY <1>1, <1>2

\* A memory that is not empty has a newest entry and an oldest one.
LEMMA HasEnds ==
  ASSUME NEW S \in SUBSET Nat, IsFiniteSet(S), S # {}
  PROVE  /\ \E m \in S : \A x \in S : x <= m
         /\ \E m \in S : \A x \in S : m <= x
<1> DEFINE after(e) == {x \in S : x > e}
           before(e) == {x \in S : x < e}
           afters == {after(e) : e \in S}
           befores == {before(e) : e \in S}
<1>1. IsWellFoundedOn(StrictSubsetOrdering(S), SUBSET S)
  BY FS_StrictSubsetOrderingWellFounded, FS_FiniteSubsetsOfFinite
<1>2. afters \subseteq SUBSET S /\ befores \subseteq SUBSET S
  OBVIOUS
<1>3. afters # {} /\ befores # {}
  OBVIOUS
<1>4. \E m \in S : \A x \in S : <<after(x), after(m)>> \notin StrictSubsetOrdering(S)
  <2>1. \E a \in afters : \A b \in afters : ~ (<<b, a>> \in StrictSubsetOrdering(S))
    <3> HIDE DEF afters
    <3> QED BY <1>1, <1>2, <1>3, WFMin
  <2> QED BY <2>1
<1>5. \E m \in S : \A x \in S : <<before(x), before(m)>> \notin StrictSubsetOrdering(S)
  <2>1. \E a \in befores : \A b \in befores : ~ (<<b, a>> \in StrictSubsetOrdering(S))
    <3> HIDE DEF befores
    <3> QED BY <1>1, <1>2, <1>3, WFMin
  <2> QED BY <2>1
<1>6. ASSUME NEW a \in SUBSET S, NEW b \in SUBSET S, a \subseteq b, a # b
      PROVE  <<a, b>> \in StrictSubsetOrdering(S)
  BY <1>6 DEF StrictSubsetOrdering
<1>7. \A m, x \in S : x > m => after(x) \subseteq after(m) /\ x \in after(m) /\ x \notin after(x)
  BY Ordered
<1>8. \A m, x \in S : x < m => before(x) \subseteq before(m) /\ x \in before(m) /\ x \notin before(x)
  BY Ordered
<1>9. \A x \in S : after(x) \in SUBSET S /\ before(x) \in SUBSET S
  OBVIOUS
<1>10. \A m, x \in S : x > m => <<after(x), after(m)>> \in StrictSubsetOrdering(S)
  <2> HIDE DEF after
  <2> QED BY <1>6, <1>7, <1>9
<1>11. \A m, x \in S : x < m => <<before(x), before(m)>> \in StrictSubsetOrdering(S)
  <2> HIDE DEF before
  <2> QED BY <1>6, <1>8, <1>9
<1>12. \E m \in S : \A x \in S : ~ (x > m)
  <2> HIDE DEF after
  <2> QED BY <1>4, <1>10
<1>13. \E m \in S : \A x \in S : ~ (x < m)
  <2> HIDE DEF before
  <2> QED BY <1>5, <1>11
<1> QED BY Ordered, <1>12, <1>13

\* The n newest entries are at most n, all of them if there are no more, and
\* newer than the rest; the newest entry of all is one of them.
LEMMA NewestShows ==
  ASSUME NEW S \in SUBSET Nat, IsFiniteSet(S), NEW n \in Nat \ {0}
  PROVE  /\ \A e \in S \ Newest(S, n), s \in Newest(S, n) : e < s
         /\ Cardinality(Newest(S, n)) <= n
         /\ Newest(S, n) # S => Cardinality(Newest(S, n)) = n
         /\ \A m \in S : (\A x \in S : x <= m) => m \in Newest(S, n)
<1> DEFINE kept == Newest(S, n)
           after(e) == {x \in S : x > e}
<1>1. kept \subseteq S /\ \A e \in S : e \in kept <=> Cardinality(after(e)) < n
  BY DEF Newest
<1>2. \A e \in S : IsFiniteSet(after(e)) /\ Cardinality(after(e)) \in Nat
  BY FS_Subset, FS_CardinalityType
<1>3. IsFiniteSet(kept) /\ Cardinality(kept) \in Nat
  BY <1>1, FS_Subset, FS_CardinalityType
<1>4. \A e \in S \ kept, s \in kept : e < s
  <2> SUFFICES ASSUME NEW e \in S \ kept, NEW s \in kept, ~ (e < s) PROVE FALSE
    OBVIOUS
  <2>1. e # s /\ e \in S /\ s \in S /\ s < e
    BY Ordered, <1>1
  <2>2. after(e) \in SUBSET after(s)
    BY Ordered, <2>1
  <2>3. Cardinality(after(e)) <= Cardinality(after(s))
    BY <2>2, <1>1, <1>2, FS_Subset
  <2> HIDE DEF after
  <2> QED BY <2>1, <2>3, <1>1, <1>2
<1>5. Cardinality(kept) <= n
  <2>1. CASE kept = {}
    BY <2>1, FS_EmptySet
  <2>2. CASE kept # {}
    <3>1. PICK m \in kept : \A x \in kept : m <= x
      BY <2>2, <1>1, <1>3, HasEnds
    <3>2. kept \ {m} \in SUBSET after(m)
      BY <3>1, Ordered, <1>1
    <3>3. Cardinality(kept \ {m}) <= Cardinality(after(m)) /\ Cardinality(after(m)) < n
      BY <3>2, <1>1, <1>2, FS_Subset
    <3>4. Cardinality(kept \ {m}) = Cardinality(kept) - 1
      BY <1>3, <3>1, FS_RemoveElement
    <3>5. m \in S
      BY <1>1
    <3> HIDE DEF after, kept
    <3> QED BY <3>3, <3>4, <3>5, <1>2, <1>3
  <2> QED BY <2>1, <2>2
<1>6. ASSUME kept # S PROVE Cardinality(kept) = n
  <2>1. IsFiniteSet(S \ kept) /\ S \ kept # {} /\ S \ kept \in SUBSET Nat
    BY <1>1, <1>6, FS_Difference
  <2>2. PICK m \in S \ kept : \A x \in S \ kept : x <= m
    BY <2>1, HasEnds
  <2>3. after(m) \in SUBSET kept
    BY Ordered, <2>2
  <2>4. Cardinality(after(m)) <= Cardinality(kept) /\ ~ (Cardinality(after(m)) < n)
    BY <2>2, <2>3, <1>1, <1>3, FS_Subset
  <2> QED BY <2>2, <2>4, <1>2, <1>3, <1>5
<1>7. \A m \in S : (\A x \in S : x <= m) => m \in kept
  <2> SUFFICES ASSUME NEW m \in S, \A x \in S : x <= m PROVE m \in kept
    OBVIOUS
  <2>1. after(m) = {}
    BY Ordered
  <2> QED BY <2>1, <1>1, FS_EmptySet
<1> QED BY <1>4, <1>5, <1>6, <1>7

\* After one more entry than the capacity, the oldest alone leaves.
LEMMA NewestDrops ==
  ASSUME NEW S \in SUBSET Nat, IsFiniteSet(S), NEW n \in Nat \ {0},
         Cardinality(S) <= n + 1
  PROVE  Newest(S, n) = IF Cardinality(S) > n THEN Bounded!DropOldest(S) ELSE S
<1> DEFINE after(e) == {x \in S : x > e}
<1>1. \A e \in S : e \in Newest(S, n) <=> Cardinality(after(e)) < n
  BY DEF Newest
<1>2. Newest(S, n) \subseteq S /\ Bounded!DropOldest(S) \subseteq S
  BY DEF Newest, Bounded!DropOldest
<1>3. \A e \in S : IsFiniteSet(after(e)) /\ Cardinality(after(e)) \in Nat
  BY FS_Subset, FS_CardinalityType
<1>4. Cardinality(S) \in Nat
  BY FS_CardinalityType
<1>5. \A e \in S : Cardinality(S \ {e}) = Cardinality(S) - 1 /\ IsFiniteSet(S \ {e})
  BY FS_RemoveElement
<1>6. \A e \in S : after(e) \in SUBSET (S \ {e})
  OBVIOUS
<1>7. \A e \in S : Cardinality(after(e)) <= Cardinality(S) - 1
  <2> TAKE e \in S
  <2>1. Cardinality(after(e)) <= Cardinality(S \ {e})
    <3> HIDE DEF after
    <3> QED BY <1>5, <1>6, FS_Subset
  <2> QED BY <2>1, <1>5
<1>8. CASE Cardinality(S) <= n
  <2>1. \A e \in S : Cardinality(after(e)) < n
    <3> HIDE DEF after
    <3> QED BY <1>3, <1>4, <1>7, <1>8
  <2>2. Newest(S, n) = S
    BY <2>1, <1>1, <1>2
  <2> QED BY <2>2, <1>4, <1>8
<1>9. CASE Cardinality(S) = n + 1
  <2>1. ASSUME NEW e \in S, NEW x \in S, x < e
        PROVE  e \in Newest(S, n)
    <3>1. after(e) \in SUBSET ((S \ {e}) \ {x})
      BY <2>1
    <3>2. /\ Cardinality((S \ {e}) \ {x}) = n - 1 /\ IsFiniteSet((S \ {e}) \ {x})
      <4>1. IsFiniteSet(S \ {e}) /\ Cardinality(S \ {e}) = n /\ x \in S \ {e}
        BY Ordered, <1>5, <1>9, <2>1
      <4>2. /\ Cardinality((S \ {e}) \ {x}) = Cardinality(S \ {e}) - 1
            /\ IsFiniteSet((S \ {e}) \ {x})
        BY <4>1, FS_RemoveElement
      <4> QED BY <4>1, <4>2
    <3>3. Cardinality(after(e)) <= n - 1
      BY <3>1, <3>2, FS_Subset
    <3> QED BY <3>3, <1>1, <1>3
  <2>2. ASSUME NEW e \in S, \A x \in S : ~ (x < e)
        PROVE  e \notin Newest(S, n)
    <3>1. after(e) = S \ {e}
      BY Ordered, <2>2
    <3>2. Cardinality(after(e)) = n
      BY <3>1, <1>5, <1>9
    <3> QED BY <3>2, <1>1
  <2>3. \A e \in S : e \in Newest(S, n) <=> e \in Bounded!DropOldest(S)
    BY <2>1, <2>2 DEF Bounded!DropOldest
  <2>4. Newest(S, n) = Bounded!DropOldest(S)
    BY <2>3, <1>2
  <2> QED BY <2>4, <1>9
<1> QED BY <1>4, <1>8, <1>9

-------------------------------------------------------------------------------
(* What the implementation of BoundedMemory needs beside. *)

Saved == IF root = 0 THEN {checkpoints[i].held : i \in 1 .. Len(checkpoints)}
         ELSE {base}

\* A view fits, with the root to come; nothing is hidden; and the filter's entries
\* are the checkpoint's, as far as the partition has come.
MemoryFits ==
  /\ Cardinality(ReaderView) <= Capacity
  /\ root # 0 => root - 1 < Capacity
  /\ hidden = {}
  /\ phase = "suffix" => pending = {}
  /\ root # 0 /\ ~ Filtering => active = base \ pending

\* What the reader may see, together with what is written next, is a finite set
\* of numbers with the new one for its newest.
LEMMA ViewShape ==
  ASSUME ArmsIInv, Running, NEW e, e = Len(cards) + 1
  PROVE  /\ ReaderView \in SUBSET Nat /\ IsFiniteSet(ReaderView)
         /\ Cardinality(ReaderView) \in Nat
         /\ ReaderView \cup {e} \in SUBSET Nat /\ IsFiniteSet(ReaderView \cup {e})
         /\ Cardinality(ReaderView \cup {e}) = Cardinality(ReaderView) + 1
         /\ \A x \in ReaderView : x < e
<1>1. Len(cards) \in Nat /\ ReaderView \subseteq 1 .. Len(cards)
  BY ReaderSeesWritten DEF ArmsIInv, Shapes
<1>2. ReaderView \in SUBSET Nat /\ \A x \in ReaderView : x < e
  BY <1>1
<1>3. IsFiniteSet(1 .. Len(cards))
  BY <1>1, FS_Interval
<1>4. IsFiniteSet(ReaderView) /\ Cardinality(ReaderView) \in Nat
  BY <1>1, <1>3, FS_Subset, FS_CardinalityType
<1>5. e \notin ReaderView /\ e \in Nat
  BY <1>1
<1> QED BY <1>2, <1>4, <1>5, FS_AddElement

\* How many the first n entries are.
LEMMA FirstEntries ==
  ASSUME NEW n \in Nat
  PROVE  IsFiniteSet(1 .. n) /\ Cardinality(1 .. n) = n
<1>1. Cardinality(1 .. n) = IF 1 > n THEN 0 ELSE n - 1 + 1
  BY FS_Interval
<1> QED BY <1>1, FS_Interval

\* BoundedMemory counts as this module does.
LEMMA SameCount == ASSUME NEW S PROVE Bounded!Cardinality(S) = Cardinality(S)
BY DEF Bounded!Cardinality, Cardinality

\* A prompt of the newest entries is what the abstract memory shows.
LEMMA PromptShows ==
  ASSUME NEW S \in SUBSET Nat, IsFiniteSet(S)
  PROVE  Bounded!Shows(Newest(S, Window), S)
<1>1. Window \in Nat \ {0}
  BY ArmsAssumption DEF ArmsAssumption
<1>2. /\ \A e \in S \ Newest(S, Window), s \in Newest(S, Window) : e < s
      /\ Cardinality(Newest(S, Window)) <= Window
      /\ Newest(S, Window) # S => Cardinality(Newest(S, Window)) = Window
  BY <1>1, NewestShows
<1>3. Newest(S, Window) \subseteq S
  BY NewestIsPart
<1> QED BY <1>2, <1>3, SameCount DEF Bounded!Shows

\* The first trial has nothing to show.
LEMMA FitsAtStart == ArmsInit => MemoryFits
BY ArmsAssumption, FS_EmptySet DEF ArmsAssumption, ArmsInit, MemoryFits, ReaderView,
   Filtering

\* The view after a reflection is as BoundedMemory learns.
LEMMA ReflectLearns ==
  ASSUME NEW parents \in SUBSET visible, ArmsIInv, MemoryFits, Reflect(parents),
         NEW e, e = Len(cards) + 1
  PROVE  /\ ReaderView' = Newest(ReaderView \cup {e}, Capacity)
         /\ ReaderView' \in SUBSET Nat /\ IsFiniteSet(ReaderView')
         /\ e \in ReaderView' /\ Cardinality(ReaderView') <= Capacity
         /\ ReaderView' = IF Cardinality(ReaderView \cup {e}) > Capacity
                          THEN Bounded!DropOldest(ReaderView \cup {e})
                          ELSE ReaderView \cup {e}
<1> DEFINE grown == ReaderView \cup {e}
<1>1. ReaderView' = grown \ (grown \ Newest(grown, Capacity)) /\ Running
  BY ReflectDoes DEF Attempting, Running
<1>2. ReaderView' = Newest(grown, Capacity)
  BY <1>1, NewestIsPart
<1>3. /\ grown \in SUBSET Nat /\ IsFiniteSet(grown) /\ \A x \in ReaderView : x < e
      /\ Cardinality(grown) = Cardinality(ReaderView) + 1
      /\ Cardinality(ReaderView) \in Nat /\ Capacity \in Nat \ {0}
  BY <1>1, ViewShape, ArmsAssumption DEF ArmsAssumption
<1>4. Cardinality(grown) <= Capacity + 1
  BY <1>3 DEF MemoryFits
<1>5. e \in grown /\ \A x \in grown : x <= e
  BY <1>3
<1> HIDE DEF grown
<1>6. e \in Newest(grown, Capacity) /\ Cardinality(Newest(grown, Capacity)) <= Capacity
  <2>1. /\ Newest(grown, Capacity) # grown => Cardinality(Newest(grown, Capacity)) = Capacity
        /\ Cardinality(Newest(grown, Capacity)) <= Capacity
        /\ \A m \in grown : (\A x \in grown : x <= m) => m \in Newest(grown, Capacity)
    BY <1>3, NewestShows
  <2> QED BY <2>1, <1>5
<1>7. Newest(grown, Capacity) =
        IF Cardinality(grown) > Capacity THEN Bounded!DropOldest(grown) ELSE grown
  BY <1>3, <1>4, NewestDrops
<1>8. Newest(grown, Capacity) \in SUBSET grown
  BY NewestIsPart
<1>9. IsFiniteSet(Newest(grown, Capacity)) /\ Newest(grown, Capacity) \in SUBSET Nat
  BY <1>3, <1>8, FS_Subset
<1> QED BY <1>2, <1>6, <1>7, <1>9 DEF grown

\* What is selected leaves room for the root.
LEMMA SelectDoes ==
  ASSUME NEW i \in 1 .. Tasks, ArmsIInv, Select(i)
  PROVE  /\ phase' = "partition" /\ attempt = 0 /\ root = 0
         /\ i \in 1 .. Len(checkpoints) /\ base' = checkpoints[i].held
         /\ root' \in Nat \ {0} /\ base' = 1 .. root' - 1 /\ root' - 1 < Capacity
         /\ pending' = base' \cup {root'}
         /\ UNCHANGED <<arm, fault, active, reflections, trialVars>>
<1> DEFINE n == checkpoints[i].written
<1>1. phase = "prefix" /\ trial > Tasks /\ Mature(i) /\ attempt = 0
  BY DEF Select
<1>2. /\ i \in 1 .. Len(checkpoints) /\ n \in 0 .. Len(cards)
      /\ checkpoints[i].held = 1 .. n /\ Restorable(checkpoints[i].held)
  BY <1>1, MatureRestores
<1>3. /\ phase' = "partition" /\ base' = checkpoints[i].held /\ root' = n + 1
      /\ pending' = base' \cup {n + 1}
      /\ UNCHANGED <<arm, fault, active, reflections, trialVars>>
  BY <1>2 DEF Select
<1>4. n \in Nat /\ root = 0
  BY <1>1, <1>2 DEF ArmsIInv, Shapes
<1>5. n < Capacity
  <2>1. Cardinality(1 .. n) = n
    BY <1>4, FirstEntries
  <2> QED BY <1>1, <1>2, <1>4, <2>1, ArmsAssumption DEF ArmsAssumption, Mature
<1> QED BY <1>1, <1>2, <1>3, <1>4, <1>5

\* What the arm that begins may see.
LEMMA BeginArmDoes ==
  ASSUME ArmsIInv, MemoryFits, BeginArm
  PROVE  /\ attempt = 0 /\ root \in Nat \ {0} /\ base = 1 .. root - 1
         /\ phase' = "suffix" /\ arm' \in {"clean", "contam", "filter"}
         /\ ReaderView' = IF arm' = "contam" THEN base \cup {root} ELSE base
         /\ pending' = {} /\ active' = base
         /\ UNCHANGED <<checkpoints, base, root, trialVars>>
<1>1. /\ phase' = "suffix" /\ arm' = NextArm[arm]
      /\ reflections' = IF arm' = "clean" THEN base ELSE base \cup {root}
      /\ UNCHANGED <<checkpoints, base, root, fault, filterVars, pending, trialVars>>
  BY DEF BeginArm
<1>2. /\ \/ arm = "prefix" /\ arm' = "clean"
         \/ arm = "clean" /\ arm' = "contam"
         \/ arm = "contam" /\ arm' = "filter"
      /\ root \in Nat \ {0} /\ attempt = 0 /\ base = 1 .. root - 1
  BY <1>1 DEF BeginArm, ArmsIInv, Shapes, Running, NextArm, Filtering, BaseIsWhole
<1>3. pending = {} /\ active = base
  BY <1>2 DEF BeginArm, MemoryFits, Filtering
<1> QED BY <1>1, <1>2, <1>3 DEF ReaderView, Filtering, filterVars

\* The memory fits at every step.
LEMMA MemoryKeepsFitting ==
  ASSUME ArmsIInv, MemoryFits, [ArmsNext]_armsVars
  PROVE  MemoryFits'
<1>1. CASE BeginTrial \/ EndTrial \/ UNCHANGED armsVars
  <2>1. /\ UNCHANGED <<arm, root, base, reflections, filterVars, pending>>
        /\ hidden' \in {hidden, {}} /\ phase' = phase
    BY <1>1, ReaderSeesHeld DEF BeginTrial, EndTrial, TrialEnds, armsVars, seedVars,
       trialVars
  <2> QED BY <2>1 DEF MemoryFits, ReaderView, Filtering, filterVars
<1>2. CASE \E parents \in SUBSET visible : Reflect(parents)
  <2> DEFINE e == Len(cards) + 1
  <2> HIDE DEF e
  <2>1. PICK parents \in SUBSET visible : Reflect(parents)
    BY <1>2
  <2>2. Cardinality(ReaderView') <= Capacity
    BY <2>1, ReflectLearns DEF e
  <2>3. /\ UNCHANGED <<phase, arm, base, root, pending>>
        /\ IF attempt = MaxAttempts THEN TrialEnds ELSE NextAttempt(e)
        /\ ~ Hides(e) /\ (~ Filtering => active' = active)
    BY <2>1, ReflectDoes DEF e
  <2>4. hidden' = {}
    BY <2>3 DEF MemoryFits, TrialEnds, NextAttempt, HiddenAfter
  <2> QED BY <2>2, <2>3, <2>4 DEF MemoryFits, Filtering
<1>3. CASE NothingSelected \/ EndSeed
  BY <1>3 DEF NothingSelected, EndSeed, MemoryFits, ReaderView, Filtering, filterVars,
              trialVars
<1>4. CASE \E i \in 1 .. Tasks : Select(i)
  <2>1. PICK i \in 1 .. Tasks : Select(i)
    BY <1>4
  <2>2. /\ phase' = "partition" /\ root = 0
        /\ root' \in Nat \ {0} /\ base' = 1 .. root' - 1 /\ root' - 1 < Capacity
        /\ pending' = base' \cup {root'}
        /\ UNCHANGED <<arm, active, reflections, trialVars>>
    BY <2>1, SelectDoes
  <2>3. active = {} /\ ~ Filtering
    BY <2>2 DEF ArmsIInv, Shapes, FilterInStep, BaseIsWhole, Filtering
  <2> QED BY <2>2, <2>3 DEF MemoryFits, ReaderView, Filtering, trialVars
<1>5. CASE Partition
  <2>1. /\ phase = "partition" /\ arm = "prefix" /\ root # 0 /\ root \in Nat
        /\ UNCHANGED <<seedVars, cards, reflections, evidence, trialVars>>
        /\ base = 1 .. root - 1
    BY <1>5, PartitionDoes
  <2>2. PICK e \in pending :
          /\ pending' = pending \ {e}
          /\ \/ e \in base /\ active' = active \cup {e}
             \/ e = root /\ active' = active
    BY <1>5, PartitionDoes
  <2>3. active = base \ pending
    BY <2>1 DEF MemoryFits, Filtering
  <2>4. active' = base \ pending'
    BY <2>1, <2>2, <2>3
  <2> QED BY <2>1, <2>4 DEF MemoryFits, ReaderView, Filtering, seedVars, trialVars
<1>6. CASE BeginArm
  <2>1. /\ root \in Nat \ {0} /\ base = 1 .. root - 1 /\ root - 1 < Capacity
        /\ ReaderView' = IF arm' = "contam" THEN base \cup {root} ELSE base
        /\ pending' = {} /\ active' = base
        /\ UNCHANGED <<base, root, trialVars>>
    BY <1>6, BeginArmDoes DEF MemoryFits
  <2>2. base \cup {root} = 1 .. root /\ root - 1 \in Nat /\ root \in Nat
    BY <2>1
  <2>3. Cardinality(base) = root - 1 /\ Cardinality(base \cup {root}) = root
    BY <2>1, <2>2, FirstEntries
  <2>4. Cardinality(ReaderView') <= Capacity
    BY <2>1, <2>2, <2>3, ArmsAssumption DEF ArmsAssumption
  <2> QED BY <2>1, <2>4 DEF MemoryFits, trialVars
<1> QED BY <1>1, <1>2, <1>3, <1>4, <1>5, <1>6 DEF ArmsNext

-------------------------------------------------------------------------------
(* The implementation of BoundedMemory, step by step. *)

\* The arms start as the abstract memory does.
LEMMA ArmsStartBounded == ArmsInit => Bounded!BoundedInit
BY DEF ArmsInit, Bounded!BoundedInit, ReaderView, Filtering

\* A trial begins with the newest entries for its prompt.
LEMMA BeginIsAttempt ==
  ASSUME ArmsIInv, BeginTrial PROVE Bounded!Attempt
<1>1. /\ attempt = 0 /\ attempt' = 1 /\ Running
      /\ visible' = Newest(ReaderView, Window)
      /\ UNCHANGED <<arm, root, base, checkpoints, reflections, active>>
  BY ReaderSeesHeld DEF BeginTrial, Running, seedVars, filterVars
<1>2. ReaderView \in SUBSET Nat /\ IsFiniteSet(ReaderView)
  BY <1>1, ViewShape
<1>3. Bounded!Shows(visible', ReaderView)
  BY <1>1, <1>2, PromptShows
<1>4. UNCHANGED <<ReaderView, Saved, arm = "contam">>
  BY <1>1 DEF ReaderView, Filtering, Saved
<1> QED BY <1>1, <1>3, <1>4 DEF Bounded!Attempt, Saved

\* The checkpoint of a prefix trial saves what the trial leaves.
LEMMA TrialEndSaves ==
  ASSUME ArmsIInv, Attempting, TrialEnds
  PROVE  /\ Bounded!Stop /\ UNCHANGED (arm = "contam")
         /\ Saved' \in {Saved, Saved \cup {ReaderView'}}
<1> DEFINE last == [held |-> reflections', written |-> Len(cards')]
<1>1. /\ attempt' = 0 /\ visible' = {} /\ UNCHANGED <<phase, arm, base, root>>
      /\ checkpoints' = IF arm = "prefix" THEN Append(checkpoints, last) ELSE checkpoints
      /\ Running
  BY DEF TrialEnds, Attempting, Running
<1>2. Bounded!Stop
  BY <1>1 DEF Bounded!Stop
<1>3. CASE arm # "prefix"
  BY <1>1, <1>2, <1>3 DEF Saved
<1>4. CASE arm = "prefix"
  <2>1. root = 0 /\ ReaderView' = reflections'
    BY <1>1, <1>4 DEF ArmsIInv, Shapes, Running, ReaderView, Filtering
  <2>2. checkpoints \in Seq([held : SUBSET Nat, written : Nat])
    BY DEF ArmsIInv, Shapes
  <2>3. /\ Len(checkpoints') = Len(checkpoints) + 1 /\ Len(checkpoints) \in Nat
        /\ checkpoints'[Len(checkpoints) + 1] = last
        /\ \A i \in 1 .. Len(checkpoints) : checkpoints'[i] = checkpoints[i]
    <3>1. ASSUME NEW S, checkpoints \in Seq(S)
          PROVE  /\ Len(checkpoints') = Len(checkpoints) + 1 /\ Len(checkpoints) \in Nat
                 /\ checkpoints'[Len(checkpoints) + 1] = last
                 /\ \A i \in 1 .. Len(checkpoints) : checkpoints'[i] = checkpoints[i]
      <4> HIDE DEF last
      <4> QED BY <1>1, <1>4, <3>1
    <3> QED BY <2>2, <3>1
  <2>4. last.held = reflections'
    OBVIOUS
  <2> HIDE DEF last
  <2>5. Saved = {checkpoints[i].held : i \in 1 .. Len(checkpoints)}
    BY <2>1 DEF Saved
  <2>6. Saved' = {checkpoints'[i].held : i \in 1 .. Len(checkpoints) + 1}
    BY <1>1, <2>1, <2>3 DEF Saved
  <2>7. \A i \in 1 .. Len(checkpoints) + 1 :
          i \in 1 .. Len(checkpoints) \/ i = Len(checkpoints) + 1
    BY <2>3
  <2>8. \A i \in 1 .. Len(checkpoints) : i \in 1 .. Len(checkpoints) + 1
    BY <2>3
  <2>9. Len(checkpoints) + 1 \in 1 .. Len(checkpoints) + 1
    BY <2>3
  <2>10. Saved' = Saved \cup {ReaderView'}
    BY <2>1, <2>3, <2>4, <2>5, <2>6, <2>7, <2>8, <2>9
  <2> QED BY <1>1, <1>2, <2>10
<1> QED BY <1>3, <1>4

\* A trial that ends without a reflection gives up.
LEMMA EndIsGiveUp ==
  ASSUME ArmsIInv, EndTrial PROVE Bounded!GiveUp
<1>1. /\ Attempting /\ attempt > 0 /\ TrialEnds
      /\ UNCHANGED <<reflections, filterVars, arm>>
  BY DEF EndTrial, Attempting, TrialEnds
<1>2. ReaderView' = ReaderView
  BY <1>1 DEF ReaderView, Filtering, filterVars
<1> QED BY <1>1, <1>2, TrialEndSaves DEF Bounded!GiveUp, Saved

\* A reflection is learnt, and the next prompt made of what is left.
LEMMA ReflectIsLearn ==
  ASSUME NEW parents \in SUBSET visible, ArmsIInv, MemoryFits, Reflect(parents)
  PROVE  Bounded!Learn
<1> DEFINE e == Len(cards) + 1
<1> HIDE DEF e
<1>1. /\ Attempting /\ attempt > 0 /\ UNCHANGED <<arm, base, root>>
      /\ IF attempt = MaxAttempts THEN TrialEnds ELSE NextAttempt(e)
      /\ ~ Hides(e) /\ legacy = ReaderView
      /\ ReaderView' = (ReaderView \cup {e}) \ Evicted(e)
  BY ReflectDoes DEF e
<1>2. /\ e \in ReaderView' /\ ReaderView' \in SUBSET Nat /\ IsFiniteSet(ReaderView')
      /\ ReaderView' = IF Cardinality(ReaderView \cup {e}) > Capacity
                       THEN Bounded!DropOldest(ReaderView \cup {e})
                       ELSE ReaderView \cup {e}
  BY ReflectLearns DEF e
<1>3. Bounded!Newer(e, ReaderView)
  BY <1>1, ViewShape DEF e, Attempting, Running, Bounded!Newer
<1>4. \/ attempt' > 0 /\ Bounded!Shows(visible', ReaderView') /\ Saved' = Saved
      \/ Bounded!Stop /\ Saved' \in {Saved, Saved \cup {ReaderView'}}
  <2>1. CASE attempt = MaxAttempts
    BY <1>1, <2>1, TrialEndSaves
  <2>2. CASE attempt # MaxAttempts
    <3>1. /\ attempt' = attempt + 1 /\ UNCHANGED seedVars
          /\ legacy' = LegacyAfter(e) /\ hidden' = HiddenAfter(e)
          /\ visible' = Newest(legacy' \ hidden', Window)
      BY <1>1, <2>2 DEF NextAttempt
    <3>2. legacy' = ReaderView' /\ hidden' = {}
      BY <1>1, <3>1 DEF LegacyAfter, HiddenAfter, MemoryFits
    <3>3. Bounded!Shows(visible', ReaderView')
      BY <1>2, <3>1, <3>2, PromptShows
    <3>4. attempt' > 0
      BY <1>1, <3>1, ArmsAssumption DEF ArmsAssumption, ArmsIInv, Shapes
    <3> QED BY <3>1, <3>3, <3>4 DEF Saved, seedVars
  <2> QED BY <2>1, <2>2
<1>5. UNCHANGED (arm = "contam")
  BY <1>1
<1> QED BY <1>1, <1>2, <1>3, <1>4, <1>5, SameCount DEF Bounded!Learn, Saved

\* The selected checkpoint is one of those saved.
LEMMA SelectIsChoose ==
  ASSUME NEW i \in 1 .. Tasks, ArmsIInv, Select(i)
  PROVE  Bounded!Choose
<1>1. /\ attempt = 0 /\ root = 0 /\ root' # 0 /\ i \in 1 .. Len(checkpoints)
      /\ base' = checkpoints[i].held
      /\ UNCHANGED <<arm, active, reflections, trialVars>>
  BY SelectDoes
<1>2. checkpoints[i].held \in Saved /\ Saved' = {checkpoints[i].held}
  BY <1>1 DEF Saved
<1>3. ReaderView' = ReaderView
  BY <1>1 DEF ReaderView, Filtering
<1>4. \E v \in Saved : Saved' = {v}
  BY <1>2
<1>5. ~ (attempt > 0)
  BY <1>1
<1>6. UNCHANGED <<ReaderView, visible, attempt > 0, arm = "contam">>
  BY <1>1, <1>3 DEF trialVars
<1> QED BY <1>4, <1>5, <1>6 DEF Bounded!Choose, Saved

\* Every arm starts from the one that was chosen.
LEMMA BeginArmIsStart ==
  ASSUME ArmsIInv, MemoryFits, BeginArm PROVE Bounded!Start
<1>1. /\ attempt = 0 /\ root \in Nat \ {0} /\ base = 1 .. root - 1
      /\ ReaderView' = IF arm' = "contam" THEN base \cup {root} ELSE base
      /\ UNCHANGED <<checkpoints, base, root, trialVars>>
  BY BeginArmDoes
<1>2. Saved = {base} /\ Saved' = Saved
  BY <1>1 DEF Saved
<1>3. Bounded!Newer(root, base)
  BY <1>1 DEF Bounded!Newer
<1>4. arm' = "contam" => root \in ReaderView'
  BY <1>1
<1> QED BY <1>1, <1>2, <1>3, <1>4 DEF Bounded!Start, Saved, trialVars

\* Every step of the arms is a step of the abstract memory, or none.
LEMMA ArmsStepBounded ==
  ASSUME ArmsIInv, MemoryFits, [ArmsNext]_armsVars
  PROVE  [Bounded!BoundedNext]_(Bounded!boundedVars)
<1> USE DEF Bounded!BoundedNext
<1>1. CASE BeginTrial
  BY <1>1, BeginIsAttempt
<1>2. CASE EndTrial
  BY <1>2, EndIsGiveUp
<1>3. CASE \E parents \in SUBSET visible : Reflect(parents)
  BY <1>3, ReflectIsLearn
<1>4. CASE \E i \in 1 .. Tasks : Select(i)
  BY <1>4, SelectIsChoose
<1>5. CASE BeginArm
  BY <1>5, BeginArmIsStart
<1>6. CASE NothingSelected \/ EndSeed \/ Partition \/ UNCHANGED armsVars
  <2>1. UNCHANGED <<checkpoints, arm, base, root, reflections, attempt, visible>>
    BY <1>6 DEF NothingSelected, EndSeed, Partition, armsVars, seedVars, trialVars
  <2>2. active' = active \/ ~ Filtering
    <3>1. Partition => arm = "prefix"
      BY PartitionDoes
    <3> QED BY <1>6, <3>1 DEF NothingSelected, EndSeed, armsVars, filterVars, Filtering
  <2>3. ReaderView' = ReaderView
    BY <2>1, <2>2 DEF ReaderView, Filtering
  <2> QED BY <2>1, <2>3 DEF Bounded!boundedVars
<1> QED BY <1>1, <1>2, <1>3, <1>4, <1>5, <1>6 DEF ArmsNext

-------------------------------------------------------------------------------
(* The theorems. *)

\* The invariant holds in every reachable state.
LEMMA ArmsInvariant == ArmsSpec => []ArmsIInv
BY ArmsStart, ArmsKeep, PTL DEF ArmsSpec

\* FUTURE_REFLECTION_ACCESS and FILTER_ACTIVE_REFLECTION_MISSING are never
\* raised: the checkpoint that _select_common_eligible takes restores, a
\* reflection cites entries its arm held, and what the filter calls active is in
\* the state it filters.
THEOREM ArmsNoContractError == ArmsSpec => []NoContractError
<1>1. ArmsIInv => NoContractError
  BY DEF ArmsIInv, Shapes, NoContractError
<1> QED BY <1>1, ArmsInvariant, PTL

\* Whatever trials cite and whatever is evicted, the filter arm shows nothing
\* that descends from the injected root, and holds back the root alone.
THEOREM ArmsFilterIsExact == ArmsSpec => []FilterIsExact
<1>1. ArmsIInv => FilterIsExact
  <2> SUFFICES ASSUME ArmsIInv PROVE FilterIsExact
    OBVIOUS
  <2>1. root \in Nat /\ root \notin evidence
    BY DEF ArmsIInv, Shapes, FilterInStep, Written
  <2>2. evidence \ quarantined = evidence /\ quarantined \subseteq {root}
    BY <2>1 DEF ArmsIInv, FilterInStep
  <2> QED BY <2>1, <2>2 DEF ArmsIInv, FilterInStep, FilterIsExact
<1> QED BY <1>1, ArmsInvariant, PTL

\* The memory fits in every reachable state.
LEMMA ArmsFit == ArmsSpec => []MemoryFits
<1>1. MemoryFits /\ ArmsIInv /\ [ArmsNext]_armsVars => MemoryFits'
  BY MemoryKeepsFitting
<1> QED BY <1>1, FitsAtStart, ArmsInvariant, PTL DEF ArmsSpec

\* The three lists of an arm, its eviction, its quarantine and its checkpoints
\* amount to one bounded memory: prompts show its newest entries, nothing but its
\* oldest is ever lost, all arms start from one checkpoint, and the filter arm
\* from the same view as the clean one.
THEOREM ArmsImplement == ArmsSpec => ArmsImplementMemory
<1>1. ArmsIInv /\ MemoryFits /\ [ArmsNext]_armsVars
        => [Bounded!BoundedNext]_(Bounded!boundedVars)
  BY ArmsStepBounded
<1> QED BY <1>1, ArmsStartBounded, ArmsInvariant, ArmsFit, PTL
        DEF ArmsSpec, ArmsImplementMemory, Bounded!BoundedSpec

-------------------------------------------------------------------------------
(* The inductive invariant of ArmEvidence. *)

\* The numbers up to n are finitely many.
LEMMA UpTo ==
  ASSUME NEW n \in Nat
  PROVE  IsFiniteSet(1 .. n) /\ 1 .. n \subseteq Nat
<1>1. IsFiniteSet(1 .. n)
  BY FS_Interval
<1> QED BY <1>1

\* The entries there are.
Known == 1 .. Len(lineage)

LineageCards ==
  [parents : SUBSET Nat, predecessor : Nat, component : {"strategy", "archive", "entry"}]

\* Every reference is to an earlier entry.
LineageInOrder ==
  /\ lineage \in Seq(LineageCards)
  /\ \A e \in Known : References(e) \subseteq 1 .. e - 1
  /\ injectedRoot \in Known

Failures == {"none", "invalid_answer", "provider_call_failed", "invalid_reflection"}

TrialRows ==
  [before : SUBSET Nat, after : SUBSET Nat, shown : SUBSET Nat, context : BOOLEAN,
   failure : Failures, callFailed : BOOLEAN, known : SUBSET Nat]

UnitShape ==
  /\ baseline \in {"dc_rs", "reflexion_style", "bot_style", "fh_bounded"}
  /\ capacity \in Nat \ {0}
  /\ store \subseteq Known
  /\ provenance \cup nativeReflections = Known
  /\ rows \in Seq(TrialRows)
  /\ outcome \in {"running", "ended", "aborted", "archived", "refused"}

\* Within a Reflexion trial: the prompt shows the newest of the memory, and what
\* the trial wrote so far is in it.
AttemptInStep ==
  /\ attemptIndex \in 0 .. MaxAttempts
  /\ attemptIndex > 0 =>
       /\ baseline = "reflexion_style" /\ memoryBefore \subseteq Known
       /\ visibleEntries = Newest(store, Window)
       /\ store \ memoryBefore \subseteq nativeReflections
       /\ nativeReflections \subseteq visibleEntries
  /\ attemptIndex # 2 => nativeReflections = {}

\* The memory the last trial left.
MemoryAtRest == IF attemptIndex > 0 THEN memoryBefore ELSE store

\* What a row says is on record with all its ancestors; every change has its
\* context; and a new entry was shown, or names only what was.
RowStands(r) ==
  /\ injectedRoot \in r.known /\ r.known \subseteq Known
  /\ \A e \in r.known : References(e) \subseteq r.known
  /\ r.before \cup r.after \cup r.shown \subseteq r.known
  /\ r.context \/ (r.before = r.after /\ ~ Completed(r))
  /\ baseline # "fh_bounded" =>
       \A e \in Fresh(r) : e \in r.shown \/ References(e) \subseteq r.shown

\* The rows follow each other, and only the last one may have failed.
RowsInSequence ==
  /\ \A i \in DOMAIN rows : RowStands(rows[i])
  /\ \A i \in DOMAIN rows : Completed(rows[i]) \/ (i = Len(rows) /\ outcome # "running")
  /\ \A i \in DOMAIN rows : i > 1 => rows[i].before = rows[i - 1].after
  /\ rows # << >> => rows[Len(rows)].after = MemoryAtRest

\* What was in memory after a row, and what was written since.
Since(r) == r.after \cup (Known \ r.known)

\* Nothing else is held, shown or named any more.
NothingReturns ==
  \A i \in DOMAIN rows :
    /\ store \subseteq Since(rows[i])
    /\ \A e \in Known \ rows[i].known : References(e) \subseteq Since(rows[i])
    /\ \A j \in DOMAIN rows :
         i < j => rows[j].after \cup rows[j].shown \subseteq Since(rows[i])

\* What has left a memory is older than all it holds.
OldestLeft(from, to) == \A e \in from \ to, x \in to : e < x

OldestLeave ==
  \A i \in DOMAIN rows :
    /\ OldestLeft(rows[i].after, store)
    /\ \A j \in DOMAIN rows : i < j => OldestLeft(rows[i].after, rows[j].after)

\* A later prompt shows, and a later reflection names, only what the prompt of
\* the row showed or what came after it, old being what there was before.
PromptMovesOn(i, old) ==
  LET later == rows[i].shown \cup (Known \ old)
  IN /\ injectedRoot \in old /\ rows[i].shown \subseteq old
     /\ \A e \in Known \ old : References(e) \subseteq later
     /\ Newest(store, Window) \subseteq later
     /\ \A j \in DOMAIN rows : i < j => rows[j].shown \subseteq later

WindowMovesOn ==
  baseline = "reflexion_style" =>
    \A i \in DOMAIN rows : \E old \in SUBSET rows[i].known : PromptMovesOn(i, old)

\* A DC trial shows the strategy it writes, which names the one before it and is
\* named by the pair that is written with it.
StrategyOf(r, s) ==
  /\ r.shown = {s} /\ Fresh(r) = {s, s + 1}
  /\ s + 1 \in Known /\ s \in References(s + 1)

StrategiesFollow ==
  baseline = "dc_rs" =>
    /\ \A i \in Included : \E s \in Known : StrategyOf(rows[i], s)
    /\ \A i \in Included :
         i > 1 => \A x \in rows[i - 1].shown, s \in rows[i].shown : x \in References(s)
    /\ Len(rows) \in Included => rows[Len(rows)].shown = {PriorStrategy}

RefusedForCause ==
  outcome = "refused" => \E i \in DOMAIN rows : TerminalCallRequired(rows[i])

RecordIInv ==
  /\ LineageInOrder /\ UnitShape /\ AttemptInStep /\ RowsInSequence
  /\ NothingReturns /\ OldestLeave /\ WindowMovesOn /\ StrategiesFollow
  /\ RefusedForCause

-------------------------------------------------------------------------------
(* Descent. *)

\* What Descent defines by recursion.
Follows(f, targets) ==
  f = [e \in Known |-> e \in targets \/ \E x \in References(e) : f[x]]

LEMMA DescentIsChosen ==
  ASSUME NEW targets
  PROVE  Descent(targets) = {e \in Known : (CHOOSE f : Follows(f, targets))[e]}
BY DEF Descent, Follows, Known

\* There is such a function: an entry descends from the targets if it is in every
\* set that is closed under following references.
LEMMA FollowsExists ==
  ASSUME LineageInOrder, NEW targets
  PROVE  \E f : Follows(f, targets)
<1> DEFINE In(e, C) == e \in targets \/ \E x \in References(e) : x \in C
           Closed(C) == \A e \in Known : In(e, C) => e \in C
           D == {e \in Known : \A C \in SUBSET Known : Closed(C) => e \in C}
<1>1. ASSUME NEW e \in Known, In(e, D) PROVE e \in D
  <2> SUFFICES ASSUME NEW C \in SUBSET Known, Closed(C) PROVE e \in C
    OBVIOUS
  <2>1. D \subseteq C
    OBVIOUS
  <2>2. In(e, C)
    <3> HIDE DEF D
    <3> QED BY <1>1, <2>1
  <2> QED BY <2>2
<1>2. ASSUME NEW e \in D PROVE In(e, D)
  <2> SUFFICES ASSUME ~ In(e, D) PROVE FALSE
    OBVIOUS
  <2> DEFINE C == D \ {e}
  <2>1. C \in SUBSET Known /\ e \in Known
    OBVIOUS
  <2>2. Closed(C)
    <3> SUFFICES ASSUME NEW y \in Known, In(y, C) PROVE y \in C
      OBVIOUS
    <3>1. In(y, D)
      <4> HIDE DEF D
      <4> QED OBVIOUS
    <3>2. y \in D
      <4> HIDE DEF D
      <4> QED BY <1>1, <3>1
    <3> QED BY <3>1, <3>2
  <2>3. e \in C
    <3> HIDE DEF C, Closed
    <3> QED BY <2>1, <2>2
  <2> QED BY <2>3
<1> HIDE DEF D
<1>3. \A e \in Known : e \in D <=> In(e, D)
  BY <1>1, <1>2
<1> DEFINE f == [e \in Known |-> e \in D]
<1>4. \A e \in Known : References(e) \subseteq Known
  BY DEF LineageInOrder, Known
<1>5. \A e \in Known : (e \in D) = (e \in targets \/ \E x \in References(e) : f[x])
  <2> TAKE e \in Known
  <2>1. \A x \in References(e) : f[x] = (x \in D)
    BY <1>4
  <2> HIDE DEF f
  <2>2. (\E x \in References(e) : f[x]) <=> \E x \in References(e) : x \in D
    BY <2>1
  <2>3. e \in D <=> e \in targets \/ \E x \in References(e) : f[x]
    BY <1>3, <2>2
  <2>4. CASE e \in D
    BY <2>3, <2>4
  <2>5. CASE e \notin D
    BY <2>3, <2>5
  <2> QED BY <2>4, <2>5
<1>6. f = [e \in Known |-> e \in targets \/ \E x \in References(e) : f[x]]
  <2> DEFINE g(e) == e \in targets \/ \E x \in References(e) : f[x]
  <2>1. \A e \in Known : (e \in D) = g(e)
    BY <1>5
  <2> HIDE DEF g
  <2>2. [e \in Known |-> e \in D] = [e \in Known |-> g(e)]
    BY <2>1
  <2> QED BY <2>2 DEF g
<1> HIDE DEF f
<1> QED BY <1>6 DEF Follows

\* The targets and what refers to what descends from them.
LEMMA DescentIs ==
  ASSUME LineageInOrder, NEW targets
  PROVE  /\ Descent(targets) \subseteq Known
         /\ \A e \in Known :
              e \in Descent(targets) <=>
                e \in targets \/ \E x \in References(e) : x \in Descent(targets)
<1> DEFINE f == CHOOSE f : Follows(f, targets)
<1>1. Follows(f, targets)
  BY FollowsExists
<1>2. Descent(targets) = {e \in Known : f[e]}
  BY DescentIsChosen
<1>3. \A e \in Known : f[e] <=> e \in targets \/ \E x \in References(e) : f[x]
  <2> DEFINE g(e) == e \in targets \/ \E x \in References(e) : f[x]
  <2>1. f = [e \in Known |-> g(e)]
    BY <1>1 DEF Follows
  <2> HIDE DEF f, g
  <2>2. \A e \in Known : f[e] = g(e)
    BY <2>1
  <2> QED BY <2>2 DEF g
<1>4. \A e \in Known : References(e) \subseteq Known
  BY DEF LineageInOrder, Known
<1> HIDE DEF f
<1>5. \A e \in Known : e \in Descent(targets) <=> f[e]
  BY <1>2
<1>6. ASSUME NEW e \in Known
      PROVE  (\E x \in References(e) : f[x]) <=> \E x \in References(e) : x \in Descent(targets)
  BY <1>4, <1>5
<1> QED BY <1>2, <1>3, <1>5, <1>6

\* A set of entries has a first one.
LEMMA FirstOf ==
  ASSUME NEW S \in SUBSET Known, S # {}, LineageInOrder
  PROVE  \E m \in S : \A x \in S : m <= x
<1>1. Len(lineage) \in Nat
  BY DEF LineageInOrder
<1>2. IsFiniteSet(Known) /\ Known \subseteq Nat
  BY <1>1, UpTo DEF Known
<1>3. IsFiniteSet(S) /\ S \in SUBSET Nat
  BY <1>2, FS_Subset
<1> QED BY <1>3, HasEnds

\* Nothing descends from the root in a set without it that every later entry of
\* the set refers into.
LEMMA CleanStays ==
  ASSUME LineageInOrder, NEW old \in SUBSET Known, NEW held,
         injectedRoot \in old, held \cap Descent({injectedRoot}) = {},
         \A e \in Known \ old : References(e) \subseteq held \cup (Known \ old)
  PROVE  (held \cup (Known \ old)) \cap Descent({injectedRoot}) = {}
<1> DEFINE D == Descent({injectedRoot})
           S == (Known \ old) \cap D
<1> SUFFICES ASSUME S # {} PROVE FALSE
  OBVIOUS
<1>1. PICK m \in S : \A x \in S : m <= x
  <2>1. S \in SUBSET Known
    OBVIOUS
  <2> HIDE DEF S
  <2> QED BY <2>1, FirstOf
<1>2. PICK x \in References(m) : x \in D
  <2>1. m \in Known /\ m \in D /\ m # injectedRoot
    BY <1>1
  <2> HIDE DEF S
  <2> QED BY <2>1, DescentIs
<1>3. x \in S
  BY <1>1, <1>2
<1>4. m \in Nat /\ x \in 1 .. m - 1
  BY <1>1, <1>2 DEF LineageInOrder, Known
<1> HIDE DEF S
<1> QED BY <1>1, <1>3, <1>4

-------------------------------------------------------------------------------
(* What the invariant says of the reconstruction. *)

\* A memory without the root and its descendants is the last of them.
LEMMA CleanSince ==
  ASSUME RecordIInv, NEW i \in DOMAIN rows,
         rows[i].after \cap Descent({injectedRoot}) = {}
  PROVE  Since(rows[i]) \cap Descent({injectedRoot}) = {}
<1>1. rows[i].known \in SUBSET Known /\ injectedRoot \in rows[i].known
  BY DEF RecordIInv, RowsInSequence, RowStands
<1>2. \A e \in Known \ rows[i].known :
        References(e) \subseteq rows[i].after \cup (Known \ rows[i].known)
  BY DEF RecordIInv, NothingReturns, Since
<1>3. LineageInOrder
  BY DEF RecordIInv
<1> QED BY <1>1, <1>2, <1>3, CleanStays DEF Since

LEMMA LivesInMemory == RecordIInv => ContaminationLivesInMemory
<1> SUFFICES ASSUME RecordIInv PROVE ContaminationLivesInMemory
  OBVIOUS
<1>1. ASSUME NEW i \in DOMAIN rows, NEW j \in DOMAIN rows, i < j,
             rows[i].after \cap Descent({injectedRoot}) = {}
      PROVE  ~ Exposed(rows[j]) /\ Contaminated(rows[j]) = {}
  <2>1. Since(rows[i]) \cap Descent({injectedRoot}) = {}
    BY <1>1, CleanSince
  <2>2. rows[j].after \cup rows[j].shown \subseteq Since(rows[i])
    BY <1>1 DEF RecordIInv, NothingReturns
  <2> QED BY <2>1, <2>2 DEF Exposed, TargetSpans, Contaminated, Fresh
<1>2. ASSUME NEW i \in AtRisk
      PROVE  injectedRoot \notin rows[i].shown
  <2>1. PICK k \in Included : k < i /\ EvictsRoot(rows[k])
    BY DEF AtRisk
  <2>2. i \in DOMAIN rows /\ k \in DOMAIN rows
    BY DEF AtRisk, Included
  <2>3. injectedRoot \in rows[k].known /\ injectedRoot \notin rows[k].after
    BY <2>1, <2>2 DEF EvictsRoot, Removed, RecordIInv, RowsInSequence, RowStands
  <2>4. rows[i].shown \subseteq Since(rows[k])
    BY <2>1, <2>2 DEF RecordIInv, NothingReturns
  <2> QED BY <2>3, <2>4 DEF Since
<1> QED BY <1>1, <1>2 DEF ContaminationLivesInMemory

\* Rows are numbered.
LEMMA RowNumbers ==
  ASSUME RecordIInv
  PROVE  /\ Len(rows) \in Nat /\ DOMAIN rows = 1 .. Len(rows)
         /\ \A i \in DOMAIN rows : i < Len(rows) => i \in Included
         /\ Included \subseteq DOMAIN rows
<1>1. rows \in Seq(TrialRows)
  BY DEF RecordIInv, UnitShape
<1>2. Len(rows) \in Nat /\ DOMAIN rows = 1 .. Len(rows)
  BY <1>1
<1>3. ASSUME NEW i \in DOMAIN rows, i < Len(rows) PROVE i \in Included
  BY <1>2, <1>3 DEF RecordIInv, RowsInSequence, Included
<1> QED BY <1>2, <1>3 DEF Included

\* An episode misses nothing if whatever has the flag still has it between two
\* rows that have it.
LEMMA EpisodeIsAll ==
  ASSUME NEW flagged \in SUBSET Included,
         \A f, i \in flagged : \A k \in Included : f <= k /\ k <= i => k \in flagged
  PROVE  FirstEpisode(flagged) = flagged
BY DEF FirstEpisode

\* The root stays until it leaves for good.
LEMMA RootEpisode == RecordIInv => FirstEpisode(RootHeld) = RootHeld
<1> SUFFICES ASSUME RecordIInv PROVE FirstEpisode(RootHeld) = RootHeld
  OBVIOUS
<1>1. RootHeld \in SUBSET Included
  BY DEF RootHeld
<1>2. ASSUME NEW i \in RootHeld, NEW k \in Included, k <= i
      PROVE  k \in RootHeld
  <2>1. CASE k = i
    BY <2>1
  <2>2. CASE k # i
    <3>1. i \in DOMAIN rows /\ k \in DOMAIN rows /\ injectedRoot \in rows[i].after
      BY DEF RootHeld, Included
    <3>2. k < i
      BY <1>2, <2>2, <3>1, RowNumbers
    <3>3. injectedRoot \in Since(rows[k])
      BY <3>1, <3>2 DEF RecordIInv, NothingReturns
    <3>4. injectedRoot \in rows[k].known
      BY <3>1 DEF RecordIInv, RowsInSequence, RowStands
    <3> QED BY <3>3, <3>4 DEF Since, RootHeld
  <2> QED BY <2>1, <2>2
<1> QED BY <1>1, <1>2, EpisodeIsAll

\* A descendant is younger than the root.
LEMMA DescendantsAreLater ==
  ASSUME LineageInOrder, NEW e \in Descent({injectedRoot})
  PROVE  e = injectedRoot \/ injectedRoot < e
<1> DEFINE R == injectedRoot
           S == {x \in Descent({R}) : x < R}
<1>1. R \in Nat /\ Known \subseteq Nat /\ Descent({R}) \subseteq Known
  BY DescentIs DEF LineageInOrder, Known
<1>0. e \in Nat
  BY <1>1
<1> SUFFICES ASSUME S # {} PROVE FALSE
  BY <1>0, <1>1
<1>2. PICK m \in S : \A x \in S : m <= x
  <2>1. S \in SUBSET Known
    BY <1>1
  <2> HIDE DEF S
  <2> QED BY <2>1, FirstOf
<1>3. m \in Known /\ m \in Descent({R}) /\ m # R
  BY <1>1, <1>2
<1>4. PICK x \in References(m) : x \in Descent({R})
  <2> HIDE DEF S, R
  <2> QED BY <1>3, DescentIs
<1>5. x \in 1 .. m - 1
  BY <1>3, <1>4 DEF LineageInOrder
<1>6. x < m /\ m < R /\ x \in Nat /\ m \in Nat
  BY <1>1, <1>2, <1>3, <1>5
<1>7. x < R
  BY <1>1, <1>6
<1> QED BY <1>2, <1>4, <1>6, <1>7

\* Descendants stay until they leave for good: the root leaves before them.
LEMMA DescendantEpisode == RecordIInv => FirstEpisode(DescendantHeld) = DescendantHeld
<1> SUFFICES ASSUME RecordIInv PROVE FirstEpisode(DescendantHeld) = DescendantHeld
  OBVIOUS
<1> DEFINE D == Descent({injectedRoot})
<1>1. DescendantHeld \in SUBSET Included
  BY DEF DescendantHeld
<1>2. ASSUME NEW f \in DescendantHeld, NEW i \in DescendantHeld, NEW k \in Included,
             f <= k, k <= i
      PROVE  k \in DescendantHeld
  <2>1. CASE k = f \/ k = i
    BY <2>1
  <2>2. CASE k # f /\ k # i
    <3>1. f \in DOMAIN rows /\ i \in DOMAIN rows /\ k \in DOMAIN rows
      BY DEF DescendantHeld, Included
    <3>2. f < k /\ k < i
      BY <1>2, <2>2, <3>1, RowNumbers
    <3>3. PICK d \in rows[f].after : d \in Descendants
      BY DEF DescendantHeld
    <3>4. PICK b \in rows[i].after : b \in Descendants
      BY DEF DescendantHeld
    <3>5. d \in D /\ d # injectedRoot /\ b \in D
      BY <3>3, <3>4 DEF Descendants
    <3>6. PICK y \in rows[k].after : y \in D
      <4> SUFFICES ASSUME rows[k].after \cap D = {} PROVE FALSE
        OBVIOUS
      <4>1. Since(rows[k]) \cap D = {}
        BY <3>1, CleanSince
      <4>2. rows[i].after \subseteq Since(rows[k])
        BY <3>1, <3>2 DEF RecordIInv, NothingReturns
      <4> QED BY <3>4, <3>5, <4>1, <4>2
    <3>7. PICK z \in rows[k].after : z \in D /\ z # injectedRoot
      <4>1. CASE d \in rows[k].after
        BY <3>5, <4>1
      <4>2. CASE d \notin rows[k].after
        <5>1. d < y
          BY <3>1, <3>2, <3>3, <3>6, <4>2 DEF RecordIInv, OldestLeave, OldestLeft
        <5>2. injectedRoot < d
          BY <3>5, DescendantsAreLater DEF RecordIInv
        <5>3. injectedRoot \in Nat /\ d \in Nat /\ y \in Nat
          BY <3>5, <3>6, DescentIs DEF RecordIInv, LineageInOrder, Known
        <5>4. y # injectedRoot
          BY <5>1, <5>2, <5>3
        <5> QED BY <3>6, <5>4
      <4> QED BY <4>1, <4>2
    <3>8. z \in rows[k].known
      BY <3>1, <3>7 DEF RecordIInv, RowsInSequence, RowStands
    <3>9. z \in Descendants
      BY <3>7, <3>8 DEF Descendants
    <3> QED BY <3>7, <3>9 DEF DescendantHeld
  <2> QED BY <2>1, <2>2
<1> QED BY <1>1, <1>2, EpisodeIsAll

\* The window of Reflexion shows a clean prompt only once.
LEMMA WindowEpisode ==
  ASSUME RecordIInv, baseline = "reflexion_style"
  PROVE  FirstEpisode(ExposedRows) = ExposedRows
<1> DEFINE D == Descent({injectedRoot})
<1>1. ExposedRows \in SUBSET Included
  BY DEF ExposedRows
<1>2. ASSUME NEW i \in ExposedRows, NEW k \in Included, k <= i
      PROVE  k \in ExposedRows
  <2>1. CASE k = i
    BY <2>1
  <2>2. CASE k # i
    <3>1. i \in DOMAIN rows /\ k \in DOMAIN rows
      BY DEF ExposedRows, Included
    <3>2. k < i
      BY <1>2, <2>2, <3>1, RowNumbers
    <3>3. rows[k].shown \subseteq rows[k].known /\ rows[k].known \subseteq Known
      BY <3>1 DEF RecordIInv, RowsInSequence, RowStands
    <3> SUFFICES ASSUME rows[k].shown \cap D = {} PROVE FALSE
      BY <3>3 DEF ExposedRows, Exposed, TargetSpans
    <3>4. PICK old \in SUBSET rows[k].known : PromptMovesOn(k, old)
      BY <3>1 DEF RecordIInv, WindowMovesOn
    <3>5. (rows[k].shown \cup (Known \ old)) \cap D = {}
      <4>1. old \in SUBSET Known
        BY <3>3
      <4> QED BY <3>4, <4>1, CleanStays DEF PromptMovesOn, RecordIInv
    <3>6. rows[i].shown \cap D = {}
      BY <3>1, <3>2, <3>4, <3>5 DEF PromptMovesOn
    <3> QED BY <3>6 DEF ExposedRows, Exposed, TargetSpans
  <2> QED BY <2>1, <2>2
<1> QED BY <1>1, <1>2, EpisodeIsAll

\* A DC trial is exposed if the strategy it writes descends from the root.
LEMMA StrategyExposes ==
  ASSUME RecordIInv, NEW i \in Included, NEW s \in Known, StrategyOf(rows[i], s)
  PROVE  /\ TargetSpans(rows[i]) = {s} \cap Descent({injectedRoot})
         /\ Exposed(rows[i]) <=> s \in Descent({injectedRoot})
<1>1. rows[i].shown = {s} /\ i \in DOMAIN rows
  BY DEF StrategyOf, Included
<1>2. s \in rows[i].known
  BY <1>1 DEF RecordIInv, RowsInSequence, RowStands
<1>3. TargetSpans(rows[i]) = {s} \cap Descent({injectedRoot})
  BY <1>1, <1>2 DEF TargetSpans
<1> QED BY <1>3 DEF Exposed

\* So are all that follow: a strategy names the one before it.
LEMMA StrategiesPassOn ==
  ASSUME RecordIInv, baseline = "dc_rs", NEW i \in ExposedRows, NEW k \in Included, i <= k
  PROVE  k \in ExposedRows
<1> DEFINE S == {x \in Included : i <= x /\ x \notin ExposedRows}
<1> SUFFICES ASSUME S # {} PROVE FALSE
  OBVIOUS
<1>1. Len(rows) \in Nat /\ Included \subseteq 1 .. Len(rows) /\ ExposedRows \subseteq Included
  BY RowNumbers DEF ExposedRows
<1>2. PICK m \in S : \A x \in S : m <= x
  <2>1. IsFiniteSet(1 .. Len(rows)) /\ 1 .. Len(rows) \subseteq Nat
    <3> HIDE DEF S
    <3> QED BY <1>1, UpTo
  <2>2. IsFiniteSet(S) /\ S \in SUBSET Nat
    <3>1. S \in SUBSET (1 .. Len(rows))
      BY <1>1
    <3> HIDE DEF S
    <3> QED BY <2>1, <3>1, FS_Subset
  <2> HIDE DEF S
  <2> QED BY <2>2, HasEnds
<1>3. i \in 1 .. Len(rows) /\ m \in 1 .. Len(rows) /\ i < m
  <2>1. m \in Included /\ i \in Included /\ i <= m /\ i # m
    BY <1>1, <1>2
  <2>2. i \in 1 .. Len(rows) /\ m \in 1 .. Len(rows)
    BY <1>1, <2>1
  <2> QED BY <2>1, <2>2
<1>4. m - 1 \in 1 .. Len(rows) /\ m - 1 < Len(rows) /\ i <= m - 1 /\ m - 1 < m /\ m > 1
  BY <1>1, <1>3
<1>5. m - 1 \in Included
  BY <1>4, RowNumbers
<1>6. m - 1 \in ExposedRows
  <2>1. m - 1 \notin S
    <3>1. m \in Nat
      BY <1>3
    <3> HIDE DEF S
    <3> QED BY <1>2, <1>4, <3>1
  <2> QED BY <2>1, <1>4, <1>5
<1>7. PICK x \in Known : StrategyOf(rows[m - 1], x)
  BY <1>5 DEF RecordIInv, StrategiesFollow
<1>8. PICK s \in Known : StrategyOf(rows[m], s)
  BY <1>2 DEF RecordIInv, StrategiesFollow
<1>9. x \in References(s)
  <2>1. m \in Included
    BY <1>2
  <2>2. \A y \in rows[m - 1].shown, z \in rows[m].shown : y \in References(z)
    BY <1>4, <2>1 DEF RecordIInv, StrategiesFollow
  <2> QED BY <1>7, <1>8, <2>2 DEF StrategyOf
<1>10. x \in Descent({injectedRoot})
  BY <1>5, <1>6, <1>7, StrategyExposes DEF ExposedRows
<1>11. s \in Descent({injectedRoot})
  BY <1>9, <1>10, DescentIs DEF RecordIInv
<1> QED BY <1>2, <1>8, <1>11, StrategyExposes DEF ExposedRows

\* The pair of an exposed trial descends from its strategy.
LEMMA StrategyPropagates ==
  ASSUME RecordIInv, baseline = "dc_rs", NEW i \in Included
  PROVE  Exposed(rows[i]) <=> Propagation(rows[i]) = "true"
<1>1. PICK s \in Known : StrategyOf(rows[i], s)
  BY DEF RecordIInv, StrategiesFollow
<1>2. Fresh(rows[i]) = {s, s + 1} /\ s + 1 \in Known /\ s \in References(s + 1)
  BY <1>1 DEF StrategyOf
<1>3. CASE ~ Exposed(rows[i])
  BY <1>3 DEF Propagation
<1>4. CASE Exposed(rows[i])
  <2>1. s \in Descent({injectedRoot}) /\ TargetSpans(rows[i]) = {s}
    BY <1>1, <1>4, StrategyExposes
  <2>2. s + 1 \in Descent({injectedRoot}) /\ s + 1 \in Descent({s})
    BY <1>2, <2>1, DescentIs DEF RecordIInv
  <2>3. s + 1 # injectedRoot /\ s + 1 # s
    <3>1. s = injectedRoot \/ injectedRoot < s
      BY <2>1, DescendantsAreLater DEF RecordIInv
    <3> QED BY <3>1 DEF RecordIInv, LineageInOrder, Known
  <2>4. (Contaminated(rows[i]) \ TargetSpans(rows[i])) \cap Descent(TargetSpans(rows[i])) # {}
    BY <1>2, <2>1, <2>2, <2>3 DEF Contaminated
  <2>5. Fresh(rows[i]) # {} /\ baseline # "fh_bounded"
    BY <1>2
  <2> QED BY <1>4, <2>4, <2>5 DEF Propagation
<1> QED BY <1>3, <1>4

LEMMA StrategyEpisode ==
  ASSUME RecordIInv, baseline = "dc_rs"
  PROVE  /\ FirstEpisode(ExposedRows) = ExposedRows
         /\ ExposedRows = {} \/ RightCensored(ExposedRows)
         /\ ExposedRows = {i \in Included : Propagation(rows[i]) = "true"}
<1>1. FirstEpisode(ExposedRows) = ExposedRows
  <2>1. ExposedRows \in SUBSET Included
    BY DEF ExposedRows
  <2> QED BY <2>1, StrategiesPassOn, EpisodeIsAll
<1>2. ASSUME NEW i \in ExposedRows PROVE RightCensored(ExposedRows)
  <2>1. Len(rows) \in Nat /\ Included \subseteq 1 .. Len(rows) /\ i \in Included
    BY RowNumbers DEF ExposedRows
  <2>2. IsFiniteSet(1 .. Len(rows)) /\ 1 .. Len(rows) \subseteq Nat
    BY <2>1, UpTo
  <2>3. IsFiniteSet(Included) /\ Included \in SUBSET Nat
    BY <2>1, <2>2, FS_Subset
  <2>4. PICK m \in Included : \A x \in Included : x <= m
    BY <2>1, <2>3, HasEnds
  <2>5. m \in ExposedRows
    BY <2>1, <2>4, StrategiesPassOn
  <2> QED BY <2>4, <2>5 DEF RightCensored
<1>3. ExposedRows = {i \in Included : Propagation(rows[i]) = "true"}
  BY StrategyPropagates DEF ExposedRows
<1> QED BY <1>1, <1>2, <1>3

LEMMA DurationsMissNothing == RecordIInv => DurationsAreTotals
BY RootEpisode, DescendantEpisode, WindowEpisode, StrategyEpisode DEF DurationsAreTotals

\* Only the call that ended a failed trial refuses a row.
LEMMA RowsAreAccepted ==
  ASSUME RecordIInv, NEW i \in DOMAIN rows, NEW c \in RowRefusals(rows[i])
  PROVE  c = "TERMINAL_CALL_REQUIRED" /\ ~ Completed(rows[i])
<1> DEFINE r == rows[i]
<1>1. RowStands(r) /\ LineageInOrder
  BY DEF RecordIInv, RowsInSequence
<1>2. ~ ParentMissing(r) /\ injectedRoot \notin r.shown \ r.known /\ ~ ContextRequired(r)
  BY <1>1 DEF RowStands, ParentMissing, ContextRequired, Fresh, Removed
<1>3. ~ (Completed(r) /\ injectedRoot \notin r.known) /\ ~ (Completed(r) /\ ~ r.context)
  BY <1>1 DEF RowStands
<1>4. ASSUME baseline # "fh_bounded", Contaminated(r) # {} PROVE Exposed(r)
  <2>1. PICK e \in Fresh(r) : e \in Descent({injectedRoot}) /\ e # injectedRoot
    BY <1>4 DEF Contaminated
  <2>2. e \in r.shown \/ References(e) \subseteq r.shown
    BY <1>1, <1>4, <2>1 DEF RowStands
  <2>3. r.shown \subseteq r.known
    BY <1>1 DEF RowStands
  <2>4. e \in Known
    BY <1>1, <2>1, DescentIs
  <2>5. PICK x \in References(e) : x \in Descent({injectedRoot})
    BY <1>1, <2>1, <2>4, DescentIs
  <2> QED BY <2>1, <2>2, <2>3, <2>5 DEF Exposed, TargetSpans
<1> HIDE DEF r
<1>5. c = "TERMINAL_CALL_REQUIRED" /\ TerminalCallRequired(r)
  BY <1>2, <1>3, <1>4 DEF RowRefusals, r
<1> QED BY <1>5 DEF TerminalCallRequired, r

\* And nothing refuses the sequence.
LEMMA SequenceIsAccepted == RecordIInv => SequenceRefusals = {}
<1> SUFFICES ASSUME RecordIInv PROVE SequenceRefusals = {}
  OBVIOUS
<1>1. ASSUME NEW i \in Included, NEW k \in Included, i < k,
             \A x \in Included : x <= i \/ k <= x
      PROVE  rows[k].before = rows[i].after
  <2>1. /\ Len(rows) \in Nat /\ i \in 1 .. Len(rows) /\ k \in 1 .. Len(rows)
        /\ DOMAIN rows = 1 .. Len(rows)
    BY RowNumbers
  <2>2. k - 1 \in DOMAIN rows /\ k - 1 < Len(rows) /\ i <= k - 1 /\ ~ (k <= k - 1)
    BY <1>1, <2>1
  <2>3. k - 1 \in Included
    BY <2>2, RowNumbers
  <2>4. k - 1 = i
    BY <1>1, <2>1, <2>2, <2>3
  <2>5. rows[k].before = rows[k - 1].after
    <3>1. k \in DOMAIN rows /\ k > 1
      BY <2>1, <2>2
    <3> QED BY <3>1 DEF RecordIInv, RowsInSequence
  <2> QED BY <2>4, <2>5
<1>2. \A i \in Included : injectedRoot \in rows[i].known
  BY DEF Included, RecordIInv, RowsInSequence, RowStands
<1> QED BY <1>1, <1>2 DEF SequenceRefusals

LEMMA RefusedByCall == RecordIInv => EvidenceStands
<1> SUFFICES ASSUME RecordIInv, outcome = "refused"
             PROVE  Refusals = {"TERMINAL_CALL_REQUIRED"} /\ ~ Completed(rows[Len(rows)])
  BY DEF EvidenceStands
<1>1. \A c \in Refusals : \E i \in DOMAIN rows : c \in RowRefusals(rows[i])
  BY SequenceIsAccepted DEF Refusals
<1>2. \A c \in Refusals : c = "TERMINAL_CALL_REQUIRED"
  BY <1>1, RowsAreAccepted
<1>3. PICK i \in DOMAIN rows : TerminalCallRequired(rows[i])
  BY DEF RecordIInv, RefusedForCause
<1>4. "TERMINAL_CALL_REQUIRED" \in Refusals
  BY <1>3 DEF Refusals, RowRefusals
<1>5. ~ Completed(rows[i])
  BY <1>3 DEF TerminalCallRequired
<1>6. i = Len(rows)
  BY <1>5 DEF RecordIInv, RowsInSequence
<1>7. Refusals = {"TERMINAL_CALL_REQUIRED"}
  BY <1>2, <1>4
<1> QED BY <1>5, <1>6, <1>7

-------------------------------------------------------------------------------
(* What a step does. *)

\* Appending to a finite memory.
LEMMA NewestGrows ==
  ASSUME NEW S \in SUBSET Nat, IsFiniteSet(S), NEW e \in Nat, \A x \in S : x < e,
         NEW n \in Nat \ {0}
  PROVE  /\ Newest(S \cup {e}, n) \subseteq Newest(S, n) \cup {e}
         /\ e \in Newest(S \cup {e}, n)
<1> DEFINE T == S \cup {e}
<1>1. T \in SUBSET Nat /\ IsFiniteSet(T)
  BY FS_AddElement
<1>2. e \in Newest(T, n)
  <2>1. e \in T /\ \A x \in T : x <= e
    OBVIOUS
  <2> HIDE DEF T
  <2> QED BY <1>1, <2>1, NewestShows
<1>3. ASSUME NEW x \in S, x \in Newest(T, n)
      PROVE  x \in Newest(S, n)
  <2> DEFINE inS == {y \in S : y > x}
             inT == {y \in T : y > x}
  <2>1. inT \in SUBSET T /\ inS \in SUBSET inT
    OBVIOUS
  <2>2. IsFiniteSet(inT)
    <3> HIDE DEF inT, T
    <3> QED BY <1>1, <2>1, FS_Subset
  <2>3. IsFiniteSet(inS) /\ Cardinality(inS) <= Cardinality(inT)
    <3> HIDE DEF inS, inT
    <3> QED BY <2>1, <2>2, FS_Subset
  <2>4. Cardinality(inT) < n
    BY <1>3 DEF Newest
  <2>5. Cardinality(inS) \in Nat /\ Cardinality(inT) \in Nat
    BY <2>2, <2>3, FS_CardinalityType
  <2>6. Cardinality(inS) < n
    <3> HIDE DEF inS, inT
    <3> QED BY <2>3, <2>4, <2>5
  <2> QED BY <2>6 DEF Newest
<1> QED BY <1>2, <1>3 DEF Newest

\* The newest of the newest are the newest.
LEMMA NewestOfNewest ==
  ASSUME NEW S \in SUBSET Nat, IsFiniteSet(S), NEW c \in Nat \ {0}, NEW n \in Nat \ {0}
  PROVE  Newest(Newest(S, c), n) \subseteq Newest(S, n)
<1> DEFINE T == Newest(S, c)
<1>1. T \subseteq S /\ \A y \in S \ T, x \in T : y < x
  BY NewestShows, NewestIsPart
<1>2. ASSUME NEW x \in T PROVE {y \in T : y > x} = {y \in S : y > x}
  <2>1. \A y \in S : y > x => y \in T
    <3> HIDE DEF T
    <3> QED BY <1>1
  <2> HIDE DEF T
  <2> QED BY <1>1, <2>1
<1> HIDE DEF T
<1>3. \A x \in Newest(T, n) : x \in T /\ Cardinality({y \in T : y > x}) < n
  BY DEF Newest
<1>4. \A x \in Newest(T, n) : x \in S /\ Cardinality({y \in S : y > x}) < n
  BY <1>1, <1>2, <1>3
<1> QED BY <1>4 DEF Newest, T

\* What is new.
NewEntries == Known' \ Known

LineageGrows ==
  /\ lineage' \in Seq(LineageCards) /\ Len(lineage) <= Len(lineage')
  /\ \A e \in Known : lineage'[e] = lineage[e]
  /\ \A e \in NewEntries : References(e)' \subseteq (store \cup NewEntries) \cap (1 .. e - 1)

MemoryMoves ==
  /\ store' \subseteq store \cup NewEntries
  /\ OldestLeft(store, store')
  /\ baseline = "reflexion_style" =>
       /\ Newest(store', Window) \subseteq Newest(store, Window) \cup NewEntries
       /\ \A e \in NewEntries : References(e)' \subseteq Newest(store, Window)

RowFiled(r) ==
  /\ rows' = Append(rows, r)
  /\ r.before = MemoryAtRest /\ r.after = store' /\ MemoryAtRest' = store'
  /\ r.known = Known' /\ r.shown \subseteq store \cup NewEntries
  /\ r.context \/ (r.before = r.after /\ ~ Completed(r))
  /\ baseline # "fh_bounded" =>
       \A e \in Fresh(r) : e \in r.shown \/ References(e)' \subseteq r.shown
  /\ Completed(r) \/ outcome' # "running"
  /\ baseline = "reflexion_style" => r.shown = Newest(store, Window)
  /\ baseline = "dc_rs" /\ Completed(r) =>
       \E s \in NewEntries :
         /\ StrategyOf(r, s)' /\ PriorStrategy' = s
         /\ PriorStrategy # 0 => PriorStrategy \in References(s)'

\* A step leaves the rows as they are, or a running unit files one more.
TrialEffect ==
  /\ UNCHANGED unitVars
  /\ LineageGrows /\ MemoryMoves
  /\ \/ /\ UNCHANGED rows /\ MemoryAtRest' = MemoryAtRest
        /\ baseline = "dc_rs" => UNCHANGED <<lineage, store>>
        /\ outcome' = "running" => outcome = "running"
     \/ outcome = "running" /\ \E r \in TrialRows : RowFiled(r)

\* Known entries stay, with their references.
LEMMA EntriesStay ==
  ASSUME RecordIInv, TrialEffect
  PROVE  /\ Known \subseteq Known' /\ Known' = Known \cup NewEntries
         /\ \A e \in Known : References(e)' = References(e)
         /\ injectedRoot' = injectedRoot /\ baseline' = baseline /\ capacity' = capacity
         /\ store' \subseteq Known'
<1>1. Len(lineage) \in Nat /\ Len(lineage') \in Nat /\ Len(lineage) <= Len(lineage')
  BY DEF RecordIInv, LineageInOrder, TrialEffect, LineageGrows
<1>2. Known \subseteq Known'
  BY <1>1 DEF Known
<1>3. \A e \in Known : References(e)' = References(e)
  BY DEF TrialEffect, LineageGrows, References
<1>4. store' \subseteq Known'
  BY <1>2 DEF RecordIInv, UnitShape, TrialEffect, MemoryMoves, NewEntries
<1> QED BY <1>2, <1>3, <1>4 DEF TrialEffect, unitVars, NewEntries

LEMMA LineageKept ==
  ASSUME RecordIInv, TrialEffect
  PROVE  LineageInOrder'
<1>1. ASSUME NEW e \in Known' PROVE References(e)' \subseteq 1 .. e - 1
  <2>1. CASE e \in Known
    BY <2>1, EntriesStay DEF RecordIInv, LineageInOrder
  <2>2. CASE e \notin Known
    <3>1. e \in NewEntries
      BY <2>2 DEF NewEntries
    <3> QED BY <3>1 DEF TrialEffect, LineageGrows
  <2> QED BY <2>1, <2>2
<1>2. injectedRoot' \in Known'
  BY EntriesStay DEF RecordIInv, LineageInOrder
<1> QED BY <1>1, <1>2 DEF LineageInOrder, TrialEffect, LineageGrows

\* The rows there were stand, and the new one is the last.
LEMMA RowsStay ==
  ASSUME RecordIInv, TrialEffect
  PROVE  /\ rows' \in Seq(TrialRows) /\ Len(rows) \in Nat
         /\ \A i \in DOMAIN rows : i \in DOMAIN rows' /\ rows'[i] = rows[i]
         /\ \A i \in DOMAIN rows' \ DOMAIN rows :
              /\ i = Len(rows) + 1 /\ outcome = "running" /\ Len(rows') = i
              /\ \E r \in TrialRows : r = rows'[i] /\ RowFiled(r)
         /\ DOMAIN rows' = 1 .. Len(rows') /\ DOMAIN rows = 1 .. Len(rows)
<1>1. rows \in Seq(TrialRows) /\ Len(rows) \in Nat /\ DOMAIN rows = 1 .. Len(rows)
  BY DEF RecordIInv, UnitShape
<1>2. CASE UNCHANGED rows
  BY <1>1, <1>2
<1>3. ASSUME NEW r \in TrialRows, RowFiled(r), outcome = "running"
      PROVE  /\ rows' \in Seq(TrialRows)
             /\ \A i \in DOMAIN rows : i \in DOMAIN rows' /\ rows'[i] = rows[i]
             /\ \A i \in DOMAIN rows' \ DOMAIN rows :
                  i = Len(rows) + 1 /\ Len(rows') = i /\ rows'[i] = r
             /\ DOMAIN rows' = 1 .. Len(rows')
  <2>1. rows' = Append(rows, r)
    BY <1>3 DEF RowFiled
  <2>2. /\ rows' \in Seq(TrialRows) /\ Len(rows') = Len(rows) + 1
        /\ DOMAIN rows' = 1 .. Len(rows')
    BY <1>1, <2>1
  <2>3. \A i \in 1 .. Len(rows) : rows'[i] = rows[i]
    BY <1>1, <2>1
  <2>4. rows'[Len(rows) + 1] = r
    BY <1>1, <2>1
  <2> QED BY <1>1, <2>2, <2>3, <2>4
<1>4. CASE outcome = "running" /\ \E r \in TrialRows : RowFiled(r)
  BY <1>1, <1>3, <1>4
<1> QED BY <1>2, <1>4 DEF TrialEffect

LEMMA RowsKept ==
  ASSUME RecordIInv, TrialEffect
  PROVE  RowsInSequence'
<1>1. ASSUME NEW i \in DOMAIN rows PROVE RowStands(rows[i])'
  <2>1. RowStands(rows[i]) /\ rows'[i] = rows[i]
    BY RowsStay DEF RecordIInv, RowsInSequence
  <2>2. \A e \in Fresh(rows[i]) \cup rows[i].known : e \in Known
    BY <2>1 DEF RowStands, Fresh
  <2> QED BY <2>1, <2>2, EntriesStay DEF RowStands, Fresh, Completed
<1>2. ASSUME NEW i \in DOMAIN rows' \ DOMAIN rows PROVE RowStands(rows[i])'
  <2>1. PICK r \in TrialRows : r = rows'[i] /\ RowFiled(r)
    BY <1>2, RowsStay
  <2>2. MemoryAtRest \subseteq Known /\ store \subseteq Known
    BY DEF RecordIInv, UnitShape, AttemptInStep, MemoryAtRest
  <2>3. r.known = Known' /\ r.before \cup r.after \cup r.shown \subseteq r.known
    BY <2>1, <2>2, EntriesStay DEF RowFiled
  <2>4. \A e \in Known' : References(e)' \subseteq Known'
    <3>1. \A e \in Known' : References(e)' \subseteq 1 .. e - 1
      BY LineageKept DEF LineageInOrder
    <3>2. \A e \in Known' : 1 .. e - 1 \subseteq Known'
      BY LineageKept DEF LineageInOrder, Known
    <3> QED BY <3>1, <3>2
  <2>5. injectedRoot' \in r.known
    BY <2>3, LineageKept DEF LineageInOrder
  <2> QED BY <2>1, <2>3, <2>4, <2>5, EntriesStay DEF RowStands, RowFiled, Fresh, Completed
<1>3. ASSUME NEW i \in DOMAIN rows'
      PROVE  Completed(rows'[i]) \/ (i = Len(rows') /\ outcome' # "running")
  <2>1. CASE i \in DOMAIN rows
    <3>1. rows'[i] = rows[i] /\ (Completed(rows[i]) \/ (i = Len(rows) /\ outcome # "running"))
      BY <2>1, RowsStay DEF RecordIInv, RowsInSequence
    <3>2. CASE outcome = "running"
      BY <3>1, <3>2
    <3>3. CASE outcome # "running"
      BY <3>1, <3>3 DEF TrialEffect
    <3> QED BY <3>2, <3>3
  <2>2. CASE i \notin DOMAIN rows
    BY <2>2, RowsStay DEF RowFiled
  <2> QED BY <2>1, <2>2
<1>4. ASSUME NEW i \in DOMAIN rows', i > 1
      PROVE  rows'[i].before = rows'[i - 1].after
  <2>1. Len(rows) \in Nat /\ DOMAIN rows = 1 .. Len(rows) /\ i \in Nat
    BY RowsStay
  <2>2. CASE i \in DOMAIN rows
    <3>1. i - 1 \in DOMAIN rows
      BY <1>4, <2>1, <2>2
    <3> QED BY <1>4, <2>2, <3>1, RowsStay DEF RecordIInv, RowsInSequence
  <2>3. CASE i \notin DOMAIN rows
    <3>1. PICK r \in TrialRows : r = rows'[i] /\ RowFiled(r) /\ i = Len(rows) + 1
      BY <2>3, RowsStay
    <3>2. i - 1 = Len(rows) /\ Len(rows) \in DOMAIN rows /\ rows # << >>
      BY <1>4, <2>1, <3>1
    <3>3. rows'[i - 1] = rows[Len(rows)] /\ rows[Len(rows)].after = MemoryAtRest
      BY <3>2, RowsStay DEF RecordIInv, RowsInSequence
    <3> QED BY <3>1, <3>3 DEF RowFiled
  <2> QED BY <2>2, <2>3
<1>5. ASSUME rows' # << >> PROVE rows'[Len(rows')].after = MemoryAtRest'
  <2>1. CASE UNCHANGED rows
    <3>1. rows[Len(rows)].after = MemoryAtRest
      BY <1>5, <2>1 DEF RecordIInv, RowsInSequence
    <3>2. MemoryAtRest' = MemoryAtRest
      <4>1. ASSUME NEW r, rows' = Append(rows, r) PROVE FALSE
        BY <2>1, <4>1, RowsStay DEF RecordIInv, UnitShape
      <4> QED BY <4>1 DEF TrialEffect, RowFiled
    <3> QED BY <2>1, <3>1, <3>2
  <2>2. CASE \E r \in TrialRows : RowFiled(r)
    <3>1. PICK r \in TrialRows : RowFiled(r)
      BY <2>2
    <3>2. rows' = Append(rows, r) /\ r.after = MemoryAtRest'
      BY <3>1 DEF RowFiled
    <3>3. rows'[Len(rows')] = r
      BY <3>2 DEF RecordIInv, UnitShape
    <3> QED BY <3>2, <3>3
  <2> QED BY <2>1, <2>2 DEF TrialEffect
<1>6. \A i \in DOMAIN rows' : RowStands(rows[i])'
  BY <1>1, <1>2
<1> QED BY <1>3, <1>4, <1>5, <1>6 DEF RowsInSequence

\* What a row has of the unit's entries.
LEMMA RowHas ==
  ASSUME RecordIInv, NEW i \in DOMAIN rows
  PROVE  rows[i].known \subseteq Known /\ rows[i].after \cup rows[i].shown \subseteq rows[i].known
BY DEF RecordIInv, RowsInSequence, RowStands

\* A new row.
LEMMA RowAdded ==
  ASSUME RecordIInv, TrialEffect, NEW i \in DOMAIN rows', i \notin DOMAIN rows
  PROVE  /\ rows'[i].known = Known' /\ rows'[i].after = store'
         /\ rows'[i].shown \subseteq store \cup NewEntries
         /\ baseline = "reflexion_style" => rows'[i].shown = Newest(store, Window)
         /\ \A j \in DOMAIN rows' : ~ (i < j)
<1>1. /\ i = Len(rows') /\ \E r \in TrialRows : r = rows'[i] /\ RowFiled(r)
      /\ DOMAIN rows' = 1 .. Len(rows')
  BY RowsStay
<1>2. \A j \in DOMAIN rows' : ~ (i < j)
  BY <1>1
<1> QED BY <1>1, <1>2 DEF RowFiled

LEMMA NothingComesBack ==
  ASSUME RecordIInv, TrialEffect
  PROVE  NothingReturns'
<1>1. ASSUME NEW i \in DOMAIN rows
      PROVE  /\ i \in DOMAIN rows' /\ Since(rows[i])' = Since(rows[i]) \cup NewEntries
             /\ store \subseteq Since(rows[i])
  BY RowsStay, EntriesStay, RowHas DEF Since, NewEntries, RecordIInv, NothingReturns
<1>2. store' \subseteq store \cup NewEntries
  BY DEF TrialEffect, MemoryMoves
<1>3. ASSUME NEW i \in DOMAIN rows', NEW e \in Known' \ rows'[i].known
      PROVE  References(e)' \subseteq Since(rows[i])'
  <2>1. CASE i \in DOMAIN rows /\ e \in Known
    <3>1. References(e) \subseteq Since(rows[i])
      BY <1>3, <2>1, RowsStay DEF RecordIInv, NothingReturns
    <3> QED BY <1>1, <2>1, <3>1, EntriesStay
  <2>2. CASE i \in DOMAIN rows /\ e \notin Known
    <3>1. References(e)' \subseteq store \cup NewEntries
      BY <1>3, <2>2 DEF TrialEffect, LineageGrows, NewEntries
    <3> QED BY <1>1, <2>2, <3>1
  <2>3. CASE i \notin DOMAIN rows
    BY <1>3, <2>3, RowAdded
  <2> QED BY <2>1, <2>2, <2>3
<1>4. ASSUME NEW i \in DOMAIN rows' PROVE store' \subseteq Since(rows[i])'
  <2>1. CASE i \in DOMAIN rows
    BY <1>1, <1>2, <2>1
  <2>2. CASE i \notin DOMAIN rows
    BY <2>2, RowAdded DEF Since
  <2> QED BY <2>1, <2>2
<1>5. ASSUME NEW i \in DOMAIN rows', NEW j \in DOMAIN rows', i < j
      PROVE  rows'[j].after \cup rows'[j].shown \subseteq Since(rows[i])'
  <2>1. CASE i \notin DOMAIN rows
    BY <1>5, <2>1, RowAdded
  <2>2. CASE i \in DOMAIN rows /\ j \in DOMAIN rows
    <3>1. rows[j].after \cup rows[j].shown \subseteq Since(rows[i]) /\ rows'[j] = rows[j]
      BY <1>5, <2>2, RowsStay DEF RecordIInv, NothingReturns
    <3> QED BY <1>1, <2>2, <3>1
  <2>3. CASE i \in DOMAIN rows /\ j \notin DOMAIN rows
    <3>1. rows'[j].after \cup rows'[j].shown \subseteq store \cup NewEntries
      BY <1>2, <2>3, RowAdded
    <3> QED BY <1>1, <2>3, <3>1
  <2> QED BY <2>1, <2>2, <2>3
<1> QED BY <1>3, <1>4, <1>5 DEF NothingReturns

LEMMA OldestGo ==
  ASSUME RecordIInv, TrialEffect
  PROVE  OldestLeave'
<1>1. ASSUME NEW i \in DOMAIN rows, NEW e \in rows[i].after \ store', NEW x \in store'
      PROVE  e < x
  <2>1. x \in store \cup NewEntries /\ e \in Known
    BY RowHas DEF TrialEffect, MemoryMoves
  <2>2. CASE e \in store
    BY <2>2, <1>1 DEF TrialEffect, MemoryMoves, OldestLeft
  <2>3. CASE e \notin store /\ x \in store
    BY <2>3, <1>1 DEF RecordIInv, OldestLeave, OldestLeft
  <2>4. CASE x \notin Known
    <3>1. Len(lineage) \in Nat /\ Len(lineage') \in Nat
      BY LineageKept DEF RecordIInv, LineageInOrder
    <3>2. e \in 1 .. Len(lineage) /\ x \in 1 .. Len(lineage') /\ x \notin 1 .. Len(lineage)
      BY <2>1, <2>4, EntriesStay DEF Known
    <3> QED BY <3>1, <3>2
  <2> QED BY <2>1, <2>2, <2>3, <2>4 DEF NewEntries
<1>2. ASSUME NEW i \in DOMAIN rows' PROVE OldestLeft(rows'[i].after, store')
  <2>1. CASE i \in DOMAIN rows
    BY <1>1, <2>1, RowsStay DEF OldestLeft
  <2>2. CASE i \notin DOMAIN rows
    BY <2>2, RowAdded DEF OldestLeft
  <2> QED BY <2>1, <2>2
<1>3. ASSUME NEW i \in DOMAIN rows', NEW j \in DOMAIN rows', i < j
      PROVE  OldestLeft(rows'[i].after, rows'[j].after)
  <2>1. CASE j \notin DOMAIN rows
    BY <1>2, <2>1, RowAdded
  <2>2. CASE i \notin DOMAIN rows
    BY <1>3, <2>2, RowAdded
  <2>3. CASE i \in DOMAIN rows /\ j \in DOMAIN rows
    BY <1>3, <2>3, RowsStay DEF RecordIInv, OldestLeave
  <2> QED BY <2>1, <2>2, <2>3
<1> QED BY <1>2, <1>3 DEF OldestLeave, OldestLeft

LEMMA WindowMoves ==
  ASSUME RecordIInv, TrialEffect
  PROVE  WindowMovesOn'
<1> SUFFICES ASSUME baseline = "reflexion_style", NEW i \in DOMAIN rows'
             PROVE  \E old \in SUBSET rows'[i].known : PromptMovesOn(i, old)'
  BY EntriesStay DEF WindowMovesOn
<1>1. Newest(store, Window)' \subseteq Newest(store, Window) \cup NewEntries
  BY DEF TrialEffect, MemoryMoves, Newest
<1>2. \A e \in NewEntries : References(e)' \subseteq Newest(store, Window)
  BY DEF TrialEffect, MemoryMoves
<1>3. CASE i \in DOMAIN rows
  <2>1. PICK old \in SUBSET rows[i].known : PromptMovesOn(i, old)
    BY <1>3 DEF RecordIInv, WindowMovesOn
  <2> DEFINE later == rows[i].shown \cup (Known \ old)
  <2>2. /\ rows'[i] = rows[i] /\ old \subseteq Known
        /\ Known' \ old = (Known \ old) \cup NewEntries
    BY <1>3, RowsStay, RowHas, EntriesStay DEF NewEntries
  <2>3. /\ injectedRoot \in old /\ rows[i].shown \subseteq old
        /\ \A e \in Known \ old : References(e) \subseteq later
        /\ Newest(store, Window) \subseteq later
        /\ \A j \in DOMAIN rows : i < j => rows[j].shown \subseteq later
    BY <2>1 DEF PromptMovesOn
  <2> HIDE DEF later
  <2>4. \A e \in Known' \ old : References(e)' \subseteq later \cup NewEntries
    BY <1>2, <2>2, <2>3, EntriesStay
  <2>5. ASSUME NEW j \in DOMAIN rows', i < j PROVE rows'[j].shown \subseteq later
    <3>1. CASE j \in DOMAIN rows
      BY <2>3, <2>5, <3>1, RowsStay
    <3>2. CASE j \notin DOMAIN rows
      BY <2>3, <3>2, RowAdded
    <3> QED BY <3>1, <3>2
  <2>6. later \cup NewEntries = rows'[i].shown \cup (Known' \ old)
    BY <2>2 DEF later
  <2>7. PromptMovesOn(i, old)'
    BY <1>1, <2>2, <2>3, <2>4, <2>5, <2>6, EntriesStay DEF PromptMovesOn
  <2> QED BY <2>2, <2>7
<1>4. CASE i \notin DOMAIN rows
  <2>1. PICK old : old = Known
    OBVIOUS
  <2>2. rows'[i].known = Known' /\ rows'[i].shown = Newest(store, Window)
    BY <1>4, RowAdded
  <2>3. Newest(store, Window) \subseteq old /\ injectedRoot' \in old
    BY <2>1, NewestIsPart, EntriesStay DEF RecordIInv, UnitShape, LineageInOrder
  <2>4. \A j \in DOMAIN rows' : ~ (i < j)
    BY <1>4, RowAdded
  <2>5. PromptMovesOn(i, old)'
    BY <1>1, <1>2, <2>1, <2>2, <2>3, <2>4 DEF PromptMovesOn, NewEntries
  <2> QED BY <2>1, <2>2, <2>5, EntriesStay
<1> QED BY <1>3, <1>4

LEMMA StrategiesGoOn ==
  ASSUME RecordIInv, TrialEffect
  PROVE  StrategiesFollow'
<1> SUFFICES ASSUME baseline = "dc_rs" PROVE StrategiesFollow'
  BY EntriesStay DEF StrategiesFollow
<1>1. /\ \A i \in Included : \E s \in Known : StrategyOf(rows[i], s)
      /\ \A i \in Included :
           i > 1 => \A x \in rows[i - 1].shown, s \in rows[i].shown : x \in References(s)
      /\ Len(rows) \in Included => rows[Len(rows)].shown = {PriorStrategy}
  BY DEF RecordIInv, StrategiesFollow
<1>2. /\ Len(rows) \in Nat /\ DOMAIN rows = 1 .. Len(rows)
      /\ \A i \in DOMAIN rows : i \in DOMAIN rows' /\ rows'[i] = rows[i]
  BY RowsStay
<1>3. \A i \in Included' : i \in DOMAIN rows => i \in Included
  BY <1>2 DEF Included, Completed
<1>4. ASSUME NEW i \in Included', i \notin DOMAIN rows
      PROVE  /\ i = Len(rows) + 1 /\ i = Len(rows')
             /\ i > 1 => Len(rows) \in Included
             /\ \E s \in NewEntries :
                  /\ StrategyOf(rows[i], s)' /\ PriorStrategy' = s /\ rows'[i].shown = {s}
                  /\ PriorStrategy # 0 => PriorStrategy \in References(s)'
  <2>1. i \in DOMAIN rows' /\ Completed(rows'[i])
    BY DEF Included, Completed
  <2>2. PICK r \in TrialRows : r = rows'[i] /\ RowFiled(r)
    BY <1>4, <2>1, RowsStay
  <2>3. i = Len(rows) + 1 /\ i = Len(rows') /\ outcome = "running"
    BY <1>4, <2>1, RowsStay
  <2>4. PICK s \in NewEntries : StrategyOf(r, s)' /\ PriorStrategy' = s
          /\ (PriorStrategy # 0 => PriorStrategy \in References(s)')
    BY <2>1, <2>2 DEF RowFiled, Completed
  <2>5. StrategyOf(rows[i], s)' /\ rows'[i].shown = {s}
    BY <2>2, <2>4 DEF StrategyOf, Fresh
  <2>6. ASSUME i > 1 PROVE Len(rows) \in Included
    <3>1. Len(rows) \in DOMAIN rows
      BY <1>2, <2>3, <2>6
    <3>2. Completed(rows[Len(rows)])
      BY <2>3, <3>1 DEF RecordIInv, RowsInSequence
    <3> QED BY <3>1, <3>2 DEF Included
  <2> QED BY <2>3, <2>4, <2>5, <2>6
<1>5. ASSUME NEW i \in Included' PROVE \E s \in Known' : StrategyOf(rows[i], s)'
  <2>1. CASE i \in DOMAIN rows
    <3>1. i \in Included
      BY <1>3, <2>1
    <3>2. PICK s \in Known : StrategyOf(rows[i], s)
      BY <1>1, <3>1
    <3>3. s \in Known' /\ StrategyOf(rows[i], s)'
      BY <1>2, <2>1, <3>2, EntriesStay DEF StrategyOf, Fresh
    <3> QED BY <3>3
  <2>2. CASE i \notin DOMAIN rows
    BY <1>4, <2>2 DEF NewEntries
  <2> QED BY <2>1, <2>2
<1>6. ASSUME NEW i \in Included', i > 1,
             NEW x \in rows'[i - 1].shown, NEW s \in rows'[i].shown
      PROVE  x \in References(s)'
  <2>1. CASE i \in DOMAIN rows
    <3>1. i \in Included /\ i - 1 \in DOMAIN rows
      BY <1>2, <1>3, <1>6, <2>1
    <3>2. x \in rows[i - 1].shown /\ s \in rows[i].shown
      BY <1>2, <2>1, <3>1
    <3>3. x \in References(s)
      BY <1>1, <1>6, <3>1, <3>2
    <3>4. s \in Known
      BY <2>1, <3>2, RowHas
    <3> QED BY <3>3, <3>4, EntriesStay
  <2>2. CASE i \notin DOMAIN rows
    <3>1. i - 1 = Len(rows) /\ Len(rows) \in Included /\ Len(rows) \in DOMAIN rows
      BY <1>2, <1>4, <1>6, <2>2 DEF Included
    <3>2. rows'[i - 1].shown = {PriorStrategy}
      BY <1>1, <1>2, <3>1
    <3>3. PriorStrategy \in Known
      BY <1>2, <3>1, <3>2, RowHas
    <3>4. PriorStrategy # 0
      BY <3>3 DEF Known
    <3> QED BY <1>4, <2>2, <3>2, <3>4
  <2> QED BY <2>1, <2>2
<1>7. ASSUME Len(rows') \in Included' PROVE rows'[Len(rows')].shown = {PriorStrategy'}
  <2>1. CASE Len(rows') \in DOMAIN rows
    <3>1. rows' = rows
      <4>1. ASSUME NEW r, rows' = Append(rows, r) PROVE FALSE
        BY <1>2, <2>1, <4>1 DEF RecordIInv, UnitShape
      <4> QED BY <4>1 DEF TrialEffect, RowFiled
    <3>2. ASSUME NEW r, rows' = Append(rows, r) PROVE FALSE
      BY <3>1, <3>2, <1>2 DEF RecordIInv, UnitShape
    <3>3. lineage' = lineage /\ store' = store
      BY <3>2 DEF TrialEffect, RowFiled
    <3>4. PriorStrategy' = PriorStrategy
      BY <3>3 DEF PriorStrategy, Strategies
    <3> QED BY <1>1, <1>3, <1>7, <2>1, <3>1, <3>4
  <2>2. CASE Len(rows') \notin DOMAIN rows
    BY <1>4, <1>7, <2>2
  <2> QED BY <2>1, <2>2
<1> QED BY <1>5, <1>6, <1>7 DEF StrategiesFollow

-------------------------------------------------------------------------------
(* Every step of the unit has such an effect. *)

\* It remains to account for what is on record and for the outcome.
LEMMA EffectPreserves ==
  ASSUME RecordIInv, TrialEffect, AttemptInStep', RefusedForCause',
         (provenance \cup nativeReflections)' = Known',
         outcome' \in {"running", "ended", "aborted", "archived", "refused"}
  PROVE  RecordIInv'
<1>1. UnitShape'
  <2>1. store' \subseteq Known' /\ rows' \in Seq(TrialRows)
    BY EntriesStay, RowsStay
  <2> QED BY <2>1, EntriesStay DEF RecordIInv, UnitShape
<1> QED BY <1>1, LineageKept, RowsKept, NothingComesBack, OldestGo, WindowMoves, StrategiesGoOn
        DEF RecordIInv

LEMMA NothingWritten ==
  ASSUME RecordIInv, UNCHANGED lineage
  PROVE  /\ LineageGrows /\ NewEntries = {} /\ Known' = Known
         /\ UNCHANGED store => MemoryMoves
<1>1. Known' = Known
  BY DEF Known
<1>2. NewEntries = {}
  BY <1>1 DEF NewEntries
<1>3. LineageGrows
  BY <1>2 DEF LineageGrows, RecordIInv, LineageInOrder
<1>4. ASSUME UNCHANGED store PROVE MemoryMoves
  BY <1>2, <1>4 DEF MemoryMoves, OldestLeft, Newest
<1> QED BY <1>1, <1>2, <1>3, <1>4

\* An entry that is appended names what is in memory.
LEMMA OneEntry ==
  ASSUME RecordIInv, NEW c \in LineageCards, lineage' = Append(lineage, c),
         c.parents \cup ({c.predecessor} \ {0}) \subseteq store, NEW e, e = Len(lineage) + 1
  PROVE  /\ LineageGrows /\ NewEntries = {e} /\ Known' = Known \cup {e} /\ e \in Nat \ {0}
         /\ \A x \in Known : x < e
         /\ References(e)' = c.parents \cup ({c.predecessor} \ {0})
<1>1. lineage \in Seq(LineageCards) /\ Len(lineage) \in Nat
  BY DEF RecordIInv, LineageInOrder
<1>2. lineage' \in Seq(LineageCards) /\ Len(lineage') = e
  BY <1>1
<1>3. Known' = Known \cup {e} /\ e \notin Known /\ (\A x \in Known : x < e) /\ e \in Nat \ {0}
  BY <1>1, <1>2 DEF Known
<1>4. NewEntries = {e}
  BY <1>3 DEF NewEntries
<1>5. \A x \in Known : lineage'[x] = lineage[x]
  BY <1>1 DEF Known
<1>6. lineage'[e] = c
  BY <1>1
<1>7. References(e)' = c.parents \cup ({c.predecessor} \ {0})
  BY <1>6 DEF References
<1>8. store \subseteq 1 .. e - 1
  BY <1>1 DEF RecordIInv, UnitShape, Known
<1>9. LineageGrows
  <2>1. \A x \in NewEntries : References(x)' \subseteq (store \cup NewEntries) \cap (1 .. x - 1)
    <3> SUFFICES ASSUME NEW x \in NewEntries
                 PROVE  References(x)' \subseteq (store \cup NewEntries) \cap (1 .. x - 1)
      OBVIOUS
    <3>1. x = e
      BY <1>4
    <3> QED BY <1>7, <1>8, <3>1
  <2>2. Len(lineage) <= Len(lineage')
    BY <1>1, <1>2
  <2> QED BY <1>2, <1>5, <2>1, <2>2 DEF LineageGrows
<1> QED BY <1>3, <1>4, <1>7, <1>9

\* The unit between two trials.
LEMMA AtRest ==
  ASSUME RecordIInv, outcome = "running"
  PROVE  /\ attemptIndex = 0 => provenance = Known /\ MemoryAtRest = store /\ nativeReflections = {}
         /\ outcome' # "refused" => RefusedForCause'
         /\ store \in SUBSET Known /\ Known \subseteq Nat /\ IsFiniteSet(store)
<1>1. IsFiniteSet(Known) /\ Known \subseteq Nat
  BY UpTo DEF RecordIInv, LineageInOrder, Known
<1>2. store \in SUBSET Known
  BY DEF RecordIInv, UnitShape
<1>3. IsFiniteSet(store)
  BY <1>1, <1>2, FS_Subset
<1>4. ASSUME attemptIndex = 0
      PROVE  provenance = Known /\ MemoryAtRest = store /\ nativeReflections = {}
  <2>1. nativeReflections = {}
    BY <1>4 DEF RecordIInv, AttemptInStep
  <2>2. MemoryAtRest = store
    BY <1>4 DEF MemoryAtRest
  <2>3. provenance \cup nativeReflections = Known
    BY DEF RecordIInv, UnitShape
  <2> QED BY <2>1, <2>2, <2>3
<1> QED BY <1>1, <1>2, <1>3, <1>4 DEF RefusedForCause

\* A trial that ends files its row.
LEMMA TrialIsOver ==
  ASSUME RecordIInv, outcome = "running", attemptIndex' = 0, nativeReflections' = {},
         LineageGrows, MemoryMoves,
         NEW from, from = MemoryAtRest, NEW to, NEW own, provenance \cup own = Known',
         NEW shown \in SUBSET (store \cup NewEntries),
         NEW context \in BOOLEAN, NEW failure \in Failures, NEW callFailed \in BOOLEAN,
         Leave(from, to, own, shown, context, failure, callFailed),
         context \/ (from = to /\ failure # "none"),
         baseline # "fh_bounded" =>
           \A e \in to \ from : e \in shown \/ References(e)' \subseteq shown,
         baseline = "reflexion_style" => shown = Newest(store, Window),
         baseline = "dc_rs" /\ failure = "none" =>
           \E s \in NewEntries :
             /\ shown = {s} /\ to \ from = {s, s + 1}
             /\ s + 1 \in Known' /\ s \in References(s + 1)' /\ PriorStrategy' = s
             /\ PriorStrategy # 0 => PriorStrategy \in References(s)'
  PROVE  RecordIInv'
<1>1. /\ store \in SUBSET Known /\ Known \subseteq Nat
      /\ from \in SUBSET Known
  BY AtRest DEF MemoryAtRest, RecordIInv, AttemptInStep
<1>2. /\ store' = to /\ provenance' = Known' /\ UNCHANGED unitVars
      /\ outcome' = UnitAfter(failure)
  BY DEF Leave, ProvenanceAfter
<1>3. outcome' \in {"running", "ended"} /\ (failure # "none" => outcome' # "running")
  BY <1>2 DEF UnitAfter
<1>4. Known' = Known \cup NewEntries /\ Known' \subseteq Nat
  <2>1. Len(lineage) \in Nat /\ Len(lineage') \in Nat /\ Len(lineage) <= Len(lineage')
    BY DEF RecordIInv, LineageInOrder, LineageGrows
  <2>2. Known \subseteq Known' /\ Known' \subseteq Nat
    BY <2>1 DEF Known
  <2> QED BY <2>2 DEF NewEntries
<1>5. to \subseteq Known' /\ from \subseteq Known' /\ shown \subseteq Known'
  BY <1>1, <1>2, <1>4 DEF MemoryMoves
<1>6. PICK r : r = [before |-> from, after |-> to, shown |-> shown, context |-> context,
                    failure |-> failure, callFailed |-> callFailed, known |-> Known']
  OBVIOUS
<1>7. r \in TrialRows
  BY <1>4, <1>5, <1>6 DEF TrialRows
<1>8. rows' = Append(rows, r)
  <2>1. Known' \cup from \cup to = Known'
    BY <1>5
  <2>2. rows' = Append(rows, [before |-> from, after |-> to, shown |-> shown,
                              context |-> context, failure |-> failure,
                              callFailed |-> callFailed,
                              known |-> provenance' \cup from \cup to])
    BY DEF Leave
  <2> QED BY <1>2, <1>6, <2>1, <2>2
<1>9. MemoryAtRest' = store'
  BY DEF MemoryAtRest
<1>10. ASSUME baseline = "dc_rs", Completed(r)
       PROVE  \E s \in NewEntries :
                /\ StrategyOf(r, s)' /\ PriorStrategy' = s
                /\ PriorStrategy # 0 => PriorStrategy \in References(s)'
  <2>1. PICK s \in NewEntries :
          /\ shown = {s} /\ to \ from = {s, s + 1}
          /\ s + 1 \in Known' /\ s \in References(s + 1)' /\ PriorStrategy' = s
          /\ PriorStrategy # 0 => PriorStrategy \in References(s)'
    BY <1>6, <1>10 DEF Completed
  <2>2. StrategyOf(r, s)'
    BY <1>6, <2>1 DEF StrategyOf, Fresh
  <2> QED BY <2>1, <2>2
<1>11. RowFiled(r)
  <2>1. r.context \/ (r.before = r.after /\ ~ Completed(r))
    BY <1>6 DEF Completed
  <2>2. baseline # "fh_bounded" =>
          \A e \in Fresh(r) : e \in r.shown \/ References(e)' \subseteq r.shown
    BY <1>6 DEF Fresh
  <2>3. Completed(r) \/ outcome' # "running"
    BY <1>3, <1>6 DEF Completed
  <2> QED BY <1>2, <1>6, <1>8, <1>9, <1>10, <2>1, <2>2, <2>3 DEF RowFiled
<1>12. TrialEffect
  BY <1>2, <1>7, <1>11 DEF TrialEffect
<1>13. RefusedForCause'
  BY <1>3 DEF RefusedForCause
<1>14. AttemptInStep'
  BY EvidenceAssumption DEF AttemptInStep
<1>15. (provenance \cup nativeReflections)' = Known'
  BY <1>2
<1> QED BY <1>3, <1>12, <1>13, <1>14, <1>15, EffectPreserves

LEMMA AbortPreserves ==
  ASSUME RecordIInv, Aborts, outcome = "running"
  PROVE  RecordIInv'
<1>1. /\ UNCHANGED <<lineage, store, provenance, rows, attemptIndex, memoryBefore>>
      /\ UNCHANGED <<visibleEntries, nativeReflections>> /\ UNCHANGED unitVars
      /\ outcome' = "aborted"
  BY DEF Aborts, attemptVars
<1>2. LineageGrows /\ MemoryMoves /\ Known' = Known
  BY <1>1, NothingWritten
<1>3. TrialEffect
  BY <1>1, <1>2 DEF TrialEffect, MemoryAtRest
<1>4. AttemptInStep'
  BY <1>1, <1>2 DEF AttemptInStep, RecordIInv, unitVars, Newest
<1>5. RefusedForCause' /\ (provenance \cup nativeReflections)' = Known'
  BY <1>1, <1>2 DEF RefusedForCause, RecordIInv, UnitShape
<1> QED BY <1>1, <1>3, <1>4, <1>5, EffectPreserves

LEMMA FullHistoryPreserves ==
  ASSUME RecordIInv, FullHistoryTrial
  PROVE  RecordIInv'
<1>1. /\ outcome = "running" /\ attemptIndex = 0 /\ baseline = "fh_bounded"
      /\ provenance = Known /\ MemoryAtRest = store /\ nativeReflections = {}
      /\ outcome' # "refused" => RefusedForCause'
  BY AtRest DEF FullHistoryTrial, Ready
<1>2. PICK shown \in Histories :
        LET e == Len(lineage) + 1
        IN IF RootTruncated(shown)
           THEN Aborts
           ELSE /\ UNCHANGED attemptVars
                /\ \/ /\ lineage' = Append(lineage, RecordCard)
                      /\ Answered(store, store \cup {e}, {e}, shown)
                   \/ UNCHANGED lineage /\ AnswerCallFails(store, store, {}, shown)
  BY DEF FullHistoryTrial
<1>3. shown \subseteq store
  BY NewestIsPart DEF Histories
<1>4. CASE Aborts
  BY <1>1, <1>4, AbortPreserves
<1>5. ASSUME UNCHANGED attemptVars, UNCHANGED lineage,
             AnswerCallFails(store, store, {}, shown)
      PROVE  RecordIInv'
  <2>1. PICK from : from = store
    OBVIOUS
  <2>2. Leave(from, from, {}, shown, TRUE, "provider_call_failed", TRUE)
    BY <1>5, <2>1 DEF AnswerCallFails
  <2>3. LineageGrows /\ NewEntries = {} /\ Known' = Known /\ MemoryMoves
    BY <1>5, <2>1, <2>2, NothingWritten DEF Leave
  <2>4. attemptIndex' = 0 /\ nativeReflections' = {}
    BY <1>1, <1>5 DEF attemptVars
  <2>5. "provider_call_failed" \in Failures
    BY DEF Failures
  <2> QED BY <1>1, <1>3, <2>1, <2>2, <2>3, <2>4, <2>5, TrialIsOver
<1>6. ASSUME UNCHANGED attemptVars, NEW e, e = Len(lineage) + 1,
             lineage' = Append(lineage, RecordCard), Answered(store, store \cup {e}, {e}, shown)
      PROVE  RecordIInv'
  <2>1. PICK from : from = store
    OBVIOUS
  <2>2. PICK failure \in {"none", "invalid_answer"} :
          Leave(from, from \cup {e}, {e}, shown, TRUE, failure, FALSE)
    BY <1>6, <2>1 DEF Answered
  <2>3. LineageGrows /\ NewEntries = {e} /\ Known' = Known \cup {e}
    <3>1. /\ RecordCard \in LineageCards
          /\ RecordCard.parents \cup ({RecordCard.predecessor} \ {0}) \subseteq store
      BY DEF RecordCard, Card, LineageCards
    <3> QED BY <1>6, <3>1, OneEntry
  <2>4. MemoryMoves
    BY <1>1, <2>1, <2>2, <2>3 DEF Leave, MemoryMoves, OldestLeft
  <2>5. attemptIndex' = 0 /\ nativeReflections' = {} /\ failure \in Failures
    BY <1>1, <1>6 DEF attemptVars, Failures
  <2>6. shown \subseteq store \cup NewEntries /\ provenance \cup {e} = Known'
    BY <1>1, <1>3, <2>3
  <2> QED BY <1>1, <2>1, <2>2, <2>3, <2>4, <2>5, <2>6, TrialIsOver
<1> QED BY <1>2, <1>4, <1>5, <1>6

LEMMA BotPreserves ==
  ASSUME RecordIInv, BotTrial
  PROVE  RecordIInv'
<1>1. /\ outcome = "running" /\ attemptIndex = 0 /\ baseline = "bot_style"
      /\ provenance = Known /\ MemoryAtRest = store
      /\ attemptIndex' = 0 /\ nativeReflections' = {}
  BY AtRest DEF BotTrial, Ready, attemptVars
<1>2. PICK from : from = store
  OBVIOUS
<1>3. PICK shown \in Matches :
        \/ /\ UNCHANGED lineage
           /\ Answered(from, from, {}, shown) \/ AnswerCallFails(from, from, {}, shown)
        \/ LET e == Len(lineage) + 1
           IN /\ \E parents \in SUBSET shown : lineage' = Append(lineage, TemplateCard(parents))
              /\ Leave(from, from \cup {e}, {e}, shown, TRUE, "none", FALSE)
  BY <1>2 DEF BotTrial
<1>4. shown \subseteq store
  BY DEF Matches
<1>5. ASSUME NEW failure \in Failures, NEW callFailed \in BOOLEAN, UNCHANGED lineage,
             Leave(from, from, {}, shown, TRUE, failure, callFailed)
      PROVE  RecordIInv'
  <2>1. LineageGrows /\ NewEntries = {} /\ Known' = Known /\ MemoryMoves
    BY <1>2, <1>5, NothingWritten DEF Leave
  <2> QED BY <1>1, <1>2, <1>4, <1>5, <2>1, TrialIsOver
<1>6. ASSUME NEW e, e = Len(lineage) + 1, NEW parents \in SUBSET shown,
             lineage' = Append(lineage, TemplateCard(parents)),
             Leave(from, from \cup {e}, {e}, shown, TRUE, "none", FALSE)
      PROVE  RecordIInv'
  <2>1. /\ LineageGrows /\ NewEntries = {e} /\ Known' = Known \cup {e}
        /\ References(e)' = parents
    <3>1. PICK c : c = TemplateCard(parents)
      OBVIOUS
    <3>2. parents \in SUBSET Nat
      BY <1>1, <1>4, AtRest
    <3>3. /\ c \in LineageCards
          /\ c.parents \cup ({c.predecessor} \ {0}) = parents
      BY <3>1, <3>2 DEF TemplateCard, Card, LineageCards
    <3>4. parents \subseteq store
      BY <1>4
    <3> QED BY <1>6, <3>1, <3>3, <3>4, OneEntry
  <2>2. MemoryMoves
    BY <1>1, <1>2, <1>6, <2>1 DEF Leave, MemoryMoves, OldestLeft
  <2>3. shown \subseteq store \cup NewEntries /\ provenance \cup {e} = Known'
    BY <1>1, <1>4, <2>1
  <2>4. "none" \in Failures
    BY DEF Failures
  <2> QED BY <1>1, <1>2, <1>6, <2>1, <2>2, <2>3, <2>4, TrialIsOver
<1>7. CASE UNCHANGED lineage /\ Answered(from, from, {}, shown)
  BY <1>5, <1>7 DEF Answered, Failures
<1>8. CASE UNCHANGED lineage /\ AnswerCallFails(from, from, {}, shown)
  BY <1>5, <1>8 DEF AnswerCallFails, Failures
<1> QED BY <1>3, <1>6, <1>7, <1>8

LEMMA DcFailurePreserves ==
  ASSUME RecordIInv, DcCallFails
  PROVE  RecordIInv'
<1>1. /\ outcome = "running" /\ attemptIndex = 0 /\ baseline = "dc_rs"
      /\ provenance = Known /\ MemoryAtRest = store
      /\ attemptIndex' = 0 /\ nativeReflections' = {}
  BY AtRest DEF DcCallFails, Ready, attemptVars
<1>2. PICK from : from = store
  OBVIOUS
<1>3. Leave(from, from, {}, {}, FALSE, "provider_call_failed", TRUE) /\ UNCHANGED lineage
  BY <1>2 DEF DcCallFails
<1>4. LineageGrows /\ NewEntries = {} /\ Known' = Known /\ MemoryMoves
  BY <1>2, <1>3, NothingWritten DEF Leave
<1>5. "provider_call_failed" \in Failures
  BY DEF Failures
<1> QED BY <1>1, <1>2, <1>3, <1>4, <1>5, TrialIsOver

\* The strategy that is written last is the one that is active.
LEMMA LastStrategy ==
  ASSUME RecordIInv, NEW s, s = Len(lineage) + 1,
         \A x \in Known : lineage'[x] = lineage[x],
         lineage'[s].component = "strategy", lineage'[s + 1].component = "archive",
         store' = store \cup {s, s + 1}
  PROVE  PriorStrategy' = s
<1>1. Len(lineage) \in Nat /\ \A x \in store : x \in Nat /\ x < s
  BY DEF RecordIInv, LineageInOrder, UnitShape, Known
<1>2. s \in Strategies'
  BY DEF Strategies
<1>3. ASSUME NEW x \in Strategies' PROVE x <= s /\ x \in Nat
  <2>1. x \in store \cup {s, s + 1} /\ lineage'[x].component = "strategy"
    BY DEF Strategies
  <2>2. x # s + 1
    BY <2>1
  <2> QED BY <1>1, <2>1, <2>2
<1>4. PriorStrategy' = CHOOSE e \in Strategies' : \A x \in Strategies' : x <= e
  BY <1>2 DEF PriorStrategy
<1>5. ASSUME NEW e \in Strategies', \A x \in Strategies' : x <= e PROVE e = s
  BY <1>1, <1>2, <1>3, <1>5
<1>6. \E e \in Strategies' : \A x \in Strategies' : x <= e
  BY <1>2, <1>3
<1> QED BY <1>4, <1>5, <1>6

\* And it is one of the memory, or none.
LEMMA StrategyHeld ==
  ASSUME RecordIInv, outcome = "running"
  PROVE  PriorStrategy = 0 \/ PriorStrategy \in store
<1>1. IsFiniteSet(Strategies) /\ Strategies \subseteq store /\ store \subseteq Nat
  BY AtRest, FS_Subset DEF Strategies
<1>2. CASE Strategies = {}
  BY <1>2 DEF PriorStrategy
<1>3. CASE Strategies # {}
  <2>1. \E e \in Strategies : \A x \in Strategies : x <= e
    BY <1>1, <1>3, HasEnds
  <2> QED BY <1>1, <1>3, <2>1 DEF PriorStrategy
<1> QED BY <1>2, <1>3

LEMMA DcPreserves ==
  ASSUME RecordIInv, DcTrial
  PROVE  RecordIInv'
<1>1. /\ outcome = "running" /\ attemptIndex = 0 /\ baseline = "dc_rs"
      /\ provenance = Known /\ MemoryAtRest = store
      /\ attemptIndex' = 0 /\ nativeReflections' = {}
  BY AtRest DEF DcTrial, Ready, attemptVars
<1>2. PICK from, s, prior : from = store /\ s = Len(lineage) + 1 /\ prior = PriorStrategy
  OBVIOUS
<1>3. PICK cited \in SUBSET Archive :
        /\ lineage' = lineage \o <<StrategyCard(cited), PairCard(s)>>
        /\ Answered(from, from \cup {s, s + 1}, {s, s + 1}, {s})
  BY <1>2 DEF DcTrial
<1>4. PICK failure \in {"none", "invalid_answer"} :
        Leave(from, from \cup {s, s + 1}, {s, s + 1}, {s}, TRUE, failure, FALSE)
  BY <1>3 DEF Answered
<1>5. PICK c, p : c = Card(cited, prior, "strategy") /\ p = Card({s}, 0, "archive")
  OBVIOUS
<1>6. lineage' = lineage \o <<c, p>>
  BY <1>2, <1>3, <1>5 DEF StrategyCard, PairCard
<1>7. /\ lineage \in Seq(LineageCards) /\ Len(lineage) \in Nat
      /\ s \in Nat \ {0} /\ s + 1 \in Nat \ {0} /\ Known = 1 .. s - 1
  BY <1>2 DEF RecordIInv, LineageInOrder, Known
<1>8. /\ cited \subseteq store /\ store \subseteq 1 .. s - 1 /\ store \subseteq Nat
      /\ prior = 0 \/ prior \in store
  BY <1>1, <1>2, <1>7, AtRest, StrategyHeld DEF Archive
<1>9. c \in LineageCards /\ p \in LineageCards
  <2>1. cited \in SUBSET Nat
    BY <1>8
  <2>2. prior \in Nat
    <3>1. CASE prior = 0
      BY <3>1
    <3>2. CASE prior \in store
      BY <1>8, <3>2
    <3> QED BY <1>8, <3>1, <3>2
  <2>3. {s} \in SUBSET Nat
    BY <1>7
  <2> QED BY <1>5, <2>1, <2>2, <2>3 DEF Card, LineageCards
<1>10. /\ lineage' \in Seq(LineageCards) /\ Len(lineage') = Len(lineage) + 2
       /\ \A x \in Known : lineage'[x] = lineage[x]
       /\ lineage'[s] = c /\ lineage'[s + 1] = p
  BY <1>2, <1>6, <1>7, <1>9
<1>11. /\ Known' = Known \cup {s, s + 1} /\ NewEntries = {s, s + 1}
       /\ s \notin store /\ s + 1 \notin store
  BY <1>2, <1>7, <1>8, <1>10 DEF Known, NewEntries
<1>12. /\ References(s)' = cited \cup ({prior} \ {0})
       /\ References(s + 1)' = {s}
  BY <1>5, <1>7, <1>10 DEF References, Card
<1>13. LineageGrows
  <2>1. \A e \in NewEntries : References(e)' \subseteq (store \cup NewEntries) \cap (1 .. e - 1)
    <3> SUFFICES ASSUME NEW e \in NewEntries
                 PROVE  References(e)' \subseteq (store \cup NewEntries) \cap (1 .. e - 1)
      OBVIOUS
    <3>1. CASE e = s
      BY <1>8, <1>12, <3>1
    <3>2. CASE e = s + 1
      BY <1>7, <1>11, <1>12, <3>2
    <3> QED BY <1>11, <3>1, <3>2
  <2> QED BY <1>7, <1>10, <2>1 DEF LineageGrows
<1>14. MemoryMoves
  BY <1>1, <1>2, <1>4, <1>11 DEF Leave, MemoryMoves, OldestLeft
<1>15. PriorStrategy' = s
  <2>1. store' = store \cup {s, s + 1}
    BY <1>2, <1>4 DEF Leave
  <2>2. lineage'[s].component = "strategy" /\ lineage'[s + 1].component = "archive"
    BY <1>5, <1>10 DEF Card
  <2> QED BY <1>2, <1>10, <2>1, <2>2, LastStrategy
<1>16. provenance \cup {s, s + 1} = Known' /\ {s} \subseteq store \cup NewEntries
  BY <1>1, <1>11
<1>17. \A e \in (from \cup {s, s + 1}) \ from : e \in {s} \/ References(e)' \subseteq {s}
  BY <1>2, <1>12
<1>18. PriorStrategy # 0 => PriorStrategy \in References(s)'
  BY <1>2, <1>12
<1>19. (from \cup {s, s + 1}) \ from = {s, s + 1} /\ s + 1 \in Known' /\ s \in References(s + 1)'
  BY <1>2, <1>11, <1>12
<1>20. failure \in Failures
  BY DEF Failures
<1>21. s \in NewEntries
  BY <1>11
<1> QED BY <1>1, <1>2, <1>4, <1>13, <1>14, <1>15, <1>16, <1>17, <1>18, <1>19, <1>20, <1>21,
           TrialIsOver

-------------------------------------------------------------------------------
(* Reflexion. *)

\* Within a trial.
LEMMA WithinTrial ==
  ASSUME RecordIInv, ReflexionRuns
  PROVE  /\ outcome = "running" /\ baseline = "reflexion_style"
         /\ MemoryAtRest = memoryBefore /\ memoryBefore \subseteq Known
         /\ visibleEntries = Newest(store, Window) /\ visibleEntries \subseteq store
         /\ store \ memoryBefore \subseteq nativeReflections
         /\ nativeReflections \subseteq visibleEntries
         /\ provenance \cup nativeReflections = Known
         /\ attemptIndex \in Nat
BY EvidenceAssumption, NewestIsPart
   DEF ReflexionRuns, RecordIInv, UnitShape, AttemptInStep, MemoryAtRest

LEMMA BeginPreserves ==
  ASSUME RecordIInv, BeginReflexion
  PROVE  RecordIInv'
<1>1. /\ outcome = "running" /\ attemptIndex = 0 /\ baseline = "reflexion_style"
      /\ provenance = Known /\ MemoryAtRest = store /\ store \subseteq Known
  BY AtRest DEF BeginReflexion, Ready
<1>2. /\ attemptIndex' = 1 /\ memoryBefore' = store /\ nativeReflections' = {}
      /\ visibleEntries' = Newest(store, Window)
      /\ UNCHANGED <<unitVars, lineage, store, provenance, rows, outcome>>
  BY DEF BeginReflexion
<1>3. LineageGrows /\ Known' = Known /\ MemoryMoves
  BY <1>2, NothingWritten
<1>4. MemoryAtRest' = MemoryAtRest
  BY <1>1, <1>2 DEF MemoryAtRest
<1>5. TrialEffect
  BY <1>1, <1>2, <1>3, <1>4 DEF TrialEffect
<1>6. AttemptInStep'
  <2>1. 1 \in 0 .. MaxAttempts
    BY EvidenceAssumption
  <2>2. Newest(store, Window)' = Newest(store, Window)
    BY <1>2 DEF Newest
  <2> QED BY <1>1, <1>2, <1>3, <2>1, <2>2 DEF AttemptInStep, unitVars
<1> QED BY <1>1, <1>2, <1>3, <1>5, <1>6, AtRest, EffectPreserves

\* The last attempt is answered, or comes to nothing.
LEMMA EndPreserves ==
  ASSUME RecordIInv, ReflexionRuns, UNCHANGED lineage, EndAttempts,
         NEW failure \in Failures, NEW callFailed \in BOOLEAN,
         Leave(memoryBefore, store, nativeReflections, visibleEntries, TRUE, failure, callFailed)
  PROVE  RecordIInv'
<1>1. PICK from, to, own, shown :
        /\ from = memoryBefore /\ to = store /\ own = nativeReflections
        /\ shown = visibleEntries
  OBVIOUS
<1>2. Leave(from, to, own, shown, TRUE, failure, callFailed)
  BY <1>1
<1>3. LineageGrows /\ NewEntries = {} /\ Known' = Known /\ MemoryMoves
  BY <1>1, <1>2, NothingWritten DEF Leave
<1>4. attemptIndex' = 0 /\ nativeReflections' = {}
  BY DEF EndAttempts
<1> QED BY <1>1, <1>2, <1>3, <1>4, WithinTrial, TrialIsOver

LEMMA ReflectionPreserves ==
  ASSUME RecordIInv, WriteReflection
  PROVE  RecordIInv'
<1>1. PICK from, e, kept, own, shown :
        /\ from = memoryBefore /\ e = Len(lineage) + 1
        /\ kept = Newest(store \cup {e}, capacity) /\ own = nativeReflections \cup {e}
        /\ shown = visibleEntries
  OBVIOUS
<1>2. PICK parents \in SUBSET visibleEntries : lineage' = Append(lineage, ReflectionCard(parents))
  BY <1>1 DEF WriteReflection
<1>3. /\ outcome = "running" /\ baseline = "reflexion_style" /\ MemoryAtRest = from
      /\ from \subseteq Known /\ shown = Newest(store, Window) /\ shown \subseteq store
      /\ store \ from \subseteq nativeReflections /\ nativeReflections \subseteq shown
      /\ provenance \cup nativeReflections = Known
  BY <1>1, WithinTrial DEF WriteReflection
<1>4. store \subseteq Known /\ store \subseteq Nat /\ IsFiniteSet(store)
  BY <1>3, AtRest
<1>5. /\ LineageGrows /\ NewEntries = {e} /\ Known' = Known \cup {e} /\ e \in Nat
      /\ \A x \in Known : x < e
      /\ References(e)' = parents
  <2>1. PICK c : c = ReflectionCard(parents)
    OBVIOUS
  <2>2. parents \subseteq store /\ parents \in SUBSET Nat
    BY <1>1, <1>3, <1>4
  <2>3. c \in LineageCards /\ c.parents \cup ({c.predecessor} \ {0}) = parents
    BY <2>1, <2>2 DEF ReflectionCard, Card, LineageCards
  <2> QED BY <1>1, <1>2, <2>1, <2>2, <2>3, OneEntry
<1>6. capacity \in Nat \ {0} /\ Window \in Nat \ {0}
  BY EvidenceAssumption DEF RecordIInv, UnitShape
<1>7. store' = kept
  BY <1>1 DEF WriteReflection, Leave
<1> DEFINE appended == store \cup {e}
<1>8. /\ appended \in SUBSET Nat /\ IsFiniteSet(appended)
      /\ \A x \in appended : x <= e
  <2>1. \A x \in store : x <= e
    BY <1>4, <1>5
  <2>2. IsFiniteSet(appended)
    BY <1>4, FS_AddElement
  <2> QED BY <1>4, <1>5, <2>1, <2>2
<1>9. /\ Newest(appended, Window) \subseteq Newest(store, Window) \cup {e}
      /\ e \in kept
  BY <1>1, <1>4, <1>5, <1>6, NewestGrows
<1> HIDE DEF appended
<1>10. kept \subseteq appended /\ \A x \in appended \ kept, y \in kept : x < y
  BY <1>1, <1>6, <1>8, NewestShows, NewestIsPart DEF appended
<1>11. Newest(kept, Window) \subseteq Newest(appended, Window) /\ e \in Newest(kept, Window)
  <2>1. kept = Newest(appended, capacity)
    BY <1>1 DEF appended
  <2>2. kept \in SUBSET Nat /\ IsFiniteSet(kept) /\ \A x \in kept : x <= e
    BY <1>8, <1>10, FS_Subset
  <2>3. e \in Newest(kept, Window)
    BY <1>6, <1>9, <2>2, NewestShows
  <2> QED BY <1>6, <1>8, <2>1, <2>3, NewestOfNewest
<1>12. MemoryMoves
  <2>1. kept \subseteq store \cup NewEntries
    BY <1>5, <1>10 DEF appended
  <2>2. OldestLeft(store, kept)
    BY <1>10 DEF OldestLeft, appended
  <2>3. Newest(kept, Window) \subseteq Newest(store, Window) \cup NewEntries
    BY <1>5, <1>9, <1>11
  <2>4. Newest(store', Window) = Newest(kept, Window)
    BY <1>7
  <2>5. \A x \in NewEntries : References(x)' \subseteq Newest(store, Window)
    BY <1>1, <1>3, <1>5
  <2> QED BY <1>7, <2>1, <2>2, <2>3, <2>4, <2>5 DEF MemoryMoves
<1>13. CASE attemptIndex = MaxAttempts
  <2>1. Leave(from, kept, own, shown, TRUE, "none", FALSE) /\ EndAttempts
    BY <1>1, <1>13 DEF WriteReflection
  <2>2. attemptIndex' = 0 /\ nativeReflections' = {} /\ "none" \in Failures
    BY <2>1 DEF EndAttempts, Failures
  <2>3. provenance \cup own = Known' /\ shown \subseteq store \cup NewEntries
    BY <1>1, <1>3, <1>5
  <2>4. \A x \in kept \ from : x \in shown \/ References(x)' \subseteq shown
    BY <1>1, <1>3, <1>5, <1>10 DEF appended
  <2> QED BY <1>3, <1>5, <1>12, <2>1, <2>2, <2>3, <2>4, TrialIsOver
<1>14. CASE attemptIndex # MaxAttempts
  <2>1. /\ attemptIndex' = attemptIndex + 1
        /\ visibleEntries' = Newest(kept, Window) /\ nativeReflections' = own
        /\ UNCHANGED <<memoryBefore, unitVars, provenance, rows, outcome>>
    BY <1>1, <1>14 DEF WriteReflection, PromptMemory
  <2>2. attemptIndex = 1 /\ MaxAttempts = 2
    BY <1>14, EvidenceAssumption DEF WriteReflection, ReflexionRuns, RecordIInv, AttemptInStep
  <2>3. nativeReflections = {}
    BY <2>2 DEF RecordIInv, AttemptInStep
  <2>4. MemoryAtRest' = MemoryAtRest
    BY <2>1, <2>2 DEF MemoryAtRest
  <2>5. TrialEffect
    BY <1>3, <1>5, <1>12, <2>1, <2>4 DEF TrialEffect
  <2>6. AttemptInStep'
    <3>1. visibleEntries' = Newest(store, Window)'
      BY <1>7, <2>1 DEF Newest
    <3>2. own = {e} /\ kept \ from \subseteq own
      BY <1>1, <1>3, <1>10, <2>3 DEF appended
    <3>3. attemptIndex' = 2 /\ 2 \in 0 .. MaxAttempts
      BY <2>1, <2>2
    <3>4. baseline' = "reflexion_style" /\ memoryBefore' = from /\ from \subseteq Known'
      BY <1>1, <1>3, <1>5, <2>1 DEF unitVars
    <3>5. nativeReflections' \subseteq visibleEntries'
      BY <1>11, <2>1, <3>2
    <3> QED BY <1>7, <2>1, <3>1, <3>2, <3>3, <3>4, <3>5 DEF AttemptInStep
  <2>7. (provenance \cup nativeReflections)' = Known'
    BY <1>1, <1>3, <1>5, <2>1
  <2> QED BY <1>3, <2>1, <2>5, <2>6, <2>7, AtRest, EffectPreserves
<1> QED BY <1>13, <1>14

-------------------------------------------------------------------------------
(* The invariant of ArmEvidence holds. *)

LEMMA JoinPreserves ==
  ASSUME RecordIInv, Join
  PROVE  RecordIInv'
<1>1. /\ UNCHANGED <<lineage, store, provenance, rows, attemptIndex, memoryBefore>>
      /\ UNCHANGED <<visibleEntries, nativeReflections>> /\ UNCHANGED unitVars
      /\ outcome' \in {"archived", "refused"}
      /\ outcome' = "refused" => Refusals # {}
  BY DEF Join, attemptVars
<1>2. LineageGrows /\ MemoryMoves /\ Known' = Known
  BY <1>1, NothingWritten
<1>3. TrialEffect
  BY <1>1, <1>2 DEF TrialEffect, MemoryAtRest
<1>4. AttemptInStep'
  BY <1>1, <1>2 DEF AttemptInStep, RecordIInv, unitVars, Newest
<1>5. ASSUME outcome' = "refused" PROVE \E i \in DOMAIN rows : TerminalCallRequired(rows[i])
  <2>1. PICK c \in Refusals : TRUE
    BY <1>1, <1>5
  <2>2. PICK i \in DOMAIN rows : c \in RowRefusals(rows[i])
    BY <2>1, SequenceIsAccepted DEF Refusals
  <2>3. c = "TERMINAL_CALL_REQUIRED"
    BY <2>2, RowsAreAccepted
  <2>4. TerminalCallRequired(rows[i])
    BY <2>2, <2>3 DEF RowRefusals
  <2> QED BY <2>4
<1>6. RefusedForCause'
  BY <1>1, <1>5 DEF RefusedForCause, TerminalCallRequired, Completed
<1>7. (provenance \cup nativeReflections)' = Known'
  BY <1>1, <1>2 DEF RecordIInv, UnitShape
<1> QED BY <1>1, <1>3, <1>4, <1>6, <1>7, EffectPreserves

LEMMA NothingPreserves ==
  ASSUME RecordIInv, UNCHANGED evidenceVars
  PROVE  RecordIInv'
<1>1. /\ UNCHANGED <<lineage, store, provenance, rows, attemptIndex, memoryBefore>>
      /\ UNCHANGED <<visibleEntries, nativeReflections, outcome>> /\ UNCHANGED unitVars
  BY DEF evidenceVars, attemptVars
<1>2. LineageGrows /\ MemoryMoves /\ Known' = Known
  BY <1>1, NothingWritten
<1>3. TrialEffect
  BY <1>1, <1>2 DEF TrialEffect, MemoryAtRest
<1>4. AttemptInStep'
  BY <1>1, <1>2 DEF AttemptInStep, RecordIInv, unitVars, Newest
<1>5. RefusedForCause'
  BY <1>1 DEF RecordIInv, RefusedForCause, TerminalCallRequired, Completed
<1>6. (provenance \cup nativeReflections)' = Known' /\ outcome' = outcome
  BY <1>1, <1>2 DEF RecordIInv, UnitShape
<1>7. outcome \in {"running", "ended", "aborted", "archived", "refused"}
  BY DEF RecordIInv, UnitShape
<1> QED BY <1>3, <1>4, <1>5, <1>6, <1>7, EffectPreserves

LEMMA UnitBegins == Init => RecordIInv
<1> SUFFICES ASSUME Init PROVE RecordIInv
  OBVIOUS
<1>1. /\ baseline \in {"dc_rs", "reflexion_style", "bot_style", "fh_bounded"}
      /\ capacity \in Nat \ {0}
  BY EvidenceAssumption DEF Init
<1>2. PICK prefix \in Prefixes(baseline) :
        /\ injectedRoot = Len(prefix) + 1
        /\ lineage = Append(prefix, Card({}, 0, IF baseline = "dc_rs" THEN "archive" ELSE "entry"))
  BY DEF Init
<1>3. PICK c : c = Card({}, 0, IF baseline = "dc_rs" THEN "archive" ELSE "entry")
  OBVIOUS
<1>4. c \in LineageCards /\ c.parents = {} /\ c.predecessor = 0
  BY <1>3 DEF Card, LineageCards
<1>5. /\ prefix \in Seq(LineageCards)
      /\ \A e \in 1 .. Len(prefix) :
           prefix[e].parents \cup ({prefix[e].predecessor} \ {0}) \subseteq 1 .. e - 1
  <2>1. CASE prefix = << >>
    BY <2>1
  <2>2. CASE baseline = "dc_rs" /\ prefix # << >>
    <3>1. PICK s, p : s = Card({}, 0, "strategy") /\ p = Card({1}, 0, "archive")
      OBVIOUS
    <3>2. prefix = <<s, p>>
      BY <1>2, <2>2, <3>1 DEF Prefixes, PairCard
    <3>3. s \in LineageCards /\ p \in LineageCards
      BY <3>1 DEF Card, LineageCards
    <3>4. /\ s.parents \cup ({s.predecessor} \ {0}) = {}
          /\ p.parents \cup ({p.predecessor} \ {0}) = {1}
      BY <3>1 DEF Card
    <3>5. prefix \in Seq(LineageCards) /\ Len(prefix) = 2 /\ prefix[1] = s /\ prefix[2] = p
      BY <3>2, <3>3
    <3>6. \A e \in 1 .. Len(prefix) : e = 1 \/ e = 2
      BY <3>5
    <3>7. 1 \in 1 .. 2 - 1
      OBVIOUS
    <3> QED BY <3>4, <3>5, <3>6, <3>7
  <2>3. CASE baseline # "dc_rs" /\ prefix # << >>
    <3>1. PICK s : s = Card({}, 0, "entry")
      OBVIOUS
    <3>2. prefix = <<s>>
      BY <1>2, <2>3, <3>1 DEF Prefixes
    <3>3. s \in LineageCards /\ s.parents \cup ({s.predecessor} \ {0}) = {}
      BY <3>1 DEF Card, LineageCards
    <3>4. prefix \in Seq(LineageCards) /\ Len(prefix) = 1 /\ prefix[1] = s
      BY <3>2, <3>3
    <3>5. \A e \in 1 .. Len(prefix) : e = 1
      BY <3>4
    <3> QED BY <3>3, <3>4, <3>5
  <2> QED BY <2>1, <2>2, <2>3
<1>6. /\ lineage \in Seq(LineageCards) /\ Len(lineage) = injectedRoot
      /\ Len(prefix) \in Nat
      /\ \A e \in 1 .. Len(prefix) : lineage[e] = prefix[e]
      /\ lineage[injectedRoot] = c
  BY <1>2, <1>3, <1>4, <1>5
<1>7. Known = 1 .. injectedRoot /\ injectedRoot \in Known
  BY <1>2, <1>6 DEF Known
<1>8. ASSUME NEW e \in Known PROVE References(e) \subseteq 1 .. e - 1
  <2>1. CASE e = injectedRoot
    BY <1>4, <1>6, <2>1 DEF References
  <2>2. CASE e # injectedRoot
    <3>1. e \in 1 .. Len(prefix)
      BY <1>2, <1>6, <1>7, <2>2
    <3> QED BY <1>5, <1>6, <3>1 DEF References
  <2> QED BY <2>1, <2>2
<1>9. /\ store = Known /\ provenance = Known /\ rows = << >> /\ outcome = "running"
      /\ attemptIndex = 0 /\ nativeReflections = {}
  BY <1>7 DEF Init
<1>10. LineageInOrder
  BY <1>6, <1>7, <1>8 DEF LineageInOrder
<1>11. UnitShape
  BY <1>1, <1>9 DEF UnitShape
<1>12. AttemptInStep
  BY <1>9, EvidenceAssumption DEF AttemptInStep
<1>13. rows = << >> /\ DOMAIN rows = {} /\ Len(rows) = 0 /\ Included = {}
  BY <1>9 DEF Included
<1>14. RowsInSequence /\ NothingReturns /\ OldestLeave /\ WindowMovesOn /\ StrategiesFollow
  BY <1>13 DEF RowsInSequence, NothingReturns, OldestLeave, WindowMovesOn, StrategiesFollow
<1> QED BY <1>9, <1>10, <1>11, <1>12, <1>14 DEF RecordIInv, RefusedForCause

\* The invariant of the unit: nothing that has left memory returns, the oldest
\* leave first, and every row stands on what is on record.
THEOREM RecordHolds == Spec => []RecordIInv
<1>1. RecordIInv /\ [Next]_evidenceVars => RecordIInv'
  <2> SUFFICES ASSUME RecordIInv, [Next]_evidenceVars PROVE RecordIInv'
    OBVIOUS
  <2>1. CASE DcTrial
    BY <2>1, DcPreserves
  <2>2. CASE DcCallFails
    BY <2>2, DcFailurePreserves
  <2>3. CASE DcRefuses
    BY <2>3, AbortPreserves DEF DcRefuses, Ready
  <2>4. CASE FullHistoryTrial
    BY <2>4, FullHistoryPreserves
  <2>5. CASE BotTrial
    BY <2>5, BotPreserves
  <2>6. CASE BotDistillationFails
    BY <2>6, AbortPreserves DEF BotDistillationFails, Ready
  <2>7. CASE BeginReflexion
    BY <2>7, BeginPreserves
  <2>8. CASE EndReflexion
    BY <2>8, EndPreserves DEF EndReflexion, Answered, AnswerCallFails, Failures
  <2>9. CASE ReflectionFails
    BY <2>9, EndPreserves DEF ReflectionFails, Failures
  <2>10. CASE WriteReflection
    BY <2>10, ReflectionPreserves
  <2>11. CASE Join
    BY <2>11, JoinPreserves
  <2>12. CASE UNCHANGED evidenceVars
    BY <2>12, NothingPreserves
  <2> QED BY <2>1, <2>2, <2>3, <2>4, <2>5, <2>6, <2>7, <2>8, <2>9, <2>10, <2>11, <2>12 DEF Next
<1> QED BY <1>1, UnitBegins, PTL DEF Spec

\* Whatever was written, shown and evicted, a unit's trials reconstruct: only a
\* failed call at its end refuses the archive.
THEOREM EvidenceAlwaysStands == Spec => []EvidenceStands
BY RecordHolds, RefusedByCall, PTL

\* The registered durations, which stop at the first gap, miss no row.
THEOREM DurationsAlwaysTotal == Spec => []DurationsAreTotals
BY RecordHolds, DurationsMissNothing, PTL

\* Once the memory is clean, no later trial is exposed or contaminated.
THEOREM ContaminationAlwaysInMemory == Spec => []ContaminationLivesInMemory
BY RecordHolds, LivesInMemory, PTL

================================================================================
