--------------------------- MODULE RunnerLedgerProofs ---------------------------
(***************************************************************************)
(* Theorems about RunnerLedger: whatever sessions and operators overlap,   *)
(* one unit is in flight at most, and only after its clean prefix, and     *)
(* that unit is all the ceiling can be overshot by; and with one operator  *)
(* at a time, whatever the sessions do, no unit is dispatched twice and    *)
(* the ledger stays readable.                                              *)
(***************************************************************************)
EXTENDS RunnerLedger, SumLemmas

\* A unit that needs a missing prefix is missing.
MissingTogether ==
  \A u \in Units :
    PrefixOf[u] # NoUnit /\ state[PrefixOf[u]] = Missing => state[u] = Missing

\* An actor that is about to record evidence holds some, on a unit, and so does
\* every verdict file.
HoldsEvidence ==
  /\ at \in [Actors -> Labels]
  /\ work \in [Actors -> Units \cup {NoUnit}]
  /\ DOMAIN held = Actors
  /\ \A a \in Actors :
       /\ at[a] \notin {"ended", "looping"} => work[a] \in Units
       /\ at[a] \in {"published", "failed", "prepared", "checked"} =>
            held[a].kind \in Resolutions
  /\ \A i \in DOMAIN verdicts :
       verdicts[i] # NoVerdict => verdicts[i].kind \in Resolutions

\* The inductive invariant.
RunnerIInv ==
  /\ state \in [Units -> UnitStates]
  /\ PrefixFirst
  /\ MissingTogether
  /\ HoldsEvidence

-------------------------------------------------------------------------------

\* What a step may do to the table of units.
TableStep ==
  \/ UNCHANGED state
  \/ \E u \in Units :
       /\ Claimable(u)
       /\ state' = [state EXCEPT ![u] = InFlightState]
  \/ \E u \in Units, target \in {"PENDING", "COMPLETED"} :
       /\ state[u] = InFlightState
       /\ state' = [state EXCEPT ![u] = target]
  \/ \E u \in Units :
       /\ state[u] = InFlightState
       /\ state' = [v \in Units |->
            IF v = u \/ v \in Dependents(u) THEN Missing ELSE state[v]]

\* Recording a resolution is such a step.
LEMMA RecordResolves ==
  ASSUME state \in [Units -> UnitStates],
         NEW u \in Units, NEW e, e.kind \in Resolutions,
         Record(u, e)
  PROVE  TableStep
<1>1. CASE e.kind = "TERMINAL"
  <2>1. AppendTerminal(u, e.verdict, e.cost)
    BY <1>1 DEF Record
  <2>2. state' = [v \in Units |->
          IF v = u \/ v \in Dependents(u) THEN Missing ELSE state[v]]
    BY <2>1 DEF AppendTerminal, TargetOf
  <2> QED BY <2>1, <2>2 DEF AppendTerminal, TableStep
<1>2. CASE e.kind # "TERMINAL"
  <2>1. AppendRow(Row(u, e.kind, e.verdict, e.cost))
    BY <1>2 DEF Record
  <2>2. e.kind \in {"NO_REQUEST", "COMPLETED"}
    BY <1>2 DEF Resolutions
  <2>3. /\ state[u] = InFlightState
        /\ state' = [state EXCEPT ![u] = TargetOf(e.kind)]
    BY <2>1, <2>2 DEF AppendRow, Row, SourceOf
  <2>4. TargetOf(e.kind) \in {"PENDING", "COMPLETED"}
    BY <2>2 DEF TargetOf
  <2> QED BY <2>3, <2>4 DEF TableStep
<1> QED BY <1>1, <1>2

\* Every step of a session or an operator is such a step.
LEMMA RunnerStepsTable ==
  ASSUME RunnerIInv, [RunnerNext]_runnerVars
  PROVE  TableStep
<1> USE DEF RunnerIInv, HoldsEvidence
<1>1. ASSUME NEW p \in Runners, Pause(p) PROVE TableStep
  <2>1. work[p] \in Units
    BY <1>1 DEF Pause, Actors
  <2>2. /\ state[work[p]] = "PENDING"
        /\ state' = [state EXCEPT ![work[p]] = "PENDING"]
    BY <1>1 DEF Pause, AppendRow, Row, SourceOf, TargetOf
  <2> QED BY <2>1, <2>2 DEF TableStep
<1>2. ASSUME NEW p \in Runners, Claim(p) PROVE TableStep
  <2>1. work[p] \in Units
    BY <1>2 DEF Claim, Actors
  <2>2. state' = [state EXCEPT ![work[p]] = InFlightState]
    BY <1>2 DEF Claim, AppendRow, Row, TargetOf
  <2> QED BY <1>2, <2>1, <2>2 DEF TableStep, Claim
<1>3. ASSUME NEW p \in Runners, PersistCompleted(p) PROVE TableStep
  <2>1. /\ p \in Actors /\ at[p] = "published"
        /\ Record(work[p], held[p])
    BY <1>3 DEF PersistCompleted, Actors
  <2> QED BY <2>1, RecordResolves
<1>4. ASSUME NEW a \in Actors, RecordVerdict(a) PROVE TableStep
  <2>1. at[a] = "checked" /\ Record(work[a], held[a])
    BY <1>4 DEF RecordVerdict
  <2> QED BY <2>1, RecordResolves
<1>5. ASSUME NEW p \in Runners,
             \/ BeginSession(p) \/ \E u \in Units : Pick(p, u)
             \/ CallProvider(p) \/ \E cost \in Costs : PublishUnit(p, cost)
             \/ \E cost \in Costs \cup {0} : FailDispatch(p, cost)
      PROVE  TableStep
  BY <1>5 DEF BeginSession, Pick, CallProvider, PublishUnit, FailDispatch,
              tableVars, TableStep
<1>6. ASSUME NEW o \in Operators, NEW u \in Units, Prepare(o, u) PROVE TableStep
  BY <1>6 DEF Prepare, tableVars, TableStep
<1>7. ASSUME NEW a \in Actors, CheckVerdict(a) \/ Abandon(a) PROVE TableStep
  BY <1>7 DEF CheckVerdict, Abandon, tableVars, TableStep
<1>8. CASE UNCHANGED runnerVars
  BY <1>8 DEF runnerVars, tableVars, TableStep
<1> QED BY <1>1, <1>2, <1>3, <1>4, <1>5, <1>6, <1>7, <1>8 DEF RunnerNext

\* A unit that can be claimed needs no prefix, or a completed one: it is the
\* first pending one and its prefix comes before it.
LEMMA ClaimedAfterPrefix ==
  ASSUME state \in [Units -> UnitStates], MissingTogether,
         NEW u \in Units, Claimable(u), PrefixOf[u] # NoUnit
  PROVE  state[PrefixOf[u]] = "COMPLETED"
<1>1. PrefixOf[u] \in Units
  BY RunnerAssumption
<1>2. PICK i \in DOMAIN Order :
        Order[i] = u /\ \A j \in 1..(i - 1) : state[Order[j]] # "PENDING"
  BY DEF Claimable, FirstPending
<1>3. PICK k \in DOMAIN Order : Order[k] = PrefixOf[u]
  BY <1>1, RunnerAssumption
<1>4. k < i
  BY <1>2, <1>3, RunnerAssumption
<1>5. k \in 1..(i - 1)
  BY <1>4, RunnerAssumption
<1>6. state[PrefixOf[u]] # "PENDING"
  BY <1>2, <1>3, <1>5
<1>7. state[PrefixOf[u]] # InFlightState /\ state[u] = "PENDING"
  BY <1>1 DEF Claimable, FirstPending
<1>8. state[PrefixOf[u]] # Missing
  BY <1>7 DEF MissingTogether, Missing
<1> QED BY <1>1, <1>6, <1>7, <1>8 DEF UnitStates

\* The three facts about the table of units are carried over such a step.
LEMMA TableInvStep ==
  ASSUME state \in [Units -> UnitStates], PrefixFirst, MissingTogether, TableStep
  PROVE  state' \in [Units -> UnitStates] /\ PrefixFirst' /\ MissingTogether'
<1> USE DEF InFlightState, Missing, UnitStates
<1>0. \A u \in Units : PrefixOf[u] # NoUnit => PrefixOf[u] \in Units
  BY RunnerAssumption
<1>1. CASE UNCHANGED state
  BY <1>1 DEF PrefixFirst, MissingTogether
<1>2. ASSUME NEW u \in Units, Claimable(u),
             state' = [state EXCEPT ![u] = InFlightState]
      PROVE  state' \in [Units -> UnitStates] /\ PrefixFirst' /\ MissingTogether'
  <2>1. \A v \in Units : state[v] # InFlightState
    BY <1>2 DEF Claimable
  <2>2. PrefixOf[u] # NoUnit =>
          state[PrefixOf[u]] = "COMPLETED" /\ PrefixOf[u] # u
    BY <1>2, ClaimedAfterPrefix DEF Claimable, FirstPending
  <2>3. PrefixFirst'
    BY <1>0, <1>2, <2>1, <2>2 DEF PrefixFirst
  <2>4. MissingTogether'
    BY <1>0, <1>2, <2>2 DEF MissingTogether
  <2> QED BY <1>2, <2>3, <2>4
<1>3. ASSUME NEW u \in Units, NEW target \in {"PENDING", "COMPLETED"},
             state[u] = InFlightState, state' = [state EXCEPT ![u] = target]
      PROVE  state' \in [Units -> UnitStates] /\ PrefixFirst' /\ MissingTogether'
  BY <1>0, <1>3 DEF PrefixFirst, MissingTogether
<1>4. ASSUME NEW u \in Units, state[u] = InFlightState,
             state' = [v \in Units |->
               IF v = u \/ v \in Dependents(u) THEN Missing ELSE state[v]]
      PROVE  state' \in [Units -> UnitStates] /\ PrefixFirst' /\ MissingTogether'
  <2>1. PrefixFirst'
    BY <1>0, <1>4 DEF PrefixFirst
  <2>2. \A v, w \in Units : PrefixOf[w] = v => v \notin Dependents(u)
    BY RunnerAssumption DEF Dependents
  <2>3. MissingTogether'
    BY <1>0, <1>4, <2>2 DEF MissingTogether, Dependents
  <2> QED BY <1>4, <2>1, <2>3
<1> QED BY <1>1, <1>2, <1>3, <1>4 DEF TableStep

\* A verdict that is filed has a kind that resolves an intent.
LEMMA FiledKinds ==
  ASSUME \A i \in DOMAIN verdicts :
           verdicts[i] # NoVerdict => verdicts[i].kind \in Resolutions,
         NEW a, NEW u, NEW kind \in Resolutions, NEW cost,
         FileVerdict(a, u, kind, cost)
  PROVE  \A i \in DOMAIN verdicts' :
           verdicts'[i] # NoVerdict => verdicts'[i].kind \in Resolutions
BY DEF FileVerdict

\* Actors hold evidence when they record it.
LEMMA HoldsStep ==
  ASSUME RunnerIInv, [RunnerNext]_runnerVars
  PROVE  HoldsEvidence'
<1> USE DEF RunnerIInv, HoldsEvidence, Labels, Resolutions
<1>1. ASSUME NEW a \in Actors, Quit(a), UNCHANGED verdicts PROVE HoldsEvidence'
  BY <1>1 DEF Quit
<1>2. ASSUME NEW p \in Runners, BeginSession(p) \/ Claim(p) \/ CallProvider(p)
      PROVE  HoldsEvidence'
  BY <1>2 DEF BeginSession, Claim, CallProvider, Move, Actors, fileVars
<1>3. ASSUME NEW p \in Runners, NEW u \in Units, Pick(p, u) PROVE HoldsEvidence'
  BY <1>3 DEF Pick, Actors, fileVars
<1>4. ASSUME NEW p \in Runners, NEW cost \in Costs, PublishUnit(p, cost)
      PROVE  HoldsEvidence'
  BY <1>4 DEF PublishUnit, Actors
<1>5. ASSUME NEW p \in Runners, NEW cost \in Costs \cup {0}, FailDispatch(p, cost)
      PROVE  HoldsEvidence'
  <2>1. \E i : held' = [held EXCEPT ![p] =
                 [kind |-> "TERMINAL", verdict |-> i, cost |-> cost]]
    BY <1>5 DEF FailDispatch, FileVerdict
  <2>2. /\ at[p] \in {"dispatching", "called"}
        /\ at' = [at EXCEPT ![p] = "failed"] /\ work' = work
    BY <1>5 DEF FailDispatch
  <2>3. \A i \in DOMAIN verdicts' :
          verdicts'[i] # NoVerdict => verdicts'[i].kind \in Resolutions
    BY <1>5, FiledKinds, "TERMINAL" \in Resolutions DEF FailDispatch
  <2> QED BY <2>1, <2>2, <2>3 DEF Actors
<1>6. ASSUME NEW p \in Runners, PersistCompleted(p) PROVE HoldsEvidence'
  BY <1>6 DEF PersistCompleted, Actors, fileVars
<1>7. ASSUME NEW a \in Actors, CheckVerdict(a) PROVE HoldsEvidence'
  BY <1>7 DEF CheckVerdict, Move, fileVars
<1>8. ASSUME NEW o \in Operators, NEW u \in Units, Prepare(o, u)
      PROVE  HoldsEvidence'
  <2>1. \E kind \in Resolutions : \E i, cost :
          held' = [held EXCEPT ![o] = [kind |-> kind, verdict |-> i, cost |-> cost]]
    <3>1. CASE \E cost \in Costs \cup {0} : FileVerdict(o, u, "TERMINAL", cost)
      BY <3>1, "TERMINAL" \in Resolutions DEF FileVerdict
    <3>2. CASE FileVerdict(o, u, "NO_REQUEST", 0)
      BY <3>2, "NO_REQUEST" \in Resolutions DEF FileVerdict
    <3>3. CASE FindEvidence(o, u)
      BY <3>3, "COMPLETED" \in Resolutions DEF FindEvidence
    <3> QED BY <1>8, <3>1, <3>2, <3>3 DEF Prepare
  <2>2. /\ at' = [at EXCEPT ![o] = "prepared"]
        /\ work' = [work EXCEPT ![o] = u]
    BY <1>8 DEF Prepare
  <2>3. \A i \in DOMAIN verdicts' :
          verdicts'[i] # NoVerdict => verdicts'[i].kind \in Resolutions
    BY <1>8, FiledKinds, "TERMINAL" \in Resolutions, "NO_REQUEST" \in Resolutions
       DEF Prepare
  <2> QED BY <2>1, <2>2, <2>3 DEF Actors
<1>9. CASE UNCHANGED runnerVars
  BY <1>9 DEF runnerVars, actorVars, fileVars
<1>10. ASSUME NEW p \in Runners, Pause(p) PROVE HoldsEvidence'
  BY <1>1, <1>10 DEF Pause, Actors, fileVars
<1>11. ASSUME NEW a \in Actors, RecordVerdict(a) \/ Abandon(a) PROVE HoldsEvidence'
  BY <1>1, <1>11 DEF RecordVerdict, Abandon, fileVars
<1> QED
  BY <1>2, <1>3, <1>4, <1>5, <1>6, <1>7, <1>8, <1>9, <1>10, <1>11 DEF RunnerNext

-------------------------------------------------------------------------------

LEMMA RunnerIInvInit == RunnerInit => RunnerIInv
<1> SUFFICES ASSUME RunnerInit PROVE RunnerIInv
  OBVIOUS
<1>1. state = [u \in Units |-> "PENDING"]
  BY DEF RunnerInit
<1>2. /\ state \in [Units -> UnitStates] /\ PrefixFirst /\ MissingTogether
  BY <1>1, RunnerAssumption
     DEF UnitStates, PrefixFirst, MissingTogether, InFlightState, Missing
<1>3. HoldsEvidence
  BY DEF RunnerInit, HoldsEvidence, Labels
<1> QED BY <1>2, <1>3 DEF RunnerIInv

LEMMA RunnerIInvStep == RunnerIInv /\ [RunnerNext]_runnerVars => RunnerIInv'
BY RunnerStepsTable, TableInvStep, HoldsStep DEF RunnerIInv

\* However sessions die, restart and overlap, and whatever operators decide
\* between two transactions of a session, a unit is in flight only alone and
\* only after its clean prefix is completed.  The invariant adds what
\* _append_terminal_locked's single transaction gives: a unit is never pending
\* after its prefix went missing, so that claim_dispatch, which takes the first
\* pending unit, need not look at the prefix at all.
THEOREM RunnerPrefixFirst == RunnerSpec => []PrefixFirst
<1>1. RunnerInit => RunnerIInv
  BY RunnerIInvInit
<1>2. RunnerIInv /\ [RunnerNext]_runnerVars => RunnerIInv'
  BY RunnerIInvStep
<1>3. RunnerIInv => PrefixFirst
  BY DEF RunnerIInv
<1> QED BY <1>1, <1>2, <1>3, PTL DEF RunnerSpec

-------------------------------------------------------------------------------
(* One operator at a time.                                                     *)

Rows == [unit : Units, kind : EventKinds, verdict : Nat, cost : Nat]
FiledVerdicts == [kind : {"NO_REQUEST", "TERMINAL"}, cost : Nat]
Evidence == [kind : Resolutions \cup {"NONE"}, verdict : Nat, cost : Nat]

\* The shape of the variables, and who can be where.
RunnerShape ==
  /\ events \in Seq(Rows)
  /\ unitFiles \in [Units -> Costs \cup {NoCost}]
  /\ DOMAIN verdicts = 1..MaxEvents
  /\ \A i \in DOMAIN verdicts : verdicts[i] # NoVerdict => verdicts[i] \in FiledVerdicts
  /\ held \in [Actors -> Evidence]
  /\ calls \in [Units -> Nat]
  /\ \A o \in Operators : at[o] \in {"ended", "prepared", "checked"}
  /\ \A p \in Runners : at[p] # "prepared"
  /\ \A a \in Actors : at[a] \in {"ended", "looping"} <=> work[a] = NoUnit

\* The provider was not called for u, and no session is past picking it.
Unclaimed(u) ==
  /\ calls[u] = 0
  /\ \A p \in Runners : work[p] = u => at[p] = "picked"

PendingIsUnclaimed ==
  \A u \in Units :
    state[u] = "PENDING" => Unclaimed(u) /\ \A o \in Operators : work[o] # u

CalledOnce ==
  /\ \A u \in Units : calls[u] <= 1
  /\ \A u \in Units : unitFiles[u] # NoCost => calls[u] # 0
  /\ \A p \in Runners : at[p] = "called" => calls[work[p]] # 0
  /\ \A p \in Runners : at[p] = "dispatching" =>
       /\ calls[work[p]] = 0
       /\ \A q \in Runners : at[q] = "dispatching" /\ work[q] = work[p] => q = p

\* A verdict is about a row there is; the last row of a unit in flight is its
\* intent; and a verdict that nothing was requested is true of it.
VerdictsOnRecord ==
  /\ \A i \in DOMAIN verdicts : verdicts[i] # NoVerdict => i \in DOMAIN events
  /\ \A u \in Units, i \in DOMAIN events : Context(u, i) => events[i].kind = "INTENT"
  /\ \A u \in Units, i \in DOMAIN verdicts :
       Context(u, i) /\ verdicts[i] # NoVerdict /\ verdicts[i].kind = "NO_REQUEST"
         => Unclaimed(u)

\* The evidence e on unit u is in its file, and about the intent that is open.
Stands(u, e) ==
  /\ e.kind = "COMPLETED" => e.cost # NoCost /\ unitFiles[u] = e.cost
  /\ e.kind # "COMPLETED" =>
       /\ e.verdict \in DOMAIN verdicts
       /\ verdicts[e.verdict] # NoVerdict
       /\ verdicts[e.verdict] = [kind |-> e.kind, cost |-> e.cost]
       /\ state[u] = InFlightState => Context(u, e.verdict)
  /\ e.kind = "NO_REQUEST" => Unclaimed(u)

HoldingLabels == {"published", "failed", "prepared", "checked"}

HeldStands ==
  /\ \A a \in Actors : at[a] \in HoldingLabels => Stands(work[a], held[a])
  /\ \A p \in Runners : held[p].kind # "NO_REQUEST"

\* Row k can be read (Intact), and its evidence is some.
RowStands(k) ==
  LET e == events[k]
  IN /\ e.kind = "COMPLETED" => e.cost # NoCost /\ unitFiles[e.unit] = e.cost
     /\ e.kind \in {"NO_REQUEST", "TERMINAL"} =>
          \E i \in DOMAIN events :
            /\ IntentOf(i, k)
            /\ e.verdict = i /\ i \in DOMAIN verdicts /\ verdicts[i] # NoVerdict
            /\ verdicts[i] = [kind |-> e.kind, cost |-> e.cost]

RowsStand == \A k \in DOMAIN events : RowStands(k)

OneOperator == \A o, q \in Operators : o = q

OperatorFacts ==
  /\ RunnerShape
  /\ PendingIsUnclaimed
  /\ CalledOnce
  /\ VerdictsOnRecord
  /\ HeldStands
  /\ RowsStand

OneOperatorIInv == RunnerIInv /\ OperatorFacts

-------------------------------------------------------------------------------
(* Rows and files. *)

\* The table grows at its end; a file stays as it was written.
RowsKept ==
  /\ events' \in Seq(Rows)
  /\ Len(events) <= Len(events')
  /\ \A i \in 1..Len(events) : events'[i] = events[i]

FilesKept ==
  /\ \A u \in Units : unitFiles[u] # NoCost => unitFiles'[u] = unitFiles[u]
  /\ DOMAIN verdicts' = DOMAIN verdicts
  /\ \A i \in DOMAIN verdicts : verdicts[i] # NoVerdict => verdicts'[i] = verdicts[i]

LEMMA IntentKept ==
  ASSUME events \in Seq(Rows), RowsKept, NEW k \in DOMAIN events,
         NEW i \in DOMAIN events, IntentOf(i, k)
  PROVE  IntentOf(i, k)'
<1>1. i \in 1..Len(events) /\ k \in 1..Len(events) /\ i < k
  BY DEF IntentOf
<1>2. \A j \in (i + 1)..(k - 1) : j \in 1..Len(events)
  BY <1>1
<1> QED BY <1>1, <1>2 DEF IntentOf, RowsKept

\* Rows that can be read stay so, if the new ones can be.
LEMMA RowsStandKept ==
  ASSUME RunnerShape, RowsStand, RowsKept, FilesKept,
         \A k \in DOMAIN events' : k > Len(events) => RowStands(k)'
  PROVE  RowsStand'
<1> SUFFICES ASSUME NEW k \in DOMAIN events' PROVE RowStands(k)'
  BY DEF RowsStand
<1>1. CASE k > Len(events)
  BY <1>1
<1>2. CASE k <= Len(events)
  <2>1. k \in 1..Len(events) /\ k \in DOMAIN events /\ events'[k] = events[k]
        /\ DOMAIN events \subseteq DOMAIN events'
    BY <1>2 DEF RowsKept, RunnerShape
  <2>2. RowStands(k)
    BY <2>1 DEF RowsStand
  <2>2a. events[k] \in Rows
    BY <2>1 DEF RunnerShape
  <2>2b. events[k].unit \in Units
    BY <2>2a DEF Rows
  <2>3. \A i \in DOMAIN events : IntentOf(i, k) => IntentOf(i, k)'
    BY <2>1, IntentKept DEF RunnerShape
  <2>4. (events[k].kind = "COMPLETED" =>
          events[k].cost # NoCost /\ unitFiles[events[k].unit] = events[k].cost)'
    BY <2>1, <2>2, <2>2b DEF RowStands, FilesKept
  <2>5. ASSUME events[k].kind \in {"NO_REQUEST", "TERMINAL"}
        PROVE  (\E i \in DOMAIN events :
                  /\ IntentOf(i, k)
                  /\ events[k].verdict = i /\ i \in DOMAIN verdicts /\ verdicts[i] # NoVerdict
                  /\ verdicts[i] = [kind |-> events[k].kind, cost |-> events[k].cost])'
    <3>1. PICK i \in DOMAIN events :
            /\ IntentOf(i, k)
            /\ events[k].verdict = i /\ i \in DOMAIN verdicts /\ verdicts[i] # NoVerdict
            /\ verdicts[i] = [kind |-> events[k].kind, cost |-> events[k].cost]
      BY <2>2, <2>5 DEF RowStands
    <3>2. i \in DOMAIN events' /\ IntentOf(i, k)' /\ i \in DOMAIN verdicts'
          /\ verdicts'[i] = verdicts[i]
      BY <2>1, <2>3, <3>1 DEF FilesKept
    <3> QED BY <2>1, <3>1, <3>2
  <2> QED BY <2>1, <2>4, <2>5 DEF RowStands
<1> QED BY <1>1, <1>2 DEF RowsKept, RunnerShape

\* What an appended row does to the contexts.
LEMMA RowAppended ==
  ASSUME events \in Seq(Rows), state \in [Units -> UnitStates],
         NEW row \in Rows, AppendRow(row)
  PROVE  /\ RowsKept
         /\ Len(events') = Len(events) + 1 /\ events'[Len(events) + 1] = row
         /\ \A u \in Units, i \in Nat : u # row.unit => (Context(u, i)' <=> Context(u, i))
         /\ \A i \in Nat : Context(row.unit, i)' => i = Len(events) + 1
<1>1. /\ events' = Append(events, row)
      /\ state' = [state EXCEPT ![row.unit] = TargetOf(row.kind)]
      /\ row.unit \in Units
  BY DEF AppendRow, Rows
<1>2. /\ events' \in Seq(Rows) /\ Len(events') = Len(events) + 1
      /\ events'[Len(events) + 1] = row
      /\ \A i \in 1..Len(events) : events'[i] = events[i]
      /\ DOMAIN events = 1..Len(events) /\ DOMAIN events' = 1..(Len(events) + 1)
      /\ Len(events) \in Nat
  BY <1>1
<1>3. RowsKept
  BY <1>2 DEF RowsKept
<1>4. ASSUME NEW u \in Units, NEW i \in Nat, u # row.unit
      PROVE  Context(u, i)' <=> Context(u, i)
  <2>1. state'[u] = state[u]
    BY <1>1, <1>4
  <2>2. \A j \in DOMAIN events' : events'[j].unit = u => j \in DOMAIN events
    BY <1>2, <1>4
  <2>3. \A j \in DOMAIN events : j \in DOMAIN events' /\ events'[j] = events[j]
    BY <1>2
  <2> QED BY <2>1, <2>2, <2>3 DEF Context
<1>5. ASSUME NEW i \in Nat, Context(row.unit, i)' PROVE i = Len(events) + 1
  <2>1. Len(events) + 1 <= i /\ i \in 1..(Len(events) + 1)
    BY <1>2, <1>5 DEF Context
  <2> QED BY <1>2, <2>1
<1> QED BY <1>2, <1>3, <1>4, <1>5

-------------------------------------------------------------------------------
(* The rows of a unit that ends and of those that need it.                     *)

\* There are finitely many units: each has a place in Order.
LEMMA UnitsFinite == IsFiniteSet(Units)
<1>1. Order \in Surjection(1..Len(Order), Units)
  BY RunnerAssumption DEF Surjection
<1>2. IsFiniteSet(1..Len(Order))
  BY FS_Interval, RunnerAssumption
<1> QED BY <1>1, <1>2, FS_Surjection

LEMMA DependentsFinite == \A u \in Units : IsFiniteSet(Dependents(u))
BY UnitsFinite, FS_Subset DEF Dependents

\* Ranking counts the dependents of u from one on, without a gap.
LEMMA RanksCount ==
  ASSUME NEW u \in Units, NEW i \in 1..Cardinality(Dependents(u))
  PROVE  \E v \in Dependents(u) : Rank(u, v) = i
<1> DEFINE D == Dependents(u)
           n == Cardinality(D)
           rank == [v \in D |-> Rank(u, v)]
           upTo(v) == {w \in D : Place(w) <= Place(v)}
<1>1. IsFiniteSet(D) /\ n \in Nat /\ D \subseteq Units
  BY DependentsFinite, FS_CardinalityType DEF Dependents
<1>2. \A v \in D : Place(v) \in 1..Len(Order) /\ Order[Place(v)] = v
  BY <1>1, RunnerAssumption DEF Place
<1>3. \A v \in D : /\ IsFiniteSet(upTo(v)) /\ Cardinality(upTo(v)) \in Nat
                   /\ Cardinality(upTo(v)) <= n
                   /\ Rank(u, v) = Cardinality(upTo(v))
  <2> TAKE v \in D
  <2>1. upTo(v) \in SUBSET D
    OBVIOUS
  <2>2. IsFiniteSet(upTo(v)) /\ Cardinality(upTo(v)) <= n
    BY <1>1, <2>1, FS_Subset
  <2> QED BY <2>2, FS_CardinalityType DEF Rank
<1>4. \A v \in D : Rank(u, v) \in 1..n
  <2> TAKE v \in D
  <2>1. v \in upTo(v)
    BY <1>2
  <2>2. Cardinality(upTo(v)) # 0
    BY <1>3, <2>1, FS_EmptySet
  <2> HIDE DEF upTo
  <2> QED BY <1>1, <1>3, <2>2
<1>5. ASSUME NEW v \in D, NEW w \in D, Place(v) < Place(w)
      PROVE  Rank(u, v) # Rank(u, w)
  <2>1. upTo(v) \in SUBSET upTo(w)
    BY <1>2, <1>5, RunnerAssumption
  <2>2. w \in upTo(w) /\ w \notin upTo(v)
    BY <1>2, <1>5, RunnerAssumption
  <2>3. IsFiniteSet(upTo(w))
    BY <1>3
  <2> HIDE DEF upTo
  <2>4. Cardinality(upTo(w)) # Cardinality(upTo(v))
    BY <2>1, <2>2, <2>3, FS_Subset
  <2> QED BY <1>3, <2>4
<1>6. \A v, w \in D : Rank(u, v) = Rank(u, w) => v = w
  <2> SUFFICES ASSUME NEW v \in D, NEW w \in D, Rank(u, v) = Rank(u, w)
               PROVE  v = w
    OBVIOUS
  <2>1. Place(v) \in Int /\ Place(w) \in Int
    BY <1>2, RunnerAssumption
  <2>2. Place(v) = Place(w)
    BY <1>5, <2>1
  <2> QED BY <1>2, <2>2
<1>7. rank \in Injection(D, 1..n)
  BY <1>4, <1>6 DEF Injection, IsInjective
<1>8. IsFiniteSet(1..n) /\ Cardinality(1..n) = n
  BY <1>1, FS_Interval
<1>9. rank \in Surjection(D, 1..n)
  <2> HIDE DEF rank
  <2> QED BY <1>7, <1>8, FS_Injection
<1>10. \E v \in D : rank[v] = i
  BY <1>9 DEF Surjection
<1> QED BY <1>10

LEMMA DependentRowsAre ==
  ASSUME NEW u \in Units, NEW verdict \in Nat
  PROVE  /\ DependentRows(u, verdict) \in Seq(Rows)
         /\ \A i \in DOMAIN DependentRows(u, verdict) :
              /\ DependentRows(u, verdict)[i].kind = "DEPENDENCY_TERMINAL"
              /\ DependentRows(u, verdict)[i].cost = 0
<1> DEFINE n == Cardinality(Dependents(u))
           who(i) == CHOOSE v \in Dependents(u) : Rank(u, v) = i
<1>1. n \in Nat
  BY DependentsFinite, FS_CardinalityType
<1>2. \A i \in 1..n : who(i) \in Units
  BY RanksCount DEF Dependents
<1>3. \A i \in 1..n : Row(who(i), "DEPENDENCY_TERMINAL", verdict, 0) \in Rows
  BY <1>2 DEF Rows, Row, EventKinds
<1>4. DependentRows(u, verdict)
        = [i \in 1..n |-> Row(who(i), "DEPENDENCY_TERMINAL", verdict, 0)]
  BY DEF DependentRows
<1> HIDE DEF n, who
<1> QED BY <1>1, <1>3, <1>4 DEF Row

\* What the end of a unit does to the table: its row, those of its dependents,
\* and no unit is in flight any more.
LEMMA TerminalAppended ==
  ASSUME events \in Seq(Rows), state \in [Units -> UnitStates], PrefixFirst,
         NEW u \in Units, NEW verdict \in Nat, NEW cost \in Nat,
         AppendTerminal(u, verdict, cost)
  PROVE  /\ RowsKept
         /\ Len(events) + 1 \in DOMAIN events'
         /\ events'[Len(events) + 1] = Row(u, "TERMINAL", verdict, cost)
         /\ \A k \in DOMAIN events' :
              k > Len(events) + 1 =>
                events'[k].kind = "DEPENDENCY_TERMINAL" /\ events'[k].cost = 0
         /\ \A v \in Units : state'[v] # InFlightState
         /\ \A v \in Units : state'[v] = "PENDING" => state[v] = "PENDING"
<1> DEFINE row == Row(u, "TERMINAL", verdict, cost)
           rows == DependentRows(u, verdict)
<1>1. events' = (events \o <<row>>) \o rows
  BY DEF AppendTerminal
<1>2. row \in Rows
  BY DEF Row, Rows, EventKinds, Resolutions
<1>3. rows \in Seq(Rows)
      /\ \A i \in DOMAIN rows :
           rows[i].kind = "DEPENDENCY_TERMINAL" /\ rows[i].cost = 0
  BY DependentRowsAre
<1>4. \A v \in Units : /\ state'[v] # InFlightState
                       /\ state'[v] = "PENDING" => state[v] = "PENDING"
  BY DEF AppendTerminal, PrefixFirst, TargetOf, Missing, InFlightState
<1> HIDE DEF row, rows
<1>5. /\ events' \in Seq(Rows)
      /\ Len(events') = Len(events) + 1 + Len(rows)
      /\ \A i \in 1..Len(events) : events'[i] = events[i]
      /\ events'[Len(events) + 1] = row
      /\ \A i \in 1..Len(rows) : events'[Len(events) + 1 + i] = rows[i]
      /\ Len(events) \in Nat /\ Len(rows) \in Nat
      /\ DOMAIN events' = 1..Len(events')
  BY <1>1, <1>2, <1>3
<1>6. ASSUME NEW k \in DOMAIN events', k > Len(events) + 1
      PROVE  events'[k].kind = "DEPENDENCY_TERMINAL" /\ events'[k].cost = 0
  <2>1. k - (Len(events) + 1) \in 1..Len(rows)
    BY <1>5, <1>6
  <2>2. events'[k] = rows[k - (Len(events) + 1)]
    BY <1>5, <1>6, <2>1
  <2> QED BY <1>3, <2>1, <2>2
<1> QED BY <1>4, <1>5, <1>6 DEF row, RowsKept

-------------------------------------------------------------------------------
(* Steps that leave the tables alone.                                          *)

\* Nobody comes between the claim of a unit and its dispatch.
UnclaimedKept ==
  \A u \in Units : state[u] # "PENDING" /\ Unclaimed(u) => Unclaimed(u)'

\* Evidence on a unit that is not pending stands.
LEMMA StandsKept ==
  ASSUME UNCHANGED tableVars, FilesKept, UnclaimedKept,
         NEW u \in Units, NEW e \in Evidence, Stands(u, e),
         e.kind = "NO_REQUEST" => state[u] # "PENDING"
  PROVE  Stands(u, e)'
<1>1. e.kind = "COMPLETED" => e.cost # NoCost /\ unitFiles'[u] = e.cost
  BY DEF Stands, FilesKept
<1>2. e.kind # "COMPLETED" =>
        /\ e.verdict \in DOMAIN verdicts'
        /\ verdicts'[e.verdict] # NoVerdict
        /\ verdicts'[e.verdict] = [kind |-> e.kind, cost |-> e.cost]
        /\ state'[u] = InFlightState => Context(u, e.verdict)'
  BY DEF Stands, FilesKept, Context, tableVars
<1>3. e.kind = "NO_REQUEST" => Unclaimed(u)'
  BY DEF Stands, UnclaimedKept
<1> QED BY <1>1, <1>2, <1>3 DEF Stands

\* A unit on which somebody holds evidence is not pending.
LEMMA HolderOfClaimed ==
  ASSUME OneOperatorIInv, NEW a \in Actors, at[a] \in HoldingLabels
  PROVE  work[a] \in Units /\ state[work[a]] # "PENDING"
<1>1. work[a] \in Units
  BY DEF OneOperatorIInv, RunnerIInv, HoldsEvidence, HoldingLabels
<1> QED
  BY <1>1 DEF OneOperatorIInv, OperatorFacts, PendingIsUnclaimed, Unclaimed,
              HoldingLabels, Actors

\* What everybody holds stands, if what is taken up in such a step does.
LEMMA QuietHeld ==
  ASSUME OneOperatorIInv, UNCHANGED tableVars, FilesKept, UnclaimedKept,
         \A a \in Actors : at'[a] \in HoldingLabels =>
           \/ at[a] \in HoldingLabels /\ work'[a] = work[a] /\ held'[a] = held[a]
           \/ Stands(work[a], held[a])',
         \A p \in Runners : (held[p].kind # "NO_REQUEST")'
  PROVE  HeldStands'
<1>1. ASSUME NEW a \in Actors, at'[a] \in HoldingLabels,
             at[a] \in HoldingLabels, work'[a] = work[a], held'[a] = held[a]
      PROVE  Stands(work[a], held[a])'
  <2> DEFINE u == work[a]
             e == held[a]
  <2>1. u \in Units /\ state[u] # "PENDING" /\ e \in Evidence /\ Stands(u, e)
    BY <1>1, HolderOfClaimed
       DEF OneOperatorIInv, OperatorFacts, RunnerShape, HeldStands
  <2>2. \A v \in Units, x \in Evidence :
          Stands(v, x) /\ state[v] # "PENDING" => Stands(v, x)'
    BY StandsKept
  <2>3. \A v \in Units, x \in Evidence :
          v = work'[a] /\ x = held'[a] /\ Stands(v, x)' => Stands(work[a], held[a])'
    BY DEF Stands, Context, Unclaimed
  <2>4. u = work'[a] /\ e = held'[a]
    BY <1>1
  <2> HIDE DEF u, e
  <2>5. PICK v \in Units, x \in Evidence :
          v = work'[a] /\ x = held'[a] /\ Stands(v, x) /\ state[v] # "PENDING"
    BY <2>1, <2>4
  <2> QED BY <2>2, <2>3, <2>5
<1> QED BY <1>1 DEF HeldStands

\* Rows stay readable.
LEMMA QuietRows ==
  ASSUME OneOperatorIInv, UNCHANGED tableVars, FilesKept
  PROVE  RowsStand'
<1>1. RowsKept
  BY DEF OneOperatorIInv, OperatorFacts, RunnerShape, RowsKept, tableVars
<1>2. \A k \in DOMAIN events' : ~ (k > Len(events))
  BY DEF OneOperatorIInv, OperatorFacts, RunnerShape, tableVars
<1>3. RunnerShape /\ RowsStand
  BY DEF OneOperatorIInv, OperatorFacts
<1> QED BY <1>1, <1>2, <1>3, RowsStandKept

LEMMA SameFiles == UNCHANGED fileVars => FilesKept
BY DEF fileVars, FilesKept

\* The verdict files are as they were: what is on record is so still.
LEMMA QuietVerdicts ==
  ASSUME OneOperatorIInv, UNCHANGED <<tableVars, verdicts>>, UnclaimedKept
  PROVE  VerdictsOnRecord'
BY DEF OneOperatorIInv, OperatorFacts, VerdictsOnRecord, UnclaimedKept, Context,
       tableVars, InFlightState

LEMMA BeginSessionAlone ==
  ASSUME OneOperatorIInv, NEW p \in Runners, BeginSession(p)
  PROVE  OperatorFacts'
<1> USE DEF OneOperatorIInv, OperatorFacts
<1>1. /\ p \in Actors /\ at[p] = "ended"
      /\ at' = [at EXCEPT ![p] = "looping"]
      /\ UNCHANGED <<work, held, tableVars, fileVars, calls>>
      /\ at \in [Actors -> Labels]
  BY DEF BeginSession, Move, Actors, RunnerIInv, HoldsEvidence
<1>2. work[p] = NoUnit
  BY <1>1 DEF RunnerShape
<1>3. UnclaimedKept
  BY <1>1, <1>2, RunnerAssumption DEF UnclaimedKept, Unclaimed, Actors
<1>4. RunnerShape'
  BY <1>1, RunnerAssumption DEF RunnerShape, tableVars, fileVars, Actors
<1>5. PendingIsUnclaimed'
  BY <1>1, <1>2, RunnerAssumption DEF PendingIsUnclaimed, Unclaimed, tableVars, Actors
<1>6. CalledOnce'
  BY <1>1 DEF CalledOnce, fileVars, Actors
<1>7. VerdictsOnRecord'
  BY <1>1, <1>3, QuietVerdicts DEF fileVars
<1>8. HeldStands'
  <2>1. \A a \in Actors : at'[a] \in HoldingLabels => at[a] \in HoldingLabels
    BY <1>1 DEF HoldingLabels
  <2>2. \A q \in Runners : (held[q].kind # "NO_REQUEST")'
    BY <1>1 DEF HeldStands
  <2> QED BY <1>1, <1>3, <2>1, <2>2, SameFiles, QuietHeld
<1>9. RowsStand'
  BY <1>1, SameFiles, QuietRows
<1> QED BY <1>4, <1>5, <1>6, <1>7, <1>8, <1>9

LEMMA PickAlone ==
  ASSUME OneOperatorIInv, NEW p \in Runners, NEW u \in Units, Pick(p, u)
  PROVE  OperatorFacts'
<1> USE DEF OneOperatorIInv, OperatorFacts
<1>1. /\ p \in Actors /\ at[p] = "looping" /\ state[u] = "PENDING"
      /\ at' = [at EXCEPT ![p] = "picked"]
      /\ work' = [work EXCEPT ![p] = u]
      /\ UNCHANGED <<held, tableVars, fileVars, calls>>
      /\ at \in [Actors -> Labels] /\ work \in [Actors -> Units \cup {NoUnit}]
  BY DEF Pick, FirstPending, Actors, RunnerIInv, HoldsEvidence
<1>2. u # NoUnit
  BY RunnerAssumption
<1>3. UnclaimedKept
  BY <1>1 DEF UnclaimedKept, Unclaimed, Actors
<1>4. RunnerShape'
  BY <1>1, <1>2, RunnerAssumption DEF RunnerShape, tableVars, fileVars, Actors
<1>5. PendingIsUnclaimed'
  BY <1>1, RunnerAssumption DEF PendingIsUnclaimed, Unclaimed, tableVars, Actors
<1>6. CalledOnce'
  BY <1>1 DEF CalledOnce, fileVars, Actors
<1>7. VerdictsOnRecord'
  BY <1>1, <1>3, QuietVerdicts DEF fileVars
<1>8. HeldStands'
  <2>1. \A a \in Actors : at'[a] \in HoldingLabels =>
          at[a] \in HoldingLabels /\ work'[a] = work[a]
    BY <1>1 DEF HoldingLabels
  <2>2. \A q \in Runners : (held[q].kind # "NO_REQUEST")'
    BY <1>1 DEF HeldStands
  <2> QED BY <1>1, <1>3, <2>1, <2>2, SameFiles, QuietHeld
<1>9. RowsStand'
  BY <1>1, SameFiles, QuietRows
<1> QED BY <1>4, <1>5, <1>6, <1>7, <1>8, <1>9

LEMMA CallProviderAlone ==
  ASSUME OneOperatorIInv, NEW p \in Runners, CallProvider(p)
  PROVE  OperatorFacts'
<1> USE DEF OneOperatorIInv, OperatorFacts
<1>1. /\ p \in Actors /\ at[p] = "dispatching" /\ work[p] \in Units
      /\ at' = [at EXCEPT ![p] = "called"]
      /\ calls' = [calls EXCEPT ![work[p]] = @ + 1]
      /\ UNCHANGED <<work, held, tableVars, fileVars>>
      /\ at \in [Actors -> Labels]
  BY DEF CallProvider, Move, Actors, RunnerIInv, HoldsEvidence
<1>2. calls[work[p]] = 0 /\ calls \in [Units -> Nat]
  BY <1>1 DEF CalledOnce, RunnerShape
<1>3. ~ Unclaimed(work[p])
  BY <1>1 DEF Unclaimed
<1>4. UnclaimedKept
  BY <1>1, <1>2, <1>3 DEF UnclaimedKept, Unclaimed, Actors
<1>5. RunnerShape'
  BY <1>1, <1>2, RunnerAssumption DEF RunnerShape, tableVars, fileVars, Actors
<1>6. PendingIsUnclaimed'
  BY <1>1, <1>2, <1>3, RunnerAssumption
     DEF PendingIsUnclaimed, Unclaimed, tableVars, Actors
<1>7. CalledOnce'
  <2>1. \A v \in Units : calls'[v] = IF v = work[p] THEN 1 ELSE calls[v]
    BY <1>1, <1>2
  <2>2. \A q \in Runners : at[q] \in {"called", "dispatching"} => work[q] \in Units
    BY DEF RunnerIInv, HoldsEvidence, Actors
  <2> QED BY <1>1, <1>2, <2>1, <2>2 DEF CalledOnce, fileVars, Actors
<1>8. VerdictsOnRecord'
  BY <1>1, <1>4, QuietVerdicts DEF fileVars
<1>9. HeldStands'
  <2>1. \A a \in Actors : at'[a] \in HoldingLabels => at[a] \in HoldingLabels
    BY <1>1 DEF HoldingLabels
  <2>2. \A q \in Runners : (held[q].kind # "NO_REQUEST")'
    BY <1>1 DEF HeldStands
  <2> QED BY <1>1, <1>4, <2>1, <2>2, SameFiles, QuietHeld
<1>10. RowsStand'
  BY <1>1, SameFiles, QuietRows
<1> QED BY <1>5, <1>6, <1>7, <1>8, <1>9, <1>10

LEMMA AbandonAlone ==
  ASSUME OneOperatorIInv, NEW a \in Actors, Abandon(a)
  PROVE  OperatorFacts'
<1> USE DEF OneOperatorIInv, OperatorFacts
<1>1. /\ at' = [at EXCEPT ![a] = "ended"]
      /\ work' = [work EXCEPT ![a] = NoUnit]
      /\ held' = [held EXCEPT ![a] = Nothing]
      /\ UNCHANGED <<tableVars, fileVars, calls>>
      /\ at \in [Actors -> Labels] /\ work \in [Actors -> Units \cup {NoUnit}]
      /\ held \in [Actors -> Evidence]
  BY DEF Abandon, Quit, RunnerIInv, HoldsEvidence, RunnerShape
<1>2. NoUnit \notin Units /\ Nothing \in Evidence
  BY RunnerAssumption DEF Nothing, Evidence
<1>3. UnclaimedKept
  BY <1>1, <1>2 DEF UnclaimedKept, Unclaimed, Actors
<1>4. RunnerShape'
  BY <1>1, <1>2 DEF RunnerShape, tableVars, fileVars, Actors
<1>5. PendingIsUnclaimed'
  BY <1>1, <1>2 DEF PendingIsUnclaimed, Unclaimed, tableVars, Actors
<1>6. CalledOnce'
  BY <1>1 DEF CalledOnce, fileVars, Actors
<1>7. VerdictsOnRecord'
  BY <1>1, <1>3, QuietVerdicts DEF fileVars
<1>8. HeldStands'
  <2>1. \A b \in Actors : at'[b] \in HoldingLabels =>
          at[b] \in HoldingLabels /\ work'[b] = work[b] /\ held'[b] = held[b]
    BY <1>1 DEF HoldingLabels
  <2>2. \A q \in Runners : (held[q].kind # "NO_REQUEST")'
    BY <1>1 DEF HeldStands, Nothing, Actors
  <2> QED BY <1>1, <1>3, <2>1, <2>2, SameFiles, QuietHeld
<1>9. RowsStand'
  BY <1>1, SameFiles, QuietRows
<1> QED BY <1>4, <1>5, <1>6, <1>7, <1>8, <1>9

LEMMA CheckVerdictAlone ==
  ASSUME OneOperatorIInv, NEW a \in Actors, CheckVerdict(a)
  PROVE  OperatorFacts'
<1> USE DEF OneOperatorIInv, OperatorFacts
<1>1. /\ at[a] \in {"failed", "prepared"}
      /\ at' = [at EXCEPT ![a] = "checked"]
      /\ UNCHANGED <<work, held, tableVars, fileVars, calls>>
      /\ at \in [Actors -> Labels]
  BY DEF CheckVerdict, Move, RunnerIInv, HoldsEvidence
<1>2. UnclaimedKept
  BY <1>1 DEF UnclaimedKept, Unclaimed, Actors
<1>3. RunnerShape'
  BY <1>1 DEF RunnerShape, tableVars, fileVars, Actors
<1>4. PendingIsUnclaimed'
  BY <1>1 DEF PendingIsUnclaimed, Unclaimed, tableVars, Actors
<1>5. CalledOnce'
  BY <1>1 DEF CalledOnce, fileVars, Actors
<1>6. VerdictsOnRecord'
  BY <1>1, <1>2, QuietVerdicts DEF fileVars
<1>7. HeldStands'
  <2>1. \A b \in Actors : at'[b] \in HoldingLabels => at[b] \in HoldingLabels
    BY <1>1 DEF HoldingLabels
  <2>2. \A q \in Runners : (held[q].kind # "NO_REQUEST")'
    BY <1>1 DEF HeldStands
  <2> QED BY <1>1, <1>2, <2>1, <2>2, SameFiles, QuietHeld
<1>8. RowsStand'
  BY <1>1, SameFiles, QuietRows
<1> QED BY <1>3, <1>4, <1>5, <1>6, <1>7, <1>8

LEMMA PublishUnitAlone ==
  ASSUME OneOperatorIInv, NEW p \in Runners, NEW cost \in Costs, PublishUnit(p, cost)
  PROVE  OperatorFacts'
<1> USE DEF OneOperatorIInv, OperatorFacts
<1> DEFINE e == [kind |-> "COMPLETED", verdict |-> 0, cost |-> cost]
<1>1. /\ p \in Actors /\ at[p] = "called" /\ work[p] \in Units
      /\ unitFiles[work[p]] = NoCost
      /\ unitFiles' = [unitFiles EXCEPT ![work[p]] = cost]
      /\ at' = [at EXCEPT ![p] = "published"]
      /\ held' = [held EXCEPT ![p] = e]
      /\ UNCHANGED <<work, tableVars, verdicts, calls>>
      /\ at \in [Actors -> Labels] /\ held \in [Actors -> Evidence]
      /\ unitFiles \in [Units -> Costs \cup {NoCost}]
  BY DEF PublishUnit, Actors, RunnerIInv, HoldsEvidence, RunnerShape
<1>2. /\ e \in Evidence /\ e.kind = "COMPLETED" /\ e.cost = cost /\ cost # NoCost
  BY RunnerAssumption DEF Evidence, Resolutions
<1> HIDE DEF e
<1>3. UnclaimedKept
  BY <1>1 DEF UnclaimedKept, Unclaimed, Actors
<1>4. RunnerShape'
  BY <1>1, <1>2, RunnerAssumption DEF RunnerShape, tableVars, Actors
<1>5. PendingIsUnclaimed'
  BY <1>1 DEF PendingIsUnclaimed, Unclaimed, tableVars, Actors
<1>6. CalledOnce'
  BY <1>1 DEF CalledOnce, Actors
<1>7. VerdictsOnRecord'
  BY <1>1, <1>3, QuietVerdicts
<1>8. FilesKept
  BY <1>1 DEF FilesKept
<1>9. HeldStands'
  <2>1. Stands(work[p], held[p])'
    BY <1>1, <1>2 DEF Stands
  <2>2. \A a \in Actors : a # p /\ at'[a] \in HoldingLabels =>
          at[a] \in HoldingLabels /\ work'[a] = work[a] /\ held'[a] = held[a]
    BY <1>1 DEF HoldingLabels
  <2>3. \A q \in Runners : (held[q].kind # "NO_REQUEST")'
    BY <1>1, <1>2 DEF HeldStands, Actors
  <2> QED BY <1>1, <1>3, <1>8, <2>1, <2>2, <2>3, QuietHeld
<1>10. RowsStand'
  BY <1>1, <1>8, QuietRows
<1> QED BY <1>4, <1>5, <1>6, <1>7, <1>9, <1>10

\* What filing a verdict does: the file of the open intent is written, which
\* was not there, and the verdict is taken up.
LEMMA VerdictFiled ==
  ASSUME OneOperatorIInv, UNCHANGED <<tableVars, unitFiles>>, UnclaimedKept,
         NEW a \in Actors, NEW u \in Units, NEW kind \in {"NO_REQUEST", "TERMINAL"},
         NEW cost \in Nat, FileVerdict(a, u, kind, cost),
         kind = "NO_REQUEST" => Unclaimed(u), work'[a] = u
  PROVE  /\ state[u] = InFlightState
         /\ FilesKept
         /\ DOMAIN verdicts' = 1..MaxEvents
         /\ \A i \in DOMAIN verdicts' :
              verdicts'[i] # NoVerdict => verdicts'[i] \in FiledVerdicts
         /\ VerdictsOnRecord'
         /\ \E e \in Evidence : held' = [held EXCEPT ![a] = e] /\ e.kind = kind
         /\ Stands(work[a], held[a])'
<1> USE DEF OneOperatorIInv, OperatorFacts
<1> DEFINE file == [kind |-> kind, cost |-> cost]
<1>1. PICK i \in DOMAIN verdicts :
        /\ Context(u, i) /\ verdicts[i] = NoVerdict
        /\ verdicts' = [verdicts EXCEPT ![i] = file]
        /\ held' = [held EXCEPT ![a] = [kind |-> kind, verdict |-> i, cost |-> cost]]
  BY DEF FileVerdict
<1>2. file \in FiledVerdicts /\ file # NoVerdict
  BY RunnerAssumption DEF FiledVerdicts
<1>2a. file.kind = kind
  OBVIOUS
<1> HIDE DEF file
<1>3. /\ DOMAIN verdicts = 1..MaxEvents /\ i \in Nat
      /\ held \in [Actors -> Evidence]
      /\ i \in DOMAIN events /\ events[i].unit = u /\ state[u] = InFlightState
  BY <1>1, RunnerAssumption DEF RunnerShape, Context
<1>4. FilesKept
  BY <1>1 DEF FilesKept
<1>5. VerdictsOnRecord'
  <2>1. \A j \in DOMAIN verdicts' : verdicts'[j] # NoVerdict => j \in DOMAIN events'
    BY <1>1, <1>3 DEF VerdictsOnRecord, tableVars
  <2>2. \A v \in Units, j \in DOMAIN events' : Context(v, j)' => events'[j].kind = "INTENT"
    BY DEF VerdictsOnRecord, Context, tableVars
  <2>3. ASSUME NEW v \in Units, NEW j \in DOMAIN verdicts', Context(v, j)',
               verdicts'[j] # NoVerdict, verdicts'[j].kind = "NO_REQUEST"
        PROVE  Unclaimed(v)'
    <3>1. Context(v, j)
      BY <2>3 DEF Context, tableVars
    <3>2. state[v] # "PENDING"
      BY <3>1 DEF Context, InFlightState
    <3>3. CASE j = i
      BY <1>1, <1>2a, <1>3, <2>3, <3>1, <3>2, <3>3 DEF Context, UnclaimedKept
    <3>4. CASE j # i
      BY <1>1, <2>3, <3>1, <3>2, <3>4 DEF VerdictsOnRecord, UnclaimedKept
    <3> QED BY <3>3, <3>4
  <2> QED BY <2>1, <2>2, <2>3 DEF VerdictsOnRecord
<1>6. [kind |-> kind, verdict |-> i, cost |-> cost] \in Evidence
  BY <1>3 DEF Evidence, Resolutions
<1>7. \E e \in Evidence : held' = [held EXCEPT ![a] = e] /\ e.kind = kind
  BY <1>1, <1>6
<1>8. Stands(work[a], held[a])'
  <2>1. held'[a] = [kind |-> kind, verdict |-> i, cost |-> cost]
    BY <1>1, <1>3
  <2>2. kind = "NO_REQUEST" => Unclaimed(u)'
    BY <1>3 DEF UnclaimedKept, InFlightState
  <2>3. Context(u, i)'
    BY <1>1 DEF Context, tableVars
  <2>4. verdicts'[i] = [kind |-> kind, cost |-> cost] /\ verdicts'[i] # NoVerdict
        /\ i \in DOMAIN verdicts'
    BY <1>1, <1>2 DEF file
  <2> QED BY <2>1, <2>2, <2>3, <2>4 DEF Stands, Unclaimed, Context
<1>9. \A j \in DOMAIN verdicts' :
        verdicts'[j] # NoVerdict => verdicts'[j] \in FiledVerdicts
  BY <1>1, <1>2 DEF RunnerShape
<1> QED BY <1>1, <1>3, <1>4, <1>5, <1>7, <1>8, <1>9

LEMMA FailDispatchAlone ==
  ASSUME OneOperatorIInv, NEW p \in Runners, NEW cost \in Costs \cup {0},
         FailDispatch(p, cost)
  PROVE  OperatorFacts'
<1> USE DEF OneOperatorIInv, OperatorFacts
<1>1. /\ p \in Actors /\ at[p] \in {"dispatching", "called"} /\ work[p] \in Units
      /\ FileVerdict(p, work[p], "TERMINAL", cost)
      /\ at' = [at EXCEPT ![p] = "failed"]
      /\ UNCHANGED <<work, tableVars, unitFiles, calls>>
      /\ at \in [Actors -> Labels] /\ held \in [Actors -> Evidence]
  BY DEF FailDispatch, Actors, RunnerIInv, HoldsEvidence, RunnerShape
<1>2. UnclaimedKept
  BY <1>1 DEF UnclaimedKept, Unclaimed, Actors
<1>3. cost \in Nat /\ work'[p] = work[p]
  BY <1>1, RunnerAssumption
<1>4. /\ FilesKept
      /\ DOMAIN verdicts' = 1..MaxEvents
      /\ \A i \in DOMAIN verdicts' :
           verdicts'[i] # NoVerdict => verdicts'[i] \in FiledVerdicts
      /\ VerdictsOnRecord'
      /\ \E e \in Evidence : held' = [held EXCEPT ![p] = e] /\ e.kind = "TERMINAL"
      /\ Stands(work[p], held[p])'
  BY <1>1, <1>2, <1>3, VerdictFiled
<1>5. PICK e \in Evidence : held' = [held EXCEPT ![p] = e] /\ e.kind = "TERMINAL"
  BY <1>4
<1>6. RunnerShape'
  BY <1>1, <1>4, <1>5, RunnerAssumption DEF RunnerShape, tableVars, Actors
<1>7. PendingIsUnclaimed'
  BY <1>1 DEF PendingIsUnclaimed, Unclaimed, tableVars, Actors
<1>8. CalledOnce'
  BY <1>1 DEF CalledOnce, Actors
<1>9. HeldStands'
  <2>1. \A a \in Actors : a # p /\ at'[a] \in HoldingLabels =>
          at[a] \in HoldingLabels /\ work'[a] = work[a] /\ held'[a] = held[a]
    BY <1>1, <1>5 DEF HoldingLabels
  <2>2. \A q \in Runners : (held[q].kind # "NO_REQUEST")'
    BY <1>1, <1>5 DEF HeldStands, Actors
  <2> QED BY <1>1, <1>2, <1>4, <2>1, <2>2, QuietHeld
<1>10. RowsStand'
  BY <1>1, <1>4, QuietRows
<1> QED BY <1>4, <1>6, <1>7, <1>8, <1>9, <1>10

\* An operator takes up evidence on a unit in flight.
LEMMA EvidencePrepared ==
  ASSUME OneOperatorIInv, NEW o \in Operators, NEW u \in Units, Prepare(o, u)
  PROVE  /\ state[u] = InFlightState
         /\ UnclaimedKept
         /\ FilesKept
         /\ DOMAIN verdicts' = 1..MaxEvents
         /\ \A i \in DOMAIN verdicts' :
              verdicts'[i] # NoVerdict => verdicts'[i] \in FiledVerdicts
         /\ VerdictsOnRecord'
         /\ \E e \in Evidence : held' = [held EXCEPT ![o] = e]
         /\ Stands(work[o], held[o])'
<1> USE DEF OneOperatorIInv, OperatorFacts
<1>1. /\ o \in Actors /\ o \notin Runners
      /\ at' = [at EXCEPT ![o] = "prepared"]
      /\ work' = [work EXCEPT ![o] = u]
      /\ UNCHANGED <<tableVars, unitFiles, calls>>
      /\ at \in [Actors -> Labels] /\ work \in [Actors -> Units \cup {NoUnit}]
      /\ held \in [Actors -> Evidence]
      /\ unitFiles \in [Units -> Costs \cup {NoCost}]
  BY RunnerAssumption DEF Prepare, Actors, RunnerIInv, HoldsEvidence, RunnerShape
<1>2. UnclaimedKept
  BY <1>1 DEF UnclaimedKept, Unclaimed, Actors
<1>3. work'[o] = u
  BY <1>1
<1>4. CASE \E cost \in Costs \cup {0} : FileVerdict(o, u, "TERMINAL", cost)
  <2>1. PICK cost \in Costs \cup {0} : FileVerdict(o, u, "TERMINAL", cost)
    BY <1>4
  <2>2. cost \in Nat
    BY RunnerAssumption
  <2> QED BY <1>1, <1>2, <1>3, <2>1, <2>2, VerdictFiled
<1>5. CASE NeverLeft(u) /\ FileVerdict(o, u, "NO_REQUEST", 0)
  <2>1. Unclaimed(u)
    BY <1>5 DEF NeverLeft, Unclaimed
  <2> QED BY <1>1, <1>2, <1>3, <1>5, <2>1, VerdictFiled
<1>6. CASE FindEvidence(o, u) /\ UNCHANGED verdicts
  <2>1. PICK i \in DOMAIN verdicts :
          /\ Context(u, i)
          /\ \/ /\ unitFiles[u] # NoCost
                /\ held' = [held EXCEPT ![o] =
                     [kind |-> "COMPLETED", verdict |-> i, cost |-> unitFiles[u]]]
             \/ /\ verdicts[i] # NoVerdict
                /\ held' = [held EXCEPT ![o] =
                     [kind |-> verdicts[i].kind, verdict |-> i, cost |-> verdicts[i].cost]]
    BY <1>6 DEF FindEvidence
  <2>2. state[u] = InFlightState /\ Context(u, i)' /\ i \in Nat
    BY <2>1, <1>1, RunnerAssumption DEF Context, tableVars, RunnerShape
  <2>3. FilesKept /\ VerdictsOnRecord'
    BY <1>1, <1>2, <1>6, QuietVerdicts DEF FilesKept
  <2>4. CASE unitFiles[u] # NoCost /\ held' = [held EXCEPT ![o] =
               [kind |-> "COMPLETED", verdict |-> i, cost |-> unitFiles[u]]]
    <3>1. unitFiles[u] \in Nat
      BY <1>1, <2>4, RunnerAssumption
    <3>2. [kind |-> "COMPLETED", verdict |-> i, cost |-> unitFiles[u]] \in Evidence
      BY <2>2, <3>1 DEF Evidence, Resolutions
    <3>3. Stands(work[o], held[o])'
      BY <1>1, <1>3, <2>4 DEF Stands
    <3> QED BY <1>2, <1>6, <2>2, <2>3, <2>4, <3>2, <3>3 DEF RunnerShape
  <2>5. CASE verdicts[i] # NoVerdict /\ held' = [held EXCEPT ![o] =
               [kind |-> verdicts[i].kind, verdict |-> i, cost |-> verdicts[i].cost]]
    <3>1. verdicts[i] \in FiledVerdicts
      BY <2>5 DEF RunnerShape
    <3>2. /\ [kind |-> verdicts[i].kind, verdict |-> i, cost |-> verdicts[i].cost]
               \in Evidence
          /\ verdicts[i] = [kind |-> verdicts[i].kind, cost |-> verdicts[i].cost]
          /\ verdicts[i].kind # "COMPLETED"
      BY <2>2, <3>1 DEF Evidence, Resolutions, FiledVerdicts
    <3>3. verdicts[i].kind = "NO_REQUEST" => Unclaimed(u)'
      BY <1>2, <2>1, <2>2, <2>5 DEF VerdictsOnRecord, UnclaimedKept, InFlightState
    <3>4. Stands(work[o], held[o])'
      BY <1>1, <1>3, <1>6, <2>2, <2>5, <3>2, <3>3 DEF Stands, Context, Unclaimed
    <3> QED BY <1>2, <1>6, <2>2, <2>3, <2>5, <3>2, <3>4 DEF RunnerShape
  <2> QED BY <2>1, <2>4, <2>5
<1> QED BY <1>4, <1>5, <1>6 DEF Prepare

LEMMA PrepareAlone ==
  ASSUME OneOperatorIInv, NEW o \in Operators, NEW u \in Units, Prepare(o, u)
  PROVE  OperatorFacts'
<1> USE DEF OneOperatorIInv, OperatorFacts
<1>1. /\ o \in Actors /\ o \notin Runners
      /\ at' = [at EXCEPT ![o] = "prepared"]
      /\ work' = [work EXCEPT ![o] = u]
      /\ UNCHANGED <<tableVars, unitFiles, calls>>
      /\ at \in [Actors -> Labels] /\ work \in [Actors -> Units \cup {NoUnit}]
      /\ held \in [Actors -> Evidence]
  BY RunnerAssumption DEF Prepare, Actors, RunnerIInv, HoldsEvidence, RunnerShape
<1>2. /\ state[u] = InFlightState
      /\ UnclaimedKept
      /\ FilesKept
      /\ DOMAIN verdicts' = 1..MaxEvents
      /\ \A i \in DOMAIN verdicts' :
           verdicts'[i] # NoVerdict => verdicts'[i] \in FiledVerdicts
      /\ VerdictsOnRecord'
      /\ \E e \in Evidence : held' = [held EXCEPT ![o] = e]
      /\ Stands(work[o], held[o])'
  BY EvidencePrepared
<1>3. PICK e \in Evidence : held' = [held EXCEPT ![o] = e]
  BY <1>2
<1>4. u # NoUnit
  BY RunnerAssumption
<1>5. RunnerShape'
  BY <1>1, <1>2, <1>3, <1>4 DEF RunnerShape, tableVars, Actors
<1>6. PendingIsUnclaimed'
  BY <1>1, <1>2 DEF PendingIsUnclaimed, Unclaimed, tableVars, Actors, InFlightState
<1>7. CalledOnce'
  BY <1>1 DEF CalledOnce, Actors
<1>8. HeldStands'
  <2>1. \A a \in Actors : a # o /\ at'[a] \in HoldingLabels =>
          at[a] \in HoldingLabels /\ work'[a] = work[a] /\ held'[a] = held[a]
    BY <1>1, <1>3 DEF HoldingLabels
  <2>2. \A q \in Runners : (held[q].kind # "NO_REQUEST")'
    BY <1>1, <1>3 DEF HeldStands, Actors
  <2> QED BY <1>1, <1>2, <2>1, <2>2, QuietHeld
<1>9. RowsStand'
  BY <1>1, <1>2, QuietRows
<1> QED BY <1>2, <1>5, <1>6, <1>7, <1>8, <1>9

-------------------------------------------------------------------------------
(* Steps that add rows.                                                        *)

\* An intent or a pause is recorded on a pending unit, of which nobody holds
\* evidence.
LEMMA PendingRowAppended ==
  ASSUME OneOperatorIInv, NEW p \in Runners, NEW kind \in {"INTENT", "PAUSED"},
         NEW u \in Units, work[p] = u, at[p] = "picked",
         AppendRow(Row(u, kind, 0, 0)),
         UNCHANGED <<fileVars, calls>>,
         \A a \in Actors : a # p =>
           at'[a] = at[a] /\ work'[a] = work[a] /\ held'[a] = held[a],
         work'[p] \in {u, NoUnit}, at'[p] \notin HoldingLabels,
         (held[p].kind # "NO_REQUEST")'
  PROVE  /\ RowsKept
         /\ state[u] = "PENDING"
         /\ state' = [state EXCEPT ![u] = TargetOf(kind)]
         /\ VerdictsOnRecord' /\ HeldStands' /\ RowsStand'
<1> USE DEF OneOperatorIInv, OperatorFacts
<1> DEFINE row == Row(u, kind, 0, 0)
<1>1. /\ p \in Actors /\ u # NoUnit
      /\ row \in Rows /\ row.unit = u /\ row.kind = kind
  BY RunnerAssumption DEF Actors, Row, Rows, EventKinds
<1>2. /\ events \in Seq(Rows) /\ state \in [Units -> UnitStates] /\ AppendRow(row)
      /\ DOMAIN verdicts \subseteq Nat
  BY RunnerAssumption DEF RunnerIInv, RunnerShape
<1>3. /\ state[u] = "PENDING"
      /\ state' = [state EXCEPT ![u] = TargetOf(kind)]
  BY <1>1, <1>2 DEF AppendRow, SourceOf
<1> HIDE DEF row
<1>4. /\ RowsKept
      /\ Len(events') = Len(events) + 1 /\ events'[Len(events) + 1] = row
      /\ \A v \in Units, i \in Nat : v # u => (Context(v, i)' <=> Context(v, i))
      /\ \A i \in Nat : Context(u, i)' => i = Len(events) + 1
  BY <1>1, <1>2, RowAppended
<1>5. /\ Len(events) \in Nat /\ DOMAIN events = 1..Len(events)
      /\ DOMAIN events' = 1..(Len(events) + 1)
      /\ \A i \in 1..Len(events) : events'[i] = events[i]
  BY <1>2, <1>4 DEF RowsKept
<1>6. \A v \in Units : v # u /\ Unclaimed(v) => Unclaimed(v)'
  BY <1>1, RunnerAssumption DEF Unclaimed, Actors
<1>7. VerdictsOnRecord'
  <2>1. \A i \in DOMAIN verdicts' : verdicts'[i] # NoVerdict => i \in DOMAIN events'
    BY <1>5 DEF VerdictsOnRecord, fileVars
  <2>2. ASSUME NEW v \in Units, NEW i \in DOMAIN events', Context(v, i)'
        PROVE  events'[i].kind = "INTENT"
    <3>1. i \in Nat
      BY <1>5
    <3>2. CASE v = u
      <4>1. TargetOf(kind) = InFlightState
        BY <1>2, <1>3, <2>2, <3>2 DEF Context
      <4>2. kind = "INTENT"
        BY <4>1 DEF TargetOf, InFlightState
      <4> QED BY <1>1, <1>4, <2>2, <3>1, <3>2, <4>2
    <3>3. CASE v # u
      <4>1. Context(v, i)
        BY <1>4, <2>2, <3>1, <3>3
      <4> QED BY <1>5, <4>1 DEF VerdictsOnRecord, Context
    <3> QED BY <3>2, <3>3
  <2>3. ASSUME NEW v \in Units, NEW i \in DOMAIN verdicts', Context(v, i)',
               verdicts'[i] # NoVerdict, verdicts'[i].kind = "NO_REQUEST"
        PROVE  Unclaimed(v)'
    <3>1. i \in Nat /\ i \in DOMAIN verdicts /\ verdicts' = verdicts
      BY <1>2, <2>3 DEF fileVars
    <3>2. i \in 1..Len(events)
      BY <1>5, <2>3, <3>1 DEF VerdictsOnRecord
    <3>3. v # u
      BY <1>4, <1>5, <2>3, <3>1, <3>2
    <3>4. Context(v, i)
      BY <1>4, <2>3, <3>1, <3>3
    <3>5. Unclaimed(v)
      BY <2>3, <3>1, <3>4 DEF VerdictsOnRecord
    <3> QED BY <1>6, <3>3, <3>5
  <2> QED BY <2>1, <2>2, <2>3 DEF VerdictsOnRecord
<1>8. HeldStands'
  <2>1. ASSUME NEW a \in Actors, at'[a] \in HoldingLabels
        PROVE  Stands(work[a], held[a])'
    <3>0. a # p /\ at[a] \in HoldingLabels /\ work[a] \in Units /\ held[a] \in Evidence
          /\ state[work[a]] # "PENDING"
      BY <2>1, HolderOfClaimed DEF RunnerShape
    <3>1. PICK v \in Units, e \in Evidence : v = work[a] /\ e = held[a]
      BY <3>0
    <3>2. v # u /\ Stands(v, e) /\ work'[a] = v /\ held'[a] = e
      BY <1>3, <3>0, <3>1 DEF HeldStands
    <3>3. /\ verdicts' = verdicts /\ unitFiles' = unitFiles
          /\ e.verdict \in Nat /\ state'[v] = state[v]
      BY <1>2, <1>3, <3>2 DEF fileVars, Evidence
    <3>4. Context(v, e.verdict)' <=> Context(v, e.verdict)
      BY <1>4, <3>2, <3>3
    <3>5. Unclaimed(v) => Unclaimed(v)'
      BY <1>6, <3>2
    <3>6. Stands(v, e)'
      BY <3>2, <3>3, <3>4, <3>5 DEF Stands
    <3> QED BY <3>2, <3>6 DEF Stands, Context, Unclaimed
  <2>2. \A q \in Runners : (held[q].kind # "NO_REQUEST")'
    BY DEF HeldStands, Actors
  <2> QED BY <2>1, <2>2 DEF HeldStands
<1>9. RowsStand'
  <2>1. ASSUME NEW k \in DOMAIN events', k > Len(events) PROVE RowStands(k)'
    <3>1. events'[k] = row
      BY <1>4, <1>5, <2>1
    <3> QED BY <1>1, <3>1 DEF RowStands
  <2> QED BY <1>4, <2>1, SameFiles, RowsStandKept
<1> QED BY <1>3, <1>4, <1>7, <1>8, <1>9

LEMMA ClaimAlone ==
  ASSUME OneOperatorIInv, NEW p \in Runners, Claim(p)
  PROVE  OperatorFacts'
<1> USE DEF OneOperatorIInv, OperatorFacts
<1>1. /\ p \in Actors /\ at[p] = "picked"
      /\ AppendRow(Row(work[p], "INTENT", 0, 0))
      /\ at' = [at EXCEPT ![p] = "dispatching"]
      /\ UNCHANGED <<work, held, fileVars, calls>>
      /\ at \in [Actors -> Labels]
  BY DEF Claim, Move, Actors, RunnerIInv, HoldsEvidence
<1>2. (held[p].kind # "NO_REQUEST")'
  BY <1>1 DEF HeldStands
<1>2a. PICK u \in Units : u = work[p]
  BY <1>1 DEF RunnerIInv, HoldsEvidence
<1>3. /\ RowsKept
      /\ state[u] = "PENDING"
      /\ state' = [state EXCEPT ![u] = TargetOf("INTENT")]
      /\ VerdictsOnRecord' /\ HeldStands' /\ RowsStand'
  <2>1. at'[p] \notin HoldingLabels
    BY <1>1 DEF HoldingLabels
  <2> QED BY <1>1, <1>2, <1>2a, <2>1, PendingRowAppended
<1>4. Unclaimed(u) /\ state \in [Units -> UnitStates]
  BY <1>3 DEF PendingIsUnclaimed, RunnerIInv
<1>5. RunnerShape'
  BY <1>1, <1>3, RunnerAssumption DEF RunnerShape, RowsKept, fileVars, Actors
<1>6. PendingIsUnclaimed'
  BY <1>1, <1>2a, <1>3, <1>4
     DEF PendingIsUnclaimed, Unclaimed, Actors, TargetOf, InFlightState
<1>7. CalledOnce'
  BY <1>1, <1>2a, <1>4 DEF CalledOnce, Unclaimed, fileVars, Actors
<1> QED BY <1>3, <1>5, <1>6, <1>7

LEMMA PauseAlone ==
  ASSUME OneOperatorIInv, NEW p \in Runners, Pause(p)
  PROVE  OperatorFacts'
<1> USE DEF OneOperatorIInv, OperatorFacts
<1>1. /\ p \in Actors /\ at[p] = "picked"
      /\ AppendRow(Row(work[p], "PAUSED", 0, 0))
      /\ at' = [at EXCEPT ![p] = "ended"]
      /\ work' = [work EXCEPT ![p] = NoUnit]
      /\ held' = [held EXCEPT ![p] = Nothing]
      /\ UNCHANGED <<fileVars, calls>>
      /\ at \in [Actors -> Labels] /\ work \in [Actors -> Units \cup {NoUnit}]
      /\ held \in [Actors -> Evidence]
  BY DEF Pause, Quit, Actors, RunnerIInv, HoldsEvidence, RunnerShape
<1>2. Nothing \in Evidence /\ Nothing.kind # "NO_REQUEST" /\ NoUnit \notin Units
  BY RunnerAssumption DEF Nothing, Evidence
<1>2a. PICK u \in Units : u = work[p]
  BY <1>1 DEF RunnerIInv, HoldsEvidence
<1>3. /\ RowsKept
      /\ state[u] = "PENDING"
      /\ state' = [state EXCEPT ![u] = TargetOf("PAUSED")]
      /\ VerdictsOnRecord' /\ HeldStands' /\ RowsStand'
  <2>1. /\ at'[p] \notin HoldingLabels /\ (held[p].kind # "NO_REQUEST")'
        /\ work'[p] \in {u, NoUnit}
        /\ \A a \in Actors : a # p =>
             at'[a] = at[a] /\ work'[a] = work[a] /\ held'[a] = held[a]
    BY <1>1, <1>2 DEF HoldingLabels
  <2> QED BY <1>1, <1>2a, <2>1, PendingRowAppended
<1>4. UNCHANGED state
  BY <1>3 DEF TargetOf, RunnerIInv
<1>5. RunnerShape'
  BY <1>1, <1>2, <1>3, RunnerAssumption DEF RunnerShape, RowsKept, fileVars, Actors
<1>6. PendingIsUnclaimed'
  BY <1>1, <1>2, <1>4 DEF PendingIsUnclaimed, Unclaimed, Actors
<1>7. CalledOnce'
  BY <1>1 DEF CalledOnce, fileVars, Actors
<1> QED BY <1>3, <1>5, <1>6, <1>7

\* A resolution is recorded: its row comes first among the new ones, no unit is
\* in flight any more, and the unit is pending again only after NO_REQUEST.
LEMMA ResolutionAppended ==
  ASSUME OneOperatorIInv, NEW u \in Units, NEW e \in Evidence,
         e.kind \in Resolutions, Record(u, e)
  PROVE  /\ RowsKept
         /\ state[u] = InFlightState
         /\ Len(events) + 1 \in DOMAIN events'
         /\ events'[Len(events) + 1] = Row(u, e.kind, e.verdict, e.cost)
         /\ \A k \in DOMAIN events' :
              k > Len(events) + 1 => events'[k].kind = "DEPENDENCY_TERMINAL"
         /\ \A v \in Units : state'[v] # InFlightState
         /\ \A v \in Units : state'[v] = "PENDING" =>
              state[v] = "PENDING" \/ (v = u /\ e.kind = "NO_REQUEST")
<1> USE DEF OneOperatorIInv, OperatorFacts
<1>1. /\ events \in Seq(Rows) /\ state \in [Units -> UnitStates] /\ PrefixFirst
      /\ e.verdict \in Nat /\ e.cost \in Nat
  BY DEF RunnerIInv, RunnerShape, Evidence
<1>2. CASE e.kind = "TERMINAL"
  <2>1. AppendTerminal(u, e.verdict, e.cost)
    BY <1>2 DEF Record
  <2>2. state[u] = InFlightState
    BY <2>1 DEF AppendTerminal
  <2>3. /\ RowsKept
        /\ Len(events) + 1 \in DOMAIN events'
        /\ events'[Len(events) + 1] = Row(u, "TERMINAL", e.verdict, e.cost)
        /\ \A k \in DOMAIN events' :
             k > Len(events) + 1 => events'[k].kind = "DEPENDENCY_TERMINAL"
        /\ \A v \in Units : state'[v] # InFlightState
        /\ \A v \in Units : state'[v] = "PENDING" => state[v] = "PENDING"
    BY <1>1, <2>1, TerminalAppended
  <2> QED BY <1>2, <2>2, <2>3
<1>3. CASE e.kind # "TERMINAL"
  <2> DEFINE row == Row(u, e.kind, e.verdict, e.cost)
  <2>1. AppendRow(row)
    BY <1>3 DEF Record
  <2>2. /\ e.kind \in {"NO_REQUEST", "COMPLETED"}
        /\ row \in Rows /\ row.unit = u /\ row.kind = e.kind
    BY <1>1, <1>3 DEF Resolutions, Row, Rows, EventKinds
  <2>3. /\ state[u] = InFlightState
        /\ state' = [state EXCEPT ![u] = TargetOf(e.kind)]
    BY <2>1, <2>2 DEF AppendRow, SourceOf
  <2> HIDE DEF row
  <2>4. RowsKept /\ Len(events') = Len(events) + 1 /\ events'[Len(events) + 1] = row
    BY <1>1, <2>1, <2>2, RowAppended
  <2>5. /\ Len(events) + 1 \in DOMAIN events'
        /\ \A k \in DOMAIN events' : ~ (k > Len(events) + 1)
    BY <1>1, <2>4 DEF RowsKept
  <2>6. \A v \in Units : state'[v] = IF v = u THEN TargetOf(e.kind) ELSE state[v]
    BY <1>1, <2>3
  <2>7. /\ TargetOf(e.kind) # InFlightState
        /\ TargetOf(e.kind) = "PENDING" => e.kind = "NO_REQUEST"
    BY <2>2 DEF TargetOf, InFlightState
  <2>8. \A v \in Units : state'[v] # InFlightState
    BY <1>1, <2>3, <2>6, <2>7 DEF PrefixFirst
  <2>9. \A v \in Units : state'[v] = "PENDING" =>
          state[v] = "PENDING" \/ (v = u /\ e.kind = "NO_REQUEST")
    BY <2>6, <2>7
  <2> QED BY <2>3, <2>4, <2>5, <2>8, <2>9 DEF row
<1> QED BY <1>2, <1>3

\* The row of evidence that stands can be read.
LEMMA ResolutionStands ==
  ASSUME OneOperatorIInv, NEW u \in Units, NEW e \in Evidence,
         e.kind \in Resolutions, Record(u, e), Stands(u, e), UNCHANGED fileVars
  PROVE  RowsStand'
<1> USE DEF OneOperatorIInv, OperatorFacts
<1> DEFINE n == Len(events)
           row == Row(u, e.kind, e.verdict, e.cost)
<1>1. PICK k \in Nat : k = n + 1
  BY DEF RunnerShape
<1>2. /\ RowsKept /\ state[u] = InFlightState
      /\ k \in DOMAIN events' /\ events'[k] = row
      /\ \A j \in DOMAIN events' : j > k => events'[j].kind = "DEPENDENCY_TERMINAL"
  BY <1>1, ResolutionAppended
<1>3. /\ row.unit = u /\ row.kind = e.kind /\ row.verdict = e.verdict
      /\ row.cost = e.cost
  BY DEF Row
<1> HIDE DEF row
<1>4. n \in Nat /\ DOMAIN events = 1..n /\ events' \in Seq(Rows)
  BY <1>2 DEF RunnerShape, RowsKept
<1>5. RowStands(k)'
  <2>1. e.kind = "COMPLETED" => e.cost # NoCost /\ unitFiles'[u] = e.cost
    BY DEF Stands, fileVars
  <2>2. ASSUME e.kind # "COMPLETED"
        PROVE  \E i \in DOMAIN events' :
                 /\ IntentOf(i, k)'
                 /\ e.verdict = i /\ i \in DOMAIN verdicts'
                 /\ verdicts'[i] # NoVerdict
                 /\ verdicts'[i] = [kind |-> e.kind, cost |-> e.cost]
    <3>1. PICK i \in DOMAIN events : i = e.verdict /\ Context(u, i)
      BY <1>2, <2>2 DEF Stands, Context
    <3>2. i \in 1..n /\ events[i].unit = u /\ events[i].kind = "INTENT"
          /\ \A j \in 1..n : events[j].unit = u => j <= i
      BY <1>4, <3>1 DEF Context, VerdictsOnRecord
    <3>3. events'[i] = events[i] /\ \A j \in 1..n : events'[j] = events[j]
      BY <1>2, <1>4, <3>2 DEF RowsKept
    <3>4. \A j \in (i + 1)..(k - 1) : j \in 1..n /\ ~ (j <= i)
      BY <1>1, <1>4, <3>2
    <3>5. IntentOf(i, k)'
      BY <1>1, <1>2, <1>3, <1>4, <3>2, <3>3, <3>4 DEF IntentOf
    <3>6. i \in DOMAIN events'
      BY <1>2, <1>4, <3>2 DEF RowsKept
    <3> QED BY <2>2, <3>1, <3>5, <3>6 DEF Stands, fileVars
  <2>3. e.kind \in {"NO_REQUEST", "TERMINAL"} => e.kind # "COMPLETED"
    OBVIOUS
  <2> QED BY <1>2, <1>3, <2>1, <2>2, <2>3 DEF RowStands
<1>6. ASSUME NEW j \in DOMAIN events', j > Len(events) PROVE RowStands(j)'
  <2>1. CASE j = k
    BY <1>5, <2>1
  <2>2. CASE j # k
    <3>1. j > k
      BY <1>1, <1>4, <1>6, <2>2
    <3> QED BY <1>2, <3>1 DEF RowStands
  <2> QED BY <2>1, <2>2
<1>7. RowsKept
  BY <1>2
<1> QED BY <1>6, <1>7, SameFiles, RowsStandKept

\* An actor records what it holds and is done with the unit.  With one operator,
\* nobody else works on a unit that is set back to pending.
LEMMA ResolutionAlone ==
  ASSUME OneOperatorIInv, OneOperator, NEW a \in Actors,
         at[a] \in {"published", "checked"}, Record(work[a], held[a]),
         NEW label \in {"ended", "looping"}, a \in Operators => label = "ended",
         at' = [at EXCEPT ![a] = label],
         work' = [work EXCEPT ![a] = NoUnit],
         held' = [held EXCEPT ![a] = Nothing],
         UNCHANGED <<fileVars, calls>>
  PROVE  OperatorFacts'
<1> USE DEF OneOperatorIInv, OperatorFacts
<1>1. /\ at \in [Actors -> Labels] /\ work \in [Actors -> Units \cup {NoUnit}]
      /\ held \in [Actors -> Evidence] /\ at[a] \in HoldingLabels
      /\ work[a] \in Units /\ held[a].kind \in Resolutions
  BY DEF RunnerIInv, HoldsEvidence, RunnerShape, HoldingLabels
<1>2. Nothing \in Evidence /\ Nothing.kind # "NO_REQUEST" /\ NoUnit \notin Units
  BY RunnerAssumption DEF Nothing, Evidence
<1>3. PICK u \in Units, e \in Evidence : u = work[a] /\ e = held[a]
  BY <1>1
<1>4. /\ e.kind \in Resolutions /\ Record(u, e) /\ Stands(u, e)
      /\ a \in Runners => e.kind # "NO_REQUEST"
  BY <1>1, <1>3 DEF HeldStands
<1>5. /\ RowsKept
      /\ state[u] = InFlightState
      /\ \A v \in Units : state'[v] # InFlightState
      /\ \A v \in Units : state'[v] = "PENDING" =>
           state[v] = "PENDING" \/ (v = u /\ e.kind = "NO_REQUEST")
  BY <1>4, ResolutionAppended
<1>6. \A v \in Units : Unclaimed(v) => Unclaimed(v)'
  BY <1>1, <1>2 DEF Unclaimed, Actors
<1>7. RunnerShape'
  BY <1>1, <1>2, <1>5, RunnerAssumption DEF RunnerShape, RowsKept, fileVars, Actors
<1>8. PendingIsUnclaimed'
  <2>1. ASSUME NEW v \in Units, state'[v] = "PENDING"
        PROVE  Unclaimed(v)' /\ \A o \in Operators : work'[o] # v
    <3>1. CASE state[v] = "PENDING"
      BY <1>1, <1>2, <1>6, <3>1 DEF PendingIsUnclaimed, Actors
    <3>2. CASE v = u /\ e.kind = "NO_REQUEST"
      <4>1. Unclaimed(v)'
        BY <1>4, <1>6, <3>2 DEF Stands
      <4>2. a \in Operators
        BY <1>4, <3>2 DEF Actors
      <4>3. \A o \in Operators : o = a
        BY <4>2 DEF OneOperator
      <4> QED BY <1>1, <1>2, <4>1, <4>3
    <3> QED BY <1>5, <2>1, <3>1, <3>2
  <2> QED BY <2>1 DEF PendingIsUnclaimed
<1>9. CalledOnce'
  BY <1>1 DEF CalledOnce, fileVars, Actors
<1>10. VerdictsOnRecord'
  <2>1. DOMAIN events \subseteq DOMAIN events'
    BY <1>5 DEF RunnerShape, RowsKept
  <2>2. \A v \in Units, i \in Nat : ~ Context(v, i)'
    BY <1>5 DEF Context
  <2>3. DOMAIN events' \subseteq Nat /\ DOMAIN verdicts' \subseteq Nat
    BY <1>5, RunnerAssumption DEF RunnerShape, RowsKept, fileVars
  <2>4. \A i \in DOMAIN verdicts' : verdicts'[i] # NoVerdict => i \in DOMAIN events'
    BY <2>1 DEF VerdictsOnRecord, fileVars
  <2> QED BY <2>2, <2>3, <2>4 DEF VerdictsOnRecord
<1>11. HeldStands'
  <2>1. ASSUME NEW b \in Actors, at'[b] \in HoldingLabels
        PROVE  Stands(work[b], held[b])'
    <3>1. b # a /\ at[b] \in HoldingLabels /\ work'[b] = work[b] /\ held'[b] = held[b]
      BY <1>1, <2>1 DEF HoldingLabels
    <3>2. work[b] \in Units /\ held[b] \in Evidence
      BY <1>1, <3>1, HolderOfClaimed
    <3>3. PICK v \in Units, x \in Evidence : v = work[b] /\ x = held[b]
      BY <3>2
    <3>4. Stands(v, x) /\ work'[b] = v /\ held'[b] = x
      BY <3>1, <3>3 DEF HeldStands
    <3>5. Stands(v, x)'
      BY <1>5, <1>6, <3>4 DEF Stands, fileVars
    <3> QED BY <3>4, <3>5 DEF Stands, Context, Unclaimed
  <2>2. \A q \in Runners : (held[q].kind # "NO_REQUEST")'
    BY <1>1, <1>2 DEF HeldStands, Actors
  <2> QED BY <2>1, <2>2 DEF HeldStands
<1>12. RowsStand'
  BY <1>4, ResolutionStands
<1> QED BY <1>7, <1>8, <1>9, <1>10, <1>11, <1>12

-------------------------------------------------------------------------------

LEMMA OneOperatorIInvInit == RunnerInit => OneOperatorIInv
<1> SUFFICES ASSUME RunnerInit PROVE OneOperatorIInv
  OBVIOUS
<1>1. RunnerIInv
  BY RunnerIInvInit
<1>2. /\ events = <<>> /\ calls = [u \in Units |-> 0]
      /\ unitFiles = [u \in Units |-> NoCost]
      /\ verdicts = [i \in 1..MaxEvents |-> NoVerdict]
      /\ at = [a \in Actors |-> "ended"] /\ work = [a \in Actors |-> NoUnit]
      /\ held = [a \in Actors |-> Nothing]
  BY DEF RunnerInit
<1>3. RunnerShape
  BY <1>2 DEF RunnerShape, Evidence, Nothing, Actors
<1>4. PendingIsUnclaimed
  BY <1>2, RunnerAssumption DEF PendingIsUnclaimed, Unclaimed, Actors
<1>5. CalledOnce
  BY <1>2 DEF CalledOnce, Actors
<1>6. VerdictsOnRecord
  BY <1>2 DEF VerdictsOnRecord, Context
<1>7. HeldStands
  BY <1>2 DEF HeldStands, HoldingLabels, Nothing, Actors
<1>8. RowsStand
  BY <1>2 DEF RowsStand
<1> QED
  BY <1>1, <1>3, <1>4, <1>5, <1>6, <1>7, <1>8 DEF OneOperatorIInv, OperatorFacts

LEMMA OneOperatorIInvStep ==
  ASSUME OneOperator
  PROVE  OneOperatorIInv /\ [RunnerNext]_runnerVars => OneOperatorIInv'
<1> SUFFICES ASSUME OneOperatorIInv, [RunnerNext]_runnerVars
             PROVE  OneOperatorIInv'
  OBVIOUS
<1>1. RunnerIInv'
  BY RunnerIInvStep DEF OneOperatorIInv
<1>2. ASSUME NEW p \in Runners, PersistCompleted(p) PROVE OperatorFacts'
  <2>1. /\ p \in Actors /\ p \notin Operators /\ at[p] \in {"published", "checked"}
        /\ Record(work[p], held[p])
        /\ at' = [at EXCEPT ![p] = "looping"]
        /\ work' = [work EXCEPT ![p] = NoUnit]
        /\ held' = [held EXCEPT ![p] = Nothing]
        /\ UNCHANGED <<fileVars, calls>>
    BY <1>2, RunnerAssumption DEF PersistCompleted, Actors
  <2> QED BY <2>1, "looping" \in {"ended", "looping"}, ResolutionAlone
<1>3. ASSUME NEW a \in Actors, RecordVerdict(a) PROVE OperatorFacts'
  <2>1. /\ at[a] \in {"published", "checked"}
        /\ Record(work[a], held[a])
        /\ at' = [at EXCEPT ![a] = "ended"]
        /\ work' = [work EXCEPT ![a] = NoUnit]
        /\ held' = [held EXCEPT ![a] = Nothing]
        /\ UNCHANGED <<fileVars, calls>>
    BY <1>3 DEF RecordVerdict, Quit
  <2> QED BY <2>1, "ended" \in {"ended", "looping"}, ResolutionAlone
<1>4. ASSUME UNCHANGED runnerVars PROVE OperatorFacts'
  <2> USE <1>4 DEF runnerVars, tableVars, fileVars, actorVars
  <2>1. RunnerShape /\ PendingIsUnclaimed /\ CalledOnce /\ VerdictsOnRecord
        /\ HeldStands /\ RowsStand
    BY DEF OneOperatorIInv, OperatorFacts
  <2>2. RunnerShape' /\ CalledOnce'
    BY <2>1 DEF RunnerShape, CalledOnce
  <2>3. PendingIsUnclaimed'
    BY <2>1 DEF PendingIsUnclaimed, Unclaimed
  <2>4. VerdictsOnRecord'
    BY <2>1 DEF VerdictsOnRecord, Context, Unclaimed
  <2>5. HeldStands'
    BY <2>1 DEF HeldStands, Stands, Context, Unclaimed
  <2>6. RowsStand'
    BY <2>1 DEF RowsStand, RowStands, IntentOf
  <2> QED BY <2>2, <2>3, <2>4, <2>5, <2>6 DEF OperatorFacts
<1>5. ASSUME NEW p \in Runners,
             \/ BeginSession(p) \/ \E u \in Units : Pick(p, u)
             \/ Pause(p) \/ Claim(p) \/ CallProvider(p)
      PROVE  OperatorFacts'
  BY <1>5, BeginSessionAlone, PickAlone, PauseAlone, ClaimAlone, CallProviderAlone
<1>6. ASSUME NEW p \in Runners,
             \/ \E cost \in Costs : PublishUnit(p, cost)
             \/ \E cost \in Costs \cup {0} : FailDispatch(p, cost)
      PROVE  OperatorFacts'
  BY <1>6, PublishUnitAlone, FailDispatchAlone
<1>7. ASSUME NEW o \in Operators, NEW u \in Units, Prepare(o, u)
      PROVE  OperatorFacts'
  BY <1>7, PrepareAlone
<1>8. ASSUME NEW a \in Actors, CheckVerdict(a) \/ Abandon(a) PROVE OperatorFacts'
  BY <1>8, CheckVerdictAlone, AbandonAlone
<1>9. OperatorFacts'
  BY <1>2, <1>3, <1>4, <1>5, <1>6, <1>7, <1>8 DEF RunnerNext
<1> QED BY <1>1, <1>9 DEF OneOperatorIInv

\* With one operator at a time, whatever sessions die, restart and overlap, no
\* unit is dispatched to the provider twice, and a unit that may be dispatched
\* has no evidence file that would refuse its own.  The invariant adds that a
\* unit is pending only if its provider was never called and nobody is past
\* picking it, and that NO_PROVIDER_REQUEST stays true from the moment it is
\* filed until it is recorded.
THEOREM RunnerDispatchedOnce ==
  ASSUME OneOperator
  PROVE  RunnerSpec => []DispatchedOnce
<1>1. RunnerInit => OneOperatorIInv
  BY OneOperatorIInvInit
<1>2. OneOperatorIInv /\ [RunnerNext]_runnerVars => OneOperatorIInv'
  BY OneOperatorIInvStep
<1>3. OneOperatorIInv => DispatchedOnce
  BY DEF OneOperatorIInv, OperatorFacts, PendingIsUnclaimed, Unclaimed, CalledOnce,
         DispatchedOnce
<1> QED BY <1>1, <1>2, <1>3, PTL DEF RunnerSpec

\* With one operator at a time, what is read in one transaction and recorded in
\* the next is still so: every row of the ledger stays readable, its evidence in
\* its file and its verdict about the intent it resolves.  The assumption is
\* needed: two operators who reconcile the same unit can leave a row that no
\* later transaction accepts.
THEOREM RunnerLedgerIntact ==
  ASSUME OneOperator
  PROVE  RunnerSpec => []LedgerIntact
<1>1. RunnerInit => OneOperatorIInv
  BY OneOperatorIInvInit
<1>2. OneOperatorIInv /\ [RunnerNext]_runnerVars => OneOperatorIInv'
  BY OneOperatorIInvStep
<1>3. OneOperatorIInv => LedgerIntact
  BY DEF OneOperatorIInv, OperatorFacts, RowsStand, RowStands, LedgerIntact, Intact
<1> QED BY <1>1, <1>2, <1>3, PTL DEF RunnerSpec

-------------------------------------------------------------------------------
(* Money. *)

MoneyShape ==
  /\ events \in Seq(Rows)
  /\ DOMAIN verdicts = 1..MaxEvents
  /\ \A i \in DOMAIN verdicts :
       verdicts[i] # NoVerdict => verdicts[i].cost \in Costs \cup {0}
  /\ unitFiles \in [Units -> Costs \cup {NoCost}]
  /\ \A a \in Actors : at[a] \in HoldingLabels =>
       held[a].verdict \in Nat /\ held[a].cost \in Costs \cup {0}

\* While a unit is in flight there is room under the ceiling for its projection:
\* only its own end spends money.
RoomInFlight ==
  \A u \in Units :
    state[u] = InFlightState => Realized + Projected[u] <= TrancheCeiling

MoneyIInv == RunnerIInv /\ MoneyShape /\ RoomInFlight /\ RunnerCeilingHolds

LEMMA RealizedIs ==
  ASSUME events \in Seq(Rows)
  PROVE  /\ Realized \in Nat
         /\ Realized = SumFunctionOnSet([k \in DOMAIN events |-> events[k].cost],
                                        1..Len(events))
<1> DEFINE cost == [k \in DOMAIN events |-> events[k].cost]
<1>1. IsFiniteSet(1..Len(events)) /\ DOMAIN events = 1..Len(events)
  BY FS_Interval
<1>2. \A k \in 1..Len(events) : cost[k] \in Nat
  <2>1. \A k \in 1..Len(events) : events[k] \in Rows
    OBVIOUS
  <2> QED BY <1>1, <2>1 DEF Rows
<1>3. DOMAIN cost = 1..Len(events)
  BY <1>1
<1>4. SumFunctionOnSet(cost, 1..Len(events)) \in Nat
  <2> HIDE DEF cost
  <2> QED BY <1>1, <1>2, SumIsNat
<1>5. Realized = SumFunctionOnSet(cost, DOMAIN cost)
  BY DEF Realized, SumFunction
<1> QED BY <1>3, <1>4, <1>5

\* New rows, of which only the first may cost anything, add its cost.
LEMMA RealizedGrows ==
  ASSUME events \in Seq(Rows), RowsKept, Len(events) + 1 \in DOMAIN events',
         \A k \in DOMAIN events' : k > Len(events) + 1 => events'[k].cost = 0
  PROVE  Realized' = Realized + events'[Len(events) + 1].cost
<1> DEFINE n == Len(events)
           old == [k \in DOMAIN events |-> events[k].cost]
           new == [k \in DOMAIN events' |-> events'[k].cost]
<1>1. /\ n \in Nat /\ Len(events') \in Nat /\ n + 1 <= Len(events')
      /\ DOMAIN events = 1..n /\ DOMAIN events' = 1..Len(events')
  BY DEF RowsKept
<1>2. \A k \in 1..Len(events') : new[k] \in Int
  <2>1. \A k \in 1..Len(events') : events'[k] \in Rows
    BY DEF RowsKept
  <2> QED BY <1>1, <2>1 DEF Rows
<1>3. \A k \in 1..n : old[k] = new[k]
  BY <1>1 DEF RowsKept
<1>4. \A k \in 1..Len(events') \ 1..(n + 1) : new[k] = 0
  BY <1>1
<1>5. new[n + 1] = events'[n + 1].cost
  OBVIOUS
<1>6. /\ IsFiniteSet(1..Len(events')) /\ IsFiniteSet(1..n)
      /\ 1..(n + 1) = 1..n \cup {n + 1} /\ n + 1 \notin 1..n
      /\ 1..(n + 1) \in SUBSET (1..Len(events'))
  <2> HIDE DEF n
  <2>1. IsFiniteSet(1..Len(events')) /\ IsFiniteSet(1..n)
    BY <1>1, FS_Interval
  <2>2. 1..(n + 1) = 1..n \cup {n + 1} /\ n + 1 \notin 1..n
    BY <1>1
  <2>3. 1..(n + 1) \in SUBSET (1..Len(events'))
    BY <1>1
  <2> QED BY <2>1, <2>2, <2>3
<1>7. Realized = SumFunctionOnSet(old, 1..n)
  BY RealizedIs
<1>8. Realized' = SumFunctionOnSet(new, 1..Len(events'))
  <2>1. DOMAIN new = 1..Len(events')
    BY <1>1
  <2>2. Realized' = SumFunctionOnSet(new, DOMAIN new)
    BY DEF Realized, SumFunction
  <2> QED BY <2>1, <2>2
<1>9. Realized \in Nat
  BY RealizedIs
<1> HIDE DEF n, old, new
<1>10. SumFunctionOnSet(new, 1..Len(events')) = SumFunctionOnSet(new, 1..(n + 1))
  BY <1>2, <1>4, <1>6, SumDropZeros
<1>11. SumFunctionOnSet(new, 1..(n + 1)) = new[n + 1] + SumFunctionOnSet(new, 1..n)
  BY <1>2, <1>6, SumAddOne
<1>12. SumFunctionOnSet(old, 1..n) = SumFunctionOnSet(new, 1..n)
  BY <1>3, <1>6, SumSame
<1>13. new[n + 1] \in Int
  BY <1>2, <1>6
<1>14. Realized' = new[n + 1] + Realized
  BY <1>7, <1>8, <1>10, <1>11, <1>12
<1>15. Realized' = Realized + new[n + 1]
  BY <1>9, <1>13, <1>14
<1> QED BY <1>5, <1>15 DEF n

\* Overshoot is what it is called.
LEMMA OvershootBounds ==
  ASSUME IsFiniteSet(Costs)
  PROVE  /\ Overshoot \in Nat
         /\ \A u \in Units, cost \in Costs \cup {0} : cost - Projected[u] <= Overshoot
<1> DEFINE over == {cost - Projected[u] : cost \in Costs, u \in Units}
           pairs == Costs \X Units
           minus == [p \in pairs |-> p[1] - Projected[p[2]]]
<1>1. \A u \in Units, cost \in Costs : Projected[u] \in Nat /\ cost \in Nat
  BY RunnerAssumption
<1>2. IsFiniteSet(pairs)
  BY UnitsFinite, FS_Product
<1>3. minus \in Surjection(pairs, over)
  <2>1. minus \in [pairs -> over]
    OBVIOUS
  <2>2. ASSUME NEW x \in over PROVE \E p \in pairs : minus[p] = x
    <3>1. PICK cost \in Costs, u \in Units : x = cost - Projected[u]
      OBVIOUS
    <3>2. <<cost, u>> \in pairs /\ minus[<<cost, u>>] = x
      BY <3>1
    <3> QED BY <3>2
  <2> HIDE DEF minus, pairs, over
  <2> QED BY <2>1, <2>2 DEF Surjection
<1>4. IsFiniteSet(over)
  <2> HIDE DEF minus, pairs, over
  <2> QED BY <1>2, <1>3, FS_Surjection
<1>5. IsFiniteSet({0} \cup over)
  <2> HIDE DEF over
  <2>1. IsFiniteSet(over \cup {0})
    BY <1>4, FS_AddElement
  <2>2. over \cup {0} = {0} \cup over
    OBVIOUS
  <2> QED BY <2>1, <2>2
<1>6. {0} \cup over \in SUBSET Int
  BY <1>1
<1>7. Overshoot \in {0} \cup over /\ \A x \in {0} \cup over : x <= Overshoot
  <2>1. Overshoot = Max({0} \cup over)
    BY DEF Overshoot
  <2> HIDE DEF over
  <2> QED BY <1>5, <1>6, <2>1, FiniteHasMax
<1>8. Overshoot \in Nat
  <2> HIDE DEF over
  <2>1. Overshoot \in Int /\ 0 <= Overshoot
    BY <1>6, <1>7
  <2> QED BY <2>1
<1>9. ASSUME NEW u \in Units, NEW cost \in Costs \cup {0}
      PROVE  cost - Projected[u] <= Overshoot
  <2>1. CASE cost \in Costs
    <3>1. cost - Projected[u] \in over
      BY <2>1
    <3> HIDE DEF over
    <3> QED BY <1>7, <3>1
  <2>2. CASE cost = 0
    BY <1>1, <1>8, <2>2, RunnerAssumption
  <2> QED BY <2>1, <2>2
<1> QED BY <1>8, <1>9

\* Steps that leave the tables alone leave the money alone.
LEMMA QuietMoney ==
  ASSUME MoneyIInv, UNCHANGED tableVars
  PROVE  RoomInFlight' /\ RunnerCeilingHolds'
BY DEF MoneyIInv, tableVars, RoomInFlight, RunnerCeilingHolds, Realized

\* Actor a comes to hold evidence of a cost.
ComesToHold(a) ==
  /\ \A b \in Actors \ {a} : held'[b] = held[b]
  /\ held'[a].verdict \in Nat /\ held'[a].cost \in Costs \cup {0}

VerdictsCost ==
  /\ DOMAIN verdicts = 1..MaxEvents
  /\ \A i \in DOMAIN verdicts :
       verdicts[i] # NoVerdict => verdicts[i].cost \in Costs \cup {0}

LEMMA VerdictShape ==
  ASSUME MoneyIInv, NEW a \in Actors, NEW u, NEW kind, NEW cost \in Costs \cup {0},
         FileVerdict(a, u, kind, cost)
  PROVE  VerdictsCost' /\ ComesToHold(a)
<1>1. PICK i \in DOMAIN verdicts :
        /\ verdicts' = [verdicts EXCEPT ![i] = [kind |-> kind, cost |-> cost]]
        /\ held' = [held EXCEPT ![a] = [kind |-> kind, verdict |-> i, cost |-> cost]]
  BY DEF FileVerdict
<1>2. i \in Nat /\ DOMAIN held = Actors
  BY RunnerAssumption DEF MoneyIInv, MoneyShape, RunnerIInv, HoldsEvidence
<1> QED BY <1>1, <1>2 DEF MoneyIInv, MoneyShape, VerdictsCost, ComesToHold

\* An actor a that does not come to hold evidence, and files none.
LEMMA QuietShape ==
  ASSUME MoneyIInv, events' \in Seq(Rows), UNCHANGED fileVars, NEW a \in Actors,
         NEW label \in Labels, at' = [at EXCEPT ![a] = label],
         \A b \in Actors : b # a => held'[b] = held[b],
         label \in HoldingLabels => held'[a] = held[a] /\ at[a] \in HoldingLabels
  PROVE  MoneyShape'
<1>1. at \in [Actors -> Labels]
  BY DEF MoneyIInv, RunnerIInv, HoldsEvidence
<1>2. ASSUME NEW b \in Actors, at'[b] \in HoldingLabels
      PROVE  held'[b] = held[b] /\ at[b] \in HoldingLabels
  BY <1>1, <1>2
<1> QED BY <1>2 DEF MoneyIInv, MoneyShape, fileVars

LEMMA PublishUnitMoney ==
  ASSUME MoneyIInv, NEW p \in Runners, NEW cost \in Costs, PublishUnit(p, cost)
  PROVE  MoneyIInv'
<1>1. UNCHANGED tableVars
  BY DEF PublishUnit
<1>2. MoneyShape'
  <2>1. p \in Actors /\ at \in [Actors -> Labels] /\ DOMAIN held = Actors
    BY DEF Actors, MoneyIInv, RunnerIInv, HoldsEvidence
  <2>2. held' = [held EXCEPT ![p] = [kind |-> "COMPLETED", verdict |-> 0, cost |-> cost]]
        /\ at' = [at EXCEPT ![p] = "published"] /\ verdicts' = verdicts
        /\ unitFiles' = [unitFiles EXCEPT ![work[p]] = cost]
    BY DEF PublishUnit
  <2>3. unitFiles' \in [Units -> Costs \cup {NoCost}]
    BY <2>2 DEF MoneyIInv, MoneyShape
  <2>4. ASSUME NEW b \in Actors, at'[b] \in HoldingLabels
        PROVE  held'[b].verdict \in Nat /\ held'[b].cost \in Costs \cup {0}
    <3>1. CASE b = p
      BY <2>1, <2>2, <3>1
    <3>2. CASE b # p
      BY <2>1, <2>2, <2>4, <3>2 DEF MoneyIInv, MoneyShape
    <3> QED BY <3>1, <3>2
  <2> QED BY <1>1, <2>2, <2>3, <2>4 DEF MoneyIInv, MoneyShape, tableVars
<1>3. RunnerIInv'
  <2>1. [RunnerNext]_runnerVars
    BY DEF RunnerNext
  <2> QED BY <2>1, RunnerIInvStep DEF MoneyIInv
<1> QED BY <1>1, <1>2, <1>3, QuietMoney DEF MoneyIInv

\* What filing a verdict or finding evidence leaves of the shape.
LEMMA HoldingShape ==
  ASSUME MoneyIInv, NEW a \in Actors, NEW label, UNCHANGED <<events, unitFiles>>,
         at' = [at EXCEPT ![a] = label], VerdictsCost', ComesToHold(a)
  PROVE  MoneyShape'
<1>1. at \in [Actors -> Labels]
  BY DEF MoneyIInv, RunnerIInv, HoldsEvidence
<1>2. ASSUME NEW b \in Actors, at'[b] \in HoldingLabels
      PROVE  held'[b].verdict \in Nat /\ held'[b].cost \in Costs \cup {0}
  BY <1>1, <1>2 DEF MoneyIInv, MoneyShape, ComesToHold
<1> QED BY <1>2 DEF MoneyIInv, MoneyShape, VerdictsCost

LEMMA FailDispatchMoney ==
  ASSUME MoneyIInv, NEW p \in Runners, NEW cost \in Costs \cup {0},
         FailDispatch(p, cost)
  PROVE  MoneyIInv'
<1>1. UNCHANGED tableVars /\ UNCHANGED unitFiles /\ p \in Actors
  BY DEF FailDispatch, Actors
<1>2. FileVerdict(p, work[p], "TERMINAL", cost)
      /\ at' = [at EXCEPT ![p] = "failed"]
  BY DEF FailDispatch
<1>3. VerdictsCost' /\ ComesToHold(p)
  BY <1>1, <1>2, VerdictShape
<1>4. MoneyShape'
  BY <1>1, <1>2, <1>3, HoldingShape DEF tableVars
<1>5. RunnerIInv'
  <2>1. [RunnerNext]_runnerVars
    BY DEF RunnerNext
  <2> QED BY <2>1, RunnerIInvStep DEF MoneyIInv
<1> QED BY <1>1, <1>4, <1>5, QuietMoney DEF MoneyIInv

LEMMA PrepareMoney ==
  ASSUME MoneyIInv, NEW o \in Operators, NEW u \in Units, Prepare(o, u)
  PROVE  MoneyIInv'
<1>1. UNCHANGED tableVars /\ UNCHANGED unitFiles /\ o \in Actors
      /\ at' = [at EXCEPT ![o] = "prepared"]
  BY DEF Prepare, Actors
<1>2. VerdictsCost' /\ ComesToHold(o)
  <2>1. ASSUME NEW cost \in Costs \cup {0}, FileVerdict(o, u, "TERMINAL", cost)
        PROVE  VerdictsCost' /\ ComesToHold(o)
    BY <1>1, <2>1, VerdictShape
  <2>2. ASSUME FileVerdict(o, u, "NO_REQUEST", 0)
        PROVE  VerdictsCost' /\ ComesToHold(o)
    BY <1>1, <2>2, VerdictShape
  <2>3. ASSUME FindEvidence(o, u), UNCHANGED verdicts
        PROVE  VerdictsCost' /\ ComesToHold(o)
    <3>1. PICK i \in DOMAIN verdicts :
            \/ /\ unitFiles[u] # NoCost
               /\ held' = [held EXCEPT ![o] =
                    [kind |-> "COMPLETED", verdict |-> i, cost |-> unitFiles[u]]]
            \/ /\ verdicts[i] # NoVerdict
               /\ held' = [held EXCEPT ![o] =
                    [kind |-> verdicts[i].kind, verdict |-> i, cost |-> verdicts[i].cost]]
      BY <2>3 DEF FindEvidence
    <3>2. i \in Nat /\ DOMAIN held = Actors
      BY RunnerAssumption DEF MoneyIInv, MoneyShape, RunnerIInv, HoldsEvidence
    <3>3. ComesToHold(o)
      BY <1>1, <3>1, <3>2 DEF MoneyIInv, MoneyShape, ComesToHold
    <3> QED BY <2>3, <3>3 DEF MoneyIInv, MoneyShape, VerdictsCost
  <2> QED BY <2>1, <2>2, <2>3 DEF Prepare
<1>3. MoneyShape'
  BY <1>1, <1>2, HoldingShape DEF tableVars
<1>4. RunnerIInv'
  <2>1. [RunnerNext]_runnerVars
    BY DEF RunnerNext
  <2> QED BY <2>1, RunnerIInvStep DEF MoneyIInv
<1> QED BY <1>1, <1>3, <1>4, QuietMoney DEF MoneyIInv

\* Sessions and operators that only move on.
LEMMA MoveMoney ==
  ASSUME MoneyIInv, NEW a \in Actors,
         \/ CheckVerdict(a) \/ Abandon(a)
         \/ a \in Runners /\ (BeginSession(a) \/ CallProvider(a)
                             \/ \E u \in Units : Pick(a, u))
  PROVE  MoneyIInv'
<1>1. UNCHANGED tableVars /\ UNCHANGED fileVars
  BY DEF CheckVerdict, Abandon, BeginSession, CallProvider, Pick
<1>2. DOMAIN held = Actors
  BY DEF MoneyIInv, RunnerIInv, HoldsEvidence
<1>3. \E label \in Labels :
        /\ at' = [at EXCEPT ![a] = label]
        /\ label \in HoldingLabels => held'[a] = held[a] /\ at[a] \in HoldingLabels
        /\ \A b \in Actors : b # a => held'[b] = held[b]
  <2>1. CASE CheckVerdict(a)
    BY <2>1 DEF CheckVerdict, Move, Labels, HoldingLabels
  <2>2. CASE Abandon(a)
    BY <1>2, <2>2 DEF Abandon, Quit, Labels, HoldingLabels
  <2>3. CASE BeginSession(a) \/ CallProvider(a) \/ \E u \in Units : Pick(a, u)
    BY <2>3 DEF BeginSession, CallProvider, Pick, Move, Labels, HoldingLabels
  <2> QED BY <2>1, <2>2, <2>3
<1>4. MoneyShape'
  BY <1>1, <1>3, QuietShape DEF MoneyIInv, MoneyShape, tableVars
<1>5. RunnerIInv'
  <2>1. [RunnerNext]_runnerVars
    BY DEF RunnerNext, Actors
  <2> QED BY <2>1, RunnerIInvStep DEF MoneyIInv
<1> QED BY <1>1, <1>4, <1>5, QuietMoney DEF MoneyIInv

\* A pause and an intent cost nothing; an intent is written where its unit's
\* projection fits under the ceiling.
LEMMA PendingRowMoney ==
  ASSUME MoneyIInv, NEW p \in Runners, Pause(p) \/ Claim(p)
  PROVE  MoneyIInv'
<1> DEFINE u == work[p]
<1>1. p \in Actors /\ u \in Units /\ Claimable(u)
  BY DEF Pause, Claim, MoneyIInv, RunnerIInv, HoldsEvidence, Actors
<1>2. PICK k \in {"INTENT", "PAUSED"} :
        /\ AppendRow(Row(u, k, 0, 0))
        /\ k = "INTENT" => Affordable(u)
  BY DEF Pause, Claim
<1>3. Row(u, k, 0, 0) \in Rows /\ Row(u, k, 0, 0).unit = u
      /\ Row(u, k, 0, 0).cost = 0 /\ Row(u, k, 0, 0).kind = k
  BY <1>1 DEF Row, Rows, EventKinds
<1>4. events \in Seq(Rows) /\ state \in [Units -> UnitStates] /\ Realized \in Nat
  BY RealizedIs DEF MoneyIInv, MoneyShape, RunnerIInv
<1>5. RowsKept /\ Len(events') = Len(events) + 1
      /\ events'[Len(events) + 1] = Row(u, k, 0, 0)
  BY <1>2, <1>3, <1>4, RowAppended
<1>6. Realized' = Realized
  <2>1. Len(events) + 1 \in DOMAIN events'
        /\ \A j \in DOMAIN events' : ~ (j > Len(events) + 1)
    BY <1>4, <1>5 DEF RowsKept
  <2>2. Realized' = Realized + events'[Len(events) + 1].cost
    BY <1>4, <1>5, <2>1, RealizedGrows
  <2> QED BY <1>3, <1>4, <1>5, <2>2
<1>7. RoomInFlight'
  <2> SUFFICES ASSUME NEW v \in Units, state'[v] = InFlightState
               PROVE  Realized + Projected[v] <= TrancheCeiling
    BY <1>6 DEF RoomInFlight
  <2>1. state' = [state EXCEPT ![u] = TargetOf(k)]
    BY <1>2, <1>3 DEF AppendRow
  <2>2. \A w \in Units : state[w] # InFlightState
    BY <1>1 DEF Claimable
  <2>3. v = u /\ k = "INTENT"
    BY <1>1, <1>4, <2>1, <2>2 DEF TargetOf, InFlightState
  <2> QED BY <1>2, <2>3 DEF Affordable
<1>8. RunnerCeilingHolds'
  BY <1>6 DEF MoneyIInv, RunnerCeilingHolds
<1>9. MoneyShape'
  <2>1. DOMAIN held = Actors
    BY DEF MoneyIInv, RunnerIInv, HoldsEvidence
  <2>2. \E label \in Labels \ HoldingLabels :
          /\ at' = [at EXCEPT ![p] = label]
          /\ \A b \in Actors : b # p => held'[b] = held[b]
    BY <2>1 DEF Pause, Claim, Quit, Move, Labels, HoldingLabels
  <2>3. UNCHANGED fileVars /\ events' \in Seq(Rows)
    BY <1>5 DEF Pause, Claim, RowsKept
  <2> QED BY <1>1, <2>2, <2>3, QuietShape
<1>10. RunnerIInv'
  <2>1. [RunnerNext]_runnerVars
    BY DEF RunnerNext
  <2> QED BY <2>1, RunnerIInvStep DEF MoneyIInv
<1> QED BY <1>7, <1>8, <1>9, <1>10 DEF MoneyIInv

\* A unit that ends spends what its evidence says, and nothing else does.
LEMMA ResolutionMoney ==
  ASSUME IsFiniteSet(Costs), MoneyIInv, NEW a \in Actors,
         \/ a \in Runners /\ PersistCompleted(a)
         \/ RecordVerdict(a)
  PROVE  MoneyIInv'
<1> DEFINE u == work[a]
           e == held[a]
<1>1. /\ at[a] \in HoldingLabels /\ Record(u, e) /\ UNCHANGED fileVars
      /\ u \in Units /\ e.kind \in Resolutions
      /\ e.cost \in Costs \cup {0} /\ e.verdict \in Nat
  BY DEF PersistCompleted, RecordVerdict, MoneyIInv, MoneyShape, RunnerIInv,
         HoldsEvidence, HoldingLabels
<1>2. /\ events \in Seq(Rows) /\ state \in [Units -> UnitStates]
      /\ PrefixFirst /\ Realized \in Nat /\ e.cost \in Nat
  <2>1. events \in Seq(Rows) /\ state \in [Units -> UnitStates] /\ PrefixFirst
    BY DEF MoneyIInv, MoneyShape, RunnerIInv
  <2>2. Realized \in Nat
    BY <2>1, RealizedIs
  <2>3. e.cost \in Nat
    BY <1>1, RunnerAssumption
  <2> QED BY <2>1, <2>2, <2>3
<1>3. /\ RowsKept /\ state[u] = InFlightState
      /\ Realized' = Realized + e.cost
      /\ \A v \in Units : state'[v] # InFlightState
  <2>1. CASE e.kind = "TERMINAL"
    <3>1. AppendTerminal(u, e.verdict, e.cost)
      BY <1>1, <2>1 DEF Record
    <3>2. /\ RowsKept /\ Len(events) + 1 \in DOMAIN events'
          /\ events'[Len(events) + 1] = Row(u, "TERMINAL", e.verdict, e.cost)
          /\ \A k \in DOMAIN events' : k > Len(events) + 1 => events'[k].cost = 0
          /\ \A v \in Units : state'[v] # InFlightState
      BY <1>1, <1>2, <3>1, TerminalAppended
    <3>3. Realized' = Realized + events'[Len(events) + 1].cost
      BY <1>2, <3>2, RealizedGrows
    <3> QED BY <3>1, <3>2, <3>3 DEF Row, AppendTerminal
  <2>2. CASE e.kind # "TERMINAL"
    <3> DEFINE row == Row(u, e.kind, e.verdict, e.cost)
    <3>1. AppendRow(row) /\ e.kind \in {"NO_REQUEST", "COMPLETED"}
      BY <1>1, <2>2 DEF Record, Resolutions
    <3>2. row \in Rows /\ row.unit = u /\ row.cost = e.cost /\ row.kind = e.kind
      BY <1>1, <1>2 DEF Row, Rows, EventKinds
    <3>3. /\ state[u] = InFlightState
          /\ state' = [state EXCEPT ![u] = TargetOf(e.kind)]
      BY <3>1, <3>2 DEF AppendRow, SourceOf
    <3>4. TargetOf(e.kind) # InFlightState
      BY <3>1 DEF TargetOf, InFlightState
    <3>5. \A v \in Units : state'[v] # InFlightState
      BY <1>1, <1>2, <3>3, <3>4 DEF PrefixFirst
    <3> HIDE DEF row
    <3>6. RowsKept /\ Len(events') = Len(events) + 1 /\ events'[Len(events) + 1] = row
      BY <1>2, <3>1, <3>2, RowAppended
    <3>7. Len(events) + 1 \in DOMAIN events'
          /\ \A j \in DOMAIN events' : ~ (j > Len(events) + 1)
      BY <1>2, <3>6 DEF RowsKept
    <3>8. Realized' = Realized + events'[Len(events) + 1].cost
      BY <1>2, <3>6, <3>7, RealizedGrows
    <3> QED BY <3>2, <3>3, <3>5, <3>6, <3>8
  <2> QED BY <2>1, <2>2
<1>4. RoomInFlight'
  BY <1>3 DEF RoomInFlight
<1>5. RunnerCeilingHolds'
  <2>1. Realized + Projected[u] <= TrancheCeiling
    BY <1>1, <1>3 DEF MoneyIInv, RoomInFlight
  <2>2. Overshoot \in Nat /\ e.cost - Projected[u] <= Overshoot
    BY <1>1, OvershootBounds
  <2>3. Projected[u] \in Nat /\ TrancheCeiling \in Nat
    BY <1>1, RunnerAssumption
  <2>4. Realized' <= TrancheCeiling + Overshoot
    BY <1>2, <1>3, <2>1, <2>2, <2>3
  <2> QED BY <2>4 DEF RunnerCeilingHolds, Overshoot
<1>6. MoneyShape'
  <2>1. DOMAIN held = Actors
    BY DEF MoneyIInv, RunnerIInv, HoldsEvidence
  <2>2. \E label \in Labels \ HoldingLabels :
          /\ at' = [at EXCEPT ![a] = label]
          /\ \A b \in Actors : b # a => held'[b] = held[b]
    BY <2>1 DEF PersistCompleted, RecordVerdict, Quit, Labels, HoldingLabels
  <2> QED BY <1>1, <1>3, <2>2, QuietShape DEF RowsKept
<1>7. RunnerIInv'
  <2>1. [RunnerNext]_runnerVars
    BY DEF RunnerNext, Actors
  <2> QED BY <2>1, RunnerIInvStep DEF MoneyIInv
<1> QED BY <1>4, <1>5, <1>6, <1>7 DEF MoneyIInv

LEMMA MoneyIInvInit ==
  ASSUME IsFiniteSet(Costs)
  PROVE  RunnerInit => MoneyIInv
<1> SUFFICES ASSUME RunnerInit PROVE MoneyIInv
  OBVIOUS
<1>1. RunnerIInv
  BY RunnerIInvInit
<1>2. /\ events = <<>> /\ state = [u \in Units |-> "PENDING"]
      /\ unitFiles = [u \in Units |-> NoCost]
      /\ verdicts = [i \in 1..MaxEvents |-> NoVerdict]
      /\ at = [a \in Actors |-> "ended"]
  BY DEF RunnerInit
<1>3. MoneyShape
  BY <1>2 DEF MoneyShape, HoldingLabels
<1>4. Realized = 0
  <2>1. DOMAIN [k \in DOMAIN events |-> events[k].cost] = {}
    BY <1>2
  <2> QED BY <2>1, SumOfNone DEF Realized, SumFunction
<1>5. RoomInFlight
  BY <1>2 DEF RoomInFlight, InFlightState
<1>6. RunnerCeilingHolds
  BY <1>4, OvershootBounds, RunnerAssumption DEF RunnerCeilingHolds
<1> QED BY <1>1, <1>3, <1>5, <1>6 DEF MoneyIInv

LEMMA MoneyIInvStep ==
  ASSUME IsFiniteSet(Costs)
  PROVE  MoneyIInv /\ [RunnerNext]_runnerVars => MoneyIInv'
<1> SUFFICES ASSUME MoneyIInv, [RunnerNext]_runnerVars PROVE MoneyIInv'
  OBVIOUS
<1>1. ASSUME NEW p \in Runners,
             \/ BeginSession(p) \/ \E u \in Units : Pick(p, u)
             \/ Pause(p) \/ Claim(p) \/ CallProvider(p)
             \/ \E cost \in Costs : PublishUnit(p, cost)
             \/ \E cost \in Costs \cup {0} : FailDispatch(p, cost)
             \/ PersistCompleted(p)
      PROVE  MoneyIInv'
  <2>1. p \in Actors
    BY DEF Actors
  <2>2. CASE BeginSession(p) \/ CallProvider(p) \/ \E u \in Units : Pick(p, u)
    BY <2>1, <2>2, MoveMoney
  <2>3. CASE Pause(p) \/ Claim(p)
    BY <2>3, PendingRowMoney
  <2>4. CASE PersistCompleted(p)
    BY <2>1, <2>4, ResolutionMoney
  <2> QED BY <1>1, <2>2, <2>3, <2>4, PublishUnitMoney, FailDispatchMoney
<1>2. ASSUME NEW o \in Operators, NEW u \in Units, Prepare(o, u) PROVE MoneyIInv'
  BY <1>2, PrepareMoney
<1>3. ASSUME NEW a \in Actors, CheckVerdict(a) \/ Abandon(a) PROVE MoneyIInv'
  BY <1>3, MoveMoney
<1>4. ASSUME NEW a \in Actors, RecordVerdict(a) PROVE MoneyIInv'
  BY <1>4, ResolutionMoney
<1>5. CASE UNCHANGED runnerVars
  <2>1. RunnerIInv'
    BY RunnerIInvStep DEF MoneyIInv
  <2>2. MoneyShape'
    BY <1>5 DEF MoneyIInv, MoneyShape, runnerVars, tableVars, fileVars, actorVars
  <2> QED BY <1>5, <2>1, <2>2, QuietMoney DEF MoneyIInv, runnerVars
<1> QED BY <1>1, <1>2, <1>3, <1>4, <1>5 DEF RunnerNext

\* However many sessions and operators overlap and die, the money recorded
\* exceeds the ceiling by what one unit costs beyond its projection at most: a
\* claim leaves room for the unit, the unit is alone in flight, and only its
\* own end is paid from that room.  Finitely many costs, so that there is a
\* largest overshoot.
THEOREM RunnerMoney ==
  ASSUME IsFiniteSet(Costs)
  PROVE  RunnerSpec => []RunnerCeilingHolds
<1>1. RunnerInit => MoneyIInv
  BY MoneyIInvInit
<1>2. MoneyIInv /\ [RunnerNext]_runnerVars => MoneyIInv'
  BY MoneyIInvStep
<1>3. MoneyIInv => RunnerCeilingHolds
  BY DEF MoneyIInv
<1> QED BY <1>1, <1>2, <1>3, PTL DEF RunnerSpec

===============================================================================
