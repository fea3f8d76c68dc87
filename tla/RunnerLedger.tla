------------------------------ MODULE RunnerLedger ------------------------------
(***************************************************************************)
(* The first main runner: run_pending over MainRunLedger                   *)
(* (phase13_main_runner.py, phase13_main_runner_ledger.py,                 *)
(* phase13_main_runner_store.py, phase13_main_live_dispatch.py).           *)
(*                                                                         *)
(* Several run_pending sessions and operators share one sqlite file.  A    *)
(* transaction is one step; what an actor read in one transaction and uses *)
(* in the next may be outdated.  Evidence is in write-once files: one for  *)
(* a unit, one for the verdict on an intent.  An event's hash is modelled  *)
(* by its position, so an intent is identified by its row number.          *)
(***************************************************************************)
EXTENDS Integers, Sequences, FiniteSets, FiniteSetsExt

CONSTANTS
  Units,          \* execution units
  Order,          \* the units by sequence number
  PrefixOf,       \* unit -> its prefix_unit_id, or NoUnit
  Projected,      \* unit -> projected_cost_krw
  TrancheCeiling, \* tranche_ceiling_krw of every session
  Costs,          \* realized costs a dispatch can report
  Runners,        \* run_pending sessions, each with its process
  Operators,      \* callers of reconcile
  MaxEvents,      \* bound: a unit is claimed only if its rows will fit
  NoUnit, NoCost, NoVerdict

ASSUME RunnerAssumption ==
  /\ Order \in Seq(Units)
  /\ \A u \in Units : \E i \in DOMAIN Order : Order[i] = u
  /\ \A i, j \in DOMAIN Order : Order[i] = Order[j] => i = j
  /\ PrefixOf \in [Units -> Units \cup {NoUnit}]
  /\ \A i, j \in DOMAIN Order : PrefixOf[Order[j]] = Order[i] => i < j
  /\ \A u \in Units : PrefixOf[u] # NoUnit => PrefixOf[PrefixOf[u]] = NoUnit
  /\ Projected \in [Units -> Nat]
  /\ TrancheCeiling \in Nat
  /\ Costs \subseteq Nat
  /\ MaxEvents \in Nat
  /\ NoUnit \notin Units /\ NoCost \notin Costs
  /\ NoVerdict \notin [kind : {"NO_REQUEST", "TERMINAL"}, cost : Nat]
  /\ Runners \cap Operators = {}

VARIABLES
  state,          \* unit -> execution_units.state
  events,         \* the rows of the events table
  unitFiles,      \* unit -> realized cost in units/<unit>.json, or NoCost
  verdicts,       \* row of an intent -> reconciliation/<intent>.json
  at,             \* actor -> what it has done so far
  work,           \* actor -> the unit at hand
  held,           \* actor -> the evidence it is about to record
  calls           \* unit -> dispatches of it that reached the provider

tableVars == <<state, events>>
fileVars == <<unitFiles, verdicts>>
actorVars == <<at, work, held>>
runnerVars == <<tableVars, fileVars, actorVars, calls>>

Actors == Runners \cup Operators

-------------------------------------------------------------------------------
(* Rows and transitions. *)

InFlightState == "DISPATCH_INTENT_PERSISTED"
Missing == "TERMINAL_TECHNICAL_MISSING"
UnitStates == {"PENDING", InFlightState, "COMPLETED", Missing}

Resolutions == {"NO_REQUEST", "COMPLETED", "TERMINAL"}
EventKinds == {"INTENT", "PAUSED", "DEPENDENCY_TERMINAL"} \cup Resolutions

Row(u, kind, verdict, cost) ==
  [unit |-> u, kind |-> kind, verdict |-> verdict, cost |-> cost]

SourceOf(kind) ==
  IF kind \in {"INTENT", "PAUSED", "DEPENDENCY_TERMINAL"} THEN "PENDING"
  ELSE InFlightState

\* Faulty variant: a failed unit may be tried again.
TargetOf_Retries(kind) ==
  CASE kind = "INTENT" -> InFlightState
    [] kind \in {"PAUSED", "NO_REQUEST", "TERMINAL"} -> "PENDING"
    [] kind = "COMPLETED" -> "COMPLETED"
    [] OTHER -> Missing

TargetOf(kind) ==
  CASE kind = "INTENT" -> InFlightState
    [] kind \in {"PAUSED", "NO_REQUEST"} -> "PENDING"
    [] kind = "COMPLETED" -> "COMPLETED"
    [] OTHER -> Missing

\* _append_locked: a row whose transition is not in the table rolls back.
AppendRow(row) ==
  /\ state[row.unit] = SourceOf(row.kind)
  /\ events' = Append(events, row)
  /\ state' = [state EXCEPT ![row.unit] = TargetOf(row.kind)]

\* Faulty variant: the units that need a failed prefix are not ended with it.
Dependents_Forgotten(u) == {}

Dependents(u) == {v \in Units : PrefixOf[v] = u}

\* Where a dependent comes among those of u, in the order of the units.
Place(v) == CHOOSE i \in DOMAIN Order : Order[i] = v
Rank(u, v) == Cardinality({w \in Dependents(u) : Place(w) <= Place(v)})

DependentRows(u, verdict) ==
  [i \in 1..Cardinality(Dependents(u)) |->
     Row(CHOOSE v \in Dependents(u) : Rank(u, v) = i,
         "DEPENDENCY_TERMINAL", verdict, 0)]

\* _append_terminal_locked: the unit and its dependents end in one transaction,
\* or none of them does.
AppendTerminal(u, verdict, cost) ==
  /\ state[u] = InFlightState
  /\ \A v \in Dependents(u) : state[v] = "PENDING"
  /\ events' = events \o <<Row(u, "TERMINAL", verdict, cost)>>
                      \o DependentRows(u, verdict)
  /\ state' = [v \in Units |->
       IF v = u THEN TargetOf("TERMINAL")
       ELSE IF v \in Dependents(u) THEN Missing ELSE state[v]]

Record(u, evidence) ==
  IF evidence.kind = "TERMINAL"
  THEN AppendTerminal(u, evidence.verdict, evidence.cost)
  ELSE AppendRow(Row(u, evidence.kind, evidence.verdict, evidence.cost))

\* The intent that opened the transition recorded in row k.
IntentOf(i, k) ==
  /\ i < k /\ events[i].kind = "INTENT" /\ events[i].unit = events[k].unit
  /\ \A j \in (i + 1)..(k - 1) :
       ~ (events[j].kind = "INTENT" /\ events[j].unit = events[k].unit)

\* _validate_integrity: every row's evidence is in its file and, for a verdict,
\* is about the intent it resolves.  Every transaction begins with it.
Intact ==
  \A k \in DOMAIN events :
    LET e == events[k]
    IN /\ e.kind = "COMPLETED" => unitFiles[e.unit] = e.cost
       /\ e.kind \in {"NO_REQUEST", "TERMINAL"} =>
            \E i \in DOMAIN events :
              /\ IntentOf(i, k)
              /\ e.verdict = i
              /\ verdicts[i] = [kind |-> e.kind, cost |-> e.cost]

\* in_flight_context: the last event of a unit in flight.
Context(u, i) ==
  /\ state[u] = InFlightState
  /\ i \in DOMAIN events /\ events[i].unit = u
  /\ \A j \in DOMAIN events : events[j].unit = u => j <= i

FirstPending(u) ==
  /\ state[u] = "PENDING"
  /\ \E i \in DOMAIN Order :
       /\ Order[i] = u
       /\ \A j \in 1..(i - 1) : state[Order[j]] # "PENDING"

\* _require_claimable
Claimable(u) ==
  /\ \A v \in Units : state[v] # InFlightState
  /\ FirstPending(u)

Realized == SumFunction([k \in DOMAIN events |-> events[k].cost])

-------------------------------------------------------------------------------
(* Sessions. *)

Nothing == [kind |-> "NONE", verdict |-> 0, cost |-> 0]

Move(a, label) ==
  /\ at' = [at EXCEPT ![a] = label]
  /\ UNCHANGED <<work, held>>

\* The actor is done with its unit.
Quit(a) ==
  /\ at' = [at EXCEPT ![a] = "ended"]
  /\ work' = [work EXCEPT ![a] = NoUnit]
  /\ held' = [held EXCEPT ![a] = Nothing]

\* An error, the end of the loop, max_units, or the death of the process: what
\* is in the tables and files stays as it is.
Abandon(a) ==
  /\ at[a] # "ended"
  /\ Quit(a)
  /\ UNCHANGED <<tableVars, fileVars, calls>>

\* open, and run_pending up to its loop: refused while a unit is in flight.
BeginSession(p) ==
  /\ at[p] = "ended" /\ Intact
  /\ \A u \in Units : state[u] # InFlightState
  /\ Move(p, "looping")
  /\ UNCHANGED <<tableVars, fileVars, calls>>

\* next_pending, in a transaction of its own.
Pick(p, u) ==
  /\ at[p] = "looping" /\ Intact
  /\ FirstPending(u)
  /\ at' = [at EXCEPT ![p] = "picked"]
  /\ work' = [work EXCEPT ![p] = u]
  /\ UNCHANGED <<tableVars, fileVars, held, calls>>

\* Bound: an intent is written only if the rows that resolve it will fit.
RoomToRun == Len(events) + Cardinality(Units) + 1 <= MaxEvents

\* Faulty variant: only what has been spent is compared with the ceiling.
Affordable_IgnoresProjection(u) == Realized <= TrancheCeiling

Affordable(u) == Realized + Projected[u] <= TrancheCeiling

\* claim_dispatch beyond the ceiling: the pause is recorded, the session ends.
Pause(p) ==
  /\ at[p] = "picked" /\ Intact /\ RoomToRun
  /\ Claimable(work[p]) /\ ~Affordable(work[p])
  /\ AppendRow(Row(work[p], "PAUSED", 0, 0))
  /\ Quit(p)
  /\ UNCHANGED <<fileVars, calls>>

\* claim_dispatch within the ceiling.
Claim(p) ==
  /\ at[p] = "picked" /\ Intact /\ RoomToRun
  /\ Claimable(work[p]) /\ Affordable(work[p])
  /\ AppendRow(Row(work[p], "INTENT", 0, 0))
  /\ Move(p, "dispatching")
  /\ UNCHANGED <<fileVars, calls>>

\* The backend calls the provider.
CallProvider(p) ==
  /\ at[p] = "dispatching"
  /\ calls' = [calls EXCEPT ![work[p]] = @ + 1]
  /\ Move(p, "called")
  /\ UNCHANGED <<tableVars, fileVars>>

\* persist_unit_dispatch: os.link refuses a file that is there already.
PublishUnit(p, cost) ==
  /\ at[p] = "called"
  /\ unitFiles[work[p]] = NoCost
  /\ unitFiles' = [unitFiles EXCEPT ![work[p]] = cost]
  /\ at' = [at EXCEPT ![p] = "published"]
  /\ held' = [held EXCEPT ![p] = [kind |-> "COMPLETED", verdict |-> 0, cost |-> cost]]
  /\ UNCHANGED <<tableVars, verdicts, work, calls>>

\* persist_completed
PersistCompleted(p) ==
  /\ at[p] = "published" /\ Intact
  /\ unitFiles[work[p]] = held[p].cost
  /\ Record(work[p], held[p])
  /\ at' = [at EXCEPT ![p] = "looping"]
  /\ work' = [work EXCEPT ![p] = NoUnit]
  /\ held' = [held EXCEPT ![p] = Nothing]
  /\ UNCHANGED <<fileVars, calls>>

\* Faulty variant: a later verdict on an intent replaces the first one.
FileVerdict_Replaces(a, u, kind, cost) ==
  \E i \in DOMAIN verdicts :
    /\ Context(u, i)
    /\ verdicts' = [verdicts EXCEPT ![i] = [kind |-> kind, cost |-> cost]]
    /\ held' = [held EXCEPT ![a] = [kind |-> kind, verdict |-> i, cost |-> cost]]

\* persist_reconciliation_evidence: the first verdict on an intent is the only
\* one, for ever.
FileVerdict(a, u, kind, cost) ==
  \E i \in DOMAIN verdicts :
    /\ Context(u, i)
    /\ verdicts[i] = NoVerdict
    /\ verdicts' = [verdicts EXCEPT ![i] = [kind |-> kind, cost |-> cost]]
    /\ held' = [held EXCEPT ![a] = [kind |-> kind, verdict |-> i, cost |-> cost]]

\* The dispatch fails for good: it files its verdict and raises
\* DispatchTechnicalFailure.
FailDispatch(p, cost) ==
  /\ at[p] \in {"dispatching", "called"} /\ Intact
  /\ at[p] = "dispatching" => cost = 0
  /\ FileVerdict(p, work[p], "TERMINAL", cost)
  /\ at' = [at EXCEPT ![p] = "failed"]
  /\ UNCHANGED <<tableVars, unitFiles, work, calls>>

\* persist_terminal_missing and reconcile read the context in one transaction:
\* it is the one of the evidence, and the evidence is in its file ...
CheckVerdict(a) ==
  /\ at[a] \in {"failed", "prepared"} /\ Intact
  /\ \E i \in DOMAIN events :
       /\ Context(work[a], i)
       /\ IF held[a].kind = "COMPLETED"
          THEN unitFiles[work[a]] = held[a].cost
          ELSE verdicts[i] = [kind |-> held[a].kind, cost |-> held[a].cost]
       /\ held[a].verdict = i
  /\ Move(a, "checked")
  /\ UNCHANGED <<tableVars, fileVars, calls>>

\* ... and append in a second one.
RecordVerdict(a) ==
  /\ at[a] = "checked" /\ Intact
  /\ Record(work[a], held[a])
  /\ Quit(a)
  /\ UNCHANGED <<fileVars, calls>>

-------------------------------------------------------------------------------
(* Operators. *)

\* NO_PROVIDER_REQUEST means what it says: the session that claimed the unit is
\* gone and the provider has not been called.
NeverLeft(u) ==
  /\ calls[u] = 0
  /\ \A p \in Runners : work[p] = u => at[p] = "picked"

\* Evidence an operator finds: the unit's file, or a verdict that a session or
\* another operator has filed.
FindEvidence(o, u) ==
  \E i \in DOMAIN verdicts :
    /\ Context(u, i)
    /\ \/ /\ unitFiles[u] # NoCost
          /\ held' = [held EXCEPT ![o] =
               [kind |-> "COMPLETED", verdict |-> i, cost |-> unitFiles[u]]]
       \/ /\ verdicts[i] # NoVerdict
          /\ held' = [held EXCEPT ![o] =
               [kind |-> verdicts[i].kind, verdict |-> i, cost |-> verdicts[i].cost]]

\* An operator decides on a unit in flight, also while its session still runs.
Prepare(o, u) ==
  /\ at[o] = "ended" /\ Intact
  /\ \/ \E cost \in Costs \cup {0} : FileVerdict(o, u, "TERMINAL", cost)
     \/ NeverLeft(u) /\ FileVerdict(o, u, "NO_REQUEST", 0)
     \/ FindEvidence(o, u) /\ UNCHANGED verdicts
  /\ at' = [at EXCEPT ![o] = "prepared"]
  /\ work' = [work EXCEPT ![o] = u]
  /\ UNCHANGED <<tableVars, unitFiles, calls>>

-------------------------------------------------------------------------------

RunnerInit ==
  /\ state = [u \in Units |-> "PENDING"]
  /\ events = <<>>
  /\ unitFiles = [u \in Units |-> NoCost]
  /\ verdicts = [i \in 1..MaxEvents |-> NoVerdict]
  /\ at = [a \in Actors |-> "ended"]
  /\ work = [a \in Actors |-> NoUnit]
  /\ held = [a \in Actors |-> Nothing]
  /\ calls = [u \in Units |-> 0]

RunnerNext ==
  \/ \E p \in Runners :
       \/ BeginSession(p) \/ \E u \in Units : Pick(p, u)
       \/ Pause(p) \/ Claim(p) \/ CallProvider(p)
       \/ \E cost \in Costs : PublishUnit(p, cost)
       \/ \E cost \in Costs \cup {0} : FailDispatch(p, cost)
       \/ PersistCompleted(p)
  \/ \E o \in Operators, u \in Units : Prepare(o, u)
  \/ \E a \in Actors : CheckVerdict(a) \/ RecordVerdict(a) \/ Abandon(a)

RunnerSpec == RunnerInit /\ [][RunnerNext]_runnerVars

-------------------------------------------------------------------------------
(* Properties. *)

Labels ==
  {"ended", "looping", "picked", "dispatching", "called", "published", "failed",
   "prepared", "checked"}

\* However sessions and operators overlap, one unit is in flight at most, and a
\* memory-bearing one is in flight only after its clean prefix is completed.
PrefixFirst ==
  \A u \in Units :
    state[u] = InFlightState =>
      /\ \A v \in Units : state[v] = InFlightState => u = v
      /\ PrefixOf[u] # NoUnit => state[PrefixOf[u]] = "COMPLETED"

\* A unit is dispatched to the provider once, over crashed sessions, retries
\* after NO_REQUEST and operators that end a unit whose session still runs; and
\* a unit that may be dispatched has no evidence file that would refuse its own.
DispatchedOnce ==
  \A u \in Units :
    /\ calls[u] <= 1
    /\ state[u] = "PENDING" => unitFiles[u] = NoCost

\* What rows have been written stays readable: evidence is where the row says,
\* and a verdict is about the intent it resolves, although it was checked in
\* an earlier transaction.
LedgerIntact == Intact

\* By how much the outcome of a unit can exceed its projection.
Overshoot ==
  Max({0} \cup {cost - Projected[u] : cost \in Costs, u \in Units})

\* The money recorded exceeds the ceiling by one unit's overshoot at most.
RunnerCeilingHolds == Realized <= TrancheCeiling + Overshoot

===============================================================================
