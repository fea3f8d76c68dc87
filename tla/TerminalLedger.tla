---------------------------- MODULE TerminalLedger ----------------------------
(***************************************************************************)
(* The append-only evidence ledger of the Phase-13 V3 main run             *)
(* (phase13_v3_terminal_models.py, phase13_v3_terminal_ledger.py).         *)
(*                                                                         *)
(* One sqlite table of events; the state of a request is the replay of its *)
(* events.  A writer reads a state in one transaction, builds an event on  *)
(* it, and appends that event in a second one, so an event may be built on *)
(* a revision that is no longer current: `basis' is the revision read.     *)
(* The hash chain is modelled by that revision: previous_hash is the digest*)
(* of the event with revision `basis', and a request has one such event.   *)
(***************************************************************************)
EXTENDS Integers, Sequences, FiniteSets

CONSTANTS
  Requests,      \* the unit_ids of LedgerBindingV3: one per provider request
  Compiled,      \* compiled-request evidence a request can be compiled to
  Costs,         \* whole-KRW costs that reconcile_actual can realise
  MaxRevision,   \* bound: no event is built on a revision this high
  NoCompiled,    \* compiled is None
  NoCost,        \* attempted_cost is None
  UnknownCost    \* evidence for which reconcile_actual says COST_UNKNOWN

ASSUME LedgerAssumption ==
  /\ Costs \subseteq Nat
  /\ MaxRevision \in Nat
  /\ NoCompiled \notin Compiled
  /\ NoCost \notin Costs
  /\ UnknownCost \notin Costs
  /\ NoCost # UnknownCost

VARIABLES
  ledger,        \* request -> EvidenceState, the projection of the table
  log            \* the rows of the events table, in sequence order

ledgerVars == <<ledger, log>>

-------------------------------------------------------------------------------

Unresolved ==
  {"DISPATCH_INTENT_PERSISTED", "REQUEST_COMPILED", "ATTEMPT_STARTED",
   "INPUT_ENVELOPE_OVERFLOW"}

Attempted == {"COMPLETED", "ATTEMPTED_PROVIDER_FAILURE", "AMBIGUOUS_ATTEMPT"}

StateKinds ==
  {"PENDING", "TERMINAL_TECHNICAL_MISSING"} \cup Unresolved \cup Attempted

\* The event kinds of the discriminated union EventV3.
EventKinds ==
  {"DISPATCH_INTENT", "REQUEST_COMPILED", "ATTEMPT_STARTED",
   "INPUT_ENVELOPE_OVERFLOW", "TERMINAL_TECHNICAL_MISSING", "NO_REQUEST",
   "COST_RECONCILED"} \cup Attempted

MaybeCompiled == Compiled \cup {NoCompiled}
MaybeCost == Costs \cup {NoCost, UnknownCost}

EvidenceStates ==
  [kind: StateKinds, revision: Nat, compiled: MaybeCompiled, cost: MaybeCost]

Events ==
  [unit: Requests, kind: EventKinds, basis: Nat,
   compiled: MaybeCompiled, cost: MaybeCost]

\* What parse_event accepts: attempted events carry a cost, the others none;
\* only an intent or a NO_REQUEST may lack the compiled request, and
\* COST_RECONCILED must carry a known cost.
WellFormed(e) ==
  /\ e.compiled = NoCompiled => e.kind \in {"DISPATCH_INTENT", "NO_REQUEST"}
  /\ e.kind \in Attempted => e.cost \in Costs \cup {UnknownCost}
  /\ e.kind = "COST_RECONCILED" => e.cost \in Costs
  /\ e.kind \notin Attempted \cup {"COST_RECONCILED"} => e.cost = NoCost

\* `allowed' of advance: the states an event may be applied to.
AllowedFrom(kind) ==
  CASE kind = "DISPATCH_INTENT" -> {"PENDING"}
    [] kind = "REQUEST_COMPILED" -> {"DISPATCH_INTENT_PERSISTED"}
    [] kind \in {"ATTEMPT_STARTED", "INPUT_ENVELOPE_OVERFLOW"} ->
         {"REQUEST_COMPILED"}
    [] kind = "TERMINAL_TECHNICAL_MISSING" -> {"INPUT_ENVELOPE_OVERFLOW"}
    [] kind = "NO_REQUEST" -> {"DISPATCH_INTENT_PERSISTED", "REQUEST_COMPILED"}
    [] kind \in Attempted -> {"ATTEMPT_STARTED"}
    [] kind = "COST_RECONCILED" -> Attempted

\* `target' of advance.
TargetOf(kind, from) ==
  CASE kind = "DISPATCH_INTENT" -> "DISPATCH_INTENT_PERSISTED"
    [] kind = "NO_REQUEST" -> "PENDING"
    [] kind = "COST_RECONCILED" -> from
    [] OTHER -> kind

\* The error paths of advance, as the condition under which it returns.
Advances(s, e) ==
  /\ e.basis = s.revision
  /\ s.kind \in AllowedFrom(e.kind)
  /\ e.kind = "COST_RECONCILED" => s.cost = UnknownCost
  /\ IF e.kind = "REQUEST_COMPILED"
     THEN s.compiled \in {NoCompiled, e.compiled}
     ELSE e.compiled = s.compiled

\* The state advance returns.
Advanced(s, e) ==
  [kind |-> TargetOf(e.kind, s.kind), revision |-> e.basis + 1,
   compiled |-> e.compiled, cost |-> e.cost]

InFlight == {r \in Requests : ledger[r].kind \in Unresolved}
UnknownCosts == {r \in Requests : ledger[r].cost = UnknownCost}

\* Faulty variant: an intent waits for the requests in flight only.
DispatchGate_IgnoresBills(e) == e.kind = "DISPATCH_INTENT" => InFlight = {}

\* Faulty variant: an intent waits for the bills only.
DispatchGate_IgnoresInFlight(e) ==
  e.kind = "DISPATCH_INTENT" => UnknownCosts = {}

\* _dispatch_gate: an intent waits for every other request and every bill.
DispatchGate(e) ==
  e.kind = "DISPATCH_INTENT" => UnknownCosts = {} /\ InFlight = {}

\* append raises, or returns without writing when the same bytes are there.
Acceptable(e) ==
  /\ WellFormed(e)
  /\ Advances(ledger[e.unit], e)
  /\ DispatchGate(e)
  /\ \A i \in DOMAIN log : log[i] # e

AppendEvent(e) ==
  /\ Acceptable(e)
  /\ log' = Append(log, e)
  /\ ledger' = [ledger EXCEPT ![e.unit] = Advanced(@, e)]

-------------------------------------------------------------------------------

Event(r, kind, basis, compiled, cost) ==
  [unit |-> r, kind |-> kind, basis |-> basis,
   compiled |-> compiled, cost |-> cost]

\* An event built on the current state, as ledger.state followed by append.
OnCurrent(r, kind, cost) ==
  Event(r, kind, ledger[r].revision, ledger[r].compiled, cost)

GenesisState ==
  [kind |-> "PENDING", revision |-> 0, compiled |-> NoCompiled, cost |-> NoCost]

LedgerInit ==
  /\ ledger = [r \in Requests |-> GenesisState]
  /\ log = <<>>

\* append(supplied): a dispatcher or a recovery writes an event it built on a
\* state it read earlier, possibly one that has been superseded since.
Submit(r) ==
  \E kind \in EventKinds, basis \in 0..ledger[r].revision,
     compiled \in MaybeCompiled, cost \in MaybeCost :
    /\ basis < MaxRevision
    /\ kind # "COST_RECONCILED"
    /\ AppendEvent(Event(r, kind, basis, compiled, cost))

\* recover(unit_id): the durable marker, and not the caller, decides what an
\* interrupted request becomes.
Recover(r) ==
  /\ ledger[r].revision < MaxRevision
  /\ \/ /\ ledger[r].kind \in {"DISPATCH_INTENT_PERSISTED", "REQUEST_COMPILED"}
        /\ AppendEvent(OnCurrent(r, "NO_REQUEST", NoCost))
     \/ /\ ledger[r].kind = "ATTEMPT_STARTED"
        /\ AppendEvent(OnCurrent(r, "AMBIGUOUS_ATTEMPT", UnknownCost))
     \/ /\ ledger[r].kind = "INPUT_ENVELOPE_OVERFLOW"
        /\ AppendEvent(OnCurrent(r, "TERMINAL_TECHNICAL_MISSING", NoCost))

\* reconcile_cost(unit_id, supplied): the evidence must reconcile, so the cost
\* is known.
ReconcileCost(r) ==
  \E cost \in Costs :
    /\ ledger[r].revision < MaxRevision
    /\ AppendEvent(OnCurrent(r, "COST_RECONCILED", cost))

LedgerNext ==
  \E r \in Requests : Submit(r) \/ Recover(r) \/ ReconcileCost(r)

LedgerSpec == LedgerInit /\ [][LedgerNext]_ledgerVars

-------------------------------------------------------------------------------
(* Properties. *)

\* Every request has a state of the declared shape, and the log holds events.
LedgerTypeOK ==
  /\ ledger \in [Requests -> EvidenceStates]
  /\ log \in Seq(Events)

\* A request is exposed while its outcome or its bill is open.
Exposed == InFlight \cup UnknownCosts

\* The run is never exposed to more than one request: whatever writers do with
\* stale reads, two requests are never in flight together, nothing is in flight
\* while a bill is unknown, and at most one bill is ever unknown
\* (_dispatch_gate sees only intents, every other event passes it ungated).
AtMostOneExposed == \A r, s \in Exposed : r = s

\* A request reaches the provider once: its history holds one ATTEMPT_STARTED
\* at most, although NO_REQUEST may send it back to PENDING any number of times.
AttemptedOnce ==
  \A i, j \in DOMAIN log :
    /\ log[i].kind = "ATTEMPT_STARTED"
    /\ log[j].kind = "ATTEMPT_STARTED"
    /\ log[i].unit = log[j].unit
    => i = j

\* Whatever is retried is the same request: every event of a request that names
\* a compiled request names the first one, also after a NO_REQUEST.
CompiledFrozen ==
  \A i, j \in DOMAIN log :
    /\ log[i].unit = log[j].unit
    /\ log[i].compiled # NoCompiled
    /\ log[j].compiled # NoCompiled
    => log[i].compiled = log[j].compiled

\* A settled bill is never reopened or changed, whichever event follows
\* (advance resets the cost with every event that does not carry one).
SettledBillIsFinal ==
  [][\A r \in Requests :
       ledger[r].cost \in Costs => ledger'[r] = ledger[r]]_ledgerVars

\* What a request in state s is to the provider, and what it has cost.
PhaseOf(s) ==
  CASE s.kind = "ATTEMPT_STARTED" -> "issued"
    [] s.kind = "TERMINAL_TECHNICAL_MISSING" -> "void"
    [] s.kind \in Attempted ->
         IF s.cost = UnknownCost THEN "unbilled" ELSE "billed"
    [] OTHER -> "open"

BillOf(s) == IF s.cost \in Costs THEN s.cost ELSE NoCost

PhaseBar == [r \in Requests |-> PhaseOf(ledger[r])]
BillBar == [r \in Requests |-> BillOf(ledger[r])]

Exposure == INSTANCE ProviderExposure
  WITH phase <- PhaseBar, bill <- BillBar, NoBill <- NoCost

\* The ledger implements the promise: markers, retries, recovery and stale
\* writers are invisible in what is issued to the provider and billed by it.
ImplementsExposure == Exposure!ExposureSpec

===============================================================================
