------------------------- MODULE RequestDispatchProofs -------------------------
(***************************************************************************)
(* Theorems about the evidence ledger and the dispatcher that uses it, for *)
(* any number of requests, objects, dispatchers and crashes.               *)
(*                                                                         *)
(* TerminalLedger: every step appends one event, so each invariant is      *)
(* carried over AppendEvent once.  LedgerSnapshot: whatever statements of  *)
(* other connections fall between two of its own, an object's states are   *)
(* the replay of a beginning of the table, and a read misses nothing       *)
(* committed before it.  RequestDispatch: it implements the ledger, a      *)
(* request goes out once, what the ledger refers to is on disk, an oversize*)
(* compilation is final and a bill is what was answered.                   *)
(***************************************************************************)
EXTENDS RequestDispatch, LedgerSnapshot, SequenceTheorems, TLAPS

-------------------------------------------------------------------------------
(* The evidence ledger.                                                     *)

\* A bill belongs to an attempted request, and every attempted request has one,
\* open or known.
BillsOfAttempts ==
  \A r \in Requests :
    IF ledger[r].kind \in Attempted
    THEN ledger[r].cost \in Costs \cup {UnknownCost}
    ELSE ledger[r].cost = NoCost

\* A request whose log has an attempt has left the states that can start one.
AttemptLeavesMark ==
  \A i \in DOMAIN log :
    log[i].kind = "ATTEMPT_STARTED" =>
      ledger[log[i].unit].kind \in Attempted \cup {"ATTEMPT_STARTED"}

\* The state remembers whatever compilation an event has named.
CompiledRemembered ==
  \A i \in DOMAIN log :
    log[i].compiled # NoCompiled =>
      ledger[log[i].unit].compiled = log[i].compiled

\* The inductive invariant.
LedgerIInv ==
  /\ LedgerTypeOK
  /\ BillsOfAttempts
  /\ AtMostOneExposed
  /\ AttemptLeavesMark
  /\ AttemptedOnce
  /\ CompiledRemembered

-------------------------------------------------------------------------------

\* Every step of the ledger is the append of one well-shaped event.
LEMMA StepAppends ==
  ASSUME LedgerTypeOK, LedgerNext
  PROVE  \E e \in Events : AppendEvent(e)
<1>1. PICK r \in Requests : Submit(r) \/ Recover(r) \/ ReconcileCost(r)
  BY DEF LedgerNext
<1>2. /\ ledger[r].revision \in Nat
      /\ ledger[r].compiled \in MaybeCompiled
  BY DEF LedgerTypeOK, EvidenceStates
<1>3. CASE Submit(r)
  <2>1. PICK kind \in EventKinds, basis \in 0..ledger[r].revision,
             compiled \in MaybeCompiled, cost \in MaybeCost :
          AppendEvent(Event(r, kind, basis, compiled, cost))
    BY <1>3 DEF Submit
  <2>2. Event(r, kind, basis, compiled, cost) \in Events
    BY <1>2, <2>1 DEF Event, Events
  <2> QED BY <2>1, <2>2
<1>4. ASSUME NEW kind \in EventKinds, NEW cost \in MaybeCost
      PROVE  OnCurrent(r, kind, cost) \in Events
  BY <1>2 DEF OnCurrent, Event, Events
<1>5. CASE Recover(r)
  <2>1. /\ OnCurrent(r, "NO_REQUEST", NoCost) \in Events
        /\ OnCurrent(r, "AMBIGUOUS_ATTEMPT", UnknownCost) \in Events
        /\ OnCurrent(r, "TERMINAL_TECHNICAL_MISSING", NoCost) \in Events
    BY <1>4 DEF EventKinds, Attempted, MaybeCost
  <2> QED BY <1>5, <2>1 DEF Recover
<1>6. CASE ReconcileCost(r)
  <2>1. PICK cost \in Costs : AppendEvent(OnCurrent(r, "COST_RECONCILED", cost))
    BY <1>6 DEF ReconcileCost
  <2>2. OnCurrent(r, "COST_RECONCILED", cost) \in Events
    BY <1>4 DEF EventKinds, MaybeCost
  <2> QED BY <2>1, <2>2
<1> QED BY <1>1, <1>3, <1>5, <1>6

\* What an append does to the two variables, without EXCEPT and Append.
LEMMA AppendEffect ==
  ASSUME LedgerTypeOK, NEW e \in Events, AppendEvent(e)
  PROVE  /\ e.unit \in Requests
         /\ ledger' \in [Requests -> EvidenceStates]
         /\ ledger'[e.unit] = Advanced(ledger[e.unit], e)
         /\ \A r \in Requests : r # e.unit => ledger'[r] = ledger[r]
         /\ log' \in Seq(Events)
         /\ DOMAIN log = 1..Len(log) /\ Len(log) \in Nat
         /\ DOMAIN log' = 1..(Len(log) + 1)
         /\ log'[Len(log) + 1] = e
         /\ \A i \in DOMAIN log : log'[i] = log[i]
         /\ \A i \in DOMAIN log : log[i] \in Events
<1>1. e.unit \in Requests /\ e.kind \in EventKinds /\ e.basis \in Nat
      /\ e.compiled \in MaybeCompiled /\ e.cost \in MaybeCost
  BY DEF Events
<1>2. ledger[e.unit].kind \in StateKinds
  BY <1>1 DEF LedgerTypeOK, EvidenceStates
<1>3. TargetOf(e.kind, ledger[e.unit].kind) \in StateKinds
  BY <1>1, <1>2 DEF TargetOf, EventKinds, StateKinds, Unresolved, Attempted
<1>4. Advanced(ledger[e.unit], e) \in EvidenceStates
  BY <1>1, <1>3 DEF Advanced, EvidenceStates
<1>5. ledger' = [ledger EXCEPT ![e.unit] = Advanced(ledger[e.unit], e)]
  BY DEF AppendEvent
<1>6. /\ ledger' \in [Requests -> EvidenceStates]
      /\ ledger'[e.unit] = Advanced(ledger[e.unit], e)
      /\ \A r \in Requests : r # e.unit => ledger'[r] = ledger[r]
  BY <1>1, <1>4, <1>5 DEF LedgerTypeOK
<1>7. log \in Seq(Events) /\ log' = Append(log, e)
  BY DEF LedgerTypeOK, AppendEvent
<1> QED BY <1>1, <1>6, <1>7

LEMMA TypePreserved ==
  ASSUME LedgerTypeOK, NEW e \in Events, AppendEvent(e)
  PROVE  LedgerTypeOK'
BY AppendEffect DEF LedgerTypeOK

LEMMA BillsPreserved ==
  ASSUME LedgerTypeOK, BillsOfAttempts, NEW e \in Events, AppendEvent(e)
  PROVE  BillsOfAttempts'
<1> DEFINE s == ledger[e.unit]
           t == ledger'[e.unit]
<1>0. t = Advanced(s, e)
  BY AppendEffect
<1>1. /\ t.kind = TargetOf(e.kind, s.kind)
      /\ t.cost = e.cost
  BY <1>0 DEF Advanced
<1>2. /\ e.kind \in EventKinds
      /\ WellFormed(e)
      /\ s.kind \in AllowedFrom(e.kind)
  BY DEF AppendEvent, Acceptable, Advances, Events
<1>3. IF t.kind \in Attempted THEN t.cost \in Costs \cup {UnknownCost}
      ELSE t.cost = NoCost
  BY <1>1, <1>2
  DEF TargetOf, AllowedFrom, WellFormed, EventKinds, Attempted, Unresolved
<1> QED BY <1>3, AppendEffect DEF BillsOfAttempts

\* The argument for AtMostOneExposed: an intent is only appended when nothing
\* is exposed, and every other event is applied to a request exposed already.
LEMMA ExposurePreserved ==
  ASSUME LedgerTypeOK, BillsOfAttempts, AtMostOneExposed,
         NEW e \in Events, AppendEvent(e)
  PROVE  AtMostOneExposed'
<1> DEFINE s == ledger[e.unit]
<1>1. /\ e.unit \in Requests
      /\ e.kind \in EventKinds
      /\ s.kind \in AllowedFrom(e.kind)
      /\ e.kind = "COST_RECONCILED" => s.cost = UnknownCost
      /\ e.kind = "DISPATCH_INTENT" => Exposed = {}
  BY DEF AppendEvent, Acceptable, Advances, DispatchGate, Events, Exposed
<1>2. \A r \in Exposed' : r = e.unit \/ r \in Exposed
  BY AppendEffect DEF Exposed, InFlight, UnknownCosts
<1>3. e.kind # "DISPATCH_INTENT" => e.unit \in Exposed
  BY <1>1 DEF AllowedFrom, EventKinds, Attempted, Unresolved, Exposed,
              InFlight, UnknownCosts
<1>4. CASE e.kind = "DISPATCH_INTENT"
  BY <1>1, <1>2, <1>4 DEF AtMostOneExposed
<1>5. CASE e.kind # "DISPATCH_INTENT"
  BY <1>2, <1>3, <1>5 DEF AtMostOneExposed
<1> QED BY <1>4, <1>5

LEMMA AttemptsPreserved ==
  ASSUME LedgerTypeOK, AttemptLeavesMark, AttemptedOnce,
         NEW e \in Events, AppendEvent(e)
  PROVE  AttemptLeavesMark' /\ AttemptedOnce'
<1> DEFINE s == ledger[e.unit]
           t == ledger'[e.unit]
           Marked == Attempted \cup {"ATTEMPT_STARTED"}
           n == Len(log) + 1
<1>1. /\ e.kind \in EventKinds
      /\ s.kind \in AllowedFrom(e.kind)
      /\ t.kind = TargetOf(e.kind, s.kind)
  BY AppendEffect DEF AppendEvent, Acceptable, Advances, Events, Advanced
<1>2. s.kind \in Marked => t.kind \in Marked /\ e.kind # "ATTEMPT_STARTED"
  BY <1>1 DEF TargetOf, AllowedFrom, EventKinds, Attempted, Unresolved
<1>3. e.kind = "ATTEMPT_STARTED" => t.kind = "ATTEMPT_STARTED"
  BY <1>1 DEF TargetOf, Attempted
<1>4. \A i \in DOMAIN log : log[i].unit \in Requests
  BY AppendEffect DEF Events
<1>5. AttemptLeavesMark'
  BY <1>2, <1>3, <1>4, AppendEffect DEF AttemptLeavesMark
<1>6. \A i \in DOMAIN log :
        ~(log[i].kind = "ATTEMPT_STARTED" /\ e.kind = "ATTEMPT_STARTED"
          /\ log[i].unit = e.unit)
  BY <1>2 DEF AttemptLeavesMark
<1>7. AttemptedOnce'
  BY <1>6, AppendEffect DEF AttemptedOnce
<1> QED BY <1>5, <1>7

LEMMA CompiledPreserved ==
  ASSUME LedgerTypeOK, CompiledRemembered, NEW e \in Events, AppendEvent(e)
  PROVE  CompiledRemembered'
<1> DEFINE s == ledger[e.unit]
<1>1. /\ s.compiled # NoCompiled => e.compiled = s.compiled
      /\ ledger'[e.unit].compiled = e.compiled
  BY AppendEffect DEF AppendEvent, Acceptable, Advances, Advanced
<1>2. \A i \in DOMAIN log : log[i].unit \in Requests
  BY AppendEffect DEF Events
<1> QED BY <1>1, <1>2, AppendEffect DEF CompiledRemembered

-------------------------------------------------------------------------------

LEMMA InvInit == LedgerInit => LedgerIInv
<1> SUFFICES ASSUME LedgerInit PROVE LedgerIInv
  OBVIOUS
<1>1. GenesisState \in EvidenceStates
  BY DEF GenesisState, EvidenceStates, StateKinds, MaybeCompiled, MaybeCost
<1>2. LedgerTypeOK
  BY <1>1 DEF LedgerInit, LedgerTypeOK
<1>3. \A r \in Requests : ledger[r].kind = "PENDING" /\ ledger[r].cost = NoCost
  BY DEF LedgerInit, GenesisState
<1>4. BillsOfAttempts
  BY <1>3 DEF BillsOfAttempts, Attempted
<1>5. AtMostOneExposed
  BY <1>3, LedgerAssumption
  DEF AtMostOneExposed, Exposed, InFlight, UnknownCosts, Unresolved
<1>6. DOMAIN log = {}
  BY DEF LedgerInit
<1> QED
  BY <1>2, <1>4, <1>5, <1>6
  DEF LedgerIInv, AttemptLeavesMark, AttemptedOnce, CompiledRemembered

LEMMA InvStep == LedgerIInv /\ [LedgerNext]_ledgerVars => LedgerIInv'
<1> SUFFICES ASSUME LedgerIInv, [LedgerNext]_ledgerVars PROVE LedgerIInv'
  OBVIOUS
<1>1. CASE LedgerNext
  <2>1. PICK e \in Events : AppendEvent(e)
    BY <1>1, StepAppends DEF LedgerIInv
  <2> QED
    BY <2>1, TypePreserved, BillsPreserved, ExposurePreserved,
       AttemptsPreserved, CompiledPreserved
    DEF LedgerIInv
<1>2. CASE UNCHANGED ledgerVars
  BY <1>2
  DEF ledgerVars, LedgerIInv, LedgerTypeOK, BillsOfAttempts, AtMostOneExposed,
      Exposed, InFlight, UnknownCosts, AttemptLeavesMark, AttemptedOnce,
      CompiledRemembered
<1> QED BY <1>1, <1>2

THEOREM LedgerInvariant == LedgerSpec => []LedgerIInv
BY InvInit, InvStep, PTL DEF LedgerSpec

\* States and rows keep their declared shape under every append.
THEOREM LedgerTypeCorrect == LedgerSpec => []LedgerTypeOK
<1>1. LedgerIInv => LedgerTypeOK
  BY DEF LedgerIInv
<1> QED BY <1>1, LedgerInvariant, PTL

\* For any number of requests and writers, one request at most is exposed.
THEOREM LedgerExposure == LedgerSpec => []AtMostOneExposed
<1>1. LedgerIInv => AtMostOneExposed
  BY DEF LedgerIInv
<1> QED BY <1>1, LedgerInvariant, PTL

\* No history of a request holds two attempts.
THEOREM LedgerAttemptedOnce == LedgerSpec => []AttemptedOnce
<1>1. LedgerIInv => AttemptedOnce
  BY DEF LedgerIInv
<1> QED BY <1>1, LedgerInvariant, PTL

\* No history of a request names two compilations.
THEOREM LedgerCompiledFrozen == LedgerSpec => []CompiledFrozen
<1>1. LedgerIInv => CompiledFrozen
  BY DEF LedgerIInv, CompiledRemembered, CompiledFrozen
<1> QED BY <1>1, LedgerInvariant, PTL

-------------------------------------------------------------------------------

\* A known bill is final: the only event an attempted request can take is a
\* reconciliation, and that one needs the bill to be open.
THEOREM LedgerSettledBillIsFinal == LedgerSpec => SettledBillIsFinal
<1>1. ASSUME LedgerIInv, LedgerNext
      PROVE  \A r \in Requests : ledger[r].cost \in Costs => ledger'[r] = ledger[r]
  <2>1. PICK e \in Events : AppendEvent(e)
    BY <1>1, StepAppends DEF LedgerIInv
  <2>2. /\ e.unit \in Requests
        /\ e.kind \in EventKinds
        /\ ledger[e.unit].kind \in AllowedFrom(e.kind)
        /\ e.kind = "COST_RECONCILED" => ledger[e.unit].cost = UnknownCost
    BY <2>1 DEF AppendEvent, Acceptable, Advances, Events
  <2>3. ledger[e.unit].cost \notin Costs
    BY <1>1, <2>2, LedgerAssumption
    DEF LedgerIInv, BillsOfAttempts, AllowedFrom, EventKinds, Attempted, Unresolved
  <2> QED BY <1>1, <2>1, <2>3, AppendEffect DEF LedgerIInv
<1>2. LedgerIInv /\ [LedgerNext]_ledgerVars
        => [\A r \in Requests :
              ledger[r].cost \in Costs => ledger'[r] = ledger[r]]_ledgerVars
  BY <1>1
<1> QED BY <1>2, LedgerInvariant, PTL DEF LedgerSpec, SettledBillIsFinal

-------------------------------------------------------------------------------
(* Refinement of ProviderExposure. *)

\* An append changes phase and bill of its own request only.
LEMMA AppendProjected ==
  ASSUME LedgerTypeOK, NEW e \in Events, AppendEvent(e)
  PROVE  /\ PhaseBar' = [PhaseBar EXCEPT ![e.unit] = PhaseOf(Advanced(ledger[e.unit], e))]
         /\ BillBar' = [BillBar EXCEPT ![e.unit] = BillOf(Advanced(ledger[e.unit], e))]
<1> DEFINE u == e.unit
           t == Advanced(ledger[u], e)
<1> HIDE DEF t
<1>1. /\ u \in Requests
      /\ ledger'[u] = t
      /\ \A r \in Requests : r # u => ledger'[r] = ledger[r]
  BY AppendEffect DEF t
<1>2. /\ PhaseBar' = [r \in Requests |-> PhaseOf(ledger'[r])]
      /\ BillBar' = [r \in Requests |-> BillOf(ledger'[r])]
  BY DEF PhaseBar, BillBar, PhaseOf, BillOf
<1>3. PhaseBar' = [PhaseBar EXCEPT ![u] = PhaseOf(t)]
  BY <1>1, <1>2 DEF PhaseBar
<1>4. BillBar' = [BillBar EXCEPT ![u] = BillOf(t)]
  BY <1>1, <1>2 DEF BillBar
<1> QED BY <1>3, <1>4 DEF t

\* Only exposed requests owe the provider anything.
LEMMA OwingIsExposed ==
  ASSUME LedgerTypeOK
  PROVE  Exposure!Owing \subseteq Exposed
BY DEF Exposure!Owing, PhaseBar, PhaseOf, Exposed, InFlight, UnknownCosts,
       Unresolved, Attempted

\* Every append is a step of the abstract specification or a stutter: intents,
\* compilations, overflow markers and retries change nothing the provider sees.
LEMMA AppendRefines ==
  ASSUME LedgerIInv, NEW e \in Events, AppendEvent(e)
  PROVE  Exposure!ExposureNext \/ UNCHANGED <<PhaseBar, BillBar>>
<1> DEFINE u == e.unit
           s == ledger[u]
           t == Advanced(s, e)
<1>1. /\ u \in Requests
      /\ e.kind \in EventKinds
      /\ WellFormed(e)
      /\ s.kind \in AllowedFrom(e.kind)
      /\ e.kind = "COST_RECONCILED" => s.cost = UnknownCost
      /\ s.kind \in StateKinds
  BY DEF AppendEvent, Acceptable, Advances, Events, LedgerIInv, LedgerTypeOK,
         EvidenceStates
<1>2. IF s.kind \in Attempted THEN s.cost \in Costs \cup {UnknownCost}
      ELSE s.cost = NoCost
  BY <1>1 DEF LedgerIInv, BillsOfAttempts
<1>3. /\ PhaseBar' = [PhaseBar EXCEPT ![u] = PhaseOf(t)]
      /\ BillBar' = [BillBar EXCEPT ![u] = BillOf(t)]
      /\ PhaseBar[u] = PhaseOf(s)
      /\ BillBar[u] = BillOf(s)
  BY <1>1, AppendProjected DEF LedgerIInv, PhaseBar, BillBar
<1>4. /\ t.kind = TargetOf(e.kind, s.kind)
      /\ t.cost = e.cost
  BY DEF Advanced
<1>5. CASE e.kind \in {"DISPATCH_INTENT", "REQUEST_COMPILED", "NO_REQUEST",
                       "INPUT_ENVELOPE_OVERFLOW"}
  <2>1. PhaseOf(t) = PhaseOf(s) /\ BillOf(t) = BillOf(s)
    BY <1>1, <1>2, <1>4, <1>5, LedgerAssumption
    DEF PhaseOf, BillOf, TargetOf, AllowedFrom, WellFormed, Attempted
  <2> QED BY <1>1, <1>3, <2>1 DEF PhaseBar, BillBar
<1>6. CASE e.kind = "ATTEMPT_STARTED"
  <2>1. PhaseOf(s) = "open" /\ PhaseOf(t) = "issued" /\ BillOf(t) = BillOf(s)
    BY <1>1, <1>2, <1>4, <1>6, LedgerAssumption
    DEF PhaseOf, BillOf, TargetOf, AllowedFrom, WellFormed, Attempted
  <2>2. u \in Exposed
    BY <1>1, <1>6 DEF Exposed, InFlight, AllowedFrom, Unresolved, Attempted
  <2>3. Exposure!Owing = {}
    BY <1>1, <1>3, <2>1, <2>2, OwingIsExposed
    DEF LedgerIInv, AtMostOneExposed, Exposure!Owing
  <2>4. UNCHANGED BillBar
    BY <1>1, <1>3, <2>1 DEF BillBar
  <2>5. Exposure!Issue(u)
    BY <1>1, <1>3, <2>1, <2>3, <2>4 DEF Exposure!Issue
  <2> QED BY <1>1, <2>5 DEF Exposure!ExposureNext
<1>7. CASE e.kind = "TERMINAL_TECHNICAL_MISSING"
  <2>1. PhaseOf(s) = "open" /\ PhaseOf(t) = "void" /\ BillOf(t) = BillOf(s)
    BY <1>1, <1>2, <1>4, <1>7, LedgerAssumption
    DEF PhaseOf, BillOf, TargetOf, AllowedFrom, WellFormed, Attempted
  <2>2. UNCHANGED BillBar
    BY <1>1, <1>3, <2>1 DEF BillBar
  <2>3. Exposure!Reject(u)
    BY <1>1, <1>3, <2>1, <2>2 DEF Exposure!Reject
  <2> QED BY <1>1, <2>3 DEF Exposure!ExposureNext
<1>8. CASE e.kind \in Attempted \cup {"COST_RECONCILED"}
  <2>1. PhaseOf(s) \in {"issued", "unbilled"}
    BY <1>1, <1>8 DEF PhaseOf, AllowedFrom, Attempted
  <2>2. t.kind \in Attempted
    BY <1>1, <1>4, <1>8 DEF TargetOf, AllowedFrom, Attempted
  <2>3. CASE e.cost \in Costs
    <3>1. PhaseOf(t) = "billed" /\ BillOf(t) = e.cost
      BY <1>4, <2>2, <2>3, LedgerAssumption DEF PhaseOf, BillOf, Attempted
    <3>2. Exposure!Settle(u, e.cost)
      BY <1>1, <1>3, <2>1, <3>1 DEF Exposure!Settle
    <3> QED BY <1>1, <2>3, <3>2 DEF Exposure!ExposureNext
  <2>4. CASE e.cost \notin Costs
    <3>1. e.kind \in Attempted /\ e.cost = UnknownCost
      BY <1>1, <1>8, <2>4 DEF WellFormed
    <3>2. PhaseOf(s) = "issued" /\ BillOf(s) = NoCost
      BY <1>1, <1>2, <3>1, LedgerAssumption
      DEF PhaseOf, BillOf, AllowedFrom, Attempted
    <3>3. PhaseOf(t) = "unbilled" /\ BillOf(t) = NoCost
      BY <1>4, <2>2, <3>1, LedgerAssumption DEF PhaseOf, BillOf, Attempted
    <3>4. UNCHANGED BillBar
      BY <1>1, <1>3, <3>2, <3>3 DEF BillBar
    <3>5. Exposure!LoseBill(u)
      BY <1>1, <1>3, <3>2, <3>3, <3>4 DEF Exposure!LoseBill
    <3> QED BY <1>1, <3>5 DEF Exposure!ExposureNext
  <2> QED BY <2>3, <2>4
<1> QED BY <1>1, <1>5, <1>6, <1>7, <1>8 DEF EventKinds

\* The ledger implements ProviderExposure.
THEOREM LedgerImplementsExposure == LedgerSpec => ImplementsExposure
<1>1. LedgerInit => Exposure!ExposureInit
  <2> SUFFICES ASSUME LedgerInit PROVE Exposure!ExposureInit
    OBVIOUS
  <2>1. PhaseOf(GenesisState) = "open" /\ BillOf(GenesisState) = NoCost
    BY LedgerAssumption DEF PhaseOf, BillOf, GenesisState, Attempted
  <2>2. /\ PhaseBar = [r \in Requests |-> PhaseOf(GenesisState)]
        /\ BillBar = [r \in Requests |-> BillOf(GenesisState)]
    BY DEF LedgerInit, PhaseBar, BillBar
  <2> QED BY <2>1, <2>2 DEF Exposure!ExposureInit
<1>2. LedgerIInv /\ [LedgerNext]_ledgerVars
        => [Exposure!ExposureNext]_<<PhaseBar, BillBar>>
  <2>1. ASSUME LedgerIInv, LedgerNext
        PROVE  Exposure!ExposureNext \/ UNCHANGED <<PhaseBar, BillBar>>
    <3>1. PICK e \in Events : AppendEvent(e)
      BY <2>1, StepAppends DEF LedgerIInv
    <3> QED BY <2>1, <3>1, AppendRefines
  <2>2. ASSUME UNCHANGED ledgerVars
        PROVE  UNCHANGED <<PhaseBar, BillBar>>
    BY <2>2 DEF ledgerVars, PhaseBar, BillBar, PhaseOf, BillOf
  <2> QED BY <2>1, <2>2
<1> QED
  BY <1>1, <1>2, LedgerInvariant, PTL
  DEF LedgerSpec, ImplementsExposure, Exposure!ExposureSpec, Exposure!exposureVars

-------------------------------------------------------------------------------
(* The snapshot of a ledger object.                                         *)

\* The statements an object can be at.
Statements == Reading \cup {"closed", "replayed", "idle", "committed"}

\* A read began when the table had at most the rows it has now.
ReadsStarted ==
  /\ stored \in Nat
  /\ at \in [Objects -> Statements]
  /\ floor \in [Objects -> 0..stored]

\* An object has replayed exactly the events up to its last sequence number.
AppliedUptoLast ==
  /\ lastSequence \in [Objects -> 0..stored]
  /\ applied = [o \in Objects |-> Upto(lastSequence[o])]

\* The inductive invariant.
SnapshotIInv == ReadsStarted /\ AppliedUptoLast

-------------------------------------------------------------------------------
(* The operators the states are built from. *)

\* Replaying n events gives n of them, in order.
LEMMA UptoProperties ==
  ASSUME NEW n \in Nat
  PROVE  /\ Upto(n) \in Seq(Nat)
         /\ Len(Upto(n)) = n
         /\ \A i \in 1..n : Upto(n)[i] = i
<1>1. Upto(n) \in [1..n -> Nat]
  BY DEF Upto
<1>2. Upto(n) \in Seq(Nat)
  BY <1>1, IsASeq DEF Upto
<1>3. Len(Upto(n)) = n
  BY <1>1, <1>2, LenProperties
<1> QED
  BY <1>2, <1>3 DEF Upto

\* Nothing replayed is the empty sequence.
LEMMA UptoZero == Upto(0) = <<>>
<1>1. Upto(0) \in Seq(Nat) /\ Len(Upto(0)) = 0
  BY UptoProperties
<1> QED
  BY <1>1, EmptySeq

\* The events s + 1 to n after the replay of the first s are the replay of n.
LEMMA UptoCatchesUp ==
  ASSUME NEW s \in Nat, NEW n \in Nat, s <= n
  PROVE  Upto(s) \o [i \in 1..(n - s) |-> s + i] = Upto(n)
<1> DEFINE rest == [i \in 1..(n - s) |-> s + i]
<1>1. Upto(s) \in Seq(Nat) /\ Len(Upto(s)) = s
  BY UptoProperties
<1>2. Upto(n) \in Seq(Nat) /\ Len(Upto(n)) = n
  BY UptoProperties
<1>3. n - s \in Nat /\ rest \in [1..(n - s) -> Nat]
  OBVIOUS
<1>4. rest \in Seq(Nat) /\ Len(rest) = n - s
  <2>1. rest \in Seq(Nat)
    BY <1>3, IsASeq
  <2> QED
    BY <1>3, <2>1, LenProperties
<1>5. /\ Upto(s) \o rest \in Seq(Nat)
      /\ Len(Upto(s) \o rest) = s + (n - s)
      /\ \A i \in 1..(s + (n - s)) :
           (Upto(s) \o rest)[i] = IF i <= s THEN Upto(s)[i] ELSE rest[i - s]
  <2> HIDE DEF rest
  <2>1. /\ Upto(s) \o rest \in Seq(Nat)
        /\ Len(Upto(s) \o rest) = Len(Upto(s)) + Len(rest)
        /\ \A i \in 1..(Len(Upto(s)) + Len(rest)) :
             (Upto(s) \o rest)[i] =
               IF i <= Len(Upto(s)) THEN Upto(s)[i] ELSE rest[i - Len(Upto(s))]
    BY <1>1, <1>4, ConcatProperties, Zenon
  <2>2. Len(Upto(s)) = s /\ Len(rest) = n - s
    BY <1>1, <1>4
  <2> QED
    BY <2>1, <2>2
<1>6. s + (n - s) = n
  OBVIOUS
<1>7. ASSUME NEW i \in 1..n
      PROVE  (Upto(s) \o rest)[i] = Upto(n)[i]
  <2>1. Upto(n)[i] = i
    BY DEF Upto
  <2>2. (Upto(s) \o rest)[i] = IF i <= s THEN Upto(s)[i] ELSE rest[i - s]
    <3> HIDE DEF rest
    <3> QED
      BY <1>5, <1>6
  <2>3. i <= s => Upto(s)[i] = i
    BY DEF Upto
  <2>4. i > s => i - s \in 1..(n - s) /\ s + (i - s) = i
    OBVIOUS
  <2>5. i > s => rest[i - s] = i
    BY <2>4
  <2> HIDE DEF rest
  <2> QED
    BY <2>1, <2>2, <2>3, <2>5
<1> HIDE DEF rest
<1>8. Upto(s) \o rest = Upto(n)
  BY <1>2, <1>5, <1>6, <1>7, SeqEqual
<1> QED
  BY <1>8 DEF rest

\* Applying the next event gives the replay with that event.
LEMMA UptoNext ==
  ASSUME NEW n \in Nat
  PROVE  Append(Upto(n), n + 1) = Upto(n + 1)
<1>1. Upto(n) \in Seq(Nat) /\ Len(Upto(n)) = n
  BY UptoProperties
<1>2. Upto(n + 1) \in Seq(Nat) /\ Len(Upto(n + 1)) = n + 1
  BY UptoProperties
<1>3. /\ Append(Upto(n), n + 1) \in Seq(Nat)
      /\ Len(Append(Upto(n), n + 1)) = n + 1
      /\ \A i \in 1..n : Append(Upto(n), n + 1)[i] = Upto(n)[i]
      /\ Append(Upto(n), n + 1)[n + 1] = n + 1
  BY <1>1, AppendProperties
<1>4. ASSUME NEW i \in 1..(n + 1)
      PROVE  Append(Upto(n), n + 1)[i] = Upto(n + 1)[i]
  BY <1>3 DEF Upto
<1> QED
  BY <1>2, <1>3, <1>4, SeqEqual

\* The states of an object and the rows after them are the replay of the table.
LEMMA LastThenRest ==
  ASSUME SnapshotIInv, NEW o \in Objects
  PROVE  applied[o] \o After(lastSequence[o]) = Upto(stored)
<1> DEFINE s == lastSequence[o]
<1>1. applied[o] = Upto(s) /\ s \in Nat /\ s <= stored /\ stored \in Nat
  BY DEF SnapshotIInv, ReadsStarted, AppliedUptoLast
<1> HIDE DEF s
<1>2. Upto(s) \o [i \in 1..(stored - s) |-> s + i] = Upto(stored)
  BY <1>1, UptoCatchesUp
<1> QED
  BY <1>1, <1>2 DEF After, s

\* The snapshot an append takes holds every committed event.
LEMMA CaughtIsAll ==
  ASSUME SnapshotIInv, NEW o \in Objects
  PROVE  Caught(o) = Upto(stored)
BY LastThenRest DEF Caught

\* An object takes the states and the last sequence number of n events.
Takes(o, n) ==
  /\ applied' = [applied EXCEPT ![o] = Upto(n)]
  /\ lastSequence' = [lastSequence EXCEPT ![o] = n]

\* An object that takes both together stays at a beginning of the table.
LEMMA AppliedTogether ==
  ASSUME SnapshotIInv, NEW o \in Objects, stored' \in Nat, stored <= stored',
         \E n \in 0..stored' : Takes(o, n)
  PROVE  AppliedUptoLast'
<1> USE DEF SnapshotIInv, ReadsStarted, AppliedUptoLast
<1>1. PICK n \in 0..stored' : Takes(o, n)
  OBVIOUS
<1>2. lastSequence' \in [Objects -> 0..stored']
  BY <1>1 DEF Takes
<1>3. ASSUME NEW p \in Objects PROVE applied'[p] = Upto(lastSequence'[p])
  BY <1>1 DEF Takes
<1>4. applied' = [p \in Objects |-> applied'[p]]
  BY <1>1 DEF Takes
<1> QED
  BY <1>2, <1>3, <1>4

\* An object that keeps both stays at a beginning of a table that grows.
LEMMA AppliedKept ==
  ASSUME SnapshotIInv, stored' \in Nat, stored <= stored', UNCHANGED <<applied, lastSequence>>
  PROVE  AppliedUptoLast'
BY DEF SnapshotIInv, ReadsStarted, AppliedUptoLast

\* The statements of a read begin with noting how many rows there are.
LEMMA StartedKept ==
  ASSUME SnapshotIInv, stored' \in Nat, stored <= stored', NEW o \in Objects, NEW label \in Statements,
         at' = at \/ Go(o, label), floor' = floor \/ floor' = [floor EXCEPT ![o] = stored]
  PROVE  ReadsStarted'
BY DEF SnapshotIInv, ReadsStarted, Go

-------------------------------------------------------------------------------
(* Every step keeps the invariant. *)

LEMMA SnapshotInitInvariant == SnapshotInit => SnapshotIInv
<1> SUFFICES ASSUME SnapshotInit PROVE SnapshotIInv
  OBVIOUS
<1>1. ReadsStarted
  BY DEF SnapshotInit, ReadsStarted, Statements
<1>2. AppliedUptoLast
  BY UptoZero DEF SnapshotInit, AppliedUptoLast
<1> QED
  BY <1>1, <1>2 DEF SnapshotIInv

LEMMA SnapshotStepInvariant ==
  SnapshotIInv /\ [SnapshotNext]_snapshotVars => SnapshotIInv'
<1> SUFFICES ASSUME SnapshotIInv, [SnapshotNext]_snapshotVars PROVE SnapshotIInv'
  OBVIOUS
<1> USE DEF tableVars, cacheVars, readVars
<1>1. /\ stored \in Nat /\ at \in [Objects -> Statements]
      /\ lastSequence \in [Objects -> 0..stored]
      /\ applied = [o \in Objects |-> Upto(lastSequence[o])]
  BY DEF SnapshotIInv, ReadsStarted, AppliedUptoLast
<1>2. ASSUME NEW o \in Objects, OpenObject(o) PROVE SnapshotIInv'
  <2>1. AppliedUptoLast'
    <3>1. Takes(o, stored)
      BY <1>1, <1>2 DEF OpenObject, Takes
    <3>2. stored' \in Nat /\ stored <= stored' /\ stored \in 0..stored'
      BY <1>1, <1>2 DEF OpenObject
    <3> QED
      BY <3>1, <3>2, AppliedTogether
  <2>2. ReadsStarted'
    BY <1>1, <1>2, StartedKept DEF OpenObject, Statements
  <2> QED
    BY <2>1, <2>2 DEF SnapshotIInv
<1>3. ASSUME NEW o \in Objects, StartObserver(o) \/ FinishAppend(o) \/ FailToSync(o)
      PROVE  SnapshotIInv'
  <2>1. AppliedUptoLast'
    BY <1>1, <1>3, AppliedKept DEF StartObserver, FinishAppend, FailToSync
  <2>2. ReadsStarted'
    BY <1>1, <1>3, StartedKept DEF StartObserver, FinishAppend, FailToSync, Statements
  <2> QED
    BY <2>1, <2>2 DEF SnapshotIInv
<1>4. ASSUME NEW o \in Objects, Close(o) PROVE SnapshotIInv'
  <2>1. AppliedUptoLast'
    <3>1. Takes(o, 0)
      BY <1>1, <1>4, UptoZero DEF Close, Takes
    <3>2. stored' \in Nat /\ stored <= stored' /\ 0 \in 0..stored'
      BY <1>1, <1>4 DEF Close
    <3> QED
      BY <3>1, <3>2, AppliedTogether
  <2>2. ReadsStarted'
    BY <1>1, <1>4, StartedKept DEF Close, Statements
  <2> QED
    BY <2>1, <2>2 DEF SnapshotIInv
<1>5. ASSUME NEW o \in Objects, ReadCount(o) \/ ReadVersion(o) \/ ReadTail(o)
      PROVE  SnapshotIInv'
  <2>1. AppliedUptoLast'
    BY <1>1, <1>5, AppliedKept DEF ReadCount, ReadVersion, ReadTail
  <2>2. ReadsStarted'
    BY <1>1, <1>5, StartedKept DEF ReadCount, ReadVersion, ReadTail, Statements, Reading
  <2> QED
    BY <2>1, <2>2 DEF SnapshotIInv
<1>6. ASSUME NEW o \in Objects, CatchUp(o) PROVE SnapshotIInv'
  <2>1. applied[o] \o After(lastSequence[o]) = Upto(stored)
    BY LastThenRest
  <2>2. AppliedUptoLast'
    <3>1. CASE UNCHANGED <<applied, lastSequence>>
      BY <1>1, <1>6, <3>1, AppliedKept DEF CatchUp
    <3>2. CASE ~ UNCHANGED <<applied, lastSequence>>
      <4>1. Takes(o, stored) /\ stored' = stored
        BY <1>1, <1>6, <2>1, <3>2 DEF CatchUp, Takes
      <4>2. stored \in 0..stored'
        BY <1>1, <4>1
      <4> QED
        BY <1>1, <4>1, <4>2, AppliedTogether
    <3> QED
      BY <3>1, <3>2
  <2>3. ReadsStarted'
    BY <1>1, <1>6, StartedKept DEF CatchUp, Statements, Reading
  <2> QED
    BY <2>2, <2>3 DEF SnapshotIInv
<1>7. ASSUME NEW o \in Objects, Replay(o) PROVE SnapshotIInv'
  <2>1. AppliedUptoLast'
    <3>1. Takes(o, stored)
      BY <1>1, <1>7 DEF Replay, Takes
    <3>2. stored' \in Nat /\ stored <= stored' /\ stored \in 0..stored'
      BY <1>1, <1>7 DEF Replay
    <3> QED
      BY <3>1, <3>2, AppliedTogether
  <2>2. ReadsStarted'
    BY <1>1, <1>7, StartedKept DEF Replay, Statements
  <2> QED
    BY <2>1, <2>2 DEF SnapshotIInv
<1>8. ASSUME NEW o \in Objects, Commit(o) PROVE SnapshotIInv'
  <2>1. Append(Caught(o), stored + 1) = Upto(stored + 1)
    BY <1>1, CaughtIsAll, UptoNext
  <2>2. AppliedUptoLast'
    <3>1. Takes(o, stored + 1)
      BY <1>1, <1>8, <2>1 DEF Commit, Takes
    <3>2. stored' \in Nat /\ stored <= stored' /\ stored + 1 \in 0..stored'
      BY <1>1, <1>8 DEF Commit
    <3> QED
      BY <3>1, <3>2, AppliedTogether
  <2>3. ReadsStarted'
    BY <1>1, <1>8, StartedKept DEF Commit, Statements
  <2> QED
    BY <2>2, <2>3 DEF SnapshotIInv
<1>9. ASSUME NEW o \in Objects, CommitAndRaise(o) PROVE SnapshotIInv'
  <2>1. AppliedUptoLast'
    <3>1. Takes(o, stored)
      BY <1>1, <1>9, CaughtIsAll DEF CommitAndRaise, Takes
    <3>2. stored' \in Nat /\ stored <= stored' /\ stored \in 0..stored'
      BY <1>1, <1>9 DEF CommitAndRaise
    <3> QED
      BY <3>1, <3>2, AppliedTogether
  <2>2. ReadsStarted'
    BY <1>1, <1>9, StartedKept DEF CommitAndRaise, Statements
  <2> QED
    BY <2>1, <2>2 DEF SnapshotIInv
<1>10. ASSUME NEW o \in Objects, NEW label \in {"idle", "committed"}, CommitNothing(o, label)
       PROVE  SnapshotIInv'
  <2>1. AppliedUptoLast'
    <3>1. Takes(o, stored)
      BY <1>1, <1>10, CaughtIsAll DEF CommitNothing, Takes
    <3>2. stored' \in Nat /\ stored <= stored' /\ stored \in 0..stored'
      BY <1>1, <1>10 DEF CommitNothing
    <3> QED
      BY <3>1, <3>2, AppliedTogether
  <2>2. ReadsStarted'
    BY <1>1, <1>10, StartedKept DEF CommitNothing, Statements
  <2> QED
    BY <2>1, <2>2 DEF SnapshotIInv
<1>11. CASE CommitOther \/ UNCHANGED snapshotVars
  <2>1. AppliedUptoLast'
    BY <1>1, <1>11, AppliedKept DEF CommitOther, snapshotVars
  <2>2. ReadsStarted'
    BY <1>1, <1>11 DEF CommitOther, snapshotVars, SnapshotIInv, ReadsStarted
  <2> QED
    BY <2>1, <2>2 DEF SnapshotIInv
<1> QED
  BY <1>2, <1>3, <1>4, <1>5, <1>6, <1>7, <1>8, <1>9, <1>10, <1>11 DEF SnapshotNext

-------------------------------------------------------------------------------
(* Theorems. *)

\* The strengthening is an invariant of the specification.
THEOREM SnapshotInvariant == SnapshotSpec => []SnapshotIInv
BY SnapshotInitInvariant, SnapshotStepInvariant, PTL DEF SnapshotSpec

\* The states an object answers from (_states, _event_count, _last_sequence) are
\* the replay of a beginning of the events table, with any number of objects.
THEOREM SnapshotCacheIsBeginning == SnapshotSpec => []CacheIsBeginning
<1>1. ASSUME SnapshotIInv PROVE CacheIsBeginning
  <2>1. ASSUME NEW o \in Objects
        PROVE  /\ applied[o] = Upto(Len(applied[o]))
               /\ lastSequence[o] = Len(applied[o])
               /\ Len(applied[o]) <= stored
    <3>1. lastSequence[o] \in Nat /\ lastSequence[o] <= stored
      BY <1>1 DEF SnapshotIInv, ReadsStarted, AppliedUptoLast
    <3>2. applied[o] = Upto(lastSequence[o])
      BY <1>1 DEF SnapshotIInv, AppliedUptoLast
    <3>3. Len(applied[o]) = lastSequence[o]
      BY <3>1, <3>2, UptoProperties
    <3> QED
      BY <3>1, <3>2, <3>3
  <2> QED
    BY <2>1 DEF CacheIsBeginning
<1> QED
  BY <1>1, SnapshotInvariant, PTL

\* What _snapshot returns shows every event committed before it was called; the
\* data version only decides how the states are brought up to date.
THEOREM SnapshotReadsAreFresh == SnapshotSpec => ReadsAreFresh
<1> DEFINE Fresh == \A o \in Objects :
      at[o] \in Reading /\ at'[o] = "idle" => Len(applied'[o]) >= floor[o]
<1>1. ASSUME SnapshotIInv, SnapshotIInv', SnapshotNext PROVE Fresh
  <2> SUFFICES ASSUME NEW o \in Objects, at[o] \in Reading, at'[o] = "idle"
               PROVE  Len(applied'[o]) >= floor[o]
    OBVIOUS
  <2>1. /\ floor[o] \in 0..stored /\ stored \in Nat
        /\ at \in [Objects -> Statements]
        /\ lastSequence \in [Objects -> 0..stored]
    BY <1>1 DEF SnapshotIInv, ReadsStarted, AppliedUptoLast
  <2>2. Len(applied'[o]) = lastSequence'[o]
    BY <1>1, UptoProperties DEF SnapshotIInv, ReadsStarted, AppliedUptoLast
  <2>3. PICK p \in Objects : ReadTail(p) \/ CatchUp(p) \/ Replay(p)
    BY <1>1, <2>1 DEF SnapshotNext, Reading, Go, OpenObject, StartObserver, Close, ReadCount,
      ReadVersion, Commit, FinishAppend, CommitAndRaise, FailToSync, CommitNothing,
      CommitOther, cacheVars, readVars, tableVars
  <2>4. p = o
    BY <2>1, <2>3 DEF ReadTail, CatchUp, Replay, Go, Reading
  <2>5. lastSequence'[o] = stored
    BY <2>1, <2>3, <2>4 DEF ReadTail, CatchUp, Replay, Go, cacheVars
  <2> QED
    BY <2>1, <2>2, <2>5
<1>2. SnapshotIInv /\ SnapshotIInv' /\ [SnapshotNext]_snapshotVars => [Fresh]_snapshotVars
  BY <1>1
<1> QED
  BY <1>2, SnapshotInvariant, PTL DEF SnapshotSpec, ReadsAreFresh

-------------------------------------------------------------------------------
(* The dispatcher.                                                          *)

\* The label "started" means what the code takes it to mean: the marker is on
\* disk, it is the last event, and the request has not left yet.
StartedIsUnsent ==
  \A d \in Dispatchers :
    pc[d] = "started" =>
      /\ ledger[req[d]].kind = "ATTEMPT_STARTED"
      /\ sent[req[d]] = 0

\* The inductive invariant.
DispatchIInv ==
  /\ DispatchTypeOK
  /\ NeverResent
  /\ SentIsMarked
  /\ StartedIsUnsent

-------------------------------------------------------------------------------
(* What a step does to the ledger. *)

\* The events a dispatcher builds, as (label before, kind, compiled, cost).
Recorded(d, kind, compiled, cost) ==
  LET r == req[d]
      e == Event(r, kind, ledger[r].revision, compiled, cost)
  IN Record(d, e) \/ Refused(d, e)

\* Each recording action appends one event about the request at hand, or is
\* refused and leaves everything durable alone.
LEMMA RecordingSteps ==
  ASSUME DispatchTypeOK, NEW d \in Dispatchers,
         \/ PersistIntent(d) \/ PersistCompiled(d) \/ PersistOverflow(d)
         \/ PersistMissing(d) \/ StartAttempt(d) \/ PersistParsed(d)
         \/ AcknowledgeSuccess(d) \/ PersistFailure(d)
  PROVE  /\ req[d] \in Requests
         /\ \E kind \in EventKinds \ {"COST_RECONCILED"},
               compiled \in MaybeCompiled, cost \in MaybeCost :
              Recorded(d, kind, compiled, cost)
<1> DEFINE r == req[d]
<1>1. r \in Requests
  BY DEF DispatchTypeOK, ProcessTypeOK, Working, PersistIntent, PersistCompiled,
         PersistOverflow, PersistMissing, StartAttempt, PersistParsed,
         AcknowledgeSuccess, PersistFailure
<1>2. /\ ledger[r].compiled \in MaybeCompiled
      /\ receipts[r] \in MaybeCompiled
      /\ due[d] \in MaybeCost
      /\ NoCost \in MaybeCost
  BY <1>1 DEF DispatchTypeOK, LedgerTypeOK, EvidenceStates, WorldTypeOK,
              ProcessTypeOK, MaybeCost
<1>3. CASE PersistCompiled(d)
  <2>1. Recorded(d, "REQUEST_COMPILED", receipts[r], NoCost)
    BY <1>3 DEF PersistCompiled, RecordOrLeave, Recorded
  <2> QED BY <1>1, <1>2, <2>1 DEF EventKinds
<1>4. CASE PersistIntent(d) \/ PersistOverflow(d) \/ PersistMissing(d)
           \/ StartAttempt(d)
  <2>1. \E kind \in {"DISPATCH_INTENT", "INPUT_ENVELOPE_OVERFLOW",
                     "TERMINAL_TECHNICAL_MISSING", "ATTEMPT_STARTED"} :
          Recorded(d, kind, ledger[r].compiled, NoCost)
    BY <1>4 DEF PersistIntent, PersistOverflow, PersistMissing, StartAttempt,
                RecordOrLeave, RecordAndLeave, Recorded, OnCurrent
  <2> QED BY <1>1, <1>2, <2>1 DEF EventKinds
<1>5. CASE PersistParsed(d) \/ AcknowledgeSuccess(d) \/ PersistFailure(d)
  <2>1. \E kind \in {"COMPLETED", "ATTEMPTED_PROVIDER_FAILURE"} :
          Recorded(d, kind, ledger[r].compiled, due[d])
    BY <1>5 DEF PersistParsed, AcknowledgeSuccess, PersistFailure,
                RecordAndLeave, Recorded, OnCurrent
  <2> QED BY <1>1, <1>2, <2>1 DEF EventKinds, Attempted
<1> QED BY <1>3, <1>4, <1>5

\* A recorded event is a submission the ledger allows.
LEMMA RecordedSubmits ==
  ASSUME DispatchTypeOK, NEW d \in Dispatchers, req[d] \in Requests,
         NEW kind \in EventKinds \ {"COST_RECONCILED"},
         NEW compiled \in MaybeCompiled, NEW cost \in MaybeCost,
         Recorded(d, kind, compiled, cost)
  PROVE  LedgerNext \/ UNCHANGED ledgerVars
<1> DEFINE r == req[d]
           e == Event(r, kind, ledger[r].revision, compiled, cost)
<1>1. CASE Record(d, e)
  <2>1. /\ ledger[r].revision \in 0..ledger[r].revision
        /\ ledger[r].revision < MaxRevision
    BY <1>1 DEF DispatchTypeOK, LedgerTypeOK, EvidenceStates, Record, Event
  <2>2. AppendEvent(Event(r, kind, ledger[r].revision, compiled, cost))
    BY <1>1 DEF Record
  <2> HIDE DEF e
  <2>3. Submit(r)
    BY <2>1, <2>2 DEF Submit
  <2> QED BY <2>3 DEF LedgerNext
<1>2. CASE Refused(d, e)
  BY <1>2 DEF Refused, diskVars, ledgerVars
<1> QED BY <1>1, <1>2 DEF Recorded

\* Every step of a dispatcher, a recovery or an operator is a step of the
\* ledger or leaves it alone.
LEMMA StepRefines ==
  ASSUME DispatchTypeOK, [DispatchNext]_dispatchVars
  PROVE  [LedgerNext]_ledgerVars
<1>1. CASE UNCHANGED dispatchVars
  BY <1>1 DEF dispatchVars, diskVars, ledgerVars
<1>2. ASSUME NEW r \in Requests, Reconcile(r)
      PROVE  LedgerNext
  BY <1>2 DEF Reconcile, LedgerNext
<1>3. ASSUME NEW d \in Dispatchers,
             \/ \E r \in Requests : Identify(d, r)
             \/ Refresh(d) \/ Progress(d) \/ Resume(d) \/ Crash(d)
      PROVE  LedgerNext \/ UNCHANGED ledgerVars
  <2>1. CASE \/ PersistIntent(d) \/ PersistCompiled(d) \/ PersistOverflow(d)
             \/ PersistMissing(d) \/ StartAttempt(d) \/ PersistParsed(d)
             \/ AcknowledgeSuccess(d) \/ PersistFailure(d)
    BY <2>1, RecordingSteps, RecordedSubmits
  <2>2. ASSUME NEW r \in Requests, RecoverRequest(d, r)
        PROVE  LedgerNext
    <3>1. CASE Recover(r)
      BY <3>1 DEF LedgerNext
    <3>2. CASE /\ ledger[r].revision < MaxRevision
               /\ AppendEvent(OnCurrent(r, "INPUT_ENVELOPE_OVERFLOW", NoCost))
      <4>1. /\ ledger[r].revision \in 0..ledger[r].revision
            /\ ledger[r].compiled \in MaybeCompiled
            /\ NoCost \in MaybeCost
            /\ "INPUT_ENVELOPE_OVERFLOW" \in EventKinds
        BY DEF DispatchTypeOK, LedgerTypeOK, EvidenceStates, MaybeCost, EventKinds
      <4>2. Submit(r)
        BY <3>2, <4>1 DEF Submit, OnCurrent
      <4> QED BY <4>2 DEF LedgerNext
    <3> QED BY <2>2, <3>1, <3>2 DEF RecoverRequest
  <2>3. CASE \/ \E r \in Requests : Identify(d, r)
             \/ \E c \in Compiled : Compile(d, c)
             \/ Refresh(d) \/ Send(d)
             \/ \E cost \in Costs \cup {UnknownCost} : Fail(d, cost) \/ Answer(d, cost)
             \/ AcknowledgeFailure(d) \/ AbandonResponse(d)
             \/ PublishObservation(d) \/ Raise(d)
             \/ Open(d) \/ FinishOpen(d) \/ BeginRecover(d) \/ EndRecover(d)
             \/ Crash(d)
    BY <2>3 DEF Identify, Compile, Refresh, Send, Fail, Answer, AcknowledgeFailure,
         AbandonResponse, PublishObservation, Raise, Open, FinishOpen,
         BeginRecover, EndRecover, Crash, diskVars, ledgerVars
  <2> QED BY <1>3, <2>1, <2>2, <2>3 DEF Progress, Resume
<1> QED BY <1>1, <1>2, <1>3 DEF DispatchNext

-------------------------------------------------------------------------------
(* Type correctness. *)

\* The ledger keeps its shape, and attempted requests stay attempted.
LEMMA LedgerStep ==
  ASSUME DispatchTypeOK, [DispatchNext]_dispatchVars
  PROVE  /\ LedgerTypeOK'
         /\ \A r \in Requests :
              /\ ledger[r].kind \in Attempted => ledger'[r].kind \in Attempted
              /\ ledger[r].kind = "ATTEMPT_STARTED" =>
                   ledger'[r].kind \in Attempted \cup {"ATTEMPT_STARTED"}
<1>0. LedgerTypeOK
  BY DEF DispatchTypeOK
<1>1. CASE LedgerNext
  <2>1. PICK e \in Events : AppendEvent(e)
    BY <1>0, <1>1, StepAppends
  <2>2. /\ ledger[e.unit].kind \in AllowedFrom(e.kind)
        /\ e.kind \in EventKinds
        /\ ledger'[e.unit].kind = TargetOf(e.kind, ledger[e.unit].kind)
    BY <1>0, <2>1, AppendEffect
       DEF AppendEvent, Acceptable, Advances, Advanced, Events
  <2>3. /\ ledger[e.unit].kind \in Attempted => ledger'[e.unit].kind \in Attempted
        /\ ledger[e.unit].kind = "ATTEMPT_STARTED" =>
             ledger'[e.unit].kind \in Attempted \cup {"ATTEMPT_STARTED"}
    BY <2>2 DEF AllowedFrom, TargetOf, EventKinds, Attempted, Unresolved
  <2> QED BY <1>0, <2>1, <2>3, AppendEffect, TypePreserved
<1>2. CASE UNCHANGED ledgerVars
  BY <1>0, <1>2 DEF LedgerTypeOK, ledgerVars
<1> QED BY <1>1, <1>2, StepRefines

\* Recording keeps the shape of the caches and of everything beside the ledger.
LEMMA RecordedTypes ==
  ASSUME DispatchTypeOK, LedgerTypeOK', NEW d \in Dispatchers,
         NEW e, e.unit \in Requests, Record(d, e)
  PROVE  /\ WorldTypeOK'
         /\ generation' \in [Dispatchers -> Nat]
         /\ terminal' \in [Dispatchers -> SUBSET Parents]
<1>1. Len(log') \in Nat
  BY DEF LedgerTypeOK
<1>2. Terminated(ParentOf[e.unit]) \subseteq Parents
  BY DispatchAssumption DEF Terminated
<1> QED
  BY <1>1, <1>2 DEF DispatchTypeOK, WorldTypeOK, ProcessTypeOK, Record, worldVars

\* Leaving the lock, after an event or a refusal.
LEMMA RecordedLeaves ==
  ASSUME DispatchTypeOK, LedgerTypeOK', NEW d \in Dispatchers,
         NEW e, e.unit \in Requests, lock \in {d, NoOwner},
         \/ Record(d, e) /\ Leave(d)
         \/ Refused(d, e)
  PROVE  WorldTypeOK' /\ ProcessTypeOK'
<1>1. /\ WorldTypeOK'
      /\ generation' \in [Dispatchers -> Nat]
      /\ terminal' \in [Dispatchers -> SUBSET Parents]
  <2>1. CASE Record(d, e)
    BY <2>1, RecordedTypes
  <2>2. CASE Refused(d, e)
    BY <2>2 DEF Refused, DispatchTypeOK, WorldTypeOK, ProcessTypeOK, diskVars,
                worldVars
  <2> QED BY <2>1, <2>2
<1>2. Leave(d)
  BY DEF Refused
<1> QED
  BY <1>1, <1>2, DispatchAssumption
     DEF DispatchTypeOK, ProcessTypeOK, Leave, Labels, Working, MaybeCost

\* Staying under the lock, at a label where work goes on.
LEMMA RecordedStays ==
  ASSUME DispatchTypeOK, LedgerTypeOK', NEW d \in Dispatchers,
         NEW e, e.unit \in Requests, pc[d] \in Working,
         NEW label \in Working, RecordOrLeave(d, e, label)
  PROVE  WorldTypeOK' /\ ProcessTypeOK'
<1>1. CASE Refused(d, e)
  BY <1>1, RecordedLeaves DEF DispatchTypeOK, ProcessTypeOK
<1>2. CASE Record(d, e) /\ Goto(d, label)
  <2>1. /\ WorldTypeOK'
        /\ generation' \in [Dispatchers -> Nat]
        /\ terminal' \in [Dispatchers -> SUBSET Parents]
    BY <1>2, RecordedTypes
  <2> QED
    BY <1>2, <2>1 DEF Goto, DispatchTypeOK, ProcessTypeOK, Labels, Working
<1> QED BY <1>1, <1>2 DEF RecordOrLeave

\* Every step keeps labels, requests at hand and the lock together.
LEMMA TypeStep ==
  ASSUME DispatchTypeOK, [DispatchNext]_dispatchVars
  PROVE  DispatchTypeOK'
<1> USE DEF Labels, Working, MaybeCost
<1>0. LedgerTypeOK'
  BY LedgerStep
<1>1. CASE UNCHANGED dispatchVars
  BY <1>0, <1>1 DEF dispatchVars, diskVars, worldVars, memVars, DispatchTypeOK,
                    WorldTypeOK, ProcessTypeOK
<1>2. ASSUME NEW r \in Requests, Reconcile(r)
      PROVE  WorldTypeOK' /\ ProcessTypeOK'
  BY <1>2 DEF Reconcile, worldVars, memVars, DispatchTypeOK, WorldTypeOK,
              ProcessTypeOK
<1>3. TerminalParents \subseteq Parents
  BY DispatchAssumption DEF TerminalParents, Terminated
<1>4. Len(log) \in Nat
  BY DEF DispatchTypeOK, LedgerTypeOK
<1>5. ASSUME NEW d \in Dispatchers,
             \/ \E r \in Requests : Identify(d, r)
             \/ Refresh(d) \/ Progress(d) \/ Resume(d) \/ Crash(d)
      PROVE  WorldTypeOK' /\ ProcessTypeOK'
  <2>0. Refreshed(d) \in SUBSET Parents
    BY <1>3 DEF Refreshed, DispatchTypeOK, ProcessTypeOK
  <2> DEFINE OnHand(kind, compiled, cost) ==
               Event(req[d], kind, ledger[req[d]].revision, compiled, cost)
  <2>a. ASSUME NEW kind, NEW compiled, NEW cost
        PROVE  OnHand(kind, compiled, cost).unit = req[d]
    BY DEF Event
  <2>b. ASSUME NEW kind, NEW cost
        PROVE  OnCurrent(req[d], kind, cost).unit = req[d]
    BY DEF OnCurrent, Event
  <2>c. pc[d] \in Working \cup {"waiting"} => req[d] \in Requests
    BY DEF DispatchTypeOK, ProcessTypeOK
  <2>1. CASE PersistIntent(d)
    BY <1>0, <2>1, <2>b, <2>c, RecordedStays DEF PersistIntent
  <2>2. CASE PersistCompiled(d)
    BY <1>0, <2>2, <2>a, <2>c, RecordedStays DEF PersistCompiled
  <2>3. CASE PersistOverflow(d)
    BY <1>0, <2>3, <2>b, <2>c, RecordedStays DEF PersistOverflow
  <2>4. CASE StartAttempt(d)
    BY <1>0, <2>4, <2>b, <2>c, RecordedStays DEF StartAttempt
  <2>5. CASE \/ PersistMissing(d) \/ PersistParsed(d) \/ PersistFailure(d)
             \/ AcknowledgeSuccess(d)
    <3>1. lock \in {d, NoOwner}
      BY <2>5 DEF PersistMissing, PersistParsed, PersistFailure,
                  AcknowledgeSuccess, DispatchTypeOK, ProcessTypeOK
    <3>2. \E kind, cost : RecordAndLeave(d, OnCurrent(req[d], kind, cost))
      BY <2>5 DEF PersistMissing, PersistParsed, PersistFailure,
                  AcknowledgeSuccess
    <3>3. req[d] \in Requests
      BY <2>5, <2>c DEF PersistMissing, PersistParsed, PersistFailure,
                  AcknowledgeSuccess
    <3> QED BY <1>0, <2>b, <3>1, <3>2, <3>3, RecordedLeaves DEF RecordAndLeave
  <2>6. ASSUME NEW r \in Requests, Identify(d, r)
        PROVE  WorldTypeOK' /\ ProcessTypeOK'
    BY <1>4, <2>0, <2>6, DispatchAssumption
       DEF Identify, worldVars, DispatchTypeOK, WorldTypeOK, ProcessTypeOK
  <2>7. CASE Refresh(d)
    BY <1>4, <2>0, <2>7
       DEF Refresh, diskVars, worldVars, DispatchTypeOK, WorldTypeOK, ProcessTypeOK
  <2>8. ASSUME NEW c \in Compiled, Compile(d, c)
        PROVE  WorldTypeOK' /\ ProcessTypeOK'
    BY <2>8 DEF Compile, Goto, worldVars, DispatchTypeOK, WorldTypeOK,
                ProcessTypeOK, MaybeCompiled
  <2>9. CASE Send(d)
    BY <2>9 DEF Send, Goto, diskVars, DispatchTypeOK, WorldTypeOK, ProcessTypeOK
  <2>10. ASSUME NEW cost \in Costs \cup {UnknownCost}, Fail(d, cost)
         PROVE  WorldTypeOK' /\ ProcessTypeOK'
    BY <2>10 DEF Fail, diskVars, DispatchTypeOK, WorldTypeOK, ProcessTypeOK
  <2>11. ASSUME NEW cost \in Costs \cup {UnknownCost}, Answer(d, cost)
         PROVE  WorldTypeOK' /\ ProcessTypeOK'
    BY <2>11, DispatchAssumption
       DEF Answer, diskVars, DispatchTypeOK, WorldTypeOK, ProcessTypeOK
  <2>12. CASE AcknowledgeFailure(d)
    BY <2>12, DispatchAssumption
       DEF AcknowledgeFailure, diskVars, worldVars, DispatchTypeOK, WorldTypeOK,
           ProcessTypeOK
  <2>13. CASE AbandonResponse(d)
    BY <2>13, DispatchAssumption
       DEF AbandonResponse, diskVars, worldVars, DispatchTypeOK, WorldTypeOK,
           ProcessTypeOK
  <2>14. CASE PublishObservation(d)
    BY <2>14 DEF PublishObservation, Goto, worldVars, DispatchTypeOK, WorldTypeOK,
                 ProcessTypeOK
  <2>15. CASE Raise(d)
    BY <2>15, DispatchAssumption
       DEF Raise, Leave, diskVars, worldVars, DispatchTypeOK, WorldTypeOK,
           ProcessTypeOK
  <2>16. CASE Open(d)
    <3>1. terminal' \in [Dispatchers -> SUBSET Parents]
      BY <1>3, <2>16 DEF Open, DispatchTypeOK, ProcessTypeOK
    <3> QED
      BY <2>16, <3>1 DEF Open, diskVars, worldVars, DispatchTypeOK, WorldTypeOK,
                         ProcessTypeOK
  <2>21. CASE FinishOpen(d)
    BY <1>4, <2>21
       DEF FinishOpen, diskVars, worldVars, DispatchTypeOK, WorldTypeOK,
           ProcessTypeOK
  <2>17. CASE BeginRecover(d)
    BY <2>17, DispatchAssumption
       DEF BeginRecover, diskVars, worldVars, DispatchTypeOK, WorldTypeOK,
           ProcessTypeOK
  <2>18. CASE EndRecover(d)
    BY <1>3, <1>4, <2>18, DispatchAssumption
       DEF EndRecover, Leave, diskVars, worldVars, DispatchTypeOK, WorldTypeOK,
           ProcessTypeOK
  <2>19. ASSUME NEW r \in Requests, RecoverRequest(d, r)
         PROVE  WorldTypeOK' /\ ProcessTypeOK'
    BY <2>19 DEF RecoverRequest, worldVars, memVars, DispatchTypeOK, WorldTypeOK,
                 ProcessTypeOK
  <2>20. CASE Crash(d)
    BY <2>20, DispatchAssumption
       DEF Crash, diskVars, DispatchTypeOK, WorldTypeOK, ProcessTypeOK
  <2> QED
    BY <1>5, <2>1, <2>2, <2>3, <2>4, <2>5, <2>6, <2>7, <2>8, <2>9, <2>10, <2>11,
       <2>12, <2>13, <2>14, <2>15, <2>16, <2>17, <2>18, <2>19, <2>20, <2>21
       DEF Progress, Resume
<1> QED BY <1>0, <1>1, <1>2, <1>5 DEF DispatchNext, DispatchTypeOK

-------------------------------------------------------------------------------
(* A request goes out once. *)

\* Only Send lets a request out, and only the dispatcher under the lock sends.
LEMMA SendsUnderLock ==
  ASSUME DispatchTypeOK, [DispatchNext]_dispatchVars
  PROVE  \/ UNCHANGED sent
         \/ \E d \in Dispatchers :
              /\ pc[d] = "started"
              /\ lock = d
              /\ req[d] \in Requests
              /\ sent' = [sent EXCEPT ![req[d]] = @ + 1]
              /\ UNCHANGED <<ledger, req>>
              /\ pc' = [pc EXCEPT ![d] = "sent"]
<1> USE DEF diskVars, worldVars
<1>1. CASE UNCHANGED dispatchVars
  BY <1>1 DEF dispatchVars
<1>2. ASSUME NEW r \in Requests, Reconcile(r)
      PROVE  UNCHANGED sent
  BY <1>2 DEF Reconcile
<1>3. ASSUME NEW d \in Dispatchers, Send(d)
      PROVE  /\ pc[d] = "started" /\ lock = d /\ req[d] \in Requests
             /\ sent' = [sent EXCEPT ![req[d]] = @ + 1]
             /\ UNCHANGED <<ledger, req>>
             /\ pc' = [pc EXCEPT ![d] = "sent"]
  BY <1>3 DEF Send, Goto, DispatchTypeOK, ProcessTypeOK, Working
<1>4. ASSUME NEW d \in Dispatchers,
             \/ \E r \in Requests : Identify(d, r)
             \/ Refresh(d) \/ Progress(d) \/ Resume(d) \/ Crash(d),
             ~Send(d)
      PROVE  UNCHANGED sent
  <2>1. CASE \/ PersistIntent(d) \/ PersistCompiled(d) \/ PersistOverflow(d)
             \/ PersistMissing(d) \/ StartAttempt(d) \/ PersistParsed(d)
             \/ AcknowledgeSuccess(d) \/ PersistFailure(d)
    <3>1. PICK kind, compiled, cost : Recorded(d, kind, compiled, cost)
      BY <2>1, RecordingSteps
    <3> QED BY <3>1 DEF Recorded, Record, Refused
  <2>2. CASE \/ \E r \in Requests : Identify(d, r) \/ RecoverRequest(d, r)
             \/ \E c \in Compiled : Compile(d, c)
             \/ Refresh(d)
             \/ \E cost \in Costs \cup {UnknownCost} : Fail(d, cost) \/ Answer(d, cost)
             \/ AcknowledgeFailure(d) \/ AbandonResponse(d)
             \/ PublishObservation(d) \/ Raise(d)
             \/ Open(d) \/ FinishOpen(d) \/ BeginRecover(d) \/ EndRecover(d)
             \/ Crash(d)
    BY <2>2 DEF Identify, RecoverRequest, Compile, Refresh, Fail, Answer,
         AcknowledgeFailure, AbandonResponse, PublishObservation, Raise, Open,
         FinishOpen, BeginRecover, EndRecover, Crash
  <2> QED BY <1>4, <2>1, <2>2 DEF Progress, Resume
<1> QED BY <1>1, <1>2, <1>3, <1>4 DEF DispatchNext

\* A dispatcher comes to "started" only by marking the attempt of its request.
LEMMA StartsMarked ==
  ASSUME DispatchTypeOK, [DispatchNext]_dispatchVars,
         NEW d \in Dispatchers, pc'[d] = "started"
  PROVE  /\ req'[d] = req[d]
         /\ req[d] \in Requests
         /\ \/ pc[d] = "started"
            \/ /\ ledger[req[d]].kind = "REQUEST_COMPILED"
               /\ ledger'[req[d]].kind = "ATTEMPT_STARTED"
<1>0. pc \in [Dispatchers -> Labels]
  BY DEF DispatchTypeOK, ProcessTypeOK
<1>1. CASE UNCHANGED dispatchVars
  BY <1>1 DEF dispatchVars, memVars, DispatchTypeOK, ProcessTypeOK, Working
<1>2. ASSUME NEW r \in Requests, Reconcile(r)
      PROVE  UNCHANGED <<pc, req>>
  BY <1>2 DEF Reconcile, memVars
<1>3. ASSUME NEW b \in Dispatchers, StartAttempt(b)
      PROVE  /\ req'[d] = req[d]
             /\ pc[d] # "started" =>
                  /\ ledger[req[d]].kind = "REQUEST_COMPILED"
                  /\ ledger'[req[d]].kind = "ATTEMPT_STARTED"
  <2> DEFINE r == req[b]
             e == OnCurrent(r, "ATTEMPT_STARTED", NoCost)
  <2>1. r \in Requests
    BY <1>3 DEF StartAttempt, DispatchTypeOK, ProcessTypeOK, Working
  <2>2. CASE Refused(b, e)
    BY <1>0, <2>2 DEF Refused, Leave, DispatchTypeOK, ProcessTypeOK, Labels
  <2>3. CASE Record(b, e) /\ Goto(b, "started")
    <3>1. AppendEvent(e) /\ e.unit = r /\ e.kind = "ATTEMPT_STARTED"
      BY <2>3 DEF Record, OnCurrent, Event
    <3>2. /\ ledger[r].kind \in AllowedFrom("ATTEMPT_STARTED")
          /\ ledger'[r].kind = TargetOf("ATTEMPT_STARTED", ledger[r].kind)
      BY <2>1, <3>1
         DEF AppendEvent, Acceptable, Advances, Advanced, DispatchTypeOK,
             LedgerTypeOK
    <3>3. /\ ledger[r].kind = "REQUEST_COMPILED"
          /\ ledger'[r].kind = "ATTEMPT_STARTED"
      BY <3>2 DEF AllowedFrom, TargetOf, Attempted
    <3> QED BY <1>0, <2>3, <3>3 DEF Goto
  <2> QED BY <1>3, <2>2, <2>3 DEF StartAttempt, RecordOrLeave
<1>4. ASSUME NEW b \in Dispatchers,
             \/ \E r \in Requests : Identify(b, r)
             \/ Refresh(b) \/ Progress(b) \/ Resume(b) \/ Crash(b),
             ~StartAttempt(b)
      PROVE  pc[d] = "started" /\ req'[d] = req[d]
  <2>1. \/ UNCHANGED <<pc, req>>
        \/ \E l \in Labels \ {"started"} :
             /\ pc' = [pc EXCEPT ![b] = l]
             /\ \/ req' = [req EXCEPT ![b] = NoRequest]
                \/ \E r \in Requests : req' = [req EXCEPT ![b] = r]
                \/ UNCHANGED req
    <3>1. CASE \/ PersistIntent(b) \/ PersistCompiled(b) \/ PersistOverflow(b)
               \/ PersistMissing(b) \/ PersistParsed(b)
               \/ AcknowledgeSuccess(b) \/ PersistFailure(b)
      BY <3>1 DEF PersistIntent, PersistCompiled, PersistOverflow,
           PersistMissing, PersistParsed, AcknowledgeSuccess, PersistFailure,
           RecordOrLeave, RecordAndLeave, Refused, Leave, Goto, Labels, Working
    <3>2. CASE \/ \E r \in Requests : Identify(b, r) \/ RecoverRequest(b, r)
               \/ \E c \in Compiled : Compile(b, c)
               \/ Refresh(b) \/ Send(b)
               \/ \E cost \in Costs \cup {UnknownCost} :
                    Fail(b, cost) \/ Answer(b, cost)
               \/ AcknowledgeFailure(b) \/ AbandonResponse(b)
               \/ PublishObservation(b) \/ Raise(b)
               \/ Open(b) \/ FinishOpen(b) \/ BeginRecover(b) \/ EndRecover(b)
               \/ Crash(b)
      BY <3>2 DEF Identify, RecoverRequest, Compile, Refresh, Send, Fail, Answer,
           AcknowledgeFailure, AbandonResponse, PublishObservation, Raise, Open,
           FinishOpen, BeginRecover, EndRecover, Crash, Leave, Goto, memVars,
           Labels, Working
    <3> QED BY <1>4, <3>1, <3>2 DEF Progress, Resume
  <2> QED BY <1>0, <2>1 DEF DispatchTypeOK, ProcessTypeOK
<1>5. pc[d] = "started" => req[d] \in Requests
  BY DEF DispatchTypeOK, ProcessTypeOK, Working
<1>6. pc'[d] = "started" => req'[d] \in Requests
  BY TypeStep DEF DispatchTypeOK, ProcessTypeOK, Working
<1> QED BY <1>1, <1>2, <1>3, <1>4, <1>5, <1>6 DEF DispatchNext

\* Nobody but the operator, who touches bills only, writes beside the lock, and
\* a dispatcher that has marked an attempt and not sent it writes nothing.
LEMMA WritesUnderLock ==
  ASSUME DispatchTypeOK, [DispatchNext]_dispatchVars,
         NEW d \in Dispatchers, pc[d] = "started",
         NEW x \in Requests, ledger[x].kind = "ATTEMPT_STARTED"
  PROVE  ledger'[x].kind = "ATTEMPT_STARTED"
<1> USE DEF diskVars
<1>0. lock = d /\ d # NoOwner
  BY DispatchAssumption DEF DispatchTypeOK, ProcessTypeOK, Working
<1>1. CASE UNCHANGED dispatchVars
  BY <1>1 DEF dispatchVars
<1>2. ASSUME NEW r \in Requests, Reconcile(r)
      PROVE  ledger'[x] = ledger[x]
  <2>1. PICK cost \in Costs : AppendEvent(OnCurrent(r, "COST_RECONCILED", cost))
    BY <1>2 DEF Reconcile, ReconcileCost
  <2>2. ledger[r].kind \in AllowedFrom("COST_RECONCILED")
    BY <2>1 DEF AppendEvent, Acceptable, Advances, OnCurrent, Event
  <2>3. ledger[r].kind \in Attempted
    BY <2>2 DEF AllowedFrom, Attempted
  <2>4. ledger' = [ledger EXCEPT ![r] = Advanced(@, OnCurrent(r, "COST_RECONCILED", cost))]
    BY <2>1 DEF AppendEvent, OnCurrent, Event
  <2> QED BY <2>3, <2>4 DEF DispatchTypeOK, LedgerTypeOK, Attempted
<1>3. ASSUME NEW b \in Dispatchers,
             \/ \E r \in Requests : Identify(b, r)
             \/ Refresh(b) \/ Progress(b) \/ Resume(b) \/ Crash(b)
      PROVE  UNCHANGED ledger
  <2>1. CASE \/ PersistIntent(b) \/ PersistCompiled(b) \/ PersistOverflow(b)
             \/ PersistMissing(b) \/ StartAttempt(b) \/ PersistParsed(b)
             \/ AcknowledgeSuccess(b) \/ PersistFailure(b)
             \/ \E r \in Requests : RecoverRequest(b, r)
    <3>1. lock \in {b, NoOwner} /\ pc[b] # "started"
      BY <2>1 DEF PersistIntent, PersistCompiled, PersistOverflow, PersistMissing,
           StartAttempt, PersistParsed, AcknowledgeSuccess, PersistFailure,
           RecoverRequest, DispatchTypeOK, ProcessTypeOK, Working
    <3> QED BY <1>0, <3>1
  <2>2. CASE \/ \E r \in Requests : Identify(b, r)
             \/ \E c \in Compiled : Compile(b, c)
             \/ Refresh(b) \/ Send(b)
             \/ \E cost \in Costs \cup {UnknownCost} : Fail(b, cost) \/ Answer(b, cost)
             \/ AcknowledgeFailure(b) \/ AbandonResponse(b)
             \/ PublishObservation(b) \/ Raise(b)
             \/ Open(b) \/ FinishOpen(b) \/ BeginRecover(b) \/ EndRecover(b)
             \/ Crash(b)
    BY <2>2 DEF Identify, Compile, Refresh, Send, Fail, Answer,
         AcknowledgeFailure, AbandonResponse, PublishObservation, Raise, Open,
         FinishOpen, BeginRecover, EndRecover, Crash
  <2> QED BY <1>3, <2>1, <2>2 DEF Progress, Resume
<1> QED BY <1>1, <1>2, <1>3 DEF DispatchNext

\* Every step keeps the inductive invariant.
LEMMA DispatchInvStep ==
  DispatchIInv /\ [DispatchNext]_dispatchVars => DispatchIInv'
<1> SUFFICES ASSUME DispatchIInv, [DispatchNext]_dispatchVars PROVE DispatchIInv'
  OBVIOUS
<1> USE DEF DispatchIInv
<1>1. DispatchTypeOK'
  BY TypeStep
<1>2. sent \in [Requests -> Nat]
  BY DEF DispatchTypeOK, WorldTypeOK
<1>3. CASE UNCHANGED sent
  <2>1. NeverResent'
    BY <1>3 DEF NeverResent
  <2>2. SentIsMarked'
    BY <1>3, LedgerStep DEF SentIsMarked
  <2>3. ASSUME NEW d \in Dispatchers, pc'[d] = "started"
        PROVE  ledger'[req'[d]].kind = "ATTEMPT_STARTED" /\ sent'[req'[d]] = 0
    <3>1. /\ req'[d] = req[d] /\ req[d] \in Requests
          /\ \/ pc[d] = "started"
             \/ /\ ledger[req[d]].kind = "REQUEST_COMPILED"
                /\ ledger'[req[d]].kind = "ATTEMPT_STARTED"
      BY <2>3, StartsMarked
    <3>2. CASE pc[d] = "started"
      BY <1>3, <3>1, <3>2, WritesUnderLock DEF StartedIsUnsent
    <3>3. CASE /\ ledger[req[d]].kind = "REQUEST_COMPILED"
               /\ ledger'[req[d]].kind = "ATTEMPT_STARTED"
      <4>1. ~ sent[req[d]] > 0
        BY <3>1, <3>3 DEF SentIsMarked, Attempted
      <4> QED BY <1>2, <1>3, <3>1, <3>3, <4>1
    <3> QED BY <3>1, <3>2, <3>3
  <2> QED BY <1>1, <2>1, <2>2, <2>3 DEF StartedIsUnsent
<1>4. ASSUME NEW d \in Dispatchers, pc[d] = "started", lock = d,
             req[d] \in Requests, sent' = [sent EXCEPT ![req[d]] = @ + 1],
             UNCHANGED <<ledger, req>>, pc' = [pc EXCEPT ![d] = "sent"]
      PROVE  DispatchIInv'
  <2>1. sent[req[d]] = 0 /\ ledger[req[d]].kind = "ATTEMPT_STARTED"
    BY <1>4 DEF StartedIsUnsent
  <2>2. NeverResent'
    BY <1>2, <1>4, <2>1 DEF NeverResent
  <2>3. SentIsMarked'
    BY <1>2, <1>4, <2>1 DEF SentIsMarked
  <2>4. \A b \in Dispatchers : pc'[b] # "started"
    BY <1>4 DEF DispatchTypeOK, ProcessTypeOK, Working
  <2> QED BY <1>1, <2>2, <2>3, <2>4 DEF StartedIsUnsent
<1> QED BY <1>3, <1>4, SendsUnderLock

\* The inductive invariant holds in the beginning.
LEMMA DispatchInvInit == DispatchInit => DispatchIInv
<1> SUFFICES ASSUME DispatchInit PROVE DispatchIInv
  OBVIOUS
<1>1. LedgerTypeOK
  BY InvInit DEF DispatchInit, LedgerIInv
<1>2. WorldTypeOK
  BY DispatchAssumption DEF DispatchInit, WorldTypeOK, MaybeCompiled, MaybeCost
<1>3. ProcessTypeOK
  BY DispatchAssumption
     DEF DispatchInit, ProcessTypeOK, MaybeCost, Labels, Working
<1>4. NeverResent /\ SentIsMarked /\ StartedIsUnsent
  BY DEF DispatchInit, NeverResent, SentIsMarked, StartedIsUnsent
<1> QED BY <1>1, <1>2, <1>3, <1>4 DEF DispatchIInv, DispatchTypeOK

\* The inductive invariant holds in every state of every execution.
THEOREM DispatchInvariant == DispatchSpec => []DispatchIInv
BY DispatchInvInit, DispatchInvStep, PTL DEF DispatchSpec

\* Labels, requests at hand and the lock belong together.
THEOREM DispatchTypeCorrect == DispatchSpec => []DispatchTypeOK
<1>1. DispatchIInv => DispatchTypeOK
  BY DEF DispatchIInv
<1> QED BY <1>1, DispatchInvariant, PTL

\* With any number of dispatchers and any number of crashes, no request goes
\* out to the provider twice.
THEOREM DispatchNeverResent == DispatchSpec => []NeverResent
<1>1. DispatchIInv => NeverResent
  BY DEF DispatchIInv
<1> QED BY <1>1, DispatchInvariant, PTL

\* No request has gone out that the disk does not show as attempted.
THEOREM DispatchSentIsMarked == DispatchSpec => []SentIsMarked
<1>1. DispatchIInv => SentIsMarked
  BY DEF DispatchIInv
<1> QED BY <1>1, DispatchInvariant, PTL

\* Dispatchers, recoveries and operators together implement the ledger.
THEOREM DispatchImplements == DispatchSpec => DispatchImplementsLedger
<1>1. DispatchInit => LedgerInit
  BY DEF DispatchInit
<1>2. DispatchTypeOK /\ [DispatchNext]_dispatchVars => [LedgerNext]_ledgerVars
  BY StepRefines
<1> QED
  BY <1>1, <1>2, DispatchTypeCorrect, PTL
     DEF DispatchSpec, DispatchImplementsLedger, LedgerSpec

\* So the promise about the provider carries over to the dispatchers.
THEOREM DispatchImplementsExposure == DispatchSpec => ImplementsExposure
BY DispatchImplements, LedgerImplementsExposure, PTL
   DEF DispatchImplementsLedger

-------------------------------------------------------------------------------
(* What the disk holds, and what an answer was billed. *)

\* From the marked attempt to the last event about it.
Holding == {"started", "sent", "parsed", "waiting", "failing", "observed"}

\* What a dispatcher needs on disk for the event it comes to is there.
HandOnDisk ==
  \A d \in Dispatchers :
    /\ pc[d] \in Working \cup {"waiting"} => req[d] \in identities
    /\ pc[d] = "observed" => req[d] \in observations

\* EvidenceOnDisk, for the request at hand as well; a request may be begun at
\* any revision, so the identity is tied to the kind of the state too.
DiskIInv ==
  /\ EvidenceOnDisk
  /\ \A r \in Requests : ledger[r].kind # "PENDING" => r \in identities
  /\ HandOnDisk

\* A dispatcher that holds an attempt holds the provider's answer to it as the
\* cost it is about to record, and no other dispatcher holds that attempt.
HeldAnswer ==
  \A d \in Dispatchers :
    /\ pc[d] \in Holding =>
         ledger[req[d]].kind \in Attempted \cup {"ATTEMPT_STARTED"}
    /\ pc[d] = "sent" => ledger[req[d]].kind = "ATTEMPT_STARTED"
    /\ pc[d] \in {"sent", "parsed", "waiting"} => sent[req[d]] > 0
    /\ pc[d] \in {"parsed", "waiting"} =>
         due[d] = reply[req[d]] /\ due[d] # NoCost
    /\ pc[d] \in {"failing", "observed"} /\ reply[req[d]] \in Costs =>
         due[d] = reply[req[d]]
    /\ \A b \in Dispatchers \ {d} :
         pc[d] \in Holding /\ pc[b] \in Holding => req[d] # req[b]

\* Only what went out is answered.
RepliedIsSent == \A r \in Requests : reply[r] # NoCost => sent[r] > 0

\* BilledAsAnswered, made inductive.
BillIInv == BilledAsAnswered /\ HeldAnswer /\ RepliedIsSent

\* What advance makes of the state of the request an event is about.
Advancing(e) ==
  /\ e.unit \in Requests
  /\ ledger[e.unit].kind \in AllowedFrom(e.kind)
  /\ ledger'[e.unit].kind = TargetOf(e.kind, ledger[e.unit].kind)
  /\ ledger'[e.unit].compiled = e.compiled
  /\ ledger'[e.unit].cost = e.cost
  /\ e.kind # "REQUEST_COMPILED" => e.compiled = ledger[e.unit].compiled
  /\ \A x \in Requests \ {e.unit} : ledger'[x] = ledger[x]
  /\ Len(log) \in Nat /\ Len(log') = Len(log) + 1

\* append accepts an event only from a state that allows it, and writes its target.
LEMMA AppendAdvances ==
  ASSUME LedgerTypeOK, NEW e, e.unit \in Requests, AppendEvent(e)
  PROVE  /\ Advancing(e)
         /\ e.kind = "COST_RECONCILED" => ledger[e.unit].cost = UnknownCost
BY DEF Advancing, AppendEvent, Acceptable, Advances, Advanced, LedgerTypeOK

\* The kinds of event a dispatcher appends.
DispatcherKinds ==
  {"DISPATCH_INTENT", "REQUEST_COMPILED", "ATTEMPT_STARTED", "COMPLETED",
   "INPUT_ENVELOPE_OVERFLOW", "TERMINAL_TECHNICAL_MISSING",
   "ATTEMPTED_PROVIDER_FAILURE"}

\* What a dispatcher does to the ledger, with the label it goes to.
Appending(d, e, label) ==
  /\ Advancing(e)
  /\ e.unit = req[d]
  /\ e.kind \in DispatcherKinds
  /\ lock \in {d, NoOwner}
  /\ pc[d] \in Working \cup {"waiting"}
  /\ e.kind = "DISPATCH_INTENT" => pc[d] = "identified"
  /\ e.kind = "REQUEST_COMPILED" => e.compiled = receipts[req[d]]
  /\ label \in {"intended", "compiled", "started"} =>
       /\ e.kind \in {"DISPATCH_INTENT", "REQUEST_COMPILED", "ATTEMPT_STARTED"}
       /\ pc[d] \in {"identified", "filed", "compiled"}
  /\ e.kind = "ATTEMPT_STARTED" <=> label = "started"
  /\ e.kind = "ATTEMPT_STARTED" => receipts[req[d]] \notin Oversize
  /\ e.kind = "COMPLETED" =>
       /\ pc[d] \in {"parsed", "waiting"}
       /\ e.cost = due[d]
       /\ pc[d] = "waiting" => due[d] \in Costs
  /\ e.kind = "ATTEMPTED_PROVIDER_FAILURE" =>
       pc[d] = "observed" /\ e.cost = due[d]
  /\ label \in {"intended", "compiled", "overflowing", "started", "idle"}
  /\ label # "idle" => pc[d] \notin Holding
  /\ pc' = [pc EXCEPT ![d] = label]
  /\ \/ UNCHANGED <<req, due>>
     \/ /\ label = "idle"
        /\ req' = [req EXCEPT ![d] = NoRequest]
        /\ due' = [due EXCEPT ![d] = NoCost]
  /\ generation' = [generation EXCEPT ![d] = Len(log')]
  /\ terminal' = [terminal EXCEPT ![d] =
       IF e.kind \in FailedKinds THEN @ \cup Terminated(ParentOf[e.unit]) ELSE @]
  /\ UNCHANGED <<identities, receipts, observations, worldVars>>


\* Every recording action is such an append, or is refused and leaves the lock.
LEMMA RecordingAppends ==
  ASSUME DispatchTypeOK, NEW d \in Dispatchers,
         \/ PersistIntent(d) \/ PersistCompiled(d) \/ PersistOverflow(d)
         \/ PersistMissing(d) \/ StartAttempt(d) \/ PersistParsed(d)
         \/ AcknowledgeSuccess(d) \/ PersistFailure(d)
  PROVE  \/ \E e, label : Appending(d, e, label)
         \/ Leave(d) /\ UNCHANGED <<diskVars, worldVars, terminal, generation>>
<1> DEFINE r == req[d]
<1>1. /\ r \in Requests
      /\ lock \in {d, NoOwner}
      /\ pc[d] \in Working \cup {"waiting"}
  BY DEF DispatchTypeOK, ProcessTypeOK, Working, PersistIntent, PersistCompiled,
         PersistOverflow, PersistMissing, StartAttempt, PersistParsed,
         AcknowledgeSuccess, PersistFailure
<1>2. ASSUME NEW e, e.unit = r, Record(d, e)
      PROVE  /\ Advancing(e)
             /\ generation' = [generation EXCEPT ![d] = Len(log')]
             /\ terminal' = [terminal EXCEPT ![d] =
                  IF e.kind \in FailedKinds
                  THEN @ \cup Terminated(ParentOf[e.unit]) ELSE @]
             /\ UNCHANGED <<identities, receipts, observations, worldVars>>
  BY <1>1, <1>2, AppendAdvances DEF Record, DispatchTypeOK
<1>3. ASSUME NEW e, Refused(d, e)
      PROVE  Leave(d) /\ UNCHANGED <<diskVars, worldVars, terminal, generation>>
  BY <1>3 DEF Refused
<1>4. ASSUME NEW kind \in DispatcherKinds, NEW label, NEW e,
             NEW before \in SUBSET Labels,
             \/ /\ kind = "DISPATCH_INTENT" /\ label = "intended"
                /\ before = {"identified"}
             \/ /\ kind = "REQUEST_COMPILED" /\ label = "compiled"
                /\ before = {"filed"}
             \/ /\ kind = "INPUT_ENVELOPE_OVERFLOW" /\ label = "overflowing"
                /\ before = {"compiled"}
             \/ /\ kind = "ATTEMPT_STARTED" /\ label = "started"
                /\ before = {"compiled"}
                /\ receipts[r] \notin Oversize,
             pc[d] \in before, e.unit = r, e.kind = kind,
             kind = "REQUEST_COMPILED" => e.compiled = receipts[r],
             RecordOrLeave(d, e, label)
      PROVE  \/ \E f, l : Appending(d, f, l)
             \/ Leave(d) /\ UNCHANGED <<diskVars, worldVars, terminal, generation>>
  <2>1. CASE Refused(d, e)
    BY <1>3, <2>1
  <2>2. CASE Record(d, e) /\ Goto(d, label)
    <3>1. Appending(d, e, label)
      BY <1>1, <1>2, <1>4, <2>2
         DEF Appending, Goto, DispatcherKinds, Holding
    <3> QED BY <3>1
  <2> QED BY <1>4, <2>1, <2>2 DEF RecordOrLeave
<1>5. ASSUME NEW kind \in DispatcherKinds, NEW e,
             \/ kind = "TERMINAL_TECHNICAL_MISSING" /\ e.cost = NoCost
             \/ /\ kind = "COMPLETED" /\ e.cost = due[d]
                /\ pc[d] \in {"parsed", "waiting"}
                /\ pc[d] = "waiting" => due[d] \in Costs
             \/ /\ kind = "ATTEMPTED_PROVIDER_FAILURE" /\ e.cost = due[d]
                /\ pc[d] = "observed",
             e.unit = r, e.kind = kind,
             RecordAndLeave(d, e)
      PROVE  \/ \E f, l : Appending(d, f, l)
             \/ Leave(d) /\ UNCHANGED <<diskVars, worldVars, terminal, generation>>
  <2>1. CASE Refused(d, e)
    BY <1>3, <2>1
  <2>2. CASE Record(d, e) /\ Leave(d)
    <3>1. Appending(d, e, "idle")
      BY <1>1, <1>2, <1>5, <2>2 DEF Appending, Leave, DispatcherKinds
    <3> QED BY <3>1
  <2> QED BY <1>5, <2>1, <2>2 DEF RecordAndLeave
<1>6. ASSUME NEW kind, NEW cost
      PROVE  /\ OnCurrent(r, kind, cost).unit = r
             /\ OnCurrent(r, kind, cost).kind = kind
             /\ OnCurrent(r, kind, cost).cost = cost
  BY DEF OnCurrent, Event
<1> USE DEF Labels, Working, DispatcherKinds
<1>7. CASE PersistIntent(d)
  <2> DEFINE e == OnCurrent(r, "DISPATCH_INTENT", NoCost)
  <2>1. e.unit = r /\ e.kind = "DISPATCH_INTENT"
    BY <1>6
  <2>2. /\ pc[d] \in {"identified"}
        /\ RecordOrLeave(d, e, "intended")
    BY <1>7 DEF PersistIntent
  <2> HIDE DEF e
  <2> QED BY <1>4, <2>1, <2>2
<1>8. CASE PersistCompiled(d)
  <2> DEFINE e == Event(r, "REQUEST_COMPILED", ledger[r].revision, receipts[r],
                        NoCost)
  <2>1. e.unit = r /\ e.kind = "REQUEST_COMPILED" /\ e.compiled = receipts[r]
    BY DEF Event
  <2>2. pc[d] \in {"filed"} /\ RecordOrLeave(d, e, "compiled")
    BY <1>8 DEF PersistCompiled
  <2> QED BY <1>4, <2>1, <2>2
<1>9. CASE PersistOverflow(d)
  <2> DEFINE e == OnCurrent(r, "INPUT_ENVELOPE_OVERFLOW", NoCost)
  <2>1. e.unit = r /\ e.kind = "INPUT_ENVELOPE_OVERFLOW"
    BY <1>6
  <2>2. /\ pc[d] \in {"compiled"}
        /\ RecordOrLeave(d, e, "overflowing")
    BY <1>9 DEF PersistOverflow
  <2> HIDE DEF e
  <2> QED BY <1>4, <2>1, <2>2
<1>10. CASE StartAttempt(d)
  <2> DEFINE e == OnCurrent(r, "ATTEMPT_STARTED", NoCost)
  <2>1. e.unit = r /\ e.kind = "ATTEMPT_STARTED"
    BY <1>6
  <2>2. /\ pc[d] \in {"compiled"}
        /\ RecordOrLeave(d, e, "started")
        /\ receipts[r] \notin Oversize
    BY <1>10 DEF StartAttempt
  <2> HIDE DEF e
  <2> QED BY <1>4, <2>1, <2>2
<1>11. CASE PersistMissing(d)
  BY <1>5, <1>6, <1>11 DEF PersistMissing
<1>12. CASE PersistParsed(d)
  BY <1>5, <1>6, <1>12 DEF PersistParsed
<1>13. CASE AcknowledgeSuccess(d)
  BY <1>5, <1>6, <1>13 DEF AcknowledgeSuccess
<1>14. CASE PersistFailure(d)
  BY <1>5, <1>6, <1>14 DEF PersistFailure
<1> QED BY <1>7, <1>8, <1>9, <1>10, <1>11, <1>12, <1>13, <1>14

\* The operator settles a bill and touches nothing else.
LEMMA ReconcileSettles ==
  ASSUME DispatchTypeOK, NEW r \in Requests, Reconcile(r)
  PROVE  /\ ledger[r].kind \in Attempted
         /\ ledger[r].cost = UnknownCost
         /\ ledger'[r].kind = ledger[r].kind
         /\ ledger'[r].compiled = ledger[r].compiled
         /\ \A x \in Requests \ {r} : ledger'[x] = ledger[x]
         /\ Len(log) \in Nat /\ Len(log') = Len(log) + 1
         /\ UNCHANGED <<identities, receipts, observations, worldVars, memVars>>
<1>1. PICK cost \in Costs : AppendEvent(OnCurrent(r, "COST_RECONCILED", cost))
  BY DEF Reconcile, ReconcileCost
<1> DEFINE e == OnCurrent(r, "COST_RECONCILED", cost)
<1>2. e.unit = r /\ e.kind = "COST_RECONCILED"
  BY DEF OnCurrent, Event
<1>3. Advancing(e) /\ ledger[r].cost = UnknownCost
  BY <1>1, <1>2, AppendAdvances DEF DispatchTypeOK
<1> HIDE DEF e
<1> QED BY <1>2, <1>3 DEF Advancing, AllowedFrom, TargetOf, Attempted, Reconcile

\* A recovery ends what is in flight, from the marker on disk.
LEMMA RecoverySettles ==
  ASSUME DispatchTypeOK, NEW d \in Dispatchers, NEW r \in Requests,
         RecoverRequest(d, r)
  PROVE  /\ lock = d /\ pc[d] = "recovering"
         /\ ledger[r].kind \in Unresolved
         /\ ledger'[r].compiled = ledger[r].compiled
         /\ ledger'[r].kind \in {"PENDING", "AMBIGUOUS_ATTEMPT",
              "TERMINAL_TECHNICAL_MISSING", "INPUT_ENVELOPE_OVERFLOW"}
         /\ ledger'[r].kind = "AMBIGUOUS_ATTEMPT" <=>
              ledger[r].kind = "ATTEMPT_STARTED"
         /\ ledger'[r].kind = "PENDING" =>
              \/ ledger[r].kind = "DISPATCH_INTENT_PERSISTED"
              \/ ledger[r].compiled \notin Oversize
         /\ \A x \in Requests \ {r} : ledger'[x] = ledger[x]
         /\ Len(log) \in Nat /\ Len(log') = Len(log) + 1
         /\ UNCHANGED <<identities, receipts, observations, worldVars, memVars>>
<1>1. ASSUME NEW kind, NEW cost, AppendEvent(OnCurrent(r, kind, cost))
      PROVE  /\ ledger[r].kind \in AllowedFrom(kind)
             /\ ledger'[r].kind = TargetOf(kind, ledger[r].kind)
             /\ ledger'[r].compiled = ledger[r].compiled
             /\ \A x \in Requests \ {r} : ledger'[x] = ledger[x]
             /\ Len(log) \in Nat /\ Len(log') = Len(log) + 1
  <2> DEFINE e == OnCurrent(r, kind, cost)
  <2>1. e.unit = r /\ e.kind = kind /\ e.compiled = ledger[r].compiled
    BY DEF OnCurrent, Event
  <2>2. Advancing(e)
    BY <1>1, <2>1, AppendAdvances DEF DispatchTypeOK
  <2> HIDE DEF e
  <2> QED BY <2>1, <2>2 DEF Advancing
<1>2. lock = d /\ pc[d] = "recovering"
  BY DEF RecoverRequest, DispatchTypeOK, ProcessTypeOK
<1>3. \/ /\ ledger[r].kind \in {"DISPATCH_INTENT_PERSISTED", "REQUEST_COMPILED"}
         /\ ledger[r].kind = "REQUEST_COMPILED" =>
              ledger[r].compiled \notin Oversize
         /\ AppendEvent(OnCurrent(r, "NO_REQUEST", NoCost))
      \/ /\ ledger[r].kind = "ATTEMPT_STARTED"
         /\ AppendEvent(OnCurrent(r, "AMBIGUOUS_ATTEMPT", UnknownCost))
      \/ /\ ledger[r].kind = "INPUT_ENVELOPE_OVERFLOW"
         /\ AppendEvent(OnCurrent(r, "TERMINAL_TECHNICAL_MISSING", NoCost))
      \/ /\ ledger[r].kind = "REQUEST_COMPILED"
         /\ AppendEvent(OnCurrent(r, "INPUT_ENVELOPE_OVERFLOW", NoCost))
  BY DEF RecoverRequest, Recover
<1> QED
  BY <1>1, <1>2, <1>3
     DEF RecoverRequest, TargetOf, Attempted, Unresolved

\* The steps that leave the ledger alone.
Silent(d) ==
  \/ \E r \in Requests : Identify(d, r)
  \/ \E c \in Compiled : Compile(d, c)
  \/ Refresh(d) \/ Send(d)
  \/ \E cost \in Costs \cup {UnknownCost} : Fail(d, cost) \/ Answer(d, cost)
  \/ AcknowledgeFailure(d) \/ AbandonResponse(d) \/ PublishObservation(d)
  \/ Raise(d) \/ Open(d) \/ FinishOpen(d) \/ BeginRecover(d) \/ EndRecover(d)
  \/ Crash(d)

\* The kinds of step the invariants below tell apart.
LEMMA StepKinds ==
  ASSUME DispatchTypeOK, [DispatchNext]_dispatchVars
  PROVE  \/ UNCHANGED dispatchVars
         \/ \E r \in Requests : Reconcile(r)
         \/ \E d \in Dispatchers :
              \/ \E e, label : Appending(d, e, label)
              \/ Leave(d) /\ UNCHANGED <<diskVars, worldVars, terminal, generation>>
              \/ \E r \in Requests : RecoverRequest(d, r)
              \/ Silent(d)
<1>1. ASSUME NEW d \in Dispatchers,
             \/ \E r \in Requests : Identify(d, r)
             \/ Refresh(d) \/ Progress(d) \/ Resume(d) \/ Crash(d)
      PROVE  \/ \E e, label : Appending(d, e, label)
             \/ Leave(d) /\ UNCHANGED <<diskVars, worldVars, terminal, generation>>
             \/ \E r \in Requests : RecoverRequest(d, r)
             \/ Silent(d)
  <2>1. CASE \/ PersistIntent(d) \/ PersistCompiled(d) \/ PersistOverflow(d)
             \/ PersistMissing(d) \/ StartAttempt(d) \/ PersistParsed(d)
             \/ AcknowledgeSuccess(d) \/ PersistFailure(d)
    BY <2>1, RecordingAppends
  <2>2. CASE ~ (\/ PersistIntent(d) \/ PersistCompiled(d) \/ PersistOverflow(d)
                \/ PersistMissing(d) \/ StartAttempt(d) \/ PersistParsed(d)
                \/ AcknowledgeSuccess(d) \/ PersistFailure(d))
    BY <1>1, <2>2 DEF Progress, Resume, Silent
  <2> QED BY <2>1, <2>2
<1> QED BY <1>1 DEF DispatchNext

\* Whatever the ledger refers to was put on disk first.
LEMMA DiskStep ==
  ASSUME DispatchTypeOK, DiskIInv, [DispatchNext]_dispatchVars
  PROVE  DiskIInv'
<1> USE DEF DiskIInv, EvidenceOnDisk, HandOnDisk
<1>0. /\ pc \in [Dispatchers -> Labels]
      /\ req \in [Dispatchers -> Requests \cup {NoRequest}]
      /\ receipts \in [Requests -> MaybeCompiled]
      /\ \A d \in Dispatchers :
           req[d] \in Requests <=> pc[d] \in Working \cup {"waiting"}
  BY DEF DispatchTypeOK, WorldTypeOK, ProcessTypeOK
<1>1. CASE UNCHANGED dispatchVars
  BY <1>1 DEF dispatchVars, diskVars, memVars
<1>2. ASSUME NEW r \in Requests, Reconcile(r)
      PROVE  DiskIInv'
  <2>1. /\ \A x \in Requests : /\ ledger'[x].kind = ledger[x].kind
                               /\ ledger'[x].compiled = ledger[x].compiled
        /\ \A x \in Requests : x # r => ledger'[x] = ledger[x]
        /\ r \in identities
        /\ UNCHANGED <<identities, receipts, observations, pc, req>>
    BY <1>2, ReconcileSettles DEF memVars, Attempted
  <2> QED BY <2>1
<1>3. ASSUME NEW d \in Dispatchers, NEW e, NEW label, Appending(d, e, label)
      PROVE  DiskIInv'
  <2>1. /\ e.unit \in Requests /\ e.unit = req[d]
        /\ e.unit \in identities
        /\ ledger'[e.unit].compiled = e.compiled
        /\ \A x \in Requests \ {e.unit} : ledger'[x] = ledger[x]
        /\ UNCHANGED <<identities, receipts, observations>>
    BY <1>3 DEF Appending, Advancing
  <2>2. ledger'[e.unit].compiled \in {NoCompiled, receipts[e.unit]}
    BY <1>3, <2>1 DEF Appending, Advancing
  <2>3. ledger'[e.unit].kind = "ATTEMPTED_PROVIDER_FAILURE" =>
          e.unit \in observations
    BY <1>3, <2>1
       DEF Appending, Advancing, DispatcherKinds, TargetOf
  <2>4. EvidenceOnDisk' /\ \A r \in Requests : r \in identities' \/ ledger'[r] = ledger[r]
    BY <2>1, <2>2, <2>3
  <2>5. HandOnDisk'
    BY <1>0, <1>3, <2>1 DEF Appending, Working
  <2> QED BY <2>4, <2>5, <2>1
<1>4. ASSUME NEW d \in Dispatchers, NEW r \in Requests, RecoverRequest(d, r)
      PROVE  DiskIInv'
  <2>1. /\ r \in identities
        /\ ledger'[r].compiled = ledger[r].compiled
        /\ ledger'[r].kind # "ATTEMPTED_PROVIDER_FAILURE"
        /\ \A x \in Requests : x # r => ledger'[x] = ledger[x]
        /\ UNCHANGED <<identities, receipts, observations, pc, req>>
    BY <1>4, RecoverySettles DEF memVars, Unresolved
  <2> QED BY <2>1
<1>5. ASSUME NEW d \in Dispatchers, Leave(d),
             UNCHANGED <<diskVars, worldVars, terminal, generation>>
      PROVE  DiskIInv'
  BY <1>0, <1>5 DEF Leave, diskVars, Working
<1>6. ASSUME NEW d \in Dispatchers, Silent(d)
      PROVE  DiskIInv'
  <2>1. ASSUME NEW r \in Requests, Identify(d, r)
        PROVE  DiskIInv'
    BY <1>0, <2>1 DEF Identify, Working
  <2>2. ASSUME NEW c \in Compiled, Compile(d, c)
        PROVE  DiskIInv'
    BY <1>0, <2>2, LedgerAssumption DEF Compile, Goto, Working, Labels
  <2>3. CASE PublishObservation(d)
    BY <1>0, <2>3 DEF PublishObservation, Goto, Working
  <2>4. ASSUME NEW cost \in Costs \cup {UnknownCost},
               Fail(d, cost) \/ Answer(d, cost)
        PROVE  DiskIInv'
    BY <1>0, <2>4 DEF Fail, Answer, diskVars, Working
  <2>5. CASE Refresh(d) \/ Send(d) \/ AcknowledgeFailure(d)
    BY <1>0, <2>5 DEF Refresh, Send, AcknowledgeFailure, Goto, diskVars, Working
  <2>6. CASE \/ AbandonResponse(d) \/ Raise(d) \/ Open(d) \/ FinishOpen(d)
             \/ BeginRecover(d) \/ EndRecover(d) \/ Crash(d)
    BY <1>0, <2>6 DEF AbandonResponse, Raise, Open, FinishOpen, BeginRecover,
                      EndRecover, Crash, Leave, diskVars, Working
  <2> QED BY <1>6, <2>1, <2>2, <2>3, <2>4, <2>5, <2>6 DEF Silent
<1> QED BY <1>1, <1>2, <1>3, <1>4, <1>5, <1>6, StepKinds

\* A compilation beyond the envelope stays where it cannot go out: the receipt
\* the attempt is checked against is the compilation on the ledger.
LEMMA OversizeStep ==
  ASSUME DispatchIInv, DispatchTypeOK', DiskIInv, OversizeIsFinal,
         [DispatchNext]_dispatchVars
  PROVE  OversizeIsFinal'
<1> DEFINE Kept == {"REQUEST_COMPILED", "INPUT_ENVELOPE_OVERFLOW",
                    "TERMINAL_TECHNICAL_MISSING"}
           Safe(r) == ledger[r].compiled \in Oversize =>
                        sent[r] = 0 /\ ledger[r].kind \in Kept
<1>0. /\ DispatchTypeOK
      /\ sent \in [Requests -> Nat]
      /\ \A r \in Requests : Safe(r)
      /\ NoCompiled \notin Oversize
  BY LedgerAssumption, DispatchAssumption
     DEF DispatchIInv, DispatchTypeOK, WorldTypeOK, OversizeIsFinal
<1> SUFFICES ASSUME NEW r \in Requests PROVE Safe(r)'
  BY DEF OversizeIsFinal
<1>1. CASE UNCHANGED dispatchVars
  BY <1>0, <1>1 DEF dispatchVars, diskVars, worldVars
<1>2. ASSUME NEW x \in Requests, Reconcile(x)
      PROVE  Safe(r)'
  <2>1. /\ ledger'[r].kind = ledger[r].kind
        /\ ledger'[r].compiled = ledger[r].compiled
        /\ sent' = sent
    BY <1>0, <1>2, ReconcileSettles DEF worldVars
  <2> QED BY <1>0, <2>1
<1>3. ASSUME NEW d \in Dispatchers, NEW e, NEW label, Appending(d, e, label)
      PROVE  Safe(r)'
  <2>1. /\ sent' = sent /\ e.unit \in Requests
        /\ r # e.unit => ledger'[r] = ledger[r]
    BY <1>3 DEF Appending, Advancing, worldVars
  <2>2. CASE r = e.unit /\ e.kind = "REQUEST_COMPILED"
    <3>0. /\ ledger[r].kind \in AllowedFrom("REQUEST_COMPILED")
          /\ ledger'[r].kind = TargetOf("REQUEST_COMPILED", ledger[r].kind)
      BY <1>3, <2>2 DEF Appending, Advancing
    <3>1. /\ ledger[r].kind = "DISPATCH_INTENT_PERSISTED"
          /\ ledger'[r].kind = "REQUEST_COMPILED"
      BY <3>0 DEF AllowedFrom, TargetOf, Attempted
    <3>2. ~ sent[r] > 0
      BY <3>1 DEF DispatchIInv, SentIsMarked, Attempted
    <3> QED BY <1>0, <2>1, <3>1, <3>2
  <2>3. CASE r = e.unit /\ e.kind # "REQUEST_COMPILED"
    <3>1. /\ ledger'[r].compiled = ledger[r].compiled
          /\ e.kind \in DispatcherKinds
          /\ ledger[r].kind \in AllowedFrom(e.kind)
          /\ ledger'[r].kind = TargetOf(e.kind, ledger[r].kind)
      BY <1>3, <2>3 DEF Appending, Advancing
    <3>2. e.kind = "ATTEMPT_STARTED" => ledger[r].compiled \notin Oversize
      BY <1>0, <1>3, <2>3
         DEF Appending, DiskIInv, EvidenceOnDisk
    <3>3. ledger[r].kind \in Kept => e.kind \in Kept \cup {"ATTEMPT_STARTED"}
      BY <2>3, <3>1
         DEF DispatcherKinds, AllowedFrom, Attempted
    <3>4. e.kind \in Kept => ledger'[r].kind \in Kept
      BY <3>1 DEF TargetOf
    <3> QED BY <1>0, <2>1, <3>1, <3>2, <3>3, <3>4
  <2> QED BY <1>0, <2>1, <2>2, <2>3
<1>4. ASSUME NEW d \in Dispatchers, NEW x \in Requests, RecoverRequest(d, x)
      PROVE  Safe(r)'
  <2>1. sent' = sent /\ (r # x => ledger'[r] = ledger[r])
    BY <1>0, <1>4, RecoverySettles DEF worldVars
  <2>2. ASSUME ledger[x].compiled \in Oversize
        PROVE  ledger'[x].kind \in Kept
    <3>1. ledger[x].kind \in {"REQUEST_COMPILED", "INPUT_ENVELOPE_OVERFLOW"}
      BY <1>0, <1>4, <2>2, RecoverySettles DEF Unresolved
    <3> QED BY <1>0, <1>4, <2>2, <3>1, RecoverySettles
  <2>3. ledger'[x].compiled = ledger[x].compiled
    BY <1>0, <1>4, RecoverySettles
  <2> QED BY <1>0, <2>1, <2>2, <2>3
<1>5. ASSUME UNCHANGED diskVars, UNCHANGED worldVars
      PROVE  Safe(r)'
  BY <1>0, <1>5 DEF diskVars, worldVars
<1>6. ASSUME NEW d \in Dispatchers, Silent(d)
      PROVE  Safe(r)'
  <2>1. ledger' = ledger
    BY <1>6 DEF Silent, Identify, Compile, Refresh, Send, Fail, Answer,
         AcknowledgeFailure, AbandonResponse, PublishObservation, Raise, Open,
         FinishOpen, BeginRecover, EndRecover, Crash, diskVars
  <2>2. CASE UNCHANGED sent
    BY <1>0, <2>1, <2>2
  <2>3. CASE ~ UNCHANGED sent
    <3>1. PICK b \in Dispatchers :
            /\ pc[b] = "started" /\ req[b] \in Requests
            /\ sent' = [sent EXCEPT ![req[b]] = @ + 1]
      BY <1>0, <2>3, SendsUnderLock
    <3>2. ledger[req[b]].kind = "ATTEMPT_STARTED"
      BY <3>1 DEF DispatchIInv, StartedIsUnsent
    <3> QED BY <1>0, <2>1, <3>1, <3>2
  <2> QED BY <2>2, <2>3
<1> QED BY <1>0, <1>1, <1>2, <1>3, <1>4, <1>5, <1>6, StepKinds

\* What a dispatcher holds is what was answered, and so is what it records.
LEMMA BillStep ==
  ASSUME DispatchIInv, DispatchTypeOK', NeverResent', BillIInv,
         [DispatchNext]_dispatchVars
  PROVE  BillIInv'
<1> DEFINE Marked == Attempted \cup {"ATTEMPT_STARTED"}
           Billed(r) ==
             /\ ledger[r].kind = "COMPLETED" => sent[r] = 1 /\ reply[r] # NoCost
             /\ /\ ledger[r].kind \in {"COMPLETED", "ATTEMPTED_PROVIDER_FAILURE"}
                /\ reply[r] \in Costs
                => ledger[r].cost = reply[r]
           Held(d) ==
             /\ pc[d] \in Holding => ledger[req[d]].kind \in Marked
             /\ pc[d] = "sent" => ledger[req[d]].kind = "ATTEMPT_STARTED"
             /\ pc[d] \in {"sent", "parsed", "waiting"} => sent[req[d]] > 0
             /\ pc[d] \in {"parsed", "waiting"} =>
                  due[d] = reply[req[d]] /\ due[d] # NoCost
             /\ pc[d] \in {"failing", "observed"} /\ reply[req[d]] \in Costs =>
                  due[d] = reply[req[d]]
           Alone(d, b) ==
             d # b /\ pc[d] \in Holding /\ pc[b] \in Holding => req[d] # req[b]
<1>0. /\ DispatchTypeOK
      /\ pc \in [Dispatchers -> Labels]
      /\ req \in [Dispatchers -> Requests \cup {NoRequest}]
      /\ due \in [Dispatchers -> MaybeCost]
      /\ sent \in [Requests -> Nat]
      /\ reply \in [Requests -> MaybeCost]
      /\ \A d \in Dispatchers :
           /\ req[d] \in Requests <=> pc[d] \in Working \cup {"waiting"}
           /\ lock = d <=> pc[d] \in Working \cup {"recovering"}
  BY DEF DispatchIInv, DispatchTypeOK, WorldTypeOK, ProcessTypeOK
<1>a. /\ \A r \in Requests : Billed(r)
      /\ \A d \in Dispatchers : Held(d)
      /\ \A d, b \in Dispatchers : Alone(d, b)
      /\ \A r \in Requests : reply[r] # NoCost => sent[r] > 0
  BY DEF BillIInv, BilledAsAnswered, HeldAnswer, RepliedIsSent
<1>b. ASSUME /\ \A r \in Requests : Billed(r)'
             /\ \A d \in Dispatchers : Held(d)'
             /\ \A d, b \in Dispatchers : Alone(d, b)'
             /\ \A r \in Requests : reply'[r] # NoCost => sent'[r] > 0
      PROVE  BillIInv'
  BY <1>b DEF BillIInv, BilledAsAnswered, HeldAnswer, RepliedIsSent
<1>c. ASSUME UNCHANGED <<ledger, sent, reply>>,
             \A d \in Dispatchers :
               \/ pc'[d] \notin Holding
               \/ pc'[d] = pc[d] /\ req'[d] = req[d] /\ due'[d] = due[d]
      PROVE  BillIInv'
  <2>1. \A r \in Requests : Billed(r)'
    BY <1>a, <1>c
  <2>2. \A d \in Dispatchers : Held(d)'
    BY <1>a, <1>c DEF Holding
  <2>3. \A d, b \in Dispatchers : Alone(d, b)'
    BY <1>a, <1>c
  <2> QED BY <1>a, <1>b, <1>c, <2>1, <2>2, <2>3
<1>1. CASE UNCHANGED dispatchVars
  BY <1>1, <1>c DEF dispatchVars, diskVars, worldVars, memVars
<1>2. ASSUME NEW r \in Requests, Reconcile(r)
      PROVE  BillIInv'
  <2>1. /\ \A x \in Requests : ledger'[x].kind = ledger[x].kind
        /\ \A x \in Requests : x # r => ledger'[x] = ledger[x]
        /\ ledger[r].cost = UnknownCost
        /\ UNCHANGED <<sent, reply, pc, req, due>>
    BY <1>0, <1>2, ReconcileSettles DEF worldVars, memVars
  <2>2. \A x \in Requests : Billed(x)'
    BY <1>a, <2>1, LedgerAssumption
  <2>3. \A d \in Dispatchers : Held(d)'
    BY <1>0, <1>a, <2>1 DEF Holding, Working
  <2> QED BY <1>a, <1>b, <2>1, <2>2, <2>3
<1>3. ASSUME NEW d \in Dispatchers, NEW e, NEW label, Appending(d, e, label)
      PROVE  BillIInv'
  <2> DEFINE r == req[d]
  <2>1. /\ r \in Requests
        /\ e.kind \in DispatcherKinds
        /\ ledger[r].kind \in AllowedFrom(e.kind)
        /\ ledger'[r].kind = TargetOf(e.kind, ledger[r].kind)
        /\ ledger'[r].cost = e.cost
        /\ \A x \in Requests : x # r => ledger'[x] = ledger[x]
        /\ UNCHANGED <<sent, reply>>
    BY <1>3 DEF Appending, Advancing, worldVars
  <2>2. ledger'[r].kind = "ATTEMPT_STARTED" <=> e.kind = "ATTEMPT_STARTED"
    BY <2>1 DEF TargetOf, DispatcherKinds
  <2>3. e.kind = "ATTEMPT_STARTED" => ledger[r].kind = "REQUEST_COMPILED"
    BY <2>1 DEF AllowedFrom, Attempted
  <2>4. \A b \in Dispatchers \ {d} : pc[b] \notin Working
    <3>1. lock \in {d, NoOwner}
      BY <1>3 DEF Appending
    <3> QED BY <1>0, <3>1, DispatchAssumption
  <2>5. \A b \in Dispatchers \ {d} :
          pc'[b] = pc[b] /\ req'[b] = req[b] /\ due'[b] = due[b]
    BY <1>0, <1>3 DEF Appending
  <2>6. /\ pc'[d] \in Holding => pc'[d] = "started" /\ e.kind = "ATTEMPT_STARTED"
        /\ pc'[d] = "started" => req'[d] = r
    BY <1>0, <1>3 DEF Appending, Holding
  <2>7. \A x \in Requests : ledger[x].kind \in Marked => ledger'[x].kind \in Marked
    BY <1>0, LedgerStep
  <2>8. ASSUME NEW x \in Requests, x = r PROVE Billed(x)'
    <3>1. e.kind = "COMPLETED" =>
            sent[r] > 0 /\ e.cost = reply[r] /\ reply[r] # NoCost
      BY <1>3, <1>a DEF Appending
    <3>2. e.kind = "ATTEMPTED_PROVIDER_FAILURE" /\ reply[r] \in Costs =>
            e.cost = reply[r]
      BY <1>3, <1>a DEF Appending
    <3>3. sent[r] <= 1
      BY <2>1 DEF DispatchIInv, NeverResent
    <3>4. ledger'[r].kind \in {"COMPLETED", "ATTEMPTED_PROVIDER_FAILURE"} =>
            ledger'[r].kind = e.kind
      BY <2>1 DEF TargetOf, DispatcherKinds
    <3> QED BY <1>0, <2>1, <2>8, <3>1, <3>2, <3>3, <3>4
  <2>9. \A x \in Requests : Billed(x)'
    BY <1>a, <2>1, <2>8
  <2>10. Held(d)'
    BY <2>2, <2>6 DEF Holding
  <2>11. ASSUME NEW b \in Dispatchers \ {d} PROVE Held(b)'
    <3>1. pc'[b] \in Holding => pc[b] = "waiting" /\ req[b] \in Requests
      BY <1>0, <2>4, <2>5 DEF Holding, Working
    <3>2. pc[b] = "waiting" => /\ ledger'[req[b]].kind \in Marked
      BY <1>0, <1>a, <2>7 DEF Holding
    <3> QED BY <1>a, <2>1, <2>5, <3>1, <3>2 DEF Holding
  <2>12. ASSUME NEW b \in Dispatchers \ {d},
                pc'[d] \in Holding, pc'[b] \in Holding
         PROVE  req'[d] # req'[b]
    <3>1. ledger[req[b]].kind \in Marked
      BY <1>a, <2>5, <2>12
    <3>2. ledger[r].kind \notin Marked
      BY <2>3, <2>6, <2>12 DEF Attempted
    <3> QED BY <2>5, <2>6, <2>12, <3>1, <3>2
  <2>13. \A b, c \in Dispatchers : Alone(b, c)'
    BY <1>a, <2>5, <2>12
  <2> QED BY <1>a, <1>b, <2>1, <2>9, <2>10, <2>11, <2>13
<1>4. ASSUME NEW d \in Dispatchers, NEW r \in Requests, RecoverRequest(d, r)
      PROVE  BillIInv'
  <2>1. /\ ledger'[r].kind \notin {"COMPLETED", "ATTEMPTED_PROVIDER_FAILURE"}
        /\ \A x \in Requests : x # r => ledger'[x] = ledger[x]
        /\ UNCHANGED <<sent, reply, pc, req, due>>
        /\ lock = d /\ pc[d] = "recovering"
    BY <1>0, <1>4, RecoverySettles DEF worldVars, memVars
  <2>2. \A x \in Requests : Billed(x)'
    BY <1>a, <2>1
  <2>3. \A b \in Dispatchers : pc[b] \notin Working
    BY <1>0, <2>1 DEF Working
  <2>4. \A x \in Requests : ledger[x].kind \in Marked => ledger'[x].kind \in Marked
    BY <1>0, LedgerStep
  <2>5. ASSUME NEW b \in Dispatchers PROVE Held(b)'
    <3>1. pc[b] \in Holding => pc[b] = "waiting" /\ req[b] \in Requests
      BY <1>0, <2>3 DEF Holding, Working
    <3> QED BY <1>a, <2>1, <2>4, <3>1 DEF Holding
  <2> QED BY <1>a, <1>b, <2>1, <2>2, <2>5
<1>5. ASSUME NEW d \in Dispatchers, Leave(d),
             UNCHANGED <<diskVars, worldVars, terminal, generation>>
      PROVE  BillIInv'
  BY <1>0, <1>5, <1>c DEF Leave, diskVars, worldVars, Holding
<1>6. ASSUME NEW d \in Dispatchers, Silent(d)
      PROVE  BillIInv'
  <2>1. CASE Send(d)
    <3> DEFINE r == req[d]
    <3>1. /\ pc[d] = "started" /\ r \in Requests
          /\ sent' = [sent EXCEPT ![r] = @ + 1]
          /\ pc' = [pc EXCEPT ![d] = "sent"]
          /\ UNCHANGED <<ledger, reply, req, due>>
      BY <1>0, <2>1 DEF Send, Goto, diskVars, Working
    <3>2. ledger[r].kind = "ATTEMPT_STARTED" /\ sent[r] = 0
      BY <3>1 DEF DispatchIInv, StartedIsUnsent
    <3>3. \A x \in Requests : sent'[x] >= sent[x] /\ sent'[r] = 1
                              /\ (x # r => sent'[x] = sent[x])
      BY <1>0, <3>1, <3>2
    <3>4. \A x \in Requests : Billed(x)'
      BY <1>a, <3>1, <3>2, <3>3
    <3>5. \A b \in Dispatchers : Held(b)'
      BY <1>0, <1>a, <3>1, <3>2, <3>3 DEF Holding, Working
    <3>6. \A b, c \in Dispatchers : Alone(b, c)'
      BY <1>0, <1>a, <3>1 DEF Holding
    <3> QED BY <1>0, <1>a, <1>b, <3>1, <3>3, <3>4, <3>5, <3>6
  <2>2. ASSUME NEW cost \in Costs \cup {UnknownCost},
               Fail(d, cost) \/ Answer(d, cost)
        PROVE  BillIInv'
    <3> DEFINE r == req[d]
    <3>1. /\ pc[d] \in {"started", "sent"} /\ r \in Requests
          /\ UNCHANGED <<ledger, sent, req>>
          /\ due' = [due EXCEPT ![d] = cost]
          /\ cost # NoCost
      BY <1>0, <2>2, LedgerAssumption DEF Fail, Answer, diskVars, Working
    <3>2. /\ \/ pc' = [pc EXCEPT ![d] = "failing"]
             \/ /\ pc[d] = "sent"
                /\ \/ pc' = [pc EXCEPT ![d] = "parsed"]
                   \/ pc' = [pc EXCEPT ![d] = "waiting"]
          /\ \/ pc[d] = "sent" /\ reply' = [reply EXCEPT ![r] = cost]
             \/ pc[d] = "started" /\ cost = UnknownCost /\ reply' = reply
      BY <2>2 DEF Fail, Answer
    <3>3. /\ ledger[r].kind = "ATTEMPT_STARTED"
          /\ pc[d] = "started" => reply[r] = NoCost
          /\ pc[d] = "sent" => sent[r] > 0
      BY <1>0, <1>a, <3>1 DEF DispatchIInv, StartedIsUnsent
    <3>4. \A x \in Requests : Billed(x)'
      BY <1>0, <1>a, <3>1, <3>2, <3>3
    <3>5. \A x \in Requests : reply'[x] # NoCost => sent'[x] > 0
      BY <1>0, <1>a, <3>1, <3>2, <3>3
    <3>6. Held(d)'
      BY <1>0, <1>a, <3>1, <3>2, <3>3, LedgerAssumption DEF Holding
    <3>7. ASSUME NEW b \in Dispatchers \ {d} PROVE Held(b)'
      <4>1. pc[b] \in Holding => req[b] # r /\ req[b] \in Requests
        BY <1>0, <1>a, <3>1 DEF Holding, Working
      <4>2. pc'[b] = pc[b] /\ due'[b] = due[b] /\ req'[b] = req[b]
        BY <1>0, <3>1, <3>2
      <4>3. pc[b] \in Holding => reply'[req[b]] = reply[req[b]]
        BY <1>0, <3>1, <3>2, <4>1
      <4> QED BY <1>a, <3>1, <4>1, <4>2, <4>3 DEF Holding
    <3>8. \A b, c \in Dispatchers : Alone(b, c)'
      BY <1>0, <1>a, <3>1, <3>2 DEF Holding
    <3> QED BY <1>b, <3>4, <3>5, <3>6, <3>7, <3>8
  <2>3. CASE AcknowledgeFailure(d) \/ PublishObservation(d)
    <3>1. /\ pc[d] \in {"waiting", "failing"}
          /\ \/ pc[d] = "waiting" /\ pc' = [pc EXCEPT ![d] = "failing"]
             \/ pc[d] = "failing" /\ pc' = [pc EXCEPT ![d] = "observed"]
          /\ UNCHANGED <<ledger, sent, reply, req, due>>
      BY <2>3 DEF AcknowledgeFailure, PublishObservation, Goto, diskVars,
                  worldVars
    <3>2. \A x \in Requests : Billed(x)'
      BY <1>a, <3>1
    <3>3. \A b \in Dispatchers : Held(b)'
      BY <1>0, <1>a, <3>1 DEF Holding
    <3>4. \A b, c \in Dispatchers : Alone(b, c)'
      BY <1>0, <1>a, <3>1 DEF Holding
    <3> QED BY <1>a, <1>b, <3>1, <3>2, <3>3, <3>4
  <2>4. CASE \/ \E r \in Requests : Identify(d, r)
             \/ \E c \in Compiled : Compile(d, c)
             \/ Refresh(d) \/ AbandonResponse(d) \/ Raise(d)
             \/ Open(d) \/ FinishOpen(d) \/ BeginRecover(d) \/ EndRecover(d)
             \/ Crash(d)
    <3>1. UNCHANGED <<ledger, sent, reply>>
      BY <2>4 DEF Identify, Compile, Refresh, AbandonResponse, Raise, Open,
           FinishOpen, BeginRecover, EndRecover, Crash, diskVars, worldVars
    <3>2. \A b \in Dispatchers :
            \/ pc'[b] \notin Holding
            \/ pc'[b] = pc[b] /\ req'[b] = req[b] /\ due'[b] = due[b]
      BY <1>0, <2>4 DEF Identify, Compile, Refresh, AbandonResponse, Raise,
           Open, FinishOpen, BeginRecover, EndRecover, Crash, Leave, Goto, Holding
    <3> QED BY <1>c, <3>1, <3>2
  <2> QED BY <1>6, <2>1, <2>2, <2>3, <2>4 DEF Silent
<1> QED BY <1>1, <1>2, <1>3, <1>4, <1>5, <1>6, StepKinds, <1>0

-------------------------------------------------------------------------------
(* What a dispatcher knows of ended trajectories. *)

\* From the check of the trajectory to the one transport try.
BeforeSend == {"identified", "intended", "filed", "compiled", "started"}

\* A cache marked as current holds every ended trajectory.  So does the cache
\* of a dispatcher whose request is in flight, although an operator may move the
\* log under it; that is what makes it right to declare the cache current after
\* an append without computing it again.
CacheIsCurrent(d) ==
  /\ pc[d] \notin {"down", "opening"}
  /\ generation[d] <= Len(log)
  /\ \/ generation[d] = Len(log)
     \/ pc[d] = "identified"
     \/ /\ pc[d] \in Working \cup {"waiting"}
        /\ ledger[req[d]].kind \in Unresolved
     => TerminalParents \subseteq terminal[d]
  /\ pc[d] \in BeforeSend => ParentOf[req[d]] \notin TerminalParents

\* It is so of every dispatcher while nobody has died.
CachesCurrent == crashes = 0 => \A d \in Dispatchers : CacheIsCurrent(d)

\* The ended trajectories follow from the kinds on the ledger.
LEMMA EndedByKind ==
  ASSUME \A x \in Requests :
           ledger'[x].kind \in FailedKinds => ledger[x].kind \in FailedKinds
  PROVE  TerminalParents' \subseteq TerminalParents
BY DEF TerminalParents, Terminated

\* Once current, a cache follows the ledger whoever moves it; a recovery makes
\* it current.
LEMMA CacheStep ==
  ASSUME DispatchIInv, BillIInv, AtMostOneExposed,
         [DispatchNext]_dispatchVars,
         NEW c \in Dispatchers, pc'[c] # "down",
         CacheIsCurrent(c) \/ EndRecover(c)
  PROVE  CacheIsCurrent(c)'
<1> DEFINE Due(d) == \/ generation[d] = Len(log)
                     \/ pc[d] = "identified"
                     \/ /\ pc[d] \in Working \cup {"waiting"}
                        /\ ledger[req[d]].kind \in Unresolved
           Fresh(d) ==
             /\ pc[d] \notin {"down", "opening"}
             /\ generation[d] <= Len(log)
             /\ Due(d) => TerminalParents \subseteq terminal[d]
             /\ pc[d] \in BeforeSend => ParentOf[req[d]] \notin TerminalParents
<1>0. /\ DispatchTypeOK
      /\ pc \in [Dispatchers -> Labels]
      /\ req \in [Dispatchers -> Requests \cup {NoRequest}]
      /\ generation \in [Dispatchers -> Nat]
      /\ terminal \in [Dispatchers -> SUBSET Parents]
      /\ Len(log) \in Nat
      /\ \A d \in Dispatchers :
           /\ req[d] \in Requests <=> pc[d] \in Working \cup {"waiting"}
           /\ lock = d <=> pc[d] \in Working \cup {"recovering"}
  BY DEF DispatchIInv, DispatchTypeOK, LedgerTypeOK, WorldTypeOK, ProcessTypeOK
<1>a. CASE EndRecover(c)
  <2>1. ledger' = ledger /\ log' = log
    BY <1>a DEF EndRecover, diskVars
  <2>2. TerminalParents' = TerminalParents
    BY <2>1 DEF TerminalParents
  <2> QED
    BY <1>0, <1>a, <2>1, <2>2 DEF EndRecover, Leave, CacheIsCurrent, BeforeSend,
                                  Working
<1> SUFFICES ASSUME Fresh(c), ~ EndRecover(c) PROVE Fresh(c)'
  BY <1>a DEF CacheIsCurrent
<1>b. ASSUME NEW x \in Requests, NEW y \in Requests,
             ledger[x].kind \in Unresolved, ledger[y].kind \in Unresolved
      PROVE  x = y
  BY <1>b DEF AtMostOneExposed, Exposed, InFlight
<1>1. CASE UNCHANGED dispatchVars
  BY <1>1
     DEF dispatchVars, diskVars, worldVars, memVars, TerminalParents
<1>2. ASSUME NEW x \in Requests, Reconcile(x)
      PROVE  Fresh(c)'
  <2>1. /\ \A y \in Requests : ledger'[y].kind = ledger[y].kind
        /\ Len(log') = Len(log) + 1
        /\ UNCHANGED <<pc, req, terminal, generation>>
    BY <1>0, <1>2, ReconcileSettles DEF worldVars, memVars
  <2>2. TerminalParents' \subseteq TerminalParents
    BY <2>1, EndedByKind
  <2> QED BY <1>0, <2>1, <2>2 DEF BeforeSend, Working
<1>3. ASSUME NEW d \in Dispatchers, NEW e, NEW label, Appending(d, e, label)
      PROVE  Fresh(c)'
  <2> DEFINE x == e.unit
  <2>1. /\ x \in Requests /\ x = req[d]
        /\ e.kind \in DispatcherKinds
        /\ ledger[x].kind \in AllowedFrom(e.kind)
        /\ ledger'[x].kind = TargetOf(e.kind, ledger[x].kind)
        /\ \A y \in Requests : y # x => ledger'[y] = ledger[y]
        /\ Len(log') = Len(log) + 1
    BY <1>3 DEF Appending, Advancing, worldVars
  <2>3. /\ ledger'[x].kind \in FailedKinds => e.kind \in FailedKinds
        /\ ledger[x].kind \in Unresolved \cup {"PENDING"}
        /\ ledger[x].kind = "PENDING" => e.kind = "DISPATCH_INTENT"
        /\ e.kind = "DISPATCH_INTENT" => e.kind \notin FailedKinds
        /\ e.kind = "REQUEST_COMPILED" => e.kind \notin FailedKinds
        /\ e.kind = "ATTEMPT_STARTED" => e.kind \notin FailedKinds
    BY <2>1 DEF DispatcherKinds, AllowedFrom, TargetOf, Attempted, Unresolved,
                FailedKinds
  <2>4. e.kind \notin FailedKinds => TerminalParents' \subseteq TerminalParents
    BY <2>1, <2>3, EndedByKind
  <2>5. TerminalParents' \subseteq TerminalParents \cup Terminated(ParentOf[x])
    BY <2>1 DEF TerminalParents, Terminated
  <2>6. CASE c = d
    <3>1. /\ pc'[d] = label
          /\ generation'[d] = Len(log')
          /\ terminal'[d] = IF e.kind \in FailedKinds
                            THEN terminal[d] \cup Terminated(ParentOf[x])
                            ELSE terminal[d]
      BY <1>0, <1>3 DEF Appending
    <3>2. Due(d)
      BY <1>0, <1>3, <2>1, <2>3 DEF Appending
    <3>3. TerminalParents' \subseteq terminal'[d]
      BY <2>4, <2>5, <2>6, <3>1, <3>2
    <3>4. ASSUME label \in BeforeSend
          PROVE  ParentOf[req'[d]] \notin TerminalParents'
      <4>1. /\ req'[d] = x
            /\ pc[d] \in BeforeSend
            /\ e.kind \in {"DISPATCH_INTENT", "REQUEST_COMPILED", "ATTEMPT_STARTED"}
        BY <1>0, <1>3, <2>1, <3>4 DEF Appending, BeforeSend
      <4> QED BY <2>1, <2>3, <2>4, <2>6, <4>1
    <3>5. label \notin {"down", "opening"}
      BY <1>3 DEF Appending
    <3> QED BY <2>1, <2>6, <3>1, <3>3, <3>4, <3>5, <1>0
  <2>7. CASE c # d
    <3>1. pc'[c] = pc[c] /\ req'[c] = req[c] /\ generation'[c] = generation[c]
          /\ terminal'[c] = terminal[c]
      BY <1>0, <1>3, <2>7 DEF Appending
    <3>2. pc[c] \notin Working
      <4>1. lock \in {d, NoOwner}
        BY <1>3 DEF Appending
      <4> QED BY <1>0, <2>7, <4>1, DispatchAssumption
    <3>3. ASSUME pc[c] = "waiting", ledger'[req[c]].kind \in Unresolved
          PROVE  TerminalParents' \subseteq terminal[c]
      <4> DEFINE r == req[c]
      <4>1. r \in Requests /\ ledger[r].kind \in Attempted \cup {"ATTEMPT_STARTED"}
        BY <1>0, <3>3 DEF BillIInv, HeldAnswer, Holding
      <4>2. r # x
        <5> SUFFICES ASSUME r = x PROVE FALSE
          OBVIOUS
        <5>1. pc[d] \notin Holding
          BY <2>1, <2>7, <3>3 DEF BillIInv, HeldAnswer, Holding
        <5>2. e.kind \notin {"COMPLETED", "ATTEMPTED_PROVIDER_FAILURE"}
          BY <1>3, <5>1 DEF Appending, Holding
        <5> QED
          BY <2>1, <4>1, <5>2 DEF DispatcherKinds, AllowedFrom, Attempted
      <4>3. ledger[r].kind \in Unresolved
        BY <2>1, <3>3, <4>1, <4>2
      <4>4. e.kind \notin FailedKinds
        BY <1>b, <2>1, <2>3, <4>1, <4>2, <4>3
      <4> QED BY <2>4, <3>3, <4>3, <4>4
    <3> QED
      BY <1>0, <2>1, <3>1, <3>2, <3>3 DEF BeforeSend, Working
  <2> QED BY <2>6, <2>7
<1>4. ASSUME NEW d \in Dispatchers, NEW x \in Requests, RecoverRequest(d, x)
      PROVE  Fresh(c)'
  <2>1. /\ ledger[x].kind \in Unresolved
        /\ ledger[x].kind = "ATTEMPT_STARTED" =>
             ledger'[x].kind = "AMBIGUOUS_ATTEMPT"
        /\ \A y \in Requests : y # x => ledger'[y] = ledger[y]
        /\ Len(log') = Len(log) + 1
        /\ UNCHANGED <<pc, req, terminal, generation>>
        /\ lock = d /\ pc[d] = "recovering"
    BY <1>0, <1>4, RecoverySettles DEF worldVars, memVars
  <2>2. pc[c] \notin Working
    BY <1>0, <2>1 DEF Working
  <2>3. ~ (pc[c] = "waiting" /\ ledger'[req[c]].kind \in Unresolved)
    <3> SUFFICES ASSUME pc[c] = "waiting", ledger'[req[c]].kind \in Unresolved
                 PROVE  FALSE
      OBVIOUS
    <3>1. /\ req[c] \in Requests
          /\ ledger[req[c]].kind \in Attempted \cup {"ATTEMPT_STARTED"}
      BY <1>0 DEF BillIInv, HeldAnswer, Holding
    <3>2. req[c] # x
      BY <2>1, <3>1 DEF Attempted, Unresolved
    <3> QED BY <1>b, <2>1, <3>1, <3>2
  <2> QED BY <1>0, <2>1, <2>2, <2>3 DEF BeforeSend, Working
<1>5. ASSUME NEW d \in Dispatchers, Leave(d),
             UNCHANGED <<diskVars, worldVars, terminal, generation>>
      PROVE  Fresh(c)'
  <2>1. TerminalParents' = TerminalParents
    BY <1>5 DEF diskVars, TerminalParents
  <2> QED
    BY <1>0, <1>5, <2>1 DEF Leave, diskVars, worldVars, BeforeSend, Working
<1>6. ASSUME NEW d \in Dispatchers, Silent(d)
      PROVE  Fresh(c)'
  <2>1. UNCHANGED <<ledger, log>>
    BY <1>6 DEF Silent, Identify, Compile, Refresh, Send, Fail, Answer,
         AcknowledgeFailure, AbandonResponse, PublishObservation, Raise, Open,
         FinishOpen, BeginRecover, EndRecover, Crash, diskVars
  <2>2. TerminalParents' = TerminalParents
    BY <2>1 DEF TerminalParents
  <2>3. CASE d # c
    <3>1. /\ pc'[c] = pc[c] /\ req'[c] = req[c] /\ generation'[c] = generation[c]
          /\ terminal'[c] = terminal[c]
      BY <1>0, <1>6, <2>3
         DEF Silent, Identify, Compile, Refresh, Send, Fail, Answer,
         AcknowledgeFailure, AbandonResponse, PublishObservation, Raise, Open,
         FinishOpen, BeginRecover, EndRecover, Crash, Leave, Goto
    <3> QED BY <1>0, <2>1, <2>2, <3>1 DEF BeforeSend, Working
  <2> SUFFICES ASSUME d = c PROVE Fresh(c)'
    BY <2>3
  <2>4. ~ Crash(d)
    BY <1>0 DEF Crash
  <2>5. TerminalParents \subseteq Refreshed(d)
    BY DEF Refreshed
  <2>6. ASSUME NEW r \in Requests, Identify(d, r)
        PROVE  Fresh(c)'
    BY <1>0, <2>1, <2>2, <2>5, <2>6 DEF Identify, BeforeSend
  <2>7. CASE Refresh(d)
    BY <1>0, <2>1, <2>2, <2>5, <2>7
       DEF Refresh, BeforeSend, Working
  <2>8. ~ Open(d) /\ ~ FinishOpen(d)
    BY DEF Open, FinishOpen
  <2>9. ASSUME NEW l \in Labels \ {"identified", "down", "opening"},
               pc' = [pc EXCEPT ![d] = l],
               l \in BeforeSend => pc[d] \in BeforeSend,
               \/ pc[d] \in Working \cup {"waiting"} /\ req' = req
               \/ l \notin Working \cup {"waiting"},
               \A b \in Dispatchers \ {d} : req'[b] = req[b],
               UNCHANGED <<terminal, generation>>
        PROVE  Fresh(c)'
    BY <1>0, <2>1, <2>2, <2>9 DEF BeforeSend, Working
  <2> USE DEF Labels, Working, BeforeSend
  <2>10. ASSUME NEW k \in Compiled, Compile(d, k)
         PROVE  Fresh(c)'
    BY <2>9, <2>10 DEF Compile, Goto
  <2>11. CASE Send(d)
    BY <2>9, <2>11 DEF Send, Goto
  <2>12. ASSUME NEW cost \in Costs \cup {UnknownCost},
                Fail(d, cost) \/ Answer(d, cost)
         PROVE  Fresh(c)'
    <3>1. /\ pc[d] \in {"started", "sent"} /\ UNCHANGED <<req, terminal, generation>>
          /\ \/ pc' = [pc EXCEPT ![d] = "failing"]
             \/ pc' = [pc EXCEPT ![d] = "parsed"]
             \/ pc' = [pc EXCEPT ![d] = "waiting"]
      BY <2>12 DEF Fail, Answer
    <3> QED BY <2>9, <3>1
  <2>13. CASE AcknowledgeFailure(d)
    BY <2>9, <2>13 DEF AcknowledgeFailure
  <2>14. CASE PublishObservation(d)
    BY <2>9, <2>14 DEF PublishObservation, Goto
  <2>15. CASE AbandonResponse(d) \/ Raise(d) \/ BeginRecover(d)
    <3>1. /\ UNCHANGED <<terminal, generation>>
          /\ \/ pc' = [pc EXCEPT ![d] = "idle"]
             \/ pc' = [pc EXCEPT ![d] = "recovering"]
          /\ \A b \in Dispatchers \ {d} : req'[b] = req[b]
      BY <1>0, <2>15 DEF AbandonResponse, Raise, BeginRecover, Leave
    <3> QED BY <2>9, <3>1
  <2> QED
    BY <1>6, <2>4, <2>6, <2>7, <2>8, <2>10, <2>11, <2>12, <2>13, <2>14, <2>15
       DEF Silent
<1> QED BY <1>0, <1>1, <1>2, <1>3, <1>4, <1>5, <1>6, StepKinds

\* While the count of crashes is zero nobody is down.
LEMMA CrashesCounted ==
  ASSUME DispatchTypeOK, CachesCurrent, [DispatchNext]_dispatchVars,
         crashes' = 0, NEW c \in Dispatchers
  PROVE  crashes = 0 /\ pc'[c] # "down"
<1>0. /\ crashes \in Nat
      /\ pc \in [Dispatchers -> Labels]
  BY DEF DispatchTypeOK, WorldTypeOK, ProcessTypeOK
<1>1. crashes = 0 => pc[c] # "down"
  BY DEF CachesCurrent, CacheIsCurrent
<1>2. CASE UNCHANGED dispatchVars
  BY <1>1, <1>2 DEF dispatchVars, worldVars, memVars
<1>3. ASSUME NEW r \in Requests, Reconcile(r)
      PROVE  crashes = 0 /\ pc'[c] # "down"
  BY <1>1, <1>3 DEF Reconcile, worldVars, memVars
<1>4. ASSUME NEW d \in Dispatchers, NEW e, NEW label, Appending(d, e, label)
      PROVE  crashes = 0 /\ pc'[c] # "down"
  BY <1>0, <1>1, <1>4 DEF Appending, worldVars
<1>5. ASSUME NEW d \in Dispatchers,
             \/ Leave(d) /\ UNCHANGED <<diskVars, worldVars, terminal, generation>>
             \/ \E r \in Requests : RecoverRequest(d, r)
      PROVE  crashes = 0 /\ pc'[c] # "down"
  BY <1>0, <1>1, <1>5 DEF Leave, RecoverRequest, worldVars, memVars
<1>6. ASSUME NEW d \in Dispatchers, Silent(d)
      PROVE  crashes = 0 /\ pc'[c] # "down"
  BY <1>0, <1>1, <1>6
     DEF Silent, Identify, Compile, Refresh, Send, Fail, Answer,
         AcknowledgeFailure, AbandonResponse, PublishObservation, Raise, Open,
         FinishOpen, BeginRecover, EndRecover, Crash, Leave, Goto, worldVars
<1> QED BY <1>2, <1>3, <1>4, <1>5, <1>6, StepKinds

\* In the beginning nothing is on disk, sent or held.
LEMMA RecordsInit ==
  ASSUME DispatchInit
  PROVE  DiskIInv /\ OversizeIsFinal /\ BillIInv /\ CachesCurrent
<1>1. \A r \in Requests :
        /\ ledger[r].kind = "PENDING"
        /\ ledger[r].revision = 0
        /\ ledger[r].compiled = NoCompiled
        /\ sent[r] = 0 /\ reply[r] = NoCost
  BY DEF DispatchInit, LedgerInit, GenesisState
<1>2. \A d \in Dispatchers : pc[d] = "idle"
  BY DEF DispatchInit
<1>3. DiskIInv
  BY <1>1, <1>2 DEF DiskIInv, EvidenceOnDisk, HandOnDisk, Working
<1>4. OversizeIsFinal
  BY <1>1, LedgerAssumption, DispatchAssumption DEF OversizeIsFinal
<1>5. BillIInv
  BY <1>1, <1>2
     DEF BillIInv, BilledAsAnswered, HeldAnswer, RepliedIsSent, Holding
<1>6. TerminalParents = {}
  BY <1>1 DEF TerminalParents, FailedKinds
<1>7. CachesCurrent
  BY <1>2, <1>6
     DEF DispatchInit, LedgerInit, CachesCurrent, CacheIsCurrent, BeforeSend,
         Working
<1> QED BY <1>3, <1>4, <1>5, <1>7

\* At every point at which a process may die, what the ledger refers to is on
\* disk: identities, compiled receipts and failure observations.
THEOREM DispatchEvidenceOnDisk == DispatchSpec => []EvidenceOnDisk
<1>1. DispatchInit => DiskIInv
  BY RecordsInit
<1>2. DispatchTypeOK /\ DiskIInv /\ [DispatchNext]_dispatchVars => DiskIInv'
  BY DiskStep
<1>3. DiskIInv => EvidenceOnDisk
  BY DEF DiskIInv
<1> QED BY <1>1, <1>2, <1>3, DispatchTypeCorrect, PTL DEF DispatchSpec

\* A compilation beyond the envelope never goes out and never becomes
\* retryable, for any number of recoveries between its two markers.
THEOREM DispatchOversizeIsFinal == DispatchSpec => []OversizeIsFinal
<1> DEFINE IInv == DiskIInv /\ OversizeIsFinal
<1>1. DispatchInit => IInv
  BY RecordsInit
<1>2. /\ DispatchIInv /\ DispatchTypeOK' /\ IInv
      /\ [DispatchNext]_dispatchVars
      => IInv'
  BY DiskStep, OversizeStep DEF DispatchIInv
<1>3. IInv => OversizeIsFinal
  OBVIOUS
<1> HIDE DEF IInv
<1> QED
  BY <1>1, <1>2, <1>3, DispatchInvariant, DispatchTypeCorrect, PTL
     DEF DispatchSpec

\* A completed request has been answered, and the bill on the ledger is the one
\* the answer carried, whichever process acknowledges it and however late.
THEOREM DispatchBilledAsAnswered == DispatchSpec => []BilledAsAnswered
<1>1. DispatchInit => BillIInv
  BY RecordsInit
<1>2. /\ DispatchIInv /\ DispatchTypeOK' /\ NeverResent' /\ BillIInv
      /\ [DispatchNext]_dispatchVars
      => BillIInv'
  BY BillStep
<1>3. BillIInv => BilledAsAnswered
  BY DEF BillIInv
<1> QED
  BY <1>1, <1>2, <1>3, DispatchInvariant, DispatchTypeCorrect,
     DispatchNeverResent, PTL DEF DispatchSpec

\* The invariants a cache of ended trajectories needs, together.
LEMMA CacheInvariant ==
  DispatchSpec => [](DispatchIInv /\ BillIInv /\ CachesCurrent)
<1>1. DispatchInit => BillIInv /\ CachesCurrent
  BY RecordsInit
<1>2. ASSUME DispatchIInv, DispatchTypeOK', NeverResent', AtMostOneExposed,
             BillIInv, CachesCurrent, [DispatchNext]_dispatchVars
      PROVE  (BillIInv /\ CachesCurrent)'
  <2>1. ASSUME crashes' = 0, NEW d \in Dispatchers
        PROVE  crashes = 0 /\ pc'[d] # "down"
    BY <1>2, <2>1, CrashesCounted DEF DispatchIInv
  <2>2. CachesCurrent'
    BY <1>2, <2>1, CacheStep DEF CachesCurrent
  <2> QED BY <1>2, <2>2, BillStep
<1>3. DispatchSpec => []AtMostOneExposed
  BY DispatchImplements, LedgerExposure, PTL DEF DispatchImplementsLedger
<1> QED
  BY <1>1, <1>2, <1>3, DispatchInvariant, DispatchTypeCorrect,
     DispatchNeverResent, PTL DEF DispatchSpec

\* As long as no dispatcher has died, each of them that is asked names every
\* trajectory that has ended, whoever ended it.
THEOREM DispatchPairObserves == DispatchSpec => []PairObserves
<1>1. ASSUME CachesCurrent PROVE PairObserves
  <2> SUFFICES ASSUME crashes = 0, NEW d \in Dispatchers, NEW x \in Requests,
                      NEW p \in Parents,
                      ledger[x].kind \in FailedKinds,
                      ParentOf[x] \in {p, PrefixOf[p]}
               PROVE  p \in Refreshed(d)
    BY DEF PairObserves, TerminalObserved
  <2>1. p \in TerminalParents
    BY DEF TerminalParents, Terminated
  <2>2. generation[d] = Len(log) => TerminalParents \subseteq terminal[d]
    BY <1>1 DEF CachesCurrent, CacheIsCurrent
  <2> QED BY <2>1, <2>2 DEF Refreshed
<1> QED BY <1>1, CacheInvariant, PTL

\* As long as no dispatcher has died, nothing goes out for a trajectory that
\* has lost a request, or whose clean prefix has.
THEOREM DispatchQuietAfterTerminal == DispatchSpec => QuietAfterTerminal
<1>1. ASSUME DispatchIInv, CachesCurrent, [DispatchNext]_dispatchVars,
             NEW r \in Requests, crashes = 0, sent'[r] # sent[r],
             NEW x \in Requests, ledger[x].kind \in FailedKinds,
             ParentOf[x] \in {ParentOf[r], PrefixOf[ParentOf[r]]}
      PROVE  FALSE
  <2>1. DispatchTypeOK /\ sent \in [Requests -> Nat]
    BY <1>1 DEF DispatchIInv, DispatchTypeOK, WorldTypeOK
  <2>2. PICK d \in Dispatchers :
          /\ pc[d] = "started" /\ req[d] \in Requests
          /\ sent' = [sent EXCEPT ![req[d]] = @ + 1]
    BY <1>1, <2>1, SendsUnderLock
  <2>3. r = req[d]
    BY <1>1, <2>1, <2>2
  <2>4. ParentOf[r] \notin TerminalParents
    BY <1>1, <2>2, <2>3 DEF CachesCurrent, CacheIsCurrent, BeforeSend
  <2>5. ParentOf[r] \in Parents
    BY DispatchAssumption
  <2>6. ParentOf[r] \in Terminated(ParentOf[x])
    BY <1>1, <2>5 DEF Terminated
  <2> QED BY <1>1, <2>4, <2>6 DEF TerminalParents
<1>2. DispatchIInv /\ CachesCurrent /\ [DispatchNext]_dispatchVars
      => [\A r \in Requests :
            crashes = 0 /\ sent'[r] # sent[r] =>
              ~ \E x \in Requests :
                  /\ ledger[x].kind \in FailedKinds
                  /\ ParentOf[x] \in {ParentOf[r], PrefixOf[ParentOf[r]]}
         ]_dispatchVars
  BY <1>1
<1> QED BY <1>2, CacheInvariant, PTL DEF DispatchSpec, QuietAfterTerminal

===============================================================================
