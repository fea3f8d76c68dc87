----------------------------- MODULE MainRunProofs -----------------------------
(***************************************************************************)
(* Theorems about MainRun: the run uses its dispatcher only as             *)
(* RequestDispatch allows, so the dispatcher's theorems hold of it; it     *)
(* sends nothing out of production order or without an admission; what it  *)
(* commits is evidenced, counted once and never paid for again; and the    *)
(* ceilings hold but for what the last unit costs beyond its projection.   *)
(***************************************************************************)
EXTENDS MainRun, RequestDispatchProofs, SumLemmas

\* While a unit runs it is of this session's seed and admitted.
UnitAdmitted ==
  phase = "running" =>
    /\ cursor \in DOMAIN Order
    /\ made \in Nat
    /\ SeedOf[Unit] = seed
    /\ journal = <<Unit, "MAIN_DISPATCH_ADMITTED">>

\* The request at hand belongs to the unit that runs.
HandOfUnit ==
  req[Runner] \in Requests => phase = "running" /\ ParentOf[req[Runner]] = Unit

\* Past the check of the tranche order nothing of an earlier seed is open.
SeedsBeforeDone ==
  phase \in {"selecting", "running", "published"} =>
    \A p \in Parents : SeedOf[p] < seed => p \in rows \cup TerminalParents

\* The inductive invariant, beside the dispatcher's.
RunIInv ==
  /\ DispatchTypeOK
  /\ UnitAdmitted
  /\ HandOfUnit
  /\ SeedsBeforeDone

-------------------------------------------------------------------------------
(* The run implements the dispatcher. *)

LEMMA RunnerIsDispatcher == Dispatchers = {Runner} /\ Runner \in Dispatchers
BY MainAssumption

\* The next call is a request of the unit at hand.
LEMMA NextCall ==
  ASSUME UnitAdmitted, Call
  PROVE  /\ CallsOf[Unit][made + 1] \in Requests
         /\ ParentOf[CallsOf[Unit][made + 1]] = Unit
<1>1. Unit \in Parents
  BY MainAssumption DEF UnitAdmitted, Call, Unit
<1>2. CallsOf[Unit] \in Seq(Requests) /\ made \in Nat /\ made < Len(CallsOf[Unit])
  BY <1>1, MainAssumption DEF UnitAdmitted, Call
<1>3. made + 1 \in DOMAIN CallsOf[Unit] /\ CallsOf[Unit][made + 1] \in Requests
  BY <1>2
<1> QED BY <1>1, <1>3, MainAssumption

\* Every step of the run is a step of the dispatcher or leaves it alone.
LEMMA RunStepIsDispatchStep ==
  ASSUME UnitAdmitted, [MainNext]_mainVars
  PROVE  [DispatchNext]_dispatchVars
<1>1. CASE StartProcess
  BY <1>1, RunnerIsDispatcher DEF StartProcess, DispatchNext, Resume
<1>2. CASE EndProcess
  BY <1>2, RunnerIsDispatcher DEF EndProcess, DispatchNext
<1>3. ASSUME NEW s \in Seeds, BeginSession(s) PROVE [DispatchNext]_dispatchVars
  BY <1>3, RunnerIsDispatcher DEF BeginSession, DispatchNext, Resume
<1>4. ASSUME NEW r \in Requests, RecoverOne(r) \/ Bill(r)
      PROVE  [DispatchNext]_dispatchVars
  BY <1>4, RunnerIsDispatcher DEF RecoverOne, Bill, DispatchNext, Resume
<1>5. CASE EndRecovery
  BY <1>5, RunnerIsDispatcher DEF EndRecovery, DispatchNext, Resume
<1>6. CASE StopSelecting \/ \E i \in DOMAIN Order : Select(i)
  BY <1>6, RunnerIsDispatcher DEF StopSelecting, Select, DispatchNext
<1>7. CASE Call
  <2>1. CallsOf[Unit][made + 1] \in Requests
    BY <1>7, NextCall
  <2> QED BY <1>7, <2>1, RunnerIsDispatcher DEF Call, DispatchNext
<1>8. CASE Work
  BY <1>8, RunnerIsDispatcher DEF Work, DispatchNext
<1>9. CASE LoseUnit \/ PublishRecord \/ CommitRow \/ AbortUnit
  BY <1>9 DEF LoseUnit, PublishRecord, CommitRow, AbortUnit
<1>10. CASE UNCHANGED mainVars
  BY <1>10 DEF mainVars
<1> QED
  BY <1>1, <1>2, <1>3, <1>4, <1>5, <1>6, <1>7, <1>8, <1>9, <1>10 DEF MainNext

-------------------------------------------------------------------------------
(* What a step does to the request at hand and to the ended trajectories. *)

\* A dispatch lets go of its request or keeps it.
LEMMA ProgressHand ==
  ASSUME DispatchTypeOK, Progress(Runner)
  PROVE  req'[Runner] \in {req[Runner], NoRequest}
<1>1. req \in [Dispatchers -> Requests \cup {NoRequest}]
  BY DEF DispatchTypeOK, ProcessTypeOK
<1>2. ASSUME NEW e, NEW label, RecordOrLeave(Runner, e, label)
      PROVE  req'[Runner] \in {req[Runner], NoRequest}
  BY <1>1, <1>2, RunnerIsDispatcher DEF RecordOrLeave, Goto, Refused, Leave
<1>3. ASSUME NEW e, RecordAndLeave(Runner, e)
      PROVE  req'[Runner] \in {req[Runner], NoRequest}
  BY <1>1, <1>3, RunnerIsDispatcher DEF RecordAndLeave, Refused, Leave
<1>4. CASE \/ PersistIntent(Runner) \/ PersistCompiled(Runner)
           \/ PersistOverflow(Runner) \/ StartAttempt(Runner)
  BY <1>2, <1>4
     DEF PersistIntent, PersistCompiled, PersistOverflow, StartAttempt
<1>5. CASE \/ PersistMissing(Runner) \/ PersistParsed(Runner)
           \/ AcknowledgeSuccess(Runner) \/ PersistFailure(Runner)
  BY <1>3, <1>5
     DEF PersistMissing, PersistParsed, AcknowledgeSuccess, PersistFailure
<1>6. CASE \/ \E c \in Compiled : Compile(Runner, c)
           \/ Send(Runner) \/ PublishObservation(Runner)
           \/ AcknowledgeFailure(Runner)
  BY <1>1, <1>6 DEF Compile, Send, PublishObservation, AcknowledgeFailure, Goto
<1>7. CASE \E cost \in Costs \cup {UnknownCost} :
             Fail(Runner, cost) \/ Answer(Runner, cost)
  BY <1>1, <1>7 DEF Fail, Answer
<1>8. CASE AbandonResponse(Runner) \/ Raise(Runner)
  BY <1>1, <1>8, RunnerIsDispatcher DEF AbandonResponse, Raise, Leave
<1> QED BY <1>4, <1>5, <1>6, <1>7, <1>8 DEF Progress

\* A trajectory that has ended stays ended.
LEMMA EndedStaysEnded ==
  ASSUME DispatchTypeOK, [DispatchNext]_dispatchVars
  PROVE  TerminalParents \subseteq TerminalParents'
<1>1. \A r \in Requests :
        ledger[r].kind \in FailedKinds => ledger'[r].kind \in FailedKinds
  <2>0. LedgerTypeOK
    BY DEF DispatchTypeOK
  <2>1. CASE LedgerNext
    <3>1. PICK e \in Events : AppendEvent(e)
      BY <2>0, <2>1, StepAppends
    <3>2. /\ ledger[e.unit].kind \in AllowedFrom(e.kind)
          /\ e.kind \in EventKinds
          /\ ledger'[e.unit].kind = TargetOf(e.kind, ledger[e.unit].kind)
      BY <2>0, <3>1, AppendEffect
         DEF AppendEvent, Acceptable, Advances, Advanced, Events
    <3>3. ledger[e.unit].kind \in FailedKinds => ledger'[e.unit].kind \in FailedKinds
      BY <3>2 DEF AllowedFrom, TargetOf, EventKinds, Attempted, Unresolved,
                  FailedKinds
    <3> QED BY <2>0, <3>1, <3>3, AppendEffect
  <2>2. CASE UNCHANGED ledgerVars
    BY <2>2 DEF ledgerVars
  <2> QED BY <2>1, <2>2, StepRefines
<1> QED BY <1>1 DEF TerminalParents

\* An idle dispatcher has no request at hand.
LEMMA IdleHand ==
  ASSUME DispatchTypeOK
  PROVE  RunIdle => req[Runner] \notin Requests
BY RunnerIsDispatcher DEF DispatchTypeOK, ProcessTypeOK, RunIdle, Working

-------------------------------------------------------------------------------
(* The inductive invariant. *)

LEMMA RunInvInit == MainInit => RunIInv
<1> SUFFICES ASSUME MainInit PROVE RunIInv
  OBVIOUS
<1>1. DispatchTypeOK
  BY DispatchInvInit DEF MainInit, DispatchIInv
<1>2. UnitAdmitted /\ SeedsBeforeDone
  BY DEF MainInit, UnitAdmitted, SeedsBeforeDone
<1>3. HandOfUnit
  BY RunnerIsDispatcher, DispatchAssumption DEF MainInit, DispatchInit, HandOfUnit
<1> QED BY <1>1, <1>2, <1>3 DEF RunIInv

\* Admission happens in Select alone, and the journal and the cursor stay as
\* they are until the unit is done with.
LEMMA AdmittedStep ==
  ASSUME RunIInv, [MainNext]_mainVars
  PROVE  UnitAdmitted'
<1>0. UnitAdmitted
  BY DEF RunIInv
<1>1. ASSUME NEW i \in DOMAIN Order, Select(i) PROVE UnitAdmitted'
  <2>1. CASE Admit(i)
    BY <1>1, <2>1 DEF Select, Admit, UnitAdmitted, Unit, IsNext, Ahead
  <2>2. CASE Refuse(i) \/ \E code \in PauseCodes : Pause(i, code)
    BY <2>2 DEF Refuse, Pause, UnitAdmitted
  <2> QED BY <1>1, <2>1, <2>2 DEF Select
<1>2. CASE Call
  BY <1>0, <1>2 DEF Call, UnitAdmitted, Unit
<1>3. CASE Work
  BY <1>0, <1>3 DEF Work, runVars, UnitAdmitted, Unit
<1>4. CASE \/ LoseUnit \/ PublishRecord \/ CommitRow \/ AbortUnit \/ EndRecovery
           \/ StopSelecting \/ EndProcess \/ \E s \in Seeds : BeginSession(s)
  BY <1>4 DEF LoseUnit, PublishRecord, CommitRow, AbortUnit, EndRecovery,
              StopSelecting, EndProcess, BeginSession, UnitAdmitted
<1>5. CASE StartProcess \/ \E r \in Requests : RecoverOne(r) \/ Bill(r)
  BY <1>0, <1>5 DEF StartProcess, RecoverOne, Bill, runVars, UnitAdmitted, Unit
<1>6. CASE UNCHANGED mainVars
  BY <1>0, <1>6 DEF mainVars, runVars, UnitAdmitted, Unit
<1> QED BY <1>1, <1>2, <1>3, <1>4, <1>5, <1>6 DEF MainNext

\* A request comes to hand in Call alone, and the unit changes only while there
\* is none.
LEMMA HandStep ==
  ASSUME RunIInv, [MainNext]_mainVars
  PROVE  HandOfUnit'
<1>0. HandOfUnit /\ UnitAdmitted /\ DispatchTypeOK
  BY DEF RunIInv
<1>1. NoRequest \notin Requests
  BY DispatchAssumption
<1>2. req \in [Dispatchers -> Requests \cup {NoRequest}]
  BY <1>0 DEF DispatchTypeOK, ProcessTypeOK
<1>3. CASE Call
  <2>1. req'[Runner] = CallsOf[Unit][made + 1]
    BY <1>2, <1>3, RunnerIsDispatcher DEF Call, Identify
  <2>2. phase' = "running" /\ Unit' = Unit
    BY <1>3 DEF Call, Unit
  <2> QED BY <1>0, <1>3, <2>1, <2>2, NextCall DEF HandOfUnit
<1>4. CASE Work
  <2>1. req'[Runner] \in {req[Runner], NoRequest}
    BY <1>0, <1>4, ProgressHand DEF Work
  <2> QED BY <1>0, <1>1, <1>4, <2>1 DEF Work, runVars, HandOfUnit, Unit
<1>5. CASE LoseUnit \/ PublishRecord \/ AbortUnit
  <2>1. req'[Runner] \notin Requests
    BY <1>0, <1>5, IdleHand
       DEF LoseUnit, PublishRecord, AbortUnit, dispatchVars, memVars
  <2> QED BY <2>1 DEF HandOfUnit
<1>6. CASE \/ CommitRow \/ StopSelecting \/ \E s \in Seeds : BeginSession(s)
           \/ \E i \in DOMAIN Order : Select(i)
  <2>1. phase # "running" /\ UNCHANGED req
    BY <1>6 DEF CommitRow, StopSelecting, BeginSession, Select, BeginRecover,
                Refresh, dispatchVars, memVars
  <2> QED BY <1>0, <2>1 DEF HandOfUnit
<1>7. CASE EndRecovery \/ EndProcess
  <2>1. req'[Runner] = NoRequest
    BY <1>2, <1>7, RunnerIsDispatcher
       DEF EndRecovery, EndRecover, Leave, EndProcess, Crash
  <2> QED BY <1>1, <2>1 DEF HandOfUnit
<1>8. CASE StartProcess \/ \E r \in Requests : RecoverOne(r) \/ Bill(r)
  <2>1. UNCHANGED <<req, runVars>>
    BY <1>8 DEF StartProcess, Open, FinishOpen, RecoverOne, RecoverRequest,
                Bill, Reconcile, memVars
  <2> QED BY <1>0, <2>1 DEF runVars, HandOfUnit, Unit
<1>9. CASE UNCHANGED mainVars
  BY <1>0, <1>9 DEF mainVars, dispatchVars, memVars, runVars, HandOfUnit, Unit
<1> QED BY <1>3, <1>4, <1>5, <1>6, <1>7, <1>8, <1>9 DEF MainNext

\* EndRecovery looks at the earlier seeds; the seed stays, and what is committed
\* or ended remains so.
LEMMA SeedsStep ==
  ASSUME RunIInv, [MainNext]_mainVars
  PROVE  SeedsBeforeDone'
<1>0. SeedsBeforeDone /\ UnitAdmitted /\ DispatchTypeOK
  BY DEF RunIInv
<1>1. TerminalParents \subseteq TerminalParents'
  BY <1>0, RunStepIsDispatchStep, EndedStaysEnded
<1>2. ASSUME rows \subseteq rows', seed' = seed,
             phase \in {"selecting", "running", "published"}
      PROVE  SeedsBeforeDone'
  BY <1>0, <1>1, <1>2 DEF SeedsBeforeDone
<1>3. CASE EndRecovery
  BY <1>1, <1>3 DEF EndRecovery, PrecedingOpen, SeedsBeforeDone
<1>4. CASE \/ Call \/ LoseUnit \/ PublishRecord \/ CommitRow \/ Work
           \/ \E i \in DOMAIN Order : Select(i)
  <2>1. /\ rows \subseteq rows' /\ seed' = seed
        /\ phase \in {"selecting", "running", "published"}
    BY <1>4 DEF Call, LoseUnit, PublishRecord, CommitRow, Work, Select, runVars
  <2> QED BY <1>2, <2>1
<1>5. CASE \/ AbortUnit \/ StopSelecting \/ EndProcess
           \/ \E s \in Seeds : BeginSession(s)
  BY <1>5 DEF AbortUnit, StopSelecting, EndProcess, BeginSession, SeedsBeforeDone
<1>6. CASE \/ StartProcess \/ \E r \in Requests : RecoverOne(r) \/ Bill(r)
           \/ UNCHANGED mainVars
  <2>1. UNCHANGED <<rows, seed, phase>>
    BY <1>6 DEF StartProcess, RecoverOne, Bill, mainVars, runVars
  <2> QED BY <1>0, <1>1, <2>1 DEF SeedsBeforeDone
<1> QED BY <1>3, <1>4, <1>5, <1>6 DEF MainNext

\* Every step of the run keeps the invariant.
LEMMA RunInvStep == RunIInv /\ [MainNext]_mainVars => RunIInv'
<1> SUFFICES ASSUME RunIInv, [MainNext]_mainVars PROVE RunIInv'
  OBVIOUS
<1>1. DispatchTypeOK'
  BY RunStepIsDispatchStep, TypeStep DEF RunIInv
<1> QED BY <1>1, AdmittedStep, HandStep, SeedsStep DEF RunIInv

-------------------------------------------------------------------------------
(* Theorems. *)

\* In every state of every run, however often it is stopped and resumed: the
\* unit that runs is admitted, the request at hand is its own, and no earlier
\* seed is open.
THEOREM RunInvariant == MainSpec => []RunIInv
BY RunInvInit, RunInvStep, PTL DEF MainSpec

\* The run implements the dispatcher.
THEOREM MainImplements == MainSpec => MainImplementsDispatch
<1>1. MainInit => DispatchInit
  BY DEF MainInit
<1>2. RunIInv /\ [MainNext]_mainVars => [DispatchNext]_dispatchVars
  BY RunStepIsDispatchStep DEF RunIInv
<1> QED
  BY <1>1, <1>2, RunInvariant, PTL
     DEF MainSpec, MainImplementsDispatch, DispatchSpec

\* So no request of a whole run, over any number of sessions, goes out twice.
THEOREM MainNeverResent == MainSpec => []NeverResent
BY MainImplements, DispatchNeverResent, PTL DEF MainImplementsDispatch

\* And at most one request of a whole run is ever exposed to the provider.
THEOREM MainExposure == MainSpec => ImplementsExposure
BY MainImplements, DispatchImplementsExposure, PTL DEF MainImplementsDispatch

\* Whatever is sent is sent by the dispatcher for the unit that runs.
LEMMA SentForUnit ==
  ASSUME RunIInv, [MainNext]_mainVars,
         NEW r \in Requests, sent'[r] # sent[r]
  PROVE  phase = "running" /\ ParentOf[r] = Unit
<1>1. DispatchTypeOK /\ UnitAdmitted /\ HandOfUnit
  BY DEF RunIInv
<1>2. PICK d \in Dispatchers :
        /\ req[d] \in Requests
        /\ sent' = [sent EXCEPT ![req[d]] = @ + 1]
  BY <1>1, RunStepIsDispatchStep, SendsUnderLock
<1>3. d = Runner
  BY RunnerIsDispatcher
<1>4. r = req[Runner]
  BY <1>1, <1>2, <1>3 DEF DispatchTypeOK, WorldTypeOK
<1> QED BY <1>1, <1>2, <1>3, <1>4 DEF HandOfUnit

\* Nothing is sent unless the last row of the journal admits its unit.
THEOREM MainAdmittedFirst == MainSpec => AdmittedFirst
<1>1. RunIInv /\ [MainNext]_mainVars =>
        \A r \in Requests :
          sent'[r] # sent[r] =>
            journal = <<ParentOf[r], "MAIN_DISPATCH_ADMITTED">>
  BY SentForUnit DEF RunIInv, UnitAdmitted
<1> QED BY <1>1, RunInvariant, PTL DEF MainSpec, AdmittedFirst

\* Nothing is sent for a seed while a unit of an earlier one is open.
THEOREM MainTranchesInOrder == MainSpec => TranchesInOrder
<1>1. RunIInv /\ [MainNext]_mainVars =>
        \A r \in Requests :
          sent'[r] # sent[r] =>
            \A p \in Parents :
              SeedOf[p] < SeedOf[ParentOf[r]] => p \in rows \cup TerminalParents
  BY SentForUnit DEF RunIInv, UnitAdmitted, SeedsBeforeDone
<1> QED BY <1>1, RunInvariant, PTL DEF MainSpec, TranchesInOrder

-------------------------------------------------------------------------------
(* What a committed unit rests on. *)

\* A session past its recovery.
Selecting == {"selecting", "running", "published"}

\* A request of a unit that was not needed.
Untouched(r) == ledger[r].kind = "PENDING" /\ sent[r] = 0

\* Recovery makes the cache of ended trajectories current, and it stays so.
CacheInSession ==
  /\ phase \in Selecting => CacheIsCurrent(Runner)
  /\ pc[Runner] = "recovering" => phase = "recovering"

\* receive defers completion, and acknowledge completes at a known cost only.
AllPriced ==
  /\ pc[Runner] # "parsed"
  /\ \A r \in Requests : ledger[r].kind = "COMPLETED" => ledger[r].cost \in Costs

\* Past its recovery a session has nothing in flight but its last call.
OneInFlight ==
  phase \in Selecting =>
    \A r \in InFlight : phase = "running" /\ made > 0 /\ r = LastCall

HandIsLastCall ==
  req[Runner] \in Requests =>
    phase = "running" /\ made > 0 /\ req[Runner] = LastCall

\* The unit at hand is uncommitted; of its requests the calls before the last
\* are completed and the others untouched.
UnitAtHand ==
  phase \in {"running", "published"} =>
    /\ cursor \in DOMAIN Order
    /\ Unit \notin rows
    /\ made \in 0..Len(CallsOf[Unit])
    /\ \A k \in 1..(made - 1) : ledger[CallsOf[Unit][k]].kind = "COMPLETED"
    /\ \A r \in Requests :
         ParentOf[r] = Unit /\ (\A k \in 1..made : r # CallsOf[Unit][k]) =>
           Untouched(r)
    /\ made > 0 => Ready(Unit)
    /\ phase = "running" => Unit \notin records
    /\ phase = "published" => Unit \in records /\ made > 0 /\ MadeCompleted

PrefixesFirst == \A p \in rows : Ready(p)

RecordsCompleted == \A p \in records : HasCompleted(p)

\* What the run keeps about its units, beside RunIInv.
UnitIInv ==
  /\ CacheInSession /\ AllPriced /\ OneInFlight /\ HandIsLastCall /\ UnitAtHand
  /\ RowsAreEvidenced /\ PrefixesFirst /\ RecordsCompleted

\* What is known of the dispatcher and of the run in every state.
Known ==
  /\ RunIInv /\ DispatchIInv /\ BillIInv /\ AtMostOneExposed

\* A unit and its calls.
LEMMA Calls ==
  ASSUME cursor \in DOMAIN Order
  PROVE  /\ Unit \in Parents
         /\ CallsOf[Unit] \in Seq(Requests)
         /\ \A k \in 1..Len(CallsOf[Unit]) :
              /\ CallsOf[Unit][k] \in Requests
              /\ ParentOf[CallsOf[Unit][k]] = Unit
         /\ \A k, l \in 1..Len(CallsOf[Unit]) :
              CallsOf[Unit][k] = CallsOf[Unit][l] => k = l
<1>1. Unit \in Parents
  BY MainAssumption DEF Unit
<1> DEFINE c == CallsOf[Unit]
<1>2. c \in Seq(Requests)
  BY <1>1, MainAssumption
<1>3. \A k, l \in DOMAIN c : ParentOf[c[k]] = Unit /\ (c[k] = c[l] => k = l)
  BY <1>1, MainAssumption
<1>4. DOMAIN c = 1..Len(c) /\ \A k \in 1..Len(c) : c[k] \in Requests
  BY <1>2
<1> HIDE DEF c
<1>5. /\ \A k \in 1..Len(c) : c[k] \in Requests /\ ParentOf[c[k]] = Unit
      /\ \A k, l \in 1..Len(c) : c[k] = c[l] => k = l
  BY <1>3, <1>4
<1> QED BY <1>1, <1>2, <1>5 DEF c

\* A dispatch touches its own request, and completes it at a known cost.
LEMMA WorkMoves ==
  ASSUME DispatchTypeOK, AllPriced, Work
  PROVE  /\ req[Runner] \in Requests
         /\ \A r \in Requests : r # req[Runner] =>
              ledger'[r] = ledger[r] /\ sent'[r] = sent[r]
         /\ AllPriced'
         /\ \A r \in Requests :
              ledger[r].kind = "COMPLETED" => ledger'[r] = ledger[r]
         /\ pc'[Runner] \notin {"recovering", "down"}
<1>0. /\ pc \in [Dispatchers -> Labels] /\ Runner \in Dispatchers
      /\ sent \in [Requests -> Nat]
      /\ req[Runner] \in Requests <=> pc[Runner] \in Working \cup {"waiting"}
  BY RunnerIsDispatcher DEF DispatchTypeOK, ProcessTypeOK, WorldTypeOK
<1>1. Progress(Runner) /\ pc'[Runner] # "parsed"
  BY DEF Work
<1>2. ASSUME NEW e, NEW label, Appending(Runner, e, label)
      PROVE  /\ req[Runner] \in Requests
             /\ \A r \in Requests : r # req[Runner] =>
                  ledger'[r] = ledger[r] /\ sent'[r] = sent[r]
             /\ AllPriced'
             /\ \A r \in Requests :
                  ledger[r].kind = "COMPLETED" => ledger'[r] = ledger[r]
             /\ pc'[Runner] \notin {"recovering", "down"}
  <2> DEFINE x == req[Runner]
  <2>1. /\ x \in Requests /\ e.unit = x
        /\ e.kind \in DispatcherKinds
        /\ ledger[x].kind \in AllowedFrom(e.kind)
        /\ ledger'[x].kind = TargetOf(e.kind, ledger[x].kind)
        /\ ledger'[x].cost = e.cost
        /\ \A r \in Requests : r # x => ledger'[r] = ledger[r]
        /\ UNCHANGED sent
    BY <1>2 DEF Appending, Advancing, worldVars
  <2>2. ledger[x].kind # "COMPLETED"
    BY <2>1 DEF DispatcherKinds, AllowedFrom, Attempted
  <2>3. ledger'[x].kind = "COMPLETED" => e.kind = "COMPLETED"
    BY <2>1 DEF DispatcherKinds, TargetOf
  <2>4. e.kind = "COMPLETED" => e.cost \in Costs
    BY <1>2 DEF Appending, AllPriced
  <2>5. pc'[Runner] = label /\ label \notin {"recovering", "down"}
    BY <1>0, <1>2 DEF Appending
  <2>6. AllPriced'
    BY <1>1, <2>1, <2>3, <2>4 DEF AllPriced
  <2> QED BY <2>1, <2>2, <2>5, <2>6
<1>3. ASSUME req[Runner] \in Requests, ledger' = ledger,
             \A r \in Requests : r # req[Runner] => sent'[r] = sent[r],
             pc'[Runner] \notin {"recovering", "down"}
      PROVE  /\ req[Runner] \in Requests
             /\ \A r \in Requests : r # req[Runner] =>
                  ledger'[r] = ledger[r] /\ sent'[r] = sent[r]
             /\ AllPriced'
             /\ \A r \in Requests :
                  ledger[r].kind = "COMPLETED" => ledger'[r] = ledger[r]
             /\ pc'[Runner] \notin {"recovering", "down"}
  BY <1>1, <1>3 DEF AllPriced
<1>4. CASE \/ PersistIntent(Runner) \/ PersistCompiled(Runner)
           \/ PersistOverflow(Runner) \/ PersistMissing(Runner)
           \/ StartAttempt(Runner) \/ PersistParsed(Runner)
           \/ AcknowledgeSuccess(Runner) \/ PersistFailure(Runner)
  <2>1. \/ \E e, label : Appending(Runner, e, label)
        \/ /\ Leave(Runner)
           /\ UNCHANGED <<diskVars, worldVars, terminal, generation>>
    BY <1>0, <1>4, RecordingAppends
  <2>2. CASE /\ Leave(Runner)
             /\ UNCHANGED <<diskVars, worldVars, terminal, generation>>
    <3>1. req[Runner] \in Requests
      BY <1>0, <1>4, RecordingSteps
    <3> QED BY <1>0, <1>3, <2>2, <3>1 DEF Leave, diskVars, worldVars
  <2> QED BY <1>2, <2>1, <2>2
<1>5. CASE Send(Runner)
  BY <1>0, <1>3, <1>5 DEF Send, Goto, diskVars, Working
<1>6. CASE \/ \E c \in Compiled : Compile(Runner, c)
           \/ \E cost \in Costs \cup {UnknownCost} :
                Fail(Runner, cost) \/ Answer(Runner, cost)
           \/ AcknowledgeFailure(Runner) \/ AbandonResponse(Runner)
           \/ PublishObservation(Runner) \/ Raise(Runner)
  BY <1>0, <1>3, <1>6
     DEF Compile, Fail, Answer, AcknowledgeFailure, AbandonResponse,
         PublishObservation, Raise, Goto, Leave, diskVars, worldVars, Working
<1> QED BY <1>1, <1>4, <1>5, <1>6 DEF Progress

\* Whatever the run does, a completed request stays as it is, one that is not
\* at hand stays untouched, and only a dispatch or a recovery brings a request
\* in flight.
LEMMA Kept ==
  ASSUME DispatchTypeOK, AllPriced, [MainNext]_mainVars
  PROVE  /\ AllPriced'
         /\ \A r \in Requests :
              /\ ledger[r].kind = "COMPLETED" => ledger'[r] = ledger[r]
              /\ Untouched(r) /\ r # req[Runner] => Untouched(r)'
              /\ r \in InFlight' =>
                   \/ r \in InFlight
                   \/ Work /\ r = req[Runner]
<1>0. /\ pc \in [Dispatchers -> Labels] /\ Runner \in Dispatchers
      /\ \A r \in Requests : ledger[r].kind = "COMPLETED" => ledger[r].cost # UnknownCost
      /\ "COMPLETED" \notin Unresolved /\ "PENDING" \notin Unresolved \cup Attempted
  BY RunnerIsDispatcher, LedgerAssumption
     DEF DispatchTypeOK, ProcessTypeOK, AllPriced, Unresolved, Attempted
<1>1. CASE Work
  BY <1>1, WorkMoves DEF Untouched, InFlight
<1>2. ASSUME NEW x \in Requests, RecoverOne(x)
      PROVE  /\ AllPriced'
             /\ \A r \in Requests :
                  /\ ledger[r].kind = "COMPLETED" => ledger'[r] = ledger[r]
                  /\ Untouched(r) => Untouched(r)'
                  /\ r \in InFlight' => r \in InFlight
  <2>1. /\ ledger[x].kind \in Unresolved
        /\ ledger'[x].kind # "COMPLETED"
        /\ \A y \in Requests : y # x => ledger'[y] = ledger[y]
        /\ UNCHANGED <<sent, pc>>
    BY <1>0, <1>2, RecoverySettles DEF RecoverOne, worldVars, memVars
  <2> QED BY <1>0, <2>1 DEF AllPriced, Untouched, InFlight
<1>3. ASSUME NEW x \in Requests, Bill(x)
      PROVE  /\ AllPriced'
             /\ \A r \in Requests :
                  /\ ledger[r].kind = "COMPLETED" => ledger'[r] = ledger[r]
                  /\ Untouched(r) => Untouched(r)'
                  /\ r \in InFlight' => r \in InFlight
  <2>1. /\ ledger[x].kind \in Attempted
        /\ ledger[x].cost = UnknownCost
        /\ ledger'[x].kind = ledger[x].kind
        /\ \A y \in Requests : y # x => ledger'[y] = ledger[y]
        /\ UNCHANGED <<sent, pc>>
    BY <1>0, <1>3, ReconcileSettles DEF Bill, worldVars, memVars
  <2> QED BY <1>0, <2>1 DEF AllPriced, Untouched, InFlight
<1>4. ASSUME UNCHANGED <<ledger, sent>>, pc'[Runner] # "parsed"
      PROVE  /\ AllPriced'
             /\ \A r \in Requests :
                  /\ ledger[r].kind = "COMPLETED" => ledger'[r] = ledger[r]
                  /\ Untouched(r) => Untouched(r)'
                  /\ r \in InFlight' => r \in InFlight
  BY <1>4 DEF AllPriced, Untouched, InFlight
<1>5. CASE \/ StartProcess \/ EndProcess \/ EndRecovery \/ StopSelecting
           \/ \E s \in Seeds : BeginSession(s)
           \/ \E i \in DOMAIN Order : Select(i)
           \/ Call
  <2>1. UNCHANGED <<ledger, sent>> /\ pc'[Runner] # "parsed"
    BY <1>0, <1>5
       DEF StartProcess, EndProcess, EndRecovery, StopSelecting, BeginSession,
           Select, Call, Open, FinishOpen, Crash, EndRecover, Leave, Refresh,
           BeginRecover, Identify, diskVars, worldVars, AllPriced
  <2> QED BY <1>4, <2>1
<1>6. CASE LoseUnit \/ PublishRecord \/ CommitRow \/ AbortUnit \/ UNCHANGED mainVars
  <2>1. UNCHANGED <<ledger, sent, pc>>
    BY <1>6 DEF LoseUnit, PublishRecord, CommitRow, AbortUnit, mainVars,
                dispatchVars, diskVars, worldVars, memVars
  <2> QED BY <1>4, <2>1 DEF AllPriced
<1> QED BY <1>1, <1>2, <1>3, <1>5, <1>6 DEF MainNext

\* A unit that execute admits has not been touched.
LEMMA AdmittedUntouched ==
  ASSUME DispatchIInv, UnitIInv, NEW i \in DOMAIN Order, Select(i), Admit(i)
  PROVE  /\ Order[i] \in Parents \ (rows \cup records)
         /\ \A r \in Requests : ParentOf[r] = Order[i] => Untouched(r)
<1>1. /\ Order[i] \in Parents
      /\ Order[i] \notin rows
      /\ Order[i] \notin Refreshed(Runner)
      /\ ~ HasCompleted(Order[i])
      /\ phase = "selecting"
  BY MainAssumption DEF Select, Admit, IsNext, Ahead
<1>2. Order[i] \notin records
  BY <1>1 DEF UnitIInv, RecordsCompleted
<1>3. Order[i] \notin TerminalParents
  BY <1>1 DEF UnitIInv, CacheInSession, Selecting, CacheIsCurrent, Refreshed
<1>4. ASSUME NEW r \in Requests, ParentOf[r] = Order[i]
      PROVE  Untouched(r)
  <2>1. ledger[r].kind \notin FailedKinds
    BY <1>1, <1>3, <1>4 DEF TerminalParents, Terminated
  <2>2. ledger[r].kind \notin Unresolved
    BY <1>1 DEF UnitIInv, OneInFlight, Selecting, InFlight
  <2>3. ledger[r].kind # "COMPLETED"
    BY <1>1, <1>4 DEF HasCompleted
  <2>4. ledger[r].kind \in StateKinds
    BY DEF DispatchIInv, DispatchTypeOK, LedgerTypeOK, EvidenceStates
  <2>5. ledger[r].kind = "PENDING"
    BY <2>1, <2>2, <2>3, <2>4 DEF StateKinds, FailedKinds, Attempted
  <2>6. sent[r] \in Nat /\ ~ sent[r] > 0
    BY <2>5 DEF DispatchIInv, SentIsMarked, Attempted, DispatchTypeOK, WorldTypeOK
  <2> QED BY <2>5, <2>6 DEF Untouched
<1> QED BY <1>1, <1>2, <1>4

\* The caches are current past a recovery.
LEMMA CacheInSessionStep ==
  ASSUME Known, UnitIInv, [MainNext]_mainVars
  PROVE  CacheInSession'
<1>0. /\ DispatchTypeOK /\ CacheInSession
      /\ [DispatchNext]_dispatchVars
      /\ pc \in [Dispatchers -> Labels] /\ Runner \in Dispatchers
  BY RunStepIsDispatchStep, RunnerIsDispatcher
     DEF Known, RunIInv, UnitIInv, DispatchTypeOK, ProcessTypeOK
<1>1. ASSUME pc'[Runner] # "down",
             phase \in Selecting \/ EndRecover(Runner)
      PROVE  CacheIsCurrent(Runner)'
  BY <1>0, <1>1, CacheStep DEF Known, CacheInSession
<1>2. phase' \in Selecting =>
        /\ pc'[Runner] # "down"
        /\ phase \in Selecting \/ EndRecover(Runner)
  <2>1. phase \in Selecting => pc[Runner] # "down"
    BY <1>0 DEF CacheInSession, CacheIsCurrent
  <2>2. CASE Work
    BY <1>0, <2>2, WorkMoves DEF Work, UnitIInv, Selecting
  <2>3. CASE EndRecovery
    BY <1>0, <2>3 DEF EndRecovery, EndRecover, Leave, Selecting
  <2>4. CASE \/ Call \/ \E i \in DOMAIN Order : Select(i)
    BY <1>0, <2>1, <2>4 DEF Call, Identify, Select, Refresh, Selecting
  <2>5. CASE LoseUnit \/ PublishRecord \/ CommitRow \/ UNCHANGED mainVars
    <3>1. UNCHANGED pc
      BY <2>5 DEF LoseUnit, PublishRecord, CommitRow, mainVars, dispatchVars,
                  memVars
    <3>2. phase' \in Selecting => phase \in Selecting
      BY <2>5 DEF LoseUnit, PublishRecord, CommitRow, mainVars, runVars, Selecting
    <3> QED BY <2>1, <3>1, <3>2
  <2>6. CASE \/ AbortUnit \/ StopSelecting \/ EndProcess
             \/ \E s \in Seeds : BeginSession(s)
    BY <2>6 DEF AbortUnit, StopSelecting, EndProcess, BeginSession, Selecting
  <2>7. CASE StartProcess \/ \E r \in Requests : RecoverOne(r) \/ Bill(r)
    BY <1>0, <2>1, <2>7
       DEF StartProcess, RecoverOne, Bill, RecoverRequest, Reconcile, runVars,
           memVars, Selecting
  <2> QED BY <2>2, <2>3, <2>4, <2>5, <2>6, <2>7 DEF MainNext
<1>3. pc'[Runner] = "recovering" => phase' = "recovering"
  <2>1. CASE Work
    BY <1>0, <2>1, WorkMoves DEF UnitIInv
  <2>2. CASE \/ EndRecovery \/ Call \/ StopSelecting \/ EndProcess
             \/ \E i \in DOMAIN Order : Select(i)
             \/ \E s \in Seeds : BeginSession(s) \/ StartProcess
    BY <1>0, <2>2
       DEF EndRecovery, EndRecover, Leave, Call, Identify, StopSelecting, Select,
           Refresh, EndProcess, Crash, BeginSession, StartProcess, Open, FinishOpen
  <2>3. CASE LoseUnit \/ PublishRecord \/ CommitRow \/ AbortUnit
    BY <1>0, <2>3
       DEF LoseUnit, PublishRecord, CommitRow, AbortUnit, dispatchVars, memVars,
           CacheInSession
  <2>4. CASE \/ \E r \in Requests : RecoverOne(r) \/ Bill(r)
             \/ UNCHANGED mainVars
    <3>1. UNCHANGED <<pc, phase>>
      BY <2>4 DEF RecoverOne, Bill, RecoverRequest, Reconcile, runVars, memVars,
                  mainVars, dispatchVars
    <3> QED BY <1>0, <3>1 DEF CacheInSession
  <2>5. CASE StartProcess
    BY <1>0, <2>5 DEF StartProcess, Open, FinishOpen
  <2> QED BY <2>1, <2>2, <2>3, <2>4, <2>5 DEF MainNext
<1> QED BY <1>1, <1>2, <1>3 DEF CacheInSession

\* The request at hand is the last call of the unit.
LEMMA LastCallStep ==
  ASSUME Known, UnitIInv, [MainNext]_mainVars
  PROVE  HandIsLastCall'
<1>0. /\ DispatchTypeOK /\ UnitAdmitted /\ HandIsLastCall
      /\ NoRequest \notin Requests
      /\ req \in [Dispatchers -> Requests \cup {NoRequest}]
      /\ Runner \in Dispatchers
  BY RunnerIsDispatcher, DispatchAssumption
     DEF Known, RunIInv, UnitIInv, DispatchTypeOK, ProcessTypeOK
<1>1. req'[Runner] \in Requests => phase' = "running"
  BY HandStep DEF Known, HandOfUnit
<1>2. CASE Call
  <2>1. /\ req'[Runner] = CallsOf[Unit][made + 1]
        /\ made' = made + 1 /\ cursor' = cursor
    BY <1>0, <1>2 DEF Call, Identify
  <2>2. made' > 0 /\ req'[Runner] = LastCall'
    BY <1>0, <1>2, <2>1 DEF LastCall, Unit, Call, UnitAdmitted
  <2> QED BY <1>1, <2>2 DEF HandIsLastCall
<1>3. CASE Work
  BY <1>0, <1>3, ProgressHand DEF Work, runVars, HandIsLastCall, LastCall, Unit
<1>4. ASSUME UNCHANGED <<req, cursor, made, phase>>
      PROVE  HandIsLastCall'
  BY <1>0, <1>4 DEF HandIsLastCall, LastCall, Unit
<1>5. CASE \/ StartProcess \/ UNCHANGED mainVars
           \/ \E r \in Requests : RecoverOne(r) \/ Bill(r)
  BY <1>4, <1>5
     DEF StartProcess, Open, FinishOpen, RecoverOne, Bill, RecoverRequest,
         Reconcile, runVars, memVars, mainVars, dispatchVars
<1>6. CASE \/ LoseUnit \/ PublishRecord \/ CommitRow \/ AbortUnit
           \/ EndProcess \/ EndRecovery \/ StopSelecting
           \/ \E s \in Seeds : BeginSession(s)
  <2>1. phase' # "running"
    BY <1>6 DEF LoseUnit, PublishRecord, CommitRow, AbortUnit, EndProcess,
                EndRecovery, StopSelecting, BeginSession
  <2> QED BY <1>1, <2>1 DEF HandIsLastCall
<1>7. ASSUME NEW i \in DOMAIN Order, Select(i) PROVE HandIsLastCall'
  <2>1. phase # "running" /\ req' = req
    BY <1>7 DEF Select, Refresh
  <2> QED BY <1>0, <2>1 DEF HandIsLastCall
<1> QED BY <1>2, <1>3, <1>5, <1>6, <1>7 DEF MainNext

\* A session goes on only with nothing in flight.
LEMMA InFlightStep ==
  ASSUME Known, UnitIInv, [MainNext]_mainVars
  PROVE  OneInFlight'
<1>0. /\ DispatchTypeOK /\ AllPriced /\ OneInFlight /\ HandIsLastCall
  BY DEF Known, RunIInv, UnitIInv
<1>1. \A r \in InFlight' : r \in InFlight \/ (Work /\ r = req[Runner])
  BY <1>0, Kept DEF InFlight
<1>2. CASE Work
  <2>1. UNCHANGED <<phase, made, cursor>> /\ phase = "running"
    BY <1>2 DEF Work, runVars
  <2>2. req[Runner] \in Requests
    BY <1>0, <1>2, WorkMoves
  <2> QED
    BY <1>0, <1>1, <2>1, <2>2
       DEF OneInFlight, HandIsLastCall, Selecting, LastCall, Unit
<1>3. ASSUME ~ Work, InFlight = {} PROVE OneInFlight'
  BY <1>1, <1>3 DEF OneInFlight
<1>4. CASE EndRecovery
  BY <1>1, <1>4 DEF EndRecovery, EndRecover, OneInFlight, InFlight, Work
<1>5. CASE \/ \E i \in DOMAIN Order : Select(i)
           \/ CommitRow
  <2>1. InFlight = {} /\ ~ Work
    BY <1>0, <1>5 DEF Select, CommitRow, OneInFlight, Selecting, Work
  <2> QED BY <1>3, <2>1
<1>6. CASE Call \/ PublishRecord
  <2>1. /\ phase = "running" /\ MadeCompleted /\ cursor \in DOMAIN Order
        /\ made \in 0..Len(CallsOf[Unit])
    BY <1>6 DEF Call, PublishRecord, UnitIInv, UnitAtHand
  <2>2. made > 0 => ledger[LastCall].kind = "COMPLETED"
    BY <2>1 DEF MadeCompleted, LastCall
  <2>3. InFlight = {}
    BY <1>0, <2>1, <2>2 DEF OneInFlight, Selecting, InFlight, Unresolved
  <2>4. UNCHANGED ledger
    BY <1>6 DEF Call, Identify, PublishRecord, dispatchVars, diskVars
  <2> QED BY <2>3, <2>4 DEF OneInFlight, InFlight
<1>7. CASE LoseUnit
  <2>1. ledger[LastCall].kind \notin Unresolved /\ phase = "running"
    BY <1>7 DEF LoseUnit, LosingKinds, Unresolved
  <2>2. InFlight = {}
    BY <1>0, <2>1 DEF OneInFlight, Selecting, InFlight
  <2>3. UNCHANGED ledger
    BY <1>7 DEF LoseUnit, dispatchVars, diskVars
  <2> QED BY <2>2, <2>3 DEF OneInFlight, InFlight
<1>8. CASE \/ AbortUnit \/ StopSelecting \/ EndProcess
           \/ \E s \in Seeds : BeginSession(s)
  BY <1>8 DEF AbortUnit, StopSelecting, EndProcess, BeginSession, OneInFlight,
              Selecting
<1>9. CASE \/ StartProcess \/ UNCHANGED mainVars
           \/ \E r \in Requests : RecoverOne(r) \/ Bill(r)
  <2>1. UNCHANGED <<phase, made, cursor>>
    BY <1>9 DEF StartProcess, RecoverOne, Bill, mainVars, runVars
  <2> QED BY <1>0, <1>1, <1>2, <2>1 DEF OneInFlight, LastCall, Unit
<1> QED
  BY <1>2, <1>4, <1>5, <1>6, <1>7, <1>8, <1>9 DEF MainNext

\* The unit at hand stays uncommitted, and its calls are completed in order.
LEMMA UnitAtHandStep ==
  ASSUME Known, UnitIInv, [MainNext]_mainVars
  PROVE  UnitAtHand'
<1>0. /\ DispatchTypeOK /\ AllPriced /\ UnitAtHand /\ HandIsLastCall
      /\ OneInFlight
  BY DEF Known, RunIInv, UnitIInv
<1>1. /\ \A r \in Requests :
           /\ ledger[r].kind = "COMPLETED" => ledger'[r] = ledger[r]
           /\ Untouched(r) /\ r # req[Runner] => Untouched(r)'
  BY <1>0, Kept
<1>2. ASSUME NEW i \in DOMAIN Order, Select(i) PROVE UnitAtHand'
  <2>1. CASE Admit(i)
    <3>1. /\ phase' = "running" /\ cursor' = i /\ made' = 0
          /\ UNCHANGED <<rows, records, ledger, sent>>
      BY <1>2, <2>1 DEF Select, Admit, Refresh, diskVars, worldVars
    <3>2. /\ Order[i] \notin rows /\ Order[i] \notin records
          /\ Order[i] \in Parents
          /\ \A r \in Requests : ParentOf[r] = Order[i] => Untouched(r)
      BY <1>2, <2>1, AdmittedUntouched DEF Known
    <3>3. Unit' = Order[i]
      BY <3>1 DEF Unit
    <3>4. Len(CallsOf[Order[i]]) \in Nat
      BY <3>2, MainAssumption
    <3>5. 0 \in 0..Len(CallsOf[Order[i]]) /\ 1..(0 - 1) = {} /\ 1..0 = {}
      BY <3>4
    <3> QED BY <3>1, <3>2, <3>3, <3>5 DEF UnitAtHand, Untouched
  <2>2. CASE Refuse(i) \/ \E code \in PauseCodes : Pause(i, code)
    BY <2>2 DEF Refuse, Pause, UnitAtHand
  <2> QED BY <1>2, <2>1, <2>2 DEF Select
<1>3. CASE Call
  <2>1. /\ phase = "running" /\ phase' = "running"
        /\ made' = made + 1 /\ cursor' = cursor
        /\ UNCHANGED <<rows, records, ledger, sent>>
        /\ MadeCompleted /\ made < Len(CallsOf[Unit]) /\ Ready(Unit)
    BY <1>3 DEF Call, Identify, worldVars
  <2>2. Unit' = Unit
    BY <2>1 DEF Unit
  <2>3. /\ cursor \in DOMAIN Order /\ Unit \notin rows /\ Unit \notin records
        /\ made \in 0..Len(CallsOf[Unit])
        /\ \A r \in Requests :
             ParentOf[r] = Unit /\ (\A k \in 1..made : r # CallsOf[Unit][k]) =>
               Untouched(r)
    BY <1>0, <2>1 DEF UnitAtHand
  <2>4. Len(CallsOf[Unit]) \in Nat
    BY <2>3, Calls
  <2>5. /\ made + 1 \in 0..Len(CallsOf[Unit])
        /\ 1..(made + 1 - 1) = 1..made
        /\ 1..made \subseteq 1..(made + 1)
    BY <2>1, <2>3, <2>4
  <2>6. \A r \in Requests :
          ParentOf[r] = Unit /\ (\A k \in 1..(made + 1) : r # CallsOf[Unit][k]) =>
            Untouched(r)'
    BY <2>1, <2>3, <2>5 DEF Untouched
  <2>7. \A k \in 1..(made + 1 - 1) : ledger'[CallsOf[Unit][k]].kind = "COMPLETED"
    BY <2>1, <2>5 DEF MadeCompleted
  <2> QED BY <2>1, <2>2, <2>3, <2>5, <2>6, <2>7 DEF UnitAtHand, Ready
<1>4. ASSUME UNCHANGED <<phase, cursor, made, rows, records>>,
             \A r \in Requests :
               Untouched(r) /\ (phase = "running" => made = 0 \/ r # LastCall) =>
                 Untouched(r)'
      PROVE  UnitAtHand'
  <2> SUFFICES ASSUME phase \in {"running", "published"} PROVE UnitAtHand'
    BY <1>4 DEF UnitAtHand
  <2>1. /\ cursor \in DOMAIN Order /\ Unit' = Unit
        /\ made \in 0..Len(CallsOf[Unit])
    BY <1>0, <1>4 DEF UnitAtHand, Unit
  <2>2. /\ Len(CallsOf[Unit]) \in Nat
        /\ \A k \in 1..Len(CallsOf[Unit]) : CallsOf[Unit][k] \in Requests
    BY <2>1, Calls
  <2>3. /\ 1..(made - 1) \subseteq 1..Len(CallsOf[Unit])
        /\ 1..made \subseteq 1..Len(CallsOf[Unit])
        /\ made > 0 => made \in 1..made
    BY <2>1, <2>2
  <2>4. \A k \in 1..(made - 1) : ledger'[CallsOf[Unit][k]].kind = "COMPLETED"
    BY <1>0, <1>1, <2>2, <2>3 DEF UnitAtHand
  <2>5. phase = "published" => MadeCompleted'
    BY <1>0, <1>1, <1>4, <2>1, <2>2, <2>3 DEF UnitAtHand, MadeCompleted
  <2>6. \A r \in Requests :
          ParentOf[r] = Unit /\ (\A k \in 1..made : r # CallsOf[Unit][k]) =>
            Untouched(r)'
    <3> SUFFICES ASSUME NEW r \in Requests, ParentOf[r] = Unit,
                        \A k \in 1..made : r # CallsOf[Unit][k]
                 PROVE  Untouched(r)'
      OBVIOUS
    <3>1. Untouched(r)
      BY <1>0 DEF UnitAtHand
    <3>2. made = 0 \/ r # LastCall
      BY <2>1, <2>2, <2>3 DEF LastCall
    <3> QED BY <1>4, <3>1, <3>2
  <2> QED BY <1>0, <1>4, <2>1, <2>4, <2>5, <2>6 DEF UnitAtHand, Ready
<1>5. CASE \/ Work \/ StartProcess \/ UNCHANGED mainVars
           \/ \E r \in Requests : RecoverOne(r) \/ Bill(r)
  <2>1. UNCHANGED <<phase, cursor, made, rows, records>>
    BY <1>5 DEF Work, StartProcess, RecoverOne, Bill, mainVars, runVars
  <2>2. ASSUME NEW r \in Requests, Untouched(r),
               phase = "running" => made = 0 \/ r # LastCall
        PROVE  r # req[Runner]
    BY <1>0, <2>2 DEF HandIsLastCall
  <2> QED BY <1>1, <1>4, <2>1, <2>2
<1>6. CASE PublishRecord
  <2>1. /\ phase = "running" /\ phase' = "published" /\ made > 0 /\ MadeCompleted
        /\ records' = records \cup {Unit}
        /\ UNCHANGED <<cursor, made, rows, ledger, sent>>
    BY <1>6 DEF PublishRecord, dispatchVars, diskVars, worldVars
  <2>2. Unit' = Unit
    BY <2>1 DEF Unit
  <2> QED
    BY <1>0, <2>1, <2>2 DEF UnitAtHand, Untouched, Ready, MadeCompleted
<1>7. CASE \/ LoseUnit \/ CommitRow \/ AbortUnit \/ EndRecovery
           \/ StopSelecting \/ EndProcess \/ \E s \in Seeds : BeginSession(s)
  BY <1>7 DEF LoseUnit, CommitRow, AbortUnit, EndRecovery, StopSelecting,
              EndProcess, BeginSession, UnitAtHand
<1> QED BY <1>2, <1>3, <1>5, <1>6, <1>7 DEF MainNext

\* Records are published, rows committed and prefixes finished for completed
\* units only, and what they rest on stays.
LEMMA RecordsStep ==
  ASSUME Known, UnitIInv, [MainNext]_mainVars
  PROVE  RowsAreEvidenced' /\ PrefixesFirst' /\ RecordsCompleted'
<1>0. /\ DispatchTypeOK /\ AllPriced /\ UnitAtHand /\ HandIsLastCall
      /\ RowsAreEvidenced /\ PrefixesFirst /\ RecordsCompleted /\ HandOfUnit
  BY DEF Known, RunIInv, UnitIInv
<1>1. /\ \A r \in Requests :
           /\ ledger[r].kind = "COMPLETED" => ledger'[r] = ledger[r]
           /\ Untouched(r) /\ r # req[Runner] => Untouched(r)'
  BY <1>0, Kept
<1>2. ASSUME NEW p, HasCompleted(p) PROVE HasCompleted(p)'
  BY <1>1, <1>2 DEF HasCompleted
<1>3. ASSUME NEW p \in rows, records \subseteq records'
      PROVE  /\ p \in records' /\ HasCompleted(p)'
             /\ \A r \in Requests :
                  ParentOf[r] = p =>
                    \/ ledger'[r].kind = "COMPLETED" /\ ledger'[r].cost \in Costs
                    \/ ledger'[r].kind = "PENDING" /\ sent'[r] = 0
  <2>1. p \in records' /\ HasCompleted(p)'
    BY <1>0, <1>2, <1>3 DEF RowsAreEvidenced
  <2>2. ASSUME NEW r \in Requests, ParentOf[r] = p
        PROVE  r # req[Runner]
    BY <1>0, <2>2 DEF HandOfUnit, UnitAtHand
  <2> QED BY <1>0, <1>1, <2>1, <2>2 DEF RowsAreEvidenced, Untouched
<1>4. ASSUME rows' = rows, records \subseteq records'
      PROVE  RowsAreEvidenced' /\ PrefixesFirst'
  BY <1>0, <1>3, <1>4 DEF RowsAreEvidenced, HasCompleted, PrefixesFirst, Ready
<1>5. ASSUME records' = records PROVE RecordsCompleted'
  BY <1>0, <1>2, <1>5 DEF RecordsCompleted, HasCompleted
<1>6. CASE CommitRow
  <2>1. /\ phase = "published"
        /\ rows' = rows \cup {Unit}
        /\ UNCHANGED <<records, ledger, sent>>
    BY <1>6 DEF CommitRow, dispatchVars, diskVars, worldVars
  <2>2. /\ cursor \in DOMAIN Order /\ Unit \in records /\ Ready(Unit)
        /\ made \in 0..Len(CallsOf[Unit]) /\ made > 0 /\ MadeCompleted
        /\ \A r \in Requests :
             ParentOf[r] = Unit /\ (\A k \in 1..made : r # CallsOf[Unit][k]) =>
               Untouched(r)
    BY <1>0, <2>1 DEF UnitAtHand
  <2>3. \A r \in Requests :
          ParentOf[r] = Unit =>
            \/ ledger[r].kind = "COMPLETED" /\ ledger[r].cost \in Costs
            \/ ledger[r].kind = "PENDING" /\ sent[r] = 0
    BY <1>0, <2>2 DEF MadeCompleted, Untouched, AllPriced
  <2>4. HasCompleted(Unit)
    BY <1>0, <2>2 DEF RecordsCompleted
  <2>5. RowsAreEvidenced'
    BY <1>0, <2>1, <2>2, <2>3, <2>4 DEF RowsAreEvidenced, HasCompleted
  <2>6. PrefixesFirst'
    BY <1>0, <2>1, <2>2 DEF PrefixesFirst, Ready
  <2> QED BY <1>5, <2>1, <2>5, <2>6
<1>7. CASE PublishRecord
  <2>1. /\ phase = "running" /\ made > 0 /\ MadeCompleted
        /\ records' = records \cup {Unit}
        /\ rows' = rows
    BY <1>7 DEF PublishRecord
  <2>2. /\ cursor \in DOMAIN Order /\ made \in 0..Len(CallsOf[Unit])
    BY <1>0, <2>1 DEF UnitAtHand
  <2>3. /\ made \in 1..made /\ made \in 1..Len(CallsOf[Unit])
        /\ LastCall \in Requests /\ ParentOf[LastCall] = Unit
    BY <2>1, <2>2, Calls DEF LastCall
  <2>4. ledger[LastCall].kind = "COMPLETED"
    BY <2>1, <2>3 DEF MadeCompleted, LastCall
  <2>5. HasCompleted(Unit)
    BY <2>3, <2>4 DEF HasCompleted
  <2>6. RecordsCompleted'
    BY <1>0, <1>2, <2>1, <2>5 DEF RecordsCompleted, HasCompleted
  <2> QED BY <1>4, <2>1, <2>6
<1>8. CASE ~ CommitRow /\ ~ PublishRecord
  <2>1. UNCHANGED <<rows, records>>
    BY <1>8 DEF MainNext, StartProcess, EndProcess, BeginSession, RecoverOne,
         Bill, EndRecovery, StopSelecting, Select, Call, Work, LoseUnit,
         AbortUnit, runVars, mainVars
  <2> QED BY <1>4, <1>5, <2>1
<1> QED BY <1>6, <1>7, <1>8

\* Every step keeps the invariant of the units.
LEMMA UnitInvStep ==
  ASSUME Known, UnitIInv, [MainNext]_mainVars
  PROVE  UnitIInv'
<1>1. AllPriced'
  BY Kept DEF Known, RunIInv, UnitIInv
<1> QED
  BY <1>1, CacheInSessionStep, InFlightStep, LastCallStep, UnitAtHandStep,
     RecordsStep DEF UnitIInv

\* It holds in the beginning.
LEMMA UnitInvInit ==
  ASSUME MainInit
  PROVE  UnitIInv
<1>1. /\ phase = "starting" /\ records = {} /\ rows = {}
      /\ pc[Runner] = "idle" /\ req[Runner] = NoRequest
  BY RunnerIsDispatcher DEF MainInit, DispatchInit
<1>2. \A r \in Requests : ledger[r].kind = "PENDING"
  BY DEF MainInit, DispatchInit, LedgerInit, GenesisState
<1> QED
  BY <1>1, <1>2, DispatchAssumption
     DEF UnitIInv, CacheInSession, AllPriced, OneInFlight, HandIsLastCall,
         UnitAtHand, RowsAreEvidenced, PrefixesFirst, RecordsCompleted, Selecting

\* Everything above holds in every state of every run.
LEMMA UnitInvariant == MainSpec => [](Known /\ UnitIInv)
<1>1. MainSpec => [](DispatchIInv /\ BillIInv)
  BY MainImplements, CacheInvariant, PTL DEF MainImplementsDispatch
<1>2. MainSpec => []AtMostOneExposed
  BY MainImplements, DispatchImplements, LedgerExposure, PTL
     DEF MainImplementsDispatch, DispatchImplementsLedger
<1>3. MainInit => UnitIInv
  BY UnitInvInit
<1>4. Known /\ UnitIInv /\ [MainNext]_mainVars => UnitIInv'
  BY UnitInvStep
<1>5. RunIInv /\ DispatchIInv /\ BillIInv /\ AtMostOneExposed => Known
  BY DEF Known
<1> QED BY <1>1, <1>2, <1>3, <1>4, <1>5, RunInvariant, PTL DEF MainSpec

\* In every state a process may die in: a committed unit has its record, a
\* completed request, and nothing but completed requests at known costs or ones
\* that never left.
THEOREM MainRowsAreEvidenced == MainSpec => []RowsAreEvidenced
<1>1. UnitIInv => RowsAreEvidenced
  BY DEF UnitIInv
<1> QED BY <1>1, UnitInvariant, PTL

\* No unit is both committed and technically missing, for any tree of prefixes
\* and branches: a branch is begun only after its prefix is committed.
THEOREM MainCountsAddUp == MainSpec => []CountsAddUp
<1>1. ASSUME UnitIInv PROVE CountsAddUp
  <2> SUFFICES ASSUME NEW p \in rows, NEW x \in Requests,
                      ledger[x].kind \in FailedKinds,
                      p \in Terminated(ParentOf[x])
               PROVE  FALSE
    BY DEF CountsAddUp, TerminalParents
  <2>1. p = ParentOf[x] \/ PrefixOf[p] = ParentOf[x]
    BY DEF Terminated
  <2>2. ParentOf[x] \in Parents /\ NoParent \notin Parents
    BY DispatchAssumption
  <2>3. ParentOf[x] \in rows
    BY <1>1, <2>1, <2>2 DEF UnitIInv, PrefixesFirst, Ready
  <2> QED BY <1>1, <2>3 DEF UnitIInv, RowsAreEvidenced, FailedKinds
<1> QED BY <1>1, UnitInvariant, PTL

\* Nothing is sent for a unit with a record or a row, and a unit that is
\* admitted has nothing sent.
THEOREM MainNeverRedone == MainSpec => NeverRedone
<1>1. ASSUME Known, UnitIInv, [MainNext]_mainVars,
             NEW r \in Requests, sent'[r] # sent[r]
      PROVE  ParentOf[r] \notin records \cup rows
  BY <1>1, SentForUnit DEF Known, UnitIInv, UnitAtHand
<1>2. ASSUME Known, UnitIInv, [MainNext]_mainVars,
             NEW i \in DOMAIN Order,
             phase = "selecting", phase' = "running", cursor' = i,
             NEW r \in Requests, ParentOf[r] = Order[i]
      PROVE  sent[r] = 0
  <2>1. PICK j \in DOMAIN Order : Select(j)
    BY <1>2 DEF MainNext, StartProcess, EndProcess, BeginSession, RecoverOne,
         Bill, EndRecovery, StopSelecting, Call, Work, LoseUnit, PublishRecord,
         CommitRow, AbortUnit, runVars, mainVars
  <2>2. Admit(j) /\ j = i
    BY <1>2, <2>1 DEF Select, Pause, Refuse, Admit
  <2> QED BY <1>2, <2>1, <2>2, AdmittedUntouched DEF Known, Untouched
<1>3. Known /\ UnitIInv /\ [MainNext]_mainVars =>
        /\ \A r \in Requests :
             sent'[r] # sent[r] => ParentOf[r] \notin records \cup rows
        /\ \A i \in DOMAIN Order :
             phase = "selecting" /\ phase' = "running" /\ cursor' = i =>
               \A r \in Requests : ParentOf[r] = Order[i] => sent[r] = 0
  BY <1>1, <1>2
<1> QED BY <1>3, UnitInvariant, PTL DEF MainSpec, NeverRedone

-------------------------------------------------------------------------------
(* What the next unit is chosen by. *)

\* A cache names only trajectories that have ended.
CacheIsSound == \A d \in Dispatchers : terminal[d] \subseteq TerminalParents

\* In the order of this session every unit before the one at hand is committed
\* or has ended; while a unit is selected this includes the one just done with.
NonePassedOver ==
  phase \in Selecting =>
    /\ cursor \in Nat
    /\ \A i \in DOMAIN Order :
         /\ SeedOf[Order[i]] = seed
         /\ i < cursor \/ (i = cursor /\ phase = "selecting")
         => Order[i] \in rows \cup TerminalParents

ChoiceIInv == CacheIsSound /\ NonePassedOver

\* Whatever a dispatcher puts into its cache is on the ledger.
LEMMA CacheSoundStep ==
  ASSUME DispatchTypeOK, CacheIsSound, [DispatchNext]_dispatchVars
  PROVE  CacheIsSound'
<1>0. /\ TerminalParents \subseteq TerminalParents'
      /\ terminal \in [Dispatchers -> SUBSET Parents]
  BY EndedStaysEnded DEF DispatchTypeOK, ProcessTypeOK
<1>1. ASSUME UNCHANGED terminal PROVE CacheIsSound'
  BY <1>0, <1>1 DEF CacheIsSound
<1>2. ASSUME NEW d \in Dispatchers, NEW s \in SUBSET TerminalParents',
             terminal' = [terminal EXCEPT ![d] = s]
      PROVE  CacheIsSound'
  BY <1>0, <1>2 DEF CacheIsSound
<1>3. ASSUME NEW d \in Dispatchers, NEW e, NEW label, Appending(d, e, label)
      PROVE  CacheIsSound'
  <2>1. /\ e.unit \in Requests
        /\ ledger'[e.unit].kind = TargetOf(e.kind, ledger[e.unit].kind)
    BY <1>3 DEF Appending, Advancing
  <2>2. e.kind \in FailedKinds => ledger'[e.unit].kind \in FailedKinds
    BY <2>1 DEF FailedKinds, TargetOf
  <2>3. e.kind \in FailedKinds => Terminated(ParentOf[e.unit]) \subseteq TerminalParents'
    BY <2>1, <2>2 DEF TerminalParents, Terminated
  <2>4. PICK s : s = IF e.kind \in FailedKinds
                       THEN terminal[d] \cup Terminated(ParentOf[e.unit])
                       ELSE terminal[d]
    OBVIOUS
  <2>5. terminal' = [terminal EXCEPT ![d] = s]
    BY <1>0, <1>3, <2>4 DEF Appending
  <2>6. s \in SUBSET TerminalParents'
    BY <1>0, <2>3, <2>4 DEF CacheIsSound
  <2> QED BY <1>2, <2>5, <2>6
<1>4. ASSUME NEW d \in Dispatchers,
             \/ PersistIntent(d) \/ PersistCompiled(d) \/ PersistOverflow(d)
             \/ PersistMissing(d) \/ StartAttempt(d) \/ PersistParsed(d)
             \/ AcknowledgeSuccess(d) \/ PersistFailure(d)
      PROVE  CacheIsSound'
  BY <1>1, <1>3, <1>4, RecordingAppends
<1>5. ASSUME NEW d \in Dispatchers,
             \/ \E c \in Compiled : Compile(d, c)
             \/ \E cost \in Costs \cup {UnknownCost} : Fail(d, cost) \/ Answer(d, cost)
             \/ Send(d) \/ AcknowledgeFailure(d) \/ AbandonResponse(d)
             \/ PublishObservation(d) \/ Raise(d)
             \/ FinishOpen(d) \/ BeginRecover(d)
             \/ \E r \in Requests : RecoverRequest(d, r)
      PROVE  UNCHANGED terminal
  BY <1>5 DEF Compile, Fail, Answer, Send, AcknowledgeFailure, AbandonResponse,
              PublishObservation, Raise, FinishOpen, BeginRecover,
              RecoverRequest, memVars
<1>6. ASSUME NEW d \in Dispatchers,
             \/ Refresh(d) \/ \E r \in Requests : Identify(d, r)
             \/ Open(d) \/ EndRecover(d) \/ Crash(d)
      PROVE  CacheIsSound'
  <2>1. PICK s : s = Refreshed(d)
    OBVIOUS
  <2>2. PICK t : t = TerminalParents
    OBVIOUS
  <2>3. /\ s \in SUBSET TerminalParents'
        /\ t \in SUBSET TerminalParents'
        /\ {} \in SUBSET TerminalParents'
    BY <1>0, <2>1, <2>2 DEF Refreshed, CacheIsSound
  <2>4. \/ terminal' = [terminal EXCEPT ![d] = s]
        \/ terminal' = [terminal EXCEPT ![d] = t]
        \/ terminal' = [terminal EXCEPT ![d] = {}]
    BY <1>6, <2>1, <2>2 DEF Refresh, Identify, Open, EndRecover, Crash
  <2> QED BY <1>2, <2>3, <2>4
<1>7. ASSUME NEW r \in Requests, Reconcile(r) PROVE CacheIsSound'
  BY <1>1, <1>7 DEF Reconcile, memVars
<1>8. CASE UNCHANGED dispatchVars
  BY <1>1, <1>8 DEF dispatchVars, memVars
<1> QED BY <1>1, <1>4, <1>5, <1>6, <1>7, <1>8 DEF DispatchNext, Progress, Resume

\* Past its recovery a session reads off its cache what has ended.
LEMMA CacheIsTruth ==
  ASSUME UnitIInv, CacheIsSound, phase \in Selecting
  PROVE  Refreshed(Runner) = TerminalParents
BY RunnerIsDispatcher
   DEF UnitIInv, CacheInSession, CacheIsCurrent, CacheIsSound, Refreshed

\* A unit is left behind only once it is committed or has lost a request.
LEMMA NonePassedOverStep ==
  ASSUME Known, UnitIInv, ChoiceIInv, [MainNext]_mainVars
  PROVE  NonePassedOver'
<1>0. /\ NonePassedOver /\ UnitAtHand /\ UnitAdmitted
      /\ TerminalParents \subseteq TerminalParents'
      /\ DOMAIN Order \subseteq Nat \ {0}
  BY RunStepIsDispatchStep, EndedStaysEnded, MainAssumption
     DEF Known, RunIInv, UnitIInv, ChoiceIInv
<1>1. ASSUME phase \in {"running", "published"}, phase' = "selecting",
             UNCHANGED <<cursor, seed>>, rows \subseteq rows',
             Unit \in rows' \cup TerminalParents'
      PROVE  NonePassedOver'
  <2>1. \A i \in DOMAIN Order :
          i = cursor => Order[i] \in rows' \cup TerminalParents'
    BY <1>1 DEF Unit
  <2> QED BY <1>0, <1>1, <2>1 DEF NonePassedOver, Selecting
<1>2. CASE LoseUnit
  <2>1. /\ cursor \in DOMAIN Order /\ made > 0 /\ made \in 0..Len(CallsOf[Unit])
        /\ ledger[LastCall].kind \in FailedKinds
    BY <1>0, <1>2 DEF LoseUnit, UnitAtHand, LosingKinds, FailedKinds
  <2>2. LastCall \in Requests /\ ParentOf[LastCall] = Unit
    BY <2>1, Calls DEF LastCall
  <2>3. Unit \in TerminalParents
    BY <2>1, <2>2 DEF TerminalParents, Terminated
  <2> QED BY <1>0, <1>1, <1>2, <2>3 DEF LoseUnit
<1>3. CASE CommitRow
  BY <1>1, <1>3 DEF CommitRow
<1>4. CASE EndRecovery
  <2>1. cursor' = 0
    BY <1>4 DEF EndRecovery
  <2>2. \A i \in DOMAIN Order : ~ (i < 0) /\ i # 0
    BY <1>0
  <2> QED BY <2>1, <2>2 DEF NonePassedOver
<1>5. ASSUME NEW i \in DOMAIN Order, Select(i)
      PROVE  NonePassedOver'
  <2>1. CASE Admit(i)
    <3>1. /\ phase = "selecting" /\ phase' = "running" /\ cursor' = i
          /\ UNCHANGED <<seed, rows>> /\ IsNext(i)
      BY <1>5, <2>1 DEF Select, Admit
    <3>2. Refreshed(Runner) = TerminalParents
      BY <3>1, CacheIsTruth DEF Selecting, ChoiceIInv
    <3>3. ASSUME NEW j \in DOMAIN Order, SeedOf[Order[j]] = seed, j < i
          PROVE  Order[j] \in rows \cup TerminalParents
      <4>1. CASE j <= cursor
        <5>1. j < cursor \/ j = cursor
          BY <1>0, <3>1, <4>1 DEF NonePassedOver, Selecting
        <5> QED BY <1>0, <3>1, <3>3, <5>1 DEF NonePassedOver, Selecting
      <4>2. CASE ~ (j <= cursor)
        <5>1. j > cursor /\ ~ (i <= j)
          BY <1>0, <3>1, <3>3, <4>2 DEF NonePassedOver, Selecting
        <5>2. j \notin Ahead
          BY <3>1, <5>1 DEF IsNext
        <5> QED BY <3>2, <3>3, <5>1, <5>2 DEF Ahead
      <4> QED BY <4>1, <4>2
    <3>4. i \in Nat
      BY <1>0
    <3> QED BY <1>0, <3>1, <3>3, <3>4 DEF NonePassedOver
  <2>2. CASE Refuse(i) \/ \E code \in PauseCodes : Pause(i, code)
    BY <2>2 DEF Refuse, Pause, NonePassedOver, Selecting
  <2> QED BY <1>5, <2>1, <2>2 DEF Select
<1>6. CASE PublishRecord
  BY <1>0, <1>6 DEF PublishRecord, NonePassedOver, Selecting
<1>7. CASE \/ AbortUnit \/ StopSelecting \/ EndProcess
           \/ \E s \in Seeds : BeginSession(s)
  BY <1>7 DEF AbortUnit, StopSelecting, EndProcess, BeginSession,
              NonePassedOver, Selecting
<1>8. CASE \/ Call \/ Work \/ StartProcess \/ UNCHANGED mainVars
           \/ \E r \in Requests : RecoverOne(r) \/ Bill(r)
  <2>1. UNCHANGED <<phase, cursor, seed, rows>>
    BY <1>8 DEF Call, Work, StartProcess, RecoverOne, Bill, mainVars, runVars
  <2> QED BY <1>0, <2>1 DEF NonePassedOver
<1> QED BY <1>2, <1>3, <1>4, <1>5, <1>6, <1>7, <1>8 DEF MainNext

\* Whenever a unit is chosen, after any history of the run: the cache is the
\* ledger, every request that went out is completed or lost with its unit, and
\* no unit of this session's order was passed over.
THEOREM MainSelectsOnTheTruth == MainSpec => []SelectsOnTheTruth
<1>1. MainInit => ChoiceIInv
  <2> SUFFICES ASSUME MainInit PROVE ChoiceIInv
    OBVIOUS
  <2>1. /\ phase = "starting"
        /\ \A d \in Dispatchers : terminal[d] = {}
    BY DEF MainInit, DispatchInit
  <2> QED BY <2>1 DEF ChoiceIInv, CacheIsSound, NonePassedOver, Selecting
<1>2. Known /\ UnitIInv /\ ChoiceIInv /\ [MainNext]_mainVars => ChoiceIInv'
  <2> SUFFICES ASSUME Known, UnitIInv, ChoiceIInv, [MainNext]_mainVars
               PROVE  ChoiceIInv'
    OBVIOUS
  <2>1. CacheIsSound'
    BY RunStepIsDispatchStep, CacheSoundStep DEF Known, RunIInv, ChoiceIInv
  <2> QED BY <2>1, NonePassedOverStep DEF ChoiceIInv
<1>3. Known /\ UnitIInv /\ ChoiceIInv => SelectsOnTheTruth
  <2> SUFFICES ASSUME Known, UnitIInv, ChoiceIInv, phase = "selecting"
               PROVE  SelectsOnTheTruth
    BY DEF SelectsOnTheTruth
  <2>1. Refreshed(Runner) = TerminalParents
    BY CacheIsTruth DEF Selecting, ChoiceIInv
  <2>2. ASSUME NEW r \in Requests, sent[r] > 0, ledger[r].kind # "COMPLETED"
        PROVE  ParentOf[r] \in TerminalParents
    <3>1. ledger[r].kind \in Attempted \cup {"ATTEMPT_STARTED"}
      BY <2>2 DEF Known, DispatchIInv, SentIsMarked
    <3>2. ledger[r].kind \notin Unresolved
      BY DEF UnitIInv, OneInFlight, Selecting, InFlight
    <3>3. ledger[r].kind \in FailedKinds
      BY <2>2, <3>1, <3>2 DEF Attempted, Unresolved, FailedKinds
    <3> QED BY <3>3 DEF TerminalParents, Terminated
  <2>3. ASSUME NEW i \in DOMAIN Order, i <= cursor, SeedOf[Order[i]] = seed
        PROVE  Order[i] \in rows \cup TerminalParents
    <3>1. cursor \in Nat /\ i \in Nat
      BY MainAssumption DEF ChoiceIInv, NonePassedOver, Selecting
    <3>2. i < cursor \/ i = cursor
      BY <2>3, <3>1
    <3> QED BY <2>3, <3>2 DEF ChoiceIInv, NonePassedOver, Selecting
  <2> QED BY <2>1, <2>2, <2>3 DEF SelectsOnTheTruth
<1> QED BY <1>1, <1>2, <1>3, UnitInvariant, PTL DEF MainSpec

-------------------------------------------------------------------------------
(* Money. *)

\* What each request has cost in the states l of the ledger, and what some have
\* cost together.
Paid(l) == [r \in Requests |-> IF l[r].cost \in Costs THEN l[r].cost ELSE 0]

Spent(l, S) == SumFunctionOnSet(Paid(l), S)

RequestsOf(p) == {r \in Requests : ParentOf[r] = p}

\* What the other units have cost.
PaidOutside(p) == Spent(ledger, Requests \ RequestsOf(p))

\* A unit that may still cost something: it runs, or its outcome or its bill is
\* open.
Spending(p) ==
  \/ phase = "running" /\ p = Unit
  \/ \E r \in Exposed : ParentOf[r] = p

\* The unit that runs is the only one of this kind.
ExposedIsOfUnit == phase = "running" => \A r \in Exposed : ParentOf[r] = Unit

\* What admitted a unit holds for as long as it may cost something: the other
\* units leave room for its projection.
RoomForUnit ==
  \A p \in Parents :
    Spending(p) =>
      /\ PaidOutside(p) + Projected[p] <= TrancheCeiling
      /\ PaidOutside(p) + Projected[p] <= AuthorizationCeiling

MoneyIInv == ExposedIsOfUnit /\ RoomForUnit /\ CeilingsHold

\* A unit has finitely many calls, and there are finitely many units.
LEMMA UnitsAreFinite ==
  /\ IsFiniteSet(Parents)
  /\ IsFiniteSet(Requests)
  /\ \A p \in Parents : IsFiniteSet(RequestsOf(p))
<1>1. IsFiniteSet(Parents)
  <2>1. IsFiniteSet(1..Len(Order)) /\ DOMAIN Order = 1..Len(Order)
    BY MainAssumption, FS_Interval
  <2>2. Order \in Surjection(1..Len(Order), Parents)
    <3>1. Order \in [1..Len(Order) -> Parents]
      BY MainAssumption
    <3> QED BY <2>1, <3>1, MainAssumption DEF Surjection
  <2> QED BY <2>1, <2>2, FS_Surjection
<1>2. ASSUME NEW p \in Parents PROVE IsFiniteSet(RequestsOf(p))
  <2> DEFINE c == CallsOf[p]
  <2>1. c \in Seq(Requests)
    BY MainAssumption
  <2>2. IsFiniteSet(1..Len(c)) /\ DOMAIN c = 1..Len(c)
    BY <2>1, FS_Interval
  <2>3. \A i \in 1..Len(c) : c[i] \in RequestsOf(p)
    <3>1. \A i \in DOMAIN c : ParentOf[c[i]] = p
      BY MainAssumption
    <3> HIDE DEF c
    <3> QED BY <2>1, <2>2, <3>1 DEF RequestsOf
  <2>4. \A r \in RequestsOf(p) : \E i \in DOMAIN c : c[i] = r
    BY MainAssumption DEF RequestsOf
  <2> HIDE DEF c
  <2>5. c \in [1..Len(c) -> RequestsOf(p)]
    BY <2>1, <2>2, <2>3
  <2>6. c \in Surjection(1..Len(c), RequestsOf(p))
    BY <2>2, <2>4, <2>5 DEF Surjection
  <2> QED BY <2>2, <2>6, FS_Surjection
<1>3. IsFiniteSet(Requests)
  <2> DEFINE all == {RequestsOf(p) : p \in Parents}
             map == [p \in Parents |-> RequestsOf(p)]
  <2>1. map \in Surjection(Parents, all)
    BY DEF Surjection
  <2>2. IsFiniteSet(all) /\ \A x \in all : IsFiniteSet(x)
    BY <1>1, <1>2, <2>1, FS_Surjection
  <2>3. Requests = UNION all
    BY DispatchAssumption DEF RequestsOf
  <2> HIDE DEF all
  <2> QED BY <2>2, <2>3, FS_UNION
<1> QED BY <1>1, <1>2, <1>3

\* A request has cost what it was billed, or nothing.
LEMMA PaidIs ==
  ASSUME NEW l, NEW r \in Requests
  PROVE  /\ Paid(l)[r] = IF l[r].cost \in Costs THEN l[r].cost ELSE 0
         /\ Paid(l)[r] \in Int
         /\ Paid(l)[r] \in Costs \cup {0}
<1>1. Paid(l)[r] = IF l[r].cost \in Costs THEN l[r].cost ELSE 0
  BY DEF Paid
<1>2. Paid(l)[r] \in Costs \cup {0}
  BY <1>1
<1>3. \A x \in Costs \cup {0} : x \in Int
  BY LedgerAssumption
<1> QED BY <1>1, <1>2, <1>3

\* The bills add up to what the requests have cost.
LEMMA BillsAddUp ==
  ASSUME NEW l
  PROVE  SumFunction([r \in {x \in Requests : l[x].cost \in Costs} |-> l[r].cost])
           = Spent(l, Requests)
<1> DEFINE billed == {r \in Requests : l[r].cost \in Costs}
           bills == [r \in billed |-> l[r].cost]
<1>2. SumFunction(bills) = SumFunctionOnSet(bills, billed)
  BY DEF SumFunction
<1>3. /\ \A r \in billed : bills[r] = Paid(l)[r]
      /\ \A r \in Requests \ billed : Paid(l)[r] = 0
      /\ billed \in SUBSET Requests
  BY DEF Paid
<1> HIDE DEF billed, bills
<1>4. IsFiniteSet(billed)
  BY <1>3, UnitsAreFinite, FS_Subset
<1>5. SumFunctionOnSet(bills, billed) = SumFunctionOnSet(Paid(l), billed)
  BY <1>3, <1>4, SumSame
<1>6. SumFunctionOnSet(Paid(l), Requests) = SumFunctionOnSet(Paid(l), billed)
  BY <1>3, PaidIs, UnitsAreFinite, SumDropZeros
<1>7. SumFunction(bills) = Spent(l, Requests)
  BY <1>2, <1>5, <1>6 DEF Spent
<1> QED BY <1>7 DEF billed, bills

\* The money spent is what the requests have cost, before and after a step.
LEMMA RealizedIs ==
  Realized = Spent(ledger, Requests) /\ Realized' = Spent(ledger', Requests)
BY BillsAddUp DEF Realized

\* No unit costs more than MostOf, and Overshoot is what it is called.
LEMMA OvershootBounds ==
  ASSUME IsFiniteSet(Costs)
  PROVE  /\ Overshoot \in Nat
         /\ \A p \in Parents :
              /\ MostOf(p) - Projected[p] <= Overshoot
              /\ MostOf(p) \in Int
              /\ \A l : Spent(l, RequestsOf(p)) <= MostOf(p)
<1> DEFINE most == Max(Costs \cup {0})
           over == {MostOf(p) - Projected[p] : p \in Parents}
<1>1. most \in Nat /\ \A cost \in Costs : cost <= most
  <2>1. Costs \cup {0} \in SUBSET Int /\ IsFiniteSet(Costs \cup {0})
    BY LedgerAssumption, FS_AddElement
  <2>2. most \in Costs \cup {0} /\ \A x \in Costs \cup {0} : x <= most
    BY <2>1, FiniteHasMax
  <2>3. \A x \in Costs \cup {0} : x \in Nat
    BY LedgerAssumption
  <2> HIDE DEF most
  <2> QED BY <2>2, <2>3
<1>2. \A p \in Parents : MostOf(p) = Cardinality(RequestsOf(p)) * most
  BY DEF MostOf, RequestsOf
<1> HIDE DEF most
<1>3. ASSUME NEW p \in Parents
      PROVE  MostOf(p) \in Int /\ \A l : Spent(l, RequestsOf(p)) <= MostOf(p)
  <2>1. IsFiniteSet(RequestsOf(p)) /\ Cardinality(RequestsOf(p)) \in Nat
    BY UnitsAreFinite, FS_CardinalityType
  <2>2. ASSUME NEW l
        PROVE  Spent(l, RequestsOf(p)) <= Cardinality(RequestsOf(p)) * most
    <3>1. \A r \in RequestsOf(p) : Paid(l)[r] \in Int /\ Paid(l)[r] \in Costs \cup {0}
      BY PaidIs DEF RequestsOf
    <3>2. \A r \in RequestsOf(p) : Paid(l)[r] \in Int /\ Paid(l)[r] <= most
      BY <1>1, <3>1
    <3> QED BY <1>1, <2>1, <3>2, SumAtMost DEF Spent
  <2>3. Cardinality(RequestsOf(p)) * most \in Int
    BY <1>1, <2>1
  <2> QED BY <1>2, <2>2, <2>3
<1>4. {0} \cup over \in SUBSET Int
  BY <1>3, MainAssumption
<1>5. IsFiniteSet({0} \cup over)
  <2> DEFINE map == [p \in Parents |-> MostOf(p) - Projected[p]]
  <2>1. map \in Surjection(Parents, over)
    BY DEF Surjection
  <2>2. IsFiniteSet(over)
    BY <2>1, UnitsAreFinite, FS_Surjection
  <2>3. IsFiniteSet({0})
    BY FS_Singleton
  <2> HIDE DEF over
  <2> QED BY <2>2, <2>3, FS_Union
<1>6. /\ Overshoot \in {0} \cup over
      /\ \A x \in {0} \cup over : x <= Overshoot
  <2>1. Overshoot = Max({0} \cup over)
    BY DEF Overshoot
  <2> HIDE DEF over
  <2> QED BY <1>4, <1>5, <2>1, FiniteHasMax
<1>7. Overshoot \in Nat
  BY <1>4, <1>6
<1> QED BY <1>3, <1>6, <1>7

\* One unit at a time may cost something.
LEMMA OneSpends ==
  ASSUME ExposedIsOfUnit, AtMostOneExposed,
         NEW p, NEW q, Spending(p), Spending(q)
  PROVE  p = q
BY DEF ExposedIsOfUnit, AtMostOneExposed, Spending

\* A request changes, and becomes exposed, only in the unit that runs, or if it
\* is exposed already.
LEMMA ExposedMoves ==
  ASSUME Known, UnitIInv, [MainNext]_mainVars, NEW r \in Requests,
         ledger'[r] # ledger[r]
  PROVE  \/ r \in Exposed
         \/ phase = "running" /\ phase' = "running" /\ cursor' = cursor
            /\ ParentOf[r] = Unit
<1>0. DispatchTypeOK /\ AllPriced /\ HandOfUnit /\ Runner \in Dispatchers
  BY RunnerIsDispatcher DEF Known, RunIInv, UnitIInv
<1>1. CASE Work
  <2>1. r = req[Runner]
    BY <1>0, <1>1, WorkMoves
  <2> QED BY <1>0, <1>1, <2>1 DEF HandOfUnit, Work, runVars
<1>2. ASSUME NEW x \in Requests, RecoverOne(x) PROVE r \in Exposed
  <2>1. /\ ledger[x].kind \in Unresolved
        /\ \A y \in Requests : y # x => ledger'[y] = ledger[y]
    BY <1>0, <1>2, RecoverySettles DEF RecoverOne
  <2> QED BY <2>1 DEF Exposed, InFlight
<1>3. ASSUME NEW x \in Requests, Bill(x) PROVE r \in Exposed
  <2>1. /\ ledger[x].cost = UnknownCost
        /\ \A y \in Requests \ {x} : ledger'[y] = ledger[y]
    BY <1>0, <1>3, ReconcileSettles DEF Bill
  <2> QED BY <2>1 DEF Exposed, UnknownCosts
<1>4. CASE \/ StartProcess \/ EndProcess \/ EndRecovery \/ StopSelecting
           \/ \E s \in Seeds : BeginSession(s)
           \/ \E i \in DOMAIN Order : Select(i)
           \/ Call \/ LoseUnit \/ PublishRecord \/ CommitRow \/ AbortUnit
           \/ UNCHANGED mainVars
  <2>1. ledger' = ledger
    BY <1>4
       DEF StartProcess, EndProcess, EndRecovery, StopSelecting, BeginSession,
           Select, Call, Open, FinishOpen, Crash, EndRecover, Leave, Refresh,
           BeginRecover, Identify, LoseUnit, PublishRecord, CommitRow,
           AbortUnit, mainVars, dispatchVars, diskVars
  <2> QED BY <2>1
<1> QED BY <1>1, <1>2, <1>3, <1>4 DEF MainNext

\* A unit comes to run by its admission only.
LEMMA RunningMoves ==
  ASSUME [MainNext]_mainVars, phase' = "running"
  PROVE  \/ phase = "running" /\ cursor' = cursor
         \/ \E i \in DOMAIN Order : Select(i) /\ Admit(i)
<1>1. ASSUME NEW i \in DOMAIN Order, Select(i) PROVE Admit(i)
  BY <1>1 DEF Select, Pause, Refuse
<1>2. CASE Call \/ Work
  BY <1>2 DEF Call, Work, runVars
<1>3. CASE \/ StartProcess \/ UNCHANGED mainVars
           \/ \E r \in Requests : RecoverOne(r) \/ Bill(r)
  BY <1>3 DEF StartProcess, RecoverOne, Bill, runVars, mainVars
<1>4. CASE \/ EndProcess \/ EndRecovery \/ StopSelecting \/ LoseUnit
           \/ PublishRecord \/ CommitRow \/ AbortUnit
           \/ \E s \in Seeds : BeginSession(s)
  BY <1>4 DEF EndProcess, EndRecovery, StopSelecting, LoseUnit, PublishRecord,
              CommitRow, AbortUnit, BeginSession
<1> QED BY <1>1, <1>2, <1>3, <1>4 DEF MainNext

\* A unit is admitted when nothing is exposed and it has cost nothing, so that
\* the money spent is what the others have cost.
LEMMA AdmittedHasRoom ==
  ASSUME Known, LedgerIInv, UnitIInv, NEW i \in DOMAIN Order, Select(i), Admit(i)
  PROVE  /\ Exposed = {} /\ UNCHANGED ledger /\ Unit' = Order[i]
         /\ Order[i] \in Parents
         /\ PaidOutside(Order[i]) + Projected[Order[i]] <= TrancheCeiling
         /\ PaidOutside(Order[i]) + Projected[Order[i]] <= AuthorizationCeiling
<1> DEFINE p == Order[i]
<1>1. /\ UnknownCosts = {} /\ phase = "selecting" /\ cursor' = i
      /\ Realized + Projected[p] <= TrancheCeiling
      /\ Realized + Projected[p] <= AuthorizationCeiling
      /\ UNCHANGED ledger
  BY DEF Select, Admit, Refresh, diskVars
<1>2. InFlight = {}
  BY <1>1 DEF UnitIInv, OneInFlight, Selecting
<1>3. p \in Parents /\ \A r \in RequestsOf(p) : ledger[r].kind = "PENDING"
  BY AdmittedUntouched DEF Known, RequestsOf, Untouched
<1>4. \A r \in RequestsOf(p) : Paid(ledger)[r] = 0
  <2> SUFFICES ASSUME NEW r \in RequestsOf(p) PROVE Paid(ledger)[r] = 0
    OBVIOUS
  <2>1. r \in Requests /\ ledger[r].cost = NoCost
    BY <1>3 DEF LedgerIInv, BillsOfAttempts, Attempted, RequestsOf
  <2> QED BY <2>1, PaidIs, LedgerAssumption
<1>5. Realized = PaidOutside(p)
  <2> DEFINE rest == Requests \ RequestsOf(p)
  <2>1. rest \in SUBSET Requests /\ \A r \in Requests \ rest : Paid(ledger)[r] = 0
    BY <1>4
  <2>2. \A r \in Requests : Paid(ledger)[r] \in Int
    BY PaidIs
  <2> HIDE DEF rest
  <2>3. Spent(ledger, Requests) = Spent(ledger, rest)
    BY <2>1, <2>2, UnitsAreFinite, SumDropZeros DEF Spent
  <2> QED BY <2>3, RealizedIs DEF rest, PaidOutside
<1> QED BY <1>1, <1>2, <1>3, <1>5 DEF Exposed, Unit


\* What the other units have cost stays while a unit may cost something.
LEMMA OutsideStays ==
  ASSUME Known, UnitIInv, ExposedIsOfUnit, [MainNext]_mainVars,
         NEW p \in Parents, Spending(p)
  PROVE  PaidOutside(p)' = PaidOutside(p)
<1> DEFINE rest == Requests \ RequestsOf(p)
<1>1. ASSUME NEW r \in rest PROVE ledger'[r] = ledger[r]
  <2> SUFFICES ASSUME ledger'[r] # ledger[r] PROVE FALSE
    OBVIOUS
  <2>1. r \in Requests /\ Spending(ParentOf[r])
    BY ExposedMoves DEF Spending
  <2> QED BY <1>1, <2>1, OneSpends DEF Known, RequestsOf
<1>2. IsFiniteSet(rest) /\ rest \in SUBSET Requests
  BY UnitsAreFinite, FS_Subset
<1> HIDE DEF rest
<1>3. \A r \in rest : Paid(ledger')[r] = Paid(ledger)[r]
  BY <1>1, <1>2 DEF Paid
<1>4. Spent(ledger', rest) = Spent(ledger, rest)
  BY <1>2, <1>3, SumSame DEF Spent
<1> QED BY <1>4 DEF rest, PaidOutside, RequestsOf

\* Every step keeps room for the unit that may still cost something.
LEMMA RoomStep ==
  ASSUME Known, LedgerIInv, UnitIInv, ExposedIsOfUnit, RoomForUnit,
         [MainNext]_mainVars
  PROVE  ExposedIsOfUnit' /\ RoomForUnit'
<1>1. ASSUME NEW r \in Requests, r \in Exposed', r \notin Exposed
      PROVE  phase = "running" /\ Unit' = Unit /\ ParentOf[r] = Unit
  <2>1. ledger'[r] # ledger[r]
    BY <1>1 DEF Exposed, InFlight, UnknownCosts
  <2> QED BY <1>1, <2>1, ExposedMoves DEF Unit
<1>2. CASE \E i \in DOMAIN Order : Select(i) /\ Admit(i)
  <2>1. PICK i \in DOMAIN Order : Select(i) /\ Admit(i)
    BY <1>2
  <2>2. Exposed' = {} /\ Unit' = Order[i] /\ UNCHANGED ledger
    BY <2>1, AdmittedHasRoom DEF Exposed, InFlight, UnknownCosts
  <2>3. \A p : PaidOutside(p)' = PaidOutside(p)
    BY <2>2 DEF PaidOutside, RequestsOf
  <2>4. ASSUME NEW p \in Parents, Spending(p)' PROVE p = Order[i]
    BY <2>2, <2>4 DEF Spending
  <2> QED BY <2>1, <2>2, <2>3, <2>4, AdmittedHasRoom DEF ExposedIsOfUnit, RoomForUnit
<1>3. CASE ~ \E i \in DOMAIN Order : Select(i) /\ Admit(i)
  <2>1. phase' = "running" => phase = "running" /\ Unit' = Unit
    BY <1>3, RunningMoves DEF Unit
  <2>2. ExposedIsOfUnit'
    <3> SUFFICES ASSUME phase' = "running", NEW r \in Exposed'
                 PROVE  ParentOf[r] = Unit'
      BY DEF ExposedIsOfUnit
    <3>1. r \in Requests
      BY DEF Exposed, InFlight, UnknownCosts
    <3> QED BY <1>1, <2>1, <3>1 DEF ExposedIsOfUnit
  <2>3. ASSUME NEW p \in Parents, Spending(p)' PROVE Spending(p)
    <3>1. CASE phase' = "running" /\ p = Unit'
      BY <2>1, <3>1 DEF Spending
    <3>2. CASE \E r \in Exposed' : ParentOf[r] = p
      <4>1. PICK r \in Exposed' : ParentOf[r] = p
        BY <3>2
      <4>2. r \in Requests
        BY DEF Exposed, InFlight, UnknownCosts
      <4> QED BY <1>1, <4>1, <4>2 DEF Spending
    <3> QED BY <2>3, <3>1, <3>2 DEF Spending
  <2>4. ASSUME NEW p \in Parents, Spending(p)
        PROVE  PaidOutside(p)' = PaidOutside(p)
    BY <2>4, OutsideStays
  <2> QED BY <2>2, <2>3, <2>4 DEF RoomForUnit
<1> QED BY <1>2, <1>3

\* The money spent grows in a unit that has room, so it stays below the ceilings
\* and what one unit can cost beyond its projection.
LEMMA CeilingsStep ==
  ASSUME IsFiniteSet(Costs), Known, UnitIInv, MoneyIInv, [MainNext]_mainVars
  PROVE  CeilingsHold'
<1>1. CASE \A r \in Requests : ledger'[r] = ledger[r]
  <2>1. Paid(ledger') = Paid(ledger)
    BY <1>1 DEF Paid
  <2>2. Realized' = Realized
    BY <2>1, RealizedIs DEF Spent
  <2> QED BY <2>2 DEF MoneyIInv, CeilingsHold
<1>2. ASSUME NEW r \in Requests, ledger'[r] # ledger[r]
      PROVE  CeilingsHold'
  <2> DEFINE p == ParentOf[r]
             mine == Spent(ledger', RequestsOf(p))
             rest == Spent(ledger', Requests \ RequestsOf(p))
  <2>1. p \in Parents /\ Spending(p)
    BY <1>2, ExposedMoves, DispatchAssumption DEF Spending
  <2>2. rest = PaidOutside(p)
    <3>1. PaidOutside(p)' = PaidOutside(p)
      BY <2>1, OutsideStays DEF MoneyIInv
    <3> QED BY <3>1 DEF PaidOutside, RequestsOf
  <2>3. /\ rest + Projected[p] <= TrancheCeiling
        /\ rest + Projected[p] <= AuthorizationCeiling
    <3> HIDE DEF p, rest
    <3> QED BY <2>1, <2>2 DEF MoneyIInv, RoomForUnit
  <2>4. Realized' = mine + rest
    <3>1. \A x \in Requests : Paid(ledger')[x] \in Int
      BY PaidIs
    <3>2. RequestsOf(p) \in SUBSET Requests
      BY DEF RequestsOf
    <3> QED BY <3>1, <3>2, UnitsAreFinite, SumSplit, RealizedIs DEF Spent
  <2>5. /\ Overshoot \in Nat /\ MostOf(p) \in Int
        /\ MostOf(p) - Projected[p] <= Overshoot
        /\ mine <= MostOf(p)
    BY <2>1, OvershootBounds
  <2>6. mine \in Int /\ rest \in Int
    <3>1. \A x \in Requests : Paid(ledger')[x] \in Int
      BY PaidIs
    <3>2. /\ IsFiniteSet(RequestsOf(p)) /\ IsFiniteSet(Requests \ RequestsOf(p))
          /\ RequestsOf(p) \subseteq Requests
      BY <2>1, UnitsAreFinite, FS_Subset DEF RequestsOf
    <3> QED BY <3>1, <3>2, SumIsInt DEF Spent
  <2>7. Projected[p] \in Int /\ TrancheCeiling \in Int /\ AuthorizationCeiling \in Int
    BY <2>1, MainAssumption
  <2> HIDE DEF p, mine, rest
  <2>8. /\ Realized' <= TrancheCeiling + Overshoot
        /\ Realized' <= AuthorizationCeiling + Overshoot
    BY <2>3, <2>4, <2>5, <2>6, <2>7
  <2> QED BY <2>8 DEF CeilingsHold
<1> QED BY <1>1, <1>2

\* Nothing is spent in the beginning.
LEMMA MoneyInit ==
  ASSUME IsFiniteSet(Costs), MainInit
  PROVE  MoneyIInv
<1>1. /\ phase = "starting"
      /\ \A r \in Requests : ledger[r].kind = "PENDING" /\ ledger[r].cost = NoCost
  BY DEF MainInit, DispatchInit, LedgerInit, GenesisState
<1>2. Exposed = {}
  BY <1>1, LedgerAssumption DEF Exposed, InFlight, UnknownCosts, Unresolved
<1>3. \A r \in Requests : Paid(ledger)[r] = 0
  BY <1>1, LedgerAssumption DEF Paid
<1>4. Realized = 0
  <2>1. Spent(ledger, Requests) = Spent(ledger, {})
    <3>1. \A r \in Requests : Paid(ledger)[r] \in Int
      BY PaidIs
    <3> QED BY <1>3, <3>1, UnitsAreFinite, SumDropZeros DEF Spent
  <2> QED BY <2>1, RealizedIs, SumOfNone DEF Spent
<1> QED
  BY <1>1, <1>2, <1>4, OvershootBounds, MainAssumption
     DEF MoneyIInv, ExposedIsOfUnit, RoomForUnit, CeilingsHold, Spending

\* Whatever the crashes, the unknown bills and the sessions: the money spent
\* exceeds neither ceiling by more than one unit can exceed its projection.
THEOREM MainCeilings ==
  ASSUME IsFiniteSet(Costs)
  PROVE  MainSpec => []CeilingsHold
<1>1. MainSpec => []LedgerIInv
  BY MainImplements, DispatchImplements, LedgerInvariant, PTL
     DEF MainImplementsDispatch, DispatchImplementsLedger
<1>2. MainInit => MoneyIInv
  BY MoneyInit
<1>3. Known /\ UnitIInv /\ LedgerIInv /\ MoneyIInv /\ [MainNext]_mainVars => MoneyIInv'
  BY RoomStep, CeilingsStep DEF MoneyIInv
<1>4. MoneyIInv => CeilingsHold
  BY DEF MoneyIInv
<1> QED BY <1>1, <1>2, <1>3, <1>4, UnitInvariant, PTL DEF MainSpec

===============================================================================
