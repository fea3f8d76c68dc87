-------------------------------- MODULE MainRun --------------------------------
(***************************************************************************)
(* The V3 main run: V3MainRun.execute walks the production order of one    *)
(* seed, admits each unit (trajectory) against the cost ceilings, drives   *)
(* its provider calls through the dispatcher, and commits the finished     *)
(* unit, with a crash possible at every step and an operator who resumes   *)
(* the run (phase13_main_v3_runner.py, phase13_main_request_client.py,     *)
(* phase13_main_run_journal.py).                                           *)
(*                                                                         *)
(* V3MainRun.open holds an exclusive lock of the run directory, so there   *)
(* is one dispatcher, Runner.  A trajectory of RequestDispatch is a unit.  *)
(***************************************************************************)
EXTENDS RequestDispatch, FiniteSetsExt

CONSTANTS
  Runner,        \* the one dispatcher of the process that owns the run
  Order,         \* the units in production order (final_order)
  SeedOf,        \* unit -> seed
  CallsOf,       \* unit -> its requests, in the order they can be made
  Projected,     \* unit -> projected_cost_krw
  TrancheCeiling,        \* tranche_ceiling_krw
  AuthorizationCeiling,  \* the 450000 of execute
  MaxUnits       \* max_units of every execute

ASSUME MainAssumption ==
  /\ Dispatchers = {Runner}
  /\ Order \in Seq(Parents)
  /\ \A i, j \in DOMAIN Order : Order[i] = Order[j] => i = j
  /\ \A p \in Parents : \E i \in DOMAIN Order : Order[i] = p
  /\ SeedOf \in [Parents -> Nat]
  /\ CallsOf \in [Parents -> Seq(Requests)]
  /\ \A r \in Requests : \E i \in DOMAIN CallsOf[ParentOf[r]] :
       CallsOf[ParentOf[r]][i] = r
  /\ \A p \in Parents : \A i, j \in DOMAIN CallsOf[p] :
       /\ ParentOf[CallsOf[p][i]] = p
       /\ CallsOf[p][i] = CallsOf[p][j] => i = j
  /\ Projected \in [Parents -> Nat]
  /\ TrancheCeiling \in Nat /\ AuthorizationCeiling \in Nat /\ MaxUnits \in Nat

VARIABLES
  phase,         \* where execute is
  seed,          \* the seed of this session
  cursor,        \* position in Order of the unit execute works on, 0 before
  made,          \* calls made for that unit
  attempted,     \* units attempted by this execute
  records,       \* units whose parent.json is published
  rows,          \* units whose row of the parents table is set
  journal        \* the last row of run_journal, as <<unit, code>>

runVars == <<phase, seed, cursor, made, attempted, records, rows, journal>>
mainVars == <<dispatchVars, runVars>>

-------------------------------------------------------------------------------

Unit == Order[cursor]

\* The call whose outcome execute waits for or has just seen.
LastCall == CallsOf[Unit][made]

\* realized_cost_krw of the ledger.
Realized ==
  LET billed == {r \in Requests : ledger[r].cost \in Costs}
  IN SumFunction([r \in billed |-> ledger[r].cost])

\* Units of earlier seeds that are neither committed nor ended.
PrecedingOpen ==
  {p \in Parents : SeedOf[p] < seed} \ (rows \cup TerminalParents)

\* The next unit execute does not skip, if there is one.
Ahead ==
  {i \in DOMAIN Order :
     /\ i > cursor
     /\ SeedOf[Order[i]] = seed
     /\ Order[i] \notin rows \cup Refreshed(Runner)}

IsNext(i) == i \in Ahead /\ \A j \in Ahead : i <= j

RunIdle == pc[Runner] = "idle"

-------------------------------------------------------------------------------
(* A session: open, recover, select. *)

\* execute: the seed is the caller's; recovery comes before anything else.
BeginSession(s) ==
  /\ phase = "starting"
  /\ BeginRecover(Runner)
  /\ phase' = "recovering"
  /\ seed' = s
  /\ UNCHANGED <<cursor, made, attempted, records, rows, journal>>

RecoverOne(r) == RecoverRequest(Runner, r) /\ UNCHANGED runVars

\* Faulty variant: a seed may start while an earlier one is unfinished.
EndRecovery_AnySeed ==
  /\ phase = "recovering"
  /\ EndRecover(Runner)
  /\ phase' = "selecting"
  /\ cursor' = 0 /\ attempted' = 0
  /\ UNCHANGED <<seed, made, records, rows, journal>>

\* MAIN_TRANCHE_ORDER_MISMATCH ends the session.
EndRecovery ==
  /\ phase = "recovering"
  /\ EndRecover(Runner)
  /\ phase' = IF PrecedingOpen = {} THEN "selecting" ELSE "ending"
  /\ cursor' = 0 /\ attempted' = 0
  /\ UNCHANGED <<seed, made, records, rows, journal>>

\* The loop is over, or max_units is reached.
StopSelecting ==
  /\ phase = "selecting"
  /\ Ahead = {} \/ attempted >= MaxUnits
  /\ Refresh(Runner)
  /\ phase' = "ending"
  /\ UNCHANGED <<seed, cursor, made, attempted, records, rows, journal>>

HasCompleted(p) == \E r \in Requests : ParentOf[r] = p /\ ledger[r].kind = "COMPLETED"

\* Before unit i: a pause is journalled, a unit with completed requests and no
\* row is an error that only ends the session.
Pause(i, code) ==
  /\ \/ code = "MAIN_TERMINAL_COST_UNKNOWN" /\ UnknownCosts # {}
     \/ /\ UnknownCosts = {} /\ ~HasCompleted(Order[i])
        /\ \/ /\ code = "MAIN_TRANCHE_CEILING_EXCEEDED"
              /\ Realized + Projected[Order[i]] > TrancheCeiling
           \/ /\ code = "MAIN_AUTHORIZATION_CEILING_EXCEEDED"
              /\ Realized + Projected[Order[i]] <= TrancheCeiling
              /\ Realized + Projected[Order[i]] > AuthorizationCeiling
  /\ journal' = <<Order[i], code>>
  /\ phase' = "ending"
  /\ UNCHANGED <<cursor, made>>

\* MAIN_RUN_IN_FLIGHT_RECONCILIATION_REQUIRED
Refuse(i) ==
  /\ UnknownCosts = {} /\ HasCompleted(Order[i])
  /\ phase' = "ending"
  /\ UNCHANGED <<journal, cursor, made>>

\* Faulty variant: the projection of the unit is left out of the check.
Admit_IgnoresProjection(i) ==
  /\ UnknownCosts = {} /\ ~HasCompleted(Order[i])
  /\ Realized <= TrancheCeiling
  /\ Realized <= AuthorizationCeiling
  /\ journal' = <<Order[i], "MAIN_DISPATCH_ADMITTED">>
  /\ phase' = "running" /\ cursor' = i /\ made' = 0

\* Faulty variant: a unit with completed requests starts over.
Admit_Restarts(i) ==
  /\ UnknownCosts = {}
  /\ Realized + Projected[Order[i]] <= TrancheCeiling
  /\ Realized + Projected[Order[i]] <= AuthorizationCeiling
  /\ journal' = <<Order[i], "MAIN_DISPATCH_ADMITTED">>
  /\ phase' = "running" /\ cursor' = i /\ made' = 0

\* Faulty variant: the admission is not journalled.
Admit_Silently(i) ==
  /\ UnknownCosts = {} /\ ~HasCompleted(Order[i])
  /\ Realized + Projected[Order[i]] <= TrancheCeiling
  /\ Realized + Projected[Order[i]] <= AuthorizationCeiling
  /\ phase' = "running" /\ cursor' = i /\ made' = 0
  /\ UNCHANGED journal

Admit(i) ==
  /\ UnknownCosts = {} /\ ~HasCompleted(Order[i])
  /\ Realized + Projected[Order[i]] <= TrancheCeiling
  /\ Realized + Projected[Order[i]] <= AuthorizationCeiling
  /\ journal' = <<Order[i], "MAIN_DISPATCH_ADMITTED">>
  /\ phase' = "running" /\ cursor' = i /\ made' = 0

PauseCodes ==
  {"MAIN_TERMINAL_COST_UNKNOWN", "MAIN_TRANCHE_CEILING_EXCEEDED",
   "MAIN_AUTHORIZATION_CEILING_EXCEEDED"}

Select(i) ==
  /\ phase = "selecting"
  /\ IsNext(i) /\ attempted < MaxUnits
  /\ Refresh(Runner)
  /\ (\E code \in PauseCodes : Pause(i, code)) \/ Refuse(i) \/ Admit(i)
  /\ UNCHANGED <<seed, attempted, records, rows>>

-------------------------------------------------------------------------------
(* One unit. *)

MadeCompleted == \A k \in 1..made : ledger[CallsOf[Unit][k]].kind = "COMPLETED"

\* checkpoint: the branch starts from the committed evidence of its prefix.
Ready(p) == PrefixOf[p] # NoParent => PrefixOf[p] \in rows

\* chat of the next call; the one before it has been acknowledged.
Call ==
  /\ phase = "running" /\ RunIdle
  /\ Ready(Unit) /\ MadeCompleted
  /\ made < Len(CallsOf[Unit])
  /\ Identify(Runner, CallsOf[Unit][made + 1])
  /\ made' = made + 1
  /\ UNCHANGED <<phase, seed, cursor, attempted, records, rows, journal>>

\* The dispatcher works on the call; receive defers completion, so an answer
\* waits for chat or trial to acknowledge it.
Work ==
  /\ phase = "running"
  /\ Progress(Runner)
  /\ pc'[Runner] # "parsed"
  /\ UNCHANGED runVars

\* What a request is after a DispatchTechnicalFailureV3 of its dispatch.
LosingKinds == {"TERMINAL_TECHNICAL_MISSING", "ATTEMPTED_PROVIDER_FAILURE"}

\* Faulty variant: any error of the unit is taken for its end.
LoseUnit_AnyError ==
  /\ phase = "running" /\ RunIdle /\ made > 0
  /\ ledger[LastCall].kind # "COMPLETED"
  /\ phase' = "selecting"
  /\ attempted' = attempted + 1
  /\ UNCHANGED <<dispatchVars, seed, cursor, made, records, rows, journal>>

\* DispatchTechnicalFailureV3: the unit has ended, execute goes on.
LoseUnit ==
  /\ phase = "running" /\ RunIdle /\ made > 0
  /\ ledger[LastCall].kind \in LosingKinds
  /\ phase' = "selecting"
  /\ attempted' = attempted + 1
  /\ UNCHANGED <<dispatchVars, seed, cursor, made, records, rows, journal>>

\* Faulty variant: the record is published before the last acknowledgement.
PublishRecord_Early ==
  /\ phase = "running" /\ made > 0
  /\ pc[Runner] \in {"idle", "waiting"}
  /\ records' = records \cup {Unit}
  /\ phase' = "published"
  /\ UNCHANGED <<dispatchVars, seed, cursor, made, attempted, rows, journal>>

\* Faulty variant: the calls of the unit are not checked.
PublishRecord_Unchecked ==
  /\ phase = "running" /\ RunIdle /\ made > 0
  /\ records' = records \cup {Unit}
  /\ phase' = "published"
  /\ UNCHANGED <<dispatchVars, seed, cursor, made, attempted, rows, journal>>

\* The baseline returned: its evidence is validated and published.
PublishRecord ==
  /\ phase = "running" /\ RunIdle /\ made > 0 /\ MadeCompleted
  /\ records' = records \cup {Unit}
  /\ phase' = "published"
  /\ UNCHANGED <<dispatchVars, seed, cursor, made, attempted, rows, journal>>

CommitRow ==
  /\ phase = "published"
  /\ rows' = rows \cup {Unit}
  /\ attempted' = attempted + 1
  /\ phase' = "selecting"
  /\ UNCHANGED <<dispatchVars, seed, cursor, made, records, journal>>

\* Any other error ends the session; the ones that execute takes for a failed
\* reconstruction are journalled if the unit has a completed request.
AbortUnit ==
  /\ phase \in {"running", "published"} /\ RunIdle
  /\ phase' = "ending"
  /\ \/ journal' = journal
     \/ HasCompleted(Unit) /\ journal' = <<Unit, "RECONSTRUCTION_FAILED">>
  /\ UNCHANGED <<dispatchVars, seed, cursor, made, attempted, records, rows>>

\* The process ends, because execute does or because it is killed.
EndProcess ==
  /\ Crash(Runner)
  /\ phase' = "starting" /\ cursor' = 0 /\ made' = 0 /\ attempted' = 0
  /\ UNCHANGED <<seed, records, rows, journal>>

\* The operator starts the next process.
StartProcess ==
  /\ phase = "starting"
  /\ Open(Runner) \/ FinishOpen(Runner)
  /\ UNCHANGED runVars

Bill(r) == Reconcile(r) /\ UNCHANGED runVars

-------------------------------------------------------------------------------

MainInit ==
  /\ DispatchInit
  /\ phase = "starting" /\ seed \in {SeedOf[p] : p \in Parents}
  /\ cursor = 0 /\ made = 0 /\ attempted = 0
  /\ records = {} /\ rows = {}
  /\ journal = <<NoParent, "EMPTY">>

Seeds == {SeedOf[p] : p \in Parents}

MainNext ==
  \/ StartProcess \/ EndProcess
  \/ \E s \in Seeds : BeginSession(s)
  \/ \E r \in Requests : RecoverOne(r) \/ Bill(r)
  \/ EndRecovery \/ StopSelecting
  \/ \E i \in DOMAIN Order : Select(i)
  \/ Call \/ Work \/ LoseUnit \/ PublishRecord \/ CommitRow \/ AbortUnit

MainSpec == MainInit /\ [][MainNext]_mainVars

\* execute does not stop half-way on its own, and a dispatch ends by itself.
MainFairness ==
  /\ WF_mainVars(EndRecovery \/ \E r \in Requests : RecoverOne(r))
  /\ WF_mainVars(StopSelecting \/ \E i \in DOMAIN Order : Select(i))
  /\ WF_mainVars(Call \/ Work \/ LoseUnit \/ PublishRecord \/ CommitRow
                 \/ AbortUnit)

MainFairSpec == MainSpec /\ MainFairness

-------------------------------------------------------------------------------
(* Properties. *)

\* What open and status verify of every committed unit holds in every state a
\* process may die in: its record is there, and of its requests those that were
\* dispatched are completed at a known cost.
RowsAreEvidenced ==
  \A p \in rows :
    /\ p \in records
    /\ HasCompleted(p)
    /\ \A r \in Requests :
         ParentOf[r] = p =>
           \/ ledger[r].kind = "COMPLETED" /\ ledger[r].cost \in Costs
           \/ ledger[r].kind = "PENDING" /\ sent[r] = 0

\* status counts a unit as completed or as technically missing, never as both,
\* so that its pending count is right.
CountsAddUp == rows \cap TerminalParents = {}

\* No request is sent for a unit that already has a published record or a row,
\* or that has a completed request from an earlier process.
NeverRedone ==
  [][/\ \A r \in Requests : sent'[r] # sent[r] => ParentOf[r] \notin records \cup rows
     /\ \A i \in DOMAIN Order : phase = "selecting" /\ phase' = "running" /\ cursor' = i =>
          \A r \in Requests : ParentOf[r] = Order[i] => sent[r] = 0]_mainVars

\* A seed spends money only once every unit of the seeds before it is committed
\* or has ended.
TranchesInOrder ==
  [][\A r \in Requests :
       sent'[r] # sent[r] =>
         \A p \in Parents :
           SeedOf[p] < SeedOf[ParentOf[r]] => p \in rows \cup TerminalParents
    ]_mainVars

\* What the requests of a unit can cost at most.
MostOf(p) ==
  Cardinality({r \in Requests : ParentOf[r] = p}) * Max(Costs \cup {0})

\* By how much a unit can exceed its projection (OvershootIsBounded of CostLaw).
Overshoot == Max({0} \cup {MostOf(p) - Projected[p] : p \in Parents})

\* The money spent exceeds a ceiling by no more than one unit can exceed its
\* projection, over crashes, unknown bills and their later reconciliation; so
\* not at all where the projections cover what the requests cost.
CeilingsHold ==
  /\ Realized <= TrancheCeiling + Overshoot
  /\ Realized <= AuthorizationCeiling + Overshoot

\* Nothing is sent unless the last row of the journal admits its unit.
AdmittedFirst ==
  [][\A r \in Requests :
       sent'[r] # sent[r] =>
         journal = <<ParentOf[r], "MAIN_DISPATCH_ADMITTED">>]_mainVars

\* What execute chooses its next unit by is true, after any recovery, lost unit,
\* late bill and earlier session: the cache names exactly the trajectories that
\* have ended; every request that ever went out is completed or counts as lost
\* with its unit, so nothing paid for is in limbo; and in this session's order
\* no unit was passed over that is neither committed nor ended.
SelectsOnTheTruth ==
  phase = "selecting" =>
    /\ Refreshed(Runner) = TerminalParents
    /\ \A r \in Requests :
         sent[r] > 0 => ledger[r].kind = "COMPLETED" \/ ParentOf[r] \in TerminalParents
    /\ \A i \in DOMAIN Order :
         i <= cursor /\ SeedOf[Order[i]] = seed =>
           Order[i] \in rows \cup TerminalParents

\* The dispatcher's specification, which every step of the run keeps.
MainImplementsDispatch == DispatchSpec

\* A session comes to its end: execute does not go round in circles, whatever
\* the dispatches, the recovery and the operator do.
SessionEnds ==
  phase \in {"recovering", "selecting", "running", "published"} ~>
    phase \in {"ending", "starting"}

===============================================================================
