----------------------------- MODULE RootlessAttempt -----------------------------
(***************************************************************************)
(* One live attempt of the rootless challenge from its first command to    *)
(* its report: the claim and the clock checkpoints of the stage processes  *)
(* (rootless_local_broker.py), the terminals they seal                     *)
(* (rootless_local_closure.py), and the commands of the operator's script  *)
(* (rootless_local_bootstrap_cli.py, rootless_local_operator.py).          *)
(*                                                                         *)
(* The script runs one command at a time and begins with reconcile-attempt;*)
(* which command follows is its choice, and every command refuses on its   *)
(* own.  Script and stage processes share runtime.lock and the state       *)
(* directory, and nothing else: when the script dies, a process it started *)
(* lives on.  Documents are written through a temporary file that a death  *)
(* may leave behind.                                                       *)
(*                                                                         *)
(* What happens inside a stage is RootlessStage: here it makes calls and   *)
(* comes to a verdict, or refuses to.                                      *)
(***************************************************************************)
EXTENDS Naturals, Sequences

CONSTANTS
  Processes,      \* names of stage processes
  MaxCalls,       \* bound: calls of a stage
  MaxDeaths,      \* bound: deaths of a process or of the script, and reboots
  MaxSteps,       \* bound: times the realtime clock is set back
  MaxTime,        \* bound: the realtime clock
  Nothing, Script, Free

Stages == {"screening", "bct"}

TerminalStatus ==
  {"completed_estimable", "not_estimable", "review_required", "blocked", "interrupted"}

\* What the terminal record of a stage says, and its document after it; and what
\* final.json says of the last one.
Terminals == [verdict : TerminalStatus, issued : Nat, total : Nat]
Finals == [stage : Stages, verdict : TerminalStatus]

ASSUME AttemptAssumption ==
  /\ {MaxCalls, MaxDeaths, MaxSteps, MaxTime} \subseteq Nat
  /\ Nothing \notin Nat \cup Terminals \cup Finals
  /\ {Script, Free} \cap Processes = {} /\ Script # Free

VARIABLES
  marked,         \* bindings, acknowledgements and authority of screening exist
  frozen,         \* Freeze-B, binding and authority of BCT exist
  claim,          \* live-attempt-claim.json: its created_at, or Nothing
  clocks,         \* runtime-clock/: checkpoints [stage, boot, at]
  calls,          \* stage -> reservations in the ledger
  closed,         \* stage -> its terminal record in the ledger
  terminal,       \* stage -> terminals/<stage>.json
  docs,           \* the documents of the attempt
  torn,           \* what has a temporary file with other bytes in its way
  doubled,        \* stages whose terminal still has its temporary name, too
  lock,           \* who holds runtime.lock
  script,         \* [at, todo, stage, after]
  process,        \* name -> [at, stage, started, verdict, orphan]
  boot, now,      \* boot id and realtime clock
  deaths, steps,  \* bounds
  strayed         \* a process whose script had died before took the lock

stateVars == <<marked, frozen, claim, clocks, calls, closed, terminal>>
docVars == <<docs, torn, doubled>>
worldVars == <<boot, now, deaths, steps>>
attemptVars == <<stateVars, docVars, lock, script, process, worldVars, strayed>>

-------------------------------------------------------------------------------
(* Files. *)

\* _inventory_entries: every file of the state directory but the lock, the
\* inventory itself and temporary files.
Files ==
  [claim |-> claim, clocks |-> clocks, calls |-> calls, closed |-> closed,
   terminal |-> terminal, frozen |-> frozen, final |-> docs.final]

\* write_new_or_same: a document may be written again only with the same bytes,
\* and a temporary file with other bytes is in the way for good.
Writable(d, value) == d \notin torn /\ docs[d] \in {Nothing, value}

Written(d, value) ==
  docs' = [docs EXCEPT ![d] = value] /\ UNCHANGED <<torn, doubled>>

\* _inventory_entries refuses a file that has two names.
CanInventory == doubled = {}

\* The checkpoints tell one boot and a realtime that never went back.
OneBoot == \A i \in DOMAIN clocks : clocks[i].boot = clocks[1].boot
InOrder == \A i \in 2..Len(clocks) : clocks[i - 1].at <= clocks[i].at

IssuedTotal == calls["screening"] + calls["bct"]

-------------------------------------------------------------------------------
(* A stage process: build_live_broker, the stage, close_stage. *)

NoProcess == [at |-> "none", stage |-> "screening", started |-> FALSE,
              verdict |-> Nothing, orphan |-> FALSE]

Moves(p, at) == process' = [process EXCEPT ![p].at = at]

Leaves(p) == process' = [process EXCEPT ![p] = NoProcess] /\ lock' = Free

\* acquire_runtime_lock; a process that finds it taken ends, and so does one
\* whose binding, authority or secret is refused before.
TakeLock(p) ==
  /\ process[p].at = "launched"
  /\ \/ lock = Free /\ lock' = p /\ Moves(p, "locked")
        /\ strayed' = (strayed \/ process[p].orphan)
     \/ process' = [process EXCEPT ![p] = NoProcess]
        /\ UNCHANGED <<lock, strayed>>
  /\ UNCHANGED <<stateVars, docVars, script, worldVars>>

\* _establish_live_claim of the first process: the claim, then its checkpoint.
WriteClaim(p) ==
  /\ process[p].at = "locked" /\ claim = Nothing
  /\ \/ /\ "claim" \notin torn
        /\ claim' = now
        /\ Moves(p, "claimed") /\ UNCHANGED lock
     \/ "claim" \in torn /\ Leaves(p) /\ UNCHANGED claim
  /\ UNCHANGED <<marked, frozen, clocks, calls, closed, terminal, docVars,
                 script, worldVars, strayed>>

WriteFirstCheckpoint(p) ==
  /\ process[p].at = "claimed"
  /\ clocks' = Append(clocks, [stage |-> Nothing, boot |-> boot, at |-> claim])
  /\ Moves(p, "running")
  /\ UNCHANGED <<marked, frozen, claim, calls, closed, terminal, docVars, lock,
                 script, worldVars, strayed>>

\* What _establish_live_claim asks of the checkpoints a claim is found with.
ContinuesChain ==
  Len(clocks) \in 1..3 /\ InOrder /\ OneBoot /\ clocks[1].boot = boot

\* Without it: ROOTLESS_INTERRUPTED_UNCLEAN, before anything else.
FindClaim(p) ==
  /\ process[p].at = "locked" /\ claim # Nothing
  /\ \/ ContinuesChain /\ Moves(p, "running") /\ UNCHANGED lock
     \/ ~ContinuesChain /\ Leaves(p)
  /\ UNCHANGED <<stateVars, docVars, script, worldVars, strayed>>

\* A stage that is closed takes no reservation; one closed with receipts for all
\* its slots has nothing left to dispatch.
LedgerOpen(stage) == closed[stage] = Nothing

HasSlotsLeft(stage) ==
  closed[stage] # Nothing => closed[stage].verdict \in {"blocked", "interrupted"}

\* Faulty variant: BCT goes on under the checkpoint of screening.
StageClock_First(stage) ==
  IF Len(clocks) = 1 THEN "new" ELSE "kept"

\* _start_stage_clock
StageClock(stage) ==
  CASE Len(clocks) = 0 -> "refused"
    [] Len(clocks) = 1 -> "new"
    [] Len(clocks) = 2 /\ clocks[2].stage = stage -> "kept"
    [] Len(clocks) = 2 /\ clocks[2].stage # stage ->
         IF stage = "bct" /\ clocks[2].stage = "screening" THEN "new" ELSE "refused"
    [] OTHER -> IF clocks[3].stage = stage THEN "kept" ELSE "refused"

\* The first dispatch of a process; if it is refused the stage is interrupted.
StartStageClock(p) ==
  LET stage == process[p].stage IN
  /\ process[p].at = "running" /\ ~process[p].started
  /\ HasSlotsLeft(stage)
  /\ \/ /\ StageClock(stage) = "new"
        /\ clocks' = Append(clocks, [stage |-> stage, boot |-> boot, at |-> now])
     \/ StageClock(stage) # "new" /\ UNCHANGED clocks
  /\ IF StageClock(stage) = "refused"
     THEN Moves(p, "broken")
     ELSE process' = [process EXCEPT ![p].started = TRUE]
  /\ UNCHANGED <<marked, frozen, claim, calls, closed, terminal, docVars, lock,
                 script, worldVars, strayed>>

MakeCall(p) ==
  LET stage == process[p].stage IN
  /\ process[p].at = "running" /\ process[p].started
  /\ LedgerOpen(stage) /\ calls[stage] < MaxCalls
  /\ calls' = [calls EXCEPT ![stage] = @ + 1]
  /\ UNCHANGED <<marked, frozen, claim, clocks, closed, terminal, docVars, lock,
                 script, process, worldVars, strayed>>

\* The verdicts a stage may come to.  Without a call it has none of its own: a
\* request over the input cap blocks it, an error interrupts it.
Verdicts(stage) ==
  {"blocked", "interrupted"} \cup
    CASE calls[stage] = 0 -> {}
      [] calls[stage] > 0 /\ stage = "bct" -> {"review_required"}
      [] OTHER -> {"completed_estimable", "not_estimable"}

\* The stage is over; or close_receipt_set refuses and nothing is sealed.
EndStage(p) ==
  /\ process[p].at \in {"running", "broken"}
  /\ \/ \E v \in Verdicts(process[p].stage) :
        /\ process[p].at = "broken" => v = "interrupted"
        /\ process' = [process EXCEPT ![p].at = "closing", ![p].verdict = v]
        /\ UNCHANGED lock
     \/ Leaves(p)
  /\ UNCHANGED <<stateVars, docVars, script, worldVars, strayed>>

\* ledger.terminal: a stage that is closed keeps its verdict.  Of a screening
\* that BCT has followed it makes a second record, which the terminal on file
\* does not name.
KeepsVerdict(stage, v) ==
  closed[stage].verdict = v /\ (stage = "screening" => calls["bct"] = 0)

CloseLedger(p) ==
  LET stage == process[p].stage  v == process[p].verdict IN
  /\ process[p].at = "closing"
  /\ \/ /\ closed[stage] = Nothing
        /\ closed' = [closed EXCEPT ![stage] =
             [verdict |-> v, issued |-> calls[stage], total |-> IssuedTotal]]
        /\ Moves(p, "sealing") /\ UNCHANGED lock
     \/ /\ closed[stage] # Nothing /\ KeepsVerdict(stage, v)
        /\ Moves(p, "sealing") /\ UNCHANGED <<closed, lock>>
     \/ /\ closed[stage] # Nothing /\ ~KeepsVerdict(stage, v)
        /\ Leaves(p) /\ UNCHANGED closed
  /\ UNCHANGED <<marked, frozen, claim, clocks, calls, terminal, docVars, script,
                 worldVars, strayed>>

\* terminals/<stage>.json; only an estimable screening leaves the attempt open.
SealStage(p) ==
  LET stage == process[p].stage IN
  /\ process[p].at = "sealing"
  /\ \/ /\ stage \notin torn
        /\ terminal' = [terminal EXCEPT ![stage] = closed[stage]]
        /\ doubled' = doubled \ {stage}
        /\ \/ process[p].verdict = "completed_estimable" /\ Leaves(p)
           \/ process[p].verdict # "completed_estimable" /\ Moves(p, "final")
              /\ UNCHANGED lock
     \/ stage \in torn /\ Leaves(p) /\ UNCHANGED <<terminal, doubled>>
  /\ UNCHANGED <<marked, frozen, claim, clocks, calls, closed, docs, torn, script,
                 worldVars, strayed>>

FinalOf(stage) == [stage |-> stage, verdict |-> terminal[stage].verdict]

\* seal_final_from_stage of the process itself: final.json, then the inventory.
SealFinal(p) ==
  LET value == FinalOf(process[p].stage) IN
  /\ process[p].at = "final"
  /\ \/ Writable("final", value) /\ Written("final", value)
        /\ Moves(p, "inventory") /\ UNCHANGED lock
     \/ ~Writable("final", value) /\ Leaves(p) /\ UNCHANGED docVars
  /\ UNCHANGED <<stateVars, script, worldVars, strayed>>

SealInventory(p) ==
  /\ process[p].at = "inventory"
  /\ IF CanInventory /\ Writable("inventory", Files)
     THEN Written("inventory", Files) ELSE UNCHANGED docVars
  /\ Leaves(p)
  /\ UNCHANGED <<stateVars, script, worldVars, strayed>>

-------------------------------------------------------------------------------
(* The script and its commands. *)

NoScript == [at |-> "down", todo |-> <<>>, stage |-> "screening", after |-> "down"]

\* A command that still has documents to write, and what the script does then.
Does(todo, stage, after) ==
  script' = [at |-> "writing", todo |-> todo, stage |-> stage, after |-> after]

HoldsLock == lock = Script

\* reconcile-attempt of an attempt that has its outcome: it is reported (again).
ReconcileOutcome ==
  /\ script.at = "down"
  /\ docs.skip # Nothing \/ docs.publication # Nothing
  /\ Does(<<"t7">>, "screening", "down")
  /\ UNCHANGED <<stateVars, docVars, lock, process, worldVars, strayed>>

\* Faulty variant: whether there is a claim is not asked.
ReconcileRest_NoClaim ==
  /\ script.at = "down"
  /\ docs.skip = Nothing /\ docs.publication = Nothing
  /\ lock = Free
  /\ \/ /\ marked
        /\ lock' = Script /\ Does(<<"skip", "t7">>, "screening", "down")
     \/ /\ ~marked
        /\ script' = [NoScript EXCEPT !.at = "idle"] /\ UNCHANGED lock
  /\ UNCHANGED <<stateVars, docVars, process, worldVars, strayed>>

\* reconcile-attempt of any other, under the lock: what was prepared and never
\* claimed is given up.
ReconcileRest ==
  /\ script.at = "down"
  /\ docs.skip = Nothing /\ docs.publication = Nothing
  /\ lock = Free
  /\ \/ /\ claim = Nothing /\ marked
        /\ lock' = Script /\ Does(<<"skip", "t7">>, "screening", "down")
     \/ /\ claim # Nothing \/ ~marked
        /\ script' = [NoScript EXCEPT !.at = "idle"] /\ UNCHANGED lock
  /\ UNCHANGED <<stateVars, docVars, process, worldVars, strayed>>

\* init-state to build-execution-authority of screening.
Prepare ==
  /\ script.at = "idle" /\ ~marked
  /\ marked' = TRUE
  /\ UNCHANGED <<frozen, claim, clocks, calls, closed, terminal, docVars, lock,
                 script, process, worldVars, strayed>>

\* finalize-zero-call-preclaim after a command that failed; it takes no lock.
FinalizePreclaim ==
  /\ script.at = "idle" /\ claim = Nothing
  /\ Does(<<"skip", "t7">>, "screening", "down")
  /\ UNCHANGED <<stateVars, docVars, lock, process, worldVars, strayed>>

\* broker-runtime; the script waits for its end.
Launch(p, stage) ==
  /\ script.at = "idle" /\ process[p].at = "none"
  /\ marked /\ (stage = "bct" => frozen)
  /\ process' = [process EXCEPT ![p] =
                   [NoProcess EXCEPT !.at = "launched", !.stage = stage]]
  /\ script' = [script EXCEPT !.at = "waiting"]
  /\ UNCHANGED <<stateVars, docVars, lock, worldVars, strayed>>

Mine(p) == process[p].at # "none" /\ ~process[p].orphan

Return ==
  /\ script.at = "waiting" /\ ~ \E p \in Processes : Mine(p)
  /\ script' = [script EXCEPT !.at = "idle"]
  /\ UNCHANGED <<stateVars, docVars, lock, process, worldVars, strayed>>

\* derive-freeze-b to build-execution-authority of BCT.
Freeze ==
  /\ script.at = "idle" /\ ~frozen
  /\ terminal["screening"] # Nothing
  /\ terminal["screening"].verdict = "completed_estimable"
  /\ frozen' = TRUE
  /\ UNCHANGED <<marked, claim, clocks, calls, closed, terminal, docVars, lock,
                 script, process, worldVars, strayed>>

\* continue-after-screening of a screening that ends the attempt.
ContinueAfterScreening ==
  /\ script.at = "idle" /\ lock = Free
  /\ terminal["screening"] # Nothing
  /\ terminal["screening"].verdict # "completed_estimable"
  /\ lock' = Script
  /\ Does(<<"final", "inventory", "publication", "t7">>, "screening", "down")
  /\ UNCHANGED <<stateVars, docVars, process, worldVars, strayed>>

\* finalize-after-stage-exit; the status it asks for is never that of an
\* estimable screening.
FinalizeAfterStageExit(stage) ==
  /\ script.at = "idle" /\ lock = Free /\ claim # Nothing
  /\ terminal[stage] # Nothing
  /\ terminal[stage].verdict # "completed_estimable"
  /\ lock' = Script
  /\ Does(<<"final", "inventory">>, stage, "idle")
  /\ UNCHANGED <<stateVars, docVars, process, worldVars, strayed>>

\* publish-receipt and record-t7-qa take no lock.
PublishReceipt ==
  /\ script.at = "idle"
  /\ Does(<<"publication">>, "screening", "idle")
  /\ UNCHANGED <<stateVars, docVars, lock, process, worldVars, strayed>>

RecordT7 ==
  /\ script.at = "idle"
  /\ Does(<<"t7">>, "screening", "idle")
  /\ UNCHANGED <<stateVars, docVars, lock, process, worldVars, strayed>>

-------------------------------------------------------------------------------
(* The documents the script writes. *)

StagesUpTo(stage) ==
  IF stage = "screening" THEN <<"screening">> ELSE <<"screening", "bct">>

\* _validate_runtime_clock_chain
ChainComplete(stage) ==
  LET stages == StagesUpTo(stage) IN
  /\ claim # Nothing
  /\ Len(clocks) = Len(stages) + 1
  /\ OneBoot /\ InOrder
  /\ clocks[1].stage = Nothing /\ clocks[1].at = claim
  /\ \A i \in DOMAIN stages : clocks[i + 1].stage = stages[i]

LastStage == IF terminal["bct"] # Nothing THEN "bct" ELSE "screening"

\* publish_from_root, up to its receipt.
Publishable ==
  /\ docs.final # Nothing /\ docs.inventory # Nothing
  /\ terminal["screening"] # Nothing
  /\ CanInventory /\ docs.inventory = Files
  /\ docs.final = FinalOf(LastStage)
  /\ LastStage = "screening" =>
       docs.final.verdict \in {"not_estimable", "blocked", "interrupted"}
  /\ ChainComplete(LastStage)
  /\ LastStage = "bct" =>
       /\ terminal["screening"].verdict = "completed_estimable"
       /\ terminal["bct"].verdict = "review_required"

TerminalIssued(stage) == IF terminal[stage] = Nothing THEN 0 ELSE terminal[stage].issued

ReportedCalls == TerminalIssued("screening") + TerminalIssued("bct")

\* record_t7 wants one outcome, and figures that agree with the ledger's head.
Reportable ==
  /\ (docs.skip # Nothing) # (docs.publication # Nothing)
  /\ docs.publication # Nothing => ReportedCalls = terminal[LastStage].total

Report ==
  IF docs.skip # Nothing THEN [outcome |-> "zero_call_skip", calls |-> 0]
  ELSE [outcome |-> "paid_attempt", calls |-> ReportedCalls]

\* What a document demands, and what it says.
Demands(d) ==
  /\ d = "final" => terminal[script.stage] # Nothing
  /\ d = "inventory" => CanInventory
  /\ d = "publication" => Publishable
  /\ d = "t7" => Reportable

Says(d) ==
  CASE d = "skip" -> now
    [] d = "final" -> FinalOf(script.stage)
    [] d = "inventory" -> Files
    [] d = "publication" -> [inventory |-> docs.inventory, at |-> now]
    [] d = "t7" -> Report

\* The next document of the command; an error ends the command.
WriteDocument ==
  LET d == Head(script.todo)
      rest == Tail(script.todo)
      ok == Demands(d) /\ Writable(d, Says(d)) IN
  /\ script.at = "writing"
  /\ \/ /\ ok /\ Written(d, Says(d))
        /\ script' = IF rest # <<>> THEN [script EXCEPT !.todo = rest]
                     ELSE [NoScript EXCEPT !.at = script.after]
        /\ lock' = IF rest = <<>> /\ HoldsLock THEN Free ELSE lock
     \/ /\ ~ok
        /\ script' = [NoScript EXCEPT !.at = script.after]
        /\ lock' = IF HoldsLock THEN Free ELSE lock
        /\ UNCHANGED docVars
  /\ UNCHANGED <<stateVars, process, worldVars, strayed>>

-------------------------------------------------------------------------------
(* Deaths, reboots, and the realtime clock. *)

fixedVars == <<marked, frozen, claim, clocks, calls, closed>>

Dies == deaths < MaxDeaths /\ deaths' = deaths + 1

\* The document under way, if any, may leave its temporary file.
MayTear(d) ==
  torn' \in {torn, torn \cup ({d} \ doubled)} /\ UNCHANGED <<docs, doubled, terminal>>

\* Or a terminal is linked into its place, and keeps its temporary name.
DoubleTerminal(stage) ==
  /\ stage \notin torn /\ terminal[stage] = Nothing
  /\ terminal' = [terminal EXCEPT ![stage] = closed[stage]]
  /\ doubled' = doubled \cup {stage}
  /\ UNCHANGED <<docs, torn>>

TearsNothing == UNCHANGED <<docVars, terminal>>

TearsOf(p) ==
  CASE process[p].at = "locked" /\ claim = Nothing -> MayTear("claim")
    [] process[p].at \in {"final", "inventory"} -> MayTear(process[p].at)
    [] process[p].at = "sealing" ->
         MayTear(process[p].stage) \/ DoubleTerminal(process[p].stage)
    [] OTHER -> TearsNothing

ProcessDies(p) ==
  /\ process[p].at # "none" /\ Dies
  /\ TearsOf(p)
  /\ process' = [process EXCEPT ![p] = NoProcess]
  /\ lock' = IF lock = p THEN Free ELSE lock
  /\ UNCHANGED <<fixedVars, script, boot, now, steps, strayed>>

ScriptTears ==
  IF script.todo # <<>> THEN MayTear(Head(script.todo)) ELSE TearsNothing

ScriptDies ==
  /\ script.at # "down" /\ Dies
  /\ ScriptTears
  /\ script' = NoScript
  /\ lock' = IF HoldsLock THEN Free ELSE lock
  /\ process' = [p \in Processes |->
       IF process[p].at = "none" THEN process[p]
       ELSE [process[p] EXCEPT !.orphan = TRUE]]
  /\ UNCHANGED <<fixedVars, boot, now, steps, strayed>>

\* The script may also just stop; a later one starts with reconcile-attempt.
ScriptStops ==
  /\ script.at = "idle"
  /\ script' = NoScript
  /\ UNCHANGED <<stateVars, docVars, lock, process, worldVars, strayed>>

Reboot ==
  /\ Dies
  /\ boot' = boot + 1
  /\ \/ ScriptTears
     \/ \E p \in Processes : TearsOf(p)
  /\ script' = NoScript /\ lock' = Free
  /\ process' = [p \in Processes |-> NoProcess]
  /\ UNCHANGED <<fixedVars, now, steps, strayed>>

TimePasses ==
  /\ now < MaxTime /\ now' = now + 1
  /\ UNCHANGED <<stateVars, docVars, lock, script, process, boot, deaths, steps, strayed>>

ClockSetBack ==
  /\ steps < MaxSteps /\ now > 0
  /\ now' = now - 1 /\ steps' = steps + 1
  /\ UNCHANGED <<stateVars, docVars, lock, script, process, boot, deaths, strayed>>

-------------------------------------------------------------------------------
(* The specification. *)

AttemptInit ==
  /\ marked = FALSE /\ frozen = FALSE /\ claim = Nothing /\ clocks = <<>>
  /\ calls = [s \in Stages |-> 0]
  /\ closed = [s \in Stages |-> Nothing]
  /\ terminal = [s \in Stages |-> Nothing]
  /\ docs = [final |-> Nothing, inventory |-> Nothing, skip |-> Nothing,
             publication |-> Nothing, t7 |-> Nothing]
  /\ torn = {} /\ doubled = {} /\ lock = Free /\ script = NoScript
  /\ process = [p \in Processes |-> NoProcess]
  /\ boot = 0 /\ now = 0 /\ deaths = 0 /\ steps = 0 /\ strayed = FALSE

ProcessStep(p) ==
  \/ TakeLock(p) \/ WriteClaim(p) \/ WriteFirstCheckpoint(p) \/ FindClaim(p)
  \/ StartStageClock(p) \/ MakeCall(p) \/ EndStage(p)
  \/ CloseLedger(p) \/ SealStage(p) \/ SealFinal(p) \/ SealInventory(p)

ScriptStep ==
  \/ ReconcileOutcome \/ ReconcileRest \/ Prepare \/ FinalizePreclaim
  \/ \E p \in Processes, s \in Stages : Launch(p, s)
  \/ Return \/ Freeze \/ ContinueAfterScreening
  \/ \E s \in Stages : FinalizeAfterStageExit(s)
  \/ PublishReceipt \/ RecordT7 \/ WriteDocument \/ ScriptStops

WorldStep ==
  \/ \E p \in Processes : ProcessDies(p)
  \/ ScriptDies \/ Reboot \/ TimePasses \/ ClockSetBack

AttemptNext ==
  (\E p \in Processes : ProcessStep(p)) \/ ScriptStep \/ WorldStep

AttemptSpec == AttemptInit /\ [][AttemptNext]_attemptVars

-------------------------------------------------------------------------------
(* Properties. *)

\* What T7 reports is what was called, from the moment it is written on: a
\* zero-call record stands for an attempt without a claim, and the figures of a
\* paid one are those of the ledger.  A process that outlived its script on the
\* way to the lock is the exception: it does not look for the record.
ReportIsTrue ==
  docs.t7 # Nothing /\ ~strayed =>
    /\ docs.t7.calls = IssuedTotal
    /\ docs.t7.outcome = "zero_call_skip" <=> claim = Nothing

\* An attempt that has its final terminal and its inventory, and made calls in
\* its last stage, can be published, now and ever after, whoever died on the
\* way: unless BCT was left blocked or interrupted, or the clock went back.
SealedIsPublishable ==
  /\ docs.final # Nothing /\ docs.inventory # Nothing
  /\ calls[docs.final.stage] > 0
  /\ docs.final.stage = "bct" => docs.final.verdict = "review_required"
  /\ steps = 0
  => Publishable

===============================================================================
