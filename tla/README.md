# Verification of the memory-contamination harness

`memcontam` runs a study on what persistent reasoning memories do to later
answers of a language model. Most of the package computes (tasks, verifiers,
scores, statistics); what can lose money or evidence is the part that calls a
paid provider for hours, one request after the other, under a cost ceiling, and
that may be killed and resumed at any moment. This project models that part,
checks it with TLC on small instances and proves its main safety properties with
TLAPS for instances of every size.

All source paths are below `src/src/memcontam/`.

## 1. Inventory

| part | state it keeps | operations | interacts with |
|---|---|---|---|
| V3 terminal evidence ledger `readiness/phase13_v3_terminal_ledger.py`, `..._terminal_models.py` | an append-only sqlite table of events in a hash chain; per object, in memory, the states it replayed, the last sequence and a data version | `create`, `open`, `append`, `recover`, `reconcile_cost`, `state(s)`, `generation`, `close` | written by dispatcher, recovery and operator; read by all |
| V3 request dispatcher `readiness/phase13_main_request_dispatch.py`, client `..._client.py`, recovery `..._recovery.py` | write-once files (identity, compiled receipt, failure observation); a cache of terminal parents filed under a ledger generation; a flock | `dispatch`, `receive`, `acknowledge`, `recover`, `terminal_parents`; `chat` and `trial` of the client | ledger, provider client, the baseline that makes the calls |
| V3 main run `readiness/phase13_main_v3_runner.py`, journal `..._run_journal.py` | a table of committed units, a journal, one evidence file per unit, an exclusive lock of the run directory | `open`, `execute`, `status`, `close` | dispatcher, cost law (projections), operator |
| V3 cost law `readiness/phase13_v3_cost_law.py`, `..._cost_actual.py`, `..._cost_models.py` | none over time | `calculate`, `build_proof`, `build_witness`, `reconcile_actual` | main run (ceilings), dispatcher (bills) |
| guarded run directory `readiness/phase13_v3_entrypoint_paths.py` | descriptors and identities of a directory | guarded sqlite connections | ledger, journal |
| OpenAI responses client `clients/openai_responses.py`, cost guard `clients/cost_guard.py` | what was spent, in the guard | `send_compiled_v3` with a `before_request` callback; `chat` with retries | dispatcher; meter of the calibration |
| clean-prefix calibration `readiness/phase13_clean_prefix{,_runtime,_metering,_archive}.py` | the counters of one process; an archive at its end | budget from the schedule, `MeteredClient.chat`, a run over all trajectories | phase 12 prefix, four baselines, client |
| V1 main runner `readiness/phase13_main_runner*.py`, `..._live_dispatch.py` | sqlite tables of units and events, write-once evidence files | `claim_dispatch`, `persist_completed`, `persist_terminal_missing`, `reconcile`, `run_pending` | a dispatch function, operator |
| rootless local ledger `experiment/phase12/filter_challenge/rootless_local_ledger.py` | signed record and head files, appended in pairs; per object, in memory, the records it read or wrote | `reserve`, `settle`, `not_issued`, `terminal`, recovery on open | broker |
| rootless broker, runtime, wire protocol, closure `rootless_local_{broker,runtime,protocol,execution,closure,archive_validator}.py` | a directory with a receipt per slot, a manifest and a seal per stage; up to five tasks, a socket to a forked worker | `run_stage` and its worker, `dispatch`, replay of existing receipts, `close_stage` | rootless ledger, provider, operator |
| rootless operator and its commands `rootless_local_{operator,bootstrap_cli}.py`; authority, firewall, acknowledgement | bindings, authorities, the final terminal, an inventory of the state directory, a skip, a publication, the T7 report | `reconcile-attempt`, `finalize-zero-call-preclaim`, `broker-runtime`, `continue-after-screening`, `finalize-after-stage-exit`, `publish-receipt`, `record-t7-qa`; sequential checks | broker, state directory, `runtime.lock` |
| phase 12 runners, branching, checkpoints `experiment/phase12/live_{prefix,branch,suffix}.py`, `checkpoint_selection.py`, `readiness/pilot_a_scientific.py` | the checkpoints of a prefix, the three arms built from one of them, a budget counter | clean prefix, maturity and selection, injection and partition, suffix per arm | baselines |
| baselines, memory stores `baselines/reflexion_{adapter,phase12}.py` and others, `memory/{admission,filtered_state,cards_v3}.py` | the memory of a method; the filter's active and quarantined entries with their envelopes | read, write, evict, admit, route, render | clients, phase 12 runners |
| ordinary suffix runs and their archive `experiment/phase13_ordinary_runtime.py`, `readiness/phase13_production_runtime_{evidence,join,memory}.py`, `readiness/phase13_production_observability.py`, `evaluation/phase13_observability*.py` | the memory of one arm from trial to trial; the provenance collected so far | run the trials of an arm; reconstruct lineage, exposure and propagation; accept or refuse the archive of a unit | baselines, checkpoints |
| contamination, tasks, verifiers, RAG | none | pure functions of texts | baselines, runners |
| evaluation | none | registered sequences, statistics over finished archives | archives |
| logs, manifests, archives `logging/`, `manifests/` | append-only JSONL files | write, validate | runners |
| sandboxed tools `tools/` | a subprocess | run, limit, stop | tasks |
| readiness gates, builders, publication | packages and authorizations | build, validate, freeze | main run (its constants) |
| command line, configuration | none | parse, load | all |

What is hard here:

- **Crash and restart.** The process writes files and ledger events in turns and
  may end after each. The attempt of a request is marked before it goes out, so
  after a crash nobody knows whether it did; it must not go out again and must
  not be taken for free.
- **Several writers.** A ledger has many openers: a second dispatcher, a
  recovery, an operator who reconciles a bill without any lock. Events are built
  on a state read in an earlier transaction.
- **Caches.** A ledger object trusts its replay while count, last sequence and
  data version agree; a dispatcher trusts its terminal parents while the
  generation agrees.
- **Money.** A ceiling is checked before a unit with a projection; bills come
  later, may be unknown until an operator settles them, and are rounded
  differently from the projection.
- **Lost answers.** Where a request may be repeated, an attempt that timed out may
  have been billed. What is counted are answers, and what covers the others is a
  reservation made before the call.
- **One memory in three places.** A Reflexion arm keeps its entries as the state it
  checkpoints, as the filter's entries with envelopes, and as the copy the prompts of
  the running trial are made of. A hook between two attempts brings all three up to
  date; entries leave when there are too many, while later ones still name them.
- **Evidence after the fact.** What a trial was exposed to and what it passed on is
  reconstructed from what is left of it: snapshots before and after, the spans of one call,
  and envelopes. Entries come and go within a trial; one missing ancestor and the
  archive of the unit is refused.
- **Order.** Seeds run in tranches and branches after their prefix, over any
  history of aborted, paused and killed sessions.

What makes each part correct: the ledger never exposes the run to more than one
request whose outcome or bill is open; a dispatcher sends a request once, only
after its marker, never for an ended trajectory, and leaves the evidence every
marker refers to; the run commits only evidenced units, does nothing twice,
spends within its ceilings and in tranche order, and every session ends; the
projections add up to the proven total and bound the spending; a ledger object
sees everything that was committed before it looked; the rootless ledger makes a
call once and only if the caps cover it with every call before it, receipts and
seals say what was called and what it cost, a sealed stage stays as it is, what T7
reports is what was called, and what was finalized can be published; a
calibration never costs more than it reserved and is never refused a call its budget was made for; and the
arms of a seed differ in what the experiment says they differ in: one checkpoint for
all, the root in the contaminated memory only, nothing but the oldest ever lost; and
from what an arm leaves behind one can tell what the root did to it, however it went.

## 2. Modules

```
ProviderExposure        what the ledger promises about the provider (abstract)
   ^ implemented by
TerminalLedger          events, transition rules, dispatch gate
   ^ extended and implemented by
RequestDispatch         dispatchers, files, provider, crashes     <- MCRequestDispatch
   ^ extended and implemented by
MainRun                 sessions, units, ceilings, journal        <- MCMainRun
                                                                     MainRunProofs
LedgerSnapshot          an object's replay against the table      <- MCLedgerSnapshot
                                                                     RequestDispatchProofs
                                                                     (three: with TerminalLedger)
EgressBudget            calls within caps, each made once (abstract)
   ^ implemented by
RootlessLedger          records and heads, caps, crashes
   ^ extended and implemented by
RootlessStage           broker, worker, receipts, closing         <- MCRootlessStage
                                                                     RootlessProofs (both)
RootlessAttempt         claim, clocks, commands, report           <- MCRootlessAttempt
                                                                     RootlessAttemptProofs
PrefixCalibration       budget, meter, retries, lost answers      <- MCPrefixCalibration
CostLaw                 projection and realization of costs       <- MCCostLaw
                                                                     BudgetProofs (both)
RunnerLedger            V1 sessions and operators on one ledger   <- MCRunnerLedger
                                                                     RunnerLedgerProofs
BoundedMemory           what an arm's prompts are made of (abstract)
   ^ implemented by
ReflexionArms           prefix, checkpoints, three arms, filter   <- MCReflexionArms
ArmEvidence             trials of an arm, lineage, archive
                                                                     ArmProofs (both)
ArmTrials               what these two have in common
SumLemmas               sums over finite sets, for the proofs about money
```

The first four are one chain of refinements: every step of a main run is a step
of a dispatcher, each of those is a step of the ledger, and each of those is a
step (or nothing) of `ProviderExposure`: *issue once, one at a time, and nothing
while an earlier request may still turn out to have cost something*. The rootless
modules are a second chain, whose promise is `EgressBudget`: *no call twice, and
none that the caps do not cover if every call before it costs its full
reservation*. `ReflexionArms` implements `BoundedMemory`: *a prompt shows the newest
of a memory that loses only its oldest, and every arm starts from the memory of one
clean checkpoint*.

**TerminalLedger.** `ledger` maps a request to its `EvidenceState`; `log` is the
events table. `advance` is `AllowedFrom`, `TargetOf`, `Advances` and `Advanced`;
`_dispatch_gate` is `DispatchGate`; `append` is `AppendEvent`. The hash chain is
modelled by revisions: `previous_hash` is the digest of the event at the revision
the writer read, so an event carries `basis`, that revision. `Submit` is any
well-formed event on any revision read so far (a stale writer, a repetition of
the same bytes), `Recover` and `ReconcileCost` are the two built-in writers.

**RequestDispatch.** One label `pc[d]` for each point between two durable writes
of `dispatch`, `receive`, `acknowledge` and `recover`. `Record` is `_append` with
its cache update; `Refused` is `_append` raising with nothing written. `Raise` is every
error the dispatch does not turn into evidence; at `started` it is `_append` raising
once `ATTEMPT_STARTED` is committed but before `attempt_ready` is set, so that the
process lives on with a marked attempt that never left. `Answer` either stays under the
lock (`dispatch`) or leaves it (`receive`) with the response unacknowledged
(`waiting`). `Crash` may strike anywhere; `Open` and `FinishOpen` are the two
reads of the constructor. `sent` and `reply` are the provider's side. The
provider client's contribution (marker callback, then one transport try) is
`StartAttempt`, `Send`, `Fail` and `Answer`.

**MainRun.** `execute` as `BeginSession` (recovery), `EndRecovery` (tranche
check), `Select` (`Pause`, `Refuse` or `Admit`), then `Call`, `Work`, `LoseUnit`,
`PublishRecord`, `CommitRow`, `AbortUnit`; `EndProcess` is a crash or a normal end,
`StartProcess` the operator's restart, `Bill` his reconciliation of a bill. A
baseline is a sequence of calls that may end after any of them. The flock of the
run directory makes the dispatcher unique (`Dispatchers = {Runner}`).

**CostLaw.** Exact arithmetic in millionths of a KRW. `Attribute` is one round of
`calculate`'s loop, `Realize` one `reconcile_actual`. TLC explores every final
order and every combination of reported usages.

**LedgerSnapshot.** Every SQL statement of `_snapshot` is a step, and other objects
commit in between. A row is its sequence number; an object's states are the
replay of `applied`. A commit whose directory check or sync raises afterwards is
`CommitAndRaise` and `FailToSync`.

**RunnerLedger.** The V1 runner keeps the state of its units in one sqlite file and
its evidence in write-once files beside it. A transaction is a step, and `at[a]`
says between which two an actor is. A session is `BeginSession` (`run_pending` up to
its loop), `Pick` (`next_pending`), `Pause` or `Claim` (`claim_dispatch`),
`CallProvider` and `PublishUnit` (`DurableMainDispatch`), `PersistCompleted`; or
`FailDispatch`, `CheckVerdict`, `RecordVerdict` (`persist_terminal_missing` and its
two transactions). An operator is `Prepare` (he writes or finds evidence for the
intent he sees), then `CheckVerdict` and `RecordVerdict` (`reconcile`). `Intact` is
`_validate_integrity` as far as rows and files may disagree; it is the guard of
every transaction. `Abandon` is the death of a process or an error that ends it. The package itself now
runs V3; `run_pending` and `reconcile` are library calls, exercised by the tests.

**PrefixCalibration.** A run is one process: `trajectory`, `baseline`, `position` and
`call` say where it is, and `EndTrial` goes on as `run_live_clean_prefix` and the loops
around it do. `CallStages` are the calls of a trial of each baseline. A call is `RefuseCall` (`MeteredClient`
raises) or `Ask` (it takes the call down and reserves it, the guard looks, the first
attempt goes out), then `LoseAnswer` any number of times (a timeout is repeated, or the
call fails), and `Answer` or `AnswerUnpriced`. `Absorbed` says, by stage and type of the error, whether a
failure ends the trial or the run, which is what the `except` clauses of the four baselines
do. `billed` is the provider's side: any amount up to the price of an attempt, lost or
not. A price per token and limits on tokens are one number, `AttemptCost`.

**RootlessLedger.** A list of records is what it amounts to (`Contents`): the
account of each slot, what a stage has spent, the last record. `disk` is what the
record files amount to, `known` what the ledger object of the one process holds,
and `lost` the record it wrote and, because the head could not be written, does not
hold. An append is `Begin`, `WriteRecord` and `WriteHead`; `WriteFails` ends it with
an error and `Exit` with the process, either with or without a temporary file,
which `_paths` refuses from then on (`damaged`). `Open` reads everything and rebuilds a
missing head, `OpenTorn` dies at it. `Reserve`, `Settle`, `Skip` (`not_issued`) and
`Terminate` are the operations, `Exchange` and `Abandon` what the broker does between
a reservation and its settlement.

**RootlessStage.** The stage run around it. `Start` is the process with its checks
of the files it finds; `WorkerDispatches`, `WorkerReads`, `WorkerEnds` are the forked
worker, which sends up to `MaxActive` slots and reads a reply for each;
`ReadDispatch`, `Consume` and `ChannelLost` the broker's loop; the `Task...` actions
what a slot's task does: replay a receipt of an earlier process, skip (blocked or
over the input cap), or reserve, make the slot's directory, call, settle, write the
receipt. `piece` is the part of a task that runs without a wait, so the steps of
two tasks interleave where the code awaits and only there. Closing is `EnterClose`,
`CloseReceipts` (manifest, validated against the files), `CloseLedger` (terminal
record), `SealStage` and `SealFinal`. Faults are `WorkerDies`, `BrokerDies`, `StartDies`,
`AppendFails` and `TaskBreaks` (a file that cannot be written, or an authority that
drifted). Abstracted: failures of two slots have different reasons, so a verdict
may be a slot; what the selection makes of a full set of receipts is fixed by
them (all outputs there, or not); BCT starts only after an estimable sealed screening,
which the operator checks; a dynamic slot is over the cap if its predecessor's output
is long.

**RootlessAttempt.** A live attempt from its first command to its report, around the
stages. A stage process is `TakeLock`, `WriteClaim` and `WriteFirstCheckpoint` (or
`FindClaim`), `StartStageClock` at its first dispatch, calls, `EndStage` with a verdict
or without, `CloseLedger`, `SealStage`, `SealFinal`, `SealInventory`; one action per
file. The script begins with `reconcile-attempt` (`ReconcileOutcome`, `ReconcileRest`)
and runs one command at a time: `Prepare` (from init to the authority of screening),
`Launch` and `Return` of `broker-runtime`, `Freeze` (from Freeze-B to the authority of
BCT), `ContinueAfterScreening`, `FinalizeAfterStageExit`, `FinalizePreclaim`,
`PublishReceipt`, `RecordT7`. The script is not in the repository; the model lets it
choose any of them at any time. What a command writes is a list of documents
(`Does`), written one by one (`WriteDocument`) as long as each can be. `claim`, `clocks`,
`terminal` and `docs` are the files; a checkpoint is its stage, boot and time;
the inventory is what the files were when it was made. A death may leave a
temporary file with other bytes, which blocks its name (`torn`), or a terminal that
keeps its temporary name (`doubled`), which `_inventory_entries` refuses until the terminal
is written again. Processes survive the script (`orphan`), a reboot ends both.
What goes on inside a stage is `RootlessStage`; here a call is a reservation, and the
verdict any the stage may come to.

**ArmTrials** declares the constants that `ReflexionArms` and `ArmEvidence` share, and
`Newest`, the `[-n:]` by which both cut memories and prompts.

**ReflexionArms.** One seed of a phase-12 experiment as the Reflexion baseline lives
it. `BeginTrial` is `execute` up to its first prompt, `Reflect` one wrong attempt with
its reflection and the hook `after_reflection` (routing by the filter, eviction from
every list, the next prompt), `EndTrial` every other end of a trial; a prefix trial is
followed by its checkpoint (`TrialEnds`). `Select` is the choice of a mature checkpoint
and `build_live_three_arm_branches`, `Partition` one entry of
`partition_native_checkpoint`, `BeginArm` the next arm of `_run_memory_suffix`.
Entries are numbered in the order they are appended, so a list in append order is
a set of numbers, and "the last n" are those with fewer than n above them. What
keeps the root out of the filter's view is said three times in the code, and the
model has all three: its writer is not registered, it names no trial
(`ValidEnvelope`), and its writing is not on record (`e \in record`). The choice among
mature checkpoints depends on the other baselines, so any of them may be it.
`fault` is a contract error of the code (`FUTURE_REFLECTION_ACCESS`,
`FILTER_ACTIVE_REFLECTION_MISSING`), which ends the seed.

**ArmEvidence.** The contam arm of one unit of phase 13, over the suffix trials of one of the
four baselines that write. `Init` is the end of the prefix (nothing, or what one clean
trial writes, without parents) with the root appended. `DcTrial`, `FullHistoryTrial`,
`BotTrial` are whole trials, with their failures beside them (`DcCallFails`,
`BotDistillationFails`, ...); a Reflexion trial is `BeginReflexion`, `WriteReflection` for each
wrong attempt, `EndReflexion` or `ReflectionFails`. `Leave` is what a trial hands on:
memory, provenance, and the row that evidence is made of. `lineage` holds each
entry's parents, its version predecessor and its component, as its writer's envelope
records them. `References` and `Descent` are `_lineage` and `recorded_path`,
`Exposed` and `Propagation` the two metrics, `RowRefusals` the checks between trial
and archive that what a trial does can fail, `Join` the archive of the unit; `FirstEpisode`,
`EvictsRoot` and `AtRisk` are the durations, the eviction and the risk rows of its registered sequence. Entries are
numbered as in `ReflexionArms`. Similarity, budgets and novelty are free choices. Left
out: the origin of a writer (each writer returns entry and envelope together); checks of identities
that one function writes and another reads. Failed trials reach an archive only where there is no
request client; with one, `MainRequestClientV3.trial` raises.

Definitions whose name continues another one's after an underscore
(`Send_Retries`) are marked *Faulty variant*: each replaces the definition it is
named after by one with a plausible bug, and the property named beside it in
`PROJECT.json` fails. No specification uses them.

## 3. Runs

| run | instance | what it shows |
|---|---|---|
| `dispatch` | 2 dispatchers, 2 requests (prefix and branch), 1 crash | at most one request exposed; sent once; implements `ProviderExposure`; an oversize compilation is final; evidence is on disk before the ledger names it; the bill is the answer's; without a crash, each dispatcher sees what the other ended and sends nothing for it; 2.1 million states |
| `main_run` | 3 units of 4 requests over 2 seeds, 2 ends of process, ceilings 7 and 6, answers of 2 or 3 KRW or unknown | rows are evidenced and add up; ceilings hold; nothing redone; seeds in order; whenever a unit is chosen, the cache of ended units is the ledger's, no call is in limbo and no unit was passed over; a session ends; 82 thousand states |
| `cost_law` | 3 units, 2 stages, all orders | projections telescope to the total, cover every beginning, overshoot bounded |
| `snapshot` | 2 objects, 4 rows, 1 foreign commit | an object's states are a replay of a beginning; reads are fresh |
| `runner` | 2 sessions, 1 operator, a prefix, its branch and a singleton, ceiling 5, projections of 2, costs of 2, 3 or 0, 10 rows | one unit in flight and after its prefix; dispatched once; the ledger stays readable; ceiling overshot by one unit at most |
| `runner_reconcile_race` | the same, 2 operators | **violated**: finding 2 |
| `rootless` | 6 slots of both stages, 1 of them made of another's output and 1 over the input cap, 3 processes, 2 faults, fair | calls made once and within the caps; receipts and seals are true; nothing after a seal; a stage process ends; 575 thousand states |
| `rootless_blocked` | screening, no fault | **violated**: finding 1 |
| `rootless_attempt` | 2 stage processes, 2 deaths or reboots, 1 step back of the clock, a call a stage at most | what T7 reports is what was called; what was finalized can be published; 3.1 million states |
| `calibration` | 2 trajectories of 2 positions, 4 baselines, 1 retry, 3 attempts without an answer, prices 0 or 1 | the bill is within what the archive bounds it by, that within the reservations and the ceiling; no call is refused for want of budget; 842 thousand states |
| `arms` | 4 tasks, horizon 2, memory of 3, prompts of 2, 2 attempts | no contract check fails; the filter shows nothing that descends from the root and holds back the root alone; implements `BoundedMemory`; 78 thousand states |
| `arm_evidence` | 4 baselines, 3 trials, memories of 2 or 9, prompts of 3, 2 attempts | the archive of a unit is refused only for the call that ended a failed trial; the durations of the registered sequence miss nothing; what has left the memory contaminates nothing more; 831 thousand states |

**Bounds, and why they suffice.** `MaxRevision` stops events on a request beyond
that many: a whole life is five (intent, compiled, attempt, outcome,
reconciliation), a retry adds two or three; a dispatch begins only if a whole life
fits (`RoomToRun`), so the bound never cuts a life short. `MaxCrashes` bounds ends
of the process: one for the interleavings of two dispatchers, two for the main run
(crash, work on, crash again). Two requests are enough for every statement about
two (one exposed, gate, prefix and branch), and the theorems hold for any number.
In `main_run` the ceilings are low, so that every kind of pause occurs
and the authorization ceiling is overshot by the one KRW the property allows; with
the two seeds, the runs reach a lost prefix with its branch skipped, a lost unit, an unknown
bill, a crash between record and row, and a committed run. In `snapshot` four rows
let both objects fall behind by two while a third commit lands between two
statements; one foreign commit moves the data version without a row.
In `runner` a unit takes two rows, a retry two more, and a lost prefix one per
branch; `MaxEvents` stops claims and pauses whose rows would not fit, so a claimed
unit can always be resolved. Ten rows hold a retry of two units, or a lost prefix
after a retry. A session that ended may begin again any number of times. One
assumption is about the operator: `NO_PROVIDER_REQUEST` is filed only if the claiming
session is gone and the provider was not called (`NeverLeft`); nothing in the code
can check it.
In `rootless` a call reserves 2 and costs 1: with 4 per stage a third call fits
only if one before it was settled, and the 6 of both stages are reached by the calls of BCT.
`MaxActive` is 2 (5 in the code): two tasks whose steps interleave, with a third slot
waiting. `MaxStarts` allows three processes, that is a stage, its restart and
the other stage, or two restarts; `MaxFaults` two faults, so that a restart may
be struck as well.
In `rootless_attempt` two processes are one per stage, or one that outlived its script
beside another; two deaths allow one in the middle of a stage and one of what mends it. Whether a stage made a call at all is what the
properties tell apart; how many is `rootless`. Two
times tell a claim from a later start and let the clock go back. The two processes are
interchangeable, hence the symmetry.
In `arms` the memory has the code's capacity of 3: two trials of the prefix may outgrow
it, so mature and immature checkpoints both occur, with reflections that cite evicted
ones; two trials of a suffix push the root out of the contaminated memory. The window
is 2 (3 in the code), so that a prompt hides a held entry. The theorems hold for all
of these numbers.
In `calibration` two positions and two trajectories make every kind of step from trial to trial
happen; the longest course takes all 36 calls the budget counts, so both limits are met with
equality; `MaxLost` stops losses beyond three, enough for a call lost with its retry
and another after it. The theorems hold without these bounds.
In `arm_evidence` a memory of 9 is never full, as in the main run, which sets no capacity (three trials of two
attempts write six entries, after a root and one entry before it). A memory of 2 loses the root
in the first trial, entries within the trial that wrote them, and a parent before its child; it is
less than the window, so that what is evicted would be seen in a prompt that still held it.
Three trials are one to be exposed, one to cite nothing, one to look back; the archive of a DC
arm then holds three pairs and more, so that a prompt must choose.
`CHECK_DEADLOCK FALSE` stands where a system may really stop: all requests done
and the bounds used up (in `rootless` and `rootless_attempt` also: a directory that no process can open; in
`arm_evidence`: a unit that is archived, refused or aborted).

**Fairness.** `main_run` assumes that a session goes on by itself: the loop of a
dispatch, the transport, which has a timeout (`timeout_seconds`), and the steps of a recovery; hence
weak fairness of the session's own steps, and none of restarts or bills, because
`SessionEnds` speaks of a session only. `rootless` assumes that broker and worker
run on while they can and that the provider answers or times out, which the
broker takes for an answer (the transport has a timeout); faults and restarts are
never owed, except that an append that cannot succeed fails. Nothing is claimed about a run ever
being complete: an unknown bill that nobody reconciles pauses it for good
(`reconcile_cost` has no caller in the package), and a unit with completed requests and no
row is refused by every later session, with the seeds after it.

## 4. Findings

1. `rootless_blocked`. The reason of a `not_issued` record must equal the receipt's
   `operational_reason` (`rootless_local_archive_validator.py:270`), but the receipt
   of a blocked slot carries that reason as `behavioral_reason`
   (`rootless_local_execution.py:783`). A stage in which a call returns no output
   and its dependent slot is accounted as blocked has a receipt for every slot and can never be
   sealed, although the same validator admits such receipts and the closing reads
   them. Everything else a first run without fault meets leads to a seal
   (`CleanRunSeals`).
2. `runner_reconcile_race`. `reconcile` compares the context of the evidence in one
   transaction and appends in another. Two operators who hold the same
   `NO_PROVIDER_REQUEST` verdict can both pass the comparison; the first one returns
   the unit to pending, a session claims it again, and the second append resolves the
   new intent with the verdict on the old one. From then on every transaction raises
   `MAIN_RUN_RECONCILIATION_EVIDENCE_INVALID`: the ledger can neither be continued
   nor repaired by its own operations. The test
   `tests/test_phase13_main_runner_safety.py:125` says that evidence has to bind the
   current intent. With one operator at a time, sessions included, it does
   (`LedgerIntact` in `runner`).

Observed while modelling, and not claimed by a run:

- A zero-call skip is no obstacle to a process that was launched before it and has not
  yet the lock: `build_live_broker` (`rootless_local_broker.py:766`) never looks for it. If
  the script dies after the launch, `reconcile-attempt` records a skip and the process goes
  on to make calls (`strayed`, the exception in `ReportIsTrue`).
- A death between claim and first checkpoint, a reboot, or a realtime clock that
  went back between two checkpoints ends an attempt for good: every later process refuses with
  `ROOTLESS_INTERRUPTED_UNCLEAN`, or the publication does.
- `seal-post-screening-block` (`rootless_local_bootstrap_cli.py:603`) asks for the status
  `blocked` and its own current time, which no terminal of an estimable screening has;
  `seal_post_screening_setup_failure` and `seal_bct_setup_failure` have no caller among the
  commands. An estimable screening whose BCT cannot start is never finalized.
- A BCT that ends blocked or interrupted is finalized but cannot be published
  (`rootless_local_operator.py:331` wants `review_required`), nor an attempt whose last stage
  made no dispatch and so has no checkpoint. There is then no T7, either.
- A complete temporary file of a document with a time in it (skip, publication) blocks that
  document for good, as the next try has another time; a stage terminal whose process died
  between link and unlink keeps two names, and the inventory refuses it until the stage process
  is run again.

- `ProductionRequestDispatcherV3.__init__` reads the terminal parents and then the generation,
  in two transactions without the request lock (`phase13_main_request_dispatch.py:89`). A failure
  another dispatcher records in between is missing from a cache that counts as current until
  the next append. `PairObserves` says that two dispatchers opened before anything is sent know all;
  `TerminalObserved`, the same of one opened beside a running one, does not hold. The V3 main
  run is not exposed, its run directory being locked: only a bill can fall between the reads there,
  and recovery files the cache anew before a unit is chosen (`SelectsOnTheTruth`).
- A reflection written in attempt 1 is shown to attempt 2, so that it is new and exposed at
  once. `recorded_path` stops at the first exposed entry, here the new one itself, and
  `_propagation` wants two (`evaluation/phase13_observability.py:223`). If it cites the root, the
  row says `False` because of `NO_EXPOSED_TARGET_ANCESTRY_IN_EXACT_DESCENDANT_WRITE`, though its
  parent was the exposed root. In DC the same cannot happen (`DurationsAreTotals`): the
  pair a trial writes is in no prompt of it.
- A failed reflection call has the disposition `provider_call_failed`, of which
  `data/phase13/main/cost_envelope_v2/retry_failure_contract_v1.json:17` says that the trial is
  retained. But the outcome names the answer call, and `_terminal_method_call`
  (`readiness/phase13_production_runtime_join.py:134`) refuses it for having no error: the unit has no
  archive. `EvidenceStands` says that nothing but such a terminal call ever refuses one.
- The archive of a unit is refused for the same reason when an answer does not parse, which
  fails its trial without a failed call.
- A unit can cost more than its projection, which `phase13_v3_cost_models.py:90`
  calls a conservative upper bound: projections round running sums, realization
  rounds every answer. `OvershootIsBounded` says by how much, and `CeilingsHold`
  what that means for the ceilings.
- A head of the rootless ledger that cannot be written leaves a record the object
  does not hold; its next record gets the same number, and no later process can
  open the ledger. A temporary file left behind by a death has the same effect.
- A restart finds the receipt of a blocked slot but accounts for the slot anew,
  and the ledger refuses the second record (`ROOTLESS_LEDGER_DUPLICATE`).
- A capped slot that was made of another's output fails the validator's shape
  (`rootless_local_archive_validator.py:110`), and a stage whose worker is lost, or
  whose sibling tasks are cancelled, stays unsealed.
- A write of a trial of the filter arm is never held back: its parents are entries the
  prompt showed, hence active ones. The code that retypes a rejected reflection and hides it from
  the next attempt does not run (`MemoryFits` in `ArmProofs`).
- A checkpoint taken after an eviction may name entries it no longer holds and could not be
  restored. That such a one is never selected rests on the maturity rule alone,
  which asks for fewer entries than the capacity (`NoContractError`).
- The RAG call of a live prefix names no output limit
  (`baselines/retrieval_rag_phase12.py:223`), and `MeteredClient` refuses a call without one. Every
  RAG trial of a calibration fails so, and the run is completed all the same, although the
  nominal six calls per position (`readiness/phase13_clean_prefix.py:16`) count
  it.
- Of the calls of a calibration two do not absorb what the others do: a transport error of
  `bot_problem_distill`, and a transport error or a refusal of the guard in
  `bot_thought_distill`, invalidate the whole run. The test
  `tests/test_phase13_clean_prefix_runtime.py:205` sees a completed one because the
  error it scripts is a `RuntimeError`.
- Full history keeps a context of up to ten thousand tokens, while the meter refuses a prompt
  of more than 4096 bytes; such trials fail, too.
- DC, full history and Reflexion record no `RetrievalEvent`, so that `target_retrieved` is supported
  and `False` for them even where the root was retrieved; a root shown to the DC curator and not
  cited counts as no exposure.
- `prompt_retention_duration` stops at the first gap. In BoT (another template matches) and full
  history (less of it fits) exposure may come back after a gap, so that the duration counts less than the
  exposed rows; in DC and Reflexion it cannot (`DurationsAreTotals`).
- A root that is evicted in the first trial has no retention at all (`NO_FIRST_EPISODE_ONSET`),
  since only memories after trials count, although it was there and may have been shown.
- `failure_class` of a completed trial of the production runtime is never set, so recurrence is always
  "no registered failure"; a full-history memory never evicts, its prompts only show less.
- Screening may be opened again after BCT began, since the ledger looks at its last
  record only. It does no harm: every slot has a receipt by then (`StageQuietAfterSeal`).

## 5. Proofs

All theorems are of the specifications themselves, for any number of requests,
dispatchers, trajectories, objects, revisions and crashes. They assume only the
named `ASSUME`s beside the constants (sentinels differ from values; a request has a
trajectory; the order lists
every unit once, a prefix before its branches, and a prefix has none itself).

- `RequestDispatchProofs`, the ledger. `LedgerIInv` adds to the shape three facts: only attempted
  states carry a cost and they carry one (`BillsOfAttempts`); an attempt marker in
  the log means a state from which `NO_REQUEST` is impossible
  (`AttemptLeavesMark`); a compiled request in the log is the state's
  (`CompiledRemembered`). Without them the gate alone does not imply that an
  outcome event, which passes ungated, leaves one request exposed at most. Proved:
  `LedgerTypeOK`, `AtMostOneExposed`, `AttemptedOnce`, `CompiledFrozen`,
  `SettledBillIsFinal` and `ImplementsExposure`. These are theorems about
  any writer who submits any well-formed events; `dispatch` checks the writers there
  are. `LedgerTypeOK`, `AttemptedOnce`, `CompiledFrozen` and `SettledBillIsFinal` are proved,
  and in no run; so are `DispatchTypeOK`, `SentIsMarked` and `DispatchImplementsLedger` below.
  The dispatcher. `DispatchIInv` adds `StartedIsUnsent`: the holder of the
  lock at `started` has marked the attempt and not sent it. `RecordedSubmits` turns
  every append of a dispatcher into a `Submit` of the ledger, so the refinement
  and the ledger's theorems follow. Proved: `DispatchTypeOK`, `NeverResent`,
  `SentIsMarked`, `DispatchImplementsLedger` and, through the ledger, the exposure
  promise. Three more invariants rest on these. `DiskIInv`: what a dispatcher needs on disk
  for its next event is there (`EvidenceOnDisk`, `OversizeIsFinal`). `BillIInv`:
  a held attempt is held by one dispatcher, with its answer as the cost it is about
  to record; that no second one holds it comes from `AtMostOneExposed`
  (`BilledAsAnswered`). `CachesCurrent`: the set of ended trajectories of a
  dispatcher is right when it is marked current, and also, marked or not, while it
  holds a request in flight: as one request is in flight at most, nobody can end another
  trajectory then.
  This is what entitles `_append` to mark the cache current without computing it
  again (`PairObserves`, `QuietAfterTerminal`).
  The snapshot. `SnapshotIInv`: what is applied is a beginning, and a
  reader that will return without a replay has caught up with its floor. Proved:
  `CacheIsBeginning`, `ReadsAreFresh`. The proof does not use the data version:
  comparing the last sequence is what makes a read fresh.
- `MainRunProofs`. `RunIInv` ties the request at hand to the unit at hand, and
  that to the journal and the seed. Proved: `MainImplements` (every step of the run is a step
  of the dispatcher or leaves it alone, which carries the dispatcher's theorems over),
  `AdmittedFirst` (nothing is sent unless the last journal row admits its unit; no run
  checks it), `TranchesInOrder`, and by refinement that no request of a run
  goes out twice and that a run implements `ProviderExposure`.
  `UnitIInv` says that past its recovery a session has nothing in flight but its own last
  call (`OneInFlight`, `HandIsLastCall`), and that of the unit at hand the calls
  before the last are completed and all others untouched (`UnitAtHand`). Proved from it:
  `RowsAreEvidenced`, `CountsAddUp`, `NeverRedone`.
  `ChoiceIInv` adds that a cache names only what has ended (`CacheIsSound`, for any number of
  dispatchers) and that no unit before the one at hand was passed over (`NonePassedOver`): with
  `CacheInSession` the cache is then exact whenever a unit is chosen, and with `OneInFlight` a call
  that went out has an outcome. Proved: `SelectsOnTheTruth`.
  `MoneyIInv` is why one unit is all that can overshoot. What may still cost something are the
  requests of the unit at hand, or a single one left exposed; and what admitted its unit, that
  the *others* leave room for its projection, holds until it is done (`RoomForUnit`), as
  nothing else is paid for meanwhile. Proved: `CeilingsHold`.
- `RunnerLedgerProofs`. `RunnerIInv` adds to `PrefixFirst` that a branch of a missing
  prefix is missing (`MissingTogether`) and that an actor about to record holds
  evidence that resolves (`HoldsEvidence`). `_require_claimable` never looks at a
  prefix: it is the order of the units and the single transaction of
  `_append_terminal_locked` that make the first pending unit's prefix a completed
  one. Proved: `PrefixFirst`, for any units, sessions and operators.
  `OneOperatorIInv` holds with one operator at a time (`OneOperator`, an assumption
  of the theorems): a pending unit was never called and is in nobody's hands past
  picking it (`PendingIsUnclaimed`); what is held between two transactions stays true of
  the files and of the open intent (`HeldStands`), `NO_PROVIDER_REQUEST` included, because
  nothing is claimed while its unit is in flight; and so is every row
  (`RowsStand`). Proved: `DispatchedOnce`, `LedgerIntact`, for any units and
  sessions. The run `runner_reconcile_race` shows why the assumption is there.
  `MoneyIInv` needs no such assumption: while a unit is in flight the rows leave room for its
  projection (`RoomInFlight`), and only the row that ends it, with the cost its evidence
  carries, spends money. Proved: `RunnerCeilingHolds`, for any sessions and operators.
- `RootlessProofs`, the ledger. `LedgerIInv` relates what the object knows to what the
  files say: they differ by the append under way and by the records that were lost. `RecordsKeepCaps` says that the records on disk never
  account for more than the caps, and needs that a lost settlement is paid for by
  the reservation the object still holds. Proved: `RootlessTypeCorrect`,
  `RecordsKeepCaps`, and `LedgerImplementsBudget`: over any number of deaths, failing
  writes and restarts, every call is a step of `EgressBudget`.
  The stage. `HandsOver` ties the part of a task that runs to the append under
  way, so that a directory is made, and a call follows, only after the ledger holds
  the reservation. Proved: `StageImplementsLedger`, and by it `StageImplementsBudget`.
  `ReceiptIInv` says what the part of a task that runs has recorded: with its append complete, the
  account on disk is the one its receipt will state (`PieceIsRecorded`), and a slot with a
  receipt is known to every later process, whose ledger admits it no more
  (`ReceiptsAreKnown`). Proved: `StageReceiptsAreTrue`. `SealIInv` follows the last
  record: a verdict is appended to an open stage only, what the object knows closed is
  closed on disk with the verdict it seals (`ClosedOnDisk`), and after a final record
  nothing is begun (`FinalStays`). The one verdict that is not final is an estimable screening, whose
  slots all have their receipts (`SealedIsOver`). Proved: `StageQuietAfterSeal`
  and `StageSealCoversCalls`, which hold over restarts because an object that lost a
  settlement keeps the reservation in its figures.
  `CleanIInv` follows the first process as long as nothing goes wrong (`FirstRun`): the slots go
  in order through dispatch, task, receipt and reply (`SlotsInOrder`), so a stage that closes
  without a reason has a receipt for each, and the only thing that can refuse the manifest is a
  receipt its record does not match (`ClosesInOrder`). Proved: `CleanRunSeals`.
- `RootlessAttemptProofs`. `AttemptIInv` has a part for each thing the files of an attempt promise
  each other. Who is past `runtime.lock` holds it (`LockIInv`); a terminal is what the ledger
  closed its stage with, after the last call (`EvidenceIInv`); BCT has a process, a call or a
  record only after an estimable screening (`FreezeIInv`); the checkpoints are those of the
  claim, screening and BCT, of one boot, and a stage with a call has its own (`ClockIInv`), in the
  order of time unless the clock was set back (`TimeIInv`). On these rest `FinalIInv` (the final
  terminal names a stage that ended the attempt, for the process and the script alike, however
  they interleave), `InventoryIInv` (what an inventory lists is what there is, since nothing is
  written after it), and, for the outcome, `PublicationIInv`, `SkipIInv` (a zero-call record
  means nobody is past the lock: the script looked at every process it can see, and one that
  it cannot see has strayed) and `ReportIInv`. Proved: `ReportIsTrue`, `SealedIsPublishable`,
  for any number of processes, deaths and reboots and any bound on the calls.
- `BudgetProofs`, the calibration. `RunInCourse` says that no more calls were taken down than can
  come before the present place of the schedule (`Course` numbers the places), so one more
  is always within the nine per position. `MeterAddsUp` bounds the attempts and the cost of
  answered calls, and `BillFollows` says that whatever was billed beyond the counted
  cost is one of the attempts nobody answered (`Unaccounted`): a loss that is repeated, or
  that ends its call, adds one to them, and an answer turns those of its call into counted ones.
  Proved: `CalibrationBills`, `CalibrationSuffices`.
  The cost law. `CostIInv` says what `calculate` keeps from round to round: the running sums of
  a stage are the sums over the units attributed so far (`SumsAreExact`), and the
  projections add up to those sums, rounded stage by stage (`ProjectedIsRounded`). The
  first and the last round then telescope to the witness, whatever the order. `PricedAbove` is
  the other direction, how much a projection may fall short by rounding, and
  `AnswersArePriced` bounds what the answers of a unit cost. Proved: `CostAttributionIsExact`,
  `CostBeginningIsCovered`, `CostOvershootIsBounded`, for any units, prices, call counts and orders.
- `SumLemmas`. A sum over a finite set (`SumFunctionOnSet`) is a fold whose order of terms is a
  `CHOOSE`. That the order does not matter, and how a sum changes with one term, is proved by
  induction over subsets, but without an induction theorem, whose operator parameter the
  provers cannot instantiate: the subsets with the property are a *set* `G`, and a least
  counterexample is excluded by well-foundedness (`SubsetInduction`). `CeilingsHold` and
  `RunnerCeilingHolds` are stated with the largest overshoot of any unit, hence for a
  finite set `Costs` of possible bills (a hypothesis of these two theorems): without it there
  need be no largest one.
- `ArmProofs`, the arms. `ArmsIInv` says that the memory of a prefix is the last entries
  it wrote, so that a checkpoint with room left has lost none (`BaseIsWhole`); that
  order keys grow with the entries (`CardsInOrder`); and that the filter's lists are
  parts of each other and of what is held (`FilterInStep`), which is why every write
  is admitted. `MemoryFits` adds that a view leaves room for the root where one is to come. Proved:
  `NoContractError`, `FilterIsExact` and `ArmsImplementMemory`, for any number of
  tasks, any horizon, capacity and window, and one or two attempts. The facts about
  "the newest n" need least elements of finite sets, which come from the
  library's well-founded inclusion.
  The evidence of an arm. `RecordIInv` states of every row what the rest of the unit can still do
  to it. What a row knows is on record with all its ancestors, and a new entry was shown or names
  only what was (`RowStands`), so nothing but the failed call of the last trial refuses an archive.
  Nothing is held, shown or named later that was not in memory after the row or written since
  (`NothingReturns`); what leaves is older than all that stays (`OldestLeave`); a Reflexion prompt
  shows only what an earlier one did or what came after it (`WindowMovesOn`); a DC strategy names
  the one before it (`StrategiesFollow`). From a clean memory, then, no descent of the root is
  left to inherit (`CleanStays`: a first later descendant would name a descendant), and no flag of
  a row that was lost comes back. Every action is shown to have one effect
  (`TrialEffect`: entries are appended, memory loses its oldest, at most one row is filed), and
  that effect to preserve each conjunct. `Descent` is a `CHOOSE` of a recursive function: that
  there is one follows from the least set closed under references, that there is only one from a
  least entry where two would differ (`DescentIs`). Proved: `EvidenceStands`,
  `DurationsAreTotals`, `ContaminationLivesInMemory`, for any horizon, capacities and window, and one or
  two attempts.

**Only model-checked:** liveness (`SessionEnds`, `StageEnds`: out of reach of the prover, as is
ENABLED). **Only proved:** the type invariants beside
them (`CostTypes`, `DispatchTypeOK`, `RootlessTypeCorrect` and the like), `AttemptIInv` and `RecordIInv`.

## 6. Not modelled

Bytes, digests and signatures of files and events (a value stands for what its
digest identifies); inode and mode checks; texts and verifiers; the authoritative
monetary cost in `reconcile_actual`, which the dispatcher never meets with a
currency; threads inside one ledger object (every user in the package gives an object to one
thread). Of the calibration: the authorization before it, the contents of its
archive, and the limits on tokens apart from their price. Of the rootless stage:
the admission per minute, the
transports, the content of replies beyond what decides a settlement, the families
and projections of BCT, and the selection after screening; a drift of the authority is a fault that may strike at each of its
checks. Of the attempt around it: the expiry of acknowledgements and what the
commands before the claim validate; two scripts at once; a preparation that died in
the middle (`Prepare` and `Freeze` are one step each; what a death leaves of them makes the next
command fail); and the check for a forked ledger before a command.

Of the memories: RAG, whose corpus does not change; the phase-12 arms of BoT, full history
and dynamic cheatsheet with their filters, which have no hook between attempts (their
phase-13 trials are in `ArmEvidence`); tool modes; duplicate
entry ids (they are random, and deterministic only in replay tools, which run one
attempt); the check for cycles of parents, which cannot arise when parents are older;
trials without updates; the record of which trial first pushed the root out; an
interrupt in the middle of a seed, which loses the whole of it (memories live in the
process). Of the phase-12 runners: the offline prefix and suffix, the budget counter, the
reduced-main branches, and how the common checkpoint is chosen among mature ones.

Of evaluation: recurrence, whose failure class no production trial has, and the metrics of retrieval and
storage, which read finished rows.

Not modelled at all: contamination, tasks, retrieval and the aggregation of results compute on
texts and floating-point numbers without state over time; readiness gates, builders and
the command line run once, in sequence, before anything is paid for; log writers only
append; the sandbox limits one subprocess.

## 7. Plan

1. Done: the V3 chain, `CostLaw`, `LedgerSnapshot`, `RunnerLedger`, the rootless chain and attempt,
   the Reflexion memory, the calibration, the evidence of an arm, and the proofs above.
2. Recurrence over the rows of `ArmEvidence`; log writers, the sandbox's time limit.
