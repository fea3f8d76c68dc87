------------------------------ MODULE RootlessStage ------------------------------
(***************************************************************************)
(* One stage run of the rootless challenge: the stage broker, its worker   *)
(* and the closing of the stage (rootless_local_runtime.py,                *)
(* rootless_local_broker.py, rootless_local_execution.py,                  *)
(* rootless_local_closure.py, rootless_local_archive_validator.py) over    *)
(* the ledger of RootlessLedger.                                           *)
(*                                                                         *)
(* The worker decides what is dispatched, the broker does it; two sockets  *)
(* of messages join them.  The broker runs on one event loop: its tasks    *)
(* interleave only where they wait, which is in the exchange with the      *)
(* provider, so the writes of a task between two waits are a piece that    *)
(* only the end of the process can cut short.  Files outlive it: a slot's  *)
(* directory, its receipt, the stage's manifest and its terminals.         *)
(*                                                                         *)
(* A process that meets an error seals what it finds and ends; the next    *)
(* one replays the receipts on disk.                                       *)
(***************************************************************************)
EXTENDS RootlessLedger, Sequences

CONSTANTS
  Order,          \* the slots in the order they are registered
  Predecessor,    \* slot -> the slot whose receipt it waits for, or NoSlot
  Dynamic,        \* slots whose request is made of the predecessor's output
  Oversize,       \* the others whose request exceeds the input cap
  MaxActive,      \* slots in flight at once, and the results the broker buffers
  MaxFaults,      \* bound: deaths, failing writes, drifts, lost channels
  MaxStarts,      \* bound: processes started
  NotEstimable, Review, Unclean, NoManifest

ASSUME StageAssumption ==
  /\ Order \in Seq(Slots)
  /\ \A s \in Slots : \E i \in DOMAIN Order : Order[i] = s
  /\ \A i, j \in DOMAIN Order : Order[i] = Order[j] => i = j
  /\ Predecessor \in [Slots -> Slots \cup {NoSlot}]
  /\ \A i, j \in DOMAIN Order :
       Predecessor[Order[j]] = Order[i] =>
         i < j /\ StageOf[Order[i]] = StageOf[Order[j]]
  /\ Dynamic \subseteq {s \in Slots : Predecessor[s] # NoSlot}
  /\ Oversize \subseteq Slots \ Dynamic
  /\ MaxActive \in Nat \ {0}
  /\ {Estimable, NotEstimable, Review, Unclean} \cup Slots = Verdicts
  /\ Estimable \notin {NotEstimable, Unclean} \cup Slots

VARIABLES
  slotDir,        \* slot -> what its directory holds
  manifest,       \* stage -> the slots of receipt-manifest.json
  sealed,         \* stage -> what terminals/<stage>.json states
  final,          \* terminals/final.json: the stage it stands on
  phase,          \* what the broker process is at
  reason,         \* stage_operational_reason: NoVerdict, Unclean, or a slot's
  waiting,        \* pending of _broker: slots not yet dispatched
  job,            \* slot -> its task in the broker
  piece,          \* the task that runs between two waits, and its receipt
  results,        \* the results buffered for the main loop
  heard,          \* receipt_hashes of _broker
  existing,       \* the slots whose receipts this process found
  worker,         \* [state, pending, active, heard] of _worker
  dispatches,     \* messages to the broker
  replies,        \* messages to the worker
  faults, starts  \* counters of the bounds

fileVars == <<slotDir, manifest, sealed, final>>
brokerVars == <<phase, reason, waiting, job, piece, results, heard, existing>>
wireVars == <<worker, dispatches, replies>>
boundVars == <<faults, starts>>
stageVars == <<ledgerVars, fileVars, brokerVars, wireVars, boundVars>>

-------------------------------------------------------------------------------
(* Slots and receipts. *)

SlotsOf(stage) == {s \in Slots : StageOf[s] = stage}

Position(s) == CHOOSE i \in DOMAIN Order : Order[i] = s
Earliest(set) == CHOOSE s \in set : \A t \in set : Position(s) <= Position(t)

\* What a slot's directory holds: nothing yet, no receipt ("open"), a receipt cut
\* short ("torn") or a whole one.  failed: operational_reason is set.  output: what
\* a request can be made of, one within the input cap or a "long" one.
Kinds == {"answered", "capped", "blocked"}
Receipt(kind, settled, failed, output) ==
  [kind |-> kind, settled |-> settled, failed |-> failed, output |-> output]

NoDir == Receipt("none", FALSE, FALSE, "none")
OpenDir == Receipt("open", FALSE, FALSE, "none")
TornDir == Receipt("torn", FALSE, FALSE, "none")

\* An answer has a valid usage and is settled, or has an operational reason; the
\* wrong model has both.  A failed or empty answer leaves no output; its length
\* matters where a request is made of it.
Answers(s) ==
  {Receipt("answered", TRUE, FALSE, "none"), Receipt("answered", TRUE, FALSE, "short"),
   Receipt("answered", TRUE, TRUE, "none"), Receipt("answered", FALSE, TRUE, "none")}
  \cup {Receipt("answered", TRUE, FALSE, "long") : t \in {d \in Dynamic : Predecessor[d] = s}}

Capped == Receipt("capped", FALSE, TRUE, "none")
Blocked == Receipt("blocked", FALSE, FALSE, "none")

\* call-receipt.json is a file.
HasReceipt(s) == slotDir[s].kind \notin {"none", "open"}
Receipted(stage) == {s \in SlotsOf(stage) : HasReceipt(s)}

\* No receipt stands behind a slot without one.
IsPrefix(stage) ==
  \A s \in Receipted(stage), t \in SlotsOf(stage) :
    Position(t) < Position(s) => HasReceipt(t)

OfKind(set, kinds) == {s \in set : slotDir[s].kind \in kinds}

\* The reason of a blocked slot's record is in its receipt's behavioral_reason
\* and is looked for in its operational_reason; a dynamic slot's request is
\* unknown to the registered slot a capped receipt is compared with.
ReferencesHold(s) ==
  /\ slotDir[s].kind # "blocked"
  /\ slotDir[s].kind = "capped" => s \notin Dynamic

\* Faulty variant: the settlements are counted, not the reservations.
Accepts_SettledOnly(stage, set) ==
  /\ {s \in SlotsOf(stage) : slotDir[s] # NoDir} = set
  /\ \A s \in set : slotDir[s].kind \in Kinds
  /\ damaged = {}
  /\ \A s \in OfKind(set, {"answered"}) : disk.account[s] = "settled"
  /\ \A s \in set : ReferencesHold(s)

\* _validate: the directories are those of the set, their receipts are whole,
\* follow their predecessors' and are as many as the ledger says.
Accepts(stage, set) ==
  /\ {s \in SlotsOf(stage) : slotDir[s] # NoDir} = set
  /\ \A s \in set : slotDir[s].kind \in Kinds
  /\ \A s \in set : Predecessor[s] # NoSlot => Predecessor[s] \in set
  /\ damaged = {}
  /\ Cardinality(OfKind(set, {"answered"})) = Cardinality(Issued(disk, stage))
  /\ Cardinality(OfKind(set, {"capped", "blocked"}))
       = Cardinality(Skipped(disk, stage))
  /\ \A s \in set : ReferencesHold(s)

-------------------------------------------------------------------------------
(* The worker. *)

NoWorker == [state |-> "gone", pending |-> {}, active |-> {}, heard |-> {}]

\* _ready_batch
Eligible ==
  {s \in worker.pending : Predecessor[s] \in worker.heard \cup {NoSlot}}

MayDispatch ==
  worker.state = "up" /\ Cardinality(worker.active) < MaxActive /\ Eligible # {}

\* dispatch_ready
WorkerDispatches ==
  /\ MayDispatch
  /\ LET s == Earliest(Eligible) IN
     /\ worker' = [worker EXCEPT !.pending = @ \ {s}, !.active = @ \cup {s}]
     /\ dispatches' = Append(dispatches, s)
  /\ UNCHANGED <<ledgerVars, fileVars, brokerVars, replies, boundVars>>

\* Faulty variant: an answered slot keeps its place.
WorkerReads_KeepsActive ==
  /\ worker.state = "up" /\ ~MayDispatch /\ replies # <<>>
  /\ LET reply == Head(replies) IN
     worker' = IF reply.type = "terminal" THEN [worker EXCEPT !.state = "gone"]
               ELSE [worker EXCEPT !.heard = @ \cup {reply.slot}]
  /\ replies' = Tail(replies)
  /\ UNCHANGED <<ledgerVars, fileVars, brokerVars, dispatches, boundVars>>

\* One turn of the loop of _worker; a terminal ends it.
WorkerReads ==
  /\ worker.state = "up" /\ ~MayDispatch /\ replies # <<>>
  /\ LET reply == Head(replies) IN
     worker' = IF reply.type = "terminal" THEN [worker EXCEPT !.state = "gone"]
               ELSE [worker EXCEPT !.active = @ \ {reply.slot},
                                   !.heard = @ \cup {reply.slot}]
  /\ replies' = Tail(replies)
  /\ UNCHANGED <<ledgerVars, fileVars, brokerVars, dispatches, boundVars>>

WorkerEnds ==
  /\ worker.state = "up" /\ ~MayDispatch /\ worker.active = {}
  /\ worker' = [worker EXCEPT !.state = "gone"]
  /\ UNCHANGED <<ledgerVars, fileVars, brokerVars, dispatches, replies, boundVars>>

Fault == faults < MaxFaults /\ faults' = faults + 1 /\ UNCHANGED starts

WorkerDies ==
  /\ worker.state = "up" /\ Fault
  /\ worker' = [worker EXCEPT !.state = "gone"]
  /\ UNCHANGED <<ledgerVars, fileVars, brokerVars, dispatches, replies>>

-------------------------------------------------------------------------------
(* The process and its main loop. *)

NoPiece == [slot |-> NoSlot, receipt |-> NoDir]
NoSeal == [verdict |-> NoVerdict, issued |-> 0, spent |-> 0, retained |-> 0]

StageInit ==
  /\ LedgerInit
  /\ slotDir = [s \in Slots |-> NoDir]
  /\ manifest = [stage \in Stages |-> NoManifest]
  /\ sealed = [stage \in Stages |-> NoSeal]
  /\ final = NoStage
  /\ phase = "down" /\ reason = NoVerdict
  /\ waiting = {} /\ job = [s \in Slots |-> "none"] /\ piece = NoPiece
  /\ results = <<>> /\ heard = {} /\ existing = {}
  /\ worker = NoWorker /\ dispatches = <<>> /\ replies = <<>>
  /\ faults = 0 /\ starts = 0

\* _existing_results raises unless the receipts are a prefix the validator accepts.
Replayable(stage) ==
  Receipted(stage) = {} \/ (IsPrefix(stage) /\ Accepts(stage, Receipted(stage)))

\* run_stage_process, up to the loop.  BCT needs the Freeze-B of an estimable
\* screening.
Start(stage) ==
  /\ phase = "down" /\ starts < MaxStarts
  /\ stage = "bct" => sealed["screening"].verdict = Estimable
  /\ Open(stage)
  /\ phase' = IF Replayable(stage) THEN "loop" ELSE "abort"
  /\ existing' = Receipted(stage)
  /\ waiting' = SlotsOf(stage)
  /\ worker' = [NoWorker EXCEPT !.state = "up", !.pending = SlotsOf(stage)]
  /\ starts' = starts + 1
  /\ UNCHANGED <<fileVars, reason, job, piece, results, heard, dispatches, replies,
                 faults>>

InFlight == {s \in Slots : job[s] # "none"} \ heard

\* What _broker raises ROOTLESS_WIRE_INVALID for, of a dispatch.
Acceptable(s) ==
  /\ Cardinality(InFlight) < MaxActive
  /\ s \in waiting
  /\ Predecessor[s] \in heard \cup {NoSlot}

ReadDispatch ==
  /\ phase = "loop" /\ piece = NoPiece /\ dispatches # <<>>
  /\ LET s == Head(dispatches) IN
     /\ Acceptable(s)
     /\ waiting' = waiting \ {s}
     /\ job' = [job EXCEPT ![s] = "queued"]
  /\ dispatches' = Tail(dispatches)
  /\ UNCHANGED <<ledgerVars, fileVars, phase, reason, piece, results, heard, existing,
                 worker, replies, boundVars>>

\* A result is read.  A failed answer ends the stage, and so does a capped slot;
\* of the two only the first sets the reason here.
Consume ==
  /\ phase = "loop" /\ piece = NoPiece /\ dispatches = <<>> /\ worker.state = "up"
  /\ results # <<>>
  /\ LET s == Head(results)
         failedAnswer == slotDir[s].kind = "answered" /\ slotDir[s].failed IN
     /\ heard' = heard \cup {s}
     /\ replies' = Append(replies, [type |-> IF failedAnswer THEN "terminal" ELSE "receipt",
                                    slot |-> s])
     /\ reason' = IF failedAnswer THEN s ELSE reason
     /\ phase' = IF slotDir[s].failed \/ (waiting = {} /\ InFlight = {s})
                 THEN "leave" ELSE "loop"
  /\ results' = Tail(results)
  /\ UNCHANGED <<ledgerVars, fileVars, waiting, job, piece, existing, worker, dispatches,
                 boundVars>>

\* End of file on the socket: the loop raises and its tasks are cancelled.
ChannelLost ==
  /\ phase = "loop" /\ piece = NoPiece /\ dispatches = <<>> /\ worker.state = "gone"
  /\ phase' = "abort"
  /\ UNCHANGED <<ledgerVars, fileVars, reason, waiting, job, piece, results, heard,
                 existing, wireVars, boundVars>>

-------------------------------------------------------------------------------
(* The tasks of the loop: execute, FakeBroker.dispatch, account_input_cap and     *)
(* _blocked_receipt. *)

Working == phase \in {"loop", "leave", "abort"}

\* _prepare_request: the predecessor left no output a request can be made of.
IsBlocked(s) ==
  /\ s \in Dynamic
  /\ ~ /\ Predecessor[s] \in heard
       /\ slotDir[Predecessor[s]].output # "none"

IsOversize(s) ==
  IF s \in Dynamic THEN slotDir[Predecessor[s]].output = "long" ELSE s \in Oversize

BeginPiece(s, receipt) ==
  /\ piece' = [slot |-> s, receipt |-> receipt]
  /\ UNCHANGED <<fileVars, phase, reason, waiting, job, results, heard, existing,
                 wireVars, boundVars>>

Deliver(s) ==
  /\ job' = [job EXCEPT ![s] = "done"]
  /\ results' = Append(results, s)
  /\ UNCHANGED <<phase, waiting, heard, existing>>

Queued(s) == Working /\ piece = NoPiece /\ job[s] = "queued"

\* Whether a receipt is on disk is asked only of a slot that is not blocked.
TaskReplays(s) ==
  /\ Queued(s) /\ ~IsBlocked(s) /\ s \in existing
  /\ Deliver(s)
  /\ UNCHANGED <<ledgerVars, fileVars, reason, piece, wireVars, boundVars>>

IsFresh(s) == ~IsBlocked(s) /\ s \notin existing

TaskSkips(s) ==
  /\ Queued(s)
  /\ IsBlocked(s) \/ (IsFresh(s) /\ IsOversize(s))
  /\ Skip(s)
  /\ BeginPiece(s, IF IsBlocked(s) THEN Blocked ELSE Capped)

TaskReserves(s) ==
  /\ Queued(s) /\ IsFresh(s) /\ ~IsOversize(s)
  /\ Reserve(s)
  /\ BeginPiece(s, OpenDir)

\* The append succeeded: the slot's directory is made, which must be new.
MakeDirectory ==
  /\ piece # NoPiece /\ writing = Idle /\ slotDir[piece.slot] = NoDir
  /\ slotDir' = [slotDir EXCEPT ![piece.slot] = OpenDir]
  /\ UNCHANGED <<ledgerVars, manifest, sealed, final, brokerVars, wireVars, boundVars>>

TaskCalls ==
  /\ piece.receipt = OpenDir /\ slotDir[piece.slot] = OpenDir
  /\ Exchange(piece.slot)
  /\ job' = [job EXCEPT ![piece.slot] = "running"]
  /\ piece' = NoPiece
  /\ UNCHANGED <<fileVars, phase, reason, waiting, results, heard, existing, wireVars,
                 boundVars>>

\* The exchange returns: the usage is settled if it is valid, and the reservation
\* retained if it is not.
TaskAnswered(s) ==
  /\ Working /\ piece = NoPiece /\ job[s] = "running"
  /\ \E answer \in Answers(s) :
       /\ IF answer.settled THEN \E cost \in Costs : Settle(s, cost) ELSE Abandon(s)
       /\ BeginPiece(s, answer)

\* The receipt of a blocked slot is created and then written, the others are
\* renamed into place.
TearReceipt ==
  /\ piece.receipt = Blocked /\ slotDir[piece.slot] = OpenDir
  /\ slotDir' = [slotDir EXCEPT ![piece.slot] = TornDir]
  /\ UNCHANGED <<ledgerVars, manifest, sealed, final, brokerVars, wireVars, boundVars>>

\* Faulty variant: the receipt does not wait for the settlement.
WriteReceipt_Early ==
  /\ piece.receipt.kind \in Kinds
  /\ slotDir[piece.slot] = IF piece.receipt = Blocked THEN TornDir ELSE OpenDir
  /\ slotDir' = [slotDir EXCEPT ![piece.slot] = piece.receipt]
  /\ reason' = IF piece.receipt.failed THEN piece.slot ELSE reason
  /\ Deliver(piece.slot)
  /\ piece' = NoPiece
  /\ UNCHANGED <<ledgerVars, manifest, sealed, final, wireVars, boundVars>>

WriteReceipt ==
  /\ piece.receipt.kind \in Kinds /\ writing = Idle
  /\ slotDir[piece.slot] = IF piece.receipt = Blocked THEN TornDir ELSE OpenDir
  /\ slotDir' = [slotDir EXCEPT ![piece.slot] = piece.receipt]
  /\ reason' = IF piece.receipt.failed THEN piece.slot ELSE reason
  /\ Deliver(piece.slot)
  /\ piece' = NoPiece
  /\ UNCHANGED <<ledgerVars, manifest, sealed, final, wireVars, boundVars>>

\* A task raises: the loop is cancelled with it.
Raises(s) ==
  /\ job' = [job EXCEPT ![s] = "failed"]
  /\ piece' = NoPiece
  /\ phase' = "abort"
  /\ UNCHANGED <<fileVars, reason, waiting, results, heard, existing, wireVars>>

\* The ledger refuses the slot or a cap is reached.  The request of a blocked slot
\* was accounted for by the process before, if it has a receipt.
LedgerRefuses(s) ==
  /\ Queued(s)
  /\ IsBlocked(s) \/ s \notin existing
  /\ \/ "records" \in damaged
     \/ ~Admits(s)
     \/ IsFresh(s) /\ ~IsOversize(s) /\ ~Fits(s)
  /\ Raises(s)
  /\ UNCHANGED <<ledgerVars, boundVars>>

\* The records cannot be listed when an answer is to be settled.
SettlementRefused(s) ==
  /\ Working /\ piece = NoPiece /\ job[s] = "running" /\ "records" \in damaged
  /\ Raises(s)
  /\ Abandon(s)
  /\ UNCHANGED boundVars

\* The authority has drifted (revalidate_external_authority), or a file of the slot
\* cannot be written.
TaskBreaks(s) ==
  /\ Fault
  /\ \/ Queued(s) /\ IsFresh(s) /\ ~IsOversize(s)
     \/ piece.slot = s /\ writing = Idle
  /\ IF task[s] \in {"granted", "called"} THEN Abandon(s) ELSE UNCHANGED ledgerVars
  /\ Raises(s)

\* An append fails, on its own or because the heads cannot be listed.
AppendFails ==
  /\ WriteFails
  /\ IF writing.step = "head" /\ "heads" \in damaged /\ known # Blank
     THEN UNCHANGED boundVars ELSE Fault
  /\ IF Working THEN Raises(piece.slot)
     ELSE /\ phase' = "refused"
          /\ UNCHANGED <<fileVars, reason, waiting, job, piece, results, heard, existing,
                         wireVars>>

\* An append goes on.
AppendStep ==
  /\ WriteRecord \/ WriteHead
  /\ UNCHANGED <<fileVars, brokerVars, wireVars, boundVars>>

\* anyio cancels a task at its next wait.
TaskCancelled(s) ==
  /\ phase = "abort" /\ piece = NoPiece /\ job[s] \in {"queued", "running"}
  /\ IF job[s] = "running" THEN Abandon(s) ELSE UNCHANGED ledgerVars
  /\ Raises(s)
  /\ UNCHANGED boundVars

-------------------------------------------------------------------------------
(* Closing: close_stage, once no task is left. *)

EnterClose ==
  /\ phase \in {"leave", "abort"} /\ piece = NoPiece
  /\ \A s \in Slots : job[s] \notin {"queued", "running"}
  /\ phase' = "close"
  /\ reason' = IF phase = "abort" THEN Unclean ELSE reason
  /\ UNCHANGED <<ledgerVars, fileVars, waiting, job, piece, results, heard, existing,
                 wireVars, boundVars>>

\* close_receipt_set and _accounted_slots.
ReceiptSetHolds ==
  LET set == Receipted(opened) IN
  /\ reason = NoVerdict => IsPrefix(opened)
  /\ set = {} \/ Accepts(opened, set)
  /\ manifest[opened] \in {NoManifest, set}

\* The ledger is read anew if there is a receipt to validate.
CloseReceipts ==
  /\ phase = "close"
  /\ \/ /\ ReceiptSetHolds
        /\ manifest' = [manifest EXCEPT ![opened] = Receipted(opened)]
        /\ phase' = "manifest"
        /\ IF Receipted(opened) = {} THEN UNCHANGED ledgerVars ELSE Reread
     \/ /\ ~ReceiptSetHolds
        /\ phase' = "refused"
        /\ Reread \/ UNCHANGED ledgerVars
        /\ UNCHANGED manifest
  /\ UNCHANGED <<slotDir, sealed, final, reason, waiting, job, piece, results, heard,
                 existing, wireVars, boundVars>>

AllReceipted == Receipted(opened) = SlotsOf(opened)

\* select_freeze_b needs an outcome of every slot; what it makes of them is fixed
\* by the receipts.
Verdict ==
  IF reason # NoVerdict THEN reason
  ELSE IF opened = "bct" THEN Review
  ELSE IF \A s \in SlotsOf(opened) : slotDir[s].output # "none" THEN Estimable
  ELSE NotEstimable

\* Without a reason every slot must have a receipt; a stage that is closed must be
\* closed with the same verdict.
TerminalHolds ==
  /\ reason = NoVerdict => AllReceipted
  /\ "records" \notin damaged
  /\ Closed(known, opened) => known.last = [stage |-> opened, verdict |-> Verdict]

\* A stage that is closed keeps its terminal record.
CloseLedger ==
  /\ phase = "manifest"
  /\ \/ /\ TerminalHolds /\ ~Closed(known, opened)
        /\ Terminate(Verdict)
        /\ phase' = "terminal"
     \/ /\ UNCHANGED ledgerVars
        /\ \/ TerminalHolds /\ Closed(known, opened) /\ phase' = "again"
           \/ ~TerminalHolds /\ phase' = "refused"
  /\ UNCHANGED <<fileVars, reason, waiting, job, piece, results, heard, existing,
                 wireVars, boundVars>>

\* Faulty variant: reservations without a settlement are left out.
Figures_SettledOnly ==
  [verdict |-> Verdict, issued |-> Cardinality(Issued(known, opened)),
   spent |-> known.spent[opened], retained |-> 0]

Figures ==
  [verdict |-> Verdict, issued |-> Cardinality(Issued(known, opened)),
   spent |-> known.spent[opened], retained |-> Retained(known, opened)]

\* terminals/<stage>.json names the terminal record: a second record of a stage
\* that is sealed conflicts with the file.
SealStage ==
  /\ phase \in {"terminal", "again"} /\ writing = Idle
  /\ \/ /\ sealed[opened] = NoSeal
        /\ sealed' = [sealed EXCEPT ![opened] = Figures]
        /\ phase' = IF Verdict = Estimable THEN "exit" ELSE "final"
     \/ /\ sealed[opened] # NoSeal
        /\ phase' = IF phase = "terminal" THEN "refused"
                    ELSE IF Verdict = Estimable THEN "exit" ELSE "final"
        /\ UNCHANGED sealed
  /\ UNCHANGED <<ledgerVars, slotDir, manifest, final, reason, waiting, job, piece,
                 results, heard, existing, wireVars, boundVars>>

\* seal_final_from_stage
SealFinal ==
  /\ phase = "final"
  /\ final' = opened
  /\ phase' = "exit"
  /\ UNCHANGED <<ledgerVars, slotDir, manifest, sealed, reason, waiting, job, piece,
                 results, heard, existing, wireVars, boundVars>>

-------------------------------------------------------------------------------
(* Ends and faults. *)

ProcessGone ==
  /\ Exit
  /\ phase' = "down" /\ reason' = NoVerdict /\ waiting' = {}
  /\ job' = [s \in Slots |-> "none"] /\ piece' = NoPiece
  /\ results' = <<>> /\ heard' = {} /\ existing' = {}
  /\ worker' = NoWorker /\ dispatches' = <<>> /\ replies' = <<>>
  /\ UNCHANGED fileVars

BrokerEnds ==
  /\ phase \in {"refused", "exit"}
  /\ ProcessGone /\ UNCHANGED boundVars

BrokerDies ==
  /\ phase \notin {"down", "refused", "exit"} /\ Fault
  /\ ProcessGone

StartDies ==
  /\ phase = "down" /\ Fault
  /\ OpenTorn
  /\ UNCHANGED <<fileVars, brokerVars, wireVars>>

-------------------------------------------------------------------------------
(* The specification.  Each process runs on; the provider answers or times out,   *)
(* which the broker takes for an answer.  Faults are never owed.                  *)

WorkerStep == WorkerDispatches \/ WorkerReads \/ WorkerEnds

TaskStep(s) ==
  \/ TaskReplays(s) \/ TaskSkips(s) \/ TaskReserves(s) \/ TaskAnswered(s)
  \/ LedgerRefuses(s) \/ SettlementRefused(s) \/ TaskCancelled(s)

PieceStep == MakeDirectory \/ TaskCalls \/ TearReceipt \/ WriteReceipt

BrokerStep ==
  \/ ReadDispatch \/ Consume \/ ChannelLost
  \/ \E s \in Slots : TaskStep(s)
  \/ PieceStep \/ AppendStep
  \/ EnterClose \/ CloseReceipts \/ CloseLedger \/ SealStage \/ SealFinal
  \/ BrokerEnds

FaultStep ==
  \/ WorkerDies \/ BrokerDies \/ StartDies \/ AppendFails
  \/ \E s \in Slots : TaskBreaks(s)

StageNext ==
  \/ \E stage \in Stages : Start(stage)
  \/ WorkerStep \/ BrokerStep \/ FaultStep

StageSpec == StageInit /\ [][StageNext]_stageVars

FairStageSpec ==
  StageSpec /\ WF_stageVars(WorkerStep) /\ WF_stageVars(BrokerStep \/ AppendFails)

-------------------------------------------------------------------------------
(* Properties. *)

\* A receipt says what happened: an answered slot was called, and settled if the
\* receipt says so, a capped or blocked one was never called (FakeBroker.dispatch, account_input_cap).
ReceiptsAreTrue ==
  \A s \in Slots :
    /\ slotDir[s].kind = "answered" =>
         /\ calls[s] = 1
         /\ disk.account[s] = IF slotDir[s].settled THEN "settled" ELSE "reserved"
    /\ slotDir[s].kind \in {"capped", "blocked"} =>
         calls[s] = 0 /\ disk.account[s] = "skipped"

CalledIn(stage) == Called \cap SlotsOf(stage)

\* The figures a stage is sealed with cover every call made for it, whatever
\* died on the way and whenever they are read.
SealCoversCalls ==
  \A stage \in Stages :
    sealed[stage] # NoSeal =>
      /\ sealed[stage].issued >= Cardinality(CalledIn(stage))
      /\ sealed[stage].spent + sealed[stage].retained
           >= disk.spent[stage]
                + Reservation * Cardinality(CalledIn(stage) \ SettledOnDisk)

\* Nothing is called, accounted for or received for a stage that is sealed.
QuietAfterSeal ==
  [][\A s \in Slots :
       sealed[StageOf[s]] # NoSeal =>
         /\ calls'[s] = calls[s] /\ disk'.account[s] = disk.account[s]
         /\ slotDir'[s] = slotDir[s]]_stageVars

\* A first run that meets no fault and no cap is refused its seal only over a
\* receipt the validator cannot match with the ledger.
CleanRunSeals ==
  phase = "refused" /\ starts = 1 /\ faults = 0 /\ reason # Unclean =>
    \E s \in Receipted(opened) : ~ReferencesHold(s)

\* A stage every slot of which has a receipt, and none of which failed, is advanced
\* to its terminal (close_stage).  It is not when a slot was blocked.
AccountedIsSealed ==
  ~ /\ phase = "refused" /\ faults = 0 /\ starts = 1
    /\ reason = NoVerdict /\ AllReceipted

\* A stage process ends.
StageEnds == phase # "down" ~> phase = "down"
===============================================================================
