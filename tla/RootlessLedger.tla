----------------------------- MODULE RootlessLedger -----------------------------
(***************************************************************************)
(* GlobalLedger (rootless_local_ledger.py) under its only client, the      *)
(* stage broker (rootless_local_broker.py).                                *)
(*                                                                         *)
(* The ledger is a directory of record files and one of head files.  An    *)
(* append replaces two files, one after the other: the record, then the    *)
(* head that seals it, and only then does the object in memory learn of    *)
(* it.  A file is written under a temporary name and renamed; _paths       *)
(* refuses a directory that holds any other name, so a temporary file left *)
(* behind, or two files of one number, end the ledger for good.  A record  *)
(* without its head is adopted by the next process that opens the ledger.  *)
(*                                                                         *)
(* A list of records is modelled by what it amounts to: what it says of    *)
(* each slot, what the settlements of each stage add up to and whether the *)
(* last record is a terminal one.  Signatures and hashes hold.             *)
(***************************************************************************)
EXTENDS Naturals, FiniteSets

CONSTANTS
  Slots,          \* slot_id of every registered slot of both stages
  StageOf,        \* slot -> its stage
  CallCap,        \* stage -> SCREENING_CALL_CAP, BCT_CALL_CAP
  MoneyCap,       \* stage -> SCREENING_CAP_NANOUSD, BCT_CAP_NANOUSD
  TotalMoneyCap,  \* CUMULATIVE_CAP_NANOUSD
  Reservation,    \* RESERVATION_NANOUSD
  Costs,          \* the costs actual_cost_nanousd accepts
  Verdicts,       \* terminal_status and reason_code of a terminal record
  Estimable,      \* completed_estimable, SCREENING_ESTIMABLE
  NoSlot, NoStage, NoVerdict

Stages == {"screening", "bct"}

\* A usage above the reserved tokens is refused (actual_cost_nanousd), so no
\* accepted cost exceeds the reservation; the cumulative call cap is the sum of
\* the others.
ASSUME RootlessAssumption ==
  /\ IsFiniteSet(Slots)
  /\ StageOf \in [Slots -> Stages]
  /\ CallCap \in [Stages -> Nat]
  /\ MoneyCap \in [Stages -> Nat]
  /\ TotalMoneyCap \in Nat
  /\ Reservation \in Nat
  /\ Costs \subseteq 0 .. Reservation
  /\ Estimable \in Verdicts
  /\ NoSlot \notin Slots /\ NoStage \notin Stages /\ NoVerdict \notin Verdicts

VARIABLES
  disk,           \* what the record files amount to
  headless,       \* the last record has no head yet
  damaged,        \* the directories _paths refuses
  opened,         \* the stage of the process that holds the runtime lock
  known,          \* what the records its ledger object holds amount to
  lost,           \* what the records amount to that it wrote and does not hold
  writing,        \* the append under way
  task,           \* slot -> how far this process has come with it
  calls           \* slot -> exchanges with the provider begun for it

memoryVars == <<opened, known, lost, writing>>
ledgerVars == <<disk, headless, damaged, memoryVars, task, calls>>

-------------------------------------------------------------------------------
(* Records, and what a list of them amounts to. *)

Accounts == {"none", "reserved", "settled", "skipped"}
Contents == [account : [Slots -> Accounts],
             spent : [Stages -> Nat],
             last : [stage : Stages, verdict : Verdicts \cup {NoVerdict}]]

Blank == [account |-> [s \in Slots |-> "none"],
          spent |-> [stage \in Stages |-> 0],
          last |-> [stage |-> "screening", verdict |-> NoVerdict]]

Record(slot, account, cost, verdict) ==
  [slot |-> slot, account |-> account, cost |-> cost,
   stage |-> opened, verdict |-> verdict]

Records ==
  [slot : Slots \cup {NoSlot}, account : Accounts, cost : Costs \cup {0},
   stage : Stages, verdict : Verdicts \cup {NoVerdict}]

\* The contents with one more record.
With(contents, record) ==
  [account |-> [s \in Slots |-> IF s = record.slot THEN record.account
                                ELSE contents.account[s]],
   spent |-> [contents.spent EXCEPT ![record.stage] = @ + record.cost],
   last |-> [stage |-> record.stage, verdict |-> record.verdict]]

Held(contents, stage) ==
  {s \in Slots : StageOf[s] = stage /\ contents.account[s] = "reserved"}

Issued(contents, stage) ==
  {s \in Slots : /\ StageOf[s] = stage
                 /\ contents.account[s] \in {"reserved", "settled"}}

Skipped(contents, stage) ==
  {s \in Slots : StageOf[s] = stage /\ contents.account[s] = "skipped"}

\* _active_unsettled_nanousd
Retained(contents, stage) == Reservation * Cardinality(Held(contents, stage))

\* Faulty variant: a call that was not settled is forgotten.
Accounted_SettledOnly(contents, stage) == contents.spent[stage]

\* What the stage has cost, or may yet.
Accounted(contents, stage) == contents.spent[stage] + Retained(contents, stage)

\* Faulty variant: only an estimable stage is closed.
Closed_Estimable(contents, stage) ==
  contents.last = [stage |-> stage, verdict |-> Estimable]

\* _closed_for_stage looks at the last record only.
Closed(contents, stage) ==
  /\ contents.last.verdict # NoVerdict
  /\ ~ /\ stage = "bct"
       /\ contents.last = [stage |-> "screening", verdict |-> Estimable]

-------------------------------------------------------------------------------
(* Opening, and the two halves of an append. *)

Idle == [step |-> "none"]
Appending(record, step) == [step |-> step, record |-> record]

LedgerInit ==
  /\ disk = Blank /\ headless = FALSE /\ damaged = {}
  /\ opened = NoStage /\ known = Blank /\ lost = Blank /\ writing = Idle
  /\ task = [s \in Slots |-> "fresh"]
  /\ calls = [s \in Slots |-> 0]

\* GlobalLedger.__init__: everything on disk is read, and a missing head is
\* rebuilt from its record.
Open(stage) ==
  /\ opened = NoStage /\ damaged = {}
  /\ opened' = stage
  /\ known' = disk
  /\ headless' = FALSE
  /\ UNCHANGED <<disk, damaged, lost, writing, task, calls>>

\* The process dies while it rebuilds a head.
OpenTorn ==
  /\ opened = NoStage /\ damaged = {} /\ headless
  /\ damaged' = {"heads"}
  /\ UNCHANGED <<disk, headless, memoryVars, task, calls>>

\* The validator of a closing stage reads the files with an object of its own,
\* which gives the last record its head; the broker's object does not learn of it.
Reread ==
  /\ opened # NoStage /\ writing = Idle /\ damaged = {}
  /\ headless' = FALSE
  /\ UNCHANGED <<disk, damaged, memoryVars, task, calls>>

Ready == opened # NoStage /\ writing = Idle /\ "records" \notin damaged

Begin(record) ==
  /\ writing' = Appending(record, "record")
  /\ UNCHANGED <<disk, headless, damaged, opened, known, lost, task, calls>>

\* The caps of reserve.
Fits(s) ==
  LET stage == StageOf[s] IN
  /\ Cardinality(Issued(known, stage)) < CallCap[stage]
  /\ Accounted(known, stage) + Reservation <= MoneyCap[stage]
  /\ Accounted(known, "screening") + Accounted(known, "bct") + Reservation
       <= TotalMoneyCap

\* The stage is open and no record names the slot (_validate_request_identity).
Admits(s) ==
  /\ task[s] = "fresh" /\ StageOf[s] = opened
  /\ ~Closed(known, opened)
  /\ known.account[s] = "none"

\* reserve: a full reservation fits under every cap.
Reserve(s) ==
  /\ Ready /\ Admits(s) /\ Fits(s)
  /\ Begin(Record(s, "reserved", 0, NoVerdict))

\* settle: the reservation exists and has no settlement.
Settle(s, cost) ==
  /\ Ready /\ task[s] = "called"
  /\ ~Closed(known, opened)
  /\ known.account[s] = "reserved"
  /\ Begin(Record(s, "settled", cost, NoVerdict))

\* not_issued
Skip(s) ==
  /\ Ready /\ Admits(s)
  /\ Begin(Record(s, "skipped", 0, NoVerdict))

\* terminal, of a stage that is open.
Terminate(verdict) ==
  /\ Ready
  /\ ~Closed(known, opened)
  /\ Begin(Record(NoSlot, "none", 0, verdict))

\* The record file.  An object that does not hold the last record gives the new
\* one the same number.
WriteRecord ==
  /\ writing.step = "record"
  /\ disk' = With(disk, writing.record)
  /\ damaged' = IF lost = Blank THEN damaged ELSE damaged \cup {"records"}
  /\ headless' = TRUE
  /\ writing' = Appending(writing.record, "head")
  /\ UNCHANGED <<opened, known, lost, task, calls>>

TaskAfter(record) == IF record.account = "reserved" THEN "granted" ELSE "over"

\* The head file, for which the heads before it are listed; then memory.
WriteHead ==
  /\ writing.step = "head"
  /\ "heads" \notin damaged \/ known = Blank
  /\ headless' = (lost # Blank)
  /\ known' = With(known, writing.record)
  /\ task' = [s \in Slots |->
                IF s = writing.record.slot THEN TaskAfter(writing.record)
                ELSE task[s]]
  /\ writing' = Idle
  /\ UNCHANGED <<disk, damaged, opened, lost, calls>>

\* The directory whose temporary file is being written.
Directory == IF writing.step = "record" THEN "records" ELSE "heads"

\* An OSError in the append, or heads that cannot be listed: the process lives
\* on, the slot's task does not, and a record that was renamed stays.  The
\* rename of the head may have happened too.
WriteFails ==
  /\ writing # Idle
  /\ \E litter \in SUBSET {Directory} : damaged' = damaged \cup litter
  /\ lost' = IF writing.step = "head" THEN With(lost, writing.record) ELSE lost
  /\ headless' \in IF writing.step = "head" THEN BOOLEAN ELSE {headless}
  /\ task' = [s \in Slots |-> IF s = writing.record.slot THEN "over" ELSE task[s]]
  /\ writing' = Idle
  /\ UNCHANGED <<disk, opened, known, calls>>

\* The process ends, in the middle of an append or not.
Exit ==
  /\ opened # NoStage
  /\ \E litter \in SUBSET {Directory} :
       damaged' = IF writing = Idle THEN damaged ELSE damaged \cup litter
  /\ opened' = NoStage
  /\ known' = Blank /\ lost' = Blank /\ writing' = Idle
  /\ task' = [s \in Slots |-> "fresh"]
  /\ UNCHANGED <<disk, headless, calls>>

-------------------------------------------------------------------------------
(* The client: FakeBroker.dispatch between reserve and settle. *)

\* transport.exchange, right after the reservation.
Exchange(s) ==
  /\ opened # NoStage /\ writing = Idle
  /\ task[s] = "granted"
  /\ calls' = [calls EXCEPT ![s] = @ + 1]
  /\ task' = [task EXCEPT ![s] = "called"]
  /\ UNCHANGED <<disk, headless, damaged, memoryVars>>

\* The task ends without a settlement: it was cancelled, or the answer has no
\* valid usage and the reservation is retained.
Abandon(s) ==
  /\ opened # NoStage /\ writing = Idle
  /\ task[s] \in {"granted", "called"}
  /\ task' = [task EXCEPT ![s] = "over"]
  /\ UNCHANGED <<disk, headless, damaged, memoryVars, calls>>

LedgerNext ==
  \/ \E stage \in Stages : Open(stage)
  \/ OpenTorn \/ Reread
  \/ \E s \in Slots :
       \/ Reserve(s) \/ Skip(s) \/ Exchange(s) \/ Abandon(s)
       \/ \E cost \in Costs : Settle(s, cost)
  \/ \E verdict \in Verdicts : Terminate(verdict)
  \/ WriteRecord \/ WriteHead \/ WriteFails \/ Exit

LedgerSpec == LedgerInit /\ [][LedgerNext]_ledgerVars

-------------------------------------------------------------------------------
(* Properties. *)

\* The shape of the ledger's files, of its object and of the tasks of a process
\* (GlobalLedger, FakeBroker.dispatch).
RootlessTypeOK ==
  /\ disk \in Contents /\ known \in Contents /\ lost \in Contents
  /\ headless \in BOOLEAN /\ damaged \subseteq {"records", "heads"}
  /\ opened \in Stages \cup {NoStage}
  /\ writing = Idle \/ \E record \in Records : \E step \in {"record", "head"} :
                         writing = Appending(record, step)
  /\ task \in [Slots -> {"fresh", "granted", "called", "over"}]
  /\ calls \in [Slots -> Nat]

Called == {s \in Slots : calls[s] > 0}
SettledOnDisk == {s \in Slots : disk.account[s] = "settled"}

Budget ==
  INSTANCE EgressBudget WITH
    called <- Called, closed <- Called \cap SettledOnDisk, paid <- disk.spent

\* The ledger keeps what a budget promises: of no process, however often one dies
\* and is started again, does a slot get a second call, or a call one that the
\* caps do not cover with all those before it (GlobalLedger.reserve).
ImplementsBudget == Budget!BudgetSpec
===============================================================================
