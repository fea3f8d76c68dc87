-------------------------- MODULE RootlessAttemptProofs --------------------------
(***************************************************************************)
(* What the state of an attempt keeps from its first command to its        *)
(* report, and with it: that the report is true of the ledger, and that a  *)
(* sealed attempt can be published.                                        *)
(*                                                                         *)
(* The inductive invariant AttemptIInv has one part for each thing the     *)
(* files promise each other: LockIInv, who may be past runtime.lock;       *)
(* EvidenceIInv, terminals and the ledger's records; FreezeIInv, BCT after *)
(* an estimable screening; ClockIInv and TimeIInv, the checkpoints;        *)
(* FinalIInv and InventoryIInv, final.json and what the inventory lists;   *)
(* PublicationIInv, SkipIInv and ReportIInv, the outcome and its report.   *)
(* Each part has one lemma that the steps keep it, from the parts it needs.*)
(***************************************************************************)
EXTENDS RootlessAttempt, SequenceTheorems, TLAPS

-------------------------------------------------------------------------------
(* The shape of the state.                                                     *)

Places == {"none", "launched", "locked", "claimed", "running", "broken", "closing",
           "sealing", "final", "inventory"}
DocNames == {"final", "inventory", "skip", "publication", "t7"}

\* The documents a command still has to write.
Commands ==
  {<<"skip", "t7">>, <<"t7">>, <<"publication">>, <<"final", "inventory">>, <<"inventory">>,
   <<"final", "inventory", "publication", "t7">>, <<"inventory", "publication", "t7">>,
   <<"publication", "t7">>}

Checkpoints == [stage : Stages \cup {Nothing}, boot : Nat, at : Nat]

FilesTypeOK ==
  /\ {frozen, marked, strayed} \subseteq BOOLEAN
  /\ claim \in Nat \cup {Nothing}
  /\ clocks \in Seq(Checkpoints)
  /\ calls \in [Stages -> Nat]
  /\ closed \in [Stages -> Terminals \cup {Nothing}]
  /\ terminal \in [Stages -> Terminals \cup {Nothing}]
  /\ doubled \subseteq Stages /\ DOMAIN docs = DocNames
  /\ {boot, now, steps} \subseteq Nat

ProcessTypeOK ==
  process \in [Processes -> [at : Places, stage : Stages, started : BOOLEAN,
                             verdict : TerminalStatus \cup {Nothing}, orphan : BOOLEAN]]

ScriptTypeOK ==
  /\ script \in [at : {"down", "idle", "waiting", "writing"}, todo : Commands \cup {<<>>},
                 stage : Stages, after : {"down", "idle"}]
  /\ script.at = "writing" <=> script.todo # <<>>
  /\ script.todo = <<"skip", "t7">> => script.after = "down"
  /\ script.after = "idle" => script.at = "writing"

\* What follows the first document of a command.
LEMMA CommandTails ==
  ASSUME NEW todo \in Commands
  PROVE  /\ Head(todo) \in DocNames /\ Tail(todo) \in Commands \cup {<<>>} /\ todo # <<>>
         /\ Tail(todo) # <<"skip", "t7">>
         /\ Head(todo) = "skip" => todo = <<"skip", "t7">> /\ Tail(todo) = <<"t7">>
         /\ Tail(todo) # <<>> => Head(Tail(todo)) # "final"
         /\ Tail(todo) # <<>> /\ Head(Tail(todo)) = "inventory" => Head(todo) = "final"
<1>1. CASE todo = <<"skip", "t7">>
  <2>1. Tail(todo) = <<"t7">>
    BY <1>1
  <2> QED BY <1>1, <2>1 DEF Commands, DocNames
<1>2. CASE todo = <<"final", "inventory">>
  <2>1. Tail(todo) = <<"inventory">>
    BY <1>2
  <2> QED BY <1>2, <2>1 DEF Commands, DocNames
<1>3. CASE todo = <<"final", "inventory", "publication", "t7">>
  <2>1. Tail(todo) = <<"inventory", "publication", "t7">>
    BY <1>3
  <2> QED BY <1>3, <2>1 DEF Commands, DocNames
<1>4. CASE todo = <<"inventory", "publication", "t7">>
  <2>1. Tail(todo) = <<"publication", "t7">>
    BY <1>4
  <2> QED BY <1>4, <2>1 DEF Commands, DocNames
<1>5. CASE todo = <<"publication", "t7">>
  <2>1. Tail(todo) = <<"t7">>
    BY <1>5
  <2> QED BY <1>5, <2>1 DEF Commands, DocNames
<1>6. ASSUME NEW d \in {"t7", "publication", "inventory"}, todo = <<d>>
      PROVE  /\ Head(todo) = d /\ Tail(todo) = <<>>
  BY <1>6
<1>7. CASE todo \in {<<"t7">>, <<"publication">>, <<"inventory">>}
  BY <1>6, <1>7 DEF DocNames
<1> QED BY <1>1, <1>2, <1>3, <1>4, <1>5, <1>7 DEF Commands

\* How a step leaves a process: as it was, gone, orphaned, or at its next place.
LEMMA ProcessSteps ==
  ASSUME ProcessTypeOK, FilesTypeOK, [AttemptNext]_attemptVars
  PROVE  ProcessTypeOK'
<1>1. NoProcess \in [at : Places, stage : Stages, started : BOOLEAN,
                     verdict : TerminalStatus \cup {Nothing}, orphan : BOOLEAN]
  BY DEF NoProcess, Places, Stages
<1>2. ASSUME NEW p \in Processes, ProcessStep(p)
      PROVE  ProcessTypeOK'
  <2>1. CASE TakeLock(p) \/ WriteClaim(p) \/ WriteFirstCheckpoint(p) \/ FindClaim(p)
    BY <1>1, <2>1 DEF TakeLock, WriteClaim, WriteFirstCheckpoint, FindClaim, Moves, Leaves,
       ProcessTypeOK, Places
  <2>2. CASE StartStageClock(p)
    <3>1. Moves(p, "broken") \/ process' = [process EXCEPT ![p].started = TRUE]
      BY <2>2 DEF StartStageClock
    <3> QED BY <3>1 DEF Moves, ProcessTypeOK, Places
  <2>3. CASE EndStage(p)
    BY <1>1, <2>3 DEF EndStage, Leaves, Verdicts, TerminalStatus, ProcessTypeOK, Places
  <2>4. CASE MakeCall(p) \/ CloseLedger(p) \/ SealStage(p) \/ SealFinal(p) \/ SealInventory(p)
    BY <1>1, <2>4 DEF MakeCall, CloseLedger, SealStage, SealFinal, SealInventory, Moves, Leaves,
       ProcessTypeOK, Places
  <2> QED BY <1>2, <2>1, <2>2, <2>3, <2>4 DEF ProcessStep
<1>3. ASSUME NEW p \in Processes, NEW s \in Stages, Launch(p, s)
      PROVE  ProcessTypeOK'
  BY <1>1, <1>3 DEF Launch, NoProcess, ProcessTypeOK, Places
<1>4. CASE ScriptStep /\ ~ \E p \in Processes, s \in Stages : Launch(p, s)
  <2>1. UNCHANGED process
    BY <1>4 DEF ScriptStep, ReconcileOutcome, ReconcileRest, Prepare, FinalizePreclaim, Return,
       Freeze, ContinueAfterScreening, FinalizeAfterStageExit, PublishReceipt, RecordT7,
       WriteDocument, ScriptStops
  <2> QED BY <2>1 DEF ProcessTypeOK
<1>5. CASE WorldStep
  <2>1. CASE \E p \in Processes : ProcessDies(p)
    BY <1>1, <2>1 DEF ProcessDies, ProcessTypeOK
  <2>2. CASE ScriptDies
    <3>1. process' = [p \in Processes |->
            IF process[p].at = "none" THEN process[p] ELSE [process[p] EXCEPT !.orphan = TRUE]]
      BY <2>2 DEF ScriptDies
    <3> QED BY <3>1 DEF ProcessTypeOK
  <2>3. CASE Reboot
    BY <1>1, <2>3 DEF Reboot, ProcessTypeOK
  <2>4. CASE TimePasses \/ ClockSetBack
    BY <2>4 DEF TimePasses, ClockSetBack, ProcessTypeOK
  <2> QED BY <1>5, <2>1, <2>2, <2>3, <2>4 DEF WorldStep
<1>6. CASE UNCHANGED attemptVars
  BY <1>6 DEF attemptVars, ProcessTypeOK
<1> QED BY <1>2, <1>3, <1>4, <1>5, <1>6 DEF AttemptNext, ScriptStep

LEMMA ScriptSteps ==
  ASSUME ScriptTypeOK, [AttemptNext]_attemptVars
  PROVE  ScriptTypeOK'
<1>1. CASE script' = NoScript \/ script' = [NoScript EXCEPT !.at = "idle"]
  BY <1>1 DEF NoScript, ScriptTypeOK, Stages
<1>2. CASE UNCHANGED script
  BY <1>2 DEF ScriptTypeOK
<1>3. ASSUME NEW todo \in Commands, NEW stage \in Stages, NEW after \in {"down", "idle"},
             todo = <<"skip", "t7">> => after = "down", Does(todo, stage, after)
      PROVE  ScriptTypeOK'
  BY <1>3, CommandTails DEF Does, ScriptTypeOK
<1>4. CASE ReconcileOutcome \/ ReconcileRest \/ FinalizePreclaim
  BY <1>1, <1>2, <1>3, <1>4 DEF ReconcileOutcome, ReconcileRest, FinalizePreclaim, Stages, Commands
<1>5. CASE ContinueAfterScreening \/ (\E s \in Stages : FinalizeAfterStageExit(s))
           \/ PublishReceipt \/ RecordT7
  BY <1>3, <1>5 DEF ContinueAfterScreening, FinalizeAfterStageExit, PublishReceipt, RecordT7,
     Stages, Commands
<1>6. CASE (\E p \in Processes, s \in Stages : Launch(p, s)) \/ Return
  BY <1>6 DEF Launch, Return, ScriptTypeOK
<1>7. CASE WriteDocument
  <2>1. script.todo \in Commands
    BY <1>7 DEF WriteDocument, ScriptTypeOK
  <2>2. \/ Tail(script.todo) # <<>> /\ script' = [script EXCEPT !.todo = Tail(script.todo)]
        \/ script' = [NoScript EXCEPT !.at = script.after]
    BY <1>7 DEF WriteDocument
  <2>3. CASE Tail(script.todo) # <<>> /\ script' = [script EXCEPT !.todo = Tail(script.todo)]
    BY <1>7, <2>1, <2>3, CommandTails DEF WriteDocument, ScriptTypeOK
  <2>4. CASE script' = [NoScript EXCEPT !.at = script.after]
    BY <2>4 DEF ScriptTypeOK, NoScript, Stages
  <2> QED BY <2>2, <2>3, <2>4
<1>8. CASE Prepare \/ Freeze \/ ScriptStops
  BY <1>1, <1>2, <1>8 DEF Prepare, Freeze, ScriptStops
<1>9. ASSUME NEW p \in Processes, ProcessStep(p)
      PROVE  UNCHANGED script
  BY <1>9 DEF ProcessStep, TakeLock, WriteClaim, WriteFirstCheckpoint, FindClaim,
     StartStageClock, MakeCall, EndStage, CloseLedger, SealStage, SealFinal, SealInventory
<1>10. CASE WorldStep
  BY <1>1, <1>2, <1>10 DEF WorldStep, ProcessDies, ScriptDies, Reboot, TimePasses, ClockSetBack
<1>11. CASE UNCHANGED attemptVars
  BY <1>2, <1>11 DEF attemptVars
<1> QED BY <1>2, <1>4, <1>5, <1>6, <1>7, <1>8, <1>9, <1>10, <1>11 DEF AttemptNext, ScriptStep

-------------------------------------------------------------------------------
(* What the steps change.                                                      *)

TypesOK == FilesTypeOK /\ ProcessTypeOK /\ ScriptTypeOK

\* A process holds the lock from its place "locked" on.
Inside(p) == process[p].at \notin {"none", "launched"}

\* The steps of a process, as far as it is concerned itself.
LEMMA ProcessEffect ==
  ASSUME TypesOK, NEW p \in Processes, ProcessStep(p)
  PROVE  /\ UNCHANGED <<script, marked, frozen, worldVars>>
         /\ \A q \in Processes : q # p => process'[q] = process[q]
         /\ process[p].at # "none"
         /\ \/ /\ process'[p].at \notin {"none", "launched"}
               /\ process'[p].stage = process[p].stage /\ process'[p].orphan = process[p].orphan
               /\ IF process[p].at = "launched"
                  THEN lock = Free /\ lock' = p ELSE lock' = lock
            \/ /\ process'[p] = NoProcess
               /\ IF process[p].at = "launched" THEN lock' = lock ELSE lock' = Free
<1> USE DEF TypesOK, ProcessTypeOK
<1>1. CASE TakeLock(p) \/ WriteClaim(p) \/ WriteFirstCheckpoint(p) \/ FindClaim(p)
  BY <1>1 DEF TakeLock, WriteClaim, WriteFirstCheckpoint, FindClaim, Moves, Leaves, stateVars,
     worldVars
<1>2. CASE StartStageClock(p)
  <2>1. /\ Moves(p, "broken") \/ process' = [process EXCEPT ![p].started = TRUE]
        /\ process[p].at = "running" /\ UNCHANGED <<lock, script, marked, frozen, worldVars>>
    BY <1>2 DEF StartStageClock
  <2> QED BY <2>1 DEF Moves
<1>3. CASE MakeCall(p) \/ EndStage(p)
  BY <1>3 DEF MakeCall, EndStage, Leaves, stateVars, worldVars
<1>4. CASE CloseLedger(p)
  BY <1>4 DEF CloseLedger, Leaves, Moves, worldVars
<1>5. CASE SealStage(p)
  BY <1>5 DEF SealStage, Leaves, Moves, worldVars
<1>6. CASE SealFinal(p) \/ SealInventory(p)
  BY <1>6 DEF SealFinal, SealInventory, Leaves, Moves, stateVars, worldVars
<1> QED BY <1>1, <1>2, <1>3, <1>4, <1>5, <1>6 DEF ProcessStep

\* The script's steps leave the evidence to the processes.
LEMMA ScriptEffect ==
  ASSUME TypesOK, ScriptStep
  PROVE  /\ UNCHANGED <<claim, clocks, calls, closed, terminal, torn, doubled, worldVars, strayed>>
         /\ WriteDocument \/ UNCHANGED docs
         /\ Freeze \/ UNCHANGED frozen
         /\ UNCHANGED process \/ \E p \in Processes, s \in Stages : Launch(p, s)
<1>1. CASE ReconcileOutcome \/ ReconcileRest \/ FinalizePreclaim \/ Return \/ PublishReceipt
           \/ RecordT7 \/ ContinueAfterScreening \/ (\E s \in Stages : FinalizeAfterStageExit(s))
           \/ ScriptStops
  BY <1>1 DEF ReconcileOutcome, ReconcileRest, FinalizePreclaim, Return, PublishReceipt, RecordT7,
     ContinueAfterScreening, FinalizeAfterStageExit, ScriptStops, stateVars, docVars
<1>2. CASE Prepare \/ Freeze \/ (\E p \in Processes, s \in Stages : Launch(p, s))
  BY <1>2 DEF Prepare, Freeze, Launch, stateVars, docVars
<1>3. CASE WriteDocument
  BY <1>3 DEF WriteDocument, Written, stateVars, docVars
<1> QED BY <1>1, <1>2, <1>3 DEF ScriptStep

\* A death may end a process, orphan it, or leave a terminal with two names.
LEMMA WorldEffect ==
  ASSUME TypesOK, WorldStep
  PROVE  /\ UNCHANGED <<fixedVars, docs, strayed>>
         /\ UNCHANGED script \/ script' = NoScript
         /\ \A p \in Processes :
              process'[p] \in {process[p], NoProcess, [process[p] EXCEPT !.orphan = TRUE]}
         /\ \/ UNCHANGED <<terminal, doubled>>
            \/ \E p \in Processes :
                 process[p].at = "sealing" /\ DoubleTerminal(process[p].stage)
<1>1. ASSUME NEW p \in Processes, TearsOf(p)
      PROVE  /\ UNCHANGED docs
             /\ \/ UNCHANGED <<terminal, doubled>>
                \/ process[p].at = "sealing" /\ DoubleTerminal(process[p].stage)
  BY <1>1 DEF TearsOf, MayTear, DoubleTerminal, TearsNothing, docVars
<1>2. ScriptTears => UNCHANGED <<docs, terminal, doubled>>
  BY DEF ScriptTears, MayTear, TearsNothing, docVars
<1>3. ASSUME NEW p \in Processes, ProcessDies(p)
      PROVE  /\ UNCHANGED <<fixedVars, script, strayed>> /\ TearsOf(p)
             /\ process' = [process EXCEPT ![p] = NoProcess]
  BY <1>3 DEF ProcessDies
<1>4. CASE \E p \in Processes : ProcessDies(p)
  BY <1>1, <1>3, <1>4 DEF TypesOK, ProcessTypeOK
<1>5. CASE ScriptDies
  BY <1>2, <1>5 DEF ScriptDies
<1>6. CASE Reboot
  BY <1>1, <1>2, <1>6 DEF Reboot
<1>7. CASE TimePasses \/ ClockSetBack
  BY <1>7 DEF TimePasses, ClockSetBack, stateVars, docVars, fixedVars
<1> QED BY <1>4, <1>5, <1>6, <1>7 DEF WorldStep

\* A document that is written is new, or the same again.
LEMMA DocSteps ==
  ASSUME TypesOK, [AttemptNext]_attemptVars
  PROVE  \/ UNCHANGED docs
         \/ \E d \in DocNames : \E value :
              /\ docs[d] \in {Nothing, value} /\ docs' = [docs EXCEPT ![d] = value]
              /\ \/ \E p \in Processes : /\ SealFinal(p) /\ d = "final"
                                         /\ value = FinalOf(process[p].stage)
                 \/ \E p \in Processes : /\ SealInventory(p) /\ d = "inventory"
                                         /\ value = Files /\ CanInventory
                 \/ /\ WriteDocument /\ script.todo # <<>> /\ d = Head(script.todo)
                    /\ value = Says(d) /\ Demands(d)
<1>1. ASSUME NEW p \in Processes, ProcessStep(p), ~ SealFinal(p), ~ SealInventory(p)
      PROVE  UNCHANGED docs
  BY <1>1 DEF ProcessStep, TakeLock, WriteClaim, WriteFirstCheckpoint, FindClaim,
     StartStageClock, MakeCall, EndStage, CloseLedger, SealStage, docVars
<1>2. ASSUME NEW p \in Processes, SealFinal(p)
      PROVE  UNCHANGED docs \/ /\ docs["final"] \in {Nothing, FinalOf(process[p].stage)}
                               /\ docs' = [docs EXCEPT !["final"] = FinalOf(process[p].stage)]
  BY <1>2 DEF SealFinal, Written, Writable, docVars
<1>3. ASSUME NEW p \in Processes, SealInventory(p)
      PROVE  UNCHANGED docs \/ /\ docs["inventory"] \in {Nothing, Files} /\ CanInventory
                               /\ docs' = [docs EXCEPT !["inventory"] = Files]
  BY <1>3 DEF SealInventory, Written, Writable, docVars
<1>4. ASSUME WriteDocument
      PROVE  /\ script.todo # <<>> /\ Head(script.todo) \in DocNames
             /\ \/ UNCHANGED docs
                \/ LET d == Head(script.todo) IN
                   /\ Demands(d) /\ docs[d] \in {Nothing, Says(d)}
                   /\ docs' = [docs EXCEPT ![d] = Says(d)]
  <2>1. script.todo \in Commands
    BY <1>4 DEF WriteDocument, TypesOK, ScriptTypeOK
  <2> QED BY <1>4, <2>1, CommandTails DEF WriteDocument, Written, Writable, docVars
<1>5. CASE UNCHANGED attemptVars
  BY <1>5 DEF attemptVars, docVars
<1>6. "final" \in DocNames /\ "inventory" \in DocNames
  BY DEF DocNames
<1> QED BY <1>1, <1>2, <1>3, <1>4, <1>5, <1>6, ScriptEffect, WorldEffect DEF AttemptNext

-------------------------------------------------------------------------------
(* The lock, and what every step keeps.                                        *)

\* Who is past the lock holds it; a process whose script lives is waited for.
LockIInv ==
  /\ lock \in Processes \cup {Script, Free}
  /\ \A p \in Processes : Inside(p) <=> lock = p
  /\ lock = Script => script.at = "writing"
  /\ \A p \in Processes : process[p].at # "none" /\ ~ process[p].orphan => script.at = "waiting"
  /\ \A p \in Processes : process[p].at = "none" => process[p] = NoProcess

LEMMA LockSteps ==
  ASSUME TypesOK, LockIInv, [AttemptNext]_attemptVars
  PROVE  LockIInv'
<1> USE AttemptAssumption DEF AttemptAssumption
<1>1. NoProcess.at = "none"
  BY DEF NoProcess
<1>2. ASSUME NEW p \in Processes, ProcessStep(p)
      PROVE  LockIInv'
  <2>1. \A q \in Processes : q # p => (Inside(q)' <=> Inside(q))
    BY <1>2, ProcessEffect DEF Inside
  <2>2. /\ lock' \in Processes \cup {Script, Free}
        /\ \A q \in Processes : Inside(q)' <=> lock' = q
        /\ lock' = Script => lock = Script
    BY <1>1, <1>2, <2>1, ProcessEffect DEF LockIInv, Inside
  <2>3. /\ \A q \in Processes : process'[q].at # "none" /\ ~ process'[q].orphan =>
             script'.at = "waiting"
        /\ \A q \in Processes : process'[q].at = "none" => process'[q] = NoProcess
    BY <1>1, <1>2, ProcessEffect DEF LockIInv
  <2> QED BY <1>2, <2>2, <2>3, ProcessEffect DEF LockIInv
<1>3. CASE WorldStep
  <2>1. \A p \in Processes : process[p].orphan => [process[p] EXCEPT !.orphan = TRUE] = process[p]
    BY DEF TypesOK, ProcessTypeOK
  <2>2. ASSUME NEW p \in Processes, ProcessDies(p)
        PROVE  LockIInv'
    BY <1>1, <2>2 DEF ProcessDies, LockIInv, Inside, TypesOK, ProcessTypeOK
  <2>3. CASE ScriptDies
    <3>1. /\ script' = NoScript /\ lock' = IF HoldsLock THEN Free ELSE lock
          /\ \A p \in Processes :
               process'[p] = IF process[p].at = "none" THEN process[p]
                             ELSE [process[p] EXCEPT !.orphan = TRUE]
      BY <2>3 DEF ScriptDies
    <3>2. \A p \in Processes : /\ process'[p].at = process[p].at
                               /\ process[p].at # "none" => process'[p].orphan
                               /\ process[p].at = "none" => process'[p] = process[p]
      BY <3>1 DEF TypesOK, ProcessTypeOK
    <3> QED BY <3>1, <3>2 DEF LockIInv, Inside, HoldsLock, NoScript
  <2>4. CASE Reboot
    <3>1. /\ lock' = Free /\ \A p \in Processes : process'[p] = NoProcess
      BY <2>4 DEF Reboot
    <3> QED BY <1>1, <3>1 DEF LockIInv, Inside
  <2>5. CASE TimePasses \/ ClockSetBack
    BY <2>5 DEF TimePasses, ClockSetBack, LockIInv, Inside
  <2> QED BY <1>3, <2>2, <2>3, <2>4, <2>5 DEF WorldStep
<1>4. ASSUME NEW p \in Processes, NEW s \in Stages, Launch(p, s)
      PROVE  LockIInv'
  <2>1. /\ process' = [process EXCEPT ![p] = [NoProcess EXCEPT !.at = "launched", !.stage = s]]
        /\ process[p].at = "none" /\ UNCHANGED lock /\ script.at = "idle"
        /\ script'.at = "waiting"
    BY <1>4 DEF Launch, TypesOK, ScriptTypeOK
  <2>2. /\ process'[p].at = "launched" /\ \A q \in Processes : q # p => process'[q] = process[q]
    BY <2>1 DEF TypesOK, ProcessTypeOK, NoProcess
  <2> QED BY <2>1, <2>2 DEF LockIInv, Inside
<1>5. ASSUME ScriptStep, UNCHANGED process
      PROVE  LockIInv'
  <2>1. script.at = "waiting" => \/ script'.at = "waiting"
                                 \/ \A p \in Processes : process[p].at = "none" \/ process[p].orphan
    BY <1>5 DEF ScriptStep, ReconcileOutcome, ReconcileRest, Prepare, FinalizePreclaim, Launch,
       Return, Mine, Freeze, ContinueAfterScreening, FinalizeAfterStageExit, PublishReceipt,
       RecordT7, WriteDocument, ScriptStops
  <2>2. \/ lock' = lock /\ (lock = Script => script' = script \/ script'.at = "writing")
        \/ lock' = Free /\ lock = Script
        \/ lock = Free /\ lock' = Script /\ script'.at = "writing"
    <3>1. CASE WriteDocument
      <4>1. script.todo # <<>> /\ script.at = "writing"
        BY <3>1 DEF WriteDocument, TypesOK, ScriptTypeOK
      <4> QED BY <3>1, <4>1 DEF WriteDocument, HoldsLock, TypesOK, ScriptTypeOK
    <3>2. CASE ReconcileOutcome \/ ReconcileRest \/ FinalizePreclaim \/ PublishReceipt \/ RecordT7
               \/ ContinueAfterScreening \/ (\E s \in Stages : FinalizeAfterStageExit(s))
      BY <3>2 DEF ReconcileOutcome, ReconcileRest, FinalizePreclaim, PublishReceipt, RecordT7,
         ContinueAfterScreening, FinalizeAfterStageExit, Does, LockIInv
    <3>3. CASE Prepare \/ Return \/ Freeze \/ ScriptStops
               \/ (\E p \in Processes, s \in Stages : Launch(p, s))
      BY <3>3 DEF Prepare, Return, Freeze, ScriptStops, Launch, LockIInv
    <3> QED BY <1>5, <3>1, <3>2, <3>3 DEF ScriptStep
  <2> QED BY <1>5, <2>1, <2>2 DEF LockIInv, Inside
<1>6. CASE UNCHANGED attemptVars
  BY <1>6 DEF attemptVars, LockIInv, Inside
<1> QED BY <1>2, <1>3, <1>4, <1>5, <1>6, ScriptEffect DEF AttemptNext

-------------------------------------------------------------------------------
(* The evidence of a stage.                                                    *)

VerdictsOf(stage) ==
  {"blocked", "interrupted"} \cup
  IF stage = "bct" THEN {"review_required"} ELSE {"completed_estimable", "not_estimable"}

\* The terminal is what the ledger closed the stage with, after its last call; an
\* estimable screening made one.
ClosedAreTrue ==
  /\ \A s \in Stages : terminal[s] # Nothing => terminal[s] = closed[s]
  /\ \A s \in Stages : closed[s] # Nothing =>
       /\ closed[s].verdict \in VerdictsOf(s) /\ closed[s].issued = calls[s]
       /\ closed[s].verdict = "completed_estimable" => calls[s] > 0

\* The verdict of a process that closes.
CloserIsTrue(p) ==
  /\ process[p].at \in {"closing", "sealing", "final", "inventory"} =>
       /\ process[p].verdict \in VerdictsOf(process[p].stage)
       /\ process[p].verdict = "completed_estimable" => calls[process[p].stage] > 0
  /\ process[p].at \in {"sealing", "final", "inventory"} =>
       /\ closed[process[p].stage] # Nothing
       /\ closed[process[p].stage].verdict = process[p].verdict

ClosersAreTrue == \A p \in Processes : CloserIsTrue(p)

EvidenceIInv == ClosedAreTrue /\ ClosersAreTrue

\* Nothing that was written is written over.
Keeps ==
  /\ frozen => frozen'
  /\ strayed => strayed'
  /\ claim # Nothing => claim' = claim
  /\ \A s \in Stages :
       /\ closed[s] # Nothing => closed'[s] = closed[s] /\ calls'[s] = calls[s]
       /\ terminal[s] # Nothing => terminal'[s] = terminal[s]
       /\ calls[s] > 0 => calls'[s] > 0
  /\ \A d \in DocNames : docs[d] # Nothing => docs'[d] = docs[d]

LEMMA StepsKeep ==
  ASSUME TypesOK, ClosedAreTrue, [AttemptNext]_attemptVars
  PROVE  Keeps
<1>1. \A d \in DocNames : docs[d] # Nothing => docs'[d] = docs[d]
  BY DocSteps DEF TypesOK, FilesTypeOK
<1>0. ScriptStep => (frozen => frozen') /\ UNCHANGED <<claim, calls, closed, terminal, strayed>>
  BY ScriptEffect DEF Freeze
<1> USE DEF TypesOK, FilesTypeOK
<1>2. ASSUME NEW p \in Processes, ProcessStep(p)
      PROVE  Keeps
  <2>1. CASE TakeLock(p) \/ FindClaim(p) \/ EndStage(p) \/ SealFinal(p) \/ SealInventory(p)
    BY <1>1, <2>1 DEF TakeLock, FindClaim, EndStage, SealFinal, SealInventory, Keeps, stateVars
  <2>2. CASE WriteClaim(p) \/ WriteFirstCheckpoint(p) \/ StartStageClock(p)
    BY <1>1, <2>2 DEF WriteClaim, WriteFirstCheckpoint, StartStageClock, Keeps
  <2>3. CASE MakeCall(p)
    BY <1>1, <2>3 DEF MakeCall, LedgerOpen, Keeps
  <2>4. CASE CloseLedger(p)
    BY <1>1, <2>4 DEF CloseLedger, Keeps
  <2>5. CASE SealStage(p)
    BY <1>1, <2>5 DEF SealStage, ClosedAreTrue, Keeps
  <2> QED BY <1>2, <2>1, <2>2, <2>3, <2>4, <2>5 DEF ProcessStep
<1>3. CASE ScriptStep
  BY <1>0, <1>1, <1>3 DEF Keeps
<1>4. CASE WorldStep
  BY <1>1, <1>4, WorldEffect DEF DoubleTerminal, fixedVars, Keeps
<1>5. CASE UNCHANGED attemptVars
  BY <1>1, <1>5 DEF attemptVars, stateVars, Keeps
<1> QED BY <1>2, <1>3, <1>4, <1>5 DEF AttemptNext

LEMMA ClosedSteps ==
  ASSUME TypesOK, EvidenceIInv, [AttemptNext]_attemptVars
  PROVE  ClosedAreTrue'
<1> USE DEF EvidenceIInv
<1>1. CASE UNCHANGED <<calls, closed, terminal>>
  BY <1>1 DEF ClosedAreTrue
<1>2. ASSUME NEW p \in Processes, ProcessStep(p)
      PROVE  ClosedAreTrue'
  <2>1. CASE \/ TakeLock(p) \/ WriteClaim(p) \/ WriteFirstCheckpoint(p) \/ FindClaim(p)
             \/ StartStageClock(p) \/ EndStage(p) \/ SealFinal(p) \/ SealInventory(p)
    BY <1>1, <2>1 DEF TakeLock, WriteClaim, WriteFirstCheckpoint, FindClaim, StartStageClock,
       EndStage, SealFinal, SealInventory, stateVars
  <2>2. CASE MakeCall(p)
    BY <2>2 DEF MakeCall, LedgerOpen, ClosedAreTrue, TypesOK, FilesTypeOK
  <2>3. CASE CloseLedger(p)
    <3>1. \/ UNCHANGED closed
          \/ /\ process[p].at = "closing" /\ closed[process[p].stage] = Nothing
             /\ closed' = [closed EXCEPT ![process[p].stage] =
                  [verdict |-> process[p].verdict, issued |-> calls[process[p].stage],
                   total |-> IssuedTotal]]
      BY <2>3 DEF CloseLedger
    <3>2. UNCHANGED <<calls, terminal>>
      BY <2>3 DEF CloseLedger
    <3>3. CASE process[p].at = "closing" /\ closed[process[p].stage] = Nothing
      <4> DEFINE stage == process[p].stage
      <4>1. stage \in Stages /\ process[p].verdict \in VerdictsOf(stage)
            /\ (process[p].verdict = "completed_estimable" => calls[stage] > 0)
        BY <3>3 DEF ClosersAreTrue, CloserIsTrue, TypesOK, ProcessTypeOK
      <4>2. \A s \in Stages : s # stage => closed'[s] = closed[s]
        BY <3>1 DEF TypesOK, FilesTypeOK
      <4>3. terminal[stage] = Nothing
        BY <3>3, <4>1 DEF ClosedAreTrue
      <4>4. closed'[stage] = closed[stage] \/ closed'[stage] =
                 [verdict |-> process[p].verdict, issued |-> calls[stage], total |-> IssuedTotal]
        BY <3>1, <4>1 DEF TypesOK, FilesTypeOK
      <4> QED BY <3>2, <3>3, <4>1, <4>2, <4>3, <4>4 DEF ClosedAreTrue
    <3> QED BY <1>1, <3>1, <3>2, <3>3
  <2>4. CASE SealStage(p)
    BY <2>4 DEF SealStage, ClosedAreTrue, TypesOK, FilesTypeOK, ProcessTypeOK
  <2> QED BY <1>2, <2>1, <2>2, <2>3, <2>4 DEF ProcessStep
<1>3. CASE ScriptStep
  BY <1>1, <1>3, ScriptEffect
<1>4. CASE WorldStep
  BY <1>4, WorldEffect DEF DoubleTerminal, fixedVars, ClosedAreTrue, TypesOK, FilesTypeOK
<1>5. CASE UNCHANGED attemptVars
  BY <1>1, <1>5 DEF attemptVars, stateVars
<1> QED BY <1>2, <1>3, <1>4, <1>5 DEF AttemptNext

LEMMA ClosersSteps ==
  ASSUME TypesOK, EvidenceIInv, [AttemptNext]_attemptVars
  PROVE  ClosersAreTrue'
<1> SUFFICES ASSUME NEW q \in Processes PROVE CloserIsTrue(q)'
  BY DEF ClosersAreTrue
<1>1. Keeps /\ CloserIsTrue(q)
  BY StepsKeep DEF EvidenceIInv, ClosersAreTrue
<1>2. NoProcess.at = "none"
  BY DEF NoProcess
<1>3. ASSUME process'[q].at = process[q].at, process'[q].stage = process[q].stage,
             process'[q].verdict = process[q].verdict
      PROVE  CloserIsTrue(q)'
  BY <1>1, <1>3 DEF Keeps, CloserIsTrue, TypesOK, ProcessTypeOK
<1>4. ASSUME process'[q].at \notin {"closing", "sealing", "final", "inventory"}
      PROVE  CloserIsTrue(q)'
  BY <1>4 DEF CloserIsTrue
<1>5. ASSUME ProcessStep(q)
      PROVE  CloserIsTrue(q)'
  <2> USE DEF TypesOK, ProcessTypeOK
  <2>1. CASE TakeLock(q) \/ WriteClaim(q) \/ WriteFirstCheckpoint(q) \/ FindClaim(q)
    BY <1>2, <1>4, <2>1 DEF TakeLock, WriteClaim, WriteFirstCheckpoint, FindClaim, Moves, Leaves
  <2>2. CASE StartStageClock(q)
    <3>1. /\ Moves(q, "broken") \/ process' = [process EXCEPT ![q].started = TRUE]
          /\ process[q].at = "running"
      BY <2>2 DEF StartStageClock
    <3> QED BY <1>4, <3>1 DEF Moves
  <2>3. CASE MakeCall(q)
    BY <1>3, <2>3 DEF MakeCall
  <2>4. CASE EndStage(q)
    <3>1. UNCHANGED calls
      BY <2>4 DEF EndStage, stateVars
    <3>2. CASE Leaves(q)
      BY <1>2, <1>4, <3>2 DEF Leaves
    <3>3. ASSUME NEW v \in Verdicts(process[q].stage),
                 process' = [process EXCEPT ![q].at = "closing", ![q].verdict = v]
          PROVE  CloserIsTrue(q)'
      <4>1. /\ process'[q].at = "closing" /\ process'[q].verdict = v
            /\ process'[q].stage = process[q].stage /\ process[q].stage \in Stages
        BY <3>3
      <4>2. v \in VerdictsOf(process[q].stage)
            /\ (v = "completed_estimable" => calls[process[q].stage] > 0)
        BY <4>1 DEF Verdicts, VerdictsOf, FilesTypeOK, Stages
      <4> QED BY <3>1, <4>1, <4>2 DEF CloserIsTrue
    <3> QED BY <2>4, <3>2, <3>3 DEF EndStage
  <2>5. CASE CloseLedger(q)
    <3> DEFINE stage == process[q].stage
    <3>1. /\ process[q].at = "closing" /\ UNCHANGED calls
          /\ \/ /\ closed' = [closed EXCEPT ![stage] =
                    [verdict |-> process[q].verdict, issued |-> calls[stage],
                     total |-> IssuedTotal]]
                /\ Moves(q, "sealing")
             \/ /\ closed[stage] # Nothing /\ closed[stage].verdict = process[q].verdict
                /\ Moves(q, "sealing") /\ UNCHANGED closed
             \/ Leaves(q)
      BY <2>5 DEF CloseLedger, KeepsVerdict
    <3>2. CASE Leaves(q)
      BY <1>2, <1>4, <3>2 DEF Leaves
    <3>3. CASE Moves(q, "sealing")
      <4>1. /\ process'[q].at = "sealing" /\ process'[q].verdict = process[q].verdict
            /\ process'[q].stage = stage /\ stage \in Stages
        BY <3>3 DEF Moves
      <4>2. /\ process[q].verdict \in VerdictsOf(stage)
            /\ process[q].verdict = "completed_estimable" => calls[stage] > 0
        BY <1>1, <3>1 DEF CloserIsTrue
      <4>3. [verdict |-> process[q].verdict, issued |-> calls[stage],
             total |-> IssuedTotal] \in Terminals
        BY <4>1, <4>2 DEF VerdictsOf, Terminals, TerminalStatus, FilesTypeOK, IssuedTotal, Stages
      <4>4. closed'[stage] # Nothing /\ closed'[stage].verdict = process[q].verdict
        BY <3>1, <3>3, <4>1, <4>3, <1>2, AttemptAssumption
           DEF Moves, Leaves, FilesTypeOK, AttemptAssumption
      <4> QED BY <3>1, <4>1, <4>2, <4>4 DEF CloserIsTrue
    <3> QED BY <3>1, <3>2, <3>3
  <2>6. CASE SealStage(q) \/ SealFinal(q) \/ SealInventory(q)
    <3>1. /\ process[q].at \in {"sealing", "final", "inventory"} /\ UNCHANGED <<closed, calls>>
          /\ Leaves(q) \/ Moves(q, "final") \/ Moves(q, "inventory")
      BY <2>6 DEF SealStage, SealFinal, SealInventory, stateVars
    <3>2. CASE Leaves(q)
      BY <1>2, <1>4, <3>2 DEF Leaves
    <3>3. CASE Moves(q, "final") \/ Moves(q, "inventory")
      BY <1>1, <3>1, <3>3 DEF Moves, CloserIsTrue
    <3> QED BY <3>1, <3>2, <3>3
  <2> QED BY <1>5, <2>1, <2>2, <2>3, <2>4, <2>5, <2>6 DEF ProcessStep
<1>6. ASSUME NEW p \in Processes, p # q, ProcessStep(p)
      PROVE  CloserIsTrue(q)'
  BY <1>3, <1>6, ProcessEffect
<1>7. CASE ScriptStep
  <2>1. UNCHANGED process \/ \E p \in Processes, s \in Stages : Launch(p, s)
    BY <1>7, ScriptEffect
  <2>2. process'[q] = process[q] \/ process'[q].at = "launched"
    BY <2>1 DEF Launch, TypesOK, ProcessTypeOK, NoProcess
  <2> QED BY <1>3, <1>4, <2>2
<1>8. CASE WorldStep
  <2>1. process'[q] \in {process[q], NoProcess, [process[q] EXCEPT !.orphan = TRUE]}
    BY <1>8, WorldEffect
  <2> QED BY <1>2, <1>3, <1>4, <2>1 DEF TypesOK, ProcessTypeOK
<1>9. CASE UNCHANGED attemptVars
  BY <1>3, <1>9 DEF attemptVars
<1> QED BY <1>5, <1>6, <1>7, <1>8, <1>9 DEF AttemptNext

-------------------------------------------------------------------------------
(* The claim and the chain of clock checkpoints.                               *)

\* The claim's checkpoint, then screening's, then that of BCT, of one boot; a stage
\* with a call has its checkpoint.
ChainIsTrue ==
  /\ Len(clocks) <= 3
  /\ clocks # <<>> => claim # Nothing /\ clocks[1].stage = Nothing /\ clocks[1].at = claim
  /\ Len(clocks) >= 2 => clocks[2].stage = "screening"
  /\ Len(clocks) = 3 => clocks[3].stage = "bct" /\ frozen
  /\ OneBoot
  /\ calls["screening"] > 0 => Len(clocks) >= 2
  /\ calls["bct"] > 0 => Len(clocks) = 3

\* What a process past its claim knows of the chain: it is of this boot.
ClockIsKnown(p) ==
  /\ process[p].at = "claimed" => clocks = <<>> /\ claim # Nothing
  /\ process[p].at \notin {"none", "launched", "locked", "claimed"} =>
       clocks # <<>> /\ clocks[1].boot = boot
  /\ process[p].started => Len(clocks) >= IF process[p].stage = "bct" THEN 3 ELSE 2

ClockIInv == ChainIsTrue /\ \A p \in Processes : ClockIsKnown(p)

LEMMA FilesTypeSteps ==
  ASSUME TypesOK, EvidenceIInv, ClockIInv, [AttemptNext]_attemptVars
  PROVE  FilesTypeOK'
<1>1. DOMAIN docs' = DocNames
  BY DocSteps DEF TypesOK, FilesTypeOK
<1>2. ScriptStep => /\ UNCHANGED <<claim, clocks, calls, closed, terminal, doubled, strayed, worldVars>>
                    /\ {frozen', marked'} \subseteq BOOLEAN
  BY ScriptEffect DEF ScriptStep, ReconcileOutcome, ReconcileRest, Prepare, FinalizePreclaim,
     Launch, Return, Freeze, ContinueAfterScreening, FinalizeAfterStageExit, PublishReceipt,
     RecordT7, WriteDocument, ScriptStops, stateVars, TypesOK, FilesTypeOK
<1>3. WorldStep => UNCHANGED <<marked, frozen, claim, clocks, calls, closed, strayed>>
  BY WorldEffect DEF fixedVars
<1>4. WorldStep => {boot', now', steps'} \subseteq Nat
  BY DEF WorldStep, ProcessDies, ScriptDies, Reboot, TimePasses, ClockSetBack, TypesOK, FilesTypeOK
<1>5. WorldStep => terminal' \in [Stages -> Terminals \cup {Nothing}] /\ doubled' \subseteq Stages
  <2>1. ASSUME NEW p \in Processes, DoubleTerminal(process[p].stage)
        PROVE  terminal' \in [Stages -> Terminals \cup {Nothing}] /\ doubled' \subseteq Stages
    BY <2>1 DEF DoubleTerminal, TypesOK, FilesTypeOK, ProcessTypeOK
  <2> QED BY <2>1, WorldEffect DEF TypesOK, FilesTypeOK
<1>6. ASSUME NEW p \in Processes, ProcessStep(p)
      PROVE  FilesTypeOK'
  <2>1. UNCHANGED <<marked, frozen, boot, now, steps>>
    BY <1>6, ProcessEffect DEF worldVars
  <2> USE DEF TypesOK, FilesTypeOK
  <2>2. CASE TakeLock(p) \/ FindClaim(p) \/ EndStage(p) \/ SealFinal(p) \/ SealInventory(p)
    BY <1>1, <2>1, <2>2 DEF TakeLock, FindClaim, EndStage, SealFinal, SealInventory, stateVars,
       docVars, Written
  <2>3. CASE WriteClaim(p)
    BY <1>1, <2>1, <2>3 DEF WriteClaim, docVars
  <2>4. CASE WriteFirstCheckpoint(p)
    <3>1. claim \in Nat
      BY <2>4 DEF WriteFirstCheckpoint, ClockIInv, ClockIsKnown
    <3>2. [stage |-> Nothing, boot |-> boot, at |-> claim] \in Checkpoints
      BY <3>1 DEF Checkpoints
    <3>3. clocks' \in Seq(Checkpoints)
      BY <2>4, <3>2, AppendProperties DEF WriteFirstCheckpoint
    <3> QED BY <1>1, <2>1, <2>4, <3>3 DEF WriteFirstCheckpoint, docVars
  <2>5. CASE StartStageClock(p)
    <3>1. clocks' = clocks \/ clocks' = Append(clocks, [stage |-> process[p].stage, boot |-> boot, at |-> now])
      BY <2>5 DEF StartStageClock
    <3>2. process[p].stage \in Stages
      BY DEF ProcessTypeOK
    <3>3. UNCHANGED <<claim, calls, closed, terminal, doubled, docs, strayed>>
      BY <2>5 DEF StartStageClock, docVars
    <3>4. [stage |-> process[p].stage, boot |-> boot, at |-> now] \in Checkpoints
      BY <3>2 DEF Checkpoints
    <3>5. clocks' \in Seq(Checkpoints)
      BY <3>1, <3>4, AppendProperties
    <3> QED BY <1>1, <2>1, <3>3, <3>5
  <2>6. CASE MakeCall(p)
    BY <1>1, <2>1, <2>6 DEF MakeCall, docVars, ProcessTypeOK
  <2>7. CASE CloseLedger(p)
    <3> DEFINE stage == process[p].stage
    <3>1. \/ UNCHANGED closed
          \/ closed' = [closed EXCEPT ![stage] =
                  [verdict |-> process[p].verdict, issued |-> calls[stage], total |-> IssuedTotal]]
      BY <2>7 DEF CloseLedger
    <3>2. process[p].at = "closing" /\ stage \in Stages
      BY <2>7 DEF CloseLedger, ProcessTypeOK
    <3>3. [verdict |-> process[p].verdict, issued |-> calls[stage], total |-> IssuedTotal] \in Terminals
      BY <3>2 DEF EvidenceIInv, ClosersAreTrue, CloserIsTrue, VerdictsOf, Terminals, TerminalStatus,
         IssuedTotal, Stages
    <3>4. closed' \in [Stages -> Terminals \cup {Nothing}]
      BY <3>1, <3>2, <3>3
    <3> QED BY <1>1, <2>1, <2>7, <3>4 DEF CloseLedger, docVars
  <2>8. CASE SealStage(p)
    BY <1>1, <2>1, <2>8 DEF SealStage, ProcessTypeOK
  <2> QED BY <1>6, <2>2, <2>3, <2>4, <2>5, <2>6, <2>7, <2>8 DEF ProcessStep
<1>7. CASE UNCHANGED attemptVars
  BY <1>7 DEF attemptVars, stateVars, docVars, worldVars, TypesOK, FilesTypeOK
<1>8. CASE ScriptStep
  BY <1>1, <1>2, <1>8 DEF worldVars, TypesOK, FilesTypeOK
<1>9. CASE WorldStep
  BY <1>1, <1>3, <1>4, <1>5, <1>9 DEF TypesOK, FilesTypeOK
<1> QED BY <1>6, <1>7, <1>8, <1>9 DEF AttemptNext

-------------------------------------------------------------------------------
(* BCT.                                                                        *)

\* BCT has a process, a call or a terminal record only after an estimable screening.
FreezeIInv ==
  /\ frozen => /\ terminal["screening"] # Nothing
               /\ terminal["screening"].verdict = "completed_estimable"
  /\ \A p \in Processes : process[p].at # "none" /\ process[p].stage = "bct" => frozen
  /\ closed["bct"] # Nothing \/ calls["bct"] > 0 => frozen

\* The calls and the record of a stage are those of its processes.
LEMMA StagesOwn ==
  ASSUME TypesOK, NEW s \in Stages, [AttemptNext]_attemptVars,
         closed'[s] # closed[s] \/ calls'[s] # calls[s]
  PROVE  \E p \in Processes : process[p].at # "none" /\ process[p].stage = s
<1>1. ~ ScriptStep /\ ~ WorldStep
  BY ScriptEffect, WorldEffect DEF fixedVars
<1>2. PICK p \in Processes : ProcessStep(p)
  BY <1>1 DEF AttemptNext, attemptVars, stateVars
<1>3. MakeCall(p) \/ CloseLedger(p)
  BY <1>2 DEF ProcessStep, TakeLock, WriteClaim, WriteFirstCheckpoint, FindClaim,
     StartStageClock, EndStage, SealStage, SealFinal, SealInventory, stateVars
<1> QED BY <1>3 DEF MakeCall, CloseLedger, TypesOK, FilesTypeOK

LEMMA FreezeSteps ==
  ASSUME TypesOK, EvidenceIInv, FreezeIInv, [AttemptNext]_attemptVars
  PROVE  FreezeIInv'
<1>1. Keeps /\ "screening" \in Stages /\ "bct" \in Stages
  BY StepsKeep DEF EvidenceIInv, Stages
<1>2. frozen' /\ ~ frozen => ScriptStep /\ Freeze
  BY ProcessEffect, ScriptEffect, WorldEffect DEF AttemptNext, attemptVars, stateVars, fixedVars
<1>3. frozen' => /\ terminal'["screening"] # Nothing
                 /\ terminal'["screening"].verdict = "completed_estimable"
  BY <1>1, <1>2 DEF Freeze, Keeps, FreezeIInv
<1>4. ASSUME NEW p \in Processes, process'[p].at # "none", process'[p].stage = "bct"
      PROVE  frozen'
  <2>1. CASE process[p].at # "none" /\ process[p].stage = "bct"
    BY <1>1, <2>1 DEF FreezeIInv, Keeps
  <2>2. CASE process[p].at = "none" \/ process[p].stage # "bct"
    <3>1. NoProcess.at = "none"
      BY DEF NoProcess
    <3>2. \A q \in Processes : ~ ProcessStep(q)
      BY <1>4, <2>2, <3>1, ProcessEffect
    <3>3. ~ WorldStep /\ ~ UNCHANGED attemptVars
      BY <1>4, <2>2, <3>1, WorldEffect DEF attemptVars, TypesOK, ProcessTypeOK
    <3>4. ScriptStep /\ process' # process
      BY <1>4, <2>2, <3>2, <3>3 DEF AttemptNext
    <3>5. PICK q \in Processes, s \in Stages : Launch(q, s)
      BY <3>4, ScriptEffect
    <3>6. p = q /\ s = "bct"
      BY <1>4, <2>2, <3>5 DEF Launch, NoProcess, TypesOK, ProcessTypeOK
    <3> QED BY <3>5, <3>6 DEF Launch, stateVars
  <2> QED BY <2>1, <2>2
<1>5. closed'["bct"] # Nothing \/ calls'["bct"] > 0 => frozen'
  BY <1>1, StagesOwn DEF FreezeIInv, Keeps
<1> QED BY <1>3, <1>4, <1>5 DEF FreezeIInv

LEMMA UpToThree ==
  ASSUME NEW n \in Nat, n <= 3
  PROVE  (n >= 3 => n = 3) /\ (n # 0 => n \in 1..3) /\ (n >= 2 /\ n # 3 => n = 2)
OBVIOUS

LEMMA ClockStands ==
  ASSUME TypesOK, ClockIInv, UNCHANGED <<claim, clocks>>, frozen => frozen',
         \A s \in Stages :
           calls'[s] > 0 => calls[s] > 0 \/ Len(clocks) >= IF s = "bct" THEN 3 ELSE 2,
         \A p \in Processes :
           /\ process'[p].started => process[p].started /\ process'[p].stage = process[p].stage
           /\ \/ process'[p].at \in {"none", "launched", "locked"}
              \/ boot' = boot /\ process'[p].at = process[p].at
              \/ /\ boot' = boot /\ process'[p].at # "claimed"
                 /\ process[p].at \notin {"none", "launched", "locked", "claimed"}
  PROVE  ClockIInv'
<1>1. Len(clocks) \in Nat /\ "screening" \in Stages /\ "bct" \in Stages
  BY DEF TypesOK, FilesTypeOK, Stages
<1>2. calls'["screening"] > 0 => Len(clocks) >= 2
  BY <1>1 DEF ClockIInv, ChainIsTrue
<1>3. calls'["bct"] > 0 => Len(clocks) = 3
  <2>1. calls'["bct"] > 0 => calls["bct"] > 0 \/ Len(clocks) >= 3
    BY <1>1
  <2>2. ChainIsTrue
    BY DEF ClockIInv
  <2>3. Len(clocks) >= 3 => Len(clocks) = 3
    <3>1. Len(clocks) <= 3
      BY <2>2 DEF ChainIsTrue
    <3> QED BY <1>1, <3>1, UpToThree
  <2>4. calls["bct"] > 0 => Len(clocks) = 3
    BY <2>2 DEF ChainIsTrue
  <2> QED BY <2>1, <2>3, <2>4
<1>4. ChainIsTrue'
  BY <1>2, <1>3 DEF ClockIInv, ChainIsTrue, OneBoot
<1>5. ASSUME NEW p \in Processes
      PROVE  ClockIsKnown(p)'
  BY DEF ClockIInv, ClockIsKnown
<1> QED BY <1>4, <1>5 DEF ClockIInv

\* One more checkpoint, of this boot.
LEMMA ChainGrows ==
  ASSUME TypesOK, NEW stage \in Stages \cup {Nothing}, NEW at \in Nat, OneBoot,
         clocks = <<>> \/ clocks[1].boot = boot,
         clocks' = Append(clocks, [stage |-> stage, boot |-> boot, at |-> at])
  PROVE  /\ Len(clocks') = Len(clocks) + 1 /\ clocks' # <<>>
         /\ \A i \in DOMAIN clocks : i \in DOMAIN clocks' /\ clocks'[i] = clocks[i]
         /\ \A i \in DOMAIN clocks' : i \in DOMAIN clocks \/ i = Len(clocks) + 1
         /\ clocks'[Len(clocks) + 1] = [stage |-> stage, boot |-> boot, at |-> at]
         /\ OneBoot' /\ clocks'[1].boot = boot
<1>1. [stage |-> stage, boot |-> boot, at |-> at] \in Checkpoints
  BY DEF TypesOK, FilesTypeOK, Checkpoints
<1>2. /\ Len(clocks') = Len(clocks) + 1 /\ clocks' # <<>>
      /\ \A i \in DOMAIN clocks : i \in DOMAIN clocks' /\ clocks'[i] = clocks[i]
      /\ \A i \in DOMAIN clocks' : i \in DOMAIN clocks \/ i = Len(clocks) + 1
      /\ clocks'[Len(clocks) + 1] = [stage |-> stage, boot |-> boot, at |-> at]
  BY <1>1 DEF TypesOK, FilesTypeOK
<1>3. \A i \in DOMAIN clocks' : clocks'[i].boot = boot
  BY <1>2 DEF OneBoot, TypesOK, FilesTypeOK
<1>4. 1 \in DOMAIN clocks'
  BY <1>1, <1>2 DEF TypesOK, FilesTypeOK
<1> QED BY <1>2, <1>3, <1>4 DEF OneBoot

LEMMA ClockSteps ==
  ASSUME TypesOK, LockIInv, EvidenceIInv, FreezeIInv, ClockIInv, [AttemptNext]_attemptVars
  PROVE  ClockIInv'
<1>1. frozen => frozen'
  BY StepsKeep DEF EvidenceIInv, Keeps
<1>2. NoProcess.at = "none" /\ ~ NoProcess.started /\ "screening" \in Stages /\ "bct" \in Stages
  BY DEF NoProcess, Stages
<1>3. ASSUME NEW p \in Processes, ProcessStep(p)
      PROVE  ClockIInv'
  <2>1. /\ UNCHANGED <<frozen, boot>> /\ \A q \in Processes : q # p => process'[q] = process[q]
    BY <1>3, ProcessEffect DEF worldVars
  <2>2. \A q \in Processes : q # p /\ Inside(p) => ~ Inside(q)
    BY DEF LockIInv
  <2>3. ClockIsKnown(p) /\ ChainIsTrue /\ Len(clocks) \in Nat /\ p \in DOMAIN process
        /\ process[p].stage \in Stages
    BY DEF ClockIInv, TypesOK, FilesTypeOK, ProcessTypeOK
  <2>4. CASE TakeLock(p)
    <3>1. /\ process[p].at = "launched" /\ UNCHANGED <<claim, clocks, calls>>
          /\ Moves(p, "locked") \/ process' = [process EXCEPT ![p] = NoProcess]
      BY <2>4 DEF TakeLock, stateVars
    <3>2. /\ process'[p].at \in {"none", "locked"}
          /\ process'[p].started => process[p].started /\ process'[p].stage = process[p].stage
      BY <1>2, <2>3, <3>1 DEF Moves, TypesOK, ProcessTypeOK
    <3> QED BY <2>1, <3>1, <3>2, ClockStands
  <2>5. CASE FindClaim(p)
    <3>1. /\ UNCHANGED <<claim, clocks, calls>> /\ process[p].at = "locked"
          /\ (ContinuesChain /\ Moves(p, "running")) \/ Leaves(p)
      BY <2>5 DEF FindClaim, stateVars
    <3>2. CASE Leaves(p)
      <4>1. process'[p] = NoProcess
        BY <2>3, <3>2 DEF Leaves
      <4> QED BY <1>2, <2>1, <3>1, <4>1, ClockStands
    <3>3. CASE ContinuesChain /\ Moves(p, "running")
      <4>1. /\ process'[p].at = "running" /\ process'[p].started = process[p].started
            /\ process'[p].stage = process[p].stage
        BY <2>3, <3>3 DEF Moves, TypesOK, ProcessTypeOK
      <4>2. clocks # <<>> /\ clocks[1].boot = boot
        BY <3>3 DEF ContinuesChain
      <4>3. ClockIsKnown(p)'
        BY <2>1, <2>3, <3>1, <4>1, <4>2 DEF ClockIsKnown
      <4>4. \A q \in Processes : q # p => ClockIsKnown(q)'
        BY <2>1, <3>1 DEF ClockIInv, ClockIsKnown
      <4>5. ChainIsTrue'
        BY <2>1, <2>3, <3>1 DEF ChainIsTrue, OneBoot
      <4> QED BY <4>3, <4>4, <4>5 DEF ClockIInv
    <3> QED BY <3>1, <3>2, <3>3
  <2>6. CASE WriteClaim(p)
    <3>1. clocks = <<>>
      BY <2>3, <2>6 DEF ChainIsTrue, WriteClaim
    <3>2. /\ UNCHANGED <<clocks, calls>> /\ process[p].at = "locked"
          /\ (claim' = now /\ Moves(p, "claimed")) \/ (Leaves(p) /\ UNCHANGED claim)
      BY <2>6 DEF WriteClaim
    <3>3. CASE Leaves(p) /\ UNCHANGED claim
      <4>1. process'[p] = NoProcess
        BY <2>3, <3>3 DEF Leaves
      <4> QED BY <1>2, <2>1, <3>2, <3>3, <4>1, ClockStands
    <3>4. CASE claim' = now /\ Moves(p, "claimed")
      <4>1. /\ process'[p].at = "claimed" /\ process'[p].started = process[p].started
            /\ process'[p].stage = process[p].stage
        BY <2>3, <3>4 DEF Moves, TypesOK, ProcessTypeOK
      <4>2. claim' # Nothing
        BY <3>4, AttemptAssumption DEF AttemptAssumption, TypesOK, FilesTypeOK
      <4>3. ClockIsKnown(p)'
        BY <2>1, <2>3, <3>1, <3>2, <4>1, <4>2 DEF ClockIsKnown
      <4>4. \A q \in Processes : q # p => ClockIsKnown(q)'
        BY <2>1, <3>2, <4>2 DEF ClockIInv, ClockIsKnown
      <4>5. ChainIsTrue'
        BY <2>1, <2>3, <3>1, <3>2 DEF ChainIsTrue, OneBoot
      <4> QED BY <4>3, <4>4, <4>5 DEF ClockIInv
    <3> QED BY <3>2, <3>3, <3>4
  <2>7. CASE WriteFirstCheckpoint(p)
    <3>1. /\ clocks = <<>> /\ claim \in Nat /\ UNCHANGED <<claim, calls>> /\ Inside(p)
          /\ clocks' = Append(clocks, [stage |-> Nothing, boot |-> boot, at |-> claim])
          /\ Moves(p, "running")
      BY <2>3, <2>7 DEF WriteFirstCheckpoint, ClockIsKnown, Inside, TypesOK, FilesTypeOK
    <3>2. /\ Len(clocks') = 1 /\ clocks' # <<>> /\ OneBoot' /\ clocks'[1].boot = boot
          /\ clocks'[1] = [stage |-> Nothing, boot |-> boot, at |-> claim]
      <4>1. OneBoot
        BY <2>3 DEF ChainIsTrue
      <4>2. /\ Len(clocks') = Len(clocks) + 1 /\ clocks' # <<>>
            /\ clocks'[Len(clocks) + 1] = [stage |-> Nothing, boot |-> boot, at |-> claim]
            /\ OneBoot' /\ clocks'[1].boot = boot
        BY <3>1, <4>1, ChainGrows
      <4> QED BY <3>1, <4>2
    <3>3. /\ process'[p].at = "running" /\ process'[p].started = process[p].started
      BY <2>3, <3>1 DEF Moves, TypesOK, ProcessTypeOK
    <3>4. \A q \in Processes : ~ process[q].started
      BY <2>3, <3>1 DEF ClockIInv, ClockIsKnown
    <3>5. ClockIsKnown(p)'
      BY <2>1, <3>2, <3>3, <3>4 DEF ClockIsKnown
    <3>6. \A q \in Processes : q # p => ClockIsKnown(q)'
      BY <2>1, <2>2, <3>1, <3>4 DEF ClockIsKnown, Inside
    <3>7. ChainIsTrue'
      <4>1. Len(clocks) = 0 /\ claim # Nothing
        BY <3>1, AttemptAssumption DEF AttemptAssumption
      <4> QED BY <2>1, <2>3, <3>1, <3>2, <4>1 DEF ChainIsTrue
    <3> QED BY <3>5, <3>6, <3>7 DEF ClockIInv
  <2>8. CASE StartStageClock(p)
    <3> DEFINE stage == process[p].stage
               next == [stage |-> stage, boot |-> boot, at |-> now]
    <3>1. /\ process[p].at = "running" /\ UNCHANGED <<claim, calls>> /\ Inside(p)
          /\ \/ StageClock(stage) = "new" /\ clocks' = Append(clocks, next)
             \/ StageClock(stage) # "new" /\ UNCHANGED clocks
          /\ IF StageClock(stage) = "refused" THEN Moves(p, "broken")
             ELSE process' = [process EXCEPT ![p].started = TRUE]
      BY <2>8 DEF StartStageClock, Inside
    <3>2. /\ clocks # <<>> /\ clocks[1].boot = boot /\ OneBoot /\ Len(clocks) \in 1..3
      <4>1. clocks # <<>> /\ clocks[1].boot = boot /\ OneBoot /\ Len(clocks) <= 3
        BY <2>3, <3>1 DEF ClockIsKnown, ChainIsTrue
      <4>2. Len(clocks) # 0
        BY <4>1, EmptySeq DEF TypesOK, FilesTypeOK
      <4> QED BY <2>3, <4>1, <4>2, UpToThree
    <3>3. /\ process'[p].at \in {"running", "broken"} /\ process'[p].stage = stage
          /\ process'[p].started => process[p].started \/ StageClock(stage) # "refused"
      BY <2>3, <3>1 DEF Moves, TypesOK, ProcessTypeOK
    <3>4. CASE StageClock(stage) = "new"
      <4>1. \/ Len(clocks) = 1 /\ stage = "screening"
            \/ Len(clocks) = 2 /\ stage = "bct"
        <5>1. Len(clocks) = 1 \/ (Len(clocks) = 2 /\ stage = "bct")
          BY <3>2, <3>4 DEF StageClock
        <5>2. stage = "bct" => calls["screening"] > 0
          BY <1>2, <3>1 DEF FreezeIInv, EvidenceIInv, ClosedAreTrue
        <5> QED BY <2>3, <5>1, <5>2 DEF ChainIsTrue, Stages
      <4>2. stage = "bct" => frozen
        BY <3>1 DEF FreezeIInv
      <4>3. /\ Len(clocks') = Len(clocks) + 1 /\ clocks' # <<>>
            /\ \A i \in DOMAIN clocks : i \in DOMAIN clocks' /\ clocks'[i] = clocks[i]
            /\ clocks'[Len(clocks) + 1] = next
            /\ OneBoot' /\ clocks'[1].boot = boot
        <5>1. now \in Nat /\ stage \in Stages \cup {Nothing}
          BY <2>3 DEF TypesOK, FilesTypeOK
        <5> QED BY <3>1, <3>2, <3>4, <5>1, ChainGrows
      <4>4. DOMAIN clocks = 1..Len(clocks)
        BY DEF TypesOK, FilesTypeOK
      <4>5. ClockIsKnown(p)'
        BY <2>1, <3>3, <4>1, <4>3 DEF ClockIsKnown
      <4>6. \A q \in Processes : q # p => ClockIsKnown(q)'
        BY <2>1, <2>2, <2>3, <3>1, <4>3 DEF ClockIInv, ClockIsKnown, Inside
      <4>7. ChainIsTrue'
        <5>1. 1 \in DOMAIN clocks /\ clocks'[1] = clocks[1]
          BY <3>2, <4>3, <4>4
        <5>2. Len(clocks) = 2 => clocks'[2] = clocks[2]
          BY <4>3, <4>4
        <5> QED BY <2>1, <2>3, <3>1, <3>2, <4>1, <4>2, <4>3, <5>1, <5>2 DEF ChainIsTrue
      <4> QED BY <4>5, <4>6, <4>7 DEF ClockIInv
    <3>5. CASE StageClock(stage) # "new"
      <4>1. UNCHANGED clocks
        BY <3>1, <3>5
      <4>2. StageClock(stage) # "refused" => Len(clocks) >= IF stage = "bct" THEN 3 ELSE 2
        BY <2>3, <3>2, <3>5 DEF StageClock, ChainIsTrue, Stages
      <4>3. ClockIsKnown(p)'
        BY <2>1, <2>3, <3>2, <3>3, <4>1, <4>2 DEF ClockIsKnown
      <4>4. \A q \in Processes : q # p => ClockIsKnown(q)'
        BY <2>1, <3>1, <4>1 DEF ClockIInv, ClockIsKnown
      <4>5. ChainIsTrue'
        BY <2>1, <2>3, <3>1, <4>1 DEF ChainIsTrue, OneBoot
      <4> QED BY <4>3, <4>4, <4>5 DEF ClockIInv
    <3> QED BY <3>4, <3>5
  <2>9. CASE MakeCall(p)
    <3>1. /\ UNCHANGED <<claim, clocks, process>> /\ process[p].started
          /\ \A s \in Stages : s # process[p].stage => calls'[s] = calls[s]
      BY <2>9 DEF MakeCall, TypesOK, FilesTypeOK
    <3>2. \A s \in Stages :
            calls'[s] > 0 => calls[s] > 0 \/ Len(clocks) >= IF s = "bct" THEN 3 ELSE 2
      BY <2>3, <3>1 DEF ClockIsKnown
    <3> QED BY <2>1, <3>1, <3>2, ClockStands
  <2>10. CASE EndStage(p) \/ CloseLedger(p) \/ SealStage(p) \/ SealFinal(p) \/ SealInventory(p)
    <3>1. /\ UNCHANGED <<claim, clocks, calls>>
          /\ process[p].at \notin {"none", "launched", "locked", "claimed"}
      BY <2>10 DEF EndStage, CloseLedger, SealStage, SealFinal, SealInventory, stateVars
    <3>2. \/ Leaves(p) \/ Moves(p, "sealing") \/ Moves(p, "final") \/ Moves(p, "inventory")
          \/ \E v \in TerminalStatus : process' = [process EXCEPT ![p].at = "closing", ![p].verdict = v]
      BY <2>10 DEF EndStage, CloseLedger, SealStage, SealFinal, SealInventory, Verdicts, TerminalStatus
    <3>3. \/ process'[p] = NoProcess
          \/ /\ process'[p].at # "claimed" /\ process'[p].started = process[p].started
             /\ process'[p].stage = process[p].stage
      BY <2>3, <3>2 DEF Moves, Leaves, TypesOK, ProcessTypeOK
    <3> QED BY <1>2, <2>1, <3>1, <3>3, ClockStands
  <2> QED BY <1>3, <2>4, <2>5, <2>6, <2>7, <2>8, <2>9, <2>10 DEF ProcessStep
<1>4. CASE ScriptStep
  <2>1. /\ UNCHANGED <<claim, clocks, calls, boot>>
        /\ UNCHANGED process \/ \E p \in Processes, s \in Stages : Launch(p, s)
    BY <1>4, ScriptEffect DEF worldVars
  <2>2. \A p \in Processes :
          process'[p] = process[p] \/ (process'[p].at = "launched" /\ ~ process'[p].started)
    BY <2>1 DEF Launch, NoProcess, TypesOK, ProcessTypeOK
  <2> QED BY <1>1, <2>1, <2>2, ClockStands
<1>5. CASE WorldStep
  <2>1. /\ UNCHANGED <<claim, clocks, calls>>
        /\ \A p \in Processes :
             process'[p] \in {process[p], NoProcess, [process[p] EXCEPT !.orphan = TRUE]}
    BY <1>5, WorldEffect DEF fixedVars
  <2>2. \A p \in Processes :
          \/ process'[p] = NoProcess
          \/ /\ process'[p].at = process[p].at /\ process'[p].started = process[p].started
             /\ process'[p].stage = process[p].stage
    BY <2>1 DEF TypesOK, ProcessTypeOK
  <2>3. boot' = boot \/ \A p \in Processes : process'[p] = NoProcess
    BY <1>5 DEF WorldStep, ProcessDies, ScriptDies, Reboot, TimePasses, ClockSetBack
  <2> QED BY <1>1, <1>2, <2>1, <2>2, <2>3, ClockStands
<1>6. CASE UNCHANGED attemptVars
  BY <1>1, <1>6, ClockStands DEF attemptVars, stateVars, worldVars
<1> QED BY <1>3, <1>4, <1>5, <1>6 DEF AttemptNext

\* As long as the clock is not set back, the chain is in the order of time.
TimeIInv ==
  steps = 0 =>
    /\ InOrder
    /\ \A i \in DOMAIN clocks : clocks[i].at <= now
    /\ claim # Nothing => claim <= now

LEMMA TimeSteps ==
  ASSUME TypesOK, ClockIInv, TimeIInv, [AttemptNext]_attemptVars
  PROVE  TimeIInv'
<1> SUFFICES ASSUME steps' = 0 PROVE TimeIInv'
  BY DEF TimeIInv
<1>1. /\ now \in Nat /\ claim \in Nat \cup {Nothing} /\ Len(clocks) \in Nat
      /\ DOMAIN clocks = 1..Len(clocks) /\ \A i \in DOMAIN clocks : clocks[i].at \in Nat
  <2>1. \A i \in DOMAIN clocks : clocks[i] \in Checkpoints
    BY DEF TypesOK, FilesTypeOK
  <2> QED BY <2>1 DEF TypesOK, FilesTypeOK, Checkpoints
<1>2. steps = 0 /\ now' \in Nat /\ now' >= now
  <2>1. CASE WorldStep
    BY <1>1, <2>1 DEF WorldStep, ProcessDies, ScriptDies, Reboot, TimePasses, ClockSetBack, TypesOK,
       FilesTypeOK
  <2>2. CASE ~ WorldStep
    BY <1>1, <2>2, ProcessEffect, ScriptEffect DEF AttemptNext, attemptVars, worldVars
  <2> QED BY <2>1, <2>2
<1>3. /\ InOrder /\ \A i \in DOMAIN clocks : clocks[i].at <= now
      /\ claim # Nothing => claim <= now
  BY <1>2 DEF TimeIInv
<1>4. CASE UNCHANGED <<claim, clocks>>
  BY <1>1, <1>2, <1>3, <1>4, AttemptAssumption DEF TimeIInv, InOrder, AttemptAssumption
<1>5. ASSUME NEW p \in Processes, ProcessStep(p)
      PROVE  TimeIInv'
  <2>1. now' = now /\ ClockIsKnown(p)
    BY <1>5, ProcessEffect DEF worldVars, ClockIInv
  <2>2. CASE WriteClaim(p)
    <3>1. UNCHANGED clocks /\ claim' \in {now, claim}
      BY <2>2 DEF WriteClaim
    <3> QED BY <1>1, <1>3, <2>1, <3>1 DEF TimeIInv, InOrder
  <2>3. CASE WriteFirstCheckpoint(p)
    <3>1. /\ clocks = <<>> /\ claim \in Nat /\ claim' = claim
          /\ clocks' = Append(clocks, [stage |-> Nothing, boot |-> boot, at |-> claim])
      BY <1>1, <2>1, <2>3 DEF WriteFirstCheckpoint, ClockIsKnown
    <3>2. OneBoot
      BY DEF ClockIInv, ChainIsTrue
    <3>3. /\ Len(clocks') = Len(clocks) + 1
          /\ \A i \in DOMAIN clocks' : i \in DOMAIN clocks \/ i = Len(clocks) + 1
          /\ clocks'[Len(clocks) + 1] = [stage |-> Nothing, boot |-> boot, at |-> claim]
      BY <3>1, <3>2, ChainGrows
    <3>4. Len(clocks') = 1 /\ \A i \in DOMAIN clocks' : clocks'[i].at = claim
      BY <3>1, <3>3
    <3>5. claim <= now
      BY <1>3, <3>1, AttemptAssumption DEF AttemptAssumption
    <3> QED BY <2>1, <3>1, <3>4, <3>5 DEF TimeIInv, InOrder
  <2>4. CASE StartStageClock(p)
    <3>1. /\ claim' = claim
          /\ \/ UNCHANGED clocks
             \/ clocks' = Append(clocks, [stage |-> process[p].stage, boot |-> boot, at |-> now])
      BY <2>4 DEF StartStageClock
    <3>2. /\ OneBoot /\ process[p].stage \in Stages \cup {Nothing}
          /\ clocks = <<>> \/ clocks[1].boot = boot
      BY <2>1, <2>4 DEF StartStageClock, ClockIsKnown, ClockIInv, ChainIsTrue, TypesOK,
         ProcessTypeOK
    <3>3. CASE clocks' = Append(clocks, [stage |-> process[p].stage, boot |-> boot, at |-> now])
      <4>1. /\ Len(clocks') = Len(clocks) + 1
            /\ \A i \in DOMAIN clocks : i \in DOMAIN clocks' /\ clocks'[i] = clocks[i]
            /\ \A i \in DOMAIN clocks' : i \in DOMAIN clocks \/ i = Len(clocks) + 1
            /\ clocks'[Len(clocks) + 1] = [stage |-> process[p].stage, boot |-> boot, at |-> now]
        BY <1>1, <3>2, <3>3, ChainGrows
      <4>2. \A i \in DOMAIN clocks' : clocks'[i].at <= now
        BY <1>1, <1>3, <4>1
      <4>3. ASSUME NEW i \in 2..Len(clocks')
            PROVE  clocks'[i - 1].at <= clocks'[i].at
        <5>1. CASE i = Len(clocks) + 1
          <6>1. i - 1 \in DOMAIN clocks
            BY <1>1, <4>3, <5>1
          <6> QED BY <1>1, <1>3, <4>1, <5>1, <6>1
        <5>2. CASE i # Len(clocks) + 1
          <6>1. i \in 2..Len(clocks) /\ i \in DOMAIN clocks /\ i - 1 \in DOMAIN clocks
            BY <1>1, <4>1, <4>3, <5>2
          <6> QED BY <1>3, <4>1, <6>1 DEF InOrder
        <5> QED BY <5>1, <5>2
      <4> QED BY <1>3, <2>1, <3>1, <4>2, <4>3 DEF TimeIInv, InOrder
    <3> QED BY <1>4, <3>1, <3>3
  <2>5. CASE ~ WriteClaim(p) /\ ~ WriteFirstCheckpoint(p) /\ ~ StartStageClock(p)
    BY <1>4, <1>5, <2>5 DEF ProcessStep, TakeLock, FindClaim, MakeCall, EndStage, CloseLedger,
       SealStage, SealFinal, SealInventory, stateVars
  <2> QED BY <2>2, <2>3, <2>4, <2>5
<1>6. CASE ScriptStep \/ WorldStep \/ UNCHANGED attemptVars
  BY <1>4, <1>6, ScriptEffect, WorldEffect DEF attemptVars, stateVars, fixedVars
<1> QED BY <1>5, <1>6 DEF AttemptNext

-------------------------------------------------------------------------------
(* The publication and the report.                                             *)

\* A publication stands on the terminals of every stage that there will be.
PublicationIInv ==
  docs.publication # Nothing =>
    /\ claim # Nothing /\ terminal["screening"] # Nothing
    /\ terminal["bct"] = Nothing => terminal["screening"].verdict # "completed_estimable"

\* The script is at work, and was when every process that lives on without it came to
\* be: those have not passed the lock since.
Watched ==
  \/ script.at \in {"idle", "waiting"} \/ script.after = "idle"
  \/ script.todo = <<"skip", "t7">>

\* A zero-call record: nobody is past the lock, or will be but by straying.
SkipIInv ==
  ~ strayed =>
    /\ Watched => \A p \in Processes : process[p].orphan => process[p].at = "launched"
    /\ script.todo = <<"skip", "t7">> => claim = Nothing
    /\ docs.skip # Nothing =>
         /\ claim = Nothing /\ script.at \in {"down", "writing"} /\ script.after = "down"
         /\ \A p \in Processes : ~ Inside(p)

\* The report was true of its outcome when it was written, and is.
ReportIInv ==
  docs.t7 # Nothing /\ ~ strayed =>
    \/ docs.skip # Nothing /\ docs.t7 = [outcome |-> "zero_call_skip", calls |-> 0]
    \/ docs.publication # Nothing /\ docs.t7 = [outcome |-> "paid_attempt", calls |-> IssuedTotal]

LEMMA PublicationSteps ==
  ASSUME TypesOK, EvidenceIInv, FreezeIInv, PublicationIInv, [AttemptNext]_attemptVars
  PROVE  PublicationIInv'
<1> SUFFICES ASSUME docs'.publication # Nothing PROVE PublicationIInv'
  BY DEF PublicationIInv
<1>1. Keeps /\ "screening" \in Stages /\ "bct" \in Stages
  BY StepsKeep DEF EvidenceIInv, Stages
<1>2. CASE docs.publication # Nothing
  <2>1. UNCHANGED claim /\ terminal'["screening"] = terminal["screening"]
    BY <1>1, <1>2 DEF PublicationIInv, Keeps
  <2>2. terminal'["bct"] = Nothing => terminal["bct"] = Nothing
    BY <1>1 DEF Keeps
  <2> QED BY <1>2, <2>1, <2>2 DEF PublicationIInv
<1>3. CASE docs.publication = Nothing
  <2>1. /\ WriteDocument /\ Publishable
    <3>1. PICK d \in DocNames : \E value :
              /\ docs' = [docs EXCEPT ![d] = value]
              /\ \/ d \in {"final", "inventory"}
                 \/ WriteDocument /\ d = Head(script.todo) /\ Demands(d)
      BY <1>3, DocSteps
    <3>2. d = "publication"
      BY <1>3, <3>1 DEF TypesOK, FilesTypeOK
    <3> QED BY <3>1, <3>2 DEF Demands
  <2>2. UNCHANGED <<claim, terminal>>
    BY <2>1 DEF WriteDocument, stateVars
  <2>3. /\ terminal["screening"] # Nothing /\ claim # Nothing
        /\ terminal["bct"] = Nothing => terminal["screening"].verdict # "completed_estimable"
    BY <2>1 DEF Publishable, ChainComplete, LastStage, FinalOf
  <2> QED BY <2>2, <2>3 DEF PublicationIInv
<1> QED BY <1>2, <1>3

LEMMA SkipProcessSteps ==
  ASSUME TypesOK, LockIInv, SkipIInv, [AttemptNext]_attemptVars, ~ strayed', ~ strayed,
         NEW p \in Processes, ProcessStep(p)
  PROVE  SkipIInv'
<1>1. /\ UNCHANGED script /\ \A q \in Processes : q # p => process'[q] = process[q]
      /\ process[p].at # "none"
  BY ProcessEffect
<1>2. docs'.skip = docs.skip
  <2>1. ~ WriteDocument
    BY <1>1 DEF WriteDocument, NoScript, TypesOK, ScriptTypeOK
  <2>2. \/ UNCHANGED docs
        \/ \E d \in {"final", "inventory"} : \E value : docs' = [docs EXCEPT ![d] = value]
    BY <2>1, DocSteps
  <2>3. ASSUME NEW d \in {"final", "inventory"}, NEW value, docs' = [docs EXCEPT ![d] = value]
        PROVE  docs'.skip = docs.skip
    BY <2>3
  <2> QED BY <2>2, <2>3
<1>3. NoProcess.at = "none" /\ ~ NoProcess.orphan
  BY DEF NoProcess
<1>4. ASSUME process[p].at = "launched", process[p].orphan
      PROVE  process' = [process EXCEPT ![p] = NoProcess] /\ UNCHANGED claim
  <2>1. TakeLock(p)
    BY <1>4 DEF ProcessStep, TakeLock, WriteClaim, WriteFirstCheckpoint, FindClaim,
       StartStageClock, MakeCall, EndStage, CloseLedger, SealStage, SealFinal, SealInventory
  <2> QED BY <1>4, <2>1 DEF TakeLock, stateVars
<1>5. ASSUME Watched
      PROVE  \A q \in Processes : process'[q].orphan => process'[q].at = "launched"
  <2>1. \A q \in Processes : process[q].orphan => process[q].at = "launched"
    BY <1>5 DEF Watched, SkipIInv
  <2>2. process'[p].orphan => process'[p].at = "launched"
    <3>1. CASE process[p].orphan
      BY <1>3, <1>4, <2>1, <3>1 DEF TypesOK, ProcessTypeOK
    <3>2. CASE ~ process[p].orphan
      BY <1>3, <3>2, ProcessEffect
    <3> QED BY <3>1, <3>2
  <2> QED BY <1>1, <2>1, <2>2
<1>6. ASSUME script.todo = <<"skip", "t7">>
      PROVE  claim' = Nothing
  <2>1. script.at = "writing"
    BY <1>6 DEF TypesOK, ScriptTypeOK
  <2>2. process[p].orphan /\ process[p].at = "launched"
    BY <1>1, <1>6, <2>1 DEF LockIInv, SkipIInv, Watched
  <2> QED BY <1>4, <1>6, <2>2 DEF SkipIInv
<1>7. ASSUME docs.skip # Nothing
      PROVE  claim' = Nothing /\ \A q \in Processes : ~ Inside(q)'
  <2>1. /\ claim = Nothing /\ script.at # "waiting" /\ \A q \in Processes : ~ Inside(q)
    BY <1>7 DEF SkipIInv
  <2>2. process[p].orphan /\ process[p].at = "launched"
    BY <1>1, <2>1 DEF LockIInv, Inside
  <2>3. process'[p].at = "none"
    BY <1>3, <1>4, <2>2 DEF TypesOK, ProcessTypeOK
  <2> QED BY <1>1, <1>4, <2>1, <2>2, <2>3 DEF Inside
<1> QED BY <1>1, <1>2, <1>5, <1>6, <1>7 DEF SkipIInv, Watched

LEMMA SkipScriptSteps ==
  ASSUME TypesOK, LockIInv, SkipIInv, [AttemptNext]_attemptVars, ~ strayed', ~ strayed,
         ScriptStep
  PROVE  SkipIInv'
<1>1. UNCHANGED claim /\ (WriteDocument \/ UNCHANGED docs)
  BY ScriptEffect
<1>2. NoScript.at = "down" /\ NoScript.todo = <<>> /\ NoScript.after = "down"
      /\ <<>> # <<"skip", "t7">>
  BY DEF NoScript
<1>3. ASSUME NEW p \in Processes, NEW s \in Stages, Launch(p, s)
      PROVE  SkipIInv'
  <2>1. /\ script.at = "idle" /\ script' = [script EXCEPT !.at = "waiting"] /\ UNCHANGED docs
        /\ process' = [process EXCEPT ![p] = [NoProcess EXCEPT !.at = "launched", !.stage = s]]
    BY <1>3 DEF Launch, docVars
  <2>2. \A q \in Processes : process'[q].orphan => process'[q].at = "launched"
    <3>1. \A q \in Processes : process[q].orphan => process[q].at = "launched"
      BY <2>1 DEF SkipIInv, Watched
    <3>2. ~ process'[p].orphan /\ \A q \in Processes : q # p => process'[q] = process[q]
      BY <2>1 DEF NoProcess, TypesOK, ProcessTypeOK
    <3> QED BY <3>1, <3>2
  <2>4. script'.todo = <<>>
    BY <2>1 DEF TypesOK, ScriptTypeOK
  <2>3. docs.skip = Nothing
    BY <2>1 DEF SkipIInv
  <2> QED BY <1>1, <1>2, <2>1, <2>2, <2>3, <2>4 DEF SkipIInv
<1>4. ASSUME UNCHANGED <<process, docs>>, Watched' => Watched,
             script'.todo = <<"skip", "t7">> => claim = Nothing,
             docs.skip = Nothing \/ (script'.at \in {"down", "writing"} /\ script'.after = "down")
      PROVE  SkipIInv'
  BY <1>1, <1>4 DEF SkipIInv, Watched, Inside
<1>5. CASE ReconcileRest
  <2>1. UNCHANGED <<process, docs>> /\ docs.skip = Nothing /\ lock = Free
    BY <1>5 DEF ReconcileRest, docVars
  <2>2. \A p \in Processes : ~ Inside(p)
    BY <2>1, AttemptAssumption DEF LockIInv, AttemptAssumption
  <2>3. \A p \in Processes : process[p].orphan => process[p].at = "launched"
    BY <2>2 DEF Inside, LockIInv, NoProcess
  <2>4. script'.todo = <<"skip", "t7">> => claim = Nothing
    <3>1. claim = Nothing \/ script' = [NoScript EXCEPT !.at = "idle"]
      BY <1>5 DEF ReconcileRest
    <3>2. script' = [NoScript EXCEPT !.at = "idle"] => script'.todo = NoScript.todo
      BY DEF NoScript
    <3> QED BY <1>2, <3>1, <3>2
  <2> QED BY <1>1, <2>1, <2>3, <2>4 DEF SkipIInv
<1>6. CASE ReconcileOutcome
  <2>1. /\ UNCHANGED <<process, docs>> /\ script'.at = "writing" /\ script'.todo = <<"t7">>
        /\ script'.after = "down"
    BY <1>6 DEF ReconcileOutcome, Does, docVars
  <2> QED BY <1>4, <2>1 DEF Watched
<1>7. CASE FinalizePreclaim
  <2>1. /\ UNCHANGED <<process, docs>> /\ script.at = "idle" /\ claim = Nothing
    BY <1>7 DEF FinalizePreclaim, docVars
  <2> QED BY <1>4, <2>1 DEF Watched, SkipIInv
<1>8. CASE \/ Prepare \/ Return \/ Freeze \/ PublishReceipt \/ RecordT7 \/ ScriptStops
           \/ ContinueAfterScreening \/ \E s \in Stages : FinalizeAfterStageExit(s)
  <2>1. /\ UNCHANGED <<process, docs>> /\ script.at \in {"idle", "waiting"}
        /\ script'.todo # <<"skip", "t7">>
    BY <1>2, <1>8 DEF Prepare, Return, Freeze, PublishReceipt, RecordT7, ScriptStops,
       ContinueAfterScreening, FinalizeAfterStageExit, Does, docVars, TypesOK, ScriptTypeOK
  <2>2. docs.skip = Nothing
    BY <2>1 DEF SkipIInv
  <2> QED BY <1>4, <2>1, <2>2 DEF Watched
<1>9. CASE WriteDocument
  <2>1. /\ UNCHANGED process /\ script.at = "writing" /\ script.todo \in Commands
        /\ \/ /\ Tail(script.todo) # <<>>
              /\ script' = [script EXCEPT !.todo = Tail(script.todo)]
           \/ script' = [NoScript EXCEPT !.at = script.after]
    BY <1>9 DEF WriteDocument, TypesOK, ScriptTypeOK
  <2>2. \/ /\ script'.at = "writing" /\ script'.todo = Tail(script.todo)
           /\ script'.after = script.after
        \/ /\ script'.at = script.after /\ script'.todo = <<>> /\ script'.after = "down"
    BY <2>1 DEF NoScript, TypesOK, ScriptTypeOK
  <2>3. script'.todo # <<"skip", "t7">> /\ (Watched' => Watched)
    BY <1>2, <2>1, <2>2, CommandTails DEF Watched, TypesOK, ScriptTypeOK
  <2>4. CASE docs'.skip = docs.skip
    <3>1. docs.skip = Nothing \/ (script'.at \in {"down", "writing"} /\ script'.after = "down")
      BY <2>2 DEF SkipIInv
    <3> QED BY <1>1, <2>1, <2>3, <2>4, <3>1 DEF SkipIInv, Watched, Inside
  <2>5. CASE docs'.skip # docs.skip
    <3>1. Head(script.todo) = "skip"
      <4>1. docs' = docs \/ docs' = [docs EXCEPT ![Head(script.todo)] = Says(Head(script.todo))]
        BY <1>9 DEF WriteDocument, Written, docVars
      <4>2. Head(script.todo) \in DocNames
        BY <2>1, CommandTails
      <4> QED BY <2>5, <4>1, <4>2 DEF TypesOK, FilesTypeOK, DocNames
    <3>2. script.todo = <<"skip", "t7">> /\ script.after = "down"
      BY <2>1, <3>1, CommandTails DEF TypesOK, ScriptTypeOK
    <3>3. /\ claim = Nothing
          /\ \A p \in Processes : process[p].orphan => process[p].at = "launched"
      BY <3>2 DEF SkipIInv, Watched
    <3>4. \A p \in Processes : ~ Inside(p)
      BY <2>1, <3>3 DEF LockIInv, Inside
    <3> QED BY <1>1, <2>1, <2>2, <2>3, <3>2, <3>3, <3>4 DEF SkipIInv, Watched, Inside
  <2> QED BY <2>4, <2>5
<1> QED BY <1>3, <1>5, <1>6, <1>7, <1>8, <1>9 DEF ScriptStep

LEMMA SkipSteps ==
  ASSUME TypesOK, LockIInv, SkipIInv, [AttemptNext]_attemptVars
  PROVE  SkipIInv'
<1> SUFFICES ASSUME ~ strayed' PROVE SkipIInv'
  BY DEF SkipIInv
<1>1. ~ strayed
  BY ScriptEffect, WorldEffect DEF AttemptNext, ProcessStep, TakeLock, WriteClaim,
     WriteFirstCheckpoint, FindClaim, StartStageClock, MakeCall, EndStage, CloseLedger,
     SealStage, SealFinal, SealInventory, attemptVars
<1>2. CASE WorldStep
  <2>1. UNCHANGED <<claim, docs>>
    BY <1>2, WorldEffect DEF fixedVars
  <2>2. ~ NoProcess.orphan /\ NoProcess.at = "none"
    BY DEF NoProcess
  <2>3. \/ script' = NoScript
        \/ /\ script' = script
           /\ \A p \in Processes : process'[p] \in {process[p], NoProcess}
    BY <1>2 DEF WorldStep, ProcessDies, ScriptDies, Reboot, TimePasses, ClockSetBack, TypesOK,
       ProcessTypeOK
  <2>4. \A p \in Processes : ~ Inside(p) => ~ Inside(p)'
    BY <1>2, <2>2, WorldEffect DEF Inside, TypesOK, ProcessTypeOK
  <2>5. NoScript.at = "down" /\ NoScript.todo # <<"skip", "t7">> /\ NoScript.after = "down"
    BY DEF NoScript
  <2> QED BY <1>1, <2>1, <2>2, <2>3, <2>4, <2>5 DEF SkipIInv, Watched
<1>3. CASE UNCHANGED attemptVars
  BY <1>1, <1>3 DEF attemptVars, stateVars, docVars, SkipIInv, Inside, Watched
<1> QED BY <1>1, <1>2, <1>3, SkipProcessSteps, SkipScriptSteps DEF AttemptNext

\* What is published is final: no stage makes another call.
LEMMA PublishedCallsStand ==
  ASSUME TypesOK, ClosedAreTrue, FreezeIInv, PublicationIInv, docs.publication # Nothing,
         [AttemptNext]_attemptVars
  PROVE  IssuedTotal' = IssuedTotal
<1>1. Keeps /\ "screening" \in Stages /\ "bct" \in Stages
  BY StepsKeep DEF Stages
<1>2. \A s \in Stages : terminal[s] # Nothing => calls'[s] = calls[s]
  BY <1>1 DEF ClosedAreTrue, Keeps
<1>3. calls'["screening"] = calls["screening"]
  BY <1>1, <1>2 DEF PublicationIInv
<1>4. calls'["bct"] = calls["bct"]
  <2>1. CASE terminal["bct"] # Nothing
    BY <1>1, <1>2, <2>1
  <2>2. CASE terminal["bct"] = Nothing
    <3>1. ~ frozen
      BY <2>2 DEF PublicationIInv, FreezeIInv
    <3> QED BY <1>1, <3>1, StagesOwn DEF FreezeIInv
  <2> QED BY <2>1, <2>2
<1> QED BY <1>3, <1>4 DEF IssuedTotal

LEMMA ReportSteps ==
  ASSUME TypesOK, EvidenceIInv, FreezeIInv, PublicationIInv, ReportIInv,
         [AttemptNext]_attemptVars
  PROVE  ReportIInv'
<1> SUFFICES ASSUME docs'.t7 # Nothing, ~ strayed' PROVE ReportIInv'
  BY DEF ReportIInv
<1>1. /\ Keeps /\ ClosedAreTrue /\ ~ strayed
      /\ "screening" \in Stages /\ "bct" \in Stages
  BY StepsKeep DEF EvidenceIInv, Stages, Keeps
<1>2. docs.publication # Nothing => IssuedTotal' = IssuedTotal
  BY <1>1, PublishedCallsStand
<1>3. /\ docs.skip # Nothing => docs'.skip = docs.skip
      /\ docs.publication # Nothing => docs'.publication = docs.publication
      /\ docs.t7 # Nothing => docs'.t7 = docs.t7
  BY <1>1 DEF Keeps, DocNames
<1>4. CASE docs.t7 # Nothing
  BY <1>1, <1>2, <1>3, <1>4 DEF ReportIInv
<1>5. CASE docs.t7 = Nothing
  <2>1. PICK d \in DocNames : \E value :
           /\ docs' = [docs EXCEPT ![d] = value]
           /\ \/ d \in {"final", "inventory"}
              \/ value = Says(d) /\ Demands(d)
    BY <1>5, DocSteps
  <2>2. d = "t7"
    BY <1>5, <2>1 DEF TypesOK, FilesTypeOK
  <2>3. docs'.t7 = Report /\ Reportable
    BY <2>1, <2>2 DEF Says, Demands, TypesOK, FilesTypeOK
  <2>4. CASE docs.skip # Nothing
    BY <1>3, <2>3, <2>4 DEF Report, ReportIInv
  <2>5. CASE docs.skip = Nothing
    <3>1. docs.publication # Nothing /\ docs'.t7 = [outcome |-> "paid_attempt", calls |-> ReportedCalls]
      BY <2>3, <2>5 DEF Report, Reportable
    <3>2. TerminalIssued("screening") = calls["screening"]
      BY <1>1, <3>1 DEF TerminalIssued, PublicationIInv, ClosedAreTrue
    <3>3. TerminalIssued("bct") = calls["bct"]
      <4>1. CASE terminal["bct"] # Nothing
        BY <1>1, <4>1 DEF TerminalIssued, ClosedAreTrue
      <4>2. CASE terminal["bct"] = Nothing
        <5>1. ~ frozen
          BY <3>1, <4>2 DEF PublicationIInv, FreezeIInv
        <5>2. calls["bct"] \in Nat /\ ~ (calls["bct"] > 0)
          BY <1>1, <5>1 DEF FreezeIInv, TypesOK, FilesTypeOK
        <5> QED BY <4>2, <5>2 DEF TerminalIssued
      <4> QED BY <4>1, <4>2
    <3> QED BY <1>2, <1>3, <3>1, <3>2, <3>3 DEF ReportedCalls, IssuedTotal, ReportIInv
  <2> QED BY <2>4, <2>5
<1> QED BY <1>4, <1>5

-------------------------------------------------------------------------------
(* final.json and the inventory.                                               *)

\* A stage whose terminal ends the attempt.
Ended(s) == terminal[s] # Nothing /\ terminal[s].verdict # "completed_estimable"

\* The final terminal names a stage that ended the attempt, and is there before the
\* inventory.
FinalIsTrue ==
  docs.final # Nothing \/ docs.inventory # Nothing =>
    \E s \in Stages : docs.final = FinalOf(s) /\ Ended(s)

\* So it is for a process that is about to write either,
SealerIsTrue(p) ==
  /\ process[p].at \in {"final", "inventory"} => Ended(process[p].stage)
  /\ process[p].at = "inventory" => docs.final = FinalOf(process[p].stage)

\* and for the script.
ScriptSealsTrue ==
  script.todo # <<>> =>
    /\ Head(script.todo) \in {"final", "inventory"} => Ended(script.stage)
    /\ Head(script.todo) = "inventory" => docs.final = FinalOf(script.stage)

FinalIInv == FinalIsTrue /\ (\A p \in Processes : SealerIsTrue(p)) /\ ScriptSealsTrue

\* What ended the attempt stays so, and a final terminal on file, too.
LEMMA EndsStand ==
  ASSUME TypesOK, ClosedAreTrue, [AttemptNext]_attemptVars,
         NEW s \in Stages, Ended(s)
  PROVE  /\ Ended(s)' /\ FinalOf(s)' = FinalOf(s) /\ FinalOf(s) # Nothing
         /\ docs.final = FinalOf(s) => docs'.final = docs.final
<1>1. Keeps
  BY StepsKeep
<1>2. terminal[s] \in Terminals
  BY DEF Ended, TypesOK, FilesTypeOK
<1>3. FinalOf(s) \in Finals
  BY <1>2 DEF FinalOf, Finals, Terminals
<1>4. FinalOf(s) # Nothing
  BY <1>3, AttemptAssumption DEF AttemptAssumption
<1>5. terminal'[s] = terminal[s]
  BY <1>1 DEF Ended, Keeps
<1> QED BY <1>1, <1>4, <1>5 DEF Ended, FinalOf, Keeps, DocNames

LEMMA FinalDocSteps ==
  ASSUME TypesOK, EvidenceIInv, FinalIInv, [AttemptNext]_attemptVars
  PROVE  FinalIsTrue'
<1>1. /\ ClosedAreTrue /\ \A p \in Processes : process[p].stage \in Stages
      /\ script.stage \in Stages /\ DOMAIN docs = DocNames
  BY DEF EvidenceIInv, TypesOK, FilesTypeOK, ProcessTypeOK, ScriptTypeOK
<1>2. CASE docs.final # Nothing \/ docs.inventory # Nothing
  <2>1. PICK s \in Stages : docs.final = FinalOf(s) /\ Ended(s)
    BY <1>2 DEF FinalIInv, FinalIsTrue
  <2>2. docs'.final = FinalOf(s)' /\ Ended(s)'
    BY <1>1, <2>1, EndsStand
  <2> QED BY <2>2 DEF FinalIsTrue
<1>3. CASE docs.final = Nothing /\ docs.inventory = Nothing
  <2>1. CASE UNCHANGED docs
    BY <1>3, <2>1 DEF FinalIsTrue
  <2>2. ASSUME NEW d \in DocNames, NEW value, docs' = [docs EXCEPT ![d] = value],
               NEW s \in Stages, d = "final" => value = FinalOf(s) /\ Ended(s), d # "inventory"
        PROVE  FinalIsTrue'
    <3>1. CASE d = "final"
      <4>1. docs'.final = FinalOf(s)' /\ Ended(s)'
        BY <1>1, <2>2, <3>1, EndsStand
      <4> QED BY <4>1 DEF FinalIsTrue
    <3>2. CASE d # "final"
      BY <1>1, <1>3, <2>2, <3>2 DEF FinalIsTrue
    <3> QED BY <3>1, <3>2
  <2>3. ASSUME NEW s \in Stages, docs.final = FinalOf(s), Ended(s)
        PROVE  FALSE
    BY <1>1, <1>3, <2>3, EndsStand
  <2>4. ASSUME NEW d \in DocNames, NEW value, docs' = [docs EXCEPT ![d] = value],
               NEW p \in Processes, SealFinal(p), d = "final", value = FinalOf(process[p].stage)
        PROVE  FinalIsTrue'
    <3>1. Ended(process[p].stage)
      BY <2>4 DEF SealFinal, FinalIInv, SealerIsTrue
    <3> QED BY <1>1, <2>2, <2>4, <3>1
  <2>5. ASSUME NEW p \in Processes, SealInventory(p)
        PROVE  FALSE
    BY <1>1, <2>3, <2>5 DEF SealInventory, FinalIInv, SealerIsTrue
  <2>6. ASSUME NEW d \in DocNames, NEW value, docs' = [docs EXCEPT ![d] = value],
               script.todo # <<>>, d = Head(script.todo), value = Says(d)
        PROVE  FinalIsTrue'
    <3>1. d = "final" => value = FinalOf(script.stage) /\ Ended(script.stage)
      BY <2>6 DEF Says, FinalIInv, ScriptSealsTrue
    <3>2. d # "inventory"
      BY <1>1, <2>3, <2>6 DEF FinalIInv, ScriptSealsTrue
    <3> QED BY <1>1, <2>2, <2>6, <3>1, <3>2
  <2> QED BY <2>1, <2>4, <2>5, <2>6, DocSteps
<1> QED BY <1>2, <1>3

LEMMA SealerSteps ==
  ASSUME TypesOK, EvidenceIInv, FinalIInv, [AttemptNext]_attemptVars, NEW q \in Processes
  PROVE  SealerIsTrue(q)'
<1>1. /\ ClosedAreTrue /\ SealerIsTrue(q) /\ CloserIsTrue(q) /\ process[q].stage \in Stages
      /\ NoProcess.at = "none"
  BY DEF EvidenceIInv, ClosersAreTrue, FinalIInv, TypesOK, ProcessTypeOK, NoProcess
<1>2. ASSUME process'[q].at = process[q].at, process'[q].stage = process[q].stage
      PROVE  SealerIsTrue(q)'
  BY <1>1, <1>2, EndsStand DEF SealerIsTrue
<1>3. ASSUME process'[q].at \notin {"final", "inventory"}
      PROVE  SealerIsTrue(q)'
  BY <1>3 DEF SealerIsTrue
<1>4. ASSUME ProcessStep(q)
      PROVE  SealerIsTrue(q)'
  <2>1. CASE SealStage(q)
    <3>1. CASE process'[q].at = "final"
      <4>1. /\ terminal' = [terminal EXCEPT ![process[q].stage] = closed[process[q].stage]]
            /\ process[q].verdict # "completed_estimable" /\ process[q].at = "sealing"
            /\ process'[q].stage = process[q].stage
        BY <1>1, <2>1, <3>1 DEF SealStage, Leaves, Moves, TypesOK, ProcessTypeOK
      <4>2. closed[process[q].stage] # Nothing /\ closed[process[q].stage].verdict = process[q].verdict
        BY <1>1, <4>1 DEF CloserIsTrue
      <4>3. terminal'[process[q].stage] = closed[process[q].stage]
        BY <1>1, <4>1 DEF TypesOK, FilesTypeOK
      <4> QED BY <3>1, <4>1, <4>2, <4>3 DEF SealerIsTrue, Ended
    <3>2. CASE process'[q].at # "final"
      BY <1>1, <1>3, <2>1, <3>2 DEF SealStage, Leaves, Moves, TypesOK, ProcessTypeOK
    <3> QED BY <3>1, <3>2
  <2>2. CASE SealFinal(q)
    <3>1. CASE process'[q].at = "inventory"
      <4>1. /\ process[q].at = "final" /\ docs' = [docs EXCEPT !["final"] = FinalOf(process[q].stage)]
            /\ process'[q].stage = process[q].stage
        BY <1>1, <2>2, <3>1 DEF SealFinal, Written, Leaves, Moves, TypesOK, ProcessTypeOK
      <4>2. Ended(process[q].stage)
        BY <1>1, <4>1 DEF SealerIsTrue
      <4>3. docs'.final = FinalOf(process[q].stage)
        BY <4>1 DEF TypesOK, FilesTypeOK, DocNames
      <4>4. Ended(process[q].stage)' /\ FinalOf(process[q].stage)' = FinalOf(process[q].stage)
        <5> DEFINE s == process[q].stage
        <5>1. /\ terminal[s] # Nothing /\ terminal'[s] = terminal[s]
          BY <1>1, <2>2, <4>2 DEF SealFinal, stateVars, Ended
        <5> QED BY <4>1, <4>2, <5>1 DEF Ended, FinalOf
      <4> QED BY <3>1, <4>1, <4>3, <4>4 DEF SealerIsTrue
    <3>2. CASE process'[q].at # "inventory"
      BY <1>1, <1>3, <2>2, <3>2 DEF SealFinal, Leaves, Moves, TypesOK, ProcessTypeOK
    <3> QED BY <3>1, <3>2
  <2>3. CASE \/ TakeLock(q) \/ WriteClaim(q) \/ WriteFirstCheckpoint(q) \/ FindClaim(q) \/ EndStage(q)
             \/ CloseLedger(q) \/ SealInventory(q)
    BY <1>1, <1>3, <2>3 DEF TakeLock, WriteClaim, WriteFirstCheckpoint, FindClaim, EndStage,
       CloseLedger, SealInventory, Leaves, Moves, TypesOK, ProcessTypeOK
  <2>4. CASE StartStageClock(q)
    <3>1. process[q].at = "running" /\ (Moves(q, "broken") \/ process' = [process EXCEPT ![q].started = TRUE])
      BY <2>4 DEF StartStageClock
    <3> QED BY <1>3, <3>1 DEF Moves, TypesOK, ProcessTypeOK
  <2>5. CASE MakeCall(q)
    BY <1>2, <2>5 DEF MakeCall
  <2> QED BY <1>4, <2>1, <2>2, <2>3, <2>4, <2>5 DEF ProcessStep
<1>5. ASSUME NEW p \in Processes, ProcessStep(p), p # q
      PROVE  SealerIsTrue(q)'
  BY <1>2, <1>5, ProcessEffect
<1>6. CASE ScriptStep
  <2>1. process'[q] = process[q] \/ process'[q].at = "launched"
    BY <1>6, ScriptEffect DEF Launch, NoProcess, TypesOK, ProcessTypeOK
  <2> QED BY <1>2, <1>3, <2>1
<1>7. CASE WorldStep
  <2>1. process'[q] \in {process[q], NoProcess, [process[q] EXCEPT !.orphan = TRUE]}
    BY <1>7, WorldEffect
  <2> QED BY <1>1, <1>2, <1>3, <2>1 DEF TypesOK, ProcessTypeOK
<1>8. CASE UNCHANGED attemptVars
  BY <1>2, <1>8 DEF attemptVars
<1> QED BY <1>4, <1>5, <1>6, <1>7, <1>8 DEF AttemptNext

LEMMA ScriptSealSteps ==
  ASSUME TypesOK, EvidenceIInv, FinalIInv, [AttemptNext]_attemptVars
  PROVE  ScriptSealsTrue'
<1>1. /\ ClosedAreTrue /\ ScriptSealsTrue /\ script.stage \in Stages /\ NoScript.todo = <<>>
  BY DEF EvidenceIInv, FinalIInv, TypesOK, ScriptTypeOK, NoScript
<1>2. ASSUME UNCHANGED script
      PROVE  ScriptSealsTrue'
  BY <1>1, <1>2, EndsStand DEF ScriptSealsTrue
<1>3. ASSUME script'.todo = <<>> \/ Head(script'.todo) \notin {"final", "inventory"}
      PROVE  ScriptSealsTrue'
  BY <1>3 DEF ScriptSealsTrue
<1>4. ASSUME NEW s \in Stages, NEW todo, Does(todo, s, "down") \/ Does(todo, s, "idle"),
             Head(todo) = "final", UNCHANGED terminal, Ended(s)
      PROVE  ScriptSealsTrue'
  BY <1>4 DEF Does, ScriptSealsTrue, Ended
<1>5. CASE WriteDocument
  <2>1. script.at = "writing" /\ script.todo \in Commands /\ UNCHANGED terminal
    BY <1>5 DEF WriteDocument, TypesOK, ScriptTypeOK, stateVars
  <2>2. \/ /\ Tail(script.todo) # <<>> /\ script' = [script EXCEPT !.todo = Tail(script.todo)]
           /\ docs' = [docs EXCEPT ![Head(script.todo)] = Says(Head(script.todo))]
        \/ script' = [NoScript EXCEPT !.at = script.after]
    BY <1>5 DEF WriteDocument, Written
  <2>3. CASE script' = [NoScript EXCEPT !.at = script.after]
    BY <1>3, <2>3 DEF NoScript
  <2>4. CASE /\ Tail(script.todo) # <<>> /\ script' = [script EXCEPT !.todo = Tail(script.todo)]
             /\ docs' = [docs EXCEPT ![Head(script.todo)] = Says(Head(script.todo))]
    <3>1. script'.todo = Tail(script.todo) /\ script'.stage = script.stage /\ script.todo # <<>>
      BY <2>1, <2>4, CommandTails DEF TypesOK, ScriptTypeOK
    <3>2. CASE Head(Tail(script.todo)) = "inventory"
      <4>1. Head(script.todo) = "final"
        BY <2>1, <2>4, <3>2, CommandTails
      <4>2. Ended(script.stage)
        BY <1>1, <3>1, <4>1 DEF ScriptSealsTrue
      <4>3. docs'.final = FinalOf(script.stage)
        BY <2>4, <4>1 DEF Says, TypesOK, FilesTypeOK, DocNames
      <4> QED BY <2>1, <3>1, <3>2, <4>2, <4>3 DEF ScriptSealsTrue, Ended, FinalOf
    <3>3. CASE Head(Tail(script.todo)) # "inventory"
      <4>1. Head(Tail(script.todo)) # "final"
        BY <2>1, <2>4, CommandTails
      <4> QED BY <1>3, <3>1, <3>3, <4>1
    <3> QED BY <3>2, <3>3
  <2> QED BY <2>2, <2>3, <2>4
<1>6. CASE ContinueAfterScreening
  <2>1. /\ Does(<<"final", "inventory", "publication", "t7">>, "screening", "down")
        /\ UNCHANGED terminal /\ Ended("screening") /\ "screening" \in Stages
    BY <1>6 DEF ContinueAfterScreening, stateVars, Ended, Stages
  <2>2. Head(<<"final", "inventory", "publication", "t7">>) = "final"
    OBVIOUS
  <2> QED BY <1>4, <2>1, <2>2
<1>7. ASSUME NEW s \in Stages, FinalizeAfterStageExit(s)
      PROVE  ScriptSealsTrue'
  <2>1. Does(<<"final", "inventory">>, s, "idle") /\ UNCHANGED terminal /\ Ended(s)
    BY <1>7 DEF FinalizeAfterStageExit, stateVars, Ended
  <2>2. Head(<<"final", "inventory">>) = "final"
    OBVIOUS
  <2> QED BY <1>4, <2>1, <2>2
<1>8. CASE ReconcileOutcome \/ ReconcileRest \/ FinalizePreclaim \/ PublishReceipt \/ RecordT7
  <2>1. /\ Head(<<"t7">>) = "t7" /\ Head(<<"skip", "t7">>) = "skip"
        /\ Head(<<"publication">>) = "publication"
    OBVIOUS
  <2>2. script'.todo \in {<<"t7">>, <<"skip", "t7">>, <<"publication">>, <<>>}
    BY <1>8 DEF ReconcileOutcome, ReconcileRest, FinalizePreclaim, PublishReceipt, RecordT7, Does,
       NoScript
  <2> QED BY <1>3, <2>1, <2>2
<1>9. CASE \/ Prepare \/ Return \/ Freeze \/ ScriptStops
           \/ \E p \in Processes, s \in Stages : Launch(p, s)
  <2>1. script.at \in {"idle", "waiting"} => script.todo = <<>>
    BY DEF TypesOK, ScriptTypeOK
  <2>2. UNCHANGED script \/ script'.todo = <<>>
    <3>1. CASE Prepare \/ Freeze
      BY <3>1 DEF Prepare, Freeze
    <3>2. CASE ScriptStops
      BY <3>2 DEF ScriptStops, NoScript
    <3>3. CASE Return \/ \E p \in Processes, s \in Stages : Launch(p, s)
      <4>1. /\ script.at \in {"idle", "waiting"}
            /\ script' = [script EXCEPT !.at = "idle"] \/ script' = [script EXCEPT !.at = "waiting"]
        BY <3>3 DEF Return, Launch
      <4> QED BY <2>1, <4>1 DEF TypesOK, ScriptTypeOK
    <3> QED BY <1>9, <3>1, <3>2, <3>3
  <2> QED BY <1>2, <1>3, <2>2
<1>10. CASE ~ ScriptStep
  BY <1>1, <1>2, <1>3, <1>10, ProcessEffect, WorldEffect DEF AttemptNext, attemptVars
<1> QED BY <1>5, <1>6, <1>7, <1>8, <1>9, <1>10 DEF ScriptStep

\* The inventory of an attempt with a call in its last stage lists what is there.
InventoryIInv ==
  docs.inventory # Nothing =>
    /\ doubled = {}
    /\ calls[docs.final.stage] > 0 => docs.inventory = Files

\* The attempt ends with screening that leaves no BCT, or with BCT.
LEMMA LastOfStages ==
  ASSUME TypesOK, EvidenceIInv, FreezeIInv, NEW s \in Stages, Ended(s)
  PROVE  /\ terminal["screening"] # Nothing /\ closed["screening"] # Nothing
         /\ closed[s] # Nothing /\ terminal[s] = closed[s]
         /\ \/ /\ s = "screening" /\ ~ frozen
               /\ closed["bct"] = Nothing /\ terminal["bct"] = Nothing /\ calls["bct"] = 0
               /\ \A p \in Processes : process[p].at # "none" => process[p].stage = "screening"
            \/ /\ s = "bct" /\ frozen /\ terminal["bct"] # Nothing /\ closed["bct"] # Nothing
               /\ terminal["screening"].verdict = "completed_estimable"
<1>1. \A r \in Stages : terminal[r] # Nothing => terminal[r] = closed[r]
  BY DEF EvidenceIInv, ClosedAreTrue
<1>2. "screening" \in Stages /\ "bct" \in Stages /\ Stages = {"screening", "bct"}
  BY DEF Stages
<1>3. CASE s = "screening"
  <2>1. ~ frozen
    BY <1>3 DEF Ended, FreezeIInv
  <2>2. calls["bct"] \in Nat /\ ~ (calls["bct"] > 0) /\ closed["bct"] = Nothing
    BY <1>2, <2>1 DEF FreezeIInv, TypesOK, FilesTypeOK
  <2>3. \A p \in Processes : process[p].at # "none" => process[p].stage = "screening"
    BY <1>2, <2>1 DEF FreezeIInv, TypesOK, ProcessTypeOK
  <2> QED BY <1>1, <1>2, <1>3, <2>1, <2>2, <2>3 DEF Ended
<1>4. CASE s = "bct"
  <2>1. closed["bct"] # Nothing
    BY <1>1, <1>2, <1>4 DEF Ended
  <2> QED BY <1>1, <1>2, <1>4, <2>1 DEF Ended, FreezeIInv
<1> QED BY <1>2, <1>3, <1>4

\* After the end of an attempt with a call in its last stage, no checkpoint is added.
LEMMA EndedChainStands ==
  ASSUME TypesOK, EvidenceIInv, FreezeIInv, ClockIInv, [AttemptNext]_attemptVars,
         NEW s \in Stages, Ended(s), calls[s] > 0
  PROVE  UNCHANGED clocks
<1>1. \/ /\ s = "screening" /\ Len(clocks) >= 2
         /\ \A p \in Processes : process[p].at # "none" => process[p].stage = "screening"
      \/ s = "bct" /\ Len(clocks) = 3
  BY LastOfStages DEF ClockIInv, ChainIsTrue, Stages
<1>2. Len(clocks) \in Nat /\ Len(clocks) >= 2 /\ Len(clocks) <= 3
  BY <1>1 DEF TypesOK, FilesTypeOK, ClockIInv, ChainIsTrue
<1>3. ASSUME NEW p \in Processes, StartStageClock(p), ~ UNCHANGED clocks
      PROVE  FALSE
  <2>1. StageClock(process[p].stage) = "new" /\ process[p].at = "running"
    BY <1>3 DEF StartStageClock
  <2>2. Len(clocks) = 2 /\ process[p].stage = "bct"
    BY <1>2, <2>1 DEF StageClock
  <2> QED BY <1>1, <2>1, <2>2
<1>4. ASSUME NEW p \in Processes, WriteFirstCheckpoint(p)
      PROVE  FALSE
  <2>1. clocks = <<>>
    BY <1>4 DEF WriteFirstCheckpoint, ClockIInv, ClockIsKnown
  <2> QED BY <1>2, <2>1
<1>5. ASSUME NEW p \in Processes, ProcessStep(p)
      PROVE  UNCHANGED clocks
  BY <1>3, <1>4, <1>5 DEF ProcessStep, TakeLock, WriteClaim, FindClaim, MakeCall, EndStage,
     CloseLedger, SealStage, SealFinal, SealInventory, stateVars
<1> QED BY <1>5, ScriptEffect, WorldEffect DEF AttemptNext, attemptVars, stateVars, fixedVars

\* A terminal that is written was closed before, and its stage has a process.
LEMMA TerminalsOwned ==
  ASSUME TypesOK, [AttemptNext]_attemptVars, NEW s \in Stages, terminal'[s] # terminal[s]
  PROVE  \E p \in Processes : process[p].at # "none" /\ process[p].stage = s
<1>1. ASSUME NEW p \in Processes, ProcessStep(p)
      PROVE  SealStage(p)
  BY <1>1 DEF ProcessStep, TakeLock, WriteClaim, WriteFirstCheckpoint, FindClaim,
     StartStageClock, MakeCall, EndStage, CloseLedger, SealFinal, SealInventory, stateVars
<1>2. ASSUME NEW p \in Processes, SealStage(p)
      PROVE  process[p].at # "none" /\ process[p].stage = s
  BY <1>2 DEF SealStage, TypesOK, FilesTypeOK
<1>3. ASSUME NEW p \in Processes, process[p].at = "sealing", DoubleTerminal(process[p].stage)
      PROVE  process[p].at # "none" /\ process[p].stage = s
  BY <1>3 DEF DoubleTerminal, TypesOK, FilesTypeOK
<1> QED BY <1>1, <1>2, <1>3, ScriptEffect, WorldEffect DEF AttemptNext, attemptVars, stateVars

LEMMA EndedFilesStand ==
  ASSUME TypesOK, EvidenceIInv, FreezeIInv, ClockIInv, [AttemptNext]_attemptVars,
         NEW s \in Stages, Ended(s), docs.final = FinalOf(s)
  PROVE  /\ UNCHANGED calls
         /\ calls[s] > 0 => Files' = Files
         /\ doubled = {} => doubled' = {}
<1>1. /\ Keeps /\ ClosedAreTrue /\ "screening" \in Stages /\ "bct" \in Stages
      /\ Stages = {"screening", "bct"}
  BY StepsKeep DEF EvidenceIInv, Stages
<1>2. docs'.final = docs.final
  BY <1>1, EndsStand
<1>3. \A r \in Stages : closed[r] = Nothing \/ terminal[r] = Nothing =>
        ~ \E p \in Processes : process[p].at # "none" /\ process[p].stage = r
  <2> SUFFICES ASSUME NEW r \in Stages, closed[r] = Nothing \/ terminal[r] = Nothing,
                      NEW p \in Processes, process[p].at # "none", process[p].stage = r
               PROVE  FALSE
    OBVIOUS
  <2> QED BY <1>1, LastOfStages
<1>4. \A r \in Stages : closed'[r] = closed[r] /\ calls'[r] = calls[r] /\ terminal'[r] = terminal[r]
  BY <1>1, <1>3, StagesOwn, TerminalsOwned DEF Keeps
<1>5. /\ closed \in [Stages -> Terminals \cup {Nothing}] /\ calls \in [Stages -> Nat]
      /\ terminal \in [Stages -> Terminals \cup {Nothing}]
  BY DEF TypesOK, FilesTypeOK
<1>6. /\ calls' \in [Stages -> Nat]
      /\ closed' \in [Stages -> Terminals \cup {Nothing}]
      /\ terminal' \in [Stages -> Terminals \cup {Nothing}]
  BY FilesTypeSteps DEF FilesTypeOK
<1>7. UNCHANGED <<calls, closed, terminal>>
  BY <1>4, <1>5, <1>6
<1>8. frozen' = frozen
  <2>1. Freeze => FALSE
    BY LastOfStages DEF Freeze, Ended
  <2> QED BY <2>1, ProcessEffect, ScriptEffect, WorldEffect DEF AttemptNext, attemptVars,
        stateVars, fixedVars
<1>9. calls[s] > 0 => UNCHANGED <<claim, clocks>>
  <2>1. calls[s] > 0 => Len(clocks) >= 2 \/ Len(clocks) = 3
    BY <1>1 DEF ClockIInv, ChainIsTrue
  <2>2. calls[s] > 0 => claim # Nothing
    <3>1. clocks = <<>> => Len(clocks) = 0
      OBVIOUS
    <3> QED BY <2>1, <3>1 DEF ClockIInv, ChainIsTrue
  <2> QED BY <1>1, <2>2, EndedChainStands DEF Keeps
<1>10. doubled = {} => doubled' = {}
  <2>1. ASSUME NEW p \in Processes, process[p].at = "sealing", DoubleTerminal(process[p].stage)
        PROVE  FALSE
    <3>1. terminal[process[p].stage] = Nothing /\ process[p].stage \in Stages
      BY <2>1 DEF DoubleTerminal, TypesOK, ProcessTypeOK
    <3> QED BY <1>3, <2>1, <3>1
  <2>2. ASSUME NEW p \in Processes, ProcessStep(p)
        PROVE  doubled' \subseteq doubled
    BY <2>2 DEF ProcessStep, TakeLock, WriteClaim, WriteFirstCheckpoint, FindClaim,
       StartStageClock, MakeCall, EndStage, CloseLedger, SealStage, SealFinal, SealInventory,
       Written, docVars
  <2> QED BY <2>1, <2>2, ScriptEffect, WorldEffect DEF AttemptNext, attemptVars, docVars
<1> QED BY <1>2, <1>7, <1>8, <1>9, <1>10 DEF Files

LEMMA InventorySteps ==
  ASSUME TypesOK, EvidenceIInv, FreezeIInv, ClockIInv, FinalIInv, InventoryIInv,
         [AttemptNext]_attemptVars
  PROVE  InventoryIInv'
<1> SUFFICES ASSUME docs'.inventory # Nothing PROVE InventoryIInv'
  BY DEF InventoryIInv
<1>1. Keeps /\ ClosedAreTrue /\ DOMAIN docs = DocNames
  BY StepsKeep DEF EvidenceIInv, TypesOK, FilesTypeOK
<1>2. CASE docs.inventory # Nothing
  <2>1. PICK s \in Stages : docs.final = FinalOf(s) /\ Ended(s)
    BY <1>2 DEF FinalIInv, FinalIsTrue
  <2>2. /\ docs'.inventory = docs.inventory /\ docs'.final = docs.final
    BY <1>1, <1>2, <2>1, EndsStand DEF Keeps, DocNames
  <2>3. docs.final.stage = s
    BY <2>1 DEF FinalOf
  <2>4. /\ UNCHANGED calls /\ doubled' = {}
        /\ calls[s] > 0 => Files' = Files
    BY <1>2, <2>1, EndedFilesStand DEF InventoryIInv
  <2> QED BY <1>2, <2>2, <2>3, <2>4 DEF InventoryIInv
<1>3. CASE docs.inventory = Nothing
  <2>1. PICK d \in DocNames : \E value :
           /\ docs' = [docs EXCEPT ![d] = value]
           /\ \/ \E p \in Processes : SealFinal(p) /\ d = "final"
              \/ \E p \in Processes : /\ SealInventory(p) /\ d = "inventory"
                                      /\ value = Files /\ CanInventory
              \/ /\ WriteDocument /\ script.todo # <<>> /\ d = Head(script.todo)
                 /\ value = Says(d) /\ Demands(d)
    BY <1>3, DocSteps
  <2>2. d = "inventory"
    BY <1>1, <1>3, <2>1
  <2>3. docs' = [docs EXCEPT !["inventory"] = Files] /\ CanInventory
    BY <2>1, <2>2 DEF Says, Demands
  <2>4. UNCHANGED <<stateVars, doubled>>
    <3>1. ASSUME NEW p \in Processes, SealInventory(p)
          PROVE  UNCHANGED <<stateVars, doubled>>
      BY <3>1 DEF SealInventory, Written, docVars
    <3>2. WriteDocument => UNCHANGED <<stateVars, doubled>>
      BY DEF WriteDocument, Written, docVars
    <3> QED BY <2>1, <2>2, <3>1, <3>2
  <2>5. docs'.inventory = Files /\ docs'.final = docs.final
    BY <1>1, <2>3 DEF DocNames
  <2>6. Files' = Files
    BY <2>4, <2>5 DEF Files, stateVars
  <2> QED BY <2>3, <2>4, <2>5, <2>6 DEF InventoryIInv, CanInventory
<1> QED BY <1>2, <1>3

-------------------------------------------------------------------------------
(* The theorems.                                                               *)

AttemptIInv ==
  /\ TypesOK /\ LockIInv /\ EvidenceIInv /\ ClockIInv /\ TimeIInv /\ FreezeIInv
  /\ PublicationIInv /\ SkipIInv /\ ReportIInv /\ FinalIInv /\ InventoryIInv

LEMMA AttemptStart ==
  ASSUME AttemptInit
  PROVE  AttemptIInv
<1> USE DEF AttemptInit
<1>1. NoProcess.at = "none" /\ ~ NoProcess.started /\ NoScript.todo = <<>> /\ NoScript.at = "down"
  BY DEF NoProcess, NoScript
<1>2. TypesOK
  <2>1. FilesTypeOK
    <3>1. clocks \in Seq(Checkpoints)
      OBVIOUS
    <3>2. DOMAIN docs = DocNames
      BY DEF DocNames
    <3>3. {frozen, marked, strayed} \subseteq BOOLEAN
      OBVIOUS
    <3>4. {boot, now, steps} \subseteq Nat /\ doubled \subseteq Stages
      OBVIOUS
    <3>5. /\ calls \in [Stages -> Nat]
          /\ closed \in [Stages -> Terminals \cup {Nothing}]
          /\ terminal \in [Stages -> Terminals \cup {Nothing}]
      OBVIOUS
    <3> QED BY <3>1, <3>2, <3>3, <3>4, <3>5 DEF FilesTypeOK
  <2>2. ProcessTypeOK
    BY DEF ProcessTypeOK, NoProcess, Places, Stages
  <2>3. ScriptTypeOK
    BY DEF ScriptTypeOK, NoScript, Stages
  <2> QED BY <2>1, <2>2, <2>3 DEF TypesOK
<1>3. LockIInv
  BY <1>1, AttemptAssumption DEF LockIInv, Inside, AttemptAssumption
<1>4. EvidenceIInv
  BY <1>1 DEF EvidenceIInv, ClosedAreTrue, ClosersAreTrue, CloserIsTrue
<1>5. ClockIInv /\ TimeIInv
  <2>1. Len(clocks) = 0 /\ DOMAIN clocks = {} /\ 0 \in Nat /\ steps = 0
    OBVIOUS
  <2>2. /\ calls["screening"] = 0 /\ calls["bct"] = 0
        /\ \A p \in Processes : process[p] = NoProcess
    BY DEF Stages
  <2>3. OneBoot /\ InOrder
    BY <2>1 DEF OneBoot, InOrder
  <2> QED BY <1>1, <2>1, <2>2, <2>3 DEF ClockIInv, ChainIsTrue, ClockIsKnown, TimeIInv
<1>6. FreezeIInv
  BY <1>1 DEF FreezeIInv, Stages
<1>7. PublicationIInv /\ ReportIInv /\ FinalIInv /\ InventoryIInv
  BY <1>1 DEF PublicationIInv, ReportIInv, FinalIInv, FinalIsTrue, SealerIsTrue, ScriptSealsTrue,
     InventoryIInv
<1>8. SkipIInv
  BY <1>1 DEF SkipIInv, Watched, NoScript, NoProcess
<1> QED BY <1>2, <1>3, <1>4, <1>5, <1>6, <1>7, <1>8 DEF AttemptIInv

LEMMA AttemptSteps ==
  ASSUME AttemptIInv, [AttemptNext]_attemptVars
  PROVE  AttemptIInv'
<1> USE DEF AttemptIInv
<1>1. TypesOK'
  <2>1. FilesTypeOK'
    BY FilesTypeSteps
  <2>2. ProcessTypeOK' /\ ScriptTypeOK'
    BY ProcessSteps, ScriptSteps DEF TypesOK
  <2> QED BY <2>1, <2>2 DEF TypesOK
<1>2. LockIInv'
  BY LockSteps
<1>3. EvidenceIInv'
  BY ClosedSteps, ClosersSteps DEF EvidenceIInv
<1>4. ClockIInv'
  BY ClockSteps
<1>5. TimeIInv' /\ FreezeIInv' /\ PublicationIInv' /\ SkipIInv' /\ ReportIInv'
  BY TimeSteps, FreezeSteps, PublicationSteps, SkipSteps, ReportSteps
<1>6. FinalIInv'
  BY FinalDocSteps, SealerSteps, ScriptSealSteps DEF FinalIInv
<1>7. InventoryIInv'
  BY InventorySteps
<1> QED BY <1>1, <1>2, <1>3, <1>4, <1>5, <1>6, <1>7

\* What holds of the state of an attempt at every step of it: types, the lock, the
\* evidence of stages that were closed, the chain of clock checkpoints, and what is
\* sealed, published and reported.
THEOREM AttemptInvariant == AttemptSpec => []AttemptIInv
<1>1. AttemptInit => AttemptIInv
  BY AttemptStart
<1>2. AttemptIInv /\ [AttemptNext]_attemptVars => AttemptIInv'
  BY AttemptSteps
<1> QED BY <1>1, <1>2, PTL DEF AttemptSpec

\* The report of an attempt is true from the moment it is written on: its calls are
\* those of the ledger, and it says zero calls exactly when nothing was claimed,
\* unless a process that outlived its script took the lock (record_t7).
THEOREM AttemptReportIsTrue == AttemptSpec => []ReportIsTrue
<1>1. AttemptIInv => ReportIsTrue
  <2> SUFFICES ASSUME AttemptIInv, docs.t7 # Nothing, ~ strayed
               PROVE  /\ docs.t7.calls = IssuedTotal
                      /\ docs.t7.outcome = "zero_call_skip" <=> claim = Nothing
    BY DEF ReportIsTrue
  <2>1. CASE docs.skip # Nothing /\ docs.t7 = [outcome |-> "zero_call_skip", calls |-> 0]
    <3>1. claim = Nothing
      BY <2>1 DEF AttemptIInv, SkipIInv
    <3>2. Len(clocks) = 0
      BY <3>1 DEF AttemptIInv, ClockIInv, ChainIsTrue
    <3>3. calls["screening"] = 0 /\ calls["bct"] = 0
      BY <3>2 DEF AttemptIInv, ClockIInv, ChainIsTrue, TypesOK, FilesTypeOK, Stages
    <3> QED BY <2>1, <3>1, <3>3 DEF IssuedTotal
  <2>2. CASE docs.publication # Nothing /\ docs.t7 = [outcome |-> "paid_attempt", calls |-> IssuedTotal]
    BY <2>2 DEF AttemptIInv, PublicationIInv
  <2> QED BY <2>1, <2>2 DEF AttemptIInv, ReportIInv
<1> QED BY <1>1, AttemptInvariant, PTL

\* An attempt with its final terminal and its inventory, whose last stage made a call,
\* and was reviewed if it was BCT, passes every check of publish_from_root from then
\* on, whoever dies, as long as the clock is not set back.
THEOREM AttemptSealedIsPublishable == AttemptSpec => []SealedIsPublishable
<1>1. AttemptIInv => SealedIsPublishable
  <2> SUFFICES ASSUME AttemptIInv, docs.final # Nothing, docs.inventory # Nothing,
                      calls[docs.final.stage] > 0,
                      docs.final.stage = "bct" => docs.final.verdict = "review_required",
                      steps = 0
               PROVE  Publishable
    BY DEF SealedIsPublishable
  <2> USE DEF AttemptIInv
  <2>1. PICK s \in Stages : docs.final = FinalOf(s) /\ Ended(s)
    BY DEF FinalIInv, FinalIsTrue
  <2>2. docs.final.stage = s /\ docs.final.verdict = terminal[s].verdict
    BY <2>1 DEF FinalOf
  <2>3. CanInventory /\ docs.inventory = Files
    BY <2>2 DEF InventoryIInv, CanInventory
  <2>4. LastStage = s /\ terminal["screening"] # Nothing
    BY <2>1, LastOfStages DEF LastStage
  <2>5. s = "screening" => docs.final.verdict \in {"not_estimable", "blocked", "interrupted"}
    <3>1. s = "screening" => closed[s].verdict \in VerdictsOf("screening")
      BY <2>1, LastOfStages DEF EvidenceIInv, ClosedAreTrue
    <3> QED BY <2>1, <2>2, <3>1, LastOfStages DEF VerdictsOf, Ended
  <2>6. s = "bct" => /\ terminal["screening"].verdict = "completed_estimable"
                     /\ terminal["bct"].verdict = "review_required"
    BY <2>1, <2>2, LastOfStages
  <2>7. ChainComplete(s)
    <3>1. /\ Len(clocks) \in Nat /\ Len(clocks) <= 3 /\ ChainIsTrue /\ InOrder
      BY DEF ClockIInv, ChainIsTrue, TypesOK, FilesTypeOK, TimeIInv
    <3>2. CASE s = "screening"
      <4>1. Len(clocks) = 2
        <5>1. ~ frozen
          BY <2>1, <3>2, LastOfStages
        <5>2. Len(clocks) >= 2 /\ Len(clocks) # 3
          BY <2>2, <3>1, <3>2, <5>1 DEF ChainIsTrue
        <5> QED BY <3>1, <5>2, UpToThree
      <4>2. StagesUpTo(s) = <<"screening">>
        BY <3>2 DEF StagesUpTo
      <4> QED BY <3>1, <4>1, <4>2 DEF ChainComplete, ChainIsTrue
    <3>3. CASE s = "bct"
      <4>1. Len(clocks) = 3
        BY <2>2, <3>1, <3>3 DEF ChainIsTrue
      <4>2. StagesUpTo(s) = <<"screening", "bct">>
        BY <3>3 DEF StagesUpTo
      <4>3. /\ clocks[2].stage = "screening" /\ clocks[3].stage = "bct"
            /\ clocks # <<>> /\ OneBoot
        <5>1. clocks = <<>> => Len(clocks) = 0
          OBVIOUS
        <5>2. Len(clocks) >= 2
          BY <4>1
        <5> QED BY <3>1, <4>1, <5>1, <5>2 DEF ChainIsTrue
      <4>4. claim # Nothing /\ clocks[1].stage = Nothing /\ clocks[1].at = claim
        BY <3>1, <4>3 DEF ChainIsTrue
      <4>5. /\ Len(StagesUpTo(s)) = 2 /\ DOMAIN StagesUpTo(s) = {1, 2}
            /\ StagesUpTo(s)[1] = "screening" /\ StagesUpTo(s)[2] = "bct"
        BY <4>2
      <4>6. \A i \in DOMAIN StagesUpTo(s) : clocks[i + 1].stage = StagesUpTo(s)[i]
        BY <4>3, <4>5
      <4> QED BY <3>1, <4>1, <4>3, <4>4, <4>5, <4>6 DEF ChainComplete
    <3> QED BY <3>2, <3>3 DEF Stages
  <2> QED BY <2>1, <2>3, <2>4, <2>5, <2>6, <2>7 DEF Publishable
<1> QED BY <1>1, AttemptInvariant, PTL

===============================================================================
