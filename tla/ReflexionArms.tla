----------------------------- MODULE ReflexionArms ------------------------------
(***************************************************************************)
(* The Reflexion memory in the three matched arms of a phase-12 seed       *)
(* (_run_seeds of pilot_a_scientific.py): a clean prefix over all tasks,   *)
(* a checkpoint after each; one mature checkpoint selected; the arms clean *)
(* and contam (the false root appended) and filter (the root appended, and *)
(* what a reader sees partitioned by evidence) built from it; and each arm *)
(* run over the same suffix tasks.                                         *)
(*                                                                         *)
(* An arm keeps its memory three times: state.reflections, the active and  *)
(* quarantined entries of state.filter_state with their envelopes, and,    *)
(* while a trial runs, the list the prompts are made of.  The hook         *)
(* after_reflection keeps them in step.  Entries are numbered in the order *)
(* they are appended, so that a list in append order is a set of numbers;  *)
(* their ids are fresh (uuid4), their contents and hashes never differ     *)
(* between an entry and its envelope.  Arms are deep copies and run one    *)
(* after another, so only the running arm's memory is kept.                *)
(***************************************************************************)
EXTENDS ArmTrials, Sequences

CONSTANTS
  Tasks,        \* number of tasks of the prefix
  Capacity      \* active_capacity

ASSUME ArmsAssumption ==
  /\ Tasks \in Nat \ {0} /\ Horizon \in Nat \ {0}
  /\ Capacity \in Nat \ {0} /\ Window \in Nat \ {0}
  /\ MaxAttempts \in 1 .. 2

VARIABLES
  phase,        \* what the seed is doing
  trial,        \* order_key of the next or running trial
  attempt,      \* attempt_index of the running trial, 0 between trials
  cards,        \* entry -> what its envelope records
  checkpoints,  \* prefix trial -> the checkpoint taken after it
  arm,          \* the arm that is running
  base,         \* entries of the selected checkpoint
  root,         \* the injected root, 0 in the prefix
  reflections,  \* state.reflections
  active,       \* filter_state.active
  vouched,      \* filter_state.active_envelopes
  quarantined,  \* filter_state.quarantine and quarantined_envelopes
  evidence,     \* admission_context.evidence_envelopes
  pending,      \* entries partition_native_checkpoint has not come to
  legacy,       \* legacy_state.reflections of the running trial
  hidden,       \* those retyped "quarantined_reflection"
  visible,      \* visible_entries of the running attempt
  fault         \* code of the contract error that ended the seed

seedVars == <<phase, trial, checkpoints, arm, base, root, fault>>
filterVars == <<active, vouched, quarantined, evidence>>
trialVars == <<attempt, legacy, hidden, visible>>
armsVars == <<seedVars, cards, reflections, filterVars, pending, trialVars>>

NoFault == "none"

\* _reflection_order_key
OrderKey(t, a) == t * 1000 + a

-------------------------------------------------------------------------------
(* The operational filter. *)

\* validate_memory_envelope: a registered writer, which names its trial, and
\* parents that are known and earlier.
ValidEnvelope(deck, e, known) ==
  /\ deck[e].writer = "reflexion_reflector" /\ deck[e].trial # 0
  /\ \A p \in deck[e].parents : p \in known /\ deck[p].order < deck[e].order

\* Faulty variant: an entry without false parents is admitted.
Admitted_ByParents(deck, e, record, activeSet, quarantineSet) ==
  deck[e].parents \subseteq activeSet \ quarantineSet

\* evaluate_admission: valid, its writing on record (writer_event_ids and
\* trial_record_ids are those of the evidence), every parent active and none
\* quarantined.  The root's envelope is known, but not on record.
Admitted(deck, e, record, activeSet, quarantineSet) ==
  /\ ValidEnvelope(deck, e, (record \cup activeSet \cup quarantineSet \cup {root}) \ {e})
  /\ e \in record
  /\ deck[e].parents \subseteq activeSet \ quarantineSet

-------------------------------------------------------------------------------
(* A trial. *)

Filtering == arm = "filter"

\* _active_reflections
ReaderView == IF Filtering THEN active ELSE reflections

Fault(code) ==
  /\ fault' = code /\ phase' = "failed"
  /\ UNCHANGED <<trial, checkpoints, arm, base, root>>

\* A prefix trial is followed by a checkpoint of the state it leaves.
TrialEnds ==
  /\ attempt' = 0 /\ legacy' = {} /\ hidden' = {} /\ visible' = {}
  /\ trial' = trial + 1
  /\ checkpoints' =
       IF arm = "prefix"
       THEN Append(checkpoints, [held |-> reflections', written |-> Len(cards')])
       ELSE checkpoints
  /\ UNCHANGED <<phase, arm, base, root, fault>>

LastTrial == IF arm = "prefix" THEN Tasks ELSE Len(checkpoints) + Horizon

\* execute: the prompts of a trial start from what the reader may see.
BeginTrial ==
  /\ phase \in {"prefix", "suffix"}
  /\ attempt = 0 /\ trial <= LastTrial
  /\ IF ReaderView \subseteq reflections
     THEN /\ attempt' = 1
          /\ legacy' = ReaderView /\ hidden' = {}
          /\ visible' = Newest(ReaderView, Window)
          /\ UNCHANGED seedVars
     ELSE Fault("FILTER_ACTIVE_REFLECTION_MISSING") /\ UNCHANGED trialVars
  /\ UNCHANGED <<cards, reflections, filterVars, pending>>

Attempting == phase \in {"prefix", "suffix"} /\ attempt > 0

\* The answer is right, or a call, its parsing or the verifier fails: the trial
\* ends with the reflections written so far.
EndTrial ==
  /\ Attempting
  /\ UNCHANGED <<cards, reflections, filterVars, pending>>
  /\ TrialEnds

\* _route_filter_write of the entry e, whose parents are known to be visible:
\* it joins the active or the quarantined entries.
RouteWrite(e) ==
  IF Filtering
  THEN /\ evidence' = evidence \cup {e}
       /\ quarantined' = IF Admitted(cards', e, evidence', vouched, quarantined)
                         THEN quarantined ELSE quarantined \cup {e}
  ELSE UNCHANGED <<evidence, quarantined>>

\* A rejected write is retyped, so that the next attempt is not shown it.
Hides(e) == e \in quarantined' /\ attempt < MaxAttempts

\* Faulty variant: what is held back counts against the capacity.
Evicted_CountsAll(e) ==
  LET held == reflections \cup {e}
  IN IF Hides(e) THEN {} ELSE held \ Newest(held, Capacity)

\* _enforce_active_capacity, which a hidden write does not come to: while the
\* reader sees too many, the oldest it sees leaves every list.
Evicted(e) ==
  LET seen == ReaderView \cup (IF e \in quarantined' THEN {} ELSE {e})
  IN IF Hides(e) THEN {} ELSE seen \ Newest(seen, Capacity)

\* The lists of the filter, which only its own arm touches: an admitted write is
\* appended, and _remove_from_filter_active_state takes the evicted out.
KeptIn(list, e) ==
  IF Filtering THEN (list \cup ({e} \ quarantined')) \ Evicted(e) ELSE list

\* _remove_reflection from the list the next prompt is made of.
LegacyAfter(e) == (legacy \cup {e}) \ Evicted(e)

HiddenAfter(e) == hidden \cup (IF Hides(e) THEN {e} ELSE {})

NextAttempt(e) ==
  /\ attempt' = attempt + 1
  /\ legacy' = LegacyAfter(e) /\ hidden' = HiddenAfter(e)
  /\ visible' = Newest(legacy' \ hidden', Window)
  /\ UNCHANGED seedVars

\* after_reflection, with the entry that _append_reflection made, and the
\* attempt that follows.
Reflect(parents) ==
  LET e == Len(cards) + 1
  IN /\ Attempting
     /\ parents \subseteq visible
     /\ cards' = Append(cards, [parents |-> parents, trial |-> trial,
                                order |-> OrderKey(trial, attempt),
                                writer |-> "reflexion_reflector"])
     /\ IF parents \subseteq legacy
        THEN /\ RouteWrite(e)
             /\ reflections' = (reflections \cup {e}) \ Evicted(e)
             /\ active' = KeptIn(active, e) /\ vouched' = KeptIn(vouched, e)
             /\ IF attempt = MaxAttempts THEN TrialEnds ELSE NextAttempt(e)
        ELSE /\ Fault("FUTURE_REFLECTION_ACCESS")
             /\ UNCHANGED <<reflections, filterVars, trialVars>>
     /\ UNCHANGED pending

-------------------------------------------------------------------------------
(* Selection, the branches and the suffix. *)

\* Faulty variant: a full memory is mature.
Mature_WhenFull(i) ==
  /\ Cardinality(checkpoints[i].held) \in 1 .. Capacity
  /\ Tasks - i >= Horizon

\* evaluate_maturity, _baseline_readiness_reasons and the suffix horizon.
Mature(i) ==
  /\ Cardinality(checkpoints[i].held) \in 1 .. Capacity - 1
  /\ Tasks - i >= Horizon

\* The median of what all baselines find eligible: any mature checkpoint may be
\* it, and none when the baselines have none in common.
NothingSelected ==
  /\ phase = "prefix" /\ attempt = 0 /\ trial > Tasks
  /\ phase' = "blocked"
  /\ UNCHANGED <<trial, checkpoints, arm, base, root, fault, cards, reflections,
                 filterVars, pending, trialVars>>

\* ReflexionStateV3.__post_init__ over the entries of a checkpoint.
Restorable(held) ==
  /\ \A e \in held : cards[e].parents \subseteq {x \in held : x < e}
  /\ Cardinality(held) <= Capacity

\* build_live_three_arm_branches: the root is rendered, and the filter's
\* partition begins; the admission context has the writes of the trials up to
\* the checkpoint for its evidence and its active envelopes.
Select(i) ==
  /\ phase = "prefix" /\ attempt = 0 /\ trial > Tasks
  /\ i \in 1 .. Tasks /\ Mature(i)
  /\ IF Restorable(checkpoints[i].held)
     THEN LET n == checkpoints[i].written IN
          /\ phase' = "partition"
          /\ checkpoints' = SubSeq(checkpoints, 1, i)
          /\ base' = checkpoints[i].held /\ root' = n + 1
          /\ cards' = Append(SubSeq(cards, 1, n),
                             [parents |-> {}, trial |-> 0, order |-> n + 1,
                              writer |-> "protocol_injector"])
          /\ evidence' = 1 .. n /\ vouched' = 1 .. n
          /\ pending' = base' \cup {n + 1}
          /\ UNCHANGED <<trial, arm, fault, active, quarantined>>
     ELSE /\ Fault("FUTURE_REFLECTION_ACCESS")
          /\ UNCHANGED <<cards, filterVars, pending>>
  /\ UNCHANGED <<reflections, trialVars>>

\* One entry of partition_native_checkpoint's loop.
Partition ==
  /\ phase = "partition" /\ pending # {}
  /\ \E e \in pending :
       /\ \A x \in pending : e <= x
       /\ pending' = pending \ {e}
       /\ IF Admitted(cards, e, evidence, vouched, quarantined)
          THEN /\ active' = active \cup {e} /\ vouched' = vouched \cup {e}
               /\ UNCHANGED quarantined
          ELSE /\ quarantined' = quarantined \cup {e}
               /\ UNCHANGED <<active, vouched>>
  /\ UNCHANGED <<seedVars, cards, reflections, evidence, trialVars>>

NextArm == [prefix |-> "clean", clean |-> "contam", contam |-> "filter"]

\* _run_memory_suffix takes the arms in turn, each from its own copy.
BeginArm ==
  /\ \/ phase = "partition" /\ pending = {}
     \/ phase = "suffix" /\ attempt = 0 /\ trial > LastTrial /\ ~ Filtering
  /\ phase' = "suffix" /\ arm' = NextArm[arm]
  /\ trial' = Len(checkpoints) + 1
  /\ cards' = SubSeq(cards, 1, root)
  /\ reflections' = IF arm' = "clean" THEN base ELSE base \cup {root}
  /\ UNCHANGED <<checkpoints, base, root, fault, filterVars, pending, trialVars>>

EndSeed ==
  /\ phase = "suffix" /\ attempt = 0 /\ trial > LastTrial /\ Filtering
  /\ phase' = "done"
  /\ UNCHANGED <<trial, checkpoints, arm, base, root, fault, cards, reflections,
                 filterVars, pending, trialVars>>

-------------------------------------------------------------------------------
ArmsInit ==
  /\ phase = "prefix" /\ trial = 1 /\ attempt = 0
  /\ cards = <<>> /\ checkpoints = <<>>
  /\ arm = "prefix" /\ base = {} /\ root = 0
  /\ reflections = {}
  /\ active = {} /\ vouched = {} /\ quarantined = {} /\ evidence = {}
  /\ pending = {} /\ legacy = {} /\ hidden = {} /\ visible = {}
  /\ fault = NoFault

ArmsNext ==
  \/ BeginTrial \/ EndTrial
  \/ \E parents \in SUBSET visible : Reflect(parents)
  \/ NothingSelected \/ \E i \in 1 .. Tasks : Select(i)
  \/ Partition \/ BeginArm \/ EndSeed

ArmsSpec == ArmsInit /\ [][ArmsNext]_armsVars

-------------------------------------------------------------------------------
(* Properties. *)

Bounded == INSTANCE BoundedMemory WITH
  view <- ReaderView, prompt <- visible, working <- attempt > 0,
  saved <- IF root = 0 THEN {checkpoints[i].held : i \in 1 .. Len(checkpoints)}
           ELSE {base},
  injected <- arm = "contam"

\* A prompt shows the newest entries of a memory that grows by what its arm
\* wrote and loses only its oldest; every arm starts from the same checkpoint,
\* and the filter arm reads what the clean arm could: no root, every write.
ArmsImplementMemory == Bounded!BoundedSpec

\* No contract check of the code fails: the selected checkpoint restores, what
\* the filter calls active is held, and a reflection cites what was held.
NoContractError == fault = NoFault

\* What the filter shows descends from no injected root, nor from anything held
\* back, through parents that were evicted meanwhile included; and it holds back
\* the root alone, whatever the trials of the prefix or of its arm cited.
FilterIsExact ==
  LET sound == evidence \ quarantined
  IN /\ active \subseteq sound /\ root \notin sound
     /\ \A e \in sound : cards[e].parents \subseteq sound
     /\ quarantined \subseteq {root}
===============================================================================
