------------------------------ MODULE ArmEvidence ------------------------------
(***************************************************************************)
(* The contam arm of a phase-13 unit: the false root is appended to what   *)
(* one clean prefix trial left, the suffix trials of one memory baseline   *)
(* run over it (execute_prospective_ordinary), and from what each trial    *)
(* leaves behind the lineage of every entry is reconstructed and the       *)
(* archive of the unit accepted or refused (production_archive_from_-      *)
(* ordinary, validate_production_archive).                                 *)
(*                                                                         *)
(* Entries are numbered in the order they are written, so that a memory in *)
(* append order is a set of numbers.  Texts, similarity scores and token   *)
(* counts are left out: what they decide (which pairs are retrieved, how   *)
(* much history fits, whether a template is novel) is a free choice.       *)
(***************************************************************************)
EXTENDS ArmTrials, Sequences

CONSTANTS
  Baselines,    \* memory baselines of the unit
  Capacities,   \* active_capacity of a Reflexion or a template memory
  RetrieveK     \* archive pairs a DC prompt retrieves (3 in the code)

ASSUME EvidenceAssumption ==
  /\ Baselines \subseteq {"dc_rs", "reflexion_style", "bot_style", "fh_bounded"}
  /\ Horizon \in Nat \ {0} /\ Capacities \subseteq Nat \ {0}
  /\ Window \in Nat \ {0} /\ RetrieveK \in Nat \ {0}
  /\ MaxAttempts \in 1 .. 2

VARIABLES
  baseline,           \* the unit's baseline,
  capacity,           \* and its active_capacity
  lineage,            \* entry -> its parents, version predecessor (0: none) and component
  injectedRoot,       \* injected_root_id
  store,              \* entries of the baseline's state
  provenance,         \* provenance_entries, with their envelopes
  rows,               \* the trials of the result
  attemptIndex,       \* attempt of the running Reflexion trial, 0 between trials,
  visibleEntries,     \* what its prompts show,
  memoryBefore,       \* the memory it began with,
  nativeReflections,  \* and the entries it wrote
  outcome             \* what has become of the unit

unitVars == <<baseline, capacity, injectedRoot>>
attemptVars == <<attemptIndex, visibleEntries, memoryBefore, nativeReflections>>
evidenceVars == <<unitVars, lineage, store, provenance, rows, attemptVars, outcome>>

Card(parents, predecessor, component) ==
  [parents |-> parents, predecessor |-> predecessor, component |-> component]

Strategies == {e \in store : lineage[e].component = "strategy"}
Archive == store \ Strategies

\* active_strategies[-1], or 0.
PriorStrategy ==
  IF Strategies = {} THEN 0 ELSE CHOOSE e \in Strategies : \A x \in Strategies : x <= e

(* What each writer records of the entry it writes.                        *)
StrategyCard(cited) == Card(cited, PriorStrategy, "strategy")
PairCard(strategy) == Card({strategy}, 0, "archive")
TemplateCard(parents) == Card(parents, 0, "entry")
ReflectionCard(parents) == Card(parents, 0, "entry")
RecordCard == Card({}, 0, "entry")

\* The prefix trial left nothing, or what one trial of the baseline writes; the
\* root is appended to it (_inject_root, append_native_entry).
Prefixes(b) ==
  LET none == << >> IN
  IF b = "dc_rs"
  THEN {none, <<Card({}, 0, "strategy"), PairCard(1)>>}
  ELSE {none, <<Card({}, 0, "entry")>>}

Init ==
  /\ baseline \in Baselines
  /\ capacity \in IF baseline \in {"bot_style", "reflexion_style"} THEN Capacities ELSE {1}
  /\ \E prefix \in Prefixes(baseline) :
       /\ injectedRoot = Len(prefix) + 1
       /\ lineage = Append(prefix, Card({}, 0, IF baseline = "dc_rs" THEN "archive" ELSE "entry"))
  /\ store = 1 .. injectedRoot /\ provenance = 1 .. injectedRoot
  /\ rows = << >> /\ outcome = "running"
  /\ attemptIndex = 0 /\ visibleEntries = {} /\ memoryBefore = {} /\ nativeReflections = {}

-------------------------------------------------------------------------------
(* Trials. *)

Ready(b) == outcome = "running" /\ attemptIndex = 0 /\ baseline = b

\* Faulty variant: the provenance is that of the last trial.
ProvenanceAfter_LastTrial(own) == own

\* The provenance of a row is that of the checkpoint and of all trials so far.
ProvenanceAfter(own) == provenance \cup own

\* The loop ends with the schedule, or at the first failed trial.
UnitAfter(failure) ==
  IF failure # "none" \/ Len(rows) + 1 = Horizon THEN "ended" ELSE "running"

\* What a trial leaves: the memory around it; the entries it wrote (own); what
\* the answer call showed, by its source spans, unless no such call is recorded
\* (context FALSE); its failure_disposition; and whether the call that
\* _terminal_method_call picks recorded an error.
Leave(from, to, own, shown, context, failure, callFailed) ==
  /\ store' = to
  /\ provenance' = ProvenanceAfter(own)
  /\ rows' = Append(rows, [before |-> from, after |-> to, shown |-> shown,
                           context |-> context, failure |-> failure,
                           callFailed |-> callFailed,
                           known |-> provenance' \cup from \cup to])
  /\ outcome' = UnitAfter(failure)
  /\ UNCHANGED unitVars

\* The answer is correct or not, or it does not parse or the verifier raises:
\* then the trial fails although no call did.
Answered(from, to, own, shown) ==
  \E failure \in {"none", "invalid_answer"} :
    Leave(from, to, own, shown, TRUE, failure, FALSE)

\* A provider failure of the answer call, which the trial names.
AnswerCallFails(from, to, own, shown) ==
  Leave(from, to, own, shown, TRUE, "provider_call_failed", TRUE)

\* An exception that no baseline handles leaves execute_prospective_ordinary.
Aborts ==
  /\ outcome' = "aborted"
  /\ UNCHANGED <<unitVars, lineage, store, provenance, rows, attemptVars>>

\* The strategy follows the last one and names the retrieved pairs it cites; the
\* pair names the strategy.  Both are appended after the second call; only then
\* is the answer parsed.  The prompt shows the strategy.
DcTrial ==
  /\ Ready("dc_rs")
  /\ \E cited \in SUBSET Archive :
       LET s == Len(lineage) + 1
       IN /\ Cardinality(cited) <= RetrieveK
          /\ lineage' = lineage \o <<StrategyCard(cited), PairCard(s)>>
          /\ Answered(store, store \cup {s, s + 1}, {s, s + 1}, {s})
  /\ UNCHANGED attemptVars

\* Either call fails: nothing is written, and the outcome names no answer call.
DcCallFails ==
  /\ Ready("dc_rs")
  /\ Leave(store, store, {}, {}, FALSE, "provider_call_failed", TRUE)
  /\ UNCHANGED <<lineage, attemptVars>>

\* A strategy or an answer out of its grammar or budget.
DcRefuses == Ready("dc_rs") /\ Aborts

\* select_visible_history: the newest records, as many as fit.
Histories == {Newest(store, n) : n \in 0 .. Cardinality(store)}

\* The first prompt has to show the root.
RootTruncated(shown) == rows = << >> /\ injectedRoot \notin shown

\* The response is appended before it is parsed; its envelope names no parents.
FullHistoryTrial ==
  /\ Ready("fh_bounded")
  /\ \E shown \in Histories :
       LET e == Len(lineage) + 1
       IN IF RootTruncated(shown)
          THEN Aborts
          ELSE /\ UNCHANGED attemptVars
               /\ \/ /\ lineage' = Append(lineage, RecordCard)
                     /\ Answered(store, store \cup {e}, {e}, shown)
                  \/ UNCHANGED lineage /\ AnswerCallFails(store, store, {}, shown)

\* retrieve_top_template: at most one template matches and is shown.
Matches == {{}} \cup {{e} : e \in store}

\* _at_active_capacity
Full == Cardinality(store) >= capacity

\* A template that is novel is written, its parents
\* among those shown, unless the memory is full; a failed trial writes nothing.
BotTrial ==
  /\ Ready("bot_style")
  /\ \E shown \in Matches :
       \/ /\ UNCHANGED lineage
          /\ Answered(store, store, {}, shown) \/ AnswerCallFails(store, store, {}, shown)
       \/ /\ ~Full
          /\ LET e == Len(lineage) + 1 IN
               /\ \E parents \in SUBSET shown :
                    lineage' = Append(lineage, TemplateCard(parents))
               /\ Leave(store, store \cup {e}, {e}, shown, TRUE, "none", FALSE)
  /\ UNCHANGED attemptVars

\* A call that fails in the distillation of the template is not handled.
BotDistillationFails == Ready("bot_style") /\ Aborts

-------------------------------------------------------------------------------
(* A Reflexion trial, attempt by attempt. *)

\* Faulty variant: the prompts of a trial are made of all that is on record.
BeginReflexion_OnRecord ==
  /\ Ready("reflexion_style")
  /\ attemptIndex' = 1 /\ memoryBefore' = store /\ nativeReflections' = {}
  /\ visibleEntries' = Newest(provenance, Window)
  /\ UNCHANGED <<unitVars, lineage, store, provenance, rows, outcome>>

BeginReflexion ==
  /\ Ready("reflexion_style")
  /\ attemptIndex' = 1 /\ memoryBefore' = store /\ nativeReflections' = {}
  /\ visibleEntries' = Newest(store, Window)
  /\ UNCHANGED <<unitVars, lineage, store, provenance, rows, outcome>>

ReflexionRuns == outcome = "running" /\ attemptIndex > 0

EndAttempts ==
  attemptIndex' = 0 /\ visibleEntries' = {} /\ memoryBefore' = {} /\ nativeReflections' = {}

\* The answer is right, or fails.
EndReflexion ==
  /\ ReflexionRuns
  /\ \/ Answered(memoryBefore, store, nativeReflections, visibleEntries)
     \/ AnswerCallFails(memoryBefore, store, nativeReflections, visibleEntries)
  /\ EndAttempts /\ UNCHANGED lineage

\* The answer is wrong, and the reflection on it does not come: its call fails,
\* or it does not parse.  The outcome names the answer call, which succeeded.
ReflectionFails ==
  /\ ReflexionRuns
  /\ \E failure \in {"provider_call_failed", "invalid_reflection"} :
       Leave(memoryBefore, store, nativeReflections, visibleEntries, TRUE, failure, FALSE)
  /\ EndAttempts /\ UNCHANGED lineage

\* _remove_reflection: the list of the next prompt loses what the state's does.
PromptMemory(e) == Newest(store \cup {e}, capacity)

\* The reflection cites what was shown, is appended, and the oldest beyond the
\* capacity leave; the last attempt ends the trial.
WriteReflection ==
  /\ ReflexionRuns
  /\ LET e == Len(lineage) + 1
         kept == Newest(store \cup {e}, capacity)
     IN /\ \E parents \in SUBSET visibleEntries :
             lineage' = Append(lineage, ReflectionCard(parents))
        /\ IF attemptIndex = MaxAttempts
           THEN /\ Leave(memoryBefore, kept, nativeReflections \cup {e}, visibleEntries,
                         TRUE, "none", FALSE)
                /\ EndAttempts
           ELSE /\ store' = kept /\ attemptIndex' = attemptIndex + 1
                /\ visibleEntries' = Newest(PromptMemory(e), Window)
                /\ nativeReflections' = nativeReflections \cup {e}
                /\ UNCHANGED <<memoryBefore, unitVars, provenance, rows, outcome>>

-------------------------------------------------------------------------------
(* Reconstruction. *)

\* Faulty variant: the version edge is not followed.
References_NoVersion(e) == lineage[e].parents

References(e) == lineage[e].parents \cup ({lineage[e].predecessor} \ {0})

\* The targets and what descends from them: every reference is to an earlier
\* entry (injected_roots, recorded_path).
Descent(targets) ==
  LET from[e \in 1 .. Len(lineage)] == e \in targets \/ \E x \in References(e) : from[x]
  IN {e \in 1 .. Len(lineage) : from[e]}

Fresh(r) == r.after \ r.before
Removed(r) == r.before \ r.after

\* Entries the answer call showed that are the root or descend from it.
TargetSpans(r) == r.shown \cap r.known \cap Descent({injectedRoot})

\* theory_exposure: one of them is in the final context.
Exposed(r) == TargetSpans(r) # {}

\* New entries that descend from the root.
Contaminated(r) == (Fresh(r) \cap Descent({injectedRoot})) \ {injectedRoot}

\* recorded_path stops at the first exposed entry, so that one that is exposed
\* itself has a path of length 1.
Propagation(r) ==
  IF baseline = "fh_bounded" \/ Fresh(r) = {} \/ ~Exposed(r) THEN "not_applicable"
  ELSE IF (Contaminated(r) \ TargetSpans(r)) \cap Descent(TargetSpans(r)) # {} THEN "true"
  ELSE "false"

Completed(r) == r.failure = "none"

\* _terminal_method_call: the call it picks for a failed trial has no error.
TerminalCallRequired(r) == ~Completed(r) /\ ~r.callFailed

\* _lineage: an entry on record has a parent or predecessor that is not.
ParentMissing(r) == \E e \in r.known : ~(References(e) \subseteq r.known)

\* production_memory_events
ContextRequired(r) == Fresh(r) \cup Removed(r) # {} /\ ~r.context

\* Conditions under which the join or the reconstruction refuses a row.
RowRefusals(r) ==
  {c \in {"TERMINAL_CALL_REQUIRED"} : TerminalCallRequired(r)} \cup
  {c \in {"LINEAGE_PARENT_MISSING"} : ParentMissing(r)} \cup
  {c \in {"TARGET_LINEAGE_INVALID"} : injectedRoot \in r.shown \ r.known} \cup
  {c \in {"MUTATION_CONTEXT_REQUIRED"} : ContextRequired(r)} \cup
  {c \in {"EXACT_LINEAGE_REQUIRED"} : Completed(r) /\ injectedRoot \notin r.known} \cup
  {c \in {"PRESENCE_ONLY_EXPOSURE_INFERENCE"} : Completed(r) /\ ~r.context} \cup
  {c \in {"PROPAGATION_REQUIRES_EXPOSURE"} :
     Completed(r) /\ baseline # "fh_bounded" /\ Contaminated(r) # {} /\ ~Exposed(r)}

\* The rows a sequence is made of: the failed one, if any, is the last.
Included == {i \in DOMAIN rows : Completed(rows[i])}

\* Conditions under which the rows do not make a sequence (_validate_continuity).
SequenceRefusals ==
  {c \in {"ORDINARY_SEQUENCE_CONTINUITY_MISMATCH"} :
     \E i, k \in Included :
       /\ i < k /\ \A x \in Included : x <= i \/ k <= x
       /\ rows[k].before # rows[i].after} \cup
  {c \in {"EXACTLY_ONE_REGISTERED_ROOT_REQUIRED"} :
     Included # {} /\ \A i \in Included : injectedRoot \notin rows[i].known}

Refusals == SequenceRefusals \cup UNION {RowRefusals(rows[i]) : i \in DOMAIN rows}

\* The unit's archive is made of all its rows, or there is none.
Join ==
  /\ outcome = "ended"
  /\ outcome' = IF Refusals = {} THEN "archived" ELSE "refused"
  /\ UNCHANGED <<unitVars, lineage, store, provenance, rows, attemptVars>>

-------------------------------------------------------------------------------
(* The registered sequence of a unit. *)

\* descendant_entry_ids of all rows.
Descendants ==
  (UNION {rows[i].known \cap Descent({injectedRoot}) : i \in Included}) \ {injectedRoot}

\* The rows after which the root, or a descendant, is held, and those exposed.
RootHeld == {i \in Included : injectedRoot \in rows[i].after}
DescendantHeld == {i \in Included : rows[i].after \cap Descendants # {}}
ExposedRows == {i \in Included : Exposed(rows[i])}

\* first_continuous_episode of a row flag: the rows from the first one that has
\* it to the last before one that has not; no gap is bridged.
FirstEpisode(flagged) ==
  {i \in flagged :
     \A k \in Included : k <= i /\ (\E x \in flagged : x <= k) => k \in flagged}

\* No row after the episode is on record.
RightCensored(episode) == \E i \in episode : \A k \in Included : k <= i

\* is_exact_root_eviction, and the rows at risk after it (_post_eviction).
EvictsRoot(r) == injectedRoot \in Removed(r)
AtRisk == {i \in Included : \E k \in Included : k < i /\ EvictsRoot(rows[k])}

-------------------------------------------------------------------------------

Next ==
  \/ DcTrial \/ DcCallFails \/ DcRefuses
  \/ FullHistoryTrial
  \/ BotTrial \/ BotDistillationFails
  \/ BeginReflexion \/ EndReflexion \/ ReflectionFails \/ WriteReflection
  \/ Join

Spec == Init /\ [][Next]_evidenceVars

-------------------------------------------------------------------------------
(* Properties. *)

\* Whatever was written, shown and evicted, a unit's trials reconstruct: every
\* ancestor a row needs is on record (an entry written and evicted within one
\* trial too), every change has its context, and no descendant is written by a
\* trial that was shown none.  A refused archive ends with a failed trial.
EvidenceStands ==
  outcome = "refused" =>
    Refusals = {"TERMINAL_CALL_REQUIRED"} /\ ~Completed(rows[Len(rows)])

\* The registered durations miss nothing, although they stop at the first gap: the
\* root and its descendants, once out of memory, do not come back; nor does
\* exposure in Reflexion, whose window only moves on, and in DC, where a strategy
\* follows the one before it, it never ends, and propagation goes with it.
DurationsAreTotals ==
  /\ FirstEpisode(RootHeld) = RootHeld
  /\ FirstEpisode(DescendantHeld) = DescendantHeld
  /\ baseline \in {"dc_rs", "reflexion_style"} => FirstEpisode(ExposedRows) = ExposedRows
  /\ baseline = "dc_rs" =>
       /\ ExposedRows = {} \/ RightCensored(ExposedRows)
       /\ ExposedRows = {i \in Included : Propagation(rows[i]) = "true"}

\* Contamination lives in the memory alone: once neither the root nor a descendant
\* is left in it, no later trial is exposed or writes a descendant; and a root
\* that was evicted is in no prompt of the rows at risk.
ContaminationLivesInMemory ==
  /\ \A i, j \in DOMAIN rows :
       i < j /\ rows[i].after \cap Descent({injectedRoot}) = {} =>
         ~Exposed(rows[j]) /\ Contaminated(rows[j]) = {}
  /\ \A i \in AtRisk : injectedRoot \notin rows[i].shown

================================================================================
