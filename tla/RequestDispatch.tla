---------------------------- MODULE RequestDispatch ----------------------------
(***************************************************************************)
(* ProductionRequestDispatcherV3 over the evidence ledger                  *)
(* (phase13_main_request_dispatch.py, phase13_main_request_recovery.py,    *)
(* phase13_main_request_client.py): how a request is identified, compiled, *)
(* sent and acknowledged, with a crash possible after every durable write. *)
(*                                                                         *)
(* Several dispatchers may be open on one ledger.  A dispatch, an          *)
(* acknowledgement and a recovery each hold the flock of request_lock; a   *)
(* response that waits for its acknowledgement does not.                   *)
(***************************************************************************)
EXTENDS TerminalLedger

CONSTANTS
  Dispatchers,   \* dispatcher objects, each with the client that drives it
  Parents,       \* trajectories (ParentTrajectoryV3)
  ParentOf,      \* request -> trajectory (RequestKeyV3.parent_id)
  PrefixOf,      \* trajectory -> its clean prefix, or NoParent
  Oversize,      \* compilations whose token_count exceeds the stage envelope
  MaxCrashes,    \* bound on process crashes
  NoParent, NoRequest, NoOwner

ASSUME DispatchAssumption ==
  /\ ParentOf \in [Requests -> Parents]
  /\ PrefixOf \in [Parents -> Parents \cup {NoParent}]
  /\ Oversize \subseteq Compiled
  /\ MaxCrashes \in Nat
  /\ NoParent \notin Parents
  /\ NoRequest \notin Requests
  /\ NoOwner \notin Dispatchers

VARIABLES
  identities,    \* requests with a published identity receipt
  receipts,      \* request -> the compiled receipt on disk
  observations,  \* requests with a published failure observation
  sent,          \* request -> times it went out to the provider
  reply,         \* request -> cost evidence of the provider's answer
  pc,            \* dispatcher -> what it did last
  req,           \* dispatcher -> the request it works on
  due,           \* dispatcher -> cost evidence it is about to record
  terminal,      \* dispatcher -> its cached set of terminal parents
  generation,    \* dispatcher -> ledger generation the cache was made for
  lock,          \* holder of request_lock
  crashes

diskVars == <<ledger, log, identities, receipts, observations>>
worldVars == <<sent, reply, crashes>>
memVars == <<pc, req, due, terminal, generation, lock>>
dispatchVars == <<diskVars, worldVars, memVars>>

-------------------------------------------------------------------------------
(* Terminal parents. *)

\* Faulty variant: the dependents of a failed prefix go on.
Terminated_PrefixOnly(p) == {p}

\* A failed prefix takes its dependents with it.
Terminated(p) == {p} \cup {q \in Parents : PrefixOf[q] = p}

FailedKinds ==
  {"INPUT_ENVELOPE_OVERFLOW", "TERMINAL_TECHNICAL_MISSING",
   "ATTEMPTED_PROVIDER_FAILURE", "AMBIGUOUS_ATTEMPT"}

\* terminal_parents: the durable truth the caches stand for.
TerminalParents ==
  UNION {Terminated(ParentOf[r]) :
           r \in {x \in Requests : ledger[x].kind \in FailedKinds}}

\* Faulty variant: the cache is trusted for ever.
Refreshed_Never(d) == terminal[d]

\* _refresh_terminal_parents: recompute only when the ledger has moved.
Refreshed(d) ==
  IF generation[d] = Len(log) THEN terminal[d] ELSE TerminalParents

-------------------------------------------------------------------------------
(* Steps inside one dispatch. *)

\* The dispatcher leaves request_lock and forgets the request.
Leave(d) ==
  /\ pc' = [pc EXCEPT ![d] = "idle"]
  /\ req' = [req EXCEPT ![d] = NoRequest]
  /\ due' = [due EXCEPT ![d] = NoCost]
  /\ lock' = NoOwner

\* Work goes on under the lock.
Goto(d, label) ==
  /\ pc' = [pc EXCEPT ![d] = label]
  /\ UNCHANGED <<req, due, lock>>

\* _append: the event is built on the state read just before; afterwards the
\* cache is declared current and the parents the event ends are added to it.
Record(d, e) ==
  /\ e.basis < MaxRevision
  /\ AppendEvent(e)
  /\ generation' = [generation EXCEPT ![d] = Len(log')]
  /\ terminal' = [terminal EXCEPT ![d] =
       IF e.kind \in FailedKinds THEN @ \cup Terminated(ParentOf[e.unit]) ELSE @]
  /\ UNCHANGED <<identities, receipts, observations, worldVars>>

\* _append raised: nothing was written and the error leaves the dispatch.
Refused(d, e) ==
  /\ ~Acceptable(e)
  /\ Leave(d)
  /\ UNCHANGED <<diskVars, worldVars, terminal, generation>>

RecordOrLeave(d, e, label) ==
  \/ Record(d, e) /\ Goto(d, label)
  \/ Refused(d, e)

RecordAndLeave(d, e) ==
  \/ Record(d, e) /\ Leave(d)
  \/ Refused(d, e)

\* Bound: a request is begun only if MaxRevision leaves room for a whole life
\* (intent, compiled, attempt, outcome, reconciliation).
RoomToRun(r) == ledger[r].revision + 5 <= MaxRevision

\* dispatch / receive up to the identity receipt, which is write-once and the
\* same whenever it is written again.  An ended trajectory is refused here.
Identify(d, r) ==
  /\ pc[d] = "idle" /\ lock = NoOwner
  /\ RoomToRun(r)
  /\ terminal' = [terminal EXCEPT ![d] = Refreshed(d)]
  /\ generation' = [generation EXCEPT ![d] = Len(log)]
  /\ ParentOf[r] \notin Refreshed(d)
  /\ identities' = identities \cup {r}
  /\ pc' = [pc EXCEPT ![d] = "identified"]
  /\ req' = [req EXCEPT ![d] = r]
  /\ lock' = d
  /\ UNCHANGED <<ledger, log, receipts, observations, worldVars, due>>

\* The terminal_parents property, and a dispatch that refuses an ended
\* trajectory: only the cache moves.
Refresh(d) ==
  /\ pc[d] = "idle" /\ lock = NoOwner
  /\ terminal' = [terminal EXCEPT ![d] = Refreshed(d)]
  /\ generation' = [generation EXCEPT ![d] = Len(log)]
  /\ UNCHANGED <<diskVars, worldVars, pc, req, due, lock>>

PersistIntent(d) ==
  /\ pc[d] = "identified"
  /\ RecordOrLeave(d, OnCurrent(req[d], "DISPATCH_INTENT", NoCost), "intended")

\* compile_material and _persist_compiled: the receipt on disk may be older
\* than this process; other bytes than the ones it holds are an error.
Compile(d, c) ==
  /\ pc[d] = "intended"
  /\ receipts[req[d]] \in {NoCompiled, c}
  /\ receipts' = [receipts EXCEPT ![req[d]] = c]
  /\ Goto(d, "filed")
  /\ UNCHANGED <<ledger, log, identities, observations, worldVars, terminal,
                 generation>>

PersistCompiled(d) ==
  /\ pc[d] = "filed"
  /\ LET r == req[d]
     IN RecordOrLeave(d,
          Event(r, "REQUEST_COMPILED", ledger[r].revision, receipts[r], NoCost),
          "compiled")

\* The envelope is checked before a provider exists: two markers, no request.
PersistOverflow(d) ==
  /\ pc[d] = "compiled"
  /\ receipts[req[d]] \in Oversize
  /\ RecordOrLeave(d, OnCurrent(req[d], "INPUT_ENVELOPE_OVERFLOW", NoCost),
                   "overflowing")

PersistMissing(d) ==
  /\ pc[d] = "overflowing"
  /\ RecordAndLeave(d, OnCurrent(req[d], "TERMINAL_TECHNICAL_MISSING", NoCost))

\* start_attempt, called by the provider client before its only transport try.
StartAttempt(d) ==
  /\ pc[d] = "compiled"
  /\ receipts[req[d]] \notin Oversize
  /\ RecordOrLeave(d, OnCurrent(req[d], "ATTEMPT_STARTED", NoCost), "started")

\* Faulty variant: the transport tries once more.
Send_Retries(d) ==
  /\ pc[d] \in {"started", "sent"}
  /\ sent[req[d]] < 2
  /\ sent' = [sent EXCEPT ![req[d]] = @ + 1]
  /\ Goto(d, "sent")
  /\ UNCHANGED <<diskVars, reply, crashes, terminal, generation>>

\* The one transport try of send_compiled_v3.
Send(d) ==
  /\ pc[d] = "started"
  /\ sent' = [sent EXCEPT ![req[d]] = @ + 1]
  /\ Goto(d, "sent")
  /\ UNCHANGED <<diskVars, reply, crashes, terminal, generation>>

\* An exception once the attempt is marked (no answer, an incomplete one, one
\* that does not parse, or evidence that does not reconcile): the cost is what
\* the answer lets the dispatcher derive, and unknown if it has none.
Fail(d, cost) ==
  /\ pc[d] \in {"started", "sent"}
  /\ cost # UnknownCost => pc[d] = "sent"
  /\ pc' = [pc EXCEPT ![d] = "failing"]
  /\ due' = [due EXCEPT ![d] = cost]
  /\ reply' = IF pc[d] = "sent" THEN [reply EXCEPT ![req[d]] = cost] ELSE reply
  /\ UNCHANGED <<diskVars, sent, crashes, terminal, generation, req, lock>>

\* A complete answer.  dispatch() parses it under the lock and goes on to
\* COMPLETED; receive() hands it out and leaves the lock (defer_completion).
Answer(d, cost) ==
  /\ pc[d] = "sent"
  /\ reply' = [reply EXCEPT ![req[d]] = cost]
  /\ due' = [due EXCEPT ![d] = cost]
  /\ \/ pc' = [pc EXCEPT ![d] = "parsed"] /\ UNCHANGED lock
     \/ pc' = [pc EXCEPT ![d] = "waiting"] /\ lock' = NoOwner
  /\ UNCHANGED <<diskVars, sent, crashes, terminal, generation, req>>

PersistParsed(d) ==
  /\ pc[d] = "parsed"
  /\ RecordAndLeave(d, OnCurrent(req[d], "COMPLETED", due[d]))

\* acknowledge(semantic_success = TRUE) with a known cost.
AcknowledgeSuccess(d) ==
  /\ pc[d] = "waiting" /\ lock = NoOwner
  /\ due[d] \in Costs
  /\ RecordAndLeave(d, OnCurrent(req[d], "COMPLETED", due[d]))

\* Faulty variant: a rejected answer loses what it cost.
AcknowledgeFailure_DropsBill(d) ==
  /\ pc[d] = "waiting" /\ lock = NoOwner
  /\ pc' = [pc EXCEPT ![d] = "failing"]
  /\ due' = [due EXCEPT ![d] = UnknownCost]
  /\ lock' = d
  /\ UNCHANGED <<diskVars, worldVars, req, terminal, generation>>

\* acknowledge otherwise: no success, or a success nobody can price.
AcknowledgeFailure(d) ==
  /\ pc[d] = "waiting" /\ lock = NoOwner
  /\ pc' = [pc EXCEPT ![d] = "failing"]
  /\ lock' = d
  /\ UNCHANGED <<diskVars, worldVars, req, due, terminal, generation>>

\* The baseline raised something trial does not turn into an acknowledgement.
AbandonResponse(d) ==
  /\ pc[d] = "waiting"
  /\ pc' = [pc EXCEPT ![d] = "idle"]
  /\ req' = [req EXCEPT ![d] = NoRequest]
  /\ due' = [due EXCEPT ![d] = NoCost]
  /\ UNCHANGED <<diskVars, worldVars, terminal, generation, lock>>

PublishObservation(d) ==
  /\ pc[d] = "failing"
  /\ observations' = observations \cup {req[d]}
  /\ Goto(d, "observed")
  /\ UNCHANGED <<ledger, log, identities, receipts, worldVars, terminal,
                 generation>>

\* Faulty variant: the event that names the observation goes first.
PersistFailure_Unobserved(d) ==
  /\ pc[d] \in {"failing", "observed"}
  /\ RecordAndLeave(d,
       OnCurrent(req[d], "ATTEMPTED_PROVIDER_FAILURE", due[d]))

PersistFailure(d) ==
  /\ pc[d] = "observed"
  /\ RecordAndLeave(d,
       OnCurrent(req[d], "ATTEMPTED_PROVIDER_FAILURE", due[d]))

\* An error that the dispatch does not turn into evidence: it leaves the lock
\* and whatever marker is on disk stays there.  At "started" it is _append that
\* raised once ATTEMPT_STARTED was committed, before attempt_ready was set.
Raise(d) ==
  /\ pc[d] \in {"identified", "intended", "filed", "compiled", "overflowing",
                "started", "parsed", "failing", "observed"}
  /\ Leave(d)
  /\ UNCHANGED <<diskVars, worldVars, terminal, generation>>

-------------------------------------------------------------------------------
(* Recovery, restart, crash, operator. *)

BeginRecover(d) ==
  /\ pc[d] = "idle" /\ lock = NoOwner
  /\ pc' = [pc EXCEPT ![d] = "recovering"]
  /\ lock' = d
  /\ UNCHANGED <<diskVars, worldVars, req, due, terminal, generation>>

\* Faulty variant: a compiled request is recovered without its envelope check.
RecoverRequest_NoEnvelope(d, r) ==
  /\ pc[d] = "recovering"
  /\ ledger[r].kind \in Unresolved
  /\ Recover(r)
  /\ UNCHANGED <<identities, receipts, observations, worldVars, memVars>>

\* Faulty variant: a bare intent is left as it is.
RecoverRequest_SkipsIntents(d, r) ==
  /\ pc[d] = "recovering"
  /\ ledger[r].kind \in Unresolved \ {"DISPATCH_INTENT_PERSISTED"}
  /\ IF ledger[r].kind = "REQUEST_COMPILED" /\ ledger[r].compiled \in Oversize
     THEN AppendEvent(OnCurrent(r, "INPUT_ENVELOPE_OVERFLOW", NoCost))
     ELSE Recover(r)
  /\ UNCHANGED <<identities, receipts, observations, worldVars, memVars>>

\* recover_requests for one unit: a compiled request beyond the envelope is
\* marked as overflow before ledger.recover decides.
RecoverRequest(d, r) ==
  /\ pc[d] = "recovering"
  /\ ledger[r].kind \in Unresolved
  /\ IF ledger[r].kind = "REQUEST_COMPILED" /\ ledger[r].compiled \in Oversize
     THEN /\ ledger[r].revision < MaxRevision
          /\ AppendEvent(OnCurrent(r, "INPUT_ENVELOPE_OVERFLOW", NoCost))
     ELSE Recover(r)
  /\ UNCHANGED <<identities, receipts, observations, worldVars, memVars>>

EndRecover(d) ==
  /\ pc[d] = "recovering"
  /\ InFlight = {}
  /\ terminal' = [terminal EXCEPT ![d] = TerminalParents]
  /\ generation' = [generation EXCEPT ![d] = Len(log)]
  /\ Leave(d)
  /\ UNCHANGED <<diskVars, worldVars>>

\* The process ends, on its own or killed: the kernel drops its lock, the disk
\* stays as it is.
Crash(d) ==
  /\ pc[d] # "down"
  /\ crashes < MaxCrashes
  /\ crashes' = crashes + 1
  /\ pc' = [pc EXCEPT ![d] = "down"]
  /\ req' = [req EXCEPT ![d] = NoRequest]
  /\ due' = [due EXCEPT ![d] = NoCost]
  /\ terminal' = [terminal EXCEPT ![d] = {}]
  /\ generation' = [generation EXCEPT ![d] = 0]
  /\ lock' = IF lock = d THEN NoOwner ELSE lock
  /\ UNCHANGED <<diskVars, sent, reply>>

\* __init__ reads the terminal parents and then the generation, in two
\* transactions and without request_lock.
Open(d) ==
  /\ pc[d] = "down"
  /\ terminal' = [terminal EXCEPT ![d] = TerminalParents]
  /\ pc' = [pc EXCEPT ![d] = "opening"]
  /\ UNCHANGED <<diskVars, worldVars, req, due, generation, lock>>

FinishOpen(d) ==
  /\ pc[d] = "opening"
  /\ generation' = [generation EXCEPT ![d] = Len(log)]
  /\ pc' = [pc EXCEPT ![d] = "idle"]
  /\ UNCHANGED <<diskVars, worldVars, req, due, terminal, lock>>

\* The operator supplies the missing evidence of one bill.  No lock is taken.
Reconcile(r) ==
  /\ ReconcileCost(r)
  /\ UNCHANGED <<identities, receipts, observations, worldVars, memVars>>

-------------------------------------------------------------------------------

DispatchInit ==
  /\ LedgerInit
  /\ identities = {}
  /\ receipts = [r \in Requests |-> NoCompiled]
  /\ observations = {}
  /\ sent = [r \in Requests |-> 0]
  /\ reply = [r \in Requests |-> NoCost]
  /\ pc = [d \in Dispatchers |-> "idle"]
  /\ req = [d \in Dispatchers |-> NoRequest]
  /\ due = [d \in Dispatchers |-> NoCost]
  /\ terminal = [d \in Dispatchers |-> {}]
  /\ generation = [d \in Dispatchers |-> 0]
  /\ lock = NoOwner
  /\ crashes = 0

\* The steps that carry a dispatch or an acknowledgement to its end.
Progress(d) ==
  \/ PersistIntent(d) \/ \E c \in Compiled : Compile(d, c)
  \/ PersistCompiled(d) \/ PersistOverflow(d) \/ PersistMissing(d)
  \/ StartAttempt(d) \/ Send(d)
  \/ \E cost \in Costs \cup {UnknownCost} : Fail(d, cost) \/ Answer(d, cost)
  \/ PersistParsed(d) \/ AcknowledgeSuccess(d) \/ AcknowledgeFailure(d)
  \/ AbandonResponse(d) \/ PublishObservation(d) \/ PersistFailure(d) \/ Raise(d)

Resume(d) ==
  \/ Open(d) \/ FinishOpen(d) \/ BeginRecover(d) \/ EndRecover(d)
  \/ \E r \in Requests : RecoverRequest(d, r)

DispatchNext ==
  \/ \E d \in Dispatchers :
       \/ \E r \in Requests : Identify(d, r)
       \/ Refresh(d) \/ Progress(d) \/ Resume(d) \/ Crash(d)
  \/ \E r \in Requests : Reconcile(r)

DispatchSpec == DispatchInit /\ [][DispatchNext]_dispatchVars

-------------------------------------------------------------------------------
(* Properties. *)

\* Labels between taking request_lock and leaving it, with a request at hand.
Working ==
  {"identified", "intended", "filed", "compiled", "overflowing", "started",
   "sent", "parsed", "failing", "observed"}

Labels == Working \cup {"idle", "waiting", "recovering", "down", "opening"}

\* The evidence on disk and the provider's side.
WorldTypeOK ==
  /\ identities \subseteq Requests
  /\ receipts \in [Requests -> MaybeCompiled]
  /\ observations \subseteq Requests
  /\ sent \in [Requests -> Nat]
  /\ reply \in [Requests -> MaybeCost]
  /\ crashes \in Nat

\* A dispatcher has a request at hand exactly while it works or waits, and it
\* works or recovers only under its own lock.
ProcessTypeOK ==
  /\ pc \in [Dispatchers -> Labels]
  /\ req \in [Dispatchers -> Requests \cup {NoRequest}]
  /\ due \in [Dispatchers -> MaybeCost]
  /\ terminal \in [Dispatchers -> SUBSET Parents]
  /\ generation \in [Dispatchers -> Nat]
  /\ lock \in Dispatchers \cup {NoOwner}
  /\ \A d \in Dispatchers :
       /\ req[d] \in Requests <=> pc[d] \in Working \cup {"waiting"}
       /\ lock = d <=> pc[d] \in Working \cup {"recovering"}

\* Every variable has its shape, and a dispatcher's label, request and lock
\* belong together, whatever was refused, raised or killed half-way.
DispatchTypeOK == LedgerTypeOK /\ WorldTypeOK /\ ProcessTypeOK

\* A request goes out to the provider at most once, over every crash, retry of
\* its unit, recovery by another process and late acknowledgement.
NeverResent == \A r \in Requests : sent[r] <= 1

\* A request that went out has its attempt marked on disk, so that no later
\* process takes it for one that never left.
SentIsMarked ==
  \A r \in Requests :
    sent[r] > 0 => ledger[r].kind \in Attempted \cup {"ATTEMPT_STARTED"}

\* Once a trajectory has lost a request, or its clean prefix has, none of its
\* requests goes out any more, whichever of the dispatchers open from the start
\* holds it; one opened beside a running one may not know (TerminalObserved).
QuietAfterTerminal ==
  [][\A r \in Requests :
       crashes = 0 /\ sent'[r] # sent[r] =>
         ~ \E x \in Requests :
             /\ ledger[x].kind \in FailedKinds
             /\ ParentOf[x] \in {ParentOf[r], PrefixOf[ParentOf[r]]}
    ]_dispatchVars

\* An open dispatcher that is asked for its terminal parents names every one
\* the ledger has, also those another dispatcher ended.
TerminalObserved ==
  \A d \in Dispatchers :
    pc[d] \notin {"down", "opening"} /\ lock = NoOwner =>
      \A x \in Requests, p \in Parents :
        /\ ledger[x].kind \in FailedKinds
        /\ ParentOf[x] \in {p, PrefixOf[p]}
        => p \in Refreshed(d)

\* The same of the dispatchers open from the start, none of which has died.
PairObserves == crashes = 0 => TerminalObserved

\* A compilation beyond the envelope never goes out and never becomes
\* retryable, also when the process dies between its two markers.
OversizeIsFinal ==
  \A r \in Requests :
    ledger[r].compiled \in Oversize =>
      /\ sent[r] = 0
      /\ ledger[r].kind \in {"REQUEST_COMPILED", "INPUT_ENVELOPE_OVERFLOW",
                            "TERMINAL_TECHNICAL_MISSING"}

\* What the ledger refers to is on disk before it does: a restart can read the
\* identity of every request with events, the receipt of every compiled one and
\* the observation of every failure, in whatever step the last process died.
EvidenceOnDisk ==
  \A r \in Requests :
    /\ ledger[r].revision > 0 => r \in identities
    /\ ledger[r].compiled \in {NoCompiled, receipts[r]}
    /\ ledger[r].kind = "ATTEMPTED_PROVIDER_FAILURE" => r \in observations

\* A completed request has been answered; and whatever cost an answer carried
\* is the cost on the ledger, whether the answer was accepted or rejected.
BilledAsAnswered ==
  \A r \in Requests :
    /\ ledger[r].kind = "COMPLETED" => sent[r] = 1 /\ reply[r] # NoCost
    /\ /\ ledger[r].kind \in {"COMPLETED", "ATTEMPTED_PROVIDER_FAILURE"}
       /\ reply[r] \in Costs
       => ledger[r].cost = reply[r]

\* Dispatchers, recoveries and operators do to the ledger only what the ledger
\* module allows its writers, so whatever holds of every writer holds of them.
DispatchImplementsLedger == LedgerSpec

===============================================================================
