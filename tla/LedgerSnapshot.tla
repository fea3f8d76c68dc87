----------------------------- MODULE LedgerSnapshot -----------------------------
(***************************************************************************)
(* How a TerminalLedgerV3 object keeps its states in step with the events  *)
(* table while other objects, in other processes, append to it             *)
(* (phase13_v3_terminal_ledger.py: _snapshot, _replay, append).            *)
(*                                                                         *)
(* A read is several statements on an autocommit connection, so the table  *)
(* may grow between any two of them (a guarded file reads inside BEGIN     *)
(* IMMEDIATE: those are the behaviours in which it does not).  An append   *)
(* is one BEGIN IMMEDIATE transaction, but the object learns of its own    *)
(* commit, and of the data version, after it.  An event is its sequence    *)
(* number: the table is 1, 2, ..., stored, and the states of an object are *)
(* the replay of `applied'.                                                *)
(***************************************************************************)
EXTENDS Integers, Sequences

CONSTANTS
  Objects,       \* TerminalLedgerV3 objects on one file
  MaxRows,       \* bound on the events table
  MaxOther       \* bound on commits to the other tables of the file

ASSUME SnapshotAssumption == MaxRows \in Nat /\ MaxOther \in Nat

VARIABLES
  stored,        \* committed events
  other,         \* commits to run_journal and parents
  at,            \* object -> the statement it is about to execute
  applied,       \* object -> the events its states are the replay of
  lastSequence,  \* object -> _last_sequence (and _last_event_hash)
  dataVersion,   \* object -> _data_version
  count,         \* object -> count and last_sequence as _snapshot read them
  observed,      \* object -> observed_version as _snapshot read it
  floor          \* object -> rows when its read began (observed by properties)

tableVars == <<stored, other>>
cacheVars == <<applied, lastSequence, dataVersion>>
readVars == <<count, observed, floor>>
snapshotVars == <<tableVars, at, cacheVars, readVars>>

-------------------------------------------------------------------------------

\* The first n events.
Upto(n) == [i \in 1..n |-> i]

\* PRAGMA data_version of the observer: every commit is another connection's.
Version == stored + other

\* The events after sequence number s.
After(s) == [i \in 1..(stored - s) |-> s + i]

Go(o, label) == at' = [at EXCEPT ![o] = label]

-------------------------------------------------------------------------------
(* open and close. *)

OpenObject(o) ==
  /\ at[o] = "closed"
  /\ applied' = [applied EXCEPT ![o] = Upto(stored)]
  /\ lastSequence' = [lastSequence EXCEPT ![o] = stored]
  /\ Go(o, "replayed")
  /\ UNCHANGED <<tableVars, dataVersion, readVars>>

\* _start_observer, after the transaction of the replay.
StartObserver(o) ==
  /\ at[o] = "replayed"
  /\ dataVersion' = [dataVersion EXCEPT ![o] = Version]
  /\ Go(o, "idle")
  /\ UNCHANGED <<tableVars, applied, lastSequence, readVars>>

\* close, or the end of the process wherever it is.
Close(o) ==
  /\ at[o] # "closed"
  /\ Go(o, "closed")
  /\ applied' = [applied EXCEPT ![o] = <<>>]
  /\ lastSequence' = [lastSequence EXCEPT ![o] = 0]
  /\ dataVersion' = [dataVersion EXCEPT ![o] = 0]
  /\ UNCHANGED <<tableVars, readVars>>

-------------------------------------------------------------------------------
(* A read: generation, state, states, rows. *)

\* SELECT COUNT and MAX(sequence).
ReadCount(o) ==
  /\ at[o] = "idle"
  /\ count' = [count EXCEPT ![o] = stored]
  /\ floor' = [floor EXCEPT ![o] = stored]
  /\ Go(o, "counted")
  /\ UNCHANGED <<tableVars, cacheVars, observed>>

\* Faulty variant: an unchanged data version means unchanged rows.
ReadVersion_IsEnough(o) ==
  /\ at[o] = "counted"
  /\ observed' = [observed EXCEPT ![o] = Version]
  /\ Go(o, IF Version # dataVersion[o] THEN "outdated" ELSE "idle")
  /\ UNCHANGED <<tableVars, cacheVars, count, floor>>

\* A table that shrank raises; it only grows here.
ReadVersion(o) ==
  /\ at[o] = "counted"
  /\ observed' = [observed EXCEPT ![o] = Version]
  /\ \/ Version # dataVersion[o] /\ count[o] >= Len(applied[o]) /\ Go(o, "outdated")
     \/ Version = dataVersion[o] /\ Go(o, "current")
  /\ UNCHANGED <<tableVars, cacheVars, count, floor>>

\* The last row's hash decides; if it contradicts the count, a replay does.
ReadTail(o) ==
  /\ at[o] = "current"
  /\ \/ /\ count[o] = Len(applied[o]) /\ stored = lastSequence[o]
        /\ Go(o, "idle")
     \/ /\ count[o] # Len(applied[o]) \/ stored # lastSequence[o]
        /\ count[o] < Len(applied[o]) \/ count[o] <= lastSequence[o]
        /\ Go(o, "doubtful")
     \/ /\ count[o] # Len(applied[o]) \/ stored # lastSequence[o]
        /\ count[o] >= Len(applied[o]) /\ count[o] > lastSequence[o]
        /\ Go(o, "behind")
  /\ UNCHANGED <<tableVars, cacheVars, readVars>>

\* Faulty variant: the rows that were counted are applied, whichever arrived.
CatchUp_Counted(o) ==
  /\ at[o] = "behind"
  /\ applied' = [applied EXCEPT ![o] =
       @ \o SubSeq(After(lastSequence[o]), 1, count[o] - Len(@))]
  /\ lastSequence' = [lastSequence EXCEPT ![o] = stored]
  /\ Go(o, "idle")
  /\ UNCHANGED <<tableVars, dataVersion, readVars>>

\* SELECT the rows after _last_sequence: as many as expected, or replay.
CatchUp(o) ==
  /\ at[o] = "behind"
  /\ \/ /\ stored - lastSequence[o] # count[o] - Len(applied[o])
        /\ Go(o, "doubtful")
        /\ UNCHANGED <<applied, lastSequence>>
     \/ /\ stored - lastSequence[o] = count[o] - Len(applied[o])
        /\ applied' = [applied EXCEPT ![o] = @ \o After(lastSequence[o])]
        /\ lastSequence' = [lastSequence EXCEPT ![o] = stored]
        /\ Go(o, "idle")
  /\ UNCHANGED <<tableVars, dataVersion, readVars>>

\* _replay: one SELECT over the whole table.
Replay(o) ==
  /\ at[o] \in {"outdated", "doubtful"}
  /\ applied' = [applied EXCEPT ![o] = Upto(stored)]
  /\ lastSequence' = [lastSequence EXCEPT ![o] = stored]
  /\ dataVersion' =
       IF at[o] = "outdated" THEN [dataVersion EXCEPT ![o] = observed[o]]
       ELSE dataVersion
  /\ Go(o, "idle")
  /\ UNCHANGED <<tableVars, readVars>>

-------------------------------------------------------------------------------
(* An append. *)

\* _snapshot inside the transaction: no row arrives between its statements.
Caught(o) ==
  IF Version = dataVersion[o] /\ stored - lastSequence[o] = stored - Len(applied[o])
  THEN applied[o] \o After(lastSequence[o])
  ELSE Upto(stored)

CaughtVersion(o) == [dataVersion EXCEPT ![o] = Version]

\* Faulty variant: the event goes to states nobody brought up to date.
Commit_Stale(o) ==
  /\ at[o] = "idle" /\ stored < MaxRows
  /\ stored' = stored + 1
  /\ applied' = [applied EXCEPT ![o] = Append(@, stored + 1)]
  /\ lastSequence' = [lastSequence EXCEPT ![o] = stored + 1]
  /\ Go(o, "committed")
  /\ UNCHANGED <<other, dataVersion, readVars>>

\* The transaction commits, and the object applies the event it wrote.
Commit(o) ==
  /\ at[o] = "idle" /\ stored < MaxRows
  /\ stored' = stored + 1
  /\ applied' = [applied EXCEPT ![o] = Append(Caught(o), stored + 1)]
  /\ lastSequence' = [lastSequence EXCEPT ![o] = stored + 1]
  /\ dataVersion' = CaughtVersion(o)
  /\ Go(o, "committed")
  /\ UNCHANGED <<other, readVars>>

\* The event is a duplicate, or advance or the gate refuses it.
CommitNothing(o, label) ==
  /\ at[o] = "idle" /\ label \in {"idle", "committed"}
  /\ applied' = [applied EXCEPT ![o] = Caught(o)]
  /\ lastSequence' = [lastSequence EXCEPT ![o] = stored]
  /\ dataVersion' = CaughtVersion(o)
  /\ Go(o, label)
  /\ UNCHANGED <<tableVars, readVars>>

\* _sync, then _data_version: commits of others in between are in it too.
FinishAppend(o) ==
  /\ at[o] = "committed"
  /\ dataVersion' = [dataVersion EXCEPT ![o] = Version]
  /\ Go(o, "idle")
  /\ UNCHANGED <<tableVars, applied, lastSequence, readVars>>

\* The directory check after the commit raises: the row is there, and the
\* object was not told.
CommitAndRaise(o) ==
  /\ at[o] = "idle" /\ stored < MaxRows
  /\ stored' = stored + 1
  /\ applied' = [applied EXCEPT ![o] = Caught(o)]
  /\ lastSequence' = [lastSequence EXCEPT ![o] = stored]
  /\ dataVersion' = CaughtVersion(o)
  /\ UNCHANGED <<other, at, readVars>>

\* _sync raises, and the data version stays the one of before the commit.
FailToSync(o) ==
  /\ at[o] = "committed"
  /\ Go(o, "idle")
  /\ UNCHANGED <<tableVars, cacheVars, readVars>>

\* The journal or the parents table of the same file is written.
CommitOther ==
  /\ other < MaxOther
  /\ other' = other + 1
  /\ UNCHANGED <<stored, at, cacheVars, readVars>>

-------------------------------------------------------------------------------

SnapshotInit ==
  /\ stored = 0 /\ other = 0
  /\ at = [o \in Objects |-> "closed"]
  /\ applied = [o \in Objects |-> <<>>]
  /\ lastSequence = [o \in Objects |-> 0]
  /\ dataVersion = [o \in Objects |-> 0]
  /\ count = [o \in Objects |-> 0]
  /\ observed = [o \in Objects |-> 0]
  /\ floor = [o \in Objects |-> 0]

SnapshotNext ==
  \/ \E o \in Objects :
       \/ OpenObject(o) \/ StartObserver(o) \/ Close(o)
       \/ ReadCount(o) \/ ReadVersion(o) \/ ReadTail(o) \/ CatchUp(o) \/ Replay(o)
       \/ Commit(o) \/ FinishAppend(o) \/ CommitAndRaise(o) \/ FailToSync(o)
       \/ \E label \in {"idle", "committed"} : CommitNothing(o, label)
  \/ CommitOther

SnapshotSpec == SnapshotInit /\ [][SnapshotNext]_snapshotVars

-------------------------------------------------------------------------------
(* Properties. *)

Reading == {"counted", "current", "behind", "outdated", "doubtful"}

\* Whatever others commit between two statements of an object, its states are
\* the replay of a beginning of the table: no event is skipped or applied twice.
CacheIsBeginning ==
  \A o \in Objects :
    /\ applied[o] = Upto(Len(applied[o]))
    /\ lastSequence[o] = Len(applied[o])
    /\ Len(applied[o]) <= stored

\* A read returns states that show every event committed before it began: a
\* dispatcher that holds the request lock sees all that was written before.
ReadsAreFresh ==
  [][\A o \in Objects :
       at[o] \in Reading /\ at'[o] = "idle" =>
         Len(applied'[o]) >= floor[o]]_snapshotVars

===============================================================================
