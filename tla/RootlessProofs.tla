----------------------------- MODULE RootlessProofs -----------------------------
(***************************************************************************)
(* Proofs about RootlessLedger and RootlessStage, for any slots, order,    *)
(* predecessors, caps and costs and any number of processes, deaths and    *)
(* failing writes: the ledger keeps the promise of EgressBudget, and the   *)
(* stage broker uses its ledger as RootlessLedger lets a client, and so    *)
(* keeps that promise as well; receipts and seals are true of the records; *)
(* and a first process that meets no fault seals its stage.                *)
(***************************************************************************)
EXTENDS RootlessStage, FiniteSetTheorems, TLAPS

-------------------------------------------------------------------------------
(* The inductive invariant. *)

\* The slot whose record is on disk and not in memory yet, and its cost.
AtHead == IF writing.step = "head" THEN {writing.record.slot} ELSE {}

Written(stage) ==
  IF writing.step = "head" /\ writing.record.stage = stage
  THEN writing.record.cost ELSE 0

\* Settlements on disk that the object will never hold: their heads failed.
Late(stage) ==
  {s \in Slots : /\ StageOf[s] = stage
                 /\ known.account[s] = "reserved" /\ disk.account[s] = "settled"
                 /\ s \notin AtHead}

\* What reserve leaves true of a list of records.
WithinCaps(contents) ==
  /\ \A stage \in Stages :
       /\ Cardinality(Issued(contents, stage)) <= CallCap[stage]
       /\ Accounted(contents, stage) <= MoneyCap[stage]
  /\ Accounted(contents, "screening") + Accounted(contents, "bct") <= TotalMoneyCap

\* The four kinds of records, and what is known when one is written.
Reserving(r) ==
  /\ r.slot \in Slots /\ StageOf[r.slot] = r.stage
  /\ r.account = "reserved" /\ r.cost = 0
  /\ known.account[r.slot] = "none"
  /\ Fits(r.slot)

Settling(r) ==
  /\ r.slot \in Slots /\ StageOf[r.slot] = r.stage
  /\ r.account = "settled" /\ r.cost \in Costs
  /\ task[r.slot] = "called" /\ known.account[r.slot] = "reserved"
  /\ writing.step = "record" => disk.account[r.slot] = "reserved"

Skipping(r) ==
  /\ r.slot \in Slots
  /\ r.account = "skipped" /\ r.cost = 0
  /\ known.account[r.slot] = "none"

Ending(r) == r.slot = NoSlot /\ r.cost = 0 /\ r.verdict # NoVerdict

Sound(r) ==
  /\ r.stage = opened
  /\ Reserving(r) \/ Settling(r) \/ Skipping(r) \/ Ending(r)
  /\ writing.step = "head" /\ r.slot \in Slots => disk.account[r.slot] = r.account

\* A process that is down has no memory.
DownIsBlank ==
  opened = NoStage =>
    /\ known = Blank /\ lost = Blank /\ writing = Idle
    /\ \A s \in Slots : task[s] = "fresh"

\* A called slot is reserved or settled, on disk and, once opened, in memory.
CalledIsIssued ==
  \A s \in Slots :
    calls[s] # 0 =>
      /\ calls[s] = 1
      /\ disk.account[s] \in {"reserved", "settled"}
      /\ opened # NoStage => known.account[s] \in {"reserved", "settled"}

\* What the object holds is on disk, or was and is settled there by now.
KnownIsOnDisk ==
  opened # NoStage =>
    \A s \in Slots :
      /\ known.account[s] = "settled" => disk.account[s] = "settled"
      /\ known.account[s] = "reserved" => disk.account[s] \in {"reserved", "settled"}

\* A task between its reservation and its settlement.
TasksAreHeld ==
  \A s \in Slots :
    task[s] \in {"granted", "called"} =>
      /\ StageOf[s] = opened
      /\ known.account[s] = "reserved"
      /\ calls[s] = IF task[s] = "granted" THEN 0 ELSE 1
      /\ disk.account[s] = "reserved" \/ (task[s] = "called" /\ s \in AtHead)

\* The cost of a settlement the object lost is at most the reservation it keeps.
SpentIsBounded ==
  opened # NoStage =>
    \A stage \in Stages :
      disk.spent[stage] <= known.spent[stage] + Written(stage)
                             + Reservation * Cardinality(Late(stage))

\* An object that lost nothing holds what is on disk.
MemoryIsDisk ==
  opened # NoStage /\ lost = Blank =>
    disk = IF writing.step = "head" THEN With(known, writing.record) ELSE known

LedgerIInv ==
  /\ RootlessTypeOK
  /\ writing # Idle => Sound(writing.record)
  /\ DownIsBlank /\ CalledIsIssued /\ KnownIsOnDisk /\ TasksAreHeld
  /\ SpentIsBounded /\ MemoryIsDisk
  /\ opened # NoStage => WithinCaps(known)
  /\ "records" \notin damaged => WithinCaps(disk)

-------------------------------------------------------------------------------
(* Arithmetic and cardinalities. *)

LEMMA TimesMonotone ==
  ASSUME NEW r \in Nat, NEW a \in Nat, NEW b \in Nat, a <= b
  PROVE  /\ r * a \in Nat /\ r * b \in Nat
         /\ r * a <= r * b
         /\ r * (a + 1) = r * a + r
BY SMT

LEMMA SlotSets ==
  ASSUME NEW set \in SUBSET Slots
  PROVE  IsFiniteSet(set) /\ Cardinality(set) \in Nat
BY RootlessAssumption, FS_Subset, FS_CardinalityType DEF RootlessAssumption

\* Disjoint sets of slots, side by side in a third.
LEMMA SideBySide ==
  ASSUME NEW a \in SUBSET Slots, NEW b \in SUBSET Slots, NEW c \in SUBSET Slots,
         a \cup b \subseteq c, a \cap b = {}
  PROVE  Reservation * Cardinality(a) + Reservation * Cardinality(b)
           <= Reservation * Cardinality(c)
<1>1. /\ IsFiniteSet(a) /\ IsFiniteSet(b) /\ IsFiniteSet(c)
      /\ Cardinality(a) \in Nat /\ Cardinality(b) \in Nat /\ Cardinality(c) \in Nat
  BY SlotSets
<1>2. Cardinality(a \cup b) = Cardinality(a) + Cardinality(b)
  BY <1>1, FS_Union, FS_EmptySet
<1>3. Cardinality(a) + Cardinality(b) <= Cardinality(c)
  BY <1>1, <1>2, FS_Subset
<1>4. Reservation * (Cardinality(a) + Cardinality(b)) <= Reservation * Cardinality(c)
  BY <1>1, <1>3, TimesMonotone, RootlessAssumption DEF RootlessAssumption
<1> QED
  BY <1>1, <1>4, RootlessAssumption DEF RootlessAssumption

-------------------------------------------------------------------------------
(* One more record. *)

LEMMA RecordTypes ==
  ASSUME NEW r \in Records
  PROVE  /\ r.slot \in Slots \cup {NoSlot} /\ r.account \in Accounts
         /\ r.cost \in Nat /\ r.cost <= Reservation
         /\ r.stage \in Stages /\ r.verdict \in Verdicts \cup {NoVerdict}
<1>1. r.cost \in Costs \cup {0}
  BY DEF Records
<1>2. \A c \in Costs \cup {0} : c \in Nat /\ c <= Reservation
  BY RootlessAssumption DEF RootlessAssumption
<1> QED BY <1>1, <1>2 DEF Records

LEMMA ContentsTypes ==
  ASSUME NEW contents \in Contents
  PROVE  /\ contents.account \in [Slots -> Accounts]
         /\ contents.spent \in [Stages -> Nat]
BY DEF Contents

LEMMA WithIsContents ==
  ASSUME NEW contents \in Contents, NEW r \in Records
  PROVE  With(contents, r) \in Contents
<1>1. r.cost \in Nat /\ r.stage \in Stages
  BY RecordTypes
<1>2. [s \in Slots |-> IF s = r.slot THEN r.account ELSE contents.account[s]]
        \in [Slots -> Accounts]
  BY DEF Contents, Records
<1>3. [contents.spent EXCEPT ![r.stage] = @ + r.cost] \in [Stages -> Nat]
  BY <1>1 DEF Contents
<1> QED
  BY <1>1, <1>2, <1>3 DEF With, Contents, Records

LEMMA WithAccount ==
  ASSUME NEW contents, NEW r, NEW s \in Slots
  PROVE  With(contents, r).account[s]
           = IF s = r.slot THEN r.account ELSE contents.account[s]
BY DEF With

LEMMA WithSpent ==
  ASSUME NEW contents \in Contents, NEW r \in Records, NEW stage \in Stages
  PROVE  With(contents, r).spent[stage]
           = contents.spent[stage] + IF stage = r.stage THEN r.cost ELSE 0
<1>1. r.cost \in Nat /\ r.stage \in Stages /\ contents.spent \in [Stages -> Nat]
  BY RecordTypes, ContentsTypes
<1> QED BY <1>1 DEF With

\* A record leaves a trace, whatever the list it is added to.
LEMMA WithIsNotBlank ==
  ASSUME NEW contents \in Contents, NEW r \in Records,
         \/ r.slot \in Slots /\ r.account # "none"
         \/ r.verdict # NoVerdict
  PROVE  With(contents, r) # Blank
<1>1. CASE r.slot \in Slots /\ r.account # "none"
  <2>0. \A s \in Slots :
          With(contents, r).account[s]
            = IF s = r.slot THEN r.account ELSE contents.account[s]
    BY WithAccount
  <2>1. With(contents, r).account[r.slot] = r.account
    BY <1>1, <2>0
  <2>2. Blank.account[r.slot] = "none"
    BY <1>1 DEF Blank
  <2> QED BY <1>1, <2>1, <2>2
<1>2. CASE r.verdict # NoVerdict
  <2>1. With(contents, r).last.verdict = r.verdict
    BY DEF With
  <2>2. Blank.last.verdict = NoVerdict
    BY DEF Blank
  <2> QED BY <1>2, <2>1, <2>2
<1> QED BY <1>1, <1>2

LEMMA ContentsNumbers ==
  ASSUME NEW contents \in Contents, NEW stage \in Stages
  PROVE  /\ Held(contents, stage) \in SUBSET Slots
         /\ Issued(contents, stage) \in SUBSET Slots
         /\ Cardinality(Held(contents, stage)) \in Nat
         /\ Cardinality(Issued(contents, stage)) \in Nat
         /\ Retained(contents, stage) \in Nat
         /\ contents.spent[stage] \in Nat
         /\ Accounted(contents, stage) \in Nat
<1>1. Held(contents, stage) \in SUBSET Slots /\ Issued(contents, stage) \in SUBSET Slots
  BY DEF Held, Issued
<1>2. /\ Cardinality(Held(contents, stage)) \in Nat
      /\ Cardinality(Issued(contents, stage)) \in Nat
  BY <1>1, SlotSets
<1>3. Reservation \in Nat
  BY RootlessAssumption DEF RootlessAssumption
<1>4. contents.spent[stage] \in Nat
  BY ContentsTypes
<1>5. Retained(contents, stage) \in Nat
  BY <1>2, <1>3 DEF Retained
<1> QED BY <1>1, <1>2, <1>4, <1>5 DEF Accounted

\* A reservation: one more slot issued, one more held.
LEMMA AfterReserving ==
  ASSUME known \in Contents, NEW r \in Records, Reserving(r), NEW stage \in Stages
  PROVE  /\ Cardinality(Issued(With(known, r), stage))
              = Cardinality(Issued(known, stage)) + IF stage = r.stage THEN 1 ELSE 0
         /\ Accounted(With(known, r), stage)
              = Accounted(known, stage) + IF stage = r.stage THEN Reservation ELSE 0
<1> DEFINE w == With(known, r)
<1>1. /\ \A s \in Slots :
           w.account[s] = IF s = r.slot THEN "reserved" ELSE known.account[s]
      /\ w.spent[stage] = known.spent[stage]
  <2>1. known.spent[stage] \in Nat
    BY ContentsTypes
  <2> QED BY <2>1, WithAccount, WithSpent DEF Reserving
<1> HIDE DEF w
<1>2. /\ r.slot \in Slots /\ StageOf[r.slot] = r.stage
      /\ r.slot \notin Issued(known, stage) /\ r.slot \notin Held(known, stage)
  BY DEF Reserving, Issued, Held
<1>3. /\ Issued(w, stage) = IF stage = r.stage THEN Issued(known, stage) \cup {r.slot}
                            ELSE Issued(known, stage)
      /\ Held(w, stage) = IF stage = r.stage THEN Held(known, stage) \cup {r.slot}
                          ELSE Held(known, stage)
  BY <1>1, <1>2 DEF Issued, Held
<1>4. /\ IsFiniteSet(Issued(known, stage)) /\ IsFiniteSet(Held(known, stage))
      /\ Cardinality(Issued(known, stage)) \in Nat
      /\ Cardinality(Held(known, stage)) \in Nat
  BY ContentsNumbers, SlotSets
<1>5. /\ Cardinality(Issued(known, stage) \cup {r.slot})
           = Cardinality(Issued(known, stage)) + 1
      /\ Cardinality(Held(known, stage) \cup {r.slot})
           = Cardinality(Held(known, stage)) + 1
  BY <1>2, <1>4, FS_AddElement
<1>6. Reservation \in Nat
  BY RootlessAssumption DEF RootlessAssumption
<1>7. Reservation * (Cardinality(Held(known, stage)) + 1)
        = Reservation * Cardinality(Held(known, stage)) + Reservation
  BY <1>4, <1>6, TimesMonotone
<1>8. known.spent[stage] \in Nat /\ Reservation * Cardinality(Held(known, stage)) \in Nat
  BY ContentsNumbers DEF Retained
<1>9. CASE stage = r.stage
  BY <1>1, <1>3, <1>5, <1>6, <1>7, <1>8, <1>9 DEF Accounted, Retained, w
<1>10. CASE stage # r.stage
  BY <1>1, <1>3, <1>4, <1>8, <1>10 DEF Accounted, Retained, w
<1> QED BY <1>9, <1>10

\* A settlement: one held slot less, which cost no more than its reservation.
LEMMA AfterSettling ==
  ASSUME known \in Contents, NEW r \in Records, Settling(r), NEW stage \in Stages
  PROVE  /\ Issued(With(known, r), stage) = Issued(known, stage)
         /\ Accounted(With(known, r), stage) <= Accounted(known, stage)
<1> DEFINE w == With(known, r)
<1>1. /\ \A s \in Slots :
           w.account[s] = IF s = r.slot THEN "settled" ELSE known.account[s]
      /\ w.spent[stage] = known.spent[stage] + IF stage = r.stage THEN r.cost ELSE 0
  BY WithAccount, WithSpent DEF Settling
<1> HIDE DEF w
<1>2. /\ r.slot \in Slots /\ StageOf[r.slot] = r.stage
      /\ known.account[r.slot] = "reserved"
  BY DEF Settling
<1>3. /\ Issued(w, stage) = Issued(known, stage)
      /\ Held(w, stage) = IF stage = r.stage THEN Held(known, stage) \ {r.slot}
                          ELSE Held(known, stage)
  BY <1>1, <1>2 DEF Issued, Held
<1>4. /\ IsFiniteSet(Held(known, stage)) /\ Cardinality(Held(known, stage)) \in Nat
      /\ known.spent[stage] \in Nat
      /\ Reservation \in Nat /\ r.cost \in Nat /\ r.cost <= Reservation
  BY ContentsNumbers, SlotSets, RecordTypes, RootlessAssumption DEF RootlessAssumption
<1>5. CASE stage = r.stage
  <2>1. r.slot \in Held(known, stage)
    BY <1>2, <1>5 DEF Held
  <2>2. /\ Cardinality(Held(w, stage)) \in Nat
        /\ Cardinality(Held(w, stage)) + 1 = Cardinality(Held(known, stage))
    <3>1. Cardinality(Held(w, stage)) = Cardinality(Held(known, stage)) - 1
      BY <1>3, <1>4, <1>5, <2>1, FS_RemoveElement
    <3>2. Cardinality(Held(w, stage)) \in Nat
      BY SlotSets DEF Held
    <3> QED BY <1>4, <3>1, <3>2
  <2>3. /\ Reservation * Cardinality(Held(w, stage)) \in Nat
        /\ Reservation * Cardinality(Held(known, stage))
             = Reservation * Cardinality(Held(w, stage)) + Reservation
    BY <1>4, <2>2, TimesMonotone
  <2> QED BY <1>1, <1>3, <1>4, <1>5, <2>3 DEF Accounted, Retained, w
<1>6. CASE stage # r.stage
  <2>1. Reservation * Cardinality(Held(known, stage)) \in Nat
    BY <1>4
  <2> QED BY <1>1, <1>3, <1>4, <1>6, <2>1 DEF Accounted, Retained, w
<1> QED BY <1>5, <1>6

\* A record of neither kind.
LEMMA AfterOther ==
  ASSUME known \in Contents, NEW r \in Records, Skipping(r) \/ Ending(r),
         NEW stage \in Stages
  PROVE  /\ Issued(With(known, r), stage) = Issued(known, stage)
         /\ Accounted(With(known, r), stage) = Accounted(known, stage)
<1> DEFINE w == With(known, r)
<1>1. /\ \A s \in Slots :
           w.account[s] = IF s = r.slot THEN r.account ELSE known.account[s]
      /\ w.spent[stage] = known.spent[stage]
  <2>1. r.cost = 0 /\ known.spent[stage] \in Nat
    BY ContentsTypes DEF Skipping, Ending
  <2> QED BY <2>1, WithAccount, WithSpent
<1> HIDE DEF w
<1>2. \A s \in Slots : \/ w.account[s] = known.account[s]
                       \/ w.account[s] = "skipped" /\ known.account[s] = "none"
  BY <1>1, RootlessAssumption DEF RootlessAssumption, Skipping, Ending
<1>3. Issued(w, stage) = Issued(known, stage) /\ Held(w, stage) = Held(known, stage)
  BY <1>2 DEF Issued, Held
<1> QED BY <1>1, <1>3 DEF Accounted, Retained, w

\* The caps, which reserve checks and the other records cannot break.
LEMMA CapsKept ==
  ASSUME known \in Contents, NEW r \in Records,
         Reserving(r) \/ Settling(r) \/ Skipping(r) \/ Ending(r),
         WithinCaps(known)
  PROVE  WithinCaps(With(known, r))
<1> DEFINE w == With(known, r)
<1>1. "screening" \in Stages /\ "bct" \in Stages
      /\ \A stage \in Stages : stage = "screening" \/ stage = "bct"
  BY DEF Stages
<1>2. \A stage \in Stages :
        /\ Accounted(known, stage) \in Nat
        /\ Cardinality(Issued(known, stage)) \in Nat
  BY ContentsNumbers
<1>3. \A stage \in Stages : Accounted(w, stage) \in Nat
  BY ContentsNumbers, WithIsContents
<1>4. /\ Reservation \in Nat /\ TotalMoneyCap \in Nat
      /\ \A stage \in Stages : CallCap[stage] \in Nat /\ MoneyCap[stage] \in Nat
  BY RootlessAssumption DEF RootlessAssumption
<1> HIDE DEF w
<1>5. CASE Reserving(r)
  <2>1. \A stage \in Stages :
          /\ Cardinality(Issued(w, stage))
               = Cardinality(Issued(known, stage)) + IF stage = r.stage THEN 1 ELSE 0
          /\ Accounted(w, stage)
               = Accounted(known, stage) + IF stage = r.stage THEN Reservation ELSE 0
    BY <1>5, AfterReserving DEF w
  <2>2. /\ r.stage \in Stages
        /\ Cardinality(Issued(known, r.stage)) < CallCap[r.stage]
        /\ Accounted(known, r.stage) + Reservation <= MoneyCap[r.stage]
        /\ Accounted(known, "screening") + Accounted(known, "bct") + Reservation
             <= TotalMoneyCap
    BY <1>5, RecordTypes DEF Reserving, Fits
  <2>3. \A stage \in Stages :
          /\ Cardinality(Issued(w, stage)) <= CallCap[stage]
          /\ Accounted(w, stage) <= MoneyCap[stage]
    <3>1. TAKE stage \in Stages
    <3>2. CASE stage = r.stage
      BY <1>2, <1>4, <2>1, <2>2, <3>2
    <3>3. CASE stage # r.stage
      BY <1>2, <1>4, <2>1, <3>3 DEF WithinCaps
    <3> QED BY <3>2, <3>3
  <2>4. Accounted(w, "screening") + Accounted(w, "bct")
          <= Accounted(known, "screening") + Accounted(known, "bct") + Reservation
    <3>1. CASE r.stage = "screening"
      BY <1>1, <1>2, <1>4, <2>1, <3>1
    <3>2. CASE r.stage = "bct"
      BY <1>1, <1>2, <1>4, <2>1, <3>2
    <3> QED BY <1>1, <2>2, <3>1, <3>2
  <2>5. Accounted(w, "screening") + Accounted(w, "bct") <= TotalMoneyCap
    BY <1>1, <1>2, <1>3, <1>4, <2>2, <2>4
  <2> QED BY <2>3, <2>5 DEF WithinCaps, w
<1>6. CASE ~Reserving(r)
  <2>1. \A stage \in Stages :
          /\ Issued(w, stage) = Issued(known, stage)
          /\ Accounted(w, stage) <= Accounted(known, stage)
    <3>1. CASE Settling(r)
      BY <3>1, AfterSettling DEF w
    <3>2. CASE Skipping(r) \/ Ending(r)
      BY <3>2, <1>2, AfterOther DEF w
    <3> QED BY <1>6, <3>1, <3>2
  <2>2. \A stage \in Stages :
          /\ Cardinality(Issued(w, stage)) <= CallCap[stage]
          /\ Accounted(w, stage) <= MoneyCap[stage]
    BY <1>2, <1>3, <1>4, <2>1 DEF WithinCaps
  <2>3. Accounted(w, "screening") + Accounted(w, "bct") <= TotalMoneyCap
    BY <1>1, <1>2, <1>3, <1>4, <2>1 DEF WithinCaps
  <2> QED BY <2>2, <2>3 DEF WithinCaps, w
<1> QED BY <1>5, <1>6

-------------------------------------------------------------------------------
(* The invariant is inductive.  Where the append stands: *)

LEMMA NothingUnderWay ==
  ASSUME writing = Idle
  PROVE  /\ writing.step = "none" /\ AtHead = {}
         /\ \A stage \in Stages : Written(stage) = 0
BY DEF Idle, AtHead, Written

LEMMA RecordUnderWay ==
  ASSUME LedgerIInv, writing # Idle
  PROVE  /\ writing.step \in {"record", "head"}
         /\ writing = Appending(writing.record, writing.step)
         /\ writing.record \in Records
         /\ Sound(writing.record)
         /\ opened \in Stages
<1>1. PICK r \in Records, step \in {"record", "head"} : writing = Appending(r, step)
  BY DEF LedgerIInv, RootlessTypeOK
<1>2. writing.step = step /\ writing.record = r
  BY <1>1 DEF Appending
<1>3. Sound(writing.record)
  BY DEF LedgerIInv
<1>4. opened \in Stages
  BY <1>2, <1>3, RecordTypes DEF Sound
<1> QED BY <1>1, <1>2, <1>3, <1>4

LEMMA LateIsCounted ==
  ASSUME NEW stage \in Stages
  PROVE  /\ Late(stage) \in SUBSET Slots
         /\ IsFiniteSet(Late(stage)) /\ Cardinality(Late(stage)) \in Nat
<1>1. Late(stage) \in SUBSET Slots
  BY DEF Late
<1> QED BY <1>1, SlotSets

\* An empty directory and no process satisfy the invariant (GlobalLedger.__init__).
THEOREM LedgerStarts == LedgerInit => LedgerIInv
<1> SUFFICES ASSUME LedgerInit PROVE LedgerIInv
  OBVIOUS
<1> USE DEF LedgerInit
<1>1. Blank \in Contents
  BY DEF Blank, Contents, Accounts, Stages
<1>2. RootlessTypeOK
  BY <1>1 DEF RootlessTypeOK
<1>3. DownIsBlank /\ KnownIsOnDisk /\ TasksAreHeld /\ CalledIsIssued
  BY DEF DownIsBlank, KnownIsOnDisk, TasksAreHeld, CalledIsIssued
<1>4. SpentIsBounded /\ MemoryIsDisk
  BY DEF SpentIsBounded, MemoryIsDisk
<1>5. WithinCaps(Blank)
  <2>1. \A stage \in Stages :
          Issued(Blank, stage) = {} /\ Held(Blank, stage) = {} /\ Blank.spent[stage] = 0
    BY DEF Blank, Issued, Held
  <2>2. \A stage \in Stages :
          Cardinality(Issued(Blank, stage)) = 0 /\ Accounted(Blank, stage) = 0
    <3>1. Reservation * 0 = 0
      BY RootlessAssumption DEF RootlessAssumption
    <3> QED BY <2>1, <3>1, FS_EmptySet DEF Accounted, Retained
  <2>3. /\ \A stage \in Stages : 0 <= CallCap[stage] /\ 0 <= MoneyCap[stage]
        /\ 0 <= TotalMoneyCap
    BY RootlessAssumption DEF RootlessAssumption
  <2> QED BY <2>2, <2>3 DEF WithinCaps, Stages
<1> QED BY <1>2, <1>3, <1>4, <1>5 DEF LedgerIInv

\* The first half of any append is not begun before the last is over.
LEMMA BeginKeeps ==
  ASSUME LedgerIInv, Ready, NEW r \in Records, Begin(r), Sound(r)'
  PROVE  LedgerIInv'
<1> USE DEF Begin, Ready
<1>1. /\ writing'.step = "record" /\ writing'.record = r /\ writing' # Idle
      /\ writing.step = "none" /\ AtHead = {} /\ AtHead' = {}
  BY DEF Appending, Idle, AtHead
<1>2. RootlessTypeOK'
  BY DEF LedgerIInv, RootlessTypeOK
<1>3. Sound(writing.record)'
  BY <1>1 DEF Sound, Reserving, Settling, Skipping, Ending, Fits
<1>4. DownIsBlank' /\ CalledIsIssued' /\ KnownIsOnDisk' /\ TasksAreHeld'
  BY <1>1 DEF LedgerIInv, DownIsBlank, CalledIsIssued, KnownIsOnDisk, TasksAreHeld
<1>5. \A stage \in Stages :
        Late(stage)' = Late(stage) /\ Written(stage)' = 0 /\ Written(stage) = 0
  BY <1>1 DEF Late, Written
<1>6. SpentIsBounded'
  BY <1>5 DEF LedgerIInv, SpentIsBounded
<1>7. MemoryIsDisk'
  BY <1>1 DEF LedgerIInv, MemoryIsDisk
<1>8. (opened # NoStage => WithinCaps(known))' /\ ("records" \notin damaged => WithinCaps(disk))'
  BY DEF LedgerIInv
<1> QED BY <1>2, <1>3, <1>4, <1>6, <1>7, <1>8 DEF LedgerIInv

LEMMA WriteRecordKeeps ==
  ASSUME LedgerIInv, WriteRecord
  PROVE  LedgerIInv'
<1> DEFINE r == writing.record
<1>1. /\ writing.step = "record" /\ writing # Idle
      /\ r \in Records /\ Sound(r) /\ opened \in Stages /\ opened # NoStage
      /\ r.slot \notin Slots \/ r.slot # NoSlot
  <2>1. writing.step = "record" /\ writing # Idle
    BY DEF WriteRecord, Idle
  <2> QED BY <2>1, RecordUnderWay, RootlessAssumption DEF RootlessAssumption
<1>2. /\ writing'.step = "head" /\ writing'.record = r /\ writing' # Idle
      /\ AtHead = {} /\ AtHead' = {r.slot}
      /\ writing' = Appending(r, "head")
  BY <1>1 DEF WriteRecord, Appending, Idle, AtHead
<1>3. /\ disk \in Contents /\ known \in Contents /\ disk' = With(disk, r)
      /\ \A s \in Slots :
           disk'.account[s] = IF s = r.slot THEN r.account ELSE disk.account[s]
      /\ UNCHANGED <<opened, known, lost, task, calls>>
  BY WithAccount DEF WriteRecord, LedgerIInv, RootlessTypeOK
<1>4. \A stage \in Stages :
        /\ disk.spent[stage] \in Nat
        /\ disk'.spent[stage] = disk.spent[stage] + IF stage = r.stage THEN r.cost ELSE 0
  BY <1>1, <1>3, WithSpent, ContentsTypes
<1> HIDE DEF r
<1>5. RootlessTypeOK'
  <2>1. disk' \in Contents
    BY <1>1, <1>3, WithIsContents
  <2> QED BY <1>1, <1>2, <2>1 DEF WriteRecord, LedgerIInv, RootlessTypeOK
<1>6. Sound(writing.record)'
  BY <1>1, <1>2, <1>3 DEF Sound, Reserving, Settling, Skipping, Ending, Fits
<1>7. DownIsBlank'
  BY <1>1, <1>3 DEF DownIsBlank
<1>8. \A s \in Slots :
        \/ disk'.account[s] = disk.account[s] /\ s # r.slot
        \/ known.account[s] = "none"
        \/ /\ s = r.slot /\ task[s] = "called" /\ known.account[s] = "reserved"
           /\ disk.account[s] = "reserved" /\ disk'.account[s] = "settled"
  BY <1>1, <1>3, RootlessAssumption
     DEF RootlessAssumption, Sound, Reserving, Settling, Skipping, Ending
<1>9. CalledIsIssued' /\ KnownIsOnDisk'
  BY <1>1, <1>3, <1>8 DEF LedgerIInv, CalledIsIssued, KnownIsOnDisk
<1>10. TasksAreHeld'
  BY <1>2, <1>3, <1>8 DEF LedgerIInv, TasksAreHeld
<1>11. SpentIsBounded'
  <2> SUFFICES ASSUME NEW stage \in Stages
               PROVE  disk'.spent[stage] <= known'.spent[stage] + Written(stage)'
                        + Reservation * Cardinality(Late(stage)')
    BY DEF SpentIsBounded
  <2>1. Late(stage)' = Late(stage)
    BY <1>2, <1>3, <1>8 DEF Late
  <2>2. Written(stage) = 0 /\ Written(stage)' = IF stage = r.stage THEN r.cost ELSE 0
    BY <1>1, <1>2 DEF Written
  <2>3. disk.spent[stage] <= known.spent[stage] + Reservation * Cardinality(Late(stage))
    <3>1. known.spent[stage] \in Nat
      BY <1>3, ContentsTypes
    <3> QED BY <1>1, <2>2, <3>1 DEF LedgerIInv, SpentIsBounded
  <2>4. /\ known.spent[stage] \in Nat /\ r.cost \in Nat
        /\ Reservation * Cardinality(Late(stage)) \in Nat
    BY <1>1, <1>3, ContentsTypes, RecordTypes, LateIsCounted, TimesMonotone,
       RootlessAssumption DEF RootlessAssumption
  <2> QED BY <1>3, <1>4, <2>1, <2>2, <2>3, <2>4
<1>12. MemoryIsDisk'
  BY <1>1, <1>2, <1>3 DEF LedgerIInv, MemoryIsDisk
<1>13. (opened # NoStage => WithinCaps(known))'
  BY <1>1, <1>3 DEF LedgerIInv
<1>14. ("records" \notin damaged => WithinCaps(disk))'
  <2> SUFFICES ASSUME "records" \notin damaged'
               PROVE  WithinCaps(disk')
    OBVIOUS
  <2>1. lost = Blank
    BY DEF WriteRecord
  <2>2. disk = known /\ WithinCaps(known)
    BY <1>1, <2>1 DEF LedgerIInv, MemoryIsDisk
  <2> QED BY <1>1, <1>3, <2>2, CapsKept DEF Sound
<1> QED BY <1>5, <1>6, <1>7, <1>9, <1>10, <1>11, <1>12, <1>13, <1>14 DEF LedgerIInv

LEMMA WriteHeadKeeps ==
  ASSUME LedgerIInv, WriteHead
  PROVE  LedgerIInv'
<1> DEFINE r == writing.record
<1>1. /\ writing.step = "head" /\ writing # Idle
      /\ r \in Records /\ Sound(r) /\ opened \in Stages /\ opened # NoStage
  <2>1. writing.step = "head" /\ writing # Idle
    BY DEF WriteHead, Idle
  <2> QED BY <2>1, RecordUnderWay, RootlessAssumption DEF RootlessAssumption
<1>2. /\ writing' = Idle /\ writing'.step = "none"
      /\ AtHead = {r.slot} /\ AtHead' = {}
      /\ \A stage \in Stages :
           /\ Written(stage) = IF stage = r.stage THEN r.cost ELSE 0
           /\ Written(stage)' = 0
  BY <1>1 DEF WriteHead, Idle, AtHead, Written
<1>3. /\ disk \in Contents /\ known \in Contents /\ known' = With(known, r)
      /\ \A s \in Slots :
           /\ known'.account[s] = IF s = r.slot THEN r.account ELSE known.account[s]
           /\ task'[s] = IF s = r.slot THEN TaskAfter(r) ELSE task[s]
      /\ UNCHANGED <<disk, damaged, opened, lost, calls>>
  BY WithAccount DEF WriteHead, LedgerIInv, RootlessTypeOK
<1>4. \A stage \in Stages :
        /\ known.spent[stage] \in Nat
        /\ known'.spent[stage] = known.spent[stage] + IF stage = r.stage THEN r.cost ELSE 0
  BY <1>1, <1>3, WithSpent, ContentsTypes
<1> HIDE DEF r
<1>5. RootlessTypeOK'
  <2>1. known' \in Contents
    BY <1>1, <1>3, WithIsContents
  <2>2. task' \in [Slots -> {"fresh", "granted", "called", "over"}]
    BY DEF WriteHead, LedgerIInv, RootlessTypeOK, TaskAfter
  <2> QED BY <1>2, <1>3, <2>1, <2>2 DEF WriteHead, LedgerIInv, RootlessTypeOK
<1>6. DownIsBlank'
  BY <1>1, <1>3 DEF DownIsBlank
<1>7. r.slot \in Slots =>
        /\ disk.account[r.slot] = r.account /\ r.stage = opened
        /\ \/ /\ r.account = "reserved" /\ StageOf[r.slot] = opened
              /\ known.account[r.slot] = "none"
           \/ r.account = "settled"
           \/ r.account = "skipped" /\ known.account[r.slot] = "none"
  BY <1>1, RootlessAssumption
     DEF RootlessAssumption, Sound, Reserving, Settling, Skipping, Ending
<1>8. r.slot \in Slots /\ known.account[r.slot] = "none" => calls[r.slot] = 0
  BY <1>1 DEF LedgerIInv, CalledIsIssued
<1>9. CalledIsIssued' /\ KnownIsOnDisk'
  BY <1>1, <1>3, <1>7, <1>8 DEF LedgerIInv, CalledIsIssued, KnownIsOnDisk
<1>10. TasksAreHeld'
  <2> SUFFICES ASSUME NEW s \in Slots, task'[s] \in {"granted", "called"}
               PROVE  /\ StageOf[s] = opened' /\ known'.account[s] = "reserved"
                      /\ calls'[s] = IF task'[s] = "granted" THEN 0 ELSE 1
                      /\ disk'.account[s] = "reserved"
    BY DEF TasksAreHeld
  <2>1. CASE s = r.slot
    BY <1>3, <1>7, <1>8, <2>1 DEF TaskAfter
  <2>2. CASE s # r.slot
    BY <1>2, <1>3, <2>2 DEF LedgerIInv, TasksAreHeld
  <2> QED BY <2>1, <2>2
<1>11. SpentIsBounded'
  <2> SUFFICES ASSUME NEW stage \in Stages
               PROVE  disk'.spent[stage] <= known'.spent[stage] + Written(stage)'
                        + Reservation * Cardinality(Late(stage)')
    BY DEF SpentIsBounded
  <2>1. Late(stage)' = Late(stage)
    BY <1>2, <1>3, <1>7 DEF Late
  <2>2. disk.spent[stage] <= known.spent[stage] + Written(stage)
                               + Reservation * Cardinality(Late(stage))
    BY <1>1 DEF LedgerIInv, SpentIsBounded
  <2>3. /\ known.spent[stage] \in Nat /\ r.cost \in Nat
        /\ Reservation * Cardinality(Late(stage)) \in Nat
    BY <1>1, <1>3, ContentsTypes, RecordTypes, LateIsCounted, TimesMonotone,
       RootlessAssumption DEF RootlessAssumption
  <2> QED BY <1>2, <1>3, <1>4, <2>1, <2>2, <2>3
<1>12. MemoryIsDisk'
  BY <1>1, <1>2, <1>3 DEF LedgerIInv, MemoryIsDisk, r
<1>13. WithinCaps(known')
  <2>1. WithinCaps(known)
    BY <1>1 DEF LedgerIInv
  <2> QED BY <1>1, <1>3, <2>1, CapsKept DEF Sound
<1>14. ("records" \notin damaged => WithinCaps(disk))'
  BY <1>3 DEF LedgerIInv
<1> QED BY <1>2, <1>5, <1>6, <1>9, <1>10, <1>11, <1>12, <1>13, <1>14 DEF LedgerIInv

\* The record stays and the object does not learn of it: a settlement becomes late.
LEMMA WriteFailsKeeps ==
  ASSUME LedgerIInv, WriteFails
  PROVE  LedgerIInv'
<1> DEFINE r == writing.record
<1>1. /\ writing # Idle /\ writing.step \in {"record", "head"}
      /\ r \in Records /\ Sound(r) /\ opened \in Stages /\ opened # NoStage
  <2>1. writing # Idle
    BY DEF WriteFails
  <2> QED BY <2>1, RecordUnderWay, RootlessAssumption DEF RootlessAssumption
<1>2. /\ writing' = Idle /\ writing'.step = "none"
      /\ AtHead' = {} /\ AtHead = IF writing.step = "head" THEN {r.slot} ELSE {}
      /\ \A stage \in Stages :
           /\ Written(stage) = IF writing.step = "head" /\ stage = r.stage
                               THEN r.cost ELSE 0
           /\ Written(stage)' = 0
  BY <1>1 DEF WriteFails, Idle, AtHead, Written
<1>3. /\ disk \in Contents /\ known \in Contents /\ lost \in Contents
      /\ lost' = IF writing.step = "head" THEN With(lost, r) ELSE lost
      /\ \A s \in Slots : task'[s] = IF s = r.slot THEN "over" ELSE task[s]
      /\ UNCHANGED <<disk, opened, known, calls>>
      /\ damaged \subseteq damaged'
  BY DEF WriteFails, LedgerIInv, RootlessTypeOK
<1>4. lost' \in Contents /\ (writing.step = "head" => lost' # Blank)
  <2>1. (r.slot \in Slots /\ r.account # "none") \/ r.verdict # NoVerdict
    BY <1>1 DEF Sound, Reserving, Settling, Skipping, Ending
  <2> QED BY <1>1, <1>3, <2>1, WithIsContents, WithIsNotBlank
<1> HIDE DEF r
<1>5. RootlessTypeOK'
  <2>1. /\ task' \in [Slots -> {"fresh", "granted", "called", "over"}]
        /\ damaged' \subseteq {"records", "heads"} /\ headless' \in BOOLEAN
    BY DEF WriteFails, LedgerIInv, RootlessTypeOK, Directory
  <2> QED BY <1>2, <1>3, <1>4, <2>1 DEF LedgerIInv, RootlessTypeOK
<1>6. DownIsBlank' /\ CalledIsIssued' /\ KnownIsOnDisk'
  BY <1>1, <1>3 DEF LedgerIInv, DownIsBlank, CalledIsIssued, KnownIsOnDisk
<1>7. TasksAreHeld'
  BY <1>2, <1>3 DEF LedgerIInv, TasksAreHeld
<1>8. SpentIsBounded'
  <2> SUFFICES ASSUME NEW stage \in Stages
               PROVE  disk'.spent[stage] <= known'.spent[stage] + Written(stage)'
                        + Reservation * Cardinality(Late(stage)')
    BY DEF SpentIsBounded
  <2>1. disk.spent[stage] <= known.spent[stage] + Written(stage)
                               + Reservation * Cardinality(Late(stage))
    BY <1>1 DEF LedgerIInv, SpentIsBounded
  <2>2. /\ known.spent[stage] \in Nat /\ disk.spent[stage] \in Nat
        /\ r.cost \in Nat /\ r.cost <= Reservation /\ Reservation \in Nat
        /\ Late(stage) \in SUBSET Slots
        /\ IsFiniteSet(Late(stage)) /\ Cardinality(Late(stage)) \in Nat
        /\ Reservation * Cardinality(Late(stage)) \in Nat
    BY <1>1, <1>3, ContentsTypes, RecordTypes, LateIsCounted, TimesMonotone,
       RootlessAssumption DEF RootlessAssumption
  <2>3. CASE writing.step = "head" /\ Settling(r) /\ stage = r.stage
    <3>1. Late(stage)' = Late(stage) \cup {r.slot} /\ r.slot \notin Late(stage)
      BY <1>1, <1>2, <1>3, <2>3 DEF Late, Settling, Sound
    <3>2. Cardinality(Late(stage)') = Cardinality(Late(stage)) + 1
      BY <2>2, <3>1, FS_AddElement
    <3>3. Reservation * Cardinality(Late(stage)')
            = Reservation * Cardinality(Late(stage)) + Reservation
      BY <2>2, <3>2, TimesMonotone
    <3>4. Written(stage) = r.cost /\ Written(stage)' = 0
      BY <1>2, <2>3
    <3> QED BY <1>3, <2>1, <2>2, <3>3, <3>4
  <2>4. CASE ~(writing.step = "head" /\ Settling(r) /\ stage = r.stage)
    <3>1. Late(stage)' = Late(stage)
      BY <1>1, <1>2, <1>3, <2>4, RootlessAssumption
         DEF RootlessAssumption, Late, Settling, Sound, Reserving, Skipping, Ending
    <3>2. Written(stage) = 0 /\ Written(stage)' = 0
      BY <1>1, <1>2, <2>4 DEF Sound, Reserving, Skipping, Ending
    <3> QED BY <1>3, <2>1, <2>2, <3>1, <3>2
  <2> QED BY <2>3, <2>4
<1>9. MemoryIsDisk'
  BY <1>1, <1>2, <1>3, <1>4 DEF LedgerIInv, MemoryIsDisk
<1>10. /\ (opened # NoStage => WithinCaps(known))'
       /\ ("records" \notin damaged => WithinCaps(disk))'
  BY <1>3 DEF LedgerIInv
<1> QED BY <1>2, <1>5, <1>6, <1>7, <1>8, <1>9, <1>10 DEF LedgerIInv

\* What is read from a directory that holds no stray file.
LEMMA OpenKeeps ==
  ASSUME LedgerIInv, NEW stage \in Stages, Open(stage)
  PROVE  LedgerIInv'
<1>1. /\ opened = NoStage /\ lost = Blank /\ writing = Idle
      /\ opened' = stage /\ opened' # NoStage /\ known' = disk
      /\ damaged = {} /\ UNCHANGED <<disk, damaged, lost, writing, task, calls>>
      /\ \A s \in Slots : task[s] = "fresh"
  BY RootlessAssumption DEF RootlessAssumption, LedgerIInv, DownIsBlank, Open
<1>2. /\ writing.step = "none" /\ AtHead' = {}
      /\ \A other \in Stages : Written(other)' = 0
  BY <1>1 DEF Idle, AtHead, Written
<1>3. RootlessTypeOK'
  BY <1>1 DEF Open, LedgerIInv, RootlessTypeOK
<1>4. DownIsBlank' /\ CalledIsIssued' /\ KnownIsOnDisk' /\ TasksAreHeld'
  BY <1>1 DEF LedgerIInv, DownIsBlank, CalledIsIssued, KnownIsOnDisk, TasksAreHeld
<1>5. SpentIsBounded'
  <2> SUFFICES ASSUME NEW other \in Stages
               PROVE  disk'.spent[other] <= known'.spent[other] + Written(other)'
                        + Reservation * Cardinality(Late(other)')
    BY DEF SpentIsBounded
  <2>1. Late(other)' = {}
    BY <1>1 DEF Late
  <2>2. Reservation * Cardinality(Late(other)') = 0
    BY <2>1, FS_EmptySet, RootlessAssumption DEF RootlessAssumption
  <2>3. disk.spent[other] \in Nat
    BY ContentsTypes DEF LedgerIInv, RootlessTypeOK
  <2> QED BY <1>1, <1>2, <2>2, <2>3
<1>6. MemoryIsDisk'
  BY <1>1, <1>2 DEF MemoryIsDisk
<1>7. WithinCaps(disk)
  BY <1>1 DEF LedgerIInv
<1> QED BY <1>1, <1>3, <1>4, <1>5, <1>6, <1>7 DEF LedgerIInv

\* The end of a process leaves what is on disk.
LEMMA ExitKeeps ==
  ASSUME LedgerIInv, Exit
  PROVE  LedgerIInv'
<1>1. /\ opened' = NoStage /\ known' = Blank /\ lost' = Blank /\ writing' = Idle
      /\ UNCHANGED <<disk, headless, calls>> /\ damaged \subseteq damaged'
      /\ \A s \in Slots : task'[s] = "fresh"
  BY DEF Exit
<1>2. RootlessTypeOK'
  <2>1. Blank \in Contents
    BY DEF Blank, Contents, Accounts, Stages
  <2>2. damaged' \subseteq {"records", "heads"}
    BY DEF Exit, LedgerIInv, RootlessTypeOK, Directory
  <2> QED BY <1>1, <2>1, <2>2 DEF Exit, LedgerIInv, RootlessTypeOK
<1>3. DownIsBlank' /\ CalledIsIssued' /\ KnownIsOnDisk' /\ TasksAreHeld'
  BY <1>1 DEF LedgerIInv, DownIsBlank, CalledIsIssued, KnownIsOnDisk, TasksAreHeld
<1>4. SpentIsBounded' /\ MemoryIsDisk'
  BY <1>1 DEF SpentIsBounded, MemoryIsDisk
<1>5. ("records" \notin damaged => WithinCaps(disk))'
  BY <1>1 DEF LedgerIInv
<1> QED BY <1>1, <1>2, <1>3, <1>4, <1>5 DEF LedgerIInv

\* A step of a task that is not an append.
LEMMA TaskKeeps ==
  ASSUME LedgerIInv, NEW s \in Slots, Exchange(s) \/ Abandon(s)
  PROVE  LedgerIInv'
<1>1. /\ writing = Idle /\ opened # NoStage
      /\ UNCHANGED <<disk, headless, damaged, memoryVars>>
      /\ task[s] \in {"granted", "called"}
  BY DEF Exchange, Abandon
<1>2. AtHead = {} /\ AtHead' = {}
  BY <1>1 DEF AtHead, memoryVars, Idle
<1>3. /\ StageOf[s] = opened /\ known.account[s] = "reserved"
      /\ disk.account[s] = "reserved"
      /\ calls[s] = IF task[s] = "granted" THEN 0 ELSE 1
  BY <1>1, <1>2 DEF LedgerIInv, TasksAreHeld
<1>4. task \in [Slots -> {"fresh", "granted", "called", "over"}] /\ calls \in [Slots -> Nat]
  BY DEF LedgerIInv, RootlessTypeOK
<1>5. /\ \A t \in Slots : t # s => task'[t] = task[t] /\ calls'[t] = calls[t]
      /\ \/ task'[s] = "called" /\ calls'[s] = 1
         \/ task'[s] = "over" /\ calls'[s] = calls[s]
      /\ task' \in [Slots -> {"fresh", "granted", "called", "over"}]
      /\ calls' \in [Slots -> Nat]
  <2>1. CASE Exchange(s)
    BY <1>3, <1>4, <2>1 DEF Exchange
  <2>2. CASE Abandon(s)
    BY <1>4, <2>2 DEF Abandon
  <2> QED BY <2>1, <2>2
<1>6. RootlessTypeOK'
  BY <1>1, <1>5 DEF LedgerIInv, RootlessTypeOK, memoryVars
<1>7. DownIsBlank' /\ KnownIsOnDisk' /\ MemoryIsDisk'
  BY <1>1 DEF LedgerIInv, DownIsBlank, KnownIsOnDisk, MemoryIsDisk, memoryVars
<1>8. CalledIsIssued'
  BY <1>1, <1>3, <1>5 DEF LedgerIInv, CalledIsIssued, memoryVars
<1>9. TasksAreHeld'
  BY <1>1, <1>2, <1>3, <1>5 DEF LedgerIInv, TasksAreHeld, memoryVars
<1>10. SpentIsBounded'
  <2>1. \A stage \in Stages : Late(stage)' = Late(stage) /\ Written(stage)' = Written(stage)
    BY <1>1, <1>2 DEF Late, Written, memoryVars
  <2> QED BY <1>1, <2>1 DEF LedgerIInv, SpentIsBounded, memoryVars
<1>11. writing' = Idle
  BY <1>1 DEF memoryVars
<1>12. /\ (opened # NoStage => WithinCaps(known))'
       /\ ("records" \notin damaged => WithinCaps(disk))'
  BY <1>1 DEF LedgerIInv, memoryVars
<1> QED BY <1>6, <1>7, <1>8, <1>9, <1>10, <1>11, <1>12 DEF LedgerIInv

\* A head made by another object, a torn one, or nothing at all.
LEMMA FilesKeep ==
  ASSUME LedgerIInv, OpenTorn \/ Reread \/ UNCHANGED ledgerVars
  PROVE  LedgerIInv'
<1>1. /\ UNCHANGED <<disk, opened, known, lost, writing, task, calls>>
      /\ damaged \subseteq damaged' /\ damaged' \subseteq {"records", "heads"}
      /\ headless' \in BOOLEAN
  BY DEF LedgerIInv, RootlessTypeOK, OpenTorn, Reread, ledgerVars, memoryVars
<1>2. RootlessTypeOK'
  BY <1>1 DEF LedgerIInv, RootlessTypeOK
<1>3. AtHead' = AtHead
  BY <1>1 DEF AtHead
<1>4. \A stage \in Stages : Late(stage)' = Late(stage) /\ Written(stage)' = Written(stage)
  BY <1>1, <1>3 DEF Late, Written
<1>5. (writing # Idle => Sound(writing.record))'
  BY <1>1 DEF LedgerIInv, Sound, Reserving, Settling, Skipping, Ending, Fits
<1>6. DownIsBlank' /\ CalledIsIssued' /\ KnownIsOnDisk' /\ TasksAreHeld' /\ MemoryIsDisk'
  BY <1>1, <1>3 DEF LedgerIInv, DownIsBlank, CalledIsIssued, KnownIsOnDisk, TasksAreHeld,
     MemoryIsDisk
<1>7. SpentIsBounded'
  BY <1>1, <1>4 DEF LedgerIInv, SpentIsBounded
<1>8. /\ (opened # NoStage => WithinCaps(known))'
      /\ ("records" \notin damaged => WithinCaps(disk))'
  BY <1>1 DEF LedgerIInv
<1> QED BY <1>2, <1>5, <1>6, <1>7, <1>8 DEF LedgerIInv

\* The four appends of the ledger's client.
LEMMA AppendsBegin ==
  ASSUME LedgerIInv, NEW r, Begin(r), Ready,
         \/ \E s \in Slots : Reserve(s) /\ r = Record(s, "reserved", 0, NoVerdict)
         \/ \E s \in Slots : Skip(s) /\ r = Record(s, "skipped", 0, NoVerdict)
         \/ \E s \in Slots, cost \in Costs :
              Settle(s, cost) /\ r = Record(s, "settled", cost, NoVerdict)
         \/ \E verdict \in Verdicts :
              Terminate(verdict) /\ r = Record(NoSlot, "none", 0, verdict)
  PROVE  LedgerIInv'
<1>1. opened \in Stages
  BY DEF Ready, LedgerIInv, RootlessTypeOK
<1>2. r \in Records /\ r.stage = opened
  BY <1>1 DEF Record, Records, Accounts
<1>3. /\ writing'.step = "record"
      /\ writing = Idle /\ AtHead = {}
      /\ UNCHANGED <<disk, opened, known, task>>
  BY DEF Begin, Ready, Appending, Idle, AtHead
<1>4. \/ Reserving(r)' \/ Settling(r)' \/ Skipping(r)' \/ Ending(r)'
  <2>1. CASE \E s \in Slots : Reserve(s) /\ r = Record(s, "reserved", 0, NoVerdict)
    BY <1>3, <2>1 DEF Reserve, Admits, Record, Reserving, Fits
  <2>2. CASE \E s \in Slots : Skip(s) /\ r = Record(s, "skipped", 0, NoVerdict)
    BY <1>3, <2>2 DEF Skip, Admits, Record, Skipping
  <2>3. CASE \E s \in Slots, cost \in Costs :
               Settle(s, cost) /\ r = Record(s, "settled", cost, NoVerdict)
    <3>1. PICK s \in Slots, cost \in Costs :
            Settle(s, cost) /\ r = Record(s, "settled", cost, NoVerdict)
      BY <2>3
    <3>2. /\ StageOf[s] = opened /\ known.account[s] = "reserved" /\ task[s] = "called"
          /\ disk.account[s] = "reserved"
      BY <1>3, <3>1 DEF Settle, LedgerIInv, TasksAreHeld
    <3> QED BY <1>3, <3>1, <3>2 DEF Record, Settling
  <2>4. CASE \E verdict \in Verdicts :
               Terminate(verdict) /\ r = Record(NoSlot, "none", 0, verdict)
    BY <2>4, RootlessAssumption DEF RootlessAssumption, Record, Ending
  <2> QED BY <2>1, <2>2, <2>3, <2>4
<1>5. Sound(r)'
  BY <1>2, <1>3, <1>4 DEF Sound
<1> QED BY <1>2, <1>5, BeginKeeps

\* Every operation of the ledger and of its client, every failing write and every
\* death keeps the invariant (GlobalLedger, FakeBroker.dispatch).
THEOREM LedgerSteps == LedgerIInv /\ [LedgerNext]_ledgerVars => LedgerIInv'
<1> SUFFICES ASSUME LedgerIInv, [LedgerNext]_ledgerVars PROVE LedgerIInv'
  OBVIOUS
<1>1. CASE \E stage \in Stages : Open(stage)
  BY <1>1, OpenKeeps
<1>2. CASE OpenTorn \/ Reread \/ UNCHANGED ledgerVars
  BY <1>2, FilesKeep
<1>3. CASE \E s \in Slots : Reserve(s)
  BY <1>3, AppendsBegin DEF Reserve
<1>4. CASE \E s \in Slots : Skip(s)
  BY <1>4, AppendsBegin DEF Skip
<1>5. CASE \E s \in Slots : \E cost \in Costs : Settle(s, cost)
  BY <1>5, AppendsBegin DEF Settle
<1>6. CASE \E verdict \in Verdicts : Terminate(verdict)
  BY <1>6, AppendsBegin DEF Terminate
<1>7. CASE \E s \in Slots : Exchange(s) \/ Abandon(s)
  BY <1>7, TaskKeeps
<1>8. CASE WriteRecord
  BY <1>8, WriteRecordKeeps
<1>9. CASE WriteHead
  BY <1>9, WriteHeadKeeps
<1>10. CASE WriteFails
  BY <1>10, WriteFailsKeeps
<1>11. CASE Exit
  BY <1>11, ExitKeeps
<1> QED
  BY <1>1, <1>2, <1>3, <1>4, <1>5, <1>6, <1>7, <1>8, <1>9, <1>10, <1>11 DEF LedgerNext

\* The invariant holds of every behaviour: memory and disk agree but for what a
\* failed head left behind, and what is left behind is paid for by a reservation
\* the object keeps (GlobalLedger._append).
THEOREM LedgerInvariant == LedgerSpec => []LedgerIInv
BY LedgerStarts, LedgerSteps, PTL DEF LedgerSpec

\* The files, the object and the tasks keep their shape (GlobalLedger).
THEOREM RootlessTypeCorrect == LedgerSpec => []RootlessTypeOK
<1>1. LedgerIInv => RootlessTypeOK
  BY DEF LedgerIInv
<1> QED BY <1>1, LedgerInvariant, PTL

\* The records of a ledger that can be opened are within the caps of both stages,
\* every reservation that was not settled counted in full (GlobalLedger.reserve).
THEOREM RecordsKeepCaps == LedgerSpec => []("records" \notin damaged => WithinCaps(disk))
<1>1. LedgerIInv => ("records" \notin damaged => WithinCaps(disk))
  BY DEF LedgerIInv
<1> QED BY <1>1, LedgerInvariant, PTL

-------------------------------------------------------------------------------
(* The ledger implements the budget. *)

\* The budget counts as the ledger does.
LEMMA BudgetCounts ==
  ASSUME NEW set
  PROVE  Budget!Cardinality(set) = Cardinality(set)
BY DEF Budget!Cardinality, Cardinality

\* A granted slot is accounted for beside everything that was called before it,
\* whether its settlement is known, lost or still to come.
LEMMA GrantIsCovered ==
  ASSUME LedgerIInv, writing = Idle, opened # NoStage,
         NEW s \in Slots, task[s] = "granted", NEW stage \in Stages
  PROVE  /\ Budget!Liability(stage) \in Nat
         /\ Budget!Liability(stage) + (IF StageOf[s] = stage THEN Reservation ELSE 0)
              <= Accounted(known, stage)
         /\ StageOf[s] = stage =>
              Budget!Cardinality(Budget!InStage(Called, stage))
                < Cardinality(Issued(known, stage))
<1> DEFINE unsettled == {t \in Called \ (Called \cap SettledOnDisk) : StageOf[t] = stage}
           all == IF StageOf[s] = stage THEN unsettled \cup {s} ELSE unsettled
           inStage == {t \in Called : StageOf[t] = stage}
<1>1. /\ StageOf[s] = opened /\ known.account[s] = "reserved" /\ calls[s] = 0
      /\ disk.account[s] = "reserved"
      /\ AtHead = {} /\ Written(stage) = 0
  BY NothingUnderWay DEF LedgerIInv, TasksAreHeld
<1>2. /\ unsettled \in SUBSET Slots /\ s \notin unsettled
      /\ Late(stage) \in SUBSET Slots /\ s \notin Late(stage)
      /\ inStage \in SUBSET Slots /\ s \notin inStage
  BY <1>1 DEF Called, Late
<1>3. unsettled \subseteq Held(known, stage) /\ unsettled \cap Late(stage) = {}
  <2> SUFFICES ASSUME NEW t \in unsettled
               PROVE  t \in Held(known, stage) /\ t \notin Late(stage)
    OBVIOUS
  <2>1. t \in Slots /\ StageOf[t] = stage /\ calls[t] > 0 /\ disk.account[t] # "settled"
    BY DEF Called, SettledOnDisk
  <2>2. calls[t] # 0
    BY <2>1
  <2>3. /\ disk.account[t] \in {"reserved", "settled"}
        /\ known.account[t] \in {"reserved", "settled"}
    BY <2>1, <2>2 DEF LedgerIInv, CalledIsIssued
  <2>4. known.account[t] = "settled" => disk.account[t] = "settled"
    BY <2>1 DEF LedgerIInv, KnownIsOnDisk
  <2> QED BY <2>1, <2>3, <2>4 DEF Held, Late
<1>4. inStage \subseteq Issued(known, stage)
  <2> SUFFICES ASSUME NEW t \in inStage PROVE t \in Issued(known, stage)
    OBVIOUS
  <2>1. t \in Slots /\ StageOf[t] = stage /\ calls[t] > 0
    BY DEF Called
  <2>2. calls[t] # 0
    BY <2>1
  <2> QED BY <2>1, <2>2 DEF LedgerIInv, CalledIsIssued, Issued
<1>5. /\ all \in SUBSET Slots /\ all \cap Late(stage) = {}
      /\ all \cup Late(stage) \subseteq Held(known, stage)
  BY <1>1, <1>2, <1>3 DEF Late, Held
<1>6. /\ Reservation * Cardinality(all) + Reservation * Cardinality(Late(stage))
           <= Reservation * Cardinality(Held(known, stage))
      /\ disk.spent[stage]
           <= known.spent[stage] + Reservation * Cardinality(Late(stage))
  <2>1. Held(known, stage) \in SUBSET Slots
    BY DEF Held
  <2>2. disk.spent[stage] <= known.spent[stage] + Written(stage)
                               + Reservation * Cardinality(Late(stage))
    BY DEF LedgerIInv, SpentIsBounded
  <2>3. known.spent[stage] \in Nat
    BY ContentsTypes DEF LedgerIInv, RootlessTypeOK
  <2> QED BY <1>1, <1>2, <1>5, <2>1, <2>2, <2>3, SideBySide
<1>7. /\ disk.spent[stage] \in Nat /\ known.spent[stage] \in Nat /\ Reservation \in Nat
      /\ IsFiniteSet(unsettled) /\ Cardinality(unsettled) \in Nat
      /\ IsFiniteSet(Late(stage)) /\ Cardinality(Late(stage)) \in Nat
      /\ Cardinality(Held(known, stage)) \in Nat
      /\ IsFiniteSet(Issued(known, stage)) /\ Cardinality(Issued(known, stage)) \in Nat
      /\ IsFiniteSet(inStage) /\ Cardinality(inStage) \in Nat
  BY <1>2, ContentsNumbers, SlotSets, RootlessAssumption
     DEF RootlessAssumption, LedgerIInv, RootlessTypeOK
<1>8. Budget!Liability(stage) = disk.spent[stage] + Reservation * Cardinality(unsettled)
  BY BudgetCounts DEF Budget!Liability, Budget!InStage
<1>9. /\ Reservation * Cardinality(unsettled) \in Nat
      /\ Reservation * Cardinality(Late(stage)) \in Nat
      /\ Reservation * Cardinality(all)
           = Reservation * Cardinality(unsettled)
               + IF StageOf[s] = stage THEN Reservation ELSE 0
  <2>1. StageOf[s] = stage => Cardinality(all) = Cardinality(unsettled) + 1
    BY <1>2, <1>7, FS_AddElement
  <2>2. /\ Reservation * Cardinality(unsettled) \in Nat
        /\ Reservation * Cardinality(Late(stage)) \in Nat
        /\ Reservation * (Cardinality(unsettled) + 1)
             = Reservation * Cardinality(unsettled) + Reservation
    BY <1>7, TimesMonotone
  <2> QED BY <1>7, <2>1, <2>2
<1>10. Accounted(known, stage)
         = known.spent[stage] + Reservation * Cardinality(Held(known, stage))
  BY DEF Accounted, Retained
<1>11. Reservation * Cardinality(Held(known, stage)) \in Nat
  BY <1>7, TimesMonotone
<1>12. StageOf[s] = stage => Cardinality(inStage) < Cardinality(Issued(known, stage))
  <2> HAVE StageOf[s] = stage
  <2>1. s \in Issued(known, stage)
    BY <1>1 DEF Issued
  <2>2. inStage \cup {s} \subseteq Issued(known, stage)
    BY <1>4, <2>1
  <2>3. Cardinality(inStage \cup {s}) = Cardinality(inStage) + 1
    BY <1>2, <1>7, FS_AddElement
  <2>4. Cardinality(inStage \cup {s}) <= Cardinality(Issued(known, stage))
    BY <1>7, <2>2, FS_Subset
  <2> QED BY <1>7, <2>3, <2>4
<1>13. Budget!InStage(Called, stage) = inStage
  BY DEF Budget!InStage
<1> HIDE DEF unsettled, all, inStage
<1>14. Budget!Liability(stage) \in Nat
  BY <1>7, <1>8, <1>9
<1>15. Budget!Liability(stage) + (IF StageOf[s] = stage THEN Reservation ELSE 0)
         <= Accounted(known, stage)
  BY <1>6, <1>7, <1>8, <1>9, <1>10, <1>11
<1> QED BY <1>12, <1>13, <1>14, <1>15, BudgetCounts

\* The call of a granted slot is one the budget allows.
LEMMA ExchangeIsBudgeted ==
  ASSUME LedgerIInv, NEW s \in Slots, Exchange(s)
  PROVE  Budget!PutToProvider(s)
<1>1. writing = Idle /\ opened # NoStage /\ task[s] = "granted"
  BY DEF Exchange
<1>2. /\ StageOf[s] = opened /\ StageOf[s] \in Stages
      /\ calls[s] = 0 /\ disk.account[s] = "reserved"
  BY <1>1, NothingUnderWay, RootlessAssumption
     DEF LedgerIInv, TasksAreHeld, RootlessAssumption
<1>3. /\ Called' = Called \cup {s} /\ s \notin Called
      /\ (Called \cap SettledOnDisk)' = Called \cap SettledOnDisk
      /\ disk' = disk
  <2>1. calls \in [Slots -> Nat]
    BY DEF LedgerIInv, RootlessTypeOK
  <2>2. calls'[s] = 1 /\ \A t \in Slots : t # s => calls'[t] = calls[t]
    BY <1>2, <2>1 DEF Exchange
  <2> QED BY <1>2, <2>1, <2>2 DEF Exchange, Called, SettledOnDisk
<1>4. "screening" \in Stages /\ "bct" \in Stages
      /\ \A stage \in Stages : stage = "screening" \/ stage = "bct"
  BY DEF Stages
<1>5. \A stage \in Stages :
        /\ Budget!Liability(stage) \in Nat
        /\ Budget!Liability(stage) + (IF StageOf[s] = stage THEN Reservation ELSE 0)
             <= Accounted(known, stage)
        /\ StageOf[s] = stage =>
             Budget!Cardinality(Budget!InStage(Called, stage))
               < Cardinality(Issued(known, stage))
  BY <1>1, GrantIsCovered
<1>6. \A stage \in Stages :
        /\ Accounted(known, stage) \in Nat
        /\ Cardinality(Issued(known, stage)) \in Nat
        /\ Budget!Cardinality(Budget!InStage(Called, stage)) \in Nat
  <2> SUFFICES ASSUME NEW stage \in Stages
               PROVE  /\ Accounted(known, stage) \in Nat
                      /\ Cardinality(Issued(known, stage)) \in Nat
                      /\ Budget!Cardinality(Budget!InStage(Called, stage)) \in Nat
    OBVIOUS
  <2>1. Budget!InStage(Called, stage) \in SUBSET Slots
    BY DEF Budget!InStage, Called
  <2> QED
    BY <2>1, SlotSets, BudgetCounts, ContentsNumbers DEF LedgerIInv, RootlessTypeOK
<1>7. /\ \A stage \in Stages : /\ Cardinality(Issued(known, stage)) <= CallCap[stage]
                               /\ Accounted(known, stage) <= MoneyCap[stage]
      /\ Accounted(known, "screening") + Accounted(known, "bct") <= TotalMoneyCap
  BY <1>1 DEF LedgerIInv, WithinCaps
<1>8. /\ Reservation \in Nat /\ TotalMoneyCap \in Nat
      /\ \A stage \in Stages : CallCap[stage] \in Nat /\ MoneyCap[stage] \in Nat
  BY RootlessAssumption DEF RootlessAssumption
<1>9. Budget!Cardinality(Budget!InStage(Called, StageOf[s])) < CallCap[StageOf[s]]
  BY <1>2, <1>5, <1>6, <1>7, <1>8
<1>10. Budget!Liability(StageOf[s]) + Reservation <= MoneyCap[StageOf[s]]
  <2> DEFINE stage == StageOf[s]
  <2>1. /\ Budget!Liability(stage) + Reservation <= Accounted(known, stage)
        /\ Accounted(known, stage) <= MoneyCap[stage]
        /\ Budget!Liability(stage) \in Nat /\ Accounted(known, stage) \in Nat
        /\ MoneyCap[stage] \in Nat
    BY <1>2, <1>5, <1>6, <1>7, <1>8
  <2> QED BY <1>8, <2>1
<1>11. Budget!Liability("screening") + Budget!Liability("bct") + Reservation
         <= TotalMoneyCap
  <2>1. CASE StageOf[s] = "screening"
    BY <1>4, <1>5, <1>6, <1>7, <1>8, <2>1
  <2>2. CASE StageOf[s] = "bct"
    BY <1>4, <1>5, <1>6, <1>7, <1>8, <2>2
  <2> QED BY <1>2, <1>4, <2>1, <2>2
<1> QED BY <1>3, <1>9, <1>10, <1>11 DEF Budget!PutToProvider

\* A record tells the budget nothing, but for the settlement of a called slot.
LEMMA WriteRecordIsBudgeted ==
  ASSUME LedgerIInv, WriteRecord
  PROVE  Budget!BudgetNext \/ UNCHANGED Budget!budgetVars
<1> DEFINE r == writing.record
<1>1. /\ writing # Idle /\ writing.step = "record"
      /\ disk' = With(disk, r) /\ calls' = calls
  BY DEF WriteRecord, Idle
<1>2. r \in Records /\ Sound(r) /\ opened # NoStage
  BY <1>1, RecordUnderWay, RootlessAssumption DEF RootlessAssumption
<1>3. disk \in Contents /\ disk.spent \in [Stages -> Nat]
  BY ContentsTypes DEF LedgerIInv, RootlessTypeOK
<1>4. /\ \A s \in Slots :
           disk'.account[s] = IF s = r.slot THEN r.account ELSE disk.account[s]
      /\ disk'.spent = [disk.spent EXCEPT ![r.stage] = @ + r.cost]
  BY <1>1 DEF With
<1>5. Called' = Called /\ Called \subseteq Slots
  BY <1>1 DEF Called
<1> HIDE DEF r
<1>6. CASE Settling(r)
  <2>1. /\ r.slot \in Slots /\ StageOf[r.slot] = r.stage /\ r.account = "settled"
        /\ r.cost \in 0 .. Reservation
        /\ task[r.slot] = "called" /\ disk.account[r.slot] = "reserved"
    BY <1>1, <1>6, RootlessAssumption DEF Settling, RootlessAssumption
  <2>2. r.slot \in Called
    BY <2>1 DEF LedgerIInv, TasksAreHeld, Called
  <2>3. r.slot \notin SettledOnDisk /\ SettledOnDisk' = SettledOnDisk \cup {r.slot}
    BY <1>4, <2>1 DEF SettledOnDisk
  <2>4. disk'.spent = [disk.spent EXCEPT ![StageOf[r.slot]] = @ + r.cost]
    BY <1>4, <2>1
  <2>5. Budget!LearnCost(r.slot)
    BY <1>5, <2>1, <2>2, <2>3, <2>4 DEF Budget!LearnCost
  <2> QED BY <2>1, <2>5 DEF Budget!BudgetNext
<1>7. CASE ~Settling(r)
  <2>1. Reserving(r) \/ Skipping(r) \/ Ending(r)
    BY <1>2, <1>7 DEF Sound
  <2>2. r.cost = 0 /\ r.stage \in Stages
    BY <1>2, <2>1, RecordTypes DEF Reserving, Skipping, Ending
  <2>3. disk'.spent = disk.spent
    BY <1>3, <1>4, <2>2
  <2>4. \A s \in Called : disk'.account[s] = disk.account[s]
    <3> SUFFICES ASSUME NEW s \in Called PROVE s # r.slot
      BY <1>4, <1>5
    <3>1. s \in Slots /\ calls[s] > 0
      BY DEF Called
    <3>2. calls[s] # 0
      BY <3>1
    <3>3. known.account[s] \in {"reserved", "settled"}
      BY <1>2, <3>1, <3>2 DEF LedgerIInv, CalledIsIssued
    <3> QED
      BY <2>1, <3>1, <3>3, RootlessAssumption
         DEF RootlessAssumption, Reserving, Skipping, Ending
  <2>5. (Called \cap SettledOnDisk)' = Called \cap SettledOnDisk
    BY <1>5, <2>4 DEF SettledOnDisk
  <2> QED BY <1>5, <2>3, <2>5 DEF Budget!budgetVars
<1> QED BY <1>6, <1>7

\* Every step of the ledger and its client is a step of the budget or none.
LEMMA StepsAreBudgeted ==
  LedgerIInv /\ [LedgerNext]_ledgerVars => [Budget!BudgetNext]_(Budget!budgetVars)
<1> SUFFICES ASSUME LedgerIInv, [LedgerNext]_ledgerVars
             PROVE  Budget!BudgetNext \/ UNCHANGED Budget!budgetVars
  OBVIOUS
<1>1. CASE \E s \in Slots : Exchange(s)
  BY <1>1, ExchangeIsBudgeted DEF Budget!BudgetNext
<1>2. CASE WriteRecord
  BY <1>2, WriteRecordIsBudgeted
<1>3. CASE disk' = disk /\ calls' = calls
  BY <1>3 DEF Budget!budgetVars, Called, SettledOnDisk
<1>4. \/ \E s \in Slots : Exchange(s)
      \/ WriteRecord
      \/ disk' = disk /\ calls' = calls
  BY DEF LedgerNext, ledgerVars, Open, OpenTorn, Reread, Reserve, Skip, Settle,
     Terminate, Begin, WriteHead, WriteFails, Exit, Abandon
<1> QED BY <1>1, <1>2, <1>3, <1>4

\* A ledger on which nothing was called owes nothing.
LEMMA StartIsBudgeted == LedgerInit => Budget!BudgetInit
<1> SUFFICES ASSUME LedgerInit PROVE Budget!BudgetInit
  OBVIOUS
<1>1. Called = {} /\ Called \cap SettledOnDisk = {}
  BY DEF LedgerInit, Called
<1>2. disk.spent = [stage \in Budget!Stages |-> 0]
  BY DEF LedgerInit, Blank, Stages, Budget!Stages
<1> QED BY <1>1, <1>2 DEF Budget!BudgetInit

\* The ledger implements EgressBudget: whatever dies, fails or is started again, no
\* slot is called twice, and every call is covered by the caps beside all the calls
\* before it (GlobalLedger.reserve, GlobalLedger.settle, FakeBroker.dispatch).
THEOREM LedgerImplementsBudget == LedgerSpec => ImplementsBudget
<1> QED
  BY LedgerInvariant, StartIsBudgeted, StepsAreBudgeted, PTL
     DEF LedgerSpec, ImplementsBudget, Budget!BudgetSpec

-------------------------------------------------------------------------------
(* What the broker hands to the ledger is a slot or a verdict. *)

HandsOver ==
  /\ reason \in {NoVerdict, Unclean} \cup Slots
  /\ results \in Seq(Slots)
  /\ piece = NoPiece \/ piece.slot \in Slots

LEMMA StageStarts == StageInit => HandsOver
BY DEF StageInit, HandsOver

LEMMA PieceIsOfSlot ==
  ASSUME HandsOver,
         \/ piece.receipt = OpenDir
         \/ piece.receipt.kind \in Kinds
         \/ piece # NoPiece
  PROVE  piece.slot \in Slots
<1>1. NoPiece.receipt # OpenDir /\ NoPiece.receipt.kind \notin Kinds
  BY DEF NoPiece, NoDir, OpenDir, Receipt, Kinds
<1> QED BY <1>1 DEF HandsOver

\* The steps that touch what is handed over.
LEMMA HandsOverSteps == HandsOver /\ [StageNext]_stageVars => HandsOver'
<1> SUFFICES ASSUME HandsOver, [StageNext]_stageVars PROVE HandsOver'
  OBVIOUS
<1> USE DEF HandsOver
<1>1. CASE UNCHANGED <<reason, results, piece>>
  BY <1>1
<1>2. CASE Consume
  <2>1. Head(results) \in Slots /\ Tail(results) \in Seq(Slots)
    BY <1>2 DEF Consume
  <2> QED BY <1>2, <2>1 DEF Consume
<1>3. CASE \E s \in Slots : TaskReplays(s)
  BY <1>3 DEF TaskReplays, Deliver
<1>4. CASE \E s \in Slots : TaskSkips(s) \/ TaskReserves(s) \/ TaskAnswered(s)
  BY <1>4 DEF TaskSkips, TaskReserves, TaskAnswered, BeginPiece
<1>5. CASE WriteReceipt
  <2>1. piece.slot \in Slots
    BY <1>5, PieceIsOfSlot DEF WriteReceipt
  <2> QED BY <1>5, <2>1 DEF WriteReceipt, Deliver
<1>6. CASE piece' = NoPiece /\ UNCHANGED <<reason, results>>
  BY <1>6
<1>7. CASE EnterClose
  BY <1>7 DEF EnterClose
<1>8. CASE ProcessGone
  BY <1>8 DEF ProcessGone
<1>9. \/ UNCHANGED <<reason, results, piece>>
      \/ Consume \/ WriteReceipt \/ EnterClose \/ ProcessGone
      \/ \E s \in Slots : TaskReplays(s) \/ TaskSkips(s) \/ TaskReserves(s) \/ TaskAnswered(s)
      \/ piece' = NoPiece /\ UNCHANGED <<reason, results>>
  <2>1. CASE UNCHANGED stageVars
    BY <2>1 DEF stageVars, brokerVars
  <2>2. CASE \E stage \in Stages : Start(stage)
    BY <2>2 DEF Start
  <2>3. CASE WorkerStep
    BY <2>3 DEF WorkerStep, WorkerDispatches, WorkerReads, WorkerEnds, brokerVars
  <2>4. CASE BrokerStep
    <3>1. CASE \E s \in Slots : LedgerRefuses(s) \/ SettlementRefused(s) \/ TaskCancelled(s)
      BY <3>1 DEF LedgerRefuses, SettlementRefused, TaskCancelled, Raises
    <3>2. CASE ReadDispatch \/ ChannelLost
      BY <3>2 DEF ReadDispatch, ChannelLost
    <3>3. CASE MakeDirectory \/ TaskCalls \/ TearReceipt \/ AppendStep
      BY <3>3 DEF MakeDirectory, TaskCalls, TearReceipt, AppendStep, brokerVars
    <3>4. CASE CloseReceipts \/ CloseLedger \/ SealStage \/ SealFinal
      BY <3>4 DEF CloseReceipts, CloseLedger, SealStage, SealFinal
    <3> QED BY <2>4, <3>1, <3>2, <3>3, <3>4 DEF BrokerStep, TaskStep, PieceStep, BrokerEnds
  <2>5. CASE FaultStep
    BY <2>5 DEF FaultStep, WorkerDies, BrokerDies, StartDies, AppendFails, TaskBreaks,
       Raises, brokerVars
  <2> QED BY <2>1, <2>2, <2>3, <2>4, <2>5 DEF StageNext
<1> QED BY <1>1, <1>2, <1>3, <1>4, <1>5, <1>6, <1>7, <1>8, <1>9

-------------------------------------------------------------------------------
(* The steps of the stage, as steps of the ledger. *)

LEMMA VerdictIsRegistered ==
  ASSUME HandsOver
  PROVE  Verdict \in Verdicts
BY StageAssumption DEF StageAssumption, HandsOver, Verdict

LEMMA TaskStepsLedger ==
  ASSUME NEW s \in Slots, TaskStep(s) \/ TaskBreaks(s)
  PROVE  [LedgerNext]_ledgerVars
<1>1. CASE TaskReplays(s)
  BY <1>1 DEF TaskReplays
<1>2. CASE TaskSkips(s)
  BY <1>2 DEF TaskSkips, LedgerNext
<1>3. CASE TaskReserves(s)
  BY <1>3 DEF TaskReserves, LedgerNext
<1>4. CASE TaskAnswered(s)
  <2>1. (\E cost \in Costs : Settle(s, cost)) \/ Abandon(s)
    BY <1>4 DEF TaskAnswered
  <2> QED BY <2>1 DEF LedgerNext
<1>5. CASE LedgerRefuses(s)
  BY <1>5 DEF LedgerRefuses
<1>6. CASE SettlementRefused(s)
  BY <1>6 DEF SettlementRefused, LedgerNext
<1>7. CASE TaskCancelled(s) \/ TaskBreaks(s)
  <2>1. Abandon(s) \/ UNCHANGED ledgerVars
    BY <1>7 DEF TaskCancelled, TaskBreaks
  <2> QED BY <2>1 DEF LedgerNext
<1> QED BY <1>1, <1>2, <1>3, <1>4, <1>5, <1>6, <1>7 DEF TaskStep

LEMMA StageStepsLedger ==
  HandsOver /\ [StageNext]_stageVars => [LedgerNext]_ledgerVars
<1> SUFFICES ASSUME HandsOver, [StageNext]_stageVars
             PROVE  [LedgerNext]_ledgerVars
  OBVIOUS
<1>1. CASE UNCHANGED stageVars
  BY <1>1 DEF stageVars
<1>2. CASE \E stage \in Stages : Start(stage)
  BY <1>2 DEF Start, LedgerNext
<1>3. CASE WorkerStep
  BY <1>3 DEF WorkerStep, WorkerDispatches, WorkerReads, WorkerEnds
<1>4. CASE \E s \in Slots : TaskStep(s) \/ TaskBreaks(s)
  BY <1>4, TaskStepsLedger
<1>5. CASE PieceStep
  <2>1. CASE TaskCalls
    <3>1. piece.slot \in Slots /\ Exchange(piece.slot)
      BY <2>1, PieceIsOfSlot DEF TaskCalls
    <3> QED BY <3>1 DEF LedgerNext
  <2>2. CASE MakeDirectory \/ TearReceipt \/ WriteReceipt
    BY <2>2 DEF MakeDirectory, TearReceipt, WriteReceipt
  <2> QED BY <1>5, <2>1, <2>2 DEF PieceStep
<1>6. CASE AppendStep
  BY <1>6 DEF AppendStep, LedgerNext
<1>7. CASE CloseReceipts
  <2>1. Reread \/ UNCHANGED ledgerVars
    BY <1>7 DEF CloseReceipts
  <2> QED BY <2>1 DEF LedgerNext
<1>8. CASE CloseLedger
  <2>1. Terminate(Verdict) \/ UNCHANGED ledgerVars
    BY <1>8 DEF CloseLedger
  <2> QED BY <2>1, VerdictIsRegistered DEF LedgerNext
<1>9. CASE ReadDispatch \/ Consume \/ ChannelLost \/ EnterClose \/ SealStage \/ SealFinal
  BY <1>9 DEF ReadDispatch, Consume, ChannelLost, EnterClose, SealStage, SealFinal
<1>10. CASE BrokerEnds \/ BrokerDies
  BY <1>10 DEF BrokerEnds, BrokerDies, ProcessGone, LedgerNext
<1>11. CASE WorkerDies \/ StartDies \/ AppendFails
  BY <1>11 DEF WorkerDies, StartDies, AppendFails, LedgerNext
<1> QED
  BY <1>1, <1>2, <1>3, <1>4, <1>5, <1>6, <1>7, <1>8, <1>9, <1>10, <1>11
     DEF StageNext, BrokerStep, FaultStep

\* The stage broker is a client the ledger's model allows: what it reserves, settles,
\* skips and terminates, and when, and where it dies (run_stage_process, close_stage).
THEOREM StageImplementsLedger == StageSpec => LedgerSpec
<1>1. StageInit => LedgerInit
  BY DEF StageInit
<1> QED
  BY <1>1, StageStarts, HandsOverSteps, StageStepsLedger, PTL DEF StageSpec, LedgerSpec

\* Whatever the worker sends and whatever fails, a slot is put to the provider at
\* most once, and within the caps of its stage and of both (FakeBroker.dispatch).
THEOREM StageImplementsBudget == StageSpec => ImplementsBudget
BY StageImplementsLedger, LedgerImplementsBudget, PTL

-------------------------------------------------------------------------------
(* Receipts and the ledger.                                                    *)

Receipts ==
  [kind : Kinds \cup {"none", "open", "torn"}, settled : BOOLEAN, failed : BOOLEAN,
   output : {"none", "short", "long"}]

\* What the records say of a slot with such a receipt, or a directory without one.
AccountOf(receipt) ==
  IF receipt.kind \in {"capped", "blocked"} THEN "skipped"
  ELSE IF receipt.settled THEN "settled" ELSE "reserved"

\* A slot with a receipt has a record the process knows, and no task that may
\* still append to it.
ReceiptsAreKnown ==
  \A s \in Slots :
    slotDir[s].kind \in Kinds =>
      /\ task[s] \in {"fresh", "over"}
      /\ opened # NoStage => known.account[s] # "none"

\* A reservation that was not used yet belongs to the task that runs.
GrantedIsRunning ==
  \A s \in Slots :
    task[s] = "granted" =>
      piece # NoPiece /\ piece.slot = s /\ piece.receipt = OpenDir

\* The task that runs: the append is the one its receipt waits for, or was made.
PieceIsRecorded ==
  piece # NoPiece =>
    /\ Working /\ opened # NoStage
    /\ piece.slot \in Slots /\ piece.receipt \in Receipts
    /\ piece.receipt = OpenDir \/ piece.receipt.kind \in Kinds
    /\ slotDir[piece.slot].kind \notin Kinds
    /\ calls[piece.slot] = IF piece.receipt.kind = "answered" THEN 1 ELSE 0
    /\ writing # Idle =>
         /\ writing.record.slot = piece.slot
         /\ writing.record.account = AccountOf(piece.receipt)
    /\ writing = Idle =>
         /\ disk.account[piece.slot] = AccountOf(piece.receipt)
         /\ known.account[piece.slot] # "none"
         /\ piece.receipt.kind \in Kinds => task[piece.slot] = "over"

\* Without one, nothing but the end of a stage is appended.
NoPieceNoRecord ==
  piece = NoPiece /\ writing # Idle => writing.record.slot = NoSlot

ReceiptIInv ==
  /\ slotDir \in [Slots -> Receipts]
  /\ ReceiptsAreTrue /\ ReceiptsAreKnown
  /\ GrantedIsRunning /\ PieceIsRecorded /\ NoPieceNoRecord

LEMMA ReceiptForms ==
  /\ OpenDir \in Receipts /\ TornDir \in Receipts /\ NoDir \in Receipts
  /\ Capped \in Receipts /\ Blocked \in Receipts
  /\ OpenDir.kind = "open" /\ TornDir.kind = "torn" /\ NoDir.kind = "none"
  /\ Capped.kind = "capped" /\ Blocked.kind = "blocked"
  /\ ~ OpenDir.settled
  /\ \A s : \A a \in Answers(s) : a \in Receipts /\ a.kind = "answered"
  /\ "answered" \in Kinds /\ "capped" \in Kinds /\ "blocked" \in Kinds
  /\ "open" \notin Kinds /\ "torn" \notin Kinds /\ "none" \notin Kinds
<1>1. \A k \in Kinds \cup {"none", "open", "torn"}, b, f \in BOOLEAN,
          o \in {"none", "short", "long"} :
        /\ Receipt(k, b, f, o) \in Receipts
        /\ Receipt(k, b, f, o).kind = k /\ Receipt(k, b, f, o).settled = b
  BY DEF Receipt, Receipts
<1>2. "answered" \in Kinds /\ "capped" \in Kinds /\ "blocked" \in Kinds
      /\ "open" \notin Kinds /\ "torn" \notin Kinds /\ "none" \notin Kinds
  BY DEF Kinds
<1>3. ASSUME NEW s, NEW a \in Answers(s)
      PROVE  a \in Receipts /\ a.kind = "answered"
  <2>1. \E b, f \in BOOLEAN, o \in {"none", "short", "long"} :
          a = Receipt("answered", b, f, o)
    BY DEF Answers
  <2> QED BY <1>1, <1>2, <2>1
<1> QED BY <1>1, <1>2, <1>3 DEF OpenDir, TornDir, NoDir, Capped, Blocked

LEMMA ReceiptStarts == StageInit => ReceiptIInv
<1> SUFFICES ASSUME StageInit PROVE ReceiptIInv
  OBVIOUS
<1>1. /\ slotDir = [s \in Slots |-> NoDir] /\ piece = NoPiece /\ writing = Idle
      /\ task = [s \in Slots |-> "fresh"]
  BY DEF StageInit, LedgerInit
<1> QED
  BY <1>1, ReceiptForms
     DEF ReceiptIInv, ReceiptsAreTrue, ReceiptsAreKnown, GrantedIsRunning,
         PieceIsRecorded, NoPieceNoRecord, Kinds

\* Between the pieces of tasks, and when a stage closes, nothing of this changes.
LEMMA ReceiptCalm ==
  ASSUME LedgerIInv, ReceiptIInv, piece = NoPiece, piece' = NoPiece,
         UNCHANGED <<slotDir, disk, known, opened, writing, calls>>,
         \A s \in Slots : task'[s] = task[s] \/ task'[s] = "over"
  PROVE  ReceiptIInv'
BY DEF ReceiptIInv, ReceiptsAreTrue, ReceiptsAreKnown, GrantedIsRunning,
       PieceIsRecorded, NoPieceNoRecord

\* Whatever ends a process leaves the receipts as they are.
LEMMA ReceiptGone ==
  ASSUME LedgerIInv, ReceiptIInv, ProcessGone
  PROVE  ReceiptIInv'
<1>1. /\ piece' = NoPiece /\ writing' = Idle /\ opened' = NoStage
      /\ task' = [s \in Slots |-> "fresh"]
      /\ UNCHANGED <<slotDir, disk, calls>>
  BY DEF ProcessGone, Exit, fileVars
<1> QED
  BY <1>1 DEF ReceiptIInv, ReceiptsAreTrue, ReceiptsAreKnown, GrantedIsRunning,
              PieceIsRecorded, NoPieceNoRecord

LEMMA ReceiptOpens ==
  ASSUME LedgerIInv, ReceiptIInv, NEW stage \in Stages, Start(stage)
  PROVE  ReceiptIInv'
<1>1. /\ phase = "down" /\ opened = NoStage
      /\ known' = disk /\ UNCHANGED <<slotDir, disk, writing, task, calls, piece>>
  BY DEF Start, Open, fileVars
<1>2. piece = NoPiece
  BY <1>1 DEF ReceiptIInv, PieceIsRecorded, Working
<1>3. ReceiptsAreKnown'
  BY <1>1 DEF ReceiptIInv, ReceiptsAreKnown, ReceiptsAreTrue, Kinds
<1> QED
  BY <1>1, <1>2, <1>3 DEF ReceiptIInv, ReceiptsAreTrue, GrantedIsRunning,
     PieceIsRecorded, NoPieceNoRecord

\* A task begins a piece with an append, or keeps its reservation.
LEMMA ReceiptBegins ==
  ASSUME LedgerIInv, ReceiptIInv, HandsOver,
         NEW s \in Slots, TaskSkips(s) \/ TaskReserves(s)
  PROVE  ReceiptIInv'
<1> USE DEF ReceiptIInv
<1>1. PICK receipt \in {OpenDir, Capped, Blocked} :
        /\ Working /\ piece = NoPiece /\ opened # NoStage /\ writing = Idle
        /\ known.account[s] = "none"
        /\ piece' = [slot |-> s, receipt |-> receipt]
        /\ writing' = Appending(Record(s, AccountOf(receipt), 0, NoVerdict), "record")
        /\ UNCHANGED <<slotDir, phase, disk, known, opened, task, calls>>
  <2>1. CASE TaskReserves(s)
    <3>1. AccountOf(OpenDir) = "reserved"
      BY ReceiptForms DEF AccountOf
    <3> QED BY <2>1, <3>1 DEF TaskReserves, Queued, Reserve, Ready, Admits, Begin, BeginPiece, fileVars
  <2>2. CASE TaskSkips(s)
    <3>1. AccountOf(Capped) = "skipped" /\ AccountOf(Blocked) = "skipped"
      BY ReceiptForms DEF AccountOf
    <3> QED BY <2>2, <3>1 DEF TaskSkips, Queued, Skip, Ready, Admits, Begin, BeginPiece, fileVars
  <2> QED BY <2>1, <2>2
<1>2. calls[s] = 0 /\ slotDir[s].kind \notin Kinds
  BY <1>1 DEF LedgerIInv, CalledIsIssued, ReceiptsAreKnown
<1>3. receipt \in Receipts /\ receipt.kind # "answered"
      /\ (receipt = OpenDir \/ receipt.kind \in Kinds)
  BY ReceiptForms
<1>4. /\ writing' # Idle /\ writing'.record.slot = s
      /\ writing'.record.account = AccountOf(receipt)
  BY <1>1 DEF Appending, Record, Idle
<1>5. piece' # NoPiece /\ piece'.slot = s /\ piece'.receipt = receipt
  BY <1>1, StageAssumption, RootlessAssumption DEF NoPiece
<1>6. PieceIsRecorded'
  BY <1>1, <1>2, <1>3, <1>4, <1>5 DEF PieceIsRecorded, Working
<1>7. GrantedIsRunning'
  BY <1>1 DEF GrantedIsRunning, NoPiece, OpenDir, NoDir, Receipt
<1> QED
  BY <1>1, <1>5, <1>6, <1>7 DEF ReceiptsAreTrue, ReceiptsAreKnown, NoPieceNoRecord

\* An answer begins a piece: its settlement is appended, or the reservation stays.
LEMMA ReceiptAnswered ==
  ASSUME LedgerIInv, ReceiptIInv, NEW s \in Slots, TaskAnswered(s)
  PROVE  ReceiptIInv'
<1> USE DEF ReceiptIInv
<1>1. PICK answer \in Answers(s) :
        /\ IF answer.settled THEN \E cost \in Costs : Settle(s, cost) ELSE Abandon(s)
        /\ BeginPiece(s, answer)
  BY DEF TaskAnswered
<1>2. /\ Working /\ piece = NoPiece
      /\ piece' = [slot |-> s, receipt |-> answer]
      /\ UNCHANGED <<slotDir, phase>>
  BY <1>1 DEF TaskAnswered, BeginPiece, fileVars
<1>3. /\ opened # NoStage /\ writing = Idle
      /\ UNCHANGED <<disk, known, opened, calls>>
      /\ task[s] \in {"granted", "called"}
  BY <1>1 DEF Settle, Abandon, Ready, Begin, memoryVars
<1>4. task[s] = "called"
  BY <1>2, <1>3 DEF GrantedIsRunning, NoPiece, OpenDir, NoDir, Receipt
<1>5. /\ calls[s] = 1 /\ known.account[s] = "reserved"
      /\ disk.account[s] = "reserved"
  BY <1>3, <1>4 DEF LedgerIInv, TasksAreHeld, AtHead, Idle
<1>6. slotDir[s].kind \notin Kinds
  BY <1>4 DEF ReceiptsAreKnown
<1>7. answer \in Receipts /\ answer.kind = "answered" /\ answer.kind \in Kinds
      /\ AccountOf(answer) = IF answer.settled THEN "settled" ELSE "reserved"
  BY ReceiptForms DEF AccountOf
<1>8. piece' # NoPiece /\ piece'.slot = s /\ piece'.receipt = answer
  BY <1>2, RootlessAssumption DEF NoPiece
<1>9. CASE answer.settled
  <2>1. PICK cost \in Costs : Settle(s, cost)
    BY <1>1, <1>9
  <2>2. /\ writing' = Appending(Record(s, "settled", cost, NoVerdict), "record")
        /\ UNCHANGED task
    BY <2>1 DEF Settle, Begin
  <2>3. /\ writing' # Idle /\ writing'.record.slot = s
        /\ writing'.record.account = "settled"
    BY <2>2 DEF Appending, Record, Idle
  <2>4. PieceIsRecorded'
    BY <1>2, <1>3, <1>5, <1>6, <1>7, <1>8, <1>9, <2>3 DEF PieceIsRecorded, Working
  <2>5. GrantedIsRunning'
    BY <1>2, <2>2 DEF GrantedIsRunning, NoPiece, OpenDir, NoDir, Receipt
  <2> QED
    BY <1>2, <1>3, <1>8, <2>2, <2>4, <2>5
       DEF ReceiptsAreTrue, ReceiptsAreKnown, NoPieceNoRecord
<1>10. CASE ~ answer.settled
  <2>1. /\ task' = [task EXCEPT ![s] = "over"] /\ writing' = Idle
        /\ task \in [Slots -> {"fresh", "granted", "called", "over"}]
    BY <1>1, <1>3, <1>10 DEF Abandon, memoryVars, LedgerIInv, RootlessTypeOK
  <2>2. PieceIsRecorded'
    BY <1>2, <1>3, <1>5, <1>6, <1>7, <1>8, <1>10, <2>1 DEF PieceIsRecorded, Working
  <2>3. GrantedIsRunning'
    BY <1>2, <2>1 DEF GrantedIsRunning, NoPiece, OpenDir, NoDir, Receipt
  <2> QED
    BY <1>2, <1>3, <1>8, <2>1, <2>2, <2>3
       DEF ReceiptsAreTrue, ReceiptsAreKnown, NoPieceNoRecord
<1> QED BY <1>9, <1>10

\* The directory of the slot at hand gets no receipt yet.
LEMMA ReceiptNotYet ==
  ASSUME LedgerIInv, ReceiptIInv, HandsOver, MakeDirectory \/ TearReceipt
  PROVE  ReceiptIInv'
<1> USE DEF ReceiptIInv
<1>1. PICK dir \in {OpenDir, TornDir} :
        /\ slotDir' = [slotDir EXCEPT ![piece.slot] = dir]
        /\ UNCHANGED <<ledgerVars, phase, piece>>
  BY DEF MakeDirectory, TearReceipt, brokerVars
<1>2. piece # NoPiece /\ piece.slot \in Slots
  <2>1. NoPiece.receipt # Blocked
    BY DEF NoPiece, NoDir, Blocked, Receipt
  <2> QED BY <2>1 DEF MakeDirectory, TearReceipt, HandsOver
<1>3. dir \in Receipts /\ dir.kind \notin Kinds
  BY ReceiptForms
<1>4. \A s \in Slots : slotDir'[s].kind \in Kinds => slotDir'[s] = slotDir[s]
  BY <1>1, <1>3
<1>5. slotDir' \in [Slots -> Receipts] /\ slotDir'[piece.slot].kind \notin Kinds
  BY <1>1, <1>2, <1>3
<1>6. UNCHANGED <<disk, known, opened, writing, task, calls>>
  BY <1>1 DEF ledgerVars, memoryVars
<1>7. ReceiptsAreTrue'
  BY <1>4, <1>6, ReceiptForms DEF ReceiptsAreTrue
<1>8. ReceiptsAreKnown'
  BY <1>4, <1>6 DEF ReceiptsAreKnown
<1>9. PieceIsRecorded'
  BY <1>1, <1>2, <1>5, <1>6 DEF PieceIsRecorded, Working
<1> QED
  BY <1>1, <1>5, <1>6, <1>7, <1>8, <1>9 DEF GrantedIsRunning, NoPieceNoRecord

LEMMA ReceiptCalled ==
  ASSUME LedgerIInv, ReceiptIInv, TaskCalls
  PROVE  ReceiptIInv'
<1> USE DEF ReceiptIInv
<1>1. piece # NoPiece
  BY DEF TaskCalls, NoPiece, OpenDir, NoDir, Receipt
<1>2. PICK s \in Slots : s = piece.slot
  BY <1>1 DEF PieceIsRecorded
<1>3. /\ writing = Idle /\ task[s] = "granted"
      /\ calls' = [calls EXCEPT ![s] = @ + 1]
      /\ task' = [task EXCEPT ![s] = "called"]
      /\ piece' = NoPiece
      /\ UNCHANGED <<slotDir, phase, disk, known, opened, writing>>
  BY <1>2 DEF TaskCalls, Exchange, fileVars, memoryVars
<1>4. slotDir[s].kind \notin Kinds
  BY <1>1, <1>2 DEF PieceIsRecorded
<1>5. /\ task \in [Slots -> {"fresh", "granted", "called", "over"}]
      /\ calls \in [Slots -> Nat]
  BY DEF LedgerIInv, RootlessTypeOK
<1>6. \A t \in Slots : t # s => calls'[t] = calls[t] /\ task'[t] = task[t]
  BY <1>3, <1>5
<1>7. ReceiptsAreTrue'
  BY <1>3, <1>4, <1>6, ReceiptForms DEF ReceiptsAreTrue
<1>8. ReceiptsAreKnown'
  BY <1>3, <1>4, <1>6 DEF ReceiptsAreKnown
<1>9. GrantedIsRunning'
  <2>1. \A t \in Slots : t # s => task[t] # "granted"
    BY <1>2 DEF GrantedIsRunning
  <2>2. task'[s] # "granted"
    BY <1>3, <1>5
  <2> QED BY <1>6, <2>1, <2>2 DEF GrantedIsRunning
<1> QED BY <1>3, <1>7, <1>8, <1>9 DEF PieceIsRecorded, NoPieceNoRecord

\* The receipt says what was recorded.
LEMMA ReceiptWritten ==
  ASSUME LedgerIInv, ReceiptIInv, WriteReceipt
  PROVE  ReceiptIInv'
<1> USE DEF ReceiptIInv
<1>1. piece # NoPiece
  BY ReceiptForms DEF WriteReceipt, NoPiece
<1>2. PICK s \in Slots, r \in Receipts : s = piece.slot /\ r = piece.receipt
  BY <1>1 DEF PieceIsRecorded
<1>3. /\ r.kind \in Kinds /\ writing = Idle
      /\ slotDir' = [slotDir EXCEPT ![s] = r]
      /\ piece' = NoPiece
      /\ UNCHANGED <<ledgerVars, phase>>
  BY <1>2 DEF WriteReceipt, Deliver
<1>4. UNCHANGED <<disk, known, opened, writing, task, calls>>
  BY <1>3 DEF ledgerVars, memoryVars
<1>5. /\ calls[s] = IF r.kind = "answered" THEN 1 ELSE 0
      /\ disk.account[s] = AccountOf(r) /\ known.account[s] # "none"
      /\ task[s] = "over"
  BY <1>1, <1>2, <1>3 DEF PieceIsRecorded
<1>6. slotDir' \in [Slots -> Receipts] /\ slotDir'[s] = r
      /\ \A t \in Slots : t # s => slotDir'[t] = slotDir[t]
  BY <1>3
<1>7. ReceiptsAreTrue'
  BY <1>4, <1>5, <1>6 DEF ReceiptsAreTrue, AccountOf
<1>8. ReceiptsAreKnown'
  BY <1>4, <1>5, <1>6 DEF ReceiptsAreKnown
<1>9. GrantedIsRunning'
  BY <1>2, <1>4, <1>5 DEF GrantedIsRunning
<1> QED BY <1>3, <1>4, <1>6, <1>7, <1>8, <1>9 DEF PieceIsRecorded, NoPieceNoRecord

LEMMA ReceiptAppends ==
  ASSUME LedgerIInv, ReceiptIInv, AppendStep
  PROVE  ReceiptIInv'
<1> USE DEF ReceiptIInv
<1> DEFINE r == writing.record
<1>1. /\ writing # Idle /\ UNCHANGED <<slotDir, phase, piece, calls, opened>>
  BY DEF AppendStep, WriteRecord, WriteHead, Idle, fileVars, brokerVars
<1>2. /\ piece # NoPiece => r.slot = piece.slot /\ piece.slot \in Slots
                            /\ r.account = AccountOf(piece.receipt)
      /\ piece = NoPiece => r.slot = NoSlot
      /\ \A s \in Slots : slotDir[s].kind \in Kinds => s # r.slot
  BY <1>1, RootlessAssumption DEF PieceIsRecorded, NoPieceNoRecord
<1>3. /\ disk \in Contents /\ known \in Contents
      /\ task \in [Slots -> {"fresh", "granted", "called", "over"}]
      /\ Sound(r) /\ opened # NoStage
  BY <1>1 DEF LedgerIInv, RootlessTypeOK, DownIsBlank
<1>4. CASE WriteRecord
  <2>1. /\ disk' = With(disk, r) /\ writing' = Appending(r, "head")
        /\ UNCHANGED <<known, task>>
    BY <1>4 DEF WriteRecord
  <2>2. \A s \in Slots :
          disk'.account[s] = IF s = r.slot THEN r.account ELSE disk.account[s]
    BY <2>1 DEF With
  <2>3. writing' # Idle /\ writing'.record = r
    BY <2>1 DEF Appending, Idle
  <2>4. ReceiptsAreTrue'
    BY <1>1, <1>2, <2>2, ReceiptForms DEF ReceiptsAreTrue
  <2>5. ReceiptsAreKnown' /\ GrantedIsRunning'
    BY <1>1, <2>1 DEF ReceiptsAreKnown, GrantedIsRunning
  <2>6. PieceIsRecorded'
    BY <1>1, <1>2, <2>3 DEF PieceIsRecorded, Working
  <2> QED BY <1>1, <1>2, <2>3, <2>4, <2>5, <2>6 DEF NoPieceNoRecord
<1>5. CASE WriteHead
  <2>1. /\ writing.step = "head" /\ writing' = Idle
        /\ known' = With(known, r)
        /\ task' = [s \in Slots |-> IF s = r.slot THEN TaskAfter(r) ELSE task[s]]
        /\ UNCHANGED disk
    BY <1>5 DEF WriteHead
  <2>2. \A s \in Slots :
          known'.account[s] = IF s = r.slot THEN r.account ELSE known.account[s]
    BY <2>1 DEF With
  <2>3. ReceiptsAreTrue'
    BY <1>1, <2>1 DEF ReceiptsAreTrue
  <2>4. ReceiptsAreKnown'
    BY <1>1, <1>2, <2>1, <2>2 DEF ReceiptsAreKnown
  <2>5. CASE piece = NoPiece
    <3>1. \A s \in Slots : task'[s] = task[s]
      BY <1>2, <2>1, <2>5, RootlessAssumption
    <3> QED
      BY <1>1, <2>1, <2>3, <2>4, <2>5, <3>1
         DEF GrantedIsRunning, PieceIsRecorded, NoPieceNoRecord
  <2>6. CASE piece # NoPiece
    <3>1. PICK s \in Slots, receipt \in Receipts :
            s = piece.slot /\ receipt = piece.receipt
      BY <2>6 DEF PieceIsRecorded
    <3>2. /\ r.slot = s /\ r.account = AccountOf(receipt)
          /\ calls[s] = IF receipt.kind = "answered" THEN 1 ELSE 0
          /\ receipt = OpenDir \/ receipt.kind \in Kinds
      BY <1>1, <2>6, <3>1 DEF PieceIsRecorded
    <3>3. disk.account[s] = r.account
      BY <1>3, <2>1, <3>2 DEF Sound
    <3>4. r.account = "reserved" => receipt = OpenDir
      <4>1. SUFFICES ASSUME r.account = "reserved", receipt.kind \in Kinds PROVE FALSE
        BY <3>2
      <4>2. receipt.kind = "answered"
        BY <3>2, <4>1 DEF AccountOf, Kinds
      <4>3. known.account[s] # "none"
        BY <1>3, <3>2, <4>2 DEF LedgerIInv, CalledIsIssued
      <4> QED
        BY <1>3, <3>2, <4>1, <4>3, RootlessAssumption
           DEF Sound, Reserving, Settling, Skipping, Ending
    <3>5. r.account # "none"
      BY <3>2 DEF AccountOf
    <3>6. task'[s] = TaskAfter(r) /\ \A t \in Slots : t # s => task'[t] = task[t]
      BY <2>1, <3>2
    <3>7. PieceIsRecorded'
      <4>1. receipt.kind \in Kinds => task'[s] = "over"
        BY <3>4, <3>6, ReceiptForms DEF TaskAfter
      <4>2. known'.account[s] # "none"
        BY <2>2, <3>2, <3>5
      <4> QED
        BY <1>1, <2>1, <2>6, <3>1, <3>2, <3>3, <4>1, <4>2
           DEF PieceIsRecorded, Working
    <3>8. GrantedIsRunning'
      BY <1>1, <2>6, <3>1, <3>4, <3>6 DEF GrantedIsRunning, TaskAfter
    <3> QED BY <1>1, <2>1, <2>3, <2>4, <2>6, <3>7, <3>8 DEF NoPieceNoRecord
  <2> QED BY <2>5, <2>6
<1> QED BY <1>4, <1>5 DEF AppendStep

\* A task that raises leaves no receipt.
LEMMA ReceiptRaises ==
  ASSUME LedgerIInv, ReceiptIInv, piece' = NoPiece,
         UNCHANGED <<slotDir, disk, known, opened, calls>>, writing' = Idle,
         \A s \in Slots : task'[s] = task[s] \/ task'[s] = "over",
         \A s \in Slots : task'[s] = "granted" => piece = NoPiece
  PROVE  ReceiptIInv'
BY DEF ReceiptIInv, ReceiptsAreTrue, ReceiptsAreKnown, GrantedIsRunning,
       PieceIsRecorded, NoPieceNoRecord

LEMMA ReceiptFails ==
  ASSUME LedgerIInv, ReceiptIInv, AppendFails
  PROVE  ReceiptIInv'
<1> USE DEF ReceiptIInv
<1>1. /\ writing # Idle /\ writing' = Idle
      /\ task' = [s \in Slots |-> IF s = writing.record.slot THEN "over" ELSE task[s]]
      /\ UNCHANGED <<disk, known, opened, calls>>
  BY DEF AppendFails, WriteFails
<1>2. piece' = NoPiece /\ UNCHANGED slotDir
  BY DEF AppendFails, Raises, fileVars, PieceIsRecorded
<1>3. \A s \in Slots : task'[s] = "granted" => piece = NoPiece
  BY <1>1 DEF GrantedIsRunning, PieceIsRecorded
<1> QED BY <1>1, <1>2, <1>3, ReceiptRaises

LEMMA ReceiptBreaks ==
  ASSUME LedgerIInv, ReceiptIInv, NEW s \in Slots,
         TaskBreaks(s) \/ LedgerRefuses(s) \/ SettlementRefused(s) \/ TaskCancelled(s)
  PROVE  ReceiptIInv'
<1> USE DEF ReceiptIInv
<1>1. /\ piece' = NoPiece /\ UNCHANGED slotDir
      /\ piece = NoPiece \/ (piece.slot = s /\ writing = Idle)
      /\ Abandon(s) \/ UNCHANGED ledgerVars
      /\ TaskBreaks(s) /\ task[s] = "granted" => Abandon(s)
  BY DEF TaskBreaks, LedgerRefuses, SettlementRefused, TaskCancelled, Queued, Raises,
         fileVars
<1>2. /\ UNCHANGED <<disk, known, opened, calls, writing>>
      /\ task' = task \/ task' = [task EXCEPT ![s] = "over"]
  BY <1>1 DEF Abandon, memoryVars, ledgerVars
<1>3. \A t \in Slots : task'[t] = task[t] \/ task'[t] = "over"
  BY <1>2 DEF LedgerIInv, RootlessTypeOK
<1>4. CASE piece = NoPiece
  BY <1>1, <1>2, <1>3, <1>4, ReceiptCalm
<1>5. CASE piece # NoPiece
  <2>1. TaskBreaks(s)
    BY <1>5 DEF LedgerRefuses, SettlementRefused, TaskCancelled, Queued
  <2>2. \A t \in Slots : task'[t] # "granted"
    <3>1. \A t \in Slots : t # s => task[t] # "granted"
      BY <1>1, <1>5 DEF GrantedIsRunning
    <3>2. task'[s] # "granted"
      BY <1>1, <1>2, <2>1 DEF Abandon, LedgerIInv, RootlessTypeOK
    <3> QED BY <1>3, <3>1, <3>2
  <2> QED BY <1>1, <1>2, <1>3, <1>5, <2>2, ReceiptRaises
<1> QED BY <1>4, <1>5

\* The record of a stage's end names no slot.
LEMMA ReceiptTerminates ==
  ASSUME LedgerIInv, ReceiptIInv, CloseLedger
  PROVE  ReceiptIInv'
<1> USE DEF ReceiptIInv
<1>1. phase = "manifest" /\ UNCHANGED <<slotDir, piece>>
  BY DEF CloseLedger, fileVars
<1>2. piece = NoPiece
  BY <1>1 DEF PieceIsRecorded, Working
<1>3. CASE UNCHANGED ledgerVars
  <2>1. UNCHANGED <<disk, known, opened, calls, writing, task>>
    BY <1>3 DEF ledgerVars, memoryVars
  <2> QED BY <1>1, <1>2, <2>1, ReceiptCalm
<1>4. CASE Terminate(Verdict)
  <2>1. /\ writing' = Appending(Record(NoSlot, "none", 0, Verdict), "record")
        /\ UNCHANGED <<disk, known, opened, calls, task>>
    BY <1>4 DEF Terminate, Begin
  <2>2. writing'.record.slot = NoSlot
    BY <2>1 DEF Appending, Record
  <2> QED
    BY <1>1, <1>2, <2>1, <2>2
       DEF ReceiptsAreTrue, ReceiptsAreKnown, GrantedIsRunning, PieceIsRecorded,
           NoPieceNoRecord
<1> QED BY <1>3, <1>4 DEF CloseLedger

LEMMA ReceiptSteps ==
  LedgerIInv /\ HandsOver /\ ReceiptIInv /\ [StageNext]_stageVars => ReceiptIInv'
<1> SUFFICES ASSUME LedgerIInv, HandsOver, ReceiptIInv, [StageNext]_stageVars
             PROVE  ReceiptIInv'
  OBVIOUS
<1>1. ASSUME UNCHANGED <<ledgerVars, fileVars, brokerVars>> PROVE ReceiptIInv'
  <2>1. UNCHANGED <<disk, known, opened, writing, task, calls, slotDir, phase, piece>>
    BY <1>1 DEF ledgerVars, memoryVars, fileVars, brokerVars
  <2> QED
    BY <2>1 DEF ReceiptIInv, ReceiptsAreTrue, ReceiptsAreKnown, GrantedIsRunning,
                PieceIsRecorded, NoPieceNoRecord, Working
<1>2. CASE UNCHANGED stageVars
  BY <1>1, <1>2 DEF stageVars
<1>3. CASE \E stage \in Stages : Start(stage)
  BY <1>3, ReceiptOpens
<1>4. CASE WorkerStep \/ WorkerDies
  BY <1>1, <1>4 DEF WorkerStep, WorkerDispatches, WorkerReads, WorkerEnds, WorkerDies
<1>5. CASE \/ ReadDispatch \/ Consume \/ ChannelLost \/ EnterClose
           \/ SealStage \/ SealFinal \/ CloseReceipts \/ StartDies
           \/ \E s \in Slots : TaskReplays(s)
  <2>1. /\ UNCHANGED <<slotDir, disk, known, opened, writing, calls, task, piece>>
        /\ piece = NoPiece \/ ~Working
    BY <1>5 DEF ReadDispatch, Consume, ChannelLost, EnterClose, SealStage, SealFinal,
       CloseReceipts, StartDies, OpenTorn, Reread, TaskReplays, Queued, ledgerVars, memoryVars,
       fileVars, brokerVars, Working
  <2>2. piece = NoPiece
    BY <2>1 DEF ReceiptIInv, PieceIsRecorded
  <2> QED BY <2>1, <2>2, ReceiptCalm
<1>6. CASE \E s \in Slots :
             \/ TaskSkips(s) \/ TaskReserves(s) \/ TaskAnswered(s)
             \/ LedgerRefuses(s) \/ SettlementRefused(s) \/ TaskCancelled(s)
             \/ TaskBreaks(s)
  BY <1>6, ReceiptBegins, ReceiptAnswered, ReceiptBreaks
<1>7. CASE PieceStep
  BY <1>7, ReceiptNotYet, ReceiptCalled, ReceiptWritten DEF PieceStep
<1>8. CASE AppendStep \/ AppendFails \/ CloseLedger
  BY <1>8, ReceiptAppends, ReceiptFails, ReceiptTerminates
<1>9. CASE BrokerEnds \/ BrokerDies
  BY <1>9, ReceiptGone DEF BrokerEnds, BrokerDies
<1> QED
  BY <1>2, <1>3, <1>4, <1>5, <1>6, <1>7, <1>8, <1>9
     DEF StageNext, BrokerStep, TaskStep, FaultStep

\* A receipt on disk says what happened, over any number of processes, deaths and
\* failing writes: its slot was called once or never, and the records account for
\* it as the receipt does (FakeBroker.dispatch, account_input_cap).  A receipt is
\* written only when the append of its piece is complete (PieceIsRecorded), and no
\* later process appends to its slot, because every process reads the record first
\* (ReceiptsAreKnown).
THEOREM StageReceiptsAreTrue == StageSpec => []ReceiptsAreTrue
<1>1. StageSpec => []LedgerIInv
  BY StageImplementsLedger, LedgerInvariant, PTL
<1>2. StageInit => HandsOver /\ ReceiptIInv
  BY StageStarts, ReceiptStarts
<1>3. LedgerIInv /\ HandsOver /\ ReceiptIInv /\ [StageNext]_stageVars
        => HandsOver' /\ ReceiptIInv'
  BY HandsOverSteps, ReceiptSteps
<1>4. ReceiptIInv => ReceiptsAreTrue
  BY DEF ReceiptIInv
<1> QED BY <1>1, <1>2, <1>3, <1>4, PTL DEF StageSpec

-------------------------------------------------------------------------------
(* Sealed stages.                                                              *)

\* The last record ends a stage, and not one that another stage follows.
IsFinal(contents) ==
  /\ contents.last.verdict # NoVerdict
  /\ contents.last # [stage |-> "screening", verdict |-> Estimable]

\* Records are appended to an open stage, and a verdict at its closing only.
AppendsToOpen ==
  writing # Idle =>
    /\ ~ Closed(known, opened)
    /\ writing.record.verdict = IF phase = "terminal" THEN Verdict ELSE NoVerdict
    /\ writing.step = "head" =>
         disk.last = [stage |-> opened, verdict |-> writing.record.verdict]

\* A stage the object knows closed is closed on disk, with the verdict it is to be
\* sealed with.
ClosedOnDisk ==
  /\ opened # NoStage /\ Closed(known, opened) => known.last = disk.last
  /\ phase \in {"terminal", "again"} /\ writing = Idle =>
       opened # NoStage /\ known.last = [stage |-> opened, verdict |-> Verdict]

\* Nothing follows a final record: a process that finds it has no work.
FinalStays ==
  IsFinal(disk) /\ opened # NoStage =>
    /\ writing.step # "record"
    /\ phase \in {"terminal", "refused"} \/ (writing = Idle /\ IsFinal(known))
    /\ Working => piece = NoPiece /\ \A s \in Slots : task[s] = "fresh"

LastRecordIInv == AppendsToOpen /\ ClosedOnDisk /\ FinalStays

\* Every slot of the stage has a receipt.
Complete(stage) == \A s \in SlotsOf(stage) : slotDir[s].kind \in Kinds

SealedIsOver ==
  \A stage \in Stages : sealed[stage] # NoSeal => IsFinal(disk) \/ Complete(stage)

SealIInv ==
  /\ DOMAIN sealed = Stages
  /\ \A s \in Slots : slotDir[s].kind \notin Kinds => slotDir[s].output = "none"
  /\ LastRecordIInv
  /\ SealedIsOver /\ SealCoversCalls

\* What a step can do to the records, the calls and the directories.
LEMMA StageEffects ==
  ASSUME LedgerIInv, HandsOver, ReceiptIInv, [StageNext]_stageVars
  PROVE  /\ UNCHANGED disk \/ (/\ writing.step = "record"
                               /\ disk' = With(disk, writing.record))
         /\ UNCHANGED calls \/ (/\ piece # NoPiece
                                /\ calls' = [calls EXCEPT ![piece.slot] = @ + 1])
         /\ UNCHANGED slotDir \/ (/\ piece # NoPiece
                                  /\ \E dir : /\ dir \in {OpenDir, TornDir} \/ dir.kind \in Kinds
                                              /\ slotDir' = [slotDir EXCEPT ![piece.slot] = dir])
<1>1. [LedgerNext]_ledgerVars
  BY StageStepsLedger
<1>2. UNCHANGED disk \/ (/\ writing.step = "record"
                         /\ disk' = With(disk, writing.record))
  BY <1>1 DEF LedgerNext, Open, OpenTorn, Reread, Reserve, Skip, Exchange, Abandon, Settle,
     Terminate, Begin, WriteRecord, WriteHead, WriteFails, Exit, ledgerVars
<1>3. UNCHANGED calls \/ (/\ piece # NoPiece
                          /\ calls' = [calls EXCEPT ![piece.slot] = @ + 1])
  <2>1. ASSUME NEW s \in Slots, Exchange(s)
        PROVE  piece # NoPiece /\ calls' = [calls EXCEPT ![piece.slot] = @ + 1]
    BY <2>1 DEF Exchange, ReceiptIInv, GrantedIsRunning
  <2> QED
    BY <1>1, <2>1 DEF LedgerNext, Open, OpenTorn, Reread, Reserve, Skip, Abandon, Settle,
       Terminate, Begin, WriteRecord, WriteHead, WriteFails, Exit, ledgerVars
<1>4. UNCHANGED slotDir \/ (/\ piece # NoPiece
                            /\ \E dir : /\ dir \in {OpenDir, TornDir} \/ dir.kind \in Kinds
                                        /\ slotDir' = [slotDir EXCEPT ![piece.slot] = dir])
  <2>1. CASE PieceStep
    <3>1. NoPiece.receipt # Blocked /\ NoPiece.receipt.kind \notin Kinds
      BY ReceiptForms DEF NoPiece, NoDir, Blocked, Receipt
    <3> QED
      BY <2>1, <3>1 DEF PieceStep, MakeDirectory, TaskCalls, TearReceipt, WriteReceipt, fileVars
  <2>2. CASE \E s \in Slots : TaskStep(s) \/ TaskBreaks(s)
    BY <2>2 DEF TaskStep, TaskReplays, TaskSkips, TaskReserves, TaskAnswered, LedgerRefuses,
       SettlementRefused, TaskCancelled, TaskBreaks, Raises, BeginPiece, fileVars
  <2>3. CASE \/ ReadDispatch \/ Consume \/ ChannelLost \/ AppendStep \/ EnterClose
             \/ CloseReceipts \/ CloseLedger \/ SealStage \/ SealFinal \/ BrokerEnds
    BY <2>3 DEF ReadDispatch, Consume, ChannelLost, AppendStep, EnterClose, CloseReceipts,
       CloseLedger, SealStage, SealFinal, BrokerEnds, ProcessGone, fileVars
  <2>4. CASE WorkerStep \/ WorkerDies \/ BrokerDies \/ StartDies \/ AppendFails
    BY <2>4 DEF WorkerStep, WorkerDispatches, WorkerReads, WorkerEnds, WorkerDies, BrokerDies,
       StartDies, AppendFails, Raises, ProcessGone, fileVars
  <2>5. CASE \E stage \in Stages : Start(stage)
    BY <2>5 DEF Start, fileVars
  <2>6. CASE UNCHANGED stageVars
    BY <2>6 DEF stageVars, fileVars
  <2> QED BY <2>1, <2>2, <2>3, <2>4, <2>5, <2>6 DEF StageNext, BrokerStep, FaultStep
<1> QED BY <1>2, <1>3, <1>4

\* A slot with a receipt is left alone, and so is what a complete stage has cost.
LEMMA WholeStays ==
  ASSUME LedgerIInv, HandsOver, ReceiptIInv, [StageNext]_stageVars,
         NEW s \in Slots, slotDir[s].kind \in Kinds
  PROVE  /\ calls'[s] = calls[s] /\ disk'.account[s] = disk.account[s]
         /\ slotDir'[s] = slotDir[s]
<1> USE DEF ReceiptIInv
<1>1. piece # NoPiece => piece.slot # s
  BY DEF PieceIsRecorded
<1>2. writing # Idle => writing.record.slot # s
  BY <1>1, RootlessAssumption DEF PieceIsRecorded, NoPieceNoRecord
<1>3. writing.step = "record" => writing # Idle
  BY DEF Idle
<1>4. disk'.account[s] = disk.account[s]
  BY <1>2, <1>3, StageEffects DEF With
<1>5. calls'[s] = calls[s]
  BY <1>1, StageEffects DEF LedgerIInv, RootlessTypeOK
<1>6. slotDir'[s] = slotDir[s]
  BY <1>1, StageEffects
<1> QED BY <1>4, <1>5, <1>6

LEMMA CompleteCosts ==
  ASSUME LedgerIInv, HandsOver, ReceiptIInv, [StageNext]_stageVars,
         NEW stage \in Stages, Complete(stage)
  PROVE  disk'.spent[stage] = disk.spent[stage]
<1> USE DEF ReceiptIInv
<1>1. SUFFICES ASSUME writing.step = "record", disk' = With(disk, writing.record)
               PROVE  disk'.spent[stage] = disk.spent[stage]
  BY StageEffects
<1> DEFINE r == writing.record
<1>2. writing # Idle /\ Sound(r) /\ disk \in Contents
  BY <1>1 DEF Idle, LedgerIInv, RootlessTypeOK
<1>3. disk.spent \in [Stages -> Nat]
  BY <1>2 DEF Contents
<1>4. disk'.spent = [disk.spent EXCEPT ![r.stage] = @ + r.cost]
  BY <1>1 DEF With
<1>5. CASE r.cost = 0
  BY <1>3, <1>4, <1>5
<1>6. CASE r.stage # stage
  BY <1>3, <1>4, <1>6
<1>7. CASE Settling(r) /\ r.stage = stage
  <2>1. r.slot \in SlotsOf(stage)
    BY <1>7 DEF Settling, SlotsOf
  <2>2. slotDir[r.slot].kind \in Kinds
    BY <2>1 DEF Complete
  <2>3. r.slot \in Slots /\ r.slot = piece.slot /\ piece # NoPiece
    BY <1>2, <2>1, RootlessAssumption DEF PieceIsRecorded, NoPieceNoRecord, SlotsOf
  <2> QED BY <2>2, <2>3 DEF PieceIsRecorded
<1> QED BY <1>2, <1>5, <1>6, <1>7 DEF Sound, Reserving, Skipping, Ending

\* Nothing is called, recorded or received for a stage that is sealed.
LEMMA SealedStays ==
  ASSUME LedgerIInv, HandsOver, ReceiptIInv, SealIInv, [StageNext]_stageVars,
         NEW stage \in Stages, sealed[stage] # NoSeal
  PROVE  /\ \A s \in SlotsOf(stage) :
              /\ calls'[s] = calls[s] /\ disk'.account[s] = disk.account[s]
              /\ slotDir'[s] = slotDir[s]
         /\ disk'.spent[stage] = disk.spent[stage]
         /\ (IsFinal(disk) \/ Complete(stage))'
<1>1. CASE IsFinal(disk)
  <2>1. writing.step # "record"
    BY <1>1 DEF SealIInv, LastRecordIInv, FinalStays, LedgerIInv, DownIsBlank, Idle
  <2>2. piece = NoPiece
    BY <1>1 DEF SealIInv, LastRecordIInv, FinalStays, ReceiptIInv, PieceIsRecorded
  <2>3. UNCHANGED <<disk, calls, slotDir>>
    BY <2>1, <2>2, StageEffects
  <2> QED BY <1>1, <2>3 DEF IsFinal
<1>2. CASE Complete(stage)
  <2>1. \A s \in SlotsOf(stage) : s \in Slots /\ slotDir[s].kind \in Kinds
    BY <1>2 DEF Complete, SlotsOf
  <2>2. \A s \in SlotsOf(stage) :
          /\ calls'[s] = calls[s] /\ disk'.account[s] = disk.account[s]
          /\ slotDir'[s] = slotDir[s]
    BY <2>1, WholeStays
  <2>3. Complete(stage)'
    BY <2>1, <2>2 DEF Complete
  <2> QED BY <1>2, <2>2, <2>3, CompleteCosts
<1> QED BY <1>1, <1>2 DEF SealIInv, SealedIsOver

\* The figures of the sealed stages still cover their calls.
LEMMA FiguresStay ==
  ASSUME LedgerIInv, HandsOver, ReceiptIInv, SealIInv, [StageNext]_stageVars,
         NEW stage \in Stages, sealed[stage] # NoSeal, sealed'[stage] = sealed[stage]
  PROVE  (/\ sealed[stage].issued >= Cardinality(CalledIn(stage))
          /\ sealed[stage].spent + sealed[stage].retained
               >= disk.spent[stage]
                    + Reservation * Cardinality(CalledIn(stage) \ SettledOnDisk))'
<1>1. /\ \A s \in SlotsOf(stage) :
           calls'[s] = calls[s] /\ disk'.account[s] = disk.account[s]
      /\ disk'.spent[stage] = disk.spent[stage]
  BY SealedStays
<1>2. CalledIn(stage)' = CalledIn(stage)
  BY <1>1 DEF CalledIn, Called, SlotsOf
<1>3. (CalledIn(stage) \ SettledOnDisk)' = CalledIn(stage) \ SettledOnDisk
  BY <1>1 DEF CalledIn, Called, SlotsOf, SettledOnDisk
<1> QED BY <1>1, <1>2, <1>3 DEF SealIInv, SealCoversCalls

LEMMA FinalIsClosed ==
  ASSUME NEW contents, IsFinal(contents), NEW stage
  PROVE  Closed(contents, stage)
BY DEF IsFinal, Closed

LEMMA SealStarts == StageInit => SealIInv
<1> SUFFICES ASSUME StageInit PROVE SealIInv
  OBVIOUS
<1>1. /\ slotDir = [s \in Slots |-> NoDir] /\ sealed = [stage \in Stages |-> NoSeal]
      /\ writing = Idle /\ opened = NoStage /\ phase = "down"
  BY DEF StageInit, LedgerInit
<1>2. NoDir.output = "none"
  BY DEF NoDir, Receipt
<1> QED
  BY <1>1, <1>2 DEF SealIInv, LastRecordIInv, AppendsToOpen, ClosedOnDisk, FinalStays,
     SealedIsOver, SealCoversCalls

\* A directory without a receipt has no output.
LEMMA OutputsStay ==
  ASSUME LedgerIInv, HandsOver, ReceiptIInv, SealIInv, [StageNext]_stageVars
  PROVE  (\A s \in Slots : slotDir[s].kind \notin Kinds => slotDir[s].output = "none")'
<1>1. OpenDir.output = "none" /\ TornDir.output = "none"
  BY DEF OpenDir, TornDir, Receipt
<1>2. slotDir \in [Slots -> Receipts]
  BY DEF ReceiptIInv
<1> QED BY <1>1, <1>2, StageEffects DEF SealIInv

\* A step that seals nothing keeps what is said of the sealed stages.
LEMMA NothingSealed ==
  ASSUME LedgerIInv, HandsOver, ReceiptIInv, SealIInv, [StageNext]_stageVars,
         UNCHANGED sealed, LastRecordIInv'
  PROVE  SealIInv'
<1>1. SealedIsOver'
  BY SealedStays DEF SealedIsOver
<1>2. SealCoversCalls'
  BY FiguresStay DEF SealCoversCalls
<1> QED BY <1>1, <1>2, OutputsStay DEF SealIInv

\* Steps that append nothing, of a process that is neither at its seal nor refused,
\* or that stays where it is.
LEMMA LastRecordCalm ==
  ASSUME LedgerIInv, LastRecordIInv,
         UNCHANGED <<disk, known, opened, writing>>,
         \/ UNCHANGED phase
         \/ phase \notin {"terminal", "again", "refused"} /\ phase' \notin {"terminal", "again"},
         phase \in {"terminal", "again"} => UNCHANGED <<reason, slotDir>>,
         Working' => Working,
         \/ piece' \in {piece, NoPiece} /\ UNCHANGED task
         \/ \E s \in Slots : Working /\ task[s] \in {"granted", "called"}
  PROVE  LastRecordIInv'
<1> USE DEF LastRecordIInv
<1>1. phase' \in {"terminal", "again"} => UNCHANGED <<phase, Verdict>>
  BY DEF Verdict
<1>2. phase = "terminal" => UNCHANGED <<phase, Verdict>>
  BY DEF Verdict
<1>3. AppendsToOpen'
  BY <1>1, <1>2 DEF AppendsToOpen, Closed
<1>4. ClosedOnDisk'
  BY <1>1 DEF ClosedOnDisk, Closed
<1>5. FinalStays'
  <2>1. SUFFICES ASSUME IsFinal(disk), opened # NoStage
                 PROVE  FinalStays'
    BY DEF FinalStays, IsFinal
  <2>2. /\ writing.step # "record"
        /\ phase \in {"terminal", "refused"} \/ (writing = Idle /\ IsFinal(known))
        /\ Working => piece = NoPiece /\ \A s \in Slots : task[s] = "fresh"
    BY <2>1 DEF FinalStays
  <2>3. Working' => piece' = NoPiece /\ \A s \in Slots : task'[s] = "fresh"
    BY <2>2
  <2>4. phase' \in {"terminal", "refused"} \/ (writing' = Idle /\ IsFinal(known)')
    BY <2>2 DEF IsFinal
  <2> QED BY <2>2, <2>3, <2>4 DEF FinalStays
<1> QED BY <1>3, <1>4, <1>5

LEMMA LastRecordOpens ==
  ASSUME LedgerIInv, ReceiptIInv, LastRecordIInv, NEW stage \in Stages, Start(stage)
  PROVE  LastRecordIInv'
<1>1. /\ phase = "down" /\ phase' \in {"loop", "abort"} /\ opened = NoStage
      /\ known' = disk /\ UNCHANGED <<disk, writing, task, piece>>
  BY DEF Start, Open
<1>2. writing = Idle /\ \A s \in Slots : task[s] = "fresh"
  BY <1>1 DEF LedgerIInv, DownIsBlank
<1>3. piece = NoPiece
  BY <1>1 DEF ReceiptIInv, PieceIsRecorded, Working
<1>4. writing.step = "none"
  BY <1>2 DEF Idle
<1> QED
  BY <1>1, <1>2, <1>3, <1>4 DEF LastRecordIInv, AppendsToOpen, ClosedOnDisk, FinalStays, IsFinal

\* A task appends to a stage that is open, so no final record is on disk.
LEMMA LastRecordBegins ==
  ASSUME LedgerIInv, LastRecordIInv, NEW s \in Slots,
         TaskSkips(s) \/ TaskReserves(s) \/ TaskAnswered(s)
  PROVE  LastRecordIInv'
<1> USE DEF LastRecordIInv
<1>1. /\ Working /\ opened # NoStage /\ writing = Idle
      /\ UNCHANGED <<disk, known, opened, phase, reason, slotDir>>
      /\ \/ /\ ~ Closed(known, opened)
            /\ \E account, cost :
                 writing' = Appending(Record(s, account, cost, NoVerdict), "record")
         \/ UNCHANGED writing /\ task[s] \in {"granted", "called"}
  <2>1. CASE TaskSkips(s) \/ TaskReserves(s)
    BY <2>1 DEF TaskSkips, TaskReserves, Queued, Skip, Reserve, Ready, Admits, Begin,
       BeginPiece, fileVars
  <2>2. CASE TaskAnswered(s)
    <3>1. PICK answer \in Answers(s) :
            /\ IF answer.settled THEN \E cost \in Costs : Settle(s, cost) ELSE Abandon(s)
            /\ BeginPiece(s, answer)
      BY <2>2 DEF TaskAnswered
    <3> QED BY <2>2, <3>1 DEF TaskAnswered, BeginPiece, fileVars, Settle, Abandon, Ready, Begin, memoryVars
  <2> QED BY <2>1, <2>2
<1>2. CASE UNCHANGED writing /\ task[s] \in {"granted", "called"}
  BY <1>1, <1>2, LastRecordCalm
<1>3. ASSUME ~ Closed(known, opened), NEW account, NEW cost,
             writing' = Appending(Record(s, account, cost, NoVerdict), "record")
      PROVE  LastRecordIInv'
  <2>1. /\ writing' # Idle /\ writing'.step = "record"
        /\ writing'.record.verdict = NoVerdict
    BY <1>3 DEF Appending, Record, Idle
  <2>2. phase \notin {"terminal", "again", "refused"}
    BY <1>1 DEF Working
  <2>3. ~ IsFinal(disk)
    BY <1>1, <1>3, <2>2, FinalIsClosed DEF FinalStays
  <2>4. AppendsToOpen'
    BY <1>1, <1>3, <2>1, <2>2 DEF AppendsToOpen, Closed
  <2>5. ClosedOnDisk' /\ FinalStays'
    BY <1>1, <1>3, <2>2, <2>3 DEF ClosedOnDisk, FinalStays, IsFinal, Closed
  <2> QED BY <2>4, <2>5
<1> QED BY <1>1, <1>2, <1>3

\* When no task runs, only the record of a verdict is appended.
LEMMA ClosingAppends ==
  ASSUME LedgerIInv, ReceiptIInv, LastRecordIInv, writing # Idle, piece = NoPiece \/ ~ Working
  PROVE  phase = "terminal"
<1>1. writing.record.slot = NoSlot
  BY DEF ReceiptIInv, PieceIsRecorded, NoPieceNoRecord
<1>2. Ending(writing.record)
  BY <1>1, RecordUnderWay, RootlessAssumption
     DEF Sound, Reserving, Settling, Skipping, RootlessAssumption
<1> QED BY <1>2 DEF Ending, LastRecordIInv, AppendsToOpen

LEMMA LastRecordWritten ==
  ASSUME LedgerIInv, ReceiptIInv, LastRecordIInv, AppendStep
  PROVE  LastRecordIInv'
<1> USE DEF LastRecordIInv
<1>1. /\ writing # Idle
      /\ UNCHANGED <<phase, reason, slotDir, piece, opened>>
  BY DEF AppendStep, WriteRecord, WriteHead, Idle, fileVars, brokerVars
<1>2. PICK r : r = writing.record
  OBVIOUS
<1>3. /\ r.stage = opened /\ opened # NoStage
      /\ ~ Closed(known, opened)
      /\ r.verdict = IF phase = "terminal" THEN Verdict ELSE NoVerdict
      /\ phase' = phase /\ Verdict' = Verdict
  BY <1>1, <1>2, RootlessAssumption, RecordUnderWay DEF Sound, AppendsToOpen, RootlessAssumption, Verdict
<1>4. CASE WriteRecord
  <2>1. /\ disk' = With(disk, r) /\ writing' = Appending(r, "head") /\ UNCHANGED known
    BY <1>2, <1>4 DEF WriteRecord
  <2>2. /\ disk'.last = [stage |-> opened, verdict |-> r.verdict]
        /\ writing' # Idle /\ writing'.record = r /\ writing'.step = "head"
    BY <1>3, <2>1 DEF With, Appending, Idle
  <2>3. AppendsToOpen'
    BY <1>1, <1>3, <2>1, <2>2 DEF AppendsToOpen, Closed
  <2>4. ClosedOnDisk'
    BY <1>1, <1>3, <2>1, <2>2 DEF ClosedOnDisk, Closed
  <2>5. FinalStays'
    <3>1. IsFinal(disk)' => phase = "terminal"
      BY <1>3, <2>2 DEF IsFinal
    <3> QED BY <1>3, <2>2, <3>1 DEF FinalStays, Working
  <2> QED BY <2>3, <2>4, <2>5
<1>5. CASE WriteHead
  <2>1. /\ writing.step = "head" /\ writing' = Idle
        /\ known' = With(known, r) /\ UNCHANGED disk
    BY <1>2, <1>5 DEF WriteHead
  <2>2. /\ known'.last = [stage |-> opened, verdict |-> r.verdict]
        /\ disk'.last = [stage |-> opened, verdict |-> r.verdict]
        /\ writing'.step = "none"
    BY <1>1, <1>2, <1>3, <2>1 DEF With, AppendsToOpen, Idle
  <2>3. AppendsToOpen'
    BY <2>1 DEF AppendsToOpen
  <2>4. ClosedOnDisk'
    <3>1. phase # "again"
      BY <1>1, ClosingAppends DEF Working
    <3> QED BY <1>1, <1>3, <2>2, <3>1 DEF ClosedOnDisk
  <2>5. FinalStays'
    <3>1. IsFinal(disk)' => phase = "terminal"
      BY <1>3, <2>2 DEF IsFinal
    <3> QED BY <1>3, <2>2, <3>1 DEF FinalStays, Working
  <2> QED BY <2>3, <2>4, <2>5
<1> QED BY <1>4, <1>5 DEF AppendStep

LEMMA LastRecordFails ==
  ASSUME LedgerIInv, LastRecordIInv, AppendFails
  PROVE  LastRecordIInv'
<1> USE DEF LastRecordIInv
<1>1. /\ writing # Idle /\ writing' = Idle
      /\ UNCHANGED <<disk, known, opened>>
  BY DEF AppendFails, WriteFails
<1>2. phase' = IF Working THEN "abort" ELSE "refused"
  BY DEF AppendFails, Raises
<1>3. writing'.step = "none"
  BY <1>1 DEF Idle
<1>4. IsFinal(disk) /\ opened # NoStage => ~ Working
  BY <1>1 DEF FinalStays, Working
<1>5. AppendsToOpen' /\ ClosedOnDisk'
  BY <1>1, <1>2 DEF AppendsToOpen, ClosedOnDisk, Closed
<1>6. FinalStays'
  BY <1>1, <1>2, <1>3, <1>4 DEF FinalStays, IsFinal, Working
<1> QED BY <1>5, <1>6

LEMMA LastRecordGone ==
  ASSUME ProcessGone
  PROVE  LastRecordIInv'
<1>1. writing' = Idle /\ opened' = NoStage /\ phase' = "down"
  BY DEF ProcessGone, Exit
<1> QED BY <1>1 DEF LastRecordIInv, AppendsToOpen, ClosedOnDisk, FinalStays

\* The verdict is appended to an open stage, or is the one the stage was closed with.
LEMMA LastRecordCloses ==
  ASSUME LedgerIInv, ReceiptIInv, LastRecordIInv, CloseLedger
  PROVE  LastRecordIInv'
<1> USE DEF LastRecordIInv
<1>1. /\ phase = "manifest" /\ UNCHANGED <<reason, slotDir, piece>>
      /\ opened' = opened
      /\ writing = Idle /\ writing.step = "none"
  <2>1. writing = Idle
    BY ClosingAppends DEF CloseLedger, Working
  <2> QED BY <2>1 DEF CloseLedger, fileVars, Terminate, Begin, ledgerVars, memoryVars, Idle
<1>2. Verdict' = Verdict
  BY <1>1 DEF Verdict
<1>3. CASE Terminate(Verdict) /\ phase' = "terminal"
  <2>1. /\ writing' = Appending(Record(NoSlot, "none", 0, Verdict), "record")
        /\ opened # NoStage /\ ~ Closed(known, opened)
        /\ UNCHANGED <<disk, known>>
    BY <1>3 DEF Terminate, Ready, Begin
  <2>2. writing' # Idle /\ writing'.step = "record" /\ writing'.record.verdict = Verdict
    BY <2>1 DEF Appending, Record, Idle
  <2>3. ~ IsFinal(disk)
    BY <1>1, <2>1, FinalIsClosed DEF FinalStays
  <2>4. AppendsToOpen'
    BY <1>1, <1>2, <1>3, <2>1, <2>2 DEF AppendsToOpen, Closed
  <2>5. ClosedOnDisk' /\ FinalStays'
    BY <1>1, <1>3, <2>1, <2>2, <2>3 DEF ClosedOnDisk, FinalStays, IsFinal, Closed
  <2> QED BY <2>4, <2>5
<1>4. CASE /\ UNCHANGED ledgerVars
           /\ \/ TerminalHolds /\ Closed(known, opened) /\ phase' = "again"
              \/ phase' = "refused"
  <2>1. UNCHANGED <<disk, known, opened, writing>>
    BY <1>4 DEF ledgerVars, memoryVars
  <2>2. CASE phase' = "refused"
    BY <1>1, <2>1, <2>2 DEF AppendsToOpen, ClosedOnDisk, FinalStays, IsFinal, Closed, Working
  <2>3. CASE TerminalHolds /\ Closed(known, opened) /\ phase' = "again"
    <3>1. opened # NoStage
      <4>1. known = Blank => ~ Closed(known, opened)
        BY DEF Blank, Closed
      <4> QED BY <2>3, <4>1 DEF LedgerIInv, DownIsBlank
    <3>2. known.last = [stage |-> opened, verdict |-> Verdict]
      BY <2>3 DEF TerminalHolds
    <3> QED
      BY <1>1, <1>2, <2>1, <2>3, <3>1, <3>2
         DEF AppendsToOpen, ClosedOnDisk, FinalStays, IsFinal, Closed, Working
  <2> QED BY <1>4, <2>2, <2>3
<1> QED BY <1>3, <1>4 DEF CloseLedger

\* A stage is sealed when its last record is a final one on disk, or when every
\* slot of it has a receipt.
LEMMA SealingIsOver ==
  ASSUME LedgerIInv, HandsOver, SealIInv, SealStage
  PROVE  /\ opened \in Stages
         /\ known.last = [stage |-> opened, verdict |-> Verdict]
         /\ disk.last = known.last
         /\ IsFinal(disk) \/ Complete(opened)
<1>1. /\ opened # NoStage /\ opened \in Stages
      /\ known.last = [stage |-> opened, verdict |-> Verdict]
  BY DEF SealStage, SealIInv, LastRecordIInv, ClosedOnDisk, LedgerIInv, RootlessTypeOK
<1>2. Verdict # NoVerdict
  BY VerdictIsRegistered, RootlessAssumption DEF RootlessAssumption
<1>3. Closed(known, opened)
  BY <1>1, <1>2 DEF Closed
<1>4. disk.last = known.last
  BY <1>1, <1>3 DEF SealIInv, LastRecordIInv, ClosedOnDisk
<1>5. ASSUME ~ IsFinal(disk) PROVE Complete(opened)
  <2>1. opened = "screening" /\ Verdict = Estimable
    BY <1>1, <1>2, <1>4, <1>5 DEF IsFinal
  <2>2. reason = NoVerdict
    BY <2>1, StageAssumption DEF HandsOver, Verdict, StageAssumption
  <2>3. \A s \in SlotsOf(opened) : slotDir[s].output # "none"
    BY <2>1, <2>2, StageAssumption DEF Verdict, StageAssumption
  <2> QED BY <2>3 DEF Complete, SealIInv, SlotsOf
<1> QED BY <1>1, <1>4, <1>5

\* The figures are those of the object, and cover what is on disk.
LEMMA FiguresCover ==
  ASSUME LedgerIInv, opened \in Stages, writing = Idle
  PROVE  /\ Figures.issued >= Cardinality(CalledIn(opened))
         /\ Figures.spent + Figures.retained
              >= disk.spent[opened]
                   + Reservation * Cardinality(CalledIn(opened) \ SettledOnDisk)
<1> DEFINE called == CalledIn(opened)
           open == called \ SettledOnDisk
<1>1. opened # NoStage /\ known \in Contents /\ disk \in Contents
  BY RootlessAssumption DEF RootlessAssumption, LedgerIInv, RootlessTypeOK
<1>2. /\ called \in SUBSET Slots /\ open \in SUBSET Slots /\ Late(opened) \in SUBSET Slots
      /\ \A s \in called : StageOf[s] = opened /\ calls[s] # 0
  BY DEF CalledIn, Called, SlotsOf, Late, LedgerIInv, RootlessTypeOK
<1>3. called \subseteq Issued(known, opened)
  BY <1>1, <1>2 DEF LedgerIInv, CalledIsIssued, Issued
<1>4. Cardinality(called) <= Cardinality(Issued(known, opened))
  BY <1>1, <1>2, <1>3, SlotSets, ContentsNumbers, FS_Subset
<1>5. open \cup Late(opened) \subseteq Held(known, opened) /\ open \cap Late(opened) = {}
  BY <1>1, <1>2 DEF LedgerIInv, CalledIsIssued, KnownIsOnDisk, SettledOnDisk, Late, Held
<1>6. Held(known, opened) \in SUBSET Slots
  BY <1>1, ContentsNumbers
<1>7. Reservation * Cardinality(open) + Reservation * Cardinality(Late(opened))
        <= Retained(known, opened)
  BY <1>2, <1>5, <1>6, SideBySide DEF Retained
<1>8. disk.spent[opened] <= known.spent[opened] + 0 + Reservation * Cardinality(Late(opened))
  BY <1>1, NothingUnderWay DEF LedgerIInv, SpentIsBounded
<1>9. /\ Reservation * Cardinality(open) \in Nat
      /\ Reservation * Cardinality(Late(opened)) \in Nat
  BY <1>2, SlotSets, TimesMonotone, RootlessAssumption DEF RootlessAssumption
<1>10. /\ disk.spent[opened] \in Nat /\ known.spent[opened] \in Nat
       /\ Retained(known, opened) \in Nat
       /\ Cardinality(called) \in Nat /\ Cardinality(Issued(known, opened)) \in Nat
  BY <1>1, <1>2, ContentsNumbers, SlotSets
<1>11. /\ Figures.issued = Cardinality(Issued(known, opened))
       /\ Figures.spent = known.spent[opened]
       /\ Figures.retained = Retained(known, opened)
  BY DEF Figures
<1>12. Cardinality(Issued(known, opened)) >= Cardinality(called)
  BY <1>4, <1>10
<1>13. known.spent[opened] + Retained(known, opened)
         >= disk.spent[opened] + Reservation * Cardinality(open)
  BY <1>7, <1>8, <1>9, <1>10
<1> QED BY <1>11, <1>12, <1>13

LEMMA SealingKeeps ==
  ASSUME LedgerIInv, HandsOver, ReceiptIInv, SealIInv, SealStage
  PROVE  SealIInv'
<1>1. /\ phase \in {"terminal", "again"} /\ writing = Idle
      /\ phase' \in {"refused", "exit", "final"}
      /\ phase' = "refused" \/ phase' \in {"exit", "final"}
      /\ UNCHANGED <<disk, known, opened, writing, calls, slotDir>>
  BY DEF SealStage, ledgerVars, memoryVars
<1>2. [StageNext]_stageVars
  BY DEF StageNext, BrokerStep
<1>3. /\ opened \in Stages /\ opened # NoStage
      /\ known.last = [stage |-> opened, verdict |-> Verdict]
      /\ disk.last = known.last
      /\ IsFinal(disk) \/ Complete(opened)
  BY SealingIsOver, RootlessAssumption DEF RootlessAssumption
<1>4. LastRecordIInv'
  <2>1. AppendsToOpen' /\ ClosedOnDisk'
    BY <1>1 DEF SealIInv, LastRecordIInv, AppendsToOpen, ClosedOnDisk, Closed
  <2>2. writing'.step = "none"
    BY <1>1 DEF Idle
  <2>3. FinalStays'
    BY <1>1, <1>3, <2>2 DEF FinalStays, IsFinal, Working
  <2> QED BY <2>1, <2>3 DEF LastRecordIInv
<1>5. CASE UNCHANGED sealed
  BY <1>2, <1>4, <1>5, NothingSealed
<1>6. CASE sealed' = [sealed EXCEPT ![opened] = Figures]
  <2>1. /\ DOMAIN sealed' = Stages /\ sealed'[opened] = Figures
        /\ \A stage \in Stages : stage # opened => sealed'[stage] = sealed[stage]
    BY <1>3, <1>6 DEF SealIInv
  <2>2. SealedIsOver'
    <3>1. (IsFinal(disk) \/ Complete(opened))'
      BY <1>1, <1>3 DEF IsFinal, Complete
    <3>2. ASSUME NEW stage \in Stages, stage # opened, sealed[stage] # NoSeal
          PROVE  (IsFinal(disk) \/ Complete(stage))'
      BY <1>2, <3>2, SealedStays
    <3> QED BY <1>1, <2>1, <3>1, <3>2 DEF SealedIsOver
  <2>3. SealCoversCalls'
    <3>1. /\ Figures.issued >= Cardinality(CalledIn(opened))
          /\ Figures.spent + Figures.retained
               >= disk.spent[opened]
                    + Reservation * Cardinality(CalledIn(opened) \ SettledOnDisk)
      BY <1>1, <1>3, FiguresCover
    <3>2. \A stage \in Stages : CalledIn(stage)' = CalledIn(stage)
      BY <1>1 DEF CalledIn, Called
    <3>3. SettledOnDisk' = SettledOnDisk
      BY <1>1 DEF SettledOnDisk
    <3>4. ASSUME NEW stage \in Stages, stage # opened, sealed[stage] # NoSeal
          PROVE  /\ sealed'[stage].issued >= Cardinality(CalledIn(stage)')
                 /\ sealed'[stage].spent + sealed'[stage].retained
                      >= disk'.spent[stage]
                           + Reservation * Cardinality(CalledIn(stage)' \ SettledOnDisk')
      BY <1>1, <2>1, <3>2, <3>3, <3>4 DEF SealIInv, SealCoversCalls
    <3>5. ASSUME NEW stage \in Stages, stage = opened
          PROVE  /\ sealed'[stage].issued >= Cardinality(CalledIn(stage)')
                 /\ sealed'[stage].spent + sealed'[stage].retained
                      >= disk'.spent[stage]
                           + Reservation * Cardinality(CalledIn(stage)' \ SettledOnDisk')
      BY <1>1, <2>1, <3>1, <3>2, <3>3, <3>5
    <3>6. ASSUME NEW stage \in Stages, sealed'[stage] # NoSeal
          PROVE  /\ sealed'[stage].issued >= Cardinality(CalledIn(stage)')
                 /\ sealed'[stage].spent + sealed'[stage].retained
                      >= disk'.spent[stage]
                           + Reservation * Cardinality(CalledIn(stage)' \ SettledOnDisk')
      <4>1. CASE stage = opened
        BY <3>5, <4>1
      <4>2. CASE stage # opened
        BY <2>1, <3>4, <3>6, <4>2
      <4> QED BY <4>1, <4>2
    <3>7. NoSeal' = NoSeal
      BY DEF NoSeal
    <3> QED BY <3>6, <3>7 DEF SealCoversCalls
  <2> QED BY <1>2, <1>4, <2>1, <2>2, <2>3, OutputsStay DEF SealIInv
<1> QED BY <1>5, <1>6 DEF SealStage

\* Only SealStage seals.
LEMMA SealedElsewhere ==
  ASSUME [StageNext]_stageVars, ~ SealStage
  PROVE  UNCHANGED sealed
<1>1. CASE \E s \in Slots : TaskStep(s) \/ TaskBreaks(s)
  BY <1>1 DEF TaskStep, TaskReplays, TaskSkips, TaskReserves, TaskAnswered, LedgerRefuses,
     SettlementRefused, TaskCancelled, TaskBreaks, Raises, BeginPiece, fileVars
<1>2. CASE PieceStep \/ AppendStep
  BY <1>2 DEF PieceStep, MakeDirectory, TaskCalls, TearReceipt, WriteReceipt, AppendStep, fileVars
<1>3. CASE \/ ReadDispatch \/ Consume \/ ChannelLost \/ EnterClose
           \/ CloseReceipts \/ CloseLedger \/ SealFinal \/ BrokerEnds
  BY <1>3 DEF ReadDispatch, Consume, ChannelLost, EnterClose, CloseReceipts, CloseLedger,
     SealFinal, BrokerEnds, ProcessGone, fileVars
<1>4. CASE WorkerStep \/ WorkerDies \/ BrokerDies \/ StartDies \/ AppendFails
  BY <1>4 DEF WorkerStep, WorkerDispatches, WorkerReads, WorkerEnds, WorkerDies, BrokerDies,
     StartDies, AppendFails, Raises, ProcessGone, fileVars
<1>5. CASE (\E stage \in Stages : Start(stage)) \/ UNCHANGED stageVars
  BY <1>5 DEF Start, stageVars, fileVars
<1> QED BY <1>1, <1>2, <1>3, <1>4, <1>5 DEF StageNext, BrokerStep, FaultStep

LEMMA LastRecordSteps ==
  ASSUME LedgerIInv, HandsOver, ReceiptIInv, SealIInv, [StageNext]_stageVars, ~ SealStage
  PROVE  LastRecordIInv'
<1> USE DEF SealIInv
<1>1. CASE UNCHANGED stageVars \/ WorkerStep \/ WorkerDies
  <2>1. UNCHANGED <<ledgerVars, brokerVars, slotDir>>
    BY <1>1 DEF stageVars, fileVars, WorkerStep, WorkerDispatches, WorkerReads, WorkerEnds,
       WorkerDies
  <2> QED BY <2>1, LastRecordCalm DEF ledgerVars, memoryVars, brokerVars, Working
<1>2. CASE \/ ReadDispatch \/ Consume \/ ChannelLost \/ EnterClose \/ SealFinal
           \/ CloseReceipts \/ StartDies
           \/ \E s \in Slots : TaskReplays(s)
  <2>1. /\ UNCHANGED <<disk, known, opened, writing, task, slotDir, piece>>
        /\ \/ UNCHANGED <<phase, reason>>
           \/ /\ phase \notin {"terminal", "again", "refused"}
              /\ phase' \notin {"terminal", "again"}
        /\ Working' => Working
    BY <1>2 DEF ReadDispatch, Consume, ChannelLost, EnterClose, SealFinal, CloseReceipts,
       StartDies, OpenTorn, Reread, TaskReplays, Deliver, Queued, ledgerVars, memoryVars,
       fileVars, brokerVars, Working
  <2> QED BY <2>1, LastRecordCalm
<1>3. CASE \E s \in Slots : LedgerRefuses(s) \/ SettlementRefused(s) \/ TaskCancelled(s)
                            \/ TaskBreaks(s)
  <2>1. PICK s \in Slots : \/ LedgerRefuses(s) \/ SettlementRefused(s) \/ TaskCancelled(s)
                           \/ TaskBreaks(s)
    BY <1>3
  <2>2. /\ Abandon(s) \/ UNCHANGED ledgerVars
        /\ phase' = "abort" /\ piece' = NoPiece /\ UNCHANGED <<slotDir, reason>>
    BY <2>1 DEF LedgerRefuses, SettlementRefused, TaskCancelled, TaskBreaks, Raises, fileVars
  <2>3. Working
    <3>1. ~ Queued(s) /\ TaskBreaks(s) => piece.slot = s
      BY DEF TaskBreaks
    <3>2. NoPiece.slot # s
      BY RootlessAssumption DEF NoPiece, RootlessAssumption
    <3> QED
      BY <2>1, <3>1, <3>2 DEF LedgerRefuses, SettlementRefused, TaskCancelled, Queued,
         Working, ReceiptIInv, PieceIsRecorded
  <2>4. UNCHANGED <<disk, known, opened, writing>>
        /\ (UNCHANGED task \/ task[s] \in {"granted", "called"})
    BY <2>2 DEF Abandon, ledgerVars, memoryVars
  <2> QED BY <2>2, <2>3, <2>4, LastRecordCalm DEF Working
<1>4. CASE \E s \in Slots : TaskSkips(s) \/ TaskReserves(s) \/ TaskAnswered(s)
  BY <1>4, LastRecordBegins
<1>5. CASE MakeDirectory \/ TearReceipt \/ WriteReceipt
  <2>1. piece # NoPiece
    BY <1>5, ReceiptForms DEF MakeDirectory, TearReceipt, WriteReceipt, NoPiece
  <2>2. Working
    BY <2>1 DEF ReceiptIInv, PieceIsRecorded
  <2>3. /\ UNCHANGED <<disk, known, opened, writing, task, phase>>
        /\ piece' \in {piece, NoPiece}
    BY <1>5 DEF MakeDirectory, TearReceipt, WriteReceipt, Deliver, ledgerVars, memoryVars,
       brokerVars
  <2> QED BY <2>2, <2>3, LastRecordCalm DEF Working
<1>6. CASE TaskCalls
  <2>1. PICK s \in Slots : s = piece.slot
    BY <1>6, PieceIsOfSlot DEF TaskCalls
  <2>2. /\ task[s] = "granted" /\ piece' = NoPiece
        /\ UNCHANGED <<disk, known, opened, writing, phase, reason, slotDir>>
    BY <1>6, <2>1 DEF TaskCalls, Exchange, fileVars, memoryVars
  <2>3. Working
    BY <2>2 DEF ReceiptIInv, GrantedIsRunning, PieceIsRecorded
  <2> QED BY <2>2, <2>3, LastRecordCalm DEF Working
<1>7. CASE AppendStep \/ AppendFails \/ CloseLedger
  BY <1>7, LastRecordWritten, LastRecordFails, LastRecordCloses
<1>8. CASE BrokerEnds \/ BrokerDies
  BY <1>8, LastRecordGone DEF BrokerEnds, BrokerDies
<1>9. CASE \E stage \in Stages : Start(stage)
  BY <1>9, LastRecordOpens
<1> QED
  BY <1>1, <1>2, <1>3, <1>4, <1>5, <1>6, <1>7, <1>8, <1>9
     DEF StageNext, BrokerStep, TaskStep, PieceStep, FaultStep

LEMMA StageInvariant ==
  StageSpec => [](LedgerIInv /\ HandsOver /\ ReceiptIInv /\ SealIInv)
<1>1. StageSpec => []LedgerIInv
  BY StageImplementsLedger, LedgerInvariant, PTL
<1>2. StageInit => HandsOver /\ ReceiptIInv /\ SealIInv
  BY StageStarts, ReceiptStarts, SealStarts
<1>3. LedgerIInv /\ HandsOver /\ ReceiptIInv /\ SealIInv /\ [StageNext]_stageVars
        => HandsOver' /\ ReceiptIInv' /\ SealIInv'
  BY HandsOverSteps, ReceiptSteps, SealingKeeps, SealedElsewhere, LastRecordSteps,
     NothingSealed
<1> QED BY <1>1, <1>2, <1>3, PTL DEF StageSpec

\* Nothing is called, recorded or received for a stage once terminals/<stage>.json
\* exists, whatever is started or dies after it: the record that ended the stage is
\* the last one and a broker that finds it refuses every task, unless the stage is
\* an estimable screening, where every slot has its receipt (close_stage,
\* _closed_for_stage).
THEOREM StageQuietAfterSeal == StageSpec => QuietAfterSeal
<1>1. LedgerIInv /\ HandsOver /\ ReceiptIInv /\ SealIInv /\ [StageNext]_stageVars
        => \A s \in Slots :
             sealed[StageOf[s]] # NoSeal =>
               /\ calls'[s] = calls[s] /\ disk'.account[s] = disk.account[s]
               /\ slotDir'[s] = slotDir[s]
  BY SealedStays, RootlessAssumption DEF SlotsOf, RootlessAssumption
<1>2. LedgerIInv /\ HandsOver /\ ReceiptIInv /\ SealIInv /\ [StageNext]_stageVars
        => [\A s \in Slots :
              sealed[StageOf[s]] # NoSeal =>
                /\ calls'[s] = calls[s] /\ disk'.account[s] = disk.account[s]
                /\ slotDir'[s] = slotDir[s]]_stageVars
  BY <1>1
<1> QED BY <1>2, StageInvariant, PTL DEF StageSpec, QuietAfterSeal

\* The figures of terminals/<stage>.json cover every call made for the stage, over
\* all the processes it took: those of an object that lost a settlement retain the
\* whole reservation (close_stage, _active_unsettled_nanousd).
THEOREM StageSealCoversCalls == StageSpec => []SealCoversCalls
<1>1. SealIInv => SealCoversCalls
  BY DEF SealIInv
<1> QED BY <1>1, StageInvariant, PTL

-------------------------------------------------------------------------------
(* A first run that meets no fault and no cap.                                 *)

\* No process was started yet and nothing has gone wrong.
Untouched ==
  /\ disk = Blank /\ lost = Blank /\ damaged = {} /\ opened = NoStage
  /\ slotDir = [s \in Slots |-> NoDir]
  /\ manifest = [stage \in Stages |-> NoManifest]
  /\ sealed = [stage \in Stages |-> NoSeal]
  /\ phase = "down" /\ reason = NoVerdict
  /\ job = [s \in Slots |-> "none"] /\ piece = NoPiece
  /\ results = <<>> /\ heard = {} /\ existing = {}

\* The first process runs or closes, and no task of it has raised.
FirstRun ==
  /\ starts = 1 /\ faults = 0
  /\ phase \notin {"down", "abort"}
  /\ phase \in {"loop", "leave"} \/ reason # Unclean

NothingFound == damaged = {} /\ lost = Blank /\ existing = {} /\ opened \in Stages

\* A slot waits until its dispatch is read, is not touched until its task has a
\* piece, and has a receipt when the task is done.
SlotsInOrder ==
  /\ waiting = {s \in SlotsOf(opened) : job[s] = "none"}
  /\ job \in [Slots -> {"none", "queued", "running", "done"}]
  /\ \A s \in Slots :
       /\ job[s] \in {"none", "queued"} /\ piece.slot # s =>
            slotDir[s] = NoDir /\ disk.account[s] = "none"
       /\ job[s] = "done" => slotDir[s].kind \in Kinds
       /\ job[s] # "none" /\ Predecessor[s] # NoSlot => Predecessor[s] \in heard
       /\ slotDir[s].failed => reason # NoVerdict
  /\ piece # NoPiece => job[piece.slot] \in {"queued", "running"}
  /\ heard \subseteq {s \in Slots : job[s] = "done"}
  /\ \A i \in DOMAIN results : job[results[i]] = "done"

\* What is settled when the loop is left, when its tasks have ended, and as the
\* stage is closed.
ClosesInOrder ==
  /\ phase \in {"loop", "leave", "close", "manifest", "terminal", "refused", "final", "exit"}
  /\ phase # "loop" /\ reason = NoVerdict => \A s \in SlotsOf(opened) : job[s] = "done"
  /\ phase \notin {"loop", "leave"} =>
       piece = NoPiece /\ \A s \in Slots : job[s] \in {"none", "done"}
  /\ phase \in {"loop", "leave", "close"} => manifest[opened] = NoManifest
  /\ phase \in {"loop", "leave", "close", "manifest"} => known.last.verdict = NoVerdict
  /\ phase \in {"loop", "leave", "close", "manifest", "terminal"} => sealed[opened] = NoSeal
  /\ phase = "refused" => \E s \in Receipted(opened) : ~ ReferencesHold(s)

CleanIInv ==
  /\ starts \in Nat /\ faults \in Nat
  /\ phase = "down" => opened = NoStage
  /\ starts = 0 /\ faults = 0 => Untouched
  /\ FirstRun => NothingFound /\ SlotsInOrder /\ ClosesInOrder

LEMMA CleanStarts == StageInit => CleanIInv
<1> SUFFICES ASSUME StageInit PROVE CleanIInv
  OBVIOUS
<1>1. Untouched /\ starts = 0 /\ faults = 0
  BY DEF StageInit, LedgerInit, Untouched
<1> QED BY <1>1 DEF CleanIInv, FirstRun, Untouched

\* A fault is counted.
LEMMA FaultCounts ==
  ASSUME Fault, faults \in Nat
  PROVE  faults' # 0
BY DEF Fault

\* The steps of a process that is down.
LEMMA DownSteps ==
  ASSUME LedgerIInv, ReceiptIInv, [StageNext]_stageVars, phase = "down", opened = NoStage
  PROVE  \/ \E stage \in Stages : Start(stage)
         \/ Fault
         \/ UNCHANGED <<ledgerVars, fileVars, brokerVars, starts, faults>>
<1>1. piece = NoPiece /\ ~ Working
  BY DEF ReceiptIInv, PieceIsRecorded, Working
<1>2. writing = Idle /\ writing.step = "none"
  BY DEF LedgerIInv, DownIsBlank, Idle
<1>3. NoPiece.receipt # Blocked /\ NoPiece.receipt # OpenDir /\ NoPiece.receipt.kind \notin Kinds
  BY ReceiptForms DEF NoPiece, NoDir, Blocked, OpenDir, Receipt
<1>4. ~ PieceStep /\ ~ AppendStep /\ ~ AppendFails
  BY <1>1, <1>2, <1>3 DEF PieceStep, MakeDirectory, TaskCalls, TearReceipt, WriteReceipt,
     AppendStep, WriteRecord, WriteHead, AppendFails, WriteFails
<1>5. \A s \in Slots : ~ TaskStep(s)
  BY <1>1 DEF TaskStep, TaskReplays, TaskSkips, TaskReserves, TaskAnswered, LedgerRefuses,
     SettlementRefused, TaskCancelled, Queued, Working
<1>6. ~ BrokerStep
  BY <1>4, <1>5 DEF BrokerStep, ReadDispatch, Consume, ChannelLost, EnterClose, CloseReceipts,
     CloseLedger, SealStage, SealFinal, BrokerEnds
<1>7. FaultStep => Fault
  BY <1>4 DEF FaultStep, WorkerDies, BrokerDies, StartDies, TaskBreaks
<1>8. WorkerStep \/ UNCHANGED stageVars
        => UNCHANGED <<ledgerVars, fileVars, brokerVars, starts, faults>>
  BY DEF WorkerStep, WorkerDispatches, WorkerReads, WorkerEnds, stageVars, boundVars
<1> QED BY <1>6, <1>7, <1>8 DEF StageNext

\* The steps of a first run that is met by no fault, and none raises.
LEMMA FirstRunSteps ==
  ASSUME LedgerIInv, HandsOver, ReceiptIInv, [StageNext]_stageVars, faults \in Nat,
         FirstRun, NothingFound, ClosesInOrder, FirstRun'
  PROVE  /\ \/ UNCHANGED <<ledgerVars, fileVars, brokerVars>>
            \/ ReadDispatch \/ Consume
            \/ \E s \in Slots : TaskSkips(s) \/ TaskReserves(s) \/ TaskAnswered(s)
            \/ PieceStep \/ AppendStep
            \/ EnterClose /\ phase = "leave"
            \/ CloseReceipts \/ CloseLedger \/ SealStage \/ SealFinal
         /\ NothingFound' /\ opened' = opened
<1> USE DEF FirstRun
<1>1. ~ Fault
  BY FaultCounts
<1>2. ~ WorkerDies /\ ~ BrokerDies /\ ~ StartDies /\ \A s \in Slots : ~ TaskBreaks(s)
  BY <1>1 DEF WorkerDies, BrokerDies, StartDies, TaskBreaks
<1>3. ~ AppendFails
  BY <1>1 DEF AppendFails, NothingFound
<1>4. ~ BrokerEnds /\ ~ ChannelLost /\ ~ \E stage \in Stages : Start(stage)
  BY DEF BrokerEnds, ProcessGone, ChannelLost, Start
<1>5. \A s \in Slots : ~ TaskReplays(s) /\ ~ LedgerRefuses(s) /\ ~ SettlementRefused(s)
                       /\ ~ TaskCancelled(s)
  BY DEF TaskReplays, NothingFound, LedgerRefuses, SettlementRefused, TaskCancelled, Raises
<1>6. EnterClose => phase = "leave"
  BY DEF EnterClose
<1>7. WorkerStep \/ UNCHANGED stageVars => UNCHANGED <<ledgerVars, fileVars, brokerVars>>
  BY DEF WorkerStep, WorkerDispatches, WorkerReads, WorkerEnds, stageVars
<1>8. \/ UNCHANGED <<ledgerVars, fileVars, brokerVars>>
      \/ ReadDispatch \/ Consume
      \/ \E s \in Slots : TaskSkips(s) \/ TaskReserves(s) \/ TaskAnswered(s)
      \/ PieceStep \/ AppendStep
      \/ EnterClose /\ phase = "leave"
      \/ CloseReceipts \/ CloseLedger \/ SealStage \/ SealFinal
  BY <1>2, <1>3, <1>4, <1>5, <1>6, <1>7 DEF StageNext, BrokerStep, FaultStep, TaskStep
<1> SUFFICES NothingFound' /\ opened' = opened
  BY <1>8
<1>9. CASE AppendStep
  BY <1>9 DEF AppendStep, WriteRecord, WriteHead, NothingFound, brokerVars
<1>10. CASE PieceStep
  BY <1>10 DEF PieceStep, MakeDirectory, TaskCalls, TearReceipt, WriteReceipt, Deliver,
     Exchange, NothingFound, ledgerVars, memoryVars, brokerVars
<1>11. CASE \E s \in Slots : TaskSkips(s) \/ TaskReserves(s) \/ TaskAnswered(s)
  <2>1. PICK s \in Slots : TaskSkips(s) \/ TaskReserves(s) \/ TaskAnswered(s)
    BY <1>11
  <2>2. CASE TaskSkips(s) \/ TaskReserves(s)
    BY <2>2 DEF TaskSkips, TaskReserves, Skip, Reserve, Begin, BeginPiece, NothingFound
  <2>3. CASE TaskAnswered(s)
    <3>1. PICK answer \in Answers(s) :
            /\ IF answer.settled THEN \E cost \in Costs : Settle(s, cost) ELSE Abandon(s)
            /\ BeginPiece(s, answer)
      BY <2>3 DEF TaskAnswered
    <3> QED BY <2>3, <3>1 DEF BeginPiece, Settle, Abandon, Begin, memoryVars, NothingFound
  <2> QED BY <2>1, <2>2, <2>3
<1>12. CASE \/ UNCHANGED <<ledgerVars, fileVars, brokerVars>>
            \/ ReadDispatch \/ Consume \/ EnterClose \/ SealStage \/ SealFinal
  BY <1>12 DEF ReadDispatch, Consume, EnterClose, SealStage, SealFinal, NothingFound,
     ledgerVars, memoryVars, brokerVars
<1>13. CASE CloseReceipts
  BY <1>13 DEF CloseReceipts, Reread, NothingFound, ledgerVars, memoryVars
<1>14. CASE CloseLedger
  <2>1. UNCHANGED ledgerVars \/ Terminate(Verdict)
    BY <1>14 DEF CloseLedger
  <2>2. UNCHANGED <<damaged, lost, opened>>
    BY <2>1 DEF Terminate, Begin, ledgerVars, memoryVars
  <2> QED BY <1>14, <2>2 DEF CloseLedger, NothingFound
<1> QED BY <1>8, <1>9, <1>10, <1>11, <1>12, <1>13, <1>14

\* A slot that no piece is about keeps its directory and its account.
LEMMA OthersKept ==
  ASSUME LedgerIInv, HandsOver, ReceiptIInv, [StageNext]_stageVars,
         NEW s \in Slots, piece.slot # s
  PROVE  slotDir'[s] = slotDir[s] /\ disk'.account[s] = disk.account[s]
<1>1. writing.step = "record" => writing.record.slot # s
  <2>1. writing.step = "record" => writing # Idle
    BY DEF Idle
  <2> QED BY <2>1, RootlessAssumption DEF ReceiptIInv, PieceIsRecorded, NoPieceNoRecord,
             RootlessAssumption
<1>2. disk'.account[s] = disk.account[s]
  BY <1>1, StageEffects DEF With
<1>3. slotDir'[s] = slotDir[s]
  BY StageEffects DEF ReceiptIInv
<1> QED BY <1>2, <1>3

LEMMA CleanOpens ==
  ASSUME Untouched, NEW stage \in Stages, Start(stage)
  PROVE  NothingFound' /\ SlotsInOrder' /\ ClosesInOrder'
<1>1. /\ opened' = stage /\ known' = Blank /\ disk' = Blank /\ lost' = Blank /\ damaged' = {}
      /\ slotDir' = [s \in Slots |-> NoDir]
      /\ manifest' = [x \in Stages |-> NoManifest]
      /\ sealed' = [x \in Stages |-> NoSeal]
      /\ job' = [s \in Slots |-> "none"] /\ piece' = NoPiece
      /\ results' = <<>> /\ heard' = {} /\ waiting' = SlotsOf(stage)
      /\ existing' = Receipted(stage)
      /\ phase' = IF Replayable(stage) THEN "loop" ELSE "abort"
  BY DEF Start, Open, Untouched, fileVars
<1>2. ~ NoDir.failed /\ NoDir.kind = "none"
  BY DEF NoDir, Receipt
<1>3. Receipted(stage) = {}
  BY <1>2 DEF Receipted, HasReceipt, Untouched, SlotsOf
<1>4. existing' = {} /\ phase' = "loop"
  BY <1>1, <1>3 DEF Replayable
<1>5. NothingFound'
  BY <1>1, <1>4 DEF NothingFound
<1>6. SlotsInOrder'
  BY <1>1, <1>2 DEF SlotsInOrder, SlotsOf, Blank
<1>7. ClosesInOrder'
  BY <1>1, <1>4 DEF ClosesInOrder, Blank
<1> QED BY <1>5, <1>6, <1>7

\* A dispatch is read: its slot has waited, untouched, and its predecessor is heard.
LEMMA CleanReads ==
  ASSUME LedgerIInv, HandsOver, ReceiptIInv, FirstRun, NothingFound, SlotsInOrder,
         ClosesInOrder, ReadDispatch
  PROVE  SlotsInOrder' /\ ClosesInOrder'
<1>1. PICK s \in Slots :
        /\ phase = "loop" /\ piece = NoPiece
        /\ s \in waiting /\ Predecessor[s] \in heard \cup {NoSlot}
        /\ waiting' = waiting \ {s} /\ job' = [job EXCEPT ![s] = "queued"]
  BY DEF ReadDispatch, Acceptable, SlotsInOrder, SlotsOf
<1>2. UNCHANGED <<disk, known, opened, fileVars, phase, reason, piece, results, heard>>
  BY DEF ReadDispatch, ledgerVars, memoryVars
<1>3. job[s] = "none" /\ \A t \in Slots : t # s => job'[t] = job[t]
  BY <1>1 DEF SlotsInOrder
<1>4. job'[s] = "queued" /\ job' \in [Slots -> {"none", "queued", "running", "done"}]
  BY <1>1 DEF SlotsInOrder
<1>5. waiting' = {t \in SlotsOf(opened') : job'[t] = "none"}
  BY <1>1, <1>2, <1>3, <1>4 DEF SlotsInOrder, SlotsOf
<1>6. /\ \A t \in Slots :
           /\ job'[t] \in {"none", "queued"} /\ piece'.slot # t =>
                slotDir'[t] = NoDir /\ disk'.account[t] = "none"
           /\ job'[t] = "done" => slotDir'[t].kind \in Kinds
           /\ job'[t] # "none" /\ Predecessor[t] # NoSlot => Predecessor[t] \in heard'
           /\ slotDir'[t].failed => reason' # NoVerdict
      /\ piece' = NoPiece
      /\ heard' \subseteq {t \in Slots : job'[t] = "done"}
  BY <1>1, <1>2, <1>3, <1>4, RootlessAssumption
     DEF SlotsInOrder, fileVars, NoPiece, RootlessAssumption
<1>7. \A i \in DOMAIN results' : job'[results'[i]] = "done"
  BY <1>2, <1>3, <1>4 DEF SlotsInOrder, HandsOver
<1>8. SlotsInOrder'
  BY <1>4, <1>5, <1>6, <1>7 DEF SlotsInOrder
<1>9. ClosesInOrder'
  BY <1>1, <1>2 DEF ClosesInOrder, fileVars
<1> QED BY <1>8, <1>9

\* A result is read; the loop is left over a failure, or when every slot is heard.
LEMMA CleanConsumes ==
  ASSUME LedgerIInv, HandsOver, ReceiptIInv, FirstRun, NothingFound, SlotsInOrder,
         ClosesInOrder, Consume
  PROVE  SlotsInOrder' /\ ClosesInOrder'
<1>1. PICK s \in Slots :
        /\ s = results[1] /\ s = Head(results) /\ 1 \in DOMAIN results
        /\ phase = "loop" /\ piece = NoPiece
        /\ heard' = heard \cup {s} /\ results' = Tail(results)
        /\ reason' \in {s, reason}
        /\ phase' = IF slotDir[s].failed \/ (waiting = {} /\ InFlight = {s})
                    THEN "leave" ELSE "loop"
  BY DEF Consume, HandsOver
<1>2. UNCHANGED <<disk, known, opened, fileVars, waiting, job, piece>>
  BY DEF Consume, ledgerVars, memoryVars
<1>3. job[s] = "done"
  BY <1>1 DEF SlotsInOrder
<1>4. s # NoVerdict
  BY RootlessAssumption, StageAssumption DEF RootlessAssumption, StageAssumption
<1>5. \A i \in DOMAIN results' : job[results'[i]] = "done"
  <2>1. \A i \in DOMAIN results' : i + 1 \in DOMAIN results /\ results'[i] = results[i + 1]
    BY <1>1 DEF HandsOver
  <2> QED BY <2>1 DEF SlotsInOrder
<1>6. SlotsInOrder'
  <2>1. UNCHANGED <<disk, opened, slotDir, waiting, job, piece>>
    BY <1>2 DEF fileVars
  <2> QED BY <1>1, <1>3, <1>4, <1>5, <2>1 DEF SlotsInOrder
<1>7. phase' = "leave" /\ reason' = NoVerdict => \A t \in SlotsOf(opened) : job[t] = "done"
  <2>1. SUFFICES ASSUME phase' = "leave", reason' = NoVerdict, NEW t \in SlotsOf(opened)
                 PROVE  job[t] = "done"
    OBVIOUS
  <2>2. reason = NoVerdict /\ ~ slotDir[s].failed
    BY <1>1, <1>4, <2>1 DEF SlotsInOrder
  <2>3. waiting = {} /\ InFlight = {s}
    BY <1>1, <2>1, <2>2
  <2>4. t \in Slots /\ job[t] # "none"
    BY <2>3 DEF SlotsInOrder, SlotsOf
  <2>5. t \in heard \/ t = s
    BY <2>3, <2>4 DEF InFlight
  <2> QED BY <1>3, <2>5 DEF SlotsInOrder
<1>8. ClosesInOrder'
  BY <1>1, <1>2, <1>7 DEF ClosesInOrder, fileVars
<1> QED BY <1>6, <1>8

\* A task begins a piece: its slot is the one that is touched now.
LEMMA CleanBegins ==
  ASSUME LedgerIInv, HandsOver, ReceiptIInv, FirstRun, SlotsInOrder, ClosesInOrder,
         NEW s \in Slots, TaskSkips(s) \/ TaskReserves(s) \/ TaskAnswered(s)
  PROVE  SlotsInOrder' /\ ClosesInOrder'
<1>1. /\ Working /\ piece = NoPiece /\ job[s] \in {"queued", "running"}
      /\ piece'.slot = s
      /\ UNCHANGED <<fileVars, phase, reason, waiting, job, results, heard>>
      /\ UNCHANGED <<disk, known, opened>>
  <2>1. CASE TaskSkips(s) \/ TaskReserves(s)
    BY <2>1 DEF TaskSkips, TaskReserves, Queued, Skip, Reserve, Begin, BeginPiece
  <2>2. CASE TaskAnswered(s)
    <3>1. PICK answer \in Answers(s) :
            /\ IF answer.settled THEN \E cost \in Costs : Settle(s, cost) ELSE Abandon(s)
            /\ BeginPiece(s, answer)
      BY <2>2 DEF TaskAnswered
    <3>2. UNCHANGED <<disk, known, opened>>
      BY <3>1 DEF Settle, Abandon, Begin, memoryVars
    <3> QED BY <2>2, <3>1, <3>2 DEF TaskAnswered, BeginPiece
  <2> QED BY <2>1, <2>2
<1>2. \A t \in Slots : piece.slot # t
  BY <1>1, RootlessAssumption DEF NoPiece, RootlessAssumption
<1>3. SlotsInOrder'
  BY <1>1, <1>2 DEF SlotsInOrder, fileVars
<1>4. phase \in {"loop", "leave"}
  BY <1>1 DEF FirstRun, Working
<1>5. ClosesInOrder'
  BY <1>1, <1>4 DEF ClosesInOrder, fileVars
<1> QED BY <1>3, <1>5

\* A piece ends with a call, or with a receipt.
LEMMA CleanPieces ==
  ASSUME LedgerIInv, HandsOver, ReceiptIInv, [StageNext]_stageVars, FirstRun, SlotsInOrder,
         ClosesInOrder, PieceStep
  PROVE  SlotsInOrder' /\ ClosesInOrder'
<1>1. /\ piece # NoPiece /\ UNCHANGED <<phase, waiting, heard, manifest, sealed>>
  <2>1. NoPiece.receipt # Blocked /\ NoPiece.receipt # OpenDir
        /\ NoPiece.receipt.kind \notin Kinds
    BY ReceiptForms DEF NoPiece, NoDir, Blocked, OpenDir, Receipt
  <2> QED
    BY <2>1 DEF PieceStep, MakeDirectory, TaskCalls, TearReceipt, WriteReceipt, Deliver,
       fileVars, brokerVars
<1>2. PICK s \in Slots : s = piece.slot
  BY <1>1 DEF HandsOver
<1>3. /\ job[s] \in {"queued", "running"} /\ job[s] # "done" /\ job[s] # "none"
      /\ phase \in {"loop", "leave"}
  BY <1>1, <1>2 DEF SlotsInOrder, FirstRun, ReceiptIInv, PieceIsRecorded, Working
<1>4. UNCHANGED <<disk, known, opened>>
  BY DEF PieceStep, MakeDirectory, TaskCalls, Exchange, TearReceipt, WriteReceipt, ledgerVars,
     memoryVars
<1>5. \A t \in Slots : t # s => slotDir'[t] = slotDir[t]
  BY <1>2, OthersKept
<1>6. CASE MakeDirectory \/ TearReceipt
  <2>1. UNCHANGED <<job, results, reason, piece>>
    BY <1>6 DEF MakeDirectory, TearReceipt, brokerVars
  <2>2. ~ slotDir'[s].failed
    <3>1. \E dir \in {OpenDir, TornDir} : slotDir' = [slotDir EXCEPT ![s] = dir]
      BY <1>2, <1>6 DEF MakeDirectory, TearReceipt
    <3>2. ~ OpenDir.failed /\ ~ TornDir.failed
      BY DEF OpenDir, TornDir, Receipt
    <3> QED BY <3>1, <3>2 DEF ReceiptIInv
  <2>3. SlotsInOrder'
    BY <1>1, <1>2, <1>3, <1>4, <1>5, <2>1, <2>2 DEF SlotsInOrder
  <2>4. ClosesInOrder'
    BY <1>1, <1>3, <1>4, <2>1 DEF ClosesInOrder
  <2> QED BY <2>3, <2>4
<1>7. CASE TaskCalls
  <2>1. /\ UNCHANGED <<slotDir, results, reason>> /\ piece' = NoPiece
        /\ job' = [job EXCEPT ![s] = "running"]
    BY <1>2, <1>7 DEF TaskCalls, fileVars
  <2>2. /\ job'[s] = "running" /\ \A t \in Slots : t # s => job'[t] = job[t]
        /\ job' \in [Slots -> {"none", "queued", "running", "done"}]
    BY <2>1 DEF SlotsInOrder
  <2>3. \A i \in DOMAIN results : results[i] \in Slots /\ results[i] # s
    BY <1>3 DEF SlotsInOrder, HandsOver
  <2>4. waiting' = {t \in SlotsOf(opened') : job'[t] = "none"}
    BY <1>1, <1>3, <1>4, <2>2 DEF SlotsInOrder, SlotsOf
  <2>5. SlotsInOrder'
    BY <1>1, <1>2, <1>3, <1>4, <2>1, <2>2, <2>3, <2>4 DEF SlotsInOrder
  <2>6. ClosesInOrder'
    BY <1>1, <1>3, <1>4, <2>1, <2>2 DEF ClosesInOrder, SlotsOf
  <2> QED BY <2>5, <2>6
<1>8. CASE WriteReceipt
  <2>1. PICK r \in Receipts :
          /\ r.kind \in Kinds /\ slotDir' = [slotDir EXCEPT ![s] = r]
          /\ reason' = IF r.failed THEN s ELSE reason
          /\ job' = [job EXCEPT ![s] = "done"] /\ results' = Append(results, s)
          /\ piece' = NoPiece
    BY <1>1, <1>2, <1>8 DEF WriteReceipt, Deliver, ReceiptIInv, PieceIsRecorded
  <2>2. /\ job'[s] = "done" /\ \A t \in Slots : t # s => job'[t] = job[t]
        /\ job' \in [Slots -> {"none", "queued", "running", "done"}]
        /\ slotDir'[s] = r
    BY <2>1 DEF SlotsInOrder, ReceiptIInv
  <2>3. s # NoVerdict
    BY RootlessAssumption, StageAssumption DEF RootlessAssumption, StageAssumption
  <2>4. \A i \in DOMAIN results' : job'[results'[i]] = "done"
    <3>1. \A i \in DOMAIN results' : results'[i] = s \/ (i \in DOMAIN results /\ results'[i] = results[i])
      BY <2>1 DEF HandsOver
    <3>2. \A i \in DOMAIN results : results[i] \in Slots /\ results[i] # s
      BY <1>3 DEF SlotsInOrder, HandsOver
    <3> QED BY <2>2, <3>1, <3>2 DEF SlotsInOrder
  <2>5. waiting' = {t \in SlotsOf(opened') : job'[t] = "none"}
    BY <1>1, <1>3, <1>4, <2>2 DEF SlotsInOrder, SlotsOf
  <2>6. \A t \in Slots : slotDir'[t].failed => reason' # NoVerdict
    BY <1>5, <2>1, <2>2, <2>3 DEF SlotsInOrder
  <2>7. \A t \in Slots :
          /\ job'[t] \in {"none", "queued"} => slotDir'[t] = NoDir /\ disk'.account[t] = "none"
          /\ job'[t] = "done" => slotDir'[t].kind \in Kinds
          /\ job'[t] # "none" /\ Predecessor[t] # NoSlot => Predecessor[t] \in heard'
    BY <1>1, <1>2, <1>3, <1>4, <1>5, <2>1, <2>2 DEF SlotsInOrder
  <2>8. heard' \subseteq {t \in Slots : job'[t] = "done"}
    BY <1>1, <2>2 DEF SlotsInOrder
  <2>9. SlotsInOrder'
    BY <2>1, <2>2, <2>4, <2>5, <2>6, <2>7, <2>8 DEF SlotsInOrder
  <2>10. reason' = NoVerdict => reason = NoVerdict
    BY <2>1, <2>3
  <2>11. ClosesInOrder'
    BY <1>1, <1>3, <1>4, <2>2, <2>10 DEF ClosesInOrder, SlotsOf
  <2> QED BY <2>9, <2>11
<1> QED BY <1>6, <1>7, <1>8 DEF PieceStep

\* An append is about the slot of the piece, and ends no stage before its closing.
LEMMA CleanAppends ==
  ASSUME LedgerIInv, HandsOver, ReceiptIInv, SealIInv, [StageNext]_stageVars, FirstRun,
         SlotsInOrder, ClosesInOrder, AppendStep
  PROVE  SlotsInOrder' /\ ClosesInOrder'
<1>1. UNCHANGED <<opened, fileVars, phase, reason, waiting, job, piece, results, heard>>
  BY DEF AppendStep, WriteRecord, WriteHead, brokerVars
<1>2. \A t \in Slots : piece.slot # t => disk'.account[t] = disk.account[t]
  BY OthersKept
<1>3. SlotsInOrder'
  BY <1>1, <1>2 DEF SlotsInOrder, fileVars
<1>4. phase \in {"loop", "leave", "close", "manifest"} => known'.last.verdict = NoVerdict
  <2>1. CASE WriteRecord
    BY <2>1 DEF WriteRecord, ClosesInOrder
  <2>2. CASE WriteHead
    <3>1. /\ writing # Idle /\ known'.last.verdict = writing.record.verdict
      BY <2>2 DEF WriteHead, With, Idle
    <3> QED BY <3>1 DEF SealIInv, LastRecordIInv, AppendsToOpen
  <2> QED BY <2>1, <2>2 DEF AppendStep
<1>5. ClosesInOrder'
  BY <1>1, <1>4 DEF ClosesInOrder, fileVars, Receipted, HasReceipt, ReferencesHold
<1> QED BY <1>3, <1>5

\* The receipts of a stage that closes are those of the tasks that are done; unless
\* the validator cannot match one with the ledger, they are the set it accepts.
LEMMA CleanSetHolds ==
  ASSUME LedgerIInv, ReceiptIInv, FirstRun, NothingFound, SlotsInOrder, ClosesInOrder,
         phase \in {"close", "manifest"}
  PROVE  /\ Receipted(opened) = {s \in SlotsOf(opened) : job[s] = "done"}
         /\ reason = NoVerdict => AllReceipted
         /\ phase = "close" =>
              ReceiptSetHolds \/ \E s \in Receipted(opened) : ~ ReferencesHold(s)
<1> DEFINE set == Receipted(opened)
<1>1. /\ \A s \in Slots : job[s] \in {"none", "done"}
      /\ \A s \in Slots : job[s] = "none" => slotDir[s] = NoDir /\ disk.account[s] = "none"
      /\ \A s \in Slots : job[s] = "done" => slotDir[s].kind \in Kinds
  <2>1. \A s \in Slots : piece.slot # s
    BY RootlessAssumption DEF ClosesInOrder, NoPiece, RootlessAssumption
  <2> QED BY <2>1 DEF SlotsInOrder, ClosesInOrder
<1>2. NoDir.kind = "none" /\ "none" \notin Kinds /\ "open" \notin Kinds
  BY ReceiptForms
<1>3. set = {s \in SlotsOf(opened) : job[s] = "done"}
  BY <1>1, <1>2 DEF Receipted, HasReceipt, SlotsOf
<1>4. reason = NoVerdict => AllReceipted
  BY <1>3 DEF ClosesInOrder, AllReceipted
<1>5. ASSUME phase = "close", \A s \in set : ReferencesHold(s)
      PROVE  ReceiptSetHolds
  <2>1. \A s \in SlotsOf(opened) : s \in Slots /\ StageOf[s] = opened
    BY DEF SlotsOf
  <2>2. {s \in SlotsOf(opened) : slotDir[s] # NoDir} = set
    BY <1>1, <1>2, <1>3, <2>1
  <2>3. \A s \in set : slotDir[s].kind \in Kinds
    BY <1>1, <1>3, <2>1
  <2>4. ASSUME NEW s \in set, Predecessor[s] # NoSlot
        PROVE  Predecessor[s] \in set
    <3>1. s \in Slots /\ job[s] = "done" /\ StageOf[s] = opened
      BY <1>3, <2>1
    <3>2. Predecessor[s] \in Slots /\ job[Predecessor[s]] = "done"
      BY <2>4, <3>1 DEF SlotsInOrder
    <3>3. StageOf[Predecessor[s]] = StageOf[s]
      BY <3>1, <3>2, StageAssumption DEF StageAssumption
    <3> QED BY <1>3, <3>1, <3>2, <3>3 DEF SlotsOf
  <2>5. ASSUME NEW s \in Slots, s \notin set, StageOf[s] = opened
        PROVE  disk.account[s] = "none"
    BY <1>1, <1>3, <2>5 DEF SlotsOf
  <2>6. ASSUME NEW s \in set
        PROVE  /\ s \in Slots /\ StageOf[s] = opened
               /\ slotDir[s].kind = "answered" => disk.account[s] \in {"reserved", "settled"}
               /\ slotDir[s].kind # "answered" =>
                    slotDir[s].kind \in {"capped", "blocked"} /\ disk.account[s] = "skipped"
    BY <2>1, <2>3, <2>6, <1>3 DEF ReceiptIInv, ReceiptsAreTrue, Kinds
  <2>7. OfKind(set, {"answered"}) = Issued(disk, opened)
    BY <2>5, <2>6 DEF OfKind, Issued
  <2>8. OfKind(set, {"capped", "blocked"}) = Skipped(disk, opened)
    BY <2>5, <2>6 DEF OfKind, Skipped
  <2>9. Accepts(opened, set)
    BY <1>5, <2>2, <2>3, <2>4, <2>7, <2>8 DEF Accepts, NothingFound
  <2>10. reason = NoVerdict => IsPrefix(opened)
    BY <1>4 DEF AllReceipted, IsPrefix, Receipted
  <2> QED BY <1>5, <2>9, <2>10 DEF ReceiptSetHolds, ClosesInOrder
<1> QED BY <1>3, <1>4, <1>5

\* The loop is left and every task has ended; the stage closes.
LEMMA CleanCloses ==
  ASSUME LedgerIInv, HandsOver, ReceiptIInv, SealIInv, FirstRun, NothingFound, SlotsInOrder,
         ClosesInOrder,
         \/ EnterClose /\ phase = "leave"
         \/ CloseReceipts \/ CloseLedger \/ SealStage \/ SealFinal
  PROVE  SlotsInOrder' /\ ClosesInOrder'
<1>1. /\ UNCHANGED <<slotDir, reason, waiting, job, piece, results, heard>>
      /\ UNCHANGED <<disk, known, opened>>
  BY DEF EnterClose, CloseReceipts, CloseLedger, SealStage, SealFinal, Reread, Terminate, Begin,
     fileVars, ledgerVars, memoryVars
<1>2. SlotsInOrder'
  BY <1>1 DEF SlotsInOrder
<1>3. phase' # "loop" /\ reason' = NoVerdict => \A s \in SlotsOf(opened) : job[s] = "done"
  BY <1>1 DEF EnterClose, CloseReceipts, CloseLedger, SealStage, SealFinal, ClosesInOrder
<1>4. CASE EnterClose /\ phase = "leave"
  <2>1. /\ phase' = "close" /\ piece = NoPiece /\ UNCHANGED <<manifest, sealed>>
        /\ \A s \in Slots : job[s] \in {"none", "done"}
    BY <1>4 DEF EnterClose, SlotsInOrder, fileVars
  <2> QED BY <1>1, <1>2, <1>3, <1>4, <2>1 DEF ClosesInOrder
<1>5. CASE CloseReceipts
  <2>1. /\ phase = "close" /\ UNCHANGED sealed
        /\ \/ ReceiptSetHolds /\ phase' = "manifest"
           \/ ~ ReceiptSetHolds /\ phase' = "refused"
    BY <1>5 DEF CloseReceipts
  <2>2. phase' = "refused" => \E s \in Receipted(opened) : ~ ReferencesHold(s)
    BY <2>1, CleanSetHolds
  <2>3. phase' = "refused" => (\E s \in Receipted(opened) : ~ ReferencesHold(s))'
    BY <1>1, <2>2 DEF Receipted, HasReceipt, ReferencesHold
  <2> QED BY <1>1, <1>2, <1>3, <2>1, <2>3 DEF ClosesInOrder
<1>6. CASE CloseLedger
  <2>1. phase = "manifest" /\ UNCHANGED <<manifest, sealed>>
    BY <1>6 DEF CloseLedger, fileVars
  <2>2. ~ Closed(known, opened)
    BY <2>1 DEF ClosesInOrder, Closed
  <2>3. TerminalHolds
    BY <2>1, <2>2, CleanSetHolds DEF TerminalHolds, NothingFound
  <2>4. phase' = "terminal"
    BY <1>6, <2>2, <2>3 DEF CloseLedger
  <2> QED BY <1>1, <1>2, <1>3, <2>1, <2>4 DEF ClosesInOrder
<1>7. CASE SealStage
  <2>1. phase = "terminal" /\ sealed[opened] = NoSeal
    BY <1>7 DEF SealStage, ClosesInOrder
  <2>2. phase' \in {"exit", "final"}
    BY <1>7, <2>1 DEF SealStage
  <2> QED BY <1>1, <1>2, <1>3, <2>1, <2>2 DEF ClosesInOrder
<1>8. CASE SealFinal
  <2>1. phase = "final" /\ phase' = "exit"
    BY <1>8 DEF SealFinal
  <2> QED BY <1>1, <1>2, <1>3, <2>1 DEF ClosesInOrder
<1> QED BY <1>4, <1>5, <1>6, <1>7, <1>8

LEMMA CountersGrow ==
  ASSUME [StageNext]_stageVars, starts \in Nat, faults \in Nat
  PROVE  /\ starts' \in Nat /\ faults' \in Nat
         /\ faults' = 0 => faults = 0
         /\ \/ starts' = starts /\ ~ \E stage \in Stages : Start(stage)
            \/ starts' = starts + 1 /\ \E stage \in Stages : Start(stage)
<1>1. ASSUME NEW stage \in Stages, Start(stage)
      PROVE  starts' = starts + 1 /\ faults' = faults
  BY <1>1 DEF Start
<1>2. FaultStep => starts' = starts /\ faults' \in {faults, faults + 1}
  BY DEF FaultStep, Fault, WorkerDies, BrokerDies, StartDies, AppendFails, TaskBreaks, boundVars
<1>3. (\E s \in Slots : TaskStep(s)) => UNCHANGED <<starts, faults>>
  BY DEF TaskStep, TaskReplays, TaskSkips, TaskReserves, TaskAnswered, LedgerRefuses,
     SettlementRefused, TaskCancelled, BeginPiece, boundVars
<1>4. PieceStep \/ AppendStep => UNCHANGED <<starts, faults>>
  BY DEF PieceStep, MakeDirectory, TaskCalls, TearReceipt, WriteReceipt, AppendStep, boundVars
<1>5. BrokerStep => UNCHANGED <<starts, faults>>
  BY <1>3, <1>4 DEF BrokerStep, ReadDispatch, Consume, ChannelLost, EnterClose, CloseReceipts,
     CloseLedger, SealStage, SealFinal, BrokerEnds, boundVars
<1>6. WorkerStep \/ UNCHANGED stageVars => UNCHANGED <<starts, faults>>
  BY DEF WorkerStep, WorkerDispatches, WorkerReads, WorkerEnds, stageVars, boundVars
<1>7. CASE \E stage \in Stages : Start(stage)
  BY <1>1, <1>7
<1>8. CASE ~ \E stage \in Stages : Start(stage)
  BY <1>2, <1>5, <1>6, <1>8 DEF StageNext
<1> QED BY <1>7, <1>8

\* A process whose loop was aborted closes its stage as unclean.
LEMMA AbortSteps ==
  ASSUME ReceiptIInv, [StageNext]_stageVars, phase = "abort", ~ Fault
  PROVE  phase' = "abort" \/ (phase' = "close" /\ reason' = Unclean)
<1>1. ASSUME NEW s \in Slots, TaskStep(s)
      PROVE  phase' = "abort"
  <2>1. CASE TaskReplays(s) \/ TaskSkips(s) \/ TaskReserves(s)
    BY <2>1 DEF TaskReplays, TaskSkips, TaskReserves, BeginPiece, Deliver
  <2>2. CASE TaskAnswered(s)
    BY <2>2 DEF TaskAnswered, BeginPiece
  <2>3. CASE LedgerRefuses(s) \/ SettlementRefused(s) \/ TaskCancelled(s)
    BY <2>3 DEF LedgerRefuses, SettlementRefused, TaskCancelled, Raises
  <2> QED BY <1>1, <2>1, <2>2, <2>3 DEF TaskStep
<1>2. PieceStep \/ AppendStep => phase' = "abort"
  BY DEF PieceStep, MakeDirectory, TaskCalls, TearReceipt, WriteReceipt, Deliver, AppendStep,
     brokerVars
<1>3. BrokerStep => phase' = "abort" \/ (phase' = "close" /\ reason' = Unclean)
  BY <1>1, <1>2 DEF BrokerStep, ReadDispatch, Consume, ChannelLost, EnterClose, CloseReceipts,
     CloseLedger, SealStage, SealFinal, BrokerEnds
<1>4. FaultStep => phase' = "abort"
  BY DEF FaultStep, WorkerDies, BrokerDies, StartDies, TaskBreaks, AppendFails, Working, Raises
<1>5. WorkerStep \/ UNCHANGED stageVars => phase' = "abort"
  BY DEF WorkerStep, WorkerDispatches, WorkerReads, WorkerEnds, stageVars, brokerVars
<1>6. ~ \E stage \in Stages : Start(stage)
  BY DEF Start
<1> QED BY <1>3, <1>4, <1>5, <1>6 DEF StageNext

\* A process that closes keeps its reason to its end.
LEMMA ClosingSteps ==
  ASSUME ReceiptIInv, [StageNext]_stageVars, phase \notin {"down", "loop", "leave", "abort"},
         ~ Fault
  PROVE  phase' = "down" \/ (phase' \notin {"loop", "leave"} /\ reason' = reason)
<1>1. piece = NoPiece /\ ~ Working
  BY DEF ReceiptIInv, PieceIsRecorded, Working
<1>2. \A s \in Slots : ~ TaskStep(s)
  BY <1>1 DEF TaskStep, TaskReplays, TaskSkips, TaskReserves, TaskAnswered, LedgerRefuses,
     SettlementRefused, TaskCancelled, Queued, Working
<1>3. ~ PieceStep
  <2>1. NoPiece.receipt # Blocked /\ NoPiece.receipt # OpenDir
        /\ NoPiece.receipt.kind \notin Kinds
    BY ReceiptForms DEF NoPiece, NoDir, Blocked, OpenDir, Receipt
  <2> QED
    BY <1>1, <2>1 DEF PieceStep, MakeDirectory, TaskCalls, TearReceipt, WriteReceipt
<1>4. CloseReceipts \/ CloseLedger \/ SealStage \/ SealFinal
        => phase' \notin {"loop", "leave"} /\ reason' = reason
  BY DEF CloseReceipts, CloseLedger, SealStage, SealFinal
<1>5. BrokerStep => phase' = "down" \/ (phase' \notin {"loop", "leave"} /\ reason' = reason)
  BY <1>2, <1>3, <1>4 DEF BrokerStep, ReadDispatch, Consume, ChannelLost, EnterClose,
     AppendStep, BrokerEnds, ProcessGone, brokerVars
<1>6. FaultStep => phase' \notin {"loop", "leave"} /\ reason' = reason
  BY <1>1 DEF FaultStep, WorkerDies, BrokerDies, StartDies, TaskBreaks, AppendFails
<1>7. WorkerStep \/ UNCHANGED stageVars => phase' \notin {"loop", "leave"} /\ reason' = reason
  BY DEF WorkerStep, WorkerDispatches, WorkerReads, WorkerEnds, stageVars, brokerVars
<1>8. ~ \E stage \in Stages : Start(stage)
  BY DEF Start
<1> QED BY <1>5, <1>6, <1>7, <1>8 DEF StageNext

\* No step but a start leads into a first run.
LEMMA FirstRunBefore ==
  ASSUME LedgerIInv, ReceiptIInv, CleanIInv, [StageNext]_stageVars, starts' = starts,
         ~ \E stage \in Stages : Start(stage), FirstRun'
  PROVE  FirstRun
<1>1. starts = 1 /\ faults = 0 /\ ~ Fault
  BY CountersGrow, FaultCounts DEF CleanIInv, FirstRun
<1>2. phase # "down"
  <2>1. ASSUME phase = "down" PROVE phase' = "down"
    BY <1>1, <2>1, DownSteps DEF CleanIInv, brokerVars
  <2> QED BY <2>1 DEF FirstRun
<1>3. phase # "abort"
  BY <1>1, AbortSteps DEF FirstRun
<1>4. phase \in {"loop", "leave"} \/ reason # Unclean
  BY <1>1, <1>2, <1>3, ClosingSteps DEF FirstRun
<1> QED BY <1>1, <1>2, <1>3, <1>4 DEF FirstRun

\* A process that is down has no ledger open.
LEMMA DownIsShut ==
  ASSUME [StageNext]_stageVars, phase' = "down", phase = "down" => opened = NoStage
  PROVE  opened' = NoStage
<1>1. ASSUME NEW s \in Slots, TaskStep(s)
      PROVE  UNCHANGED <<phase, opened>> \/ phase' = "abort"
  <2>1. CASE TaskReplays(s) \/ TaskSkips(s) \/ TaskReserves(s)
    BY <2>1 DEF TaskReplays, TaskSkips, TaskReserves, Skip, Reserve, Begin, BeginPiece, Deliver,
       ledgerVars, memoryVars
  <2>2. CASE TaskAnswered(s)
    <3>1. PICK answer \in Answers(s) :
            /\ IF answer.settled THEN \E cost \in Costs : Settle(s, cost) ELSE Abandon(s)
            /\ BeginPiece(s, answer)
      BY <2>2 DEF TaskAnswered
    <3> QED BY <3>1 DEF Settle, Abandon, Begin, BeginPiece, memoryVars
  <2>3. CASE LedgerRefuses(s) \/ SettlementRefused(s) \/ TaskCancelled(s)
    BY <2>3 DEF LedgerRefuses, SettlementRefused, TaskCancelled, Raises
  <2> QED BY <1>1, <2>1, <2>2, <2>3 DEF TaskStep
<1>2. PieceStep => UNCHANGED <<phase, opened>>
  BY DEF PieceStep, MakeDirectory, TaskCalls, TearReceipt, WriteReceipt, Deliver, Exchange,
     ledgerVars, memoryVars, brokerVars
<1>3. AppendStep \/ WorkerStep \/ ReadDispatch \/ UNCHANGED stageVars
        => UNCHANGED <<phase, opened>>
  BY DEF AppendStep, WriteRecord, WriteHead, WorkerStep, WorkerDispatches, WorkerReads,
     WorkerEnds, ReadDispatch, stageVars, brokerVars, ledgerVars, memoryVars
<1>4. Consume \/ ChannelLost \/ EnterClose \/ CloseReceipts \/ CloseLedger \/ SealStage \/ SealFinal
        => phase' # "down"
  BY DEF Consume, ChannelLost, EnterClose, CloseReceipts, CloseLedger, SealStage, SealFinal
<1>5. BrokerEnds \/ BrokerDies => opened' = NoStage
  BY DEF BrokerEnds, BrokerDies, ProcessGone, Exit
<1>6. WorkerDies \/ StartDies => UNCHANGED <<phase, opened>>
  BY DEF WorkerDies, StartDies, OpenTorn, ledgerVars, memoryVars, brokerVars
<1>7. AppendFails \/ (\E s \in Slots : TaskBreaks(s)) \/ (\E stage \in Stages : Start(stage))
        => phase' # "down"
  BY DEF AppendFails, TaskBreaks, Raises, Start
<1> QED BY <1>1, <1>2, <1>3, <1>4, <1>5, <1>6, <1>7 DEF StageNext, BrokerStep, FaultStep

LEMMA CleanSteps ==
  ASSUME LedgerIInv, HandsOver, ReceiptIInv, SealIInv, CleanIInv, [StageNext]_stageVars
  PROVE  CleanIInv'
<1>1. starts' \in Nat /\ faults' \in Nat /\ (faults' = 0 => faults = 0)
  BY CountersGrow DEF CleanIInv
<1>2. phase' = "down" => opened' = NoStage
  BY DownIsShut DEF CleanIInv
<1>3. ASSUME starts' = 0, faults' = 0
      PROVE  Untouched'
  <2>1. starts = 0 /\ faults = 0 /\ ~ \E stage \in Stages : Start(stage)
    BY <1>1, <1>3, CountersGrow DEF CleanIInv
  <2>2. Untouched /\ ~ Fault
    BY <1>3, <2>1, FaultCounts DEF CleanIInv
  <2>3. UNCHANGED <<ledgerVars, fileVars, brokerVars>>
    BY <2>1, <2>2, DownSteps DEF Untouched
  <2> QED BY <2>2, <2>3 DEF Untouched, ledgerVars, memoryVars, fileVars, brokerVars
<1>4. ASSUME FirstRun', \E stage \in Stages : Start(stage)
      PROVE  NothingFound' /\ SlotsInOrder' /\ ClosesInOrder'
  <2>1. starts = 0 /\ faults = 0
    BY <1>1, <1>4, CountersGrow DEF CleanIInv, FirstRun
  <2> QED BY <1>4, <2>1, CleanOpens DEF CleanIInv
<1>5. ASSUME FirstRun', ~ \E stage \in Stages : Start(stage)
      PROVE  NothingFound' /\ SlotsInOrder' /\ ClosesInOrder'
  <2>1. starts' = starts
    BY <1>5, CountersGrow DEF CleanIInv
  <2>2. FirstRun /\ NothingFound /\ SlotsInOrder /\ ClosesInOrder
    BY <1>5, <2>1, FirstRunBefore DEF CleanIInv
  <2>3. /\ \/ UNCHANGED <<ledgerVars, fileVars, brokerVars>>
           \/ ReadDispatch \/ Consume
           \/ \E s \in Slots : TaskSkips(s) \/ TaskReserves(s) \/ TaskAnswered(s)
           \/ PieceStep \/ AppendStep
           \/ EnterClose /\ phase = "leave"
           \/ CloseReceipts \/ CloseLedger \/ SealStage \/ SealFinal
        /\ NothingFound'
    BY <1>5, <2>2, FirstRunSteps DEF CleanIInv
  <2>4. CASE UNCHANGED <<ledgerVars, fileVars, brokerVars>>
    <3>1. SlotsInOrder'
      BY <2>2, <2>4 DEF SlotsInOrder, ledgerVars, memoryVars, fileVars, brokerVars
    <3>2. ClosesInOrder'
      BY <2>2, <2>4 DEF ClosesInOrder, ledgerVars, memoryVars, fileVars, brokerVars, Receipted,
         HasReceipt, ReferencesHold
    <3> QED BY <2>3, <3>1, <3>2
  <2>5. CASE ReadDispatch
    BY <2>2, <2>3, <2>5, CleanReads
  <2>6. CASE Consume
    BY <2>2, <2>3, <2>6, CleanConsumes
  <2>7. CASE \E s \in Slots : TaskSkips(s) \/ TaskReserves(s) \/ TaskAnswered(s)
    BY <2>2, <2>3, <2>7, CleanBegins
  <2>8. CASE PieceStep
    BY <2>2, <2>3, <2>8, CleanPieces
  <2>9. CASE AppendStep
    BY <2>2, <2>3, <2>9, CleanAppends
  <2>10. CASE \/ EnterClose /\ phase = "leave"
              \/ CloseReceipts \/ CloseLedger \/ SealStage \/ SealFinal
    BY <2>2, <2>3, <2>10, CleanCloses
  <2> QED BY <2>3, <2>4, <2>5, <2>6, <2>7, <2>8, <2>9, <2>10
<1>6. FirstRun' => NothingFound' /\ SlotsInOrder' /\ ClosesInOrder'
  BY <1>4, <1>5
<1> QED BY <1>1, <1>2, <1>3, <1>6 DEF CleanIInv

\* A stage that the first process runs, with no fault and without reaching a cap, is
\* refused its seal only over a receipt that the validator cannot match with the
\* ledger, the blocked slots' and the capped dynamic ones' (close_stage, _validate).
THEOREM StageCleanRunSeals == StageSpec => []CleanRunSeals
<1>1. StageInit => CleanIInv
  BY CleanStarts
<1>2. LedgerIInv /\ HandsOver /\ ReceiptIInv /\ SealIInv /\ CleanIInv /\ [StageNext]_stageVars
        => CleanIInv'
  BY CleanSteps
<1>3. CleanIInv => CleanRunSeals
  BY DEF CleanIInv, FirstRun, ClosesInOrder, CleanRunSeals
<1> QED BY <1>1, <1>2, <1>3, StageInvariant, PTL DEF StageSpec

===============================================================================
