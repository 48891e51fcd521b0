--------------------------- MODULE EvalRunnerProofs ---------------------------
(***************************************************************************)
(* Proofs about EvalRunner, for every length of the schedule, every set of *)
(* arm behaviours and every number of faults and interruptions.            *)
(*                                                                         *)
(* Neither TypeOK nor JournalInOrder is inductive: the line AppendCell     *)
(* writes is the cursor, the digest in memory and the artifact the arm     *)
(* left, so both rest on what the memory of the process knows of the       *)
(* journal at each step.                                                   *)
(***************************************************************************)
EXTENDS EvalRunner, SequenceTheorems, FiniteSetTheorems, TLAPS

(* The arm is at work on a cell, or has been and left the journal alone. *)
InCell == pc \in {"arm", "verify", "own", "append"} /\ outcome # "rewrite"

(* The memory of a process that goes on is the journal: the cells it lists *)
(* are the completed ones, its last cell is the chain digest, and the cell *)
(* at work on is the next one of the schedule.                             *)
MemoryFollowsJournal ==
  /\ pc = "pick" \/ InCell =>
       mem.head = Len(journal) /\ mem.completed = 1 .. Len(journal)
  /\ pc = "pick" => mem.cursor <= Len(journal) + 1
  /\ InCell => mem.cursor = Len(journal) + 1 /\ mem.cursor <= N
  /\ pc \in {"sync", "syncdir"} =>
       mem.cursor = Len(journal) /\ mem.completed = 1 .. Len(journal) - 1

(* An arm that rewrote the journal is never trusted with another step. *)
RewriteIsSeen == outcome = "rewrite" => pc \in {"verify", "fail", "failsync"}

(* What is about to be committed has an artifact. *)
ArtifactInHand ==
  /\ pc \in {"own", "append"} => native[mem.cursor] \in Artifacts
  /\ pc = "verify" /\ outcome \in {"flat", "nested", "spoil"} =>
       native[mem.cursor] \in Artifacts

IInv ==
  /\ TypeOK
  /\ JournalInOrder
  /\ MemoryFollowsJournal
  /\ RewriteIsSeen
  /\ ArtifactInHand

-----------------------------------------------------------------------------
(* The journal in order lists the cells 1 .. Len(journal), each its own    *)
(* position, so it is no longer than the schedule, and its head is its     *)
(* length.                                                                 *)
LEMMA OrderedJournal ==
  ASSUME TypeOK, JournalInOrder
  PROVE  /\ Len(journal) \in 0 .. N
         /\ Items = 1 .. Len(journal)
         /\ JournalHead = Len(journal)
<1> USE EvalRunnerAssumption
<1>1. Len(journal) \in Nat /\ DOMAIN journal = 1 .. Len(journal)
  BY DEF TypeOK
<1>2. Len(journal) \in 0 .. N
  <2>1. CASE Len(journal) = 0
    BY <2>1
  <2>2. CASE Len(journal) # 0
    <3>1. Len(journal) \in DOMAIN journal
      BY <1>1, <2>2
    <3>2. journal[Len(journal)] \in Record
      BY <3>1, <1>1 DEF TypeOK
    <3>3. journal[Len(journal)].item \in Cells
      BY <3>2 DEF Record
    <3>4. QED
      BY <3>1, <3>3, <1>1 DEF JournalInOrder, Cells
  <2>3. QED
    BY <2>1, <2>2
<1>3. Items = 1 .. Len(journal)
  BY <1>1 DEF Items, JournalInOrder
<1>4. JournalHead = Len(journal)
  BY <1>1, <1>2 DEF JournalHead, JournalInOrder, Last, TypeOK
<1>5. QED
  BY <1>2, <1>3, <1>4

(* A shorter journal is in order too. *)
LEMMA PrefixInOrder ==
  ASSUME NEW n \in 0 .. Len(journal), TypeOK, JournalInOrder,
         journal' = SubSeq(journal, 1, n)
  PROVE  journal' \in Seq(Record) /\ Len(journal') = n /\ JournalInOrder'
<1>1. journal \in Seq(Record) /\ Len(journal) \in Nat /\ DOMAIN journal = 1 .. Len(journal)
  BY DEF TypeOK
<1>2. /\ journal' \in Seq(Record) /\ Len(journal') = n
      /\ \A i \in 1 .. n : journal'[i] = journal[i]
  BY <1>1, SubSeqProperties
<1>3. DOMAIN journal' = 1 .. n
  BY <1>2
<1>4. JournalInOrder'
  BY <1>1, <1>2, <1>3 DEF JournalInOrder
<1>5. QED
  BY <1>2, <1>4

(* A failing system call, and an interruption, stay within their bounds. *)
LEMMA FaultIsBounded ==
  ASSUME TypeOK, Fault
  PROVE  budget' \in [faults : 0 .. MaxFaults, interrupts : 0 .. MaxInterrupts,
                      losses : 0 .. MaxLosses]
BY EvalRunnerAssumption DEF TypeOK, Fault

(* The same of a cancellation or the death of a process. *)
LEMMA InterruptIsBounded ==
  ASSUME TypeOK, Interrupt
  PROVE  budget' \in [faults : 0 .. MaxFaults, interrupts : 0 .. MaxInterrupts,
                      losses : 0 .. MaxLosses]
BY EvalRunnerAssumption DEF TypeOK, Interrupt

(* A write that stops half way changes the file, not its type. *)
LEMMA PartialWriteIsTyped ==
  ASSUME TypeOK, PartialWrite
  PROVE  file' \in [exists : BOOLEAN, torn : BOOLEAN, named : BOOLEAN]
<1>1. PICK exists \in BOOLEAN, torn \in BOOLEAN :
        file' = [file EXCEPT !.exists = exists, !.torn = torn]
  BY DEF PartialWrite
<1>2. QED
  BY <1>1 DEF TypeOK

(* What a process leaves when it is gone is an empty memory. *)
LEMMA ForgottenIsTyped ==
  ASSUME Forget
  PROVE  /\ mem' \in [cursor : 1 .. N + 1, completed : SUBSET Cells,
                      head : 0 .. N, created : BOOLEAN]
         /\ pc' = "down" /\ outcome' = NoOutcome /\ canceled' = FALSE
BY EvalRunnerAssumption DEF Forget, NoMemory

(* However a process stops, by returning, by dying or by going on to fail  *)
(* the run, it leaves the invariant as it was, whatever fragment it wrote. *)
LEMMA StoppingKeepsIInv ==
  ASSUME IInv, Forget \/ GoFail,
         UNCHANGED <<journal, synced, native, safeNative, status, acked>>,
         file' \in [exists : BOOLEAN, torn : BOOLEAN, named : BOOLEAN],
         safeStatus' \in {status, safeStatus},
         budget' \in [faults : 0 .. MaxFaults, interrupts : 0 .. MaxInterrupts,
                      losses : 0 .. MaxLosses]
  PROVE  IInv'
<1>1. TypeOK'
  <2>1. CASE Forget
    BY <2>1, ForgottenIsTyped DEF IInv, TypeOK, Steps
  <2>2. CASE GoFail
    BY <2>2 DEF IInv, TypeOK, GoFail, Steps
  <2>3. QED
    BY <2>1, <2>2
<1>2. JournalInOrder'
  BY DEF IInv, JournalInOrder
<1>3. pc' \in {"down", "fail"} /\ (outcome' = "rewrite" => pc' = "fail")
  BY DEF Forget, GoFail, NoOutcome
<1>4. MemoryFollowsJournal' /\ RewriteIsSeen' /\ ArtifactInHand'
  BY <1>3 DEF MemoryFollowsJournal, RewriteIsSeen, ArtifactInHand, InCell
<1>5. QED
  BY <1>1, <1>2, <1>4 DEF IInv

-----------------------------------------------------------------------------
(* The steps of one cell *)

(* A completed cell is at or before the end of the journal, so skipping it *)
(* takes the cursor at most to the next cell.                              *)
LEMMA SkipCellKeepsIInv ==
  ASSUME IInv, SkipCell
  PROVE  IInv'
<1>1. mem.cursor <= Len(journal) /\ mem.cursor <= N /\ Len(journal) \in Nat
  <2>1. mem.cursor \in 1 .. Len(journal) /\ Len(journal) \in 0 .. N
    BY OrderedJournal DEF IInv, SkipCell, MemoryFollowsJournal
  <2>2. QED
    BY <2>1, EvalRunnerAssumption
<1>2. TypeOK'
  BY <1>1, EvalRunnerAssumption DEF IInv, TypeOK, SkipCell, store
<1>3. JournalInOrder' /\ RewriteIsSeen' /\ ArtifactInHand'
  BY DEF IInv, JournalInOrder, RewriteIsSeen, ArtifactInHand, SkipCell, store
<1>4. MemoryFollowsJournal'
  BY <1>1, OrderedJournal DEF IInv, TypeOK, MemoryFollowsJournal, InCell, SkipCell, store
<1>5. QED
  BY <1>2, <1>3, <1>4 DEF IInv

(* The first cell that is not completed is the next one of the journal. *)
LEMMA StartCellKeepsIInv ==
  ASSUME IInv, StartCell
  PROVE  IInv'
<1>1. TypeOK'
  BY DEF IInv, TypeOK, StartCell, Steps
<1>2. JournalInOrder' /\ RewriteIsSeen' /\ ArtifactInHand'
  BY DEF IInv, JournalInOrder, RewriteIsSeen, ArtifactInHand, StartCell
<1>3. mem.cursor = Len(journal) + 1 /\ mem.cursor <= N
  BY OrderedJournal, EvalRunnerAssumption
  DEF IInv, TypeOK, MemoryFollowsJournal, StartCell, Cells
<1>4. MemoryFollowsJournal'
  BY <1>3 DEF IInv, MemoryFollowsJournal, InCell, StartCell
<1>5. QED
  BY <1>1, <1>2, <1>4 DEF IInv

(* An arm that rewrites the journal leaves a prefix of it; every other one *)
(* leaves the journal alone, and an artifact if it returned an outcome.    *)
LEMMA RunArmKeepsIInv ==
  ASSUME IInv, RunArm
  PROVE  IInv'
<1>1. PICK behaviour \in Arms : ArmReturns(behaviour)
  BY DEF RunArm, ReturnOutcome, ReturnError, RewriteJournal, SpoilArtifact, ArmReturns
<1>2. /\ behaviour \in ArmBehaviours
      /\ mem.cursor = Len(journal) + 1 /\ mem.cursor \in Cells
      /\ mem.head = Len(journal) /\ mem.completed = 1 .. Len(journal)
  BY <1>1, OrderedJournal, EvalRunnerAssumption
  DEF IInv, TypeOK, MemoryFollowsJournal, InCell, ArmReturns, RewriteIsSeen, Cells
<1> USE <1>1 DEF ArmReturns
<1>3. CASE UNCHANGED <<journal, synced>>
  <2>1. native' \in [Cells -> Artifacts \cup {NoArtifact}]
    BY <1>3, <1>2 DEF RunArm, ReturnOutcome, ReturnError, RewriteJournal, SpoilArtifact, IInv, TypeOK, Artifacts
  <2>2. behaviour \in {"flat", "nested", "spoil"} => native'[mem.cursor] \in Artifacts
    BY <1>3, <1>2, OrderedJournal DEF RunArm, ReturnOutcome, ReturnError, RewriteJournal, SpoilArtifact, IInv, TypeOK, Artifacts
  <2>3. TypeOK'
    BY <1>3, <1>2, <2>1 DEF IInv, TypeOK, Steps
  <2>4. JournalInOrder' /\ RewriteIsSeen' /\ ArtifactInHand'
    BY <1>3, <2>2 DEF IInv, JournalInOrder, RewriteIsSeen, ArtifactInHand
  <2>5. MemoryFollowsJournal'
    BY <1>3, <1>2 DEF MemoryFollowsJournal, InCell, Cells
  <2>6. QED
    BY <2>3, <2>4, <2>5 DEF IInv
<1>4. CASE RewriteJournal
  <2>1. /\ outcome' = "rewrite" /\ pc' = "verify"
        /\ UNCHANGED <<file, native, safeNative, status, safeStatus, mem, canceled, acked, budget>>
    BY <1>4 DEF RewriteJournal
  <2>2. Len(journal) - 1 \in 0 .. Len(journal)
        /\ journal' = SubSeq(journal, 1, Len(journal) - 1)
    BY <1>4 DEF RewriteJournal, Front, IInv, TypeOK
  <2>3. journal' \in Seq(Record) /\ Len(journal') = Len(journal) - 1 /\ JournalInOrder'
    BY <2>2, PrefixInOrder DEF IInv
  <2>4. TypeOK'
    BY <1>4, <2>1, <2>2, <2>3 DEF IInv, TypeOK, Steps, ArmBehaviours, RewriteJournal
  <2>5. QED
    BY <2>1, <2>3, <2>4 DEF IInv, MemoryFollowsJournal, RewriteIsSeen, ArtifactInHand, InCell
<1>5. QED
  BY <1>3, <1>4 DEF RunArm, ReturnOutcome, ReturnError, SpoilArtifact

(* The three steps between a verified arm and the append write artifacts only. *)
LEMMA CustodyKeepsIInv ==
  ASSUME IInv, RecordArmFailure \/ AcceptOutcome \/ OwnArtifact
  PROVE  IInv'
<1>1. /\ UNCHANGED <<journal, file, synced, status, safeStatus, mem, outcome, canceled, acked, budget>>
      /\ pc' \in {"own", "append"} /\ pc \in {"verify", "own"} /\ outcome # "rewrite"
  BY DEF IInv, RewriteIsSeen, RecordArmFailure, AcceptOutcome, OwnArtifact, store
<1>2. mem.cursor \in Cells
  BY <1>1 DEF IInv, TypeOK, MemoryFollowsJournal, InCell, Cells
<1>3. /\ native' \in [Cells -> Artifacts \cup {NoArtifact}]
      /\ safeNative' \in [Cells -> Artifacts \cup {NoArtifact}]
      /\ native'[mem.cursor] \in Artifacts
  BY <1>2 DEF IInv, TypeOK, ArtifactInHand, Artifacts, RecordArmFailure, AcceptOutcome, OwnArtifact, store
<1>4. TypeOK'
  BY <1>1, <1>3 DEF IInv, TypeOK, Steps
<1>5. JournalInOrder' /\ RewriteIsSeen' /\ ArtifactInHand'
  BY <1>1, <1>3 DEF IInv, JournalInOrder, RewriteIsSeen, ArtifactInHand
<1>6. MemoryFollowsJournal'
  BY <1>1 DEF IInv, MemoryFollowsJournal, InCell
<1>7. QED
  BY <1>4, <1>5, <1>6 DEF IInv

(* The line appended is the next one in order. *)
LEMMA AppendCellKeepsIInv ==
  ASSUME IInv, AppendCell
  PROVE  IInv'
<1> DEFINE line == [item |-> mem.cursor, prev |-> mem.head, artifact |-> native[mem.cursor]]
<1>1. /\ mem.cursor = Len(journal) + 1 /\ mem.cursor \in Cells
      /\ mem.head = Len(journal) /\ mem.completed = 1 .. Len(journal)
      /\ outcome # "rewrite"
  BY EvalRunnerAssumption
  DEF IInv, TypeOK, MemoryFollowsJournal, InCell, RewriteIsSeen, AppendCell, Cells
<1>2. line \in Record
  BY <1>1 DEF IInv, TypeOK, ArtifactInHand, AppendCell, Record
<1>3. journal' = Append(journal, line) /\ journal \in Seq(Record) /\ Len(journal) \in Nat
  BY DEF AppendCell, IInv, TypeOK
<1> HIDE DEF line
<1>4. /\ journal' \in Seq(Record) /\ Len(journal') = Len(journal) + 1
      /\ \A i \in 1 .. Len(journal) : journal'[i] = journal[i]
      /\ journal'[Len(journal) + 1] = line
  BY <1>2, <1>3, AppendProperties
<1>5. TypeOK'
  <2>1. file' \in [exists : BOOLEAN, torn : BOOLEAN, named : BOOLEAN]
    BY DEF IInv, TypeOK, AppendCell
  <2>2. mem' \in [cursor : 1 .. N + 1, completed : SUBSET Cells, head : 0 .. N,
                  created : BOOLEAN]
    BY DEF IInv, TypeOK, AppendCell
  <2>3. synced' \in 0 .. Len(journal')
    BY <1>3, <1>4 DEF IInv, TypeOK, AppendCell
  <2>4. QED
    BY <1>4, <2>1, <2>2, <2>3 DEF IInv, TypeOK, AppendCell, Steps
<1>6. JournalInOrder'
  <2>1. DOMAIN journal = 1 .. Len(journal) /\ DOMAIN journal' = 1 .. Len(journal) + 1
    BY <1>3, <1>4
  <2>2. line.item = Len(journal) + 1 /\ line.prev = Len(journal)
    BY <1>1 DEF line
  <2>3. QED
    BY <2>1, <2>2, <1>3, <1>4 DEF IInv, JournalInOrder
<1>7. MemoryFollowsJournal' /\ RewriteIsSeen' /\ ArtifactInHand'
  BY <1>1, <1>3, <1>4
  DEF IInv, TypeOK, MemoryFollowsJournal, RewriteIsSeen, ArtifactInHand, InCell, AppendCell
<1>8. QED
  BY <1>5, <1>6, <1>7 DEF IInv

(* A committed cell joins the completed ones and moves the cursor past it. *)
LEMMA SyncKeepsIInv ==
  ASSUME IInv, SyncJournal \/ SyncJournalEntry
  PROVE  IInv'
<1>1. /\ UNCHANGED <<journal, native, safeNative, status, safeStatus, canceled, budget>>
      /\ pc \in {"sync", "syncdir"} /\ outcome # "rewrite"
      /\ mem.cursor = Len(journal) /\ mem.completed = 1 .. Len(journal) - 1
  BY DEF IInv, MemoryFollowsJournal, RewriteIsSeen, SyncJournal, SyncJournalEntry
<1>2. /\ synced' \in 0 .. Len(journal)
      /\ file' \in [exists : BOOLEAN, torn : BOOLEAN, named : BOOLEAN]
  <2>1. Len(journal) \in Nat /\ synced \in 0 .. Len(journal)
    BY DEF IInv, TypeOK
  <2>2. synced' \in {synced, Len(journal)}
    BY DEF SyncJournal, SyncJournalEntry
  <2>3. file' \in [exists : BOOLEAN, torn : BOOLEAN, named : BOOLEAN]
    BY DEF IInv, TypeOK, SyncJournal, SyncJournalEntry
  <2>4. QED
    BY <2>1, <2>2, <2>3
<1>3. JournalInOrder'
  BY <1>1 DEF IInv, JournalInOrder
<1>4. CASE CellCommitted
  <2>1. mem.cursor \in 1 .. N /\ Len(journal) \in 1 .. N
    BY <1>1, OrderedJournal, EvalRunnerAssumption DEF IInv, TypeOK
  <2>2. /\ mem'.cursor = Len(journal) + 1 /\ mem'.completed = 1 .. Len(journal)
        /\ mem'.head = Len(journal)
    BY <1>1, <1>4, <2>1 DEF CellCommitted
  <2>3. mem' \in [cursor : 1 .. N + 1, completed : SUBSET Cells, head : 0 .. N, created : BOOLEAN]
    BY <1>1, <1>4, <2>1, EvalRunnerAssumption DEF CellCommitted, Cells
  <2>4. TypeOK'
    BY <1>1, <1>2, <1>4, <2>1, <2>3 DEF IInv, TypeOK, CellCommitted, Steps
  <2>5. MemoryFollowsJournal' /\ RewriteIsSeen' /\ ArtifactInHand'
    BY <1>1, <1>4, <2>1, <2>2
    DEF CellCommitted, MemoryFollowsJournal, RewriteIsSeen, ArtifactInHand, InCell, NoOutcome
  <2>6. QED
    BY <1>3, <2>4, <2>5 DEF IInv
<1>5. CASE pc' = "syncdir" /\ UNCHANGED <<acked, mem, outcome>>
  <2>1. TypeOK'
    BY <1>1, <1>2, <1>5 DEF IInv, TypeOK, Steps
  <2>2. QED
    BY <1>1, <1>3, <1>5, <2>1
    DEF IInv, MemoryFollowsJournal, RewriteIsSeen, ArtifactInHand, InCell
<1>6. QED
  BY <1>4, <1>5 DEF SyncJournal, SyncJournalEntry

-----------------------------------------------------------------------------
(* The steps before and after the cells, and the environment *)

(* The end of a run changes the status, or nothing the invariant reads. *)
LEMMA EndKeepsIInv ==
  ASSUME IInv, Audit \/ WriteSummary \/ PublishComplete \/ PublishFailed
  PROVE  IInv'
<1>1. /\ UNCHANGED <<journal, synced, native, safeNative, safeStatus, mem,
                     outcome, canceled, acked, budget>>
      /\ file' \in [exists : BOOLEAN, torn : BOOLEAN, named : BOOLEAN]
      /\ status' \in {"active", "complete", "failed"}
      /\ pc' \in {"summary", "status", "statussync", "fail", "failsync"}
      /\ outcome = "rewrite" => pc' = "failsync"
  BY DEF IInv, TypeOK, RewriteIsSeen, Audit, WriteSummary, PublishComplete, PublishFailed, store
<1>2. TypeOK'
  BY <1>1 DEF IInv, TypeOK, Steps
<1>3. QED
  BY <1>1, <1>2
  DEF IInv, JournalInOrder, MemoryFollowsJournal, RewriteIsSeen, ArtifactInHand, InCell

(* Resume rebuilds from the journal what the process before it knew. *)
LEMMA ResumeKeepsIInv ==
  ASSUME IInv, Resume
  PROVE  IInv'
<1>1. /\ UNCHANGED <<journal, native, safeNative, status, safeStatus,
                     outcome, canceled, acked, budget>>
      /\ outcome # "rewrite"
  BY DEF IInv, RewriteIsSeen, Resume
<1>2. /\ synced' \in 0 .. Len(journal)
      /\ file' \in [exists : BOOLEAN, torn : BOOLEAN, named : BOOLEAN]
  <2>1. Len(journal) \in Nat /\ synced \in 0 .. Len(journal)
    BY DEF IInv, TypeOK
  <2>2. synced' \in {synced, Len(journal)}
    BY DEF Resume
  <2>3. file' \in [exists : BOOLEAN, torn : BOOLEAN, named : BOOLEAN]
    BY DEF IInv, TypeOK, Resume
  <2>4. QED
    BY <2>1, <2>2, <2>3
<1>3. JournalInOrder'
  BY <1>1 DEF IInv, JournalInOrder
<1>4. CASE pc' = "pick" /\ mem' = [NoMemory EXCEPT !.completed = Items, !.head = JournalHead]
  <2>1. /\ mem'.cursor = 1 /\ mem'.head = Len(journal) /\ mem'.completed = 1 .. Len(journal)
        /\ mem' \in [cursor : 1 .. N + 1, completed : SUBSET Cells, head : 0 .. N,
                      created : BOOLEAN]
    <3>1. Items = 1 .. Len(journal) /\ JournalHead = Len(journal) /\ Len(journal) \in 0 .. N
      BY OrderedJournal DEF IInv
    <3>2. mem' = [cursor |-> 1, completed |-> 1 .. Len(journal), head |-> Len(journal),
                  created |-> FALSE]
      BY <1>4, <3>1 DEF NoMemory
    <3>3. 1 \in 1 .. N + 1 /\ 1 .. Len(journal) \in SUBSET Cells
      BY <3>1, EvalRunnerAssumption DEF Cells
    <3>4. QED
      BY <3>1, <3>2, <3>3
  <2>2. TypeOK'
    BY <1>1, <1>2, <1>4, <2>1 DEF IInv, TypeOK, Steps
  <2>3. MemoryFollowsJournal' /\ RewriteIsSeen' /\ ArtifactInHand'
    BY <1>1, <1>4, <2>1
    DEF IInv, TypeOK, MemoryFollowsJournal, RewriteIsSeen, ArtifactInHand, InCell
  <2>4. QED
    BY <1>3, <2>2, <2>3 DEF IInv
<1>5. CASE pc' = "fail" /\ UNCHANGED mem
  <2>1. TypeOK'
    BY <1>1, <1>2, <1>5 DEF IInv, TypeOK, Steps
  <2>2. QED
    BY <1>1, <1>3, <1>5, <2>1
    DEF IInv, MemoryFollowsJournal, RewriteIsSeen, ArtifactInHand, InCell
<1>6. QED
  BY <1>4, <1>5 DEF Resume

(* A cancellation is seen by a later step; it changes nothing by itself. *)
LEMMA CancelKeepsIInv ==
  ASSUME IInv, Cancel
  PROVE  IInv'
<1>1. TypeOK'
  BY InterruptIsBounded DEF IInv, TypeOK, Cancel, store
<1>2. QED
  BY <1>1
  DEF IInv, JournalInOrder, MemoryFollowsJournal, RewriteIsSeen, ArtifactInHand, InCell, Cancel, store

(* Storage gives back a prefix of the journal. *)
LEMMA PowerLossKeepsIInv ==
  ASSUME IInv, PowerLoss
  PROVE  IInv'
<1>1. PICK n \in 0 .. Len(journal) : journal' = SubSeq(journal, 1, n)
  <2>1. CASE journal' = <<>>
    BY <2>1, SubSeqEmpty DEF IInv, TypeOK
  <2>2. CASE \E kept \in synced .. Len(journal) : journal' = SubSeq(journal, 1, kept)
    BY <2>2 DEF IInv, TypeOK
  <2>3. QED
    BY <2>1, <2>2 DEF PowerLoss
<1>2. journal' \in Seq(Record) /\ Len(journal') \in Nat /\ JournalInOrder'
  BY <1>1, PrefixInOrder DEF IInv
<1>3. /\ file' \in [exists : BOOLEAN, torn : BOOLEAN, named : BOOLEAN]
      /\ synced' = Len(journal')
      /\ status' \in {"active", "complete", "failed"} /\ safeStatus' = status'
      /\ native' \in [Cells -> Artifacts \cup {NoArtifact}] /\ safeNative' = native'
      /\ Forget /\ acked' = acked
  <2>1. file' \in [exists : BOOLEAN, torn : BOOLEAN, named : BOOLEAN]
    <3>1. CASE \E kept \in synced .. Len(journal), torn \in BOOLEAN :
                 file' = [exists |-> TRUE, torn |-> torn, named |-> TRUE]
      BY <3>1
    <3>2. CASE file' = [exists |-> FALSE, torn |-> FALSE, named |-> FALSE]
      BY <3>2
    <3>3. QED
      BY <3>1, <3>2 DEF PowerLoss
  <2>2. /\ synced' = Len(journal') /\ safeStatus' = status' /\ safeNative' = native'
        /\ Forget /\ acked' = acked /\ status' \in {status, safeStatus}
        /\ native' \in [Cells -> Artifacts \cup {NoArtifact}]
    BY DEF PowerLoss
  <2>3. QED
    BY <2>1, <2>2 DEF IInv, TypeOK
<1>4. budget' \in [faults : 0 .. MaxFaults, interrupts : 0 .. MaxInterrupts,
                   losses : 0 .. MaxLosses]
  <2>1. budget.losses < MaxLosses /\ budget' = [budget EXCEPT !.losses = @ + 1]
    BY DEF PowerLoss
  <2>2. MaxLosses \in Nat
    BY EvalRunnerAssumption
  <2>3. QED
    BY <2>1, <2>2 DEF IInv, TypeOK
<1>5. TypeOK'
  BY <1>2, <1>3, <1>4, ForgottenIsTyped DEF IInv, TypeOK, Steps
<1>6. QED
  BY <1>2, <1>3, <1>5, ForgottenIsTyped
  DEF IInv, MemoryFollowsJournal, RewriteIsSeen, ArtifactInHand, InCell, NoOutcome

-----------------------------------------------------------------------------
(* A new run has an empty journal and has seen nothing else. *)
LEMMA InitIInv == Init => IInv
<1> SUFFICES ASSUME Init PROVE IInv
  OBVIOUS
<1>1. TypeOK
  <2>1. NoMemory \in [cursor : 1 .. N + 1, completed : SUBSET Cells, head : 0 .. N,
                      created : BOOLEAN]
    BY EvalRunnerAssumption DEF NoMemory
  <2>2. budget \in [faults : 0 .. MaxFaults, interrupts : 0 .. MaxInterrupts,
                    losses : 0 .. MaxLosses]
    BY EvalRunnerAssumption DEF Init
  <2>3. journal \in Seq(Record) /\ synced \in 0 .. Len(journal)
    BY DEF Init
  <2>4. QED
    BY <2>1, <2>2, <2>3 DEF Init, TypeOK, Steps
<1>2. JournalInOrder
  BY DEF Init, JournalInOrder
<1>3. MemoryFollowsJournal /\ RewriteIsSeen /\ ArtifactInHand
  BY DEF Init, MemoryFollowsJournal, InCell, RewriteIsSeen, ArtifactInHand, NoMemory, NoOutcome
<1>4. QED
  BY <1>1, <1>2, <1>3 DEF IInv

(* A process stops, fails the run, syncs its status, or dies. *)
Stops ==
  \/ FailStartCell \/ StopBetweenCells \/ RejectArm \/ LeaveAfterArm \/ FailCustody
  \/ StopBeforeAppend \/ FailAppend \/ FailSync \/ SyncStatus
  \/ StopBeforeComplete \/ FailComplete \/ FailTerminal \/ FailResume \/ Crash

(* Every way to stop is one StoppingKeepsIInv speaks of. *)
LEMMA StopsKeepsIInv ==
  ASSUME IInv, Stops
  PROVE  IInv'
<1>1. Forget \/ GoFail
  BY DEF Stops, FailStartCell, StopBetweenCells, RejectArm, LeaveAfterArm, FailCustody,
         StopBeforeAppend, FailAppend, FailSync, SyncStatus, StopBeforeComplete,
         FailComplete, FailTerminal, FailResume, Crash, LeaveOrFail
<1>2. /\ UNCHANGED <<journal, synced, native, safeNative, status, acked>>
      /\ safeStatus' \in {status, safeStatus}
  BY DEF Stops, FailStartCell, StopBetweenCells, RejectArm, LeaveAfterArm, FailCustody,
         StopBeforeAppend, FailAppend, FailSync, SyncStatus, StopBeforeComplete,
         FailComplete, FailTerminal, FailResume, Crash, store
<1>3. UNCHANGED file \/ PartialWrite
  BY DEF Stops, FailStartCell, StopBetweenCells, RejectArm, LeaveAfterArm, FailCustody,
         StopBeforeAppend, FailAppend, FailSync, SyncStatus, StopBeforeComplete,
         FailComplete, FailTerminal, FailResume, Crash, store
<1>4. UNCHANGED budget \/ Fault \/ Interrupt
  BY DEF Stops, FailStartCell, StopBetweenCells, RejectArm, LeaveAfterArm, FailCustody,
         StopBeforeAppend, FailAppend, FailSync, SyncStatus, StopBeforeComplete,
         FailComplete, FailTerminal, FailResume, Crash
<1>5. file' \in [exists : BOOLEAN, torn : BOOLEAN, named : BOOLEAN]
  BY <1>3, PartialWriteIsTyped DEF IInv, TypeOK
<1>6. budget' \in [faults : 0 .. MaxFaults, interrupts : 0 .. MaxInterrupts,
                   losses : 0 .. MaxLosses]
  BY <1>4, FaultIsBounded, InterruptIsBounded DEF IInv, TypeOK
<1>7. QED
  BY <1>1, <1>2, <1>5, <1>6, StoppingKeepsIInv

(* Every step of every process, and a power loss, keeps the invariant. *)
LEMMA StepKeepsIInv == IInv /\ [Next]_vars => IInv'
<1> SUFFICES ASSUME IInv, [Next]_vars PROVE IInv'
  OBVIOUS
<1>1. CASE Stops
  BY <1>1, StopsKeepsIInv
<1>2. CASE SkipCell
  BY <1>2, SkipCellKeepsIInv
<1>3. CASE StartCell
  BY <1>3, StartCellKeepsIInv
<1>4. CASE RunArm
  BY <1>4, RunArmKeepsIInv
<1>5. CASE RecordArmFailure \/ AcceptOutcome \/ OwnArtifact
  BY <1>5, CustodyKeepsIInv
<1>6. CASE AppendCell
  BY <1>6, AppendCellKeepsIInv
<1>7. CASE SyncJournal \/ SyncJournalEntry
  BY <1>7, SyncKeepsIInv
<1>8. CASE Audit \/ WriteSummary \/ PublishComplete \/ PublishFailed
  BY <1>8, EndKeepsIInv
<1>9. CASE Resume
  BY <1>9, ResumeKeepsIInv
<1>10. CASE Cancel
  BY <1>10, CancelKeepsIInv
<1>11. CASE PowerLoss
  BY <1>11, PowerLossKeepsIInv
<1>12. CASE UNCHANGED vars
  BY <1>12
  DEF vars, store, IInv, TypeOK, JournalInOrder, MemoryFollowsJournal, RewriteIsSeen,
      ArtifactInHand, InCell
<1>13. QED
  BY <1>1, <1>2, <1>3, <1>4, <1>5, <1>6, <1>7, <1>8, <1>9, <1>10, <1>11, <1>12
  DEF Next, Step, Execute, Done, Stops

(* The strengthened invariant holds of every behaviour, power losses included. *)
THEOREM Invariance == Spec => []IInv
<1>1. QED
  BY InitIInv, StepKeepsIInv, PTL DEF Spec

(* Every variable keeps its type: in particular no step commits a cell     *)
(* whose artifact is missing, or moves the cursor past the schedule.       *)
THEOREM TypeCorrect == Spec => []TypeOK
<1>1. IInv => TypeOK
  BY DEF IInv
<1>2. QED
  BY <1>1, Invariance, PTL

(* cells.jsonl is a prefix of the schedule, each cell once and chained to  *)
(* the one before, for every schedule, whatever the arms do and however    *)
(* often the run is interrupted, loses power and is resumed.               *)
THEOREM JournalAlwaysInOrder == Spec => []JournalInOrder
<1>1. IInv => JournalInOrder
  BY DEF IInv
<1>2. QED
  BY <1>1, Invariance, PTL

-----------------------------------------------------------------------------
(* The end of a run.  Without power losses, what the audit saw stays true  *)
(* until the status is published, and for ever after.                      *)

Whole == Len(journal) = N /\ JournalValid /\ ~ file.torn

(* The status follows the step of the process. *)
StatusFollowsStep ==
  /\ pc \notin {"down", "statussync", "failsync"} => status = "active"
  /\ pc = "failsync" => status = "failed"

(* Past the audit. *)
AtEnd == pc \in {"summary", "status", "statussync"} \/ status = "complete"

EndInv ==
  /\ StatusFollowsStep
  /\ AtEnd => Whole

(* A new run is active and has not been audited. *)
LEMMA InitEndInv == Init => EndInv
BY DEF Init, EndInv, AtEnd, StatusFollowsStep

(* Only an arm and the steps around it touch what the audit reads. *)
LEMMA WholeIsKept ==
  ASSUME Whole, UNCHANGED <<journal, native>>, file'.torn = file.torn
  PROVE  Whole'
BY DEF Whole, JournalValid

(* No step but the audit takes a run past the audit, and from there on none *)
(* touches what the audit read.                                             *)
LEMMA StepKeepsEndInv == IInv /\ EndInv /\ [Step]_vars => EndInv'
<1> SUFFICES ASSUME IInv, EndInv, [Step]_vars PROVE EndInv'
  OBVIOUS
<1>1. StatusFollowsStep'
  BY DEF EndInv, StatusFollowsStep, Step, Execute, Done, vars, store, Forget, GoFail, LeaveOrFail,
         SkipCell, StartCell, FailStartCell, StopBetweenCells, RunArm, ReturnOutcome,
         ReturnError, RewriteJournal, SpoilArtifact, ArmReturns, RejectArm, LeaveAfterArm,
         RecordArmFailure, AcceptOutcome, OwnArtifact, FailCustody, StopBeforeAppend,
         AppendCell, FailAppend, SyncJournal, SyncJournalEntry, CellCommitted, FailSync,
         Audit, WriteSummary, PublishComplete, PublishFailed, SyncStatus,
         StopBeforeComplete, FailComplete, FailTerminal, Resume, FailResume, Cancel, Crash
<1>2. CASE Audit
  <2>1. Len(journal) = N
    BY <1>2, OrderedJournal, EvalRunnerAssumption
    DEF IInv, TypeOK, MemoryFollowsJournal, Audit
  <2>2. pc' = "summary" => Whole'
    BY <1>2, <2>1, WholeIsKept DEF Audit, Whole, store
  <2>3. pc' \in {"summary", "fail"} /\ status' = "active"
    BY <1>2 DEF Audit, store, EndInv, StatusFollowsStep
  <2>4. QED
    BY <1>1, <2>2, <2>3 DEF EndInv, AtEnd
<1>3. CASE ~ Audit /\ AtEnd'
  <2>1. AtEnd
    BY <1>3
    DEF AtEnd, EndInv, StatusFollowsStep, Step, Execute, Done, vars, store, Forget, GoFail, LeaveOrFail,
        SkipCell, StartCell, FailStartCell, StopBetweenCells, RunArm, ReturnOutcome,
        ReturnError, RewriteJournal, SpoilArtifact, ArmReturns, RejectArm, LeaveAfterArm,
        RecordArmFailure, AcceptOutcome, OwnArtifact, FailCustody, StopBeforeAppend,
        AppendCell, FailAppend, SyncJournal, SyncJournalEntry, CellCommitted, FailSync,
        WriteSummary, PublishComplete, PublishFailed, SyncStatus,
        StopBeforeComplete, FailComplete, FailTerminal, Resume, FailResume, Cancel, Crash
  <2>2. pc \in {"summary", "status", "statussync"} \/ (pc = "down" /\ status = "complete")
    BY <2>1 DEF EndInv, AtEnd, StatusFollowsStep
  <2>3. UNCHANGED <<journal, native>>
    BY <1>3, <2>2
    DEF Step, Execute, Done, vars, store, Forget, GoFail, LeaveOrFail,
        SkipCell, StartCell, FailStartCell, StopBetweenCells, RunArm, ReturnOutcome,
        ReturnError, RewriteJournal, SpoilArtifact, ArmReturns, RejectArm, LeaveAfterArm,
        RecordArmFailure, AcceptOutcome, OwnArtifact, FailCustody, StopBeforeAppend,
        AppendCell, FailAppend, SyncJournal, SyncJournalEntry, CellCommitted, FailSync,
        WriteSummary, PublishComplete, PublishFailed, SyncStatus,
        StopBeforeComplete, FailComplete, FailTerminal, Resume, FailResume, Cancel, Crash
  <2>4. file'.torn = file.torn
    <3>1. \/ UNCHANGED file
          \/ file' = [file EXCEPT !.named = file.exists]
          \/ pc = "down" /\ status = "active"
      BY <1>3, <2>2
      DEF Step, Execute, Done, vars, store, Forget, GoFail, LeaveOrFail,
          SkipCell, StartCell, FailStartCell, StopBetweenCells, RunArm, ReturnOutcome,
          ReturnError, RewriteJournal, SpoilArtifact, ArmReturns, RejectArm, LeaveAfterArm,
          RecordArmFailure, AcceptOutcome, OwnArtifact, FailCustody, StopBeforeAppend,
          AppendCell, FailAppend, SyncJournal, SyncJournalEntry, CellCommitted, FailSync,
          WriteSummary, PublishComplete, PublishFailed, SyncStatus,
          StopBeforeComplete, FailComplete, FailTerminal, Resume, FailResume, Cancel, Crash
    <3>2. QED
      BY <2>2, <3>1 DEF IInv, TypeOK
  <2>5. QED
    BY <1>1, <2>1, <2>3, <2>4, WholeIsKept DEF EndInv
<1>4. CASE ~ AtEnd'
  BY <1>1, <1>4 DEF EndInv
<1>5. QED
  BY <1>2, <1>3, <1>4

(* A behaviour without power losses is one of Spec. *)
LEMMA StepIsNext == [Step]_vars => [Next]_vars
BY DEF Next

(* Without power losses both invariants hold of every state. *)
THEOREM EndInvariance == ProcessSpec => []IInv /\ []EndInv
<1>1. QED
  BY InitIInv, InitEndInv, StepKeepsIInv, StepKeepsEndInv, StepIsNext, PTL DEF ProcessSpec

(* A complete run has all N cells and every artifact they name, whatever   *)
(* the arms did: finalizeRun's audit is enough.                            *)
THEOREM CompleteIsAlwaysWhole == ProcessSpec => []CompleteIsWhole
<1>1. EndInv => CompleteIsWhole
  BY DEF EndInv, AtEnd, CompleteIsWhole, Whole
<1>2. QED
  BY <1>1, EndInvariance, PTL

-----------------------------------------------------------------------------
(* Refinement of EvidenceLog *)

(* What the journal records is the sequence 1, 2, ... up to its length. *)
LEMMA RecordedIsASequence ==
  ASSUME IInv
  PROVE  /\ Recorded = [k \in 1 .. Len(journal) |-> k]
         /\ Recorded \in Seq(Nat) /\ Len(Recorded) = Len(journal)
<1>1. Recorded = [k \in 1 .. Len(journal) |-> k] /\ Len(journal) \in Nat
  BY DEF IInv, TypeOK, JournalInOrder, Recorded
<1>2. QED
  BY <1>1

(* A new run is an empty log. *)
LEMMA InitRefines == Init => Log!LogInit
BY DEF Init, Log!LogInit, Recorded

(* An append records the next cell. *)
LEMMA AppendRefines ==
  ASSUME IInv, IInv', EndInv, AppendCell
  PROVE  Log!RecordCell
<1>1. /\ Len(journal') = Len(journal) + 1 /\ Len(journal) \in Nat
      /\ status = "active" /\ status' = status
  BY DEF AppendCell, IInv, TypeOK, EndInv, StatusFollowsStep
<1>2. Len(journal') <= N
  BY OrderedJournal, <1>1, AppendCellKeepsIInv, EvalRunnerAssumption
  DEF IInv, TypeOK, MemoryFollowsJournal, InCell, RewriteIsSeen, AppendCell
<1>3. /\ Recorded = [k \in 1 .. Len(journal) |-> k]
      /\ Recorded' = [k \in 1 .. Len(journal) + 1 |-> k]
      /\ Recorded \in Seq(Nat) /\ Len(Recorded) = Len(journal)
  BY RecordedIsASequence, <1>1 DEF IInv, TypeOK, JournalInOrder, Recorded
<1>4. Recorded' = Append(Recorded, Len(Recorded) + 1)
  BY <1>1, <1>3
<1>5. QED
  BY <1>1, <1>2, <1>3, <1>4, EvalRunnerAssumption DEF Log!RecordCell

(* A published status is the log's, and every other step leaves the log.   *)
LEMMA StepRefines ==
  ASSUME "rewrite" \notin Arms, IInv, IInv', EndInv, [Step]_vars
  PROVE  [Log!LogNext]_Log!logVars
<1>1. CASE AppendCell
  BY <1>1, AppendRefines DEF Log!LogNext
<1>2. CASE PublishComplete
  <2>1. Len(Recorded) = N /\ status = "active" /\ status' = "complete" /\ Recorded' = Recorded
    BY <1>2, RecordedIsASequence DEF PublishComplete, EndInv, AtEnd, StatusFollowsStep, Whole, Recorded
  <2>2. QED
    BY <2>1 DEF Log!LogNext, Log!CompleteRun
<1>3. CASE PublishFailed
  BY <1>3 DEF PublishFailed, EndInv, StatusFollowsStep, Recorded, Log!LogNext, Log!FailRun
<1>4. CASE ~ (AppendCell \/ PublishComplete \/ PublishFailed)
  <2>1. UNCHANGED <<journal, status>>
    BY <1>4
    DEF Step, Execute, Done, vars, store, 
        SkipCell, StartCell, FailStartCell, StopBetweenCells, RunArm, ReturnOutcome,
        ReturnError, RewriteJournal, SpoilArtifact, ArmReturns, RejectArm, LeaveAfterArm,
        RecordArmFailure, AcceptOutcome, OwnArtifact, FailCustody, StopBeforeAppend,
        FailAppend, SyncJournal, SyncJournalEntry, FailSync,
        Audit, WriteSummary, SyncStatus,
        StopBeforeComplete, FailComplete, FailTerminal, Resume, FailResume, Cancel, Crash
  <2>2. QED
    BY <2>1 DEF Recorded, Log!logVars
<1>5. QED
  BY <1>1, <1>2, <1>3, <1>4

(* When no arm rewrites the journal, a run is an append-only log of the    *)
(* schedule with one final status, through every crash and resumption.     *)
THEOREM Refinement ==
  ASSUME "rewrite" \notin Arms
  PROVE  ProcessSpec => RefinesLog
<1>1. IInv /\ IInv' /\ EndInv /\ [Step]_vars => [Log!LogNext]_Log!logVars
  BY StepRefines
<1>2. QED
  BY <1>1, InitRefines, EndInvariance, PTL DEF ProcessSpec, RefinesLog, Log!LogSpec

-----------------------------------------------------------------------------
(***************************************************************************)
(* What storage holds of a paired run, for every length of the schedule    *)
(* and every number of faults, interruptions and power losses, when its    *)
(* arms are honest: each returns an outcome whose artifact lies in the     *)
(* directory it was given, an ordinary error, or its own deadline error.   *)
(*                                                                         *)
(* A journal line is trusted because its artifact was owned before it, and *)
(* an append is trusted because whatever was written before it has been    *)
(* synced.  The second needs a run that was never stopped half way: a      *)
(* process that goes on after a failed append goes on to failRun.          *)
(***************************************************************************)

Honest == Arms \subseteq {"flat", "error", "deadline"}

(* What an honest arm did, and what of it becomes a cell. *)
HonestOutcome ==
  /\ outcome \in {"flat", "error", "deadline", NoOutcome}
  /\ pc = "own" => outcome \in {"flat", "error"}

(* The artifact about to be committed is on storage. *)
OwnedIsSafe == pc = "append" => safeNative[mem.cursor] = native[mem.cursor]

(* A process at work on a cell has a journal without a fragment. *)
TornStops == file.torn => pc \in {"down", "fail", "failsync"}

(* The status as processes and as storage see it, by the step reached. *)
StatusKnown ==
  /\ StatusFollowsStep
  /\ pc = "statussync" => status = "complete"
  /\ safeStatus \in {"active", status}

(* Nothing but a failing call makes the runner fail the run. *)
NeverFailed == budget.faults = 0 => status # "failed" /\ pc \notin {"fail", "failsync"}

NotCanceled == budget.interrupts = 0 => ~ canceled

JournalExists == Len(journal) > 0 => file.exists

AuditedLength == pc \in {"summary", "status", "statussync"} => Len(journal) = N

(* Storage has every line and, if there is a journal, its name. *)
UpToDate == synced = Len(journal) /\ (file.exists => file.named)

(* In an orderly run storage is up to date but for the append under way,   *)
(* or the run is being failed.                                             *)
StorageFollows ==
  Orderly =>
    /\ AppendIsDurable
    /\ pc \notin {"sync", "syncdir", "fail", "failsync"} /\ status # "failed" => UpToDate
    /\ pc = "sync" => file.exists /\ (mem.created \/ file.named)
    /\ pc = "syncdir" => file.exists /\ synced = Len(journal)
    /\ status = "complete" => Len(journal) = N

DInv ==
  /\ HonestOutcome /\ CellsBackedByArtifacts /\ OwnedIsSafe
  /\ TornStops /\ StatusKnown /\ NeverFailed
  /\ NotCanceled /\ JournalExists /\ AuditedLength /\ StorageFollows

-----------------------------------------------------------------------------
(* A journal in order over artifacts that are there is one Resume accepts. *)
LEMMA BackedIsValid ==
  ASSUME IInv, CellsBackedByArtifacts
  PROVE  JournalValid
BY DEF IInv, TypeOK, JournalInOrder, CellsBackedByArtifacts, JournalValid

(* The cells of the journal keep their artifacts while a step writes to    *)
(* the next cell of the schedule only.                                     *)
LEMMA BackedIsKept ==
  ASSUME IInv, CellsBackedByArtifacts, journal' = journal,
         \A c \in Cells \ {Len(journal) + 1} :
           native'[c] = native[c] /\ safeNative'[c] = safeNative[c]
  PROVE  CellsBackedByArtifacts'
<1>1. \A k \in DOMAIN journal : journal[k].item \in Cells \ {Len(journal) + 1}
  <2>1. TAKE k \in DOMAIN journal
  <2>2. Len(journal) \in 0 .. N /\ k \in 1 .. Len(journal) /\ journal[k].item = k
    BY OrderedJournal DEF IInv, TypeOK, JournalInOrder
  <2>3. QED
    BY <2>2, EvalRunnerAssumption DEF Cells
<1>2. QED
  BY <1>1 DEF CellsBackedByArtifacts

(* The cell at work on is the next one. *)
LEMMA CellAtWork ==
  ASSUME IInv, HonestOutcome, pc \in {"arm", "verify", "own", "append"}
  PROVE  /\ mem.cursor = Len(journal) + 1 /\ mem.cursor \in Cells
         /\ mem.head = Len(journal) /\ mem.completed = 1 .. Len(journal)
         /\ Len(journal) \in Nat
BY EvalRunnerAssumption
DEF IInv, TypeOK, MemoryFollowsJournal, InCell, HonestOutcome, NoOutcome, Cells

(* A new run has nothing to lose. *)
LEMMA InitDInv == Init => DInv
<1> SUFFICES ASSUME Init PROVE DInv
  OBVIOUS
<1>1. HonestOutcome /\ CellsBackedByArtifacts /\ OwnedIsSafe /\ TornStops
  BY DEF Init, HonestOutcome, CellsBackedByArtifacts, OwnedIsSafe, TornStops, NoOutcome
<1>2. StatusKnown /\ NeverFailed /\ NotCanceled /\ JournalExists /\ AuditedLength
  BY DEF Init, StatusKnown, StatusFollowsStep, NeverFailed, NotCanceled, JournalExists, AuditedLength
<1>3. StorageFollows
  BY DEF Init, StorageFollows, AppendIsDurable, UpToDate
<1>4. QED
  BY <1>1, <1>2, <1>3 DEF DInv

-----------------------------------------------------------------------------
(* The steps of one cell *)

(* A skipped cell changes the cursor and nothing else. *)
LEMMA SkipCellKeepsDInv ==
  ASSUME IInv, DInv, SkipCell
  PROVE  DInv'
<1>1. /\ UNCHANGED <<store, pc, outcome, canceled, acked, budget>> /\ pc = "pick"
  BY DEF SkipCell
<1>2. HonestOutcome' /\ CellsBackedByArtifacts' /\ OwnedIsSafe' /\ TornStops'
  BY <1>1 DEF store, DInv, HonestOutcome, CellsBackedByArtifacts, OwnedIsSafe, TornStops
<1>3. StatusKnown' /\ NeverFailed' /\ NotCanceled' /\ JournalExists' /\ AuditedLength'
  BY <1>1 DEF store, DInv, StatusKnown, StatusFollowsStep, NeverFailed, NotCanceled, JournalExists, AuditedLength
<1>4. StorageFollows'
  BY <1>1 DEF store, DInv, StorageFollows, AppendIsDurable, UpToDate, Orderly
<1>5. QED
  BY <1>2, <1>3, <1>4 DEF DInv

(* What the steps from StartCell to the append change: the artifacts of    *)
(* the cell at work on, and the step.                                      *)
CellStep ==
  /\ UNCHANGED <<journal, file, synced, status, safeStatus, mem, canceled, acked, budget>>
  /\ \A c \in Cells \ {Len(journal) + 1} :
       native'[c] = native[c] /\ safeNative'[c] = safeNative[c]
  /\ pc \in {"pick", "arm", "verify", "own"}
  /\ pc' \in {"arm", "verify", "own", "append"}
  /\ outcome' \in {"flat", "error", "deadline", NoOutcome}
  /\ pc' = "own" => outcome' \in {"flat", "error"}
  /\ pc' = "append" => safeNative'[mem.cursor] = native'[mem.cursor]

(* Such a step keeps the invariant. *)
LEMMA CellStepKeepsDInv ==
  ASSUME IInv, DInv, CellStep
  PROVE  DInv'
<1> USE DEF CellStep
<1>1. CellsBackedByArtifacts'
  BY BackedIsKept DEF DInv
<1>2. HonestOutcome' /\ OwnedIsSafe' /\ TornStops'
  BY DEF DInv, HonestOutcome, OwnedIsSafe, TornStops
<1>3. StatusKnown' /\ NeverFailed' /\ NotCanceled' /\ JournalExists' /\ AuditedLength'
  BY DEF DInv, StatusKnown, StatusFollowsStep, NeverFailed, NotCanceled, JournalExists, AuditedLength
<1>4. StorageFollows'
  BY DEF DInv, StorageFollows, AppendIsDurable, UpToDate, Orderly
<1>5. QED
  BY <1>1, <1>2, <1>3, <1>4 DEF DInv

(* The journal ends where the memory says, so the arm is called. *)
LEMMA StartCellIsCellStep ==
  ASSUME IInv, DInv, StartCell
  PROVE  CellStep
<1>1. mem.cursor = Len(journal) + 1 /\ mem.cursor <= N
  BY OrderedJournal, EvalRunnerAssumption
  DEF IInv, TypeOK, MemoryFollowsJournal, StartCell, Cells
<1>2. JournalHead = mem.head /\ ~ file.torn
  BY OrderedJournal DEF IInv, MemoryFollowsJournal, DInv, TornStops, StartCell
<1>3. outcome' = outcome /\ outcome \in {"flat", "error", "deadline", NoOutcome}
  BY DEF StartCell, DInv, HonestOutcome
<1>4. QED
  BY <1>1, <1>2, <1>3 DEF StartCell, CellStep, IInv, TypeOK

(* An honest arm writes where it was told to. *)
LEMMA RunArmIsCellStep ==
  ASSUME Honest, IInv, DInv, RunArm
  PROVE  CellStep
<1>1. pc = "arm"
  BY DEF RunArm, ReturnOutcome, ReturnError, RewriteJournal, SpoilArtifact, ArmReturns
<1>2. mem.cursor = Len(journal) + 1
  BY <1>1, CellAtWork DEF DInv
<1>3. CASE \E behaviour \in {"flat", "nested"}, content \in Contents :
             ReturnOutcome(behaviour, content)
  BY <1>2, <1>3 DEF ReturnOutcome, ArmReturns, CellStep, Honest, IInv, TypeOK
<1>4. CASE \E behaviour \in {"error", "deadline", "invalid"} : ReturnError(behaviour)
  BY <1>4 DEF ReturnError, ArmReturns, CellStep, Honest
<1>5. CASE RewriteJournal \/ \E other \in Cells, content \in Contents : SpoilArtifact(other, content)
  BY <1>5 DEF RewriteJournal, SpoilArtifact, ArmReturns, Honest
<1>6. QED
  BY <1>3, <1>4, <1>5 DEF RunArm

(* What is owned is what storage holds of it. *)
LEMMA CustodyIsCellStep ==
  ASSUME IInv, DInv, RecordArmFailure \/ AcceptOutcome \/ OwnArtifact
  PROVE  CellStep
<1>1. pc \in {"verify", "own"}
  BY DEF RecordArmFailure, AcceptOutcome, OwnArtifact
<1>2. mem.cursor = Len(journal) + 1 /\ mem.cursor \in Cells
  BY <1>1, CellAtWork DEF DInv
<1>3. CASE RecordArmFailure
  BY <1>2, <1>3 DEF RecordArmFailure, CellStep, IInv, TypeOK
<1>4. CASE AcceptOutcome
  BY <1>4 DEF AcceptOutcome, CellStep, store, DInv, HonestOutcome, NoOutcome
<1>5. CASE OwnArtifact
  BY <1>2, <1>5 DEF OwnArtifact, CellStep, IInv, TypeOK, DInv, HonestOutcome
<1>6. QED
  BY <1>3, <1>4, <1>5

-----------------------------------------------------------------------------
(* AppendJSONL *)

(* The line written names an artifact that is in view and on storage. *)
LEMMA AppendCellKeepsDInv ==
  ASSUME IInv, IInv', DInv, AppendCell
  PROVE  DInv'
<1> DEFINE line == [item |-> mem.cursor, prev |-> mem.head, artifact |-> native[mem.cursor]]
<1>1. /\ UNCHANGED <<synced, native, safeNative, status, safeStatus, outcome, canceled, acked, budget>>
      /\ pc = "append" /\ pc' = "sync" /\ journal' = Append(journal, line)
      /\ file' = [file EXCEPT !.exists = TRUE]
      /\ mem' = [mem EXCEPT !.created = ~ file.exists]
  BY DEF AppendCell
<1>2. /\ file'.exists /\ file'.torn = file.torn /\ file'.named = file.named
      /\ mem'.created = ~ file.exists
  BY <1>1 DEF IInv, TypeOK
<1>3. CellsBackedByArtifacts'
  <2>1. journal \in Seq(Record) /\ DOMAIN journal = 1 .. Len(journal)
    BY DEF IInv, TypeOK
  <2>2. line.item = mem.cursor /\ line.artifact = native[mem.cursor]
    OBVIOUS
  <2>3. native[line.item] = line.artifact /\ safeNative[line.item] = line.artifact
    BY <1>1, <2>2 DEF DInv, OwnedIsSafe
  <2> HIDE DEF line
  <2>4. \A k \in DOMAIN journal' : journal'[k] = line \/ (k \in DOMAIN journal /\ journal'[k] = journal[k])
    BY <1>1, <2>1
  <2>5. QED
    BY <1>1, <2>3, <2>4 DEF DInv, CellsBackedByArtifacts
<1>4. HonestOutcome' /\ OwnedIsSafe' /\ TornStops'
  BY <1>1, <1>2 DEF DInv, HonestOutcome, OwnedIsSafe, TornStops
<1>5. StatusKnown' /\ NeverFailed' /\ NotCanceled' /\ JournalExists' /\ AuditedLength'
  BY <1>1, <1>2 DEF DInv, StatusKnown, StatusFollowsStep, NeverFailed, NotCanceled, JournalExists, AuditedLength
<1>6. StorageFollows'
  BY <1>1, <1>2 DEF DInv, StorageFollows, StatusKnown, StatusFollowsStep, AppendIsDurable, UpToDate, Orderly
<1>7. QED
  BY <1>3, <1>4, <1>5, <1>6 DEF DInv

(* The sync that returns success covers the line, and the name of a journal *)
(* this append created is synced before it counts.                         *)
LEMMA SyncKeepsDInv ==
  ASSUME IInv, DInv, SyncJournal \/ SyncJournalEntry
  PROVE  DInv'
<1>1. /\ UNCHANGED <<journal, native, safeNative, status, safeStatus, canceled, budget>>
      /\ pc \in {"sync", "syncdir"} /\ synced \in 0 .. Len(journal) /\ Len(journal) \in Nat
  BY DEF SyncJournal, SyncJournalEntry, IInv, TypeOK
<1>2. /\ file'.exists = file.exists /\ file'.torn = file.torn
      /\ file'.named = (file.named \/ pc = "syncdir")
      /\ synced' = IF pc = "sync" THEN Len(journal) ELSE synced
  BY DEF SyncJournal, SyncJournalEntry, IInv, TypeOK
<1>3. \/ /\ pc = "sync" /\ mem.created /\ pc' = "syncdir" /\ UNCHANGED <<acked, mem, outcome>>
      \/ /\ pc = "sync" => ~ mem.created
         /\ pc' = "pick" /\ acked' = Len(journal) /\ outcome' = NoOutcome
  BY DEF SyncJournal, SyncJournalEntry, CellCommitted
<1>4. HonestOutcome' /\ CellsBackedByArtifacts' /\ OwnedIsSafe' /\ TornStops'
  BY <1>1, <1>2, <1>3 DEF DInv, HonestOutcome, CellsBackedByArtifacts, OwnedIsSafe, TornStops
<1>5. StatusKnown' /\ NeverFailed' /\ NotCanceled' /\ JournalExists' /\ AuditedLength'
  BY <1>1, <1>2, <1>3
  DEF DInv, StatusKnown, StatusFollowsStep, NeverFailed, NotCanceled, JournalExists, AuditedLength
<1>6. StorageFollows'
  <2> SUFFICES ASSUME Orderly PROVE StorageFollows'
    BY <1>1 DEF StorageFollows, Orderly
  <2>1. /\ AppendIsDurable /\ status = "active" /\ acked \in Nat
        /\ pc = "sync" => file.exists /\ (mem.created \/ file.named)
        /\ pc = "syncdir" => synced = Len(journal) /\ file.exists
    BY <1>1 DEF DInv, StorageFollows, StatusKnown, StatusFollowsStep, IInv, TypeOK
  <2>2. synced' = Len(journal) /\ file'.exists
    BY <1>2, <2>1, <1>1
  <2>3. CASE pc = "sync" /\ mem.created /\ pc' = "syncdir" /\ UNCHANGED acked
    <3>1. acked' = acked /\ acked <= synced'
      BY <1>1, <2>1, <2>2, <2>3 DEF AppendIsDurable
    <3>2. acked' > 0 => file'.named
      BY <1>2, <2>1, <3>1 DEF AppendIsDurable
    <3>3. AppendIsDurable'
      BY <3>1, <3>2 DEF AppendIsDurable
    <3>4. QED
      BY <1>1, <2>1, <2>2, <2>3, <3>3 DEF StorageFollows
  <2>4. CASE (pc = "sync" => ~ mem.created) /\ pc' = "pick" /\ acked' = Len(journal)
    <3>1. file'.named
      BY <1>1, <1>2, <2>1, <2>4
    <3>2. AppendIsDurable' /\ UpToDate'
      BY <1>1, <2>2, <2>4, <3>1 DEF AppendIsDurable, UpToDate
    <3>3. QED
      BY <1>1, <2>1, <2>4, <3>2 DEF StorageFollows
  <2>5. QED
    BY <1>3, <2>3, <2>4
<1>7. QED
  BY <1>4, <1>5, <1>6 DEF DInv

-----------------------------------------------------------------------------
(* The end of the run *)

(* What the audit counts is what it reads. *)
LEMMA AuditPasses ==
  ASSUME IInv, DInv, Audit
  PROVE  pc' = "summary" /\ Len(journal) = N
<1>1. Len(journal) = N /\ mem.completed = 1 .. N
  BY OrderedJournal, EvalRunnerAssumption DEF IInv, TypeOK, MemoryFollowsJournal, Audit
<1>2. Cardinality(1 .. N) = N
  BY FS_Interval, EvalRunnerAssumption
<1>3. JournalValid /\ ~ file.torn
  BY BackedIsValid DEF DInv, TornStops, Audit
<1>4. QED
  BY <1>1, <1>2, <1>3 DEF Audit

(* The steps to the final status keep the invariant. *)
LEMMA EndKeepsDInv ==
  ASSUME IInv, DInv, Audit \/ WriteSummary \/ PublishComplete \/ PublishFailed
  PROVE  DInv'
<1>1. /\ UNCHANGED <<journal, synced, native, safeNative, safeStatus, mem, outcome, canceled, acked, budget>>
      /\ file'.exists = file.exists /\ file'.torn = file.torn
      /\ file'.named = file.named \/ (pc = "summary" /\ file'.named = file.exists)
      /\ synced \in 0 .. Len(journal) /\ Len(journal) \in Nat /\ acked \in Nat
  BY DEF Audit, WriteSummary, PublishComplete, PublishFailed, store, IInv, TypeOK
<1>2. \/ pc = "pick" /\ pc' = "summary" /\ status' = status /\ Len(journal) = N
      \/ pc = "summary" /\ pc' = "status" /\ status' = status
      \/ pc = "status" /\ pc' = "statussync" /\ status' = "complete"
      \/ pc = "fail" /\ pc' = "failsync" /\ status' = "failed"
  BY AuditPasses DEF Audit, WriteSummary, PublishComplete, PublishFailed, store
<1>3. HonestOutcome' /\ CellsBackedByArtifacts' /\ OwnedIsSafe' /\ TornStops'
  BY <1>1, <1>2 DEF DInv, HonestOutcome, CellsBackedByArtifacts, OwnedIsSafe, TornStops
<1>4. StatusKnown' /\ NeverFailed' /\ NotCanceled' /\ JournalExists' /\ AuditedLength'
  BY <1>1, <1>2
  DEF DInv, StatusKnown, StatusFollowsStep, NeverFailed, NotCanceled, JournalExists, AuditedLength
<1>5. StorageFollows'
  BY <1>1, <1>2
  DEF DInv, StorageFollows, StatusKnown, StatusFollowsStep, AuditedLength, JournalExists,
      AppendIsDurable, UpToDate, Orderly
<1>6. QED
  BY <1>3, <1>4, <1>5 DEF DInv

-----------------------------------------------------------------------------
(* A process stops *)

(* What a process that stops leaves, and when it fails the run instead. *)
StopFields ==
  /\ UNCHANGED <<journal, synced, native, safeNative, status, acked>>
  /\ safeStatus' \in {safeStatus, status}
  /\ file'.named = file.named /\ (file.exists => file'.exists)
  /\ budget.faults = 0 \/ budget'.faults # 0
  /\ Orderly' => Orderly
  /\ \/ pc' = "down" /\ outcome' = NoOutcome /\ ~ canceled'
     \/ /\ pc' = "fail" /\ outcome' = outcome /\ canceled' = canceled /\ status = "active"
        /\ budget'.faults > 0 /\ (budget'.interrupts = 0 => budget.interrupts = 0)
  /\ Orderly' /\ pc' = "down" =>
       file' = file /\ pc \in {"verify", "statussync", "failsync"}

(* A system call that fails, and an interruption, are counted. *)
LEMMA Counted ==
  ASSUME TypeOK
  PROVE  /\ Fault => /\ budget'.faults > 0 /\ budget'.interrupts = budget.interrupts
                     /\ Orderly' => Orderly /\ budget.faults = 0
         /\ Interrupt => budget'.faults = budget.faults /\ budget'.interrupts > 0
<1>1. budget.faults \in Nat /\ budget.interrupts \in Nat
  BY EvalRunnerAssumption DEF TypeOK
<1>2. ASSUME Fault
      PROVE  budget'.faults = budget.faults + 1 /\ budget'.interrupts = budget.interrupts
  BY <1>2 DEF Fault, TypeOK
<1>3. ASSUME Interrupt
      PROVE  budget'.faults = budget.faults /\ budget'.interrupts = budget.interrupts + 1
  BY <1>3 DEF Interrupt, TypeOK
<1>4. QED
  BY <1>1, <1>2, <1>3 DEF Orderly

(* A fragment or an empty file takes no name away. *)
LEMMA PartialWriteFields ==
  ASSUME TypeOK, PartialWrite
  PROVE  file'.named = file.named /\ (file.exists => file'.exists)
BY DEF TypeOK, PartialWrite

(* Every way to stop leaves that. *)
LEMMA StopsFields ==
  ASSUME IInv, DInv, Stops
  PROVE  StopFields
<1> TypeOK
  BY DEF IInv
<1> USE DEF StopFields
<1>1. CASE StopBetweenCells \/ StopBeforeAppend \/ StopBeforeComplete
  BY <1>1 DEF StopBetweenCells, StopBeforeAppend, StopBeforeComplete, Forget, store, DInv, NotCanceled, Orderly
<1>2. CASE LeaveAfterArm
  BY <1>2 DEF LeaveAfterArm, Forget, store, Orderly
<1>3. CASE RejectArm
  BY <1>3 DEF RejectArm, DInv, HonestOutcome, NoOutcome
<1>4. CASE FailStartCell \/ FailCustody \/ FailResume
  BY <1>4, Counted
  DEF FailStartCell, FailCustody, FailResume, GoFail, store, DInv, StatusKnown, StatusFollowsStep
<1>5. CASE FailSync \/ FailComplete
  BY <1>5, Counted
  DEF FailSync, FailComplete, LeaveOrFail, GoFail, Forget, store, DInv, NotCanceled, StatusKnown, StatusFollowsStep, Orderly
<1>6. CASE FailAppend
  BY <1>6, Counted, PartialWriteFields
  DEF FailAppend, LeaveOrFail, GoFail, Forget, store, DInv, NotCanceled, StatusKnown, StatusFollowsStep, Orderly
<1>7. CASE SyncStatus
  BY <1>7 DEF SyncStatus, Forget, Orderly
<1>8. CASE FailTerminal
  BY <1>8, Counted DEF FailTerminal, Forget, store, DInv, NeverFailed
<1>9. CASE Crash
  BY <1>9, Counted, PartialWriteFields DEF Crash, Forget, Orderly
<1>10. QED
  BY <1>1, <1>2, <1>3, <1>4, <1>5, <1>6, <1>7, <1>8, <1>9 DEF Stops

(* And keeps the invariant. *)
LEMMA StopsKeepsDInv ==
  ASSUME IInv, IInv', DInv, Stops
  PROVE  DInv'
<1> USE DEF StopFields
<1>1. StopFields
  BY StopsFields
<1>2. HonestOutcome' /\ CellsBackedByArtifacts' /\ OwnedIsSafe' /\ TornStops'
  BY <1>1 DEF DInv, HonestOutcome, CellsBackedByArtifacts, OwnedIsSafe, TornStops, NoOutcome
<1>3. StatusKnown'
  BY <1>1 DEF DInv, StatusKnown, StatusFollowsStep
<1>4. NeverFailed'
  BY <1>1 DEF DInv, NeverFailed, StatusKnown, StatusFollowsStep, IInv, TypeOK
<1>5. NotCanceled' /\ JournalExists' /\ AuditedLength'
  BY <1>1 DEF DInv, NotCanceled, JournalExists, AuditedLength
<1>6. StorageFollows'
  <2> SUFFICES ASSUME Orderly' PROVE StorageFollows'
    BY DEF StorageFollows
  <2>1. /\ Orderly /\ AppendIsDurable /\ (status = "complete" => Len(journal) = N)
        /\ pc = "verify" \/ (pc = "statussync" /\ status = "complete") => UpToDate
        /\ pc = "failsync" => status = "failed"
        /\ pc = "statussync" => status = "complete"
    BY <1>1 DEF DInv, StorageFollows, StatusKnown, StatusFollowsStep
  <2>2. AppendIsDurable' /\ (status' = "complete" => Len(journal') = N)
    BY <1>1, <2>1 DEF AppendIsDurable
  <2>3. pc' = "down" /\ status' # "failed" => UpToDate'
    BY <1>1, <2>1 DEF UpToDate
  <2>4. pc' \in {"down", "fail"}
    BY <1>1
  <2>5. QED
    BY <2>2, <2>3, <2>4 DEF StorageFollows
<1>7. QED
  BY <1>2, <1>3, <1>4, <1>5, <1>6 DEF DInv

-----------------------------------------------------------------------------
(* A process comes back, is canceled, or power is lost *)

(* Resume syncs what it repairs, and finds a journal it accepts. *)
LEMMA ResumeKeepsDInv ==
  ASSUME IInv, DInv, Resume
  PROVE  DInv'
<1>1. /\ UNCHANGED <<journal, native, safeNative, status, safeStatus, outcome, canceled, acked, budget>>
      /\ pc = "down" /\ status = "active" /\ pc' = "pick"
      /\ acked \in Nat /\ synced \in 0 .. Len(journal) /\ Len(journal) \in Nat
  BY BackedIsValid DEF Resume, DInv, IInv, TypeOK
<1>2. \/ UNCHANGED <<file, synced>> /\ ~ file.torn
      \/ /\ file'.exists = file.exists /\ ~ file'.torn /\ file'.named /\ synced' = Len(journal)
  BY DEF Resume, IInv, TypeOK
<1>3. HonestOutcome' /\ CellsBackedByArtifacts' /\ OwnedIsSafe' /\ TornStops'
  BY <1>1, <1>2 DEF DInv, HonestOutcome, CellsBackedByArtifacts, OwnedIsSafe, TornStops
<1>4. StatusKnown' /\ NeverFailed' /\ NotCanceled' /\ JournalExists' /\ AuditedLength'
  BY <1>1, <1>2
  DEF DInv, StatusKnown, StatusFollowsStep, NeverFailed, NotCanceled, JournalExists, AuditedLength
<1>5. StorageFollows'
  BY <1>1, <1>2 DEF DInv, StorageFollows, AppendIsDurable, UpToDate, Orderly
<1>6. QED
  BY <1>3, <1>4, <1>5 DEF DInv

(* A canceled run is not one that was never interrupted. *)
LEMMA CancelKeepsDInv ==
  ASSUME IInv, DInv, Cancel
  PROVE  DInv'
<1>1. /\ UNCHANGED <<store, pc, mem, outcome, acked>>
      /\ budget'.faults = budget.faults /\ budget'.interrupts > 0
  BY Counted DEF Cancel, IInv
<1>2. HonestOutcome' /\ CellsBackedByArtifacts' /\ OwnedIsSafe' /\ TornStops'
  BY <1>1 DEF store, DInv, HonestOutcome, CellsBackedByArtifacts, OwnedIsSafe, TornStops
<1>3. StatusKnown' /\ NeverFailed' /\ NotCanceled' /\ JournalExists' /\ AuditedLength'
  BY <1>1
  DEF store, DInv, StatusKnown, StatusFollowsStep, NeverFailed, NotCanceled, JournalExists, AuditedLength
<1>4. StorageFollows'
  BY <1>1 DEF StorageFollows, Orderly
<1>5. QED
  BY <1>2, <1>3, <1>4 DEF DInv

(* What storage keeps is a journal whose artifacts it keeps too; the lines *)
(* it loses were never acknowledged, and none are lost of a complete run.  *)
LEMMA PowerLossKeepsDInv ==
  ASSUME IInv, DInv, PowerLoss
  PROVE  DInv'
<1>1. /\ pc' = "down" /\ outcome' = NoOutcome /\ ~ canceled' /\ acked' = acked
      /\ budget'.faults = budget.faults /\ budget'.interrupts = budget.interrupts
      /\ status' \in {status, safeStatus} /\ safeStatus' = status'
      /\ synced' = Len(journal')
  BY DEF PowerLoss, Forget, IInv, TypeOK
<1>2. /\ acked \in Nat /\ synced \in 0 .. Len(journal) /\ Len(journal) \in Nat
      /\ journal \in Seq(Record) /\ DOMAIN journal = 1 .. Len(journal)
  BY DEF IInv, TypeOK
<1>3. /\ Len(journal') \in 0 .. Len(journal) /\ DOMAIN journal' = 1 .. Len(journal')
      /\ \A k \in DOMAIN journal' : journal'[k] = journal[k]
      /\ file.named => synced <= Len(journal') /\ file'.exists
      /\ (file'.exists /\ file'.named) \/ (Len(journal') = 0 /\ ~ file'.exists /\ ~ file'.named)
  <2>1. CASE \E kept \in synced .. Len(journal), torn \in BOOLEAN :
               /\ journal' = SubSeq(journal, 1, kept)
               /\ file' = [exists |-> TRUE, torn |-> torn, named |-> TRUE]
    BY <1>2, <2>1, SubSeqProperties
  <2>2. CASE /\ ~ file.named /\ journal' = <<>>
             /\ file' = [exists |-> FALSE, torn |-> FALSE, named |-> FALSE]
    BY <1>2, <2>2
  <2>3. QED
    BY <2>1, <2>2 DEF PowerLoss
<1>4. CellsBackedByArtifacts'
  <2>1. SUFFICES ASSUME NEW k \in DOMAIN journal'
                 PROVE  /\ native'[journal'[k].item] = journal'[k].artifact
                        /\ safeNative'[journal'[k].item] = journal'[k].artifact
    BY DEF CellsBackedByArtifacts
  <2>2. k \in DOMAIN journal /\ journal'[k] = journal[k] /\ journal[k].item \in Cells
    <3>1. k \in DOMAIN journal /\ journal'[k] = journal[k]
      BY <1>2, <1>3
    <3>2. journal[k] \in Record
      BY <1>2, <3>1
    <3>3. QED
      BY <3>1, <3>2 DEF Record
  <2>3. native[journal[k].item] = journal[k].artifact /\ safeNative[journal[k].item] = journal[k].artifact
    BY <2>2 DEF DInv, CellsBackedByArtifacts
  <2>4. QED
    BY <2>2, <2>3 DEF PowerLoss
<1>5. HonestOutcome' /\ OwnedIsSafe' /\ TornStops' /\ StatusKnown' /\ AuditedLength'
  BY <1>1 DEF DInv, HonestOutcome, OwnedIsSafe, TornStops, StatusKnown, StatusFollowsStep, AuditedLength
<1>6. NeverFailed'
  BY <1>1 DEF DInv, NeverFailed, StatusKnown
<1>7. NotCanceled' /\ JournalExists'
  BY <1>1, <1>3 DEF NotCanceled, JournalExists
<1>8. StorageFollows'
  <2> SUFFICES ASSUME Orderly' PROVE StorageFollows'
    BY DEF StorageFollows
  <2>1. AppendIsDurable /\ (status = "complete" => Len(journal) = N /\ UpToDate)
    BY <1>1 DEF DInv, StorageFollows, StatusKnown, StatusFollowsStep, Orderly
  <2>2. AppendIsDurable'
    BY <1>1, <1>2, <1>3, <2>1 DEF AppendIsDurable
  <2>3. UpToDate'
    BY <1>1, <1>3 DEF UpToDate
  <2>4. status' = "complete" => Len(journal') = N
    <3> SUFFICES ASSUME status' = "complete" PROVE Len(journal') = N
      OBVIOUS
    <3>1. Len(journal) = N /\ synced = Len(journal) /\ (file.exists => file.named)
      BY <1>1, <2>1 DEF DInv, StatusKnown, UpToDate
    <3>2. CASE file.named
      BY <1>2, <1>3, <3>1, <3>2
    <3>3. CASE Len(journal) = 0
      BY <1>3, <3>1, <3>3
    <3>4. Len(journal) > 0 => file.named
      BY <3>1 DEF DInv, JournalExists
    <3>5. QED
      BY <1>2, <3>2, <3>3, <3>4
  <2>5. QED
    BY <1>1, <2>2, <2>3, <2>4 DEF StorageFollows
<1>9. QED
  BY <1>4, <1>5, <1>6, <1>7, <1>8 DEF DInv

-----------------------------------------------------------------------------
(* The theorems *)

(* Every step of honest arms, and a power loss, keeps the invariant. *)
LEMMA StepKeepsDInv ==
  ASSUME Honest
  PROVE  IInv /\ DInv /\ [Next]_vars => DInv'
<1> SUFFICES ASSUME IInv, DInv, [Next]_vars PROVE DInv'
  OBVIOUS
<1>1. IInv'
  BY StepKeepsIInv
<1>2. CASE Stops
  BY <1>1, <1>2, StopsKeepsDInv
<1>3. CASE SkipCell
  BY <1>3, SkipCellKeepsDInv
<1>4. CASE StartCell
  BY <1>4, StartCellIsCellStep, CellStepKeepsDInv
<1>5. CASE RunArm
  BY <1>5, RunArmIsCellStep, CellStepKeepsDInv
<1>6. CASE RecordArmFailure \/ AcceptOutcome \/ OwnArtifact
  BY <1>6, CustodyIsCellStep, CellStepKeepsDInv
<1>7. CASE AppendCell
  BY <1>1, <1>7, AppendCellKeepsDInv
<1>8. CASE SyncJournal \/ SyncJournalEntry
  BY <1>8, SyncKeepsDInv
<1>9. CASE Audit \/ WriteSummary \/ PublishComplete \/ PublishFailed
  BY <1>9, EndKeepsDInv
<1>10. CASE Resume
  BY <1>10, ResumeKeepsDInv
<1>11. CASE Cancel
  BY <1>11, CancelKeepsDInv
<1>12. CASE PowerLoss
  BY <1>12, PowerLossKeepsDInv
<1>13. CASE UNCHANGED vars
  <2>1. HonestOutcome' /\ CellsBackedByArtifacts' /\ OwnedIsSafe' /\ TornStops'
    BY <1>13 DEF vars, store, DInv, HonestOutcome, CellsBackedByArtifacts, OwnedIsSafe, TornStops
  <2>2. StatusKnown' /\ NeverFailed' /\ NotCanceled' /\ JournalExists' /\ AuditedLength'
    BY <1>13
    DEF vars, store, DInv, StatusKnown, StatusFollowsStep, NeverFailed, NotCanceled, JournalExists,
        AuditedLength
  <2>3. StorageFollows'
    BY <1>13 DEF vars, store, DInv, StorageFollows, AppendIsDurable, UpToDate, Orderly
  <2>4. QED
    BY <2>1, <2>2, <2>3 DEF DInv
<1>14. QED
  BY <1>2, <1>3, <1>4, <1>5, <1>6, <1>7, <1>8, <1>9, <1>10, <1>11, <1>12, <1>13
  DEF Next, Step, Execute, Done, Stops

(* The invariant holds of every behaviour of honest arms. *)
THEOREM DurabilityInvariance ==
  ASSUME Honest
  PROVE  Spec => []IInv /\ []DInv
<1>1. Init => DInv
  BY InitDInv
<1>2. IInv /\ DInv /\ [Next]_vars => DInv'
  BY StepKeepsDInv
<1>3. QED
  BY <1>1, <1>2, Invariance, PTL DEF Spec

(* A cell in the journal of honest arms has its artifact, in view and on   *)
(* storage, whatever fails, dies or loses power.                           *)
THEOREM CellsStayBacked ==
  ASSUME Honest
  PROVE  Spec => []CellsBackedByArtifacts
<1>1. DInv => CellsBackedByArtifacts
  BY DEF DInv
<1>2. QED
  BY <1>1, DurabilityInvariance, PTL

(* Interruptions, deadlines and power losses alone never make the runner   *)
(* declare a run of honest arms failed.                                    *)
THEOREM OnlyFaultsFail ==
  ASSUME Honest
  PROVE  Spec => []InterruptionNeverFails
<1>1. DInv => InterruptionNeverFails
  BY DEF DInv, NeverFailed, InterruptionNeverFails
<1>2. QED
  BY <1>1, DurabilityInvariance, PTL

(* In an orderly run an append that returned success survives every power  *)
(* loss, with the name of its file.                                        *)
THEOREM AckedCellsStay ==
  ASSUME Honest
  PROVE  Spec => []AckedCellsDurable
<1>1. DInv => AckedCellsDurable
  BY DEF DInv, StorageFollows, AckedCellsDurable
<1>2. QED
  BY <1>1, DurabilityInvariance, PTL

(* In an orderly run, what storage holds as complete has all its cells on  *)
(* storage.                                                                *)
THEOREM StoredCompleteIsWhole ==
  ASSUME Honest
  PROVE  Spec => []DurableCompleteIsWhole
<1>1. IInv /\ DInv => DurableCompleteIsWhole
  <2> SUFFICES ASSUME IInv, DInv, Orderly, safeStatus = "complete" PROVE CompleteIsDurable
    BY DEF DurableCompleteIsWhole, CompleteIsDurable
  <2>1. status = "complete" /\ pc \in {"down", "statussync"}
    BY DEF DInv, StatusKnown, StatusFollowsStep, IInv, TypeOK, Steps
  <2>2. Len(journal) = N /\ UpToDate
    BY <2>1 DEF DInv, StorageFollows
  <2>3. QED
    BY <2>2 DEF DInv, JournalExists, UpToDate, CompleteIsDurable
<1>2. QED
  BY <1>1, DurabilityInvariance, PTL
=============================================================================
