------------------------------ MODULE EvalRunner ------------------------------
(***************************************************************************)
(* The paired-evaluation runner pkg/eval over one run directory: the       *)
(* schedule of cells, the arm of each, the native artifact an arm leaves,  *)
(* the journal results/cells.jsonl, and the final status; with arms that   *)
(* fail or misbehave, cancellations, dying processes, failing system calls *)
(* and power losses between any two steps.                                 *)
(*                                                                         *)
(* A cell of the schedule is its position in buildSchedule's order, 1 .. N.*)
(* The digest of a cell is abstracted to the position it seals, 0 for the  *)
(* empty digest that starts the chain.  The run is created and its inputs  *)
(* are bound; RunStore models how.                                         *)
(***************************************************************************)
EXTENDS Naturals, Sequences, FiniteSets, SequencesExt

CONSTANTS
  N,              \* cells in the schedule: cases * repeats * 2
  Contents,       \* what an arm may write as its native artifact
  ErrorReport,    \* the content of arm-error.json
  NoArtifact,     \* no regular file where the artifact should be
  Arms,           \* what the arms of this run may do, a subset of ArmBehaviours
  MaxFaults,      \* bound: system calls that fail
  MaxInterrupts,  \* bound: cancellations and deaths of the process
  MaxLosses       \* bound: power losses

(* An arm returns an outcome whose artifact lies in its directory ("flat") *)
(* or in a directory it made there ("nested"), an ordinary error, its own  *)
(* deadline error, an outcome validateOutcome refuses; or it rewrites the  *)
(* journal, or another cell's artifact, before it returns an outcome.      *)
ArmBehaviours ==
  {"flat", "nested", "error", "deadline", "invalid", "rewrite", "spoil"}

ASSUME EvalRunnerAssumption ==
  /\ N \in Nat
  /\ NoArtifact \notin Contents /\ ErrorReport # NoArtifact
  /\ Arms \subseteq ArmBehaviours
  /\ {MaxFaults, MaxInterrupts, MaxLosses} \subseteq Nat

VARIABLES
  journal,     \* complete lines of cells.jsonl, as processes see it
  file,        \* "exists", "torn" (a fragment follows the lines), and "named":
               \* its directory entry is on storage
  synced,      \* how many of its lines are on storage
  native,      \* each cell's artifact, as processes see it
  safeNative,  \* each cell's artifact, as storage holds it
  status,      \* status.json, as processes see it
  safeStatus,  \* status.json, as storage holds it
  pc,          \* the step the process has reached, "down" if there is none
  mem,         \* cursor in the schedule, completed cells, chain digest and
               \* whether the append under way created the journal
  outcome,     \* what the arm now running or just returned did
  canceled,    \* the caller's context is done
  acked,       \* appends that have returned success, as a journal length
  budget       \* faults, interrupts and power losses so far

store == <<journal, file, synced, native, safeNative, status, safeStatus>>
vars == <<store, pc, mem, outcome, canceled, acked, budget>>

Cells == 1 .. N
Artifacts == Contents \cup {ErrorReport}
Record == [item : Cells, prev : 0 .. N, artifact : Artifacts]
Steps == {"down", "pick", "arm", "verify", "own", "append", "sync", "syncdir",
          "summary", "status", "statussync", "fail", "failsync"}

NoMemory == [cursor |-> 1, completed |-> {}, head |-> 0, created |-> FALSE]
NoOutcome == "none"

TypeOK ==
  /\ journal \in Seq(Record)
  /\ file \in [exists : BOOLEAN, torn : BOOLEAN, named : BOOLEAN]
  /\ synced \in 0 .. Len(journal)
  /\ native \in [Cells -> Artifacts \cup {NoArtifact}]
  /\ safeNative \in [Cells -> Artifacts \cup {NoArtifact}]
  /\ status \in {"active", "complete", "failed"}
  /\ safeStatus \in {"active", "complete", "failed"}
  /\ pc \in Steps
  /\ mem \in [cursor : 1 .. N + 1, completed : SUBSET Cells, head : 0 .. N,
              created : BOOLEAN]
  /\ outcome \in ArmBehaviours \cup {NoOutcome}
  /\ canceled \in BOOLEAN
  /\ acked \in Nat
  /\ budget \in [faults : 0 .. MaxFaults, interrupts : 0 .. MaxInterrupts,
                 losses : 0 .. MaxLosses]

Init ==
  /\ journal = <<>>
  /\ file = [exists |-> FALSE, torn |-> FALSE, named |-> FALSE]
  /\ synced = 0
  /\ native = [c \in Cells |-> NoArtifact]
  /\ safeNative = [c \in Cells |-> NoArtifact]
  /\ status = "active"
  /\ safeStatus = "active"
  /\ pc = "pick"
  /\ mem = NoMemory
  /\ outcome = NoOutcome
  /\ canceled = FALSE
  /\ acked = 0
  /\ budget = [faults |-> 0, interrupts |-> 0, losses |-> 0]

-----------------------------------------------------------------------------
(* How a process stops *)

(* The call returns, or the process dies, and its memory is gone. *)
Forget ==
  /\ pc' = "down"
  /\ mem' = NoMemory
  /\ outcome' = NoOutcome
  /\ canceled' = FALSE

Fault == /\ budget.faults < MaxFaults
         /\ budget' = [budget EXCEPT !.faults = @ + 1]

(* A step goes on to failRun, whose context ignores the cancellation. *)
GoFail == pc' = "fail" /\ UNCHANGED <<mem, outcome, canceled>>

(* An append, audit or publication that fails: the run stays active if the *)
(* context is done, and is failed otherwise.                               *)
LeaveOrFail == IF canceled THEN Forget ELSE GoFail

-----------------------------------------------------------------------------
(* Reading back the journal *)

(* Mutant: the last line is not counted among the completed cells. *)
ItemsButLast == {journal[k].item : k \in 1 .. Len(journal) - 1}

Items == {journal[k].item : k \in DOMAIN journal}

(* validateCellChain, the schedule lookup, the duplicate check and         *)
(* validateStoredOutcome for every line.                                   *)
JournalValid ==
  /\ \A k \in DOMAIN journal :
       /\ journal[k].prev = (IF k = 1 THEN 0 ELSE journal[k - 1].item)
       /\ native[journal[k].item] = journal[k].artifact
  /\ \A j, k \in DOMAIN journal : journal[j].item = journal[k].item => j = k

JournalHead == IF journal = <<>> THEN 0 ELSE Last(journal).item

(* eval.Resume: drop a torn tail, syncing file and directory when there is *)
(* one, then validate every line.  Truncation and syncs are one step: what *)
(* would be left between them, whole lines that may not be on storage yet, *)
(* a process leaves as well that dies before SyncJournal.                  *)
Resume ==
  /\ pc = "down" /\ status = "active"
  /\ IF file.torn
       THEN /\ file' = [file EXCEPT !.torn = FALSE, !.named = TRUE]
            /\ synced' = Len(journal)
       ELSE UNCHANGED <<file, synced>>
  /\ IF JournalValid
       THEN /\ pc' = "pick"
            /\ mem' = [NoMemory EXCEPT !.completed = Items, !.head = JournalHead]
       ELSE /\ pc' = "fail"
            /\ UNCHANGED mem
  /\ UNCHANGED <<journal, native, safeNative, status, safeStatus,
                 outcome, canceled, acked, budget>>

(* The torn tail cannot be dropped: the run is failed as it stands.  (A    *)
(* call that fails after the truncation would fail it without the tail.)   *)
FailResume ==
  /\ pc = "down" /\ status = "active" /\ file.torn
  /\ Fault
  /\ GoFail
  /\ UNCHANGED <<store, acked>>

-----------------------------------------------------------------------------
(* One cell *)

(* execute skips a completed cell. *)
SkipCell ==
  /\ pc = "pick" /\ ~ canceled
  /\ mem.cursor \in mem.completed
  /\ mem' = [mem EXCEPT !.cursor = @ + 1]
  /\ UNCHANGED <<store, pc, outcome, canceled, acked, budget>>

(* RemoveAll and createNativeDirectory, synced up to the run directory,    *)
(* then snapshotRunEvidence, which wants the journal to end in the chain   *)
(* digest held in memory.                                                  *)
StartCell ==
  /\ pc = "pick" /\ ~ canceled
  /\ mem.cursor \in Cells \ mem.completed
  /\ native' = [native EXCEPT ![mem.cursor] = NoArtifact]
  /\ safeNative' = [safeNative EXCEPT ![mem.cursor] = NoArtifact]
  /\ pc' = IF JournalHead = mem.head /\ ~ file.torn THEN "arm" ELSE "fail"
  /\ UNCHANGED <<journal, file, synced, status, safeStatus,
                 mem, outcome, canceled, acked, budget>>

FailStartCell ==
  /\ pc = "pick" /\ ~ canceled
  /\ mem.cursor \in Cells \ mem.completed
  /\ Fault
  /\ GoFail
  /\ UNCHANGED <<store, acked>>

(* The context is checked before each cell and before the final audit. *)
StopBetweenCells ==
  /\ pc = "pick" /\ canceled
  /\ Forget
  /\ UNCHANGED <<store, acked, budget>>

-----------------------------------------------------------------------------
(* The arm *)

ArmReturns(behaviour) ==
  /\ pc = "arm" /\ behaviour \in Arms
  /\ pc' = "verify"
  /\ outcome' = behaviour
  /\ UNCHANGED <<file, safeNative, status, safeStatus, mem, canceled, acked, budget>>

ReturnOutcome(behaviour, content) ==
  /\ ArmReturns(behaviour)
  /\ native' = [native EXCEPT ![mem.cursor] = content]
  /\ UNCHANGED <<journal, synced>>

ReturnError(behaviour) ==
  /\ ArmReturns(behaviour)
  /\ UNCHANGED <<journal, synced, native>>

(* The arm drops the last line of the journal. *)
RewriteJournal ==
  /\ ArmReturns("rewrite")
  /\ journal # <<>>
  /\ journal' = Front(journal)
  /\ synced' = IF synced < Len(journal) THEN synced ELSE Len(journal) - 1
  /\ UNCHANGED native

(* The arm damages the artifact of a cell already committed. *)
SpoilArtifact(other, content) ==
  /\ ArmReturns("spoil")
  /\ other \in Items
  /\ native' = [native EXCEPT ![mem.cursor] = content, ![other] = NoArtifact]
  /\ UNCHANGED <<journal, synced>>

RunArm ==
  \/ \E behaviour \in {"flat", "nested"}, content \in Contents :
       ReturnOutcome(behaviour, content)
  \/ \E behaviour \in {"error", "deadline", "invalid"} : ReturnError(behaviour)
  \/ RewriteJournal
  \/ \E other \in Cells, content \in Contents : SpoilArtifact(other, content)

-----------------------------------------------------------------------------
(* What executeCell makes of it.  Evidence the arm rewrote comes first,    *)
(* then the context, then the arm's own error, then the outcome.           *)

RejectArm ==
  /\ pc = "verify"
  /\ outcome \in {"rewrite", "invalid"}
  /\ GoFail
  /\ UNCHANGED <<store, acked, budget>>

(* Mutant: every error of an arm leaves the run as it is. *)
LeaveAfterAnyError ==
  /\ pc = "verify"
  /\ outcome \in {"deadline", "error"}
  /\ Forget
  /\ UNCHANGED <<store, acked, budget>>

LeaveAfterArm ==
  /\ pc = "verify"
  /\ \/ outcome = "deadline"
     \/ outcome = "error" /\ canceled
  /\ Forget
  /\ UNCHANGED <<store, acked, budget>>

(* Mutant: the failed cell is built without its arm-error.json. *)
RecordArmFailureUnwritten ==
  /\ pc = "verify"
  /\ outcome = "error" /\ ~ canceled
  /\ pc' = "own"
  /\ UNCHANGED <<store, mem, outcome, canceled, acked, budget>>

(* recordArmFailure: arm-error.json, written atomically and synced. *)
RecordArmFailure ==
  /\ pc = "verify"
  /\ outcome = "error" /\ ~ canceled
  /\ native' = [native EXCEPT ![mem.cursor] = ErrorReport]
  /\ safeNative' = [safeNative EXCEPT ![mem.cursor] = ErrorReport]
  /\ pc' = "own"
  /\ UNCHANGED <<journal, file, synced, status, safeStatus,
                 mem, outcome, canceled, acked, budget>>

AcceptOutcome ==
  /\ pc = "verify"
  /\ outcome \in {"flat", "nested", "spoil"}
  /\ pc' = "own"
  /\ UNCHANGED <<store, mem, outcome, canceled, acked, budget>>

(* Mutant: the arm's own file is committed, never synced. *)
OwnArtifactUnsynced ==
  /\ pc = "own"
  /\ pc' = "append"
  /\ UNCHANGED <<store, mem, outcome, canceled, acked, budget>>

(* ownNativeArtifact: a synced copy renamed over the arm's file, and a     *)
(* sync of the directory that holds it.  That makes the file reachable on  *)
(* storage only if that directory is the one createNativeDirectory synced. *)
OwnArtifact ==
  /\ pc = "own"
  /\ safeNative' = [safeNative EXCEPT ![mem.cursor] =
                      IF outcome = "nested" THEN @ ELSE native[mem.cursor]]
  /\ pc' = "append"
  /\ UNCHANGED <<journal, file, synced, native, status, safeStatus,
                 mem, outcome, canceled, acked, budget>>

FailCustody ==
  /\ pc \in {"verify", "own"}
  /\ Fault
  /\ GoFail
  /\ UNCHANGED <<store, acked>>

-----------------------------------------------------------------------------
(* AppendJSONL *)

(* Mutant: an append refused by its context fails the run. *)
StopBeforeAppendFailing ==
  /\ pc = "append" /\ canceled
  /\ GoFail
  /\ UNCHANGED <<store, acked, budget>>

StopBeforeAppend ==
  /\ pc = "append" /\ canceled
  /\ Forget
  /\ UNCHANGED <<store, acked, budget>>

AppendCell ==
  /\ pc = "append" /\ ~ canceled
  /\ journal' = Append(journal, [item |-> mem.cursor, prev |-> mem.head,
                                 artifact |-> native[mem.cursor]])
  /\ file' = [file EXCEPT !.exists = TRUE]
  /\ mem' = [mem EXCEPT !.created = ~ file.exists]
  /\ pc' = "sync"
  /\ UNCHANGED <<synced, native, safeNative, status, safeStatus,
                 outcome, canceled, acked, budget>>

(* The write leaves a fragment, an empty file, or nothing. *)
PartialWrite ==
  \E exists, torn \in BOOLEAN :
    /\ file.exists \/ torn => exists
    /\ file' = [file EXCEPT !.exists = exists, !.torn = torn]

FailAppend ==
  /\ pc = "append"
  /\ Fault
  /\ PartialWrite
  /\ LeaveOrFail
  /\ UNCHANGED <<journal, synced, native, safeNative, status, safeStatus, acked>>

(* AppendJSONL returns success and execute goes on to the next cell. *)
CellCommitted ==
  /\ acked' = Len(journal)
  /\ pc' = "pick"
  /\ mem' = [cursor |-> mem.cursor + 1,
             completed |-> mem.completed \cup {mem.cursor},
             head |-> mem.cursor, created |-> FALSE]
  /\ outcome' = NoOutcome

(* Mutants: no sync of the directory of a new journal; no sync of the file. *)
SyncJournalNotEntry ==
  /\ pc = "sync"
  /\ synced' = Len(journal)
  /\ CellCommitted
  /\ UNCHANGED <<journal, file, native, safeNative, status, safeStatus,
                 canceled, budget>>

SyncJournalNever ==
  /\ pc = "sync"
  /\ IF mem.created
       THEN pc' = "syncdir" /\ UNCHANGED <<acked, mem, outcome>>
       ELSE CellCommitted
  /\ UNCHANGED <<store, canceled, budget>>

SyncJournal ==
  /\ pc = "sync"
  /\ synced' = Len(journal)
  /\ IF mem.created
       THEN pc' = "syncdir" /\ UNCHANGED <<acked, mem, outcome>>
       ELSE CellCommitted
  /\ UNCHANGED <<journal, file, native, safeNative, status, safeStatus,
                 canceled, budget>>

SyncJournalEntry ==
  /\ pc = "syncdir"
  /\ file' = [file EXCEPT !.named = TRUE]
  /\ CellCommitted
  /\ UNCHANGED <<journal, synced, native, safeNative, status, safeStatus,
                 canceled, budget>>

FailSync ==
  /\ pc \in {"sync", "syncdir"}
  /\ Fault
  /\ LeaveOrFail
  /\ UNCHANGED <<store, acked>>

-----------------------------------------------------------------------------
(* The end of the run *)

(* Mutant: the count of completed cells is the only check. *)
AuditByCount ==
  /\ pc = "pick" /\ ~ canceled
  /\ mem.cursor = N + 1
  /\ pc' = IF Cardinality(mem.completed) = N THEN "summary" ELSE "fail"
  /\ UNCHANGED <<store, mem, outcome, canceled, acked, budget>>

(* The count of completed cells, then LoadArtifactRun over the directory. *)
Audit ==
  /\ pc = "pick" /\ ~ canceled
  /\ mem.cursor = N + 1
  /\ pc' = IF Cardinality(mem.completed) = N /\ JournalValid /\ ~ file.torn
             THEN "summary" ELSE "fail"
  /\ UNCHANGED <<store, mem, outcome, canceled, acked, budget>>

(* results/summary.json: its sync makes every name in results/ durable. *)
WriteSummary ==
  /\ pc = "summary" /\ ~ canceled
  /\ file' = [file EXCEPT !.named = file.exists]
  /\ pc' = "status"
  /\ UNCHANGED <<journal, synced, native, safeNative, status, safeStatus,
                 mem, outcome, canceled, acked, budget>>

PublishComplete ==
  /\ pc = "status" /\ ~ canceled
  /\ status' = "complete"
  /\ pc' = "statussync"
  /\ UNCHANGED <<journal, file, synced, native, safeNative, safeStatus,
                 mem, outcome, canceled, acked, budget>>

PublishFailed ==
  /\ pc = "fail"
  /\ status' = "failed"
  /\ pc' = "failsync"
  /\ UNCHANGED <<journal, file, synced, native, safeNative, safeStatus,
                 mem, outcome, canceled, acked, budget>>

SyncStatus ==
  /\ pc \in {"statussync", "failsync"}
  /\ safeStatus' = status
  /\ Forget
  /\ UNCHANGED <<journal, file, synced, native, safeNative, status, acked, budget>>

StopBeforeComplete ==
  /\ pc \in {"summary", "status"} /\ canceled
  /\ Forget
  /\ UNCHANGED <<store, acked, budget>>

FailComplete ==
  /\ pc \in {"summary", "status"} \/ (pc = "pick" /\ mem.cursor = N + 1)
  /\ Fault
  /\ LeaveOrFail
  /\ UNCHANGED <<store, acked>>

(* A status.json that is renamed but not synced makes the Run terminal, so *)
(* failRun has nothing left to do; nor is a failing Fail tried again.      *)
FailTerminal ==
  /\ pc \in {"statussync", "fail", "failsync"}
  /\ Fault
  /\ Forget
  /\ UNCHANGED <<store, acked>>

-----------------------------------------------------------------------------
(* The environment *)

Interrupt == /\ budget.interrupts < MaxInterrupts
             /\ budget' = [budget EXCEPT !.interrupts = @ + 1]

Cancel ==
  /\ pc # "down" /\ ~ canceled
  /\ Interrupt
  /\ canceled' = TRUE
  /\ UNCHANGED <<store, pc, mem, outcome, acked>>

Crash ==
  /\ pc # "down"
  /\ Interrupt
  /\ Forget
  /\ IF pc = "append" THEN PartialWrite ELSE UNCHANGED file
  /\ UNCHANGED <<journal, synced, native, safeNative, status, safeStatus, acked>>

(* Lines not synced may be lost from the end, the last of them in part; an *)
(* entry not synced may be lost with all its lines; an artifact or a       *)
(* status comes back as synced or as last seen.                            *)
PowerLoss ==
  /\ budget.losses < MaxLosses
  /\ budget' = [budget EXCEPT !.losses = @ + 1]
  /\ Forget
  /\ \/ /\ file.exists
        /\ \E kept \in synced .. Len(journal), torn \in BOOLEAN :
             /\ torn => kept < Len(journal) \/ file.torn
             /\ journal' = SubSeq(journal, 1, kept)
             /\ file' = [exists |-> TRUE, torn |-> torn, named |-> TRUE]
     \/ /\ ~ file.named
        /\ journal' = <<>>
        /\ file' = [exists |-> FALSE, torn |-> FALSE, named |-> FALSE]
  /\ synced' = Len(journal')
  /\ native' \in [Cells -> Artifacts \cup {NoArtifact}]
  /\ \A c \in Cells : native'[c] \in {native[c], safeNative[c]}
  /\ safeNative' = native'
  /\ status' \in {status, safeStatus}
  /\ safeStatus' = status'
  /\ UNCHANGED acked

-----------------------------------------------------------------------------
Execute ==
  \/ SkipCell \/ StartCell \/ FailStartCell \/ StopBetweenCells
  \/ RunArm \/ RejectArm \/ LeaveAfterArm \/ RecordArmFailure \/ AcceptOutcome
  \/ OwnArtifact \/ FailCustody
  \/ StopBeforeAppend \/ AppendCell \/ FailAppend
  \/ SyncJournal \/ SyncJournalEntry \/ FailSync
  \/ Audit \/ WriteSummary \/ PublishComplete \/ PublishFailed \/ SyncStatus
  \/ StopBeforeComplete \/ FailComplete \/ FailTerminal

(* A run whose status is terminal stays as it is. *)
Done == pc = "down" /\ status # "active" /\ UNCHANGED vars

Step == Execute \/ Resume \/ FailResume \/ Cancel \/ Crash \/ Done

Next == Step \/ PowerLoss

(* Processes and callers only, and the same with power losses. *)
ProcessSpec == Init /\ [][Step]_vars
Spec == Init /\ [][Next]_vars

-----------------------------------------------------------------------------
(* Safety *)

(* The journal is always a prefix of the schedule, each cell once and      *)
(* chained to the one before, however often the run was interrupted,       *)
(* resumed, or stripped of its last line by an arm (execute, resume.go).   *)
JournalInOrder ==
  \A k \in DOMAIN journal : journal[k].item = k /\ journal[k].prev = k - 1

(* While storage keeps what processes see, a complete run has every cell   *)
(* and every artifact the cells name, even when an arm damaged another     *)
(* cell's artifact after its commit (finalizeRun audits first).            *)
CompleteIsWhole ==
  status = "complete" => Len(journal) = N /\ JournalValid /\ ~ file.torn

(* A cell in the journal has its artifact, in view and on storage, through *)
(* cancellations, crashes and power losses: ownNativeArtifact comes before *)
(* AppendJSONL, and StartCell clears only cells not committed.             *)
CellsBackedByArtifacts ==
  \A k \in DOMAIN journal :
    /\ native[journal[k].item] = journal[k].artifact
    /\ safeNative[journal[k].item] = journal[k].artifact

(* As long as every system call succeeds, no sequence of cancellations,    *)
(* deadlines, dying processes and power losses makes the runner declare a  *)
(* run of honest arms failed.                                              *)
InterruptionNeverFails == budget.faults = 0 => status # "failed"

(* An append that returned success is on storage, and so is the name of    *)
(* the file it is in.                                                      *)
AppendIsDurable == acked <= synced /\ (acked > 0 => file.named)

(* A run storage holds as complete has all its cells on storage.           *)
CompleteIsDurable == safeStatus = "complete" => synced = N /\ (N > 0 => file.named)

(* Both hold, through power losses, of a run in which no process was       *)
(* canceled or died between two steps of its own and at most one system    *)
(* call failed: failRun then declares the run failed.  A second failure,   *)
(* of failRun itself, leaves an active run whose journal was never synced. *)
Orderly == budget.interrupts = 0 /\ budget.faults <= 1
AckedCellsDurable == Orderly => AppendIsDurable
DurableCompleteIsWhole == Orderly => CompleteIsDurable

Recorded == [k \in DOMAIN journal |-> journal[k].item]

Log == INSTANCE EvidenceLog WITH recorded <- Recorded, state <- status

(* As long as storage keeps what processes see and no arm rewrites the     *)
(* journal, the directory is an append-only log of the schedule with one   *)
(* final status: through every crash, resumption and failing call a cell   *)
(* once recorded stays, and complete means all N of them.                  *)
RefinesLog == Log!LogSpec

-----------------------------------------------------------------------------
(* Liveness.  The process takes its next step, the arms return, and        *)
(* whoever runs the evaluation resumes a run that is still active.         *)

FairSpec == Spec /\ WF_vars(Execute) /\ WF_vars(Resume)

(* However it is interrupted and whatever call fails, the run is declared  *)
(* complete or failed in the end (failed only after a failing call, by     *)
(* InterruptionNeverFails), unless its arms return deadline errors of      *)
(* their own over and over: such an arm leaves no cell (runner.go:351), so *)
(* every resumption runs it again.                                         *)
EventuallyEnds ==
  <>[](status \in {"complete", "failed"}) \/ []<>(outcome = "deadline")
=============================================================================
