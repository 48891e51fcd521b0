----------------------------- MODULE ReportWrite -----------------------------
(***************************************************************************)
(* report.Write: the promotion report and its plan, staged beside their    *)
(* destinations, the documents already there moved aside, the new ones     *)
(* renamed into place, and all of it undone when a step fails; called      *)
(* again and again, with failing system calls, cancellations, dying        *)
(* processes and power losses between any two steps.                       *)
(*                                                                         *)
(* A document is the number of the Write that made it, 1 for one that was  *)
(* there at the beginning and 0 for none.  Temporaries and backups have    *)
(* fresh names, so those of an earlier Write are out of every later one's  *)
(* sight; the empty file that reserves a backup's name is left out, also   *)
(* where removing it fails and it stays behind (write.go:291-293).         *)
(***************************************************************************)
EXTENDS Naturals, FiniteSets

CONSTANTS
  N,              \* output files; Write publishes two
  Directories,    \* where they may lie
  MaxWrites,      \* bound: the number of the last Write
  MaxFaults,      \* bound: system calls that fail
  MaxInterrupts,  \* bound: cancellations and deaths of the process
  MaxLosses       \* bound: power losses

ASSUME ReportWriteAssumption ==
  /\ N \in Nat \ {0} /\ MaxWrites \in Nat \ {0}
  /\ Directories # {}
  /\ {MaxFaults, MaxInterrupts, MaxLosses} \subseteq Nat

VARIABLES
  placed,    \* the directory of each output, fixed
  dirs,      \* directories that exist, that a Write made, and of those the
             \* ones whose own entry is not on storage
  image,     \* each output's path and the documents under backup names
  since,     \* each output's images since its directory was last synced
  staged,    \* outputs whose temporary of this Write is on disk
  version,   \* the number of the last Write
  pc,        \* the loop of Write under way, "idle" outside a call
  cursor,    \* the output the loop has reached
  mem,       \* the flags existed, temporary, backup, published of stagedOutput
  canceled,  \* the caller's context is done
  result,    \* how the last Write returned
  before,    \* the images when the last Write began
  untidy,    \* a step that undoes the last Write has failed
  acked,     \* the document the last successful Write left, or the first one
  budget     \* faults, interrupts and power losses so far

files == <<placed, dirs, image, since, staged>>
history == <<version, before, acked>>
vars == <<files, history, pc, cursor, mem, canceled, result, untidy, budget>>

Outputs == 1 .. N
Documents == 0 .. MaxWrites
Image == [path : Documents, aside : SUBSET Documents]

Loops == {"stage", "backup", "publish", "sync", "discard", "syncagain",
          "unpublish", "restore", "syncback", "cleanup"}

NoFlags == [existed |-> {}, temporary |-> {}, backup |-> {}, published |-> {}]

TypeOK ==
  /\ placed \in [Outputs -> Directories]
  /\ dirs \in [present : SUBSET Directories, made : SUBSET Directories,
               unnamed : SUBSET Directories]
  /\ image \in [Outputs -> Image]
  /\ since \in [Outputs -> SUBSET Image]
  /\ staged \in SUBSET Outputs
  /\ version \in 1 .. MaxWrites
  /\ pc \in Loops \cup {"idle"}
  /\ cursor \in 1 .. N + 1
  /\ mem \in [existed : SUBSET Outputs, temporary : SUBSET Outputs,
              backup : SUBSET Outputs, published : SUBSET Outputs]
  /\ canceled \in BOOLEAN
  /\ result \in {"none", "ok", "error"}
  /\ before \in [Outputs -> Image]
  /\ untidy \in BOOLEAN
  /\ acked \in [Outputs -> Documents]
  /\ budget \in [faults : 0 .. MaxFaults, interrupts : 0 .. MaxInterrupts,
                 losses : 0 .. MaxLosses]

Init ==
  /\ placed \in [Outputs -> Directories]
  /\ \E present \in SUBSET Directories :
       dirs = [present |-> present, made |-> {}, unnamed |-> {}]
  /\ acked \in [Outputs -> 0 .. 1]
  /\ \A o \in Outputs : acked[o] = 1 => placed[o] \in dirs.present
  /\ image = [o \in Outputs |-> [path |-> acked[o], aside |-> {}]]
  /\ since = [o \in Outputs |-> {image[o]}]
  /\ staged = {}
  /\ version = 1
  /\ pc = "idle" /\ cursor = 1 /\ mem = NoFlags
  /\ canceled = FALSE
  /\ result = "none"
  /\ before = image
  /\ untidy = FALSE
  /\ budget = [faults |-> 0, interrupts |-> 0, losses |-> 0]

-----------------------------------------------------------------------------
(* The loops of Write, publishOutputs, rollbackOutputs and cleanupStaged.  *)
(* Each passes over the outputs in order and acts on those it wants.       *)

(* Mutant: one sync stands for all the directories. *)
FirstOutput(o) == o = 1

(* outputDirectories names a directory at the first output that lies in it. *)
FirstInDirectory(o) == \A earlier \in 1 .. o - 1 : placed[earlier] # placed[o]

Wanted(o) ==
  CASE pc = "backup" -> o \in mem.existed
    [] pc \in {"discard", "restore"} -> o \in mem.backup
    [] pc = "unpublish" -> o \in mem.published
    [] pc = "cleanup" -> o \in mem.temporary
    [] pc \in {"sync", "syncagain", "syncback"} -> FirstInDirectory(o)
    [] OTHER -> TRUE

NextLoop ==
  CASE pc = "stage" -> "backup"
    [] pc = "backup" -> "publish"
    [] pc = "publish" -> "sync"
    [] pc = "sync" -> "discard"
    [] pc = "discard" -> "syncagain"
    [] pc = "unpublish" -> "restore"
    [] pc = "restore" -> "syncback"
    [] OTHER -> "cleanup"

At(loop) == pc = loop /\ cursor \in Outputs /\ Wanted(cursor)
Advance == cursor' = cursor + 1 /\ UNCHANGED pc

(* Mutant: a loop goes on from where the one before it stopped. *)
EnterWhereStopped(loop) == pc' = loop /\ cursor' = cursor + 1
Enter(loop) == pc' = loop /\ cursor' = 1

Fault == /\ budget.faults < MaxFaults
         /\ budget' = [budget EXCEPT !.faults = @ + 1]

(* The error of a context that is done, or of a system call. *)
Refused == \/ canceled /\ UNCHANGED budget
           \/ Fault

SkipOutput ==
  /\ pc # "idle" /\ cursor \in Outputs /\ ~ Wanted(cursor)
  /\ Advance
  /\ UNCHANGED <<files, history, mem, canceled, result, untidy, budget>>

EndLoop ==
  /\ pc \notin {"idle", "syncagain", "cleanup"} /\ cursor = N + 1
  /\ Enter(NextLoop)
  /\ UNCHANGED <<files, history, mem, canceled, result, untidy, budget>>

Leave == Enter("idle") /\ mem' = NoFlags /\ canceled' = FALSE

ReturnSuccess ==
  /\ pc = "syncagain" /\ cursor = N + 1
  /\ Leave
  /\ result' = "ok"
  /\ acked' = [o \in Outputs |-> version]
  /\ UNCHANGED <<files, version, before, untidy, budget>>

ReturnError ==
  /\ pc = "cleanup" /\ cursor = N + 1
  /\ Leave
  /\ result' = "error"
  /\ UNCHANGED <<files, history, untidy, budget>>

-----------------------------------------------------------------------------
(* Every change of an output's names is one more image storage may hold. *)
Becomes(o, new) ==
  /\ image' = [image EXCEPT ![o] = new]
  /\ since' = [since EXCEPT ![o] = @ \cup {new}]

(* A sync of the directory of an output settles all that lie in it. *)
Settle(o) ==
  since' = [p \in Outputs |-> IF placed[p] = placed[o] THEN {image[p]} ELSE since[p]]

MovedAside(o) ==
  [path |-> 0, aside |-> image[o].aside \cup {image[o].path}]
MovedBack(o) ==
  [path |-> before[o].path, aside |-> image[o].aside \ {before[o].path}]

-----------------------------------------------------------------------------
(* Staging *)

Write ==
  /\ pc = "idle" /\ version < MaxWrites
  /\ Enter("stage")
  /\ version' = version + 1
  /\ before' = image
  /\ staged' = {}
  /\ result' = "none"
  /\ untidy' = FALSE
  /\ UNCHANGED <<placed, dirs, image, since, mem, canceled, acked, budget>>

(* MkdirAll, which syncs nothing. *)
MakeDirectory(d) ==
  dirs' = IF d \in dirs.present THEN dirs
          ELSE [present |-> dirs.present \cup {d}, made |-> dirs.made \cup {d},
                unnamed |-> dirs.unnamed \cup {d}]

StageOutput ==
  /\ At("stage") /\ ~ canceled
  /\ MakeDirectory(placed[cursor])
  /\ staged' = staged \cup {cursor}
  /\ mem' = [mem EXCEPT !.temporary = @ \cup {cursor},
                        !.existed = IF image[cursor].path # 0 THEN @ \cup {cursor} ELSE @]
  /\ Advance
  /\ UNCHANGED <<placed, image, since, history, canceled, result, untidy, budget>>

(* stage fails before it has made anything, with the directory it made, or *)
(* with its temporary on disk.                                             *)
FailStage ==
  /\ At("stage")
  /\ \/ Refused /\ UNCHANGED <<dirs, staged, mem>>
     \/ Fault /\ MakeDirectory(placed[cursor]) /\ UNCHANGED <<staged, mem>>
     \/ /\ Refused
        /\ MakeDirectory(placed[cursor])
        /\ staged' = staged \cup {cursor}
        /\ mem' = [mem EXCEPT !.temporary = @ \cup {cursor}]
  /\ Enter("cleanup")
  /\ UNCHANGED <<placed, image, since, history, canceled, result, untidy>>

-----------------------------------------------------------------------------
(* Publication *)

BackUp ==
  /\ At("backup")
  /\ Becomes(cursor, MovedAside(cursor))
  /\ mem' = [mem EXCEPT !.backup = @ \cup {cursor}]
  /\ Advance
  /\ UNCHANGED <<placed, dirs, staged, history, canceled, result, untidy, budget>>

(* The reservation of a backup's name fails, or the rename to it.          *)
FailBackUp ==
  /\ At("backup")
  /\ Fault
  /\ Enter("unpublish")
  /\ UNCHANGED <<files, history, mem, canceled, result, untidy>>

(* Mutant: a published output keeps its flag clear. *)
PublishUnmarked ==
  /\ At("publish") /\ ~ canceled
  /\ Becomes(cursor, [image[cursor] EXCEPT !.path = version])
  /\ staged' = staged \ {cursor}
  /\ mem' = [mem EXCEPT !.temporary = @ \ {cursor}]
  /\ Advance
  /\ UNCHANGED <<placed, dirs, history, canceled, result, untidy, budget>>

Publish ==
  /\ At("publish") /\ ~ canceled
  /\ Becomes(cursor, [image[cursor] EXCEPT !.path = version])
  /\ staged' = staged \ {cursor}
  /\ mem' = [mem EXCEPT !.temporary = @ \ {cursor}, !.published = @ \cup {cursor}]
  /\ Advance
  /\ UNCHANGED <<placed, dirs, history, canceled, result, untidy, budget>>

FailPublish ==
  /\ At("publish")
  /\ Refused
  /\ Enter("unpublish")
  /\ UNCHANGED <<files, history, mem, canceled, result, untidy>>

(* Mutant: the directories are synced only once the backups are gone. *)
SyncOutputsLate ==
  /\ \E loop \in {"sync", "syncagain", "syncback"} : At(loop)
  /\ IF pc = "sync" THEN UNCHANGED since ELSE Settle(cursor)
  /\ Advance
  /\ UNCHANGED <<placed, dirs, image, staged, history, mem, canceled, result,
                 untidy, budget>>

SyncOutputs ==
  /\ \E loop \in {"sync", "syncagain", "syncback"} : At(loop)
  /\ Settle(cursor)
  /\ Advance
  /\ UNCHANGED <<placed, dirs, image, staged, history, mem, canceled, result,
                 untidy, budget>>

(* The first sync that fails undoes the publication, the second only ends  *)
(* the call with an error, and the rollback ignores its own.               *)
FailSync ==
  /\ \E loop \in {"sync", "syncagain", "syncback"} : At(loop)
  /\ Fault
  /\ CASE pc = "sync" -> Enter("unpublish")
       [] pc = "syncagain" -> Enter("cleanup")
       [] OTHER -> Advance
  /\ UNCHANGED <<files, history, mem, canceled, result, untidy>>

DiscardBackup ==
  /\ At("discard")
  /\ Becomes(cursor, [image[cursor] EXCEPT !.aside = @ \ {before[cursor].path}])
  /\ mem' = [mem EXCEPT !.backup = @ \ {cursor}]
  /\ Advance
  /\ UNCHANGED <<placed, dirs, staged, history, canceled, result, untidy, budget>>

FailDiscard ==
  /\ At("discard")
  /\ Fault
  /\ Enter("cleanup")
  /\ UNCHANGED <<files, history, mem, canceled, result, untidy>>

-----------------------------------------------------------------------------
(* rollbackOutputs and cleanupStaged, which go on past their own errors *)

Unpublish ==
  /\ At("unpublish")
  /\ \/ /\ Becomes(cursor, [image[cursor] EXCEPT !.path = 0])
        /\ UNCHANGED <<untidy, budget>>
     \/ /\ Fault /\ untidy' = TRUE
        /\ UNCHANGED <<image, since>>
  /\ mem' = [mem EXCEPT !.published = @ \ {cursor}]
  /\ Advance
  /\ UNCHANGED <<placed, dirs, staged, history, canceled, result>>

Restore ==
  /\ At("restore")
  /\ \/ /\ Becomes(cursor, MovedBack(cursor))
        /\ UNCHANGED <<untidy, budget>>
     \/ /\ Fault /\ untidy' = TRUE
        /\ UNCHANGED <<image, since>>
  /\ mem' = [mem EXCEPT !.backup = @ \ {cursor}]
  /\ Advance
  /\ UNCHANGED <<placed, dirs, staged, history, canceled, result>>

RemoveTemporary ==
  /\ At("cleanup")
  /\ \/ /\ staged' = staged \ {cursor}
        /\ UNCHANGED <<untidy, budget>>
     \/ /\ Fault /\ untidy' = TRUE
        /\ UNCHANGED staged
  /\ mem' = [mem EXCEPT !.temporary = @ \ {cursor}]
  /\ Advance
  /\ UNCHANGED <<placed, dirs, image, since, history, canceled, result>>

-----------------------------------------------------------------------------
(* The environment *)

Interrupt == /\ budget.interrupts < MaxInterrupts
             /\ budget' = [budget EXCEPT !.interrupts = @ + 1]

Cancel ==
  /\ pc # "idle" /\ ~ canceled
  /\ Interrupt
  /\ canceled' = TRUE
  /\ UNCHANGED <<files, history, pc, cursor, mem, result, untidy>>

Crash ==
  /\ pc # "idle"
  /\ Interrupt
  /\ Leave
  /\ UNCHANGED <<files, history, result, untidy>>

(* Storage holds each name as it was at some time since the last sync of   *)
(* its directory, in no particular order; but a rename does not lose what  *)
(* it moves, so a document that had a name all that time still has one.    *)
(* A directory whose own entry was never synced may be gone.               *)
Names(i) == i.aside \cup {i.path}
Surviving(images) ==
  {i \in Image : /\ \E j \in images : i.path = j.path
                 /\ \A d \in Documents :
                      /\ d \in i.aside => \E j \in images : d \in j.aside
                      /\ (\A j \in images : d \in j.aside) => d \in i.aside
                      /\ (\A j \in images : d \in Names(j)) => d \in Names(i)}

PowerLoss ==
  /\ budget.losses < MaxLosses
  /\ budget' = [budget EXCEPT !.losses = @ + 1]
  /\ Leave
  /\ \E lost \in SUBSET dirs.unnamed :
       /\ dirs' = [dirs EXCEPT !.present = @ \ lost, !.unnamed = {}]
       /\ \E kept \in [Outputs -> UNION {Surviving(since[o]) : o \in Outputs}] :
            /\ \A o \in Outputs : kept[o] \in Surviving(since[o])
            /\ image' = [o \in Outputs |-> IF placed[o] \in lost
                                           THEN [path |-> 0, aside |-> {}]
                                           ELSE kept[o]]
  /\ since' = [o \in Outputs |-> {image'[o]}]
  /\ UNCHANGED <<placed, staged, history, result, untidy>>

-----------------------------------------------------------------------------
Publication ==
  \/ Write \/ SkipOutput \/ EndLoop \/ ReturnSuccess \/ ReturnError
  \/ StageOutput \/ FailStage \/ BackUp \/ FailBackUp \/ Publish \/ FailPublish
  \/ SyncOutputs \/ FailSync \/ DiscardBackup \/ FailDiscard
  \/ Unpublish \/ Restore \/ RemoveTemporary

(* Nobody has to call Write again. *)
Rest == pc = "idle" /\ UNCHANGED vars

Next == Publication \/ Cancel \/ Crash \/ PowerLoss \/ Rest

Spec == Init /\ [][Next]_vars

-----------------------------------------------------------------------------
(* Safety *)

(* When Write returns, all its outputs are the new documents or all are    *)
(* what they were, with no backup or temporary left, unless a step that    *)
(* undoes the publication failed too; an error that is reported once the   *)
(* publication is durable may leave backups (write.go:309-324).  Documents *)
(* are meant: the empty reservation of a backup's name is not modelled.    *)
AllOrNothing ==
  LET AllNew == \A o \in Outputs : image[o].path = version
      AsBefore == image = before /\ staged = {}
      NoBackups == \A o \in Outputs : image[o].aside = before[o].aside
  IN  pc = "idle" /\ budget.losses = 0 /\ ~ untidy =>
        /\ result = "ok" => AllNew /\ NoBackups /\ staged = {}
        /\ result = "error" => AllNew \/ AsBefore

(* A document that a successful Write left, or that was there before, is   *)
(* replaced only by newer ones: through failing steps, cancellations,      *)
(* crashes, power losses and repeated calls, it or a newer one is whole at *)
(* its path or under a backup name, unless Write made its directory.       *)
AcknowledgedSurvives ==
  \A o \in Outputs : placed[o] \notin dirs.made =>
    \E document \in Names(image[o]) : document >= acked[o]

(* From the return of a successful Write to the next call of it, its       *)
(* documents are at their paths, even across a loss of power, unless Write *)
(* made their directory.                                                   *)
PublishedStays ==
  pc = "idle" /\ result = "ok" =>
    \A o \in Outputs : placed[o] \notin dirs.made => image[o].path = acked[o]

-----------------------------------------------------------------------------
(* A claim of the repository that the code does not keep *)

(* pkg/report/write.go:13-14: Write publishes the report and the plan "as  *)
(* individually atomic, durable files".  A document that is replaced is    *)
(* first moved aside, so a reader, or a process that died in between,      *)
(* finds nothing at its path.                                              *)
IndividuallyAtomic ==
  \A o \in Outputs : acked[o] > 0 /\ placed[o] \notin dirs.made => image[o].path # 0
=============================================================================
