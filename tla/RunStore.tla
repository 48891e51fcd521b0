------------------------------- MODULE RunStore -------------------------------
(***************************************************************************)
(* The custody layer pkg/runstore: one run directory, the process that     *)
(* owns it, and everything that can interrupt a call half way.             *)
(*                                                                         *)
(* "disk" is what every process reads back (the page cache); "safe" is     *)
(* what storage is known to hold, brought up to date only by the directory *)
(* syncs the code makes.  A crash of the process loses "run" and "call"; a *)
(* loss of power also replaces each entry of "disk" by an old or new one.  *)
(* File bytes need no variable: every file the store publishes is synced   *)
(* before it is renamed, so an entry that survives has its bytes.          *)
(***************************************************************************)
EXTENDS Naturals, FiniteSets

CONSTANTS
  Roles,         \* the input roles a caller copies
  NoFile,        \* stands for a file that does not exist
  NoRole,        \* the call in progress copies no input
  MaxFaults,     \* bound: system calls that fail
  MaxCrashes,    \* bound: deaths of the process
  MaxLosses,     \* bound: power losses
  Callers        \* the callers of a run: TRUE stands for one that only fails
                 \* or drops a run one of whose calls failed, as eval does,
                 \* FALSE for one that carries on

ASSUME RunStoreAssumption ==
  /\ IsFiniteSet(Roles)
  /\ NoRole \notin Roles
  /\ NoFile \notin {"active", "complete", "failed"}
  /\ \A named \in SUBSET Roles : named # NoFile
  /\ {MaxFaults, MaxCrashes, MaxLosses} \subseteq Nat
  /\ Callers \subseteq BOOLEAN

VARIABLES
  disk,      \* the run directory as processes see it
  safe,      \* the run directory as synced to storage
  run,       \* the in-memory Run; "open" when a caller holds one
  call,      \* the call in progress and the step it has reached
  canceled,  \* the caller's context is done
  result,    \* how the last call on this Run returned
  acked,     \* the roles whose CopyInput has ever returned success
  cautious,  \* the caller stops at the first call that fails
  budget     \* faults, crashes and power losses so far

vars == <<disk, safe, run, call, canceled, result, acked, cautious, budget>>

-----------------------------------------------------------------------------
(* The run directory.  "slot[r]" holds the names under which the bytes of  *)
(* input r exist; "stray" is an .artifact-* temporary inside inputs/.      *)

Terminal == {"complete", "failed"}
States == {"active"} \cup Terminal

Image == [base : SUBSET {"config", "manifest"},
          status : States \cup {NoFile},
          summary : BOOLEAN,
          inputs : {NoFile} \cup SUBSET Roles,
          slot : [Roles -> SUBSET {"pending", "final"}],
          stray : BOOLEAN]

EmptyDirectory == [base |-> {}, status |-> NoFile, summary |-> FALSE,
                   inputs |-> NoFile, slot |-> [r \in Roles |-> {}],
                   stray |-> FALSE]

(* The roles inputs/manifest.json of an image names. *)
Named(image) == IF image.inputs = NoFile THEN {} ELSE image.inputs

(* readInputs: every named input has its final file, nothing else is there. *)
InputsConsistent(image) ==
  /\ ~ image.stray
  /\ \A r \in Roles : "final" \in image.slot[r] <=> r \in Named(image)

(* Open: the common artifacts are all there and agree. *)
Openable(image) ==
  /\ image.base = {"config", "manifest"}
  /\ image.status # NoFile
  /\ image.status = "complete" => image.summary
  /\ InputsConsistent(image)

-----------------------------------------------------------------------------
(* Calls.  A step that writes a file goes through atomicWrite: "start" is  *)
(* before its temporary exists, "temp" before the rename, "renamed" before *)
(* the directory sync.                                                     *)

Writes == {"config", "manifest", "status", "summary",
           "pending", "inputs", "rollback"}
InputWrites == {"pending", "inputs", "rollback"}

Idle == [op |-> "none", step |-> "none", at |-> "start", role |-> NoRole]

Call == [op : {"none", "create", "copy", "complete", "fail", "resume"},
         step : Writes \cup {"none", "publish", "dirsync",
                             "recover", "recoversync", "open"},
         at : {"start", "temp", "renamed"},
         role : Roles \cup {NoRole}]

NoRun == [open |-> FALSE, inputs |-> {}, status |-> "active", terminal |-> FALSE]

TypeOK ==
  /\ disk \in Image
  /\ safe \in Image
  /\ run \in [open : BOOLEAN, inputs : SUBSET Roles,
              status : States, terminal : BOOLEAN]
  /\ call \in Call
  /\ canceled \in BOOLEAN
  /\ result \in {"none", "ok", "ctx", "error"}
  /\ acked \in SUBSET Roles
  /\ cautious \in Callers
  /\ budget \in [faults : 0 .. MaxFaults, crashes : 0 .. MaxCrashes,
                 losses : 0 .. MaxLosses]

Init ==
  /\ disk = EmptyDirectory
  /\ safe = EmptyDirectory
  /\ run = NoRun
  /\ call = Idle
  /\ canceled = FALSE
  /\ result = "none"
  /\ acked = {}
  /\ cautious \in Callers
  /\ budget = [faults |-> 0, crashes |-> 0, losses |-> 0]

Begin(op, step, role) ==
  /\ call = Idle
  /\ call' = [op |-> op, step |-> step, at |-> "start", role |-> role]
  /\ result' = "none"

Goto(step) == call' = [call EXCEPT !.step = step, !.at = "start"]

Return(outcome) ==
  /\ call' = Idle
  /\ result' = outcome

Fault == /\ budget.faults < MaxFaults
         /\ budget' = [budget EXCEPT !.faults = @ + 1]

(* failRun gives Fail a context of its own, so only the other calls see a  *)
(* cancellation.                                                           *)
CtxDone == canceled /\ call.op # "fail"
-----------------------------------------------------------------------------
(* atomicWrite *)

(* Mutant: the summary's parent is taken to be the run directory. *)
DirectoryOfRun(step) == IF step \in InputWrites THEN "inputs" ELSE "root"

Directory(step) ==
  CASE step \in InputWrites -> "inputs"
    [] step = "summary" -> "results"
    [] OTHER -> "root"

(* What the rename of a step's temporary makes visible. *)
Renamed(step) ==
  CASE step \in {"config", "manifest"} ->
         [disk EXCEPT !.base = @ \cup {step}]
    [] step = "status" -> [disk EXCEPT !.status = run.status]
    [] step = "summary" -> [disk EXCEPT !.summary = TRUE]
    [] step = "pending" ->
         [disk EXCEPT !.slot[call.role] = @ \cup {"pending"}, !.stray = FALSE]
    [] OTHER -> [disk EXCEPT !.inputs = run.inputs, !.stray = FALSE]

(* What a sync of a directory makes durable: all its entries, not only the *)
(* one just renamed.                                                       *)
Synced(directory) ==
  CASE directory = "inputs" ->
         [safe EXCEPT !.inputs = disk.inputs, !.slot = disk.slot,
                      !.stray = disk.stray]
    [] directory = "results" -> [safe EXCEPT !.summary = disk.summary]
    [] OTHER -> [safe EXCEPT !.base = disk.base, !.status = disk.status]

(* The write that follows, or "done" when the call returns. *)
NextStep(step) ==
  CASE step = "config" -> "manifest"
    [] step = "manifest" -> "status"
    [] step = "pending" -> "inputs"
    [] step = "inputs" -> "publish"
    [] step = "summary" -> "status"
    [] OTHER -> "done"

(* The in-memory Run after a step's write: CopyInput appends the reference *)
(* before it writes the input manifest, finish sets the state before it    *)
(* writes status.json.                                                     *)
RunAfter(step) ==
  CASE step = "pending" -> [run EXCEPT !.inputs = @ \cup {call.role}]
    [] step = "summary" -> [run EXCEPT !.status = "complete"]
    [] step = "status" /\ call.op = "create" -> [run EXCEPT !.open = TRUE]
    [] step = "status" /\ call.op # "create" -> [run EXCEPT !.terminal = TRUE]
    [] OTHER -> run

WriteTemporary ==
  /\ call.step \in Writes /\ call.at = "start" /\ ~ CtxDone
  /\ call' = [call EXCEPT !.at = "temp"]
  /\ disk' = [disk EXCEPT !.stray = @ \/ Directory(call.step) = "inputs"]
  /\ UNCHANGED <<safe, run, canceled, result, acked, budget, cautious>>

RenameTemporary ==
  /\ call.step \in Writes /\ call.at = "temp" /\ ~ CtxDone
  /\ call' = [call EXCEPT !.at = "renamed"]
  /\ disk' = Renamed(call.step)
  /\ UNCHANGED <<safe, run, canceled, result, acked, budget, cautious>>

(* A rollback that is written still ends a CopyInput that failed. *)
SyncParent ==
  /\ call.step \in Writes /\ call.at = "renamed"
  /\ safe' = Synced(Directory(call.step))
  /\ run' = RunAfter(call.step)
  /\ IF NextStep(call.step) = "done"
       THEN Return(IF call.step = "rollback" THEN "error" ELSE "ok")
       ELSE Goto(NextStep(call.step)) /\ UNCHANGED result
  /\ UNCHANGED <<disk, canceled, acked, budget, cautious>>

(* Mutant: every failed write counts as a write that published nothing. *)
RunAfterAnyFailure == IF call.op = "create" THEN NoRun ELSE run

(* The Run a failed write leaves to the caller.  Create returns none; a    *)
(* status.json that was renamed makes the run terminal even so.            *)
RunAfterFailedWrite ==
  CASE call.op = "create" -> NoRun
    [] call.op # "create" /\ call.step = "status" /\ call.at = "renamed" ->
         [run EXCEPT !.terminal = TRUE]
    [] OTHER -> run

(* atomicWrite returns the context's error, or a system call's; its        *)
(* deferred cleanup removes the temporary.                                 *)
FailWrite ==
  /\ call.step \in Writes
  /\ \/ /\ call.at \in {"start", "temp"} /\ CtxDone
        /\ Return("ctx")
        /\ UNCHANGED budget
     \/ /\ Fault
        /\ call.at = "start" => ~ CtxDone
        /\ Return("error")
  /\ run' = RunAfterFailedWrite
  /\ disk' = [disk EXCEPT !.stray =
                IF call.at = "temp" /\ call.step \in InputWrites THEN FALSE ELSE @]
  /\ UNCHANGED <<safe, canceled, acked, cautious>>

-----------------------------------------------------------------------------
(* Create, Complete, Fail *)

Create ==
  /\ ~ run.open /\ ~ canceled
  /\ disk = EmptyDirectory
  /\ Begin("create", "config", NoRole)
  /\ UNCHANGED <<disk, safe, run, canceled, acked, budget, cautious>>

(* Mutant: the caller ignores the error of its last call. *)
MayCallRegardless(op) ==
  run.open /\ ~ run.terminal /\ (op # "fail" => ~ canceled)

(* The calls a caller still makes on the Run it holds. *)
MayCall(op) ==
  /\ run.open /\ ~ run.terminal
  /\ op # "fail" => ~ canceled
  /\ cautious => \/ result \in {"none", "ok"}
                 \/ result = "error" /\ op = "fail"

Complete ==
  /\ MayCall("complete")
  /\ Begin("complete", "summary", NoRole)
  /\ UNCHANGED <<disk, safe, run, canceled, acked, budget, cautious>>

Fail ==
  /\ MayCall("fail")
  /\ Begin("fail", "status", NoRole)
  /\ run' = [run EXCEPT !.status = "failed"]
  /\ UNCHANGED <<disk, safe, canceled, acked, budget, cautious>>

-----------------------------------------------------------------------------
(* CopyInput: pending bytes, then the manifest that commits them, then the *)
(* final name.                                                             *)

CopyInput(r) ==
  /\ MayCall("copy")
  /\ r \notin run.inputs
  /\ Begin("copy", "pending", r)
  /\ UNCHANGED <<disk, safe, run, canceled, acked, budget, cautious>>

PublishInput ==
  /\ call.step = "publish" /\ ~ canceled
  /\ Goto("dirsync")
  /\ disk' = [disk EXCEPT !.slot[call.role] = {"final"}]
  /\ UNCHANGED <<safe, run, canceled, result, acked, budget, cautious>>

(* A cancellation seen here leaves a manifest that names pending bytes. *)
CancelPublish ==
  /\ call.step = "publish" /\ canceled
  /\ Return("ctx")
  /\ UNCHANGED <<disk, safe, run, canceled, acked, budget, cautious>>

FailPublish ==
  /\ call.step = "publish" /\ ~ canceled /\ Fault
  /\ run' = [run EXCEPT !.inputs = @ \ {call.role}]
  /\ Goto("rollback")
  /\ UNCHANGED <<disk, safe, canceled, result, acked, cautious>>

(* Mutant: CopyInput returns without the sync after its rename. *)
SyncInputSkipped ==
  /\ call.step = "dirsync"
  /\ acked' = acked \cup {call.role}
  /\ Return("ok")
  /\ UNCHANGED <<disk, safe, run, canceled, budget, cautious>>

(* Mutant: the role is read after the call's state is cleared. *)
SyncInputAfterReturn ==
  /\ call.step = "dirsync"
  /\ safe' = Synced("inputs")
  /\ Return("ok")
  /\ acked' = acked \cup {call'.role}
  /\ UNCHANGED <<disk, run, canceled, budget, cautious>>

SyncInput ==
  /\ call.step = "dirsync"
  /\ safe' = Synced("inputs")
  /\ acked' = acked \cup {call.role}
  /\ Return("ok")
  /\ UNCHANGED <<disk, run, canceled, budget, cautious>>

FailSyncInput ==
  /\ call.step = "dirsync" /\ Fault
  /\ Return("error")
  /\ UNCHANGED <<disk, safe, run, canceled, acked, cautious>>

-----------------------------------------------------------------------------
(* Resume: recoverPendingInputs first, whatever the state of the run; then *)
(* Open; then the checks on state and configuration.                       *)

Pending == {r \in Roles : "pending" \in disk.slot[r]}

Resume ==
  /\ ~ run.open /\ ~ canceled
  /\ disk # EmptyDirectory
  /\ Begin("resume", IF Pending = {} THEN "open" ELSE "recover", NoRole)
  /\ UNCHANGED <<disk, safe, run, canceled, acked, budget, cautious>>

(* Mutants: recovery discards committed bytes, or publishes uncommitted ones. *)
RecoveredDiscarding(r) == disk.slot[r] \ {"pending"}
RecoveredPublishing(r) == {"final"}

(* What recovery makes of the names of one pending input. *)
Recovered(r) ==
  IF r \in Named(disk) THEN {"final"} ELSE disk.slot[r] \ {"pending"}

RecoverInput(r) ==
  /\ call.step = "recover" /\ r \in Pending
  /\ disk' = [disk EXCEPT !.slot[r] = Recovered(r)]
  /\ Goto(IF Pending = {r} THEN "recoversync" ELSE "recover")
  /\ UNCHANGED <<safe, run, canceled, result, acked, budget, cautious>>

SyncRecovery ==
  /\ call.step = "recoversync"
  /\ safe' = Synced("inputs")
  /\ Goto("open")
  /\ UNCHANGED <<disk, run, canceled, result, acked, budget, cautious>>

FailRecovery ==
  /\ call.step \in {"recover", "recoversync"} /\ Fault
  /\ Return("error")
  /\ UNCHANGED <<disk, safe, run, canceled, acked, cautious>>

(* Mutant: the resumed Run starts with no inputs. *)
FinishResumeEmpty(sameConfig) ==
  /\ call.step = "open"
  /\ IF Openable(disk) /\ disk.status = "active" /\ sameConfig
       THEN /\ run' = [NoRun EXCEPT !.open = TRUE]
            /\ Return("ok")
       ELSE Return("error") /\ UNCHANGED run
  /\ UNCHANGED <<disk, safe, canceled, acked, budget, cautious>>

FinishResume(sameConfig) ==
  /\ call.step = "open"
  /\ IF Openable(disk) /\ disk.status = "active" /\ sameConfig
       THEN /\ run' = [NoRun EXCEPT !.open = TRUE, !.inputs = Named(disk)]
            /\ Return("ok")
       ELSE Return("error") /\ UNCHANGED run
  /\ UNCHANGED <<disk, safe, canceled, acked, budget, cautious>>

-----------------------------------------------------------------------------
(* The environment *)

Cancel ==
  /\ run.open \/ call # Idle
  /\ ~ canceled
  /\ canceled' = TRUE
  /\ UNCHANGED <<disk, safe, run, call, result, acked, budget, cautious>>

(* The process is gone, or its caller lets go of the Run or of a failed    *)
(* call: a later call finds a fresh process and a fresh context.           *)
Forget == run' = NoRun /\ call' = Idle /\ canceled' = FALSE /\ result' = "none"

Release ==
  /\ call = Idle
  /\ run.open \/ result # "none"
  /\ Forget
  /\ UNCHANGED <<disk, safe, acked, budget, cautious>>

Crash ==
  /\ call # Idle
  /\ budget.crashes < MaxCrashes
  /\ budget' = [budget EXCEPT !.crashes = @ + 1]
  /\ Forget
  /\ UNCHANGED <<disk, safe, acked, cautious>>

(* Every entry comes back as it was synced or as it was last seen.  A      *)
(* rename caught between the two may leave both names, never neither.      *)
PowerLoss ==
  /\ budget.losses < MaxLosses
  /\ budget' = [budget EXCEPT !.losses = @ + 1]
  /\ Forget
  /\ \E base \in {safe.base, disk.base}, status \in {safe.status, disk.status},
        summary \in {safe.summary, disk.summary},
        inputs \in {safe.inputs, disk.inputs}, stray \in {safe.stray, disk.stray},
        slot \in [Roles -> SUBSET {"pending", "final"}] :
       /\ \A r \in Roles : slot[r] \in {safe.slot[r], disk.slot[r],
                                        safe.slot[r] \cup disk.slot[r]}
       /\ disk' = [base |-> base, status |-> status, summary |-> summary,
                   inputs |-> inputs, slot |-> slot, stray |-> stray]
  /\ safe' = disk'
  /\ UNCHANGED <<acked, cautious>>

-----------------------------------------------------------------------------
Process ==
  \/ Create \/ Complete \/ Fail \/ \E r \in Roles : CopyInput(r)
  \/ WriteTemporary \/ RenameTemporary \/ SyncParent \/ FailWrite
  \/ PublishInput \/ CancelPublish \/ FailPublish \/ SyncInput \/ FailSyncInput
  \/ Resume \/ \E r \in Roles : RecoverInput(r)
  \/ SyncRecovery \/ FailRecovery
  \/ \E sameConfig \in BOOLEAN : FinishResume(sameConfig)

Environment == Cancel \/ Release \/ Crash \/ PowerLoss

Next == Process \/ Environment

Spec == Init /\ [][Next]_vars

-----------------------------------------------------------------------------
(* Safety *)

(* Whatever interrupts CopyInput or the recovery of it, an input the       *)
(* manifest names still has its bytes, under its pending or its final name *)
(* (input.go writes the bytes first, the manifest second).  A loss of      *)
(* power alone does not break that either; one that follows a rollback the *)
(* death of the process cut short can bring back the manifest and not the  *)
(* bytes that recovery has discarded.                                      *)
CommittedBytesSurvive ==
  \/ \A r \in Named(disk) : disk.slot[r] # {}
  \/ budget.losses > 0 /\ budget.crashes + budget.faults > 0

(* An input whose CopyInput returned success is named and in place, seen   *)
(* and on storage, through every later failure, crash and power loss.      *)
AckedInputsDurable ==
  \A r \in acked : \A image \in {disk, safe} :
    r \in Named(image) /\ "final" \in image.slot[r]

(* Storage never says complete without the summary Open then requires:     *)
(* finish syncs results/summary.json before it renames status.json.        *)
DurableCompleteHasSummary == safe.status = "complete" => safe.summary

(* Between calls the in-memory Run knows the file: it is terminal exactly  *)
(* when status.json is, even when the last call failed, and while it is    *)
(* active and the last call succeeded it lists what the manifest names.    *)
MemoryMatchesDisk ==
  run.open /\ call = Idle =>
    /\ run.terminal <=> disk.status \in Terminal
    /\ result = "ok" /\ ~ run.terminal => run.inputs = Named(disk)

(* Without a loss of power, a run marked complete is one Open accepts, as  *)
(* the final comparison and report need, provided the caller stops at the  *)
(* first call that fails.                                                  *)
CompleteIsReadable ==
  cautious /\ budget.losses = 0 /\ disk.status = "complete" => Openable(disk)

(* Recovery leaves no half of an input transaction: when it hands over to  *)
(* Open, and the power has never failed, only a leftover temporary can     *)
(* make the inputs inconsistent.                                           *)
RecoverySettlesInputs ==
  call.step = "open" /\ disk.base = {"config", "manifest"} =>
    \/ Pending = {} /\ InputsConsistent(disk)
    \/ disk.stray
    \/ budget.losses > 0

(* A status.json that says complete or failed is never replaced, not by a  *)
(* Fail that follows a Complete whose sync failed, nor by a Resume; only a *)
(* loss of power can take it back, and not once storage holds it.          *)
TerminalIsFinal ==
  [][/\ disk.status \in Terminal /\ budget'.losses = budget.losses =>
          disk'.status = disk.status
     /\ safe.status \in Terminal =>
          safe'.status = safe.status /\ disk'.status = safe.status]_vars

(* As long as no process has died and no system call has failed, a run     *)
(* storage holds as complete is one Open accepts after a loss of power.    *)
(* (After either, the rename of an input may never have been synced.)      *)
DurableCompleteOpens ==
  budget.crashes + budget.faults = 0 /\ safe.status = "complete" => Openable(safe)

-----------------------------------------------------------------------------
(* What the package promises, as Custody states it *)

Store == INSTANCE Custody WITH
  state <- IF disk.status = NoFile THEN "none" ELSE disk.status,
  inputs <- Named(disk),
  kept <- acked

(* For a caller that stops at the first call that fails, every step of     *)
(* every call, with its crashes, its failures and the recovery after them, *)
(* is one of the few atomic steps of Custody, or changes nothing a caller  *)
(* can see; only a loss of power can do anything else.                     *)
RefinesCustody ==
  /\ Store!Init
  /\ [][cautious => Store!Next \/ budget'.losses > budget.losses]_(Store!vars)

-----------------------------------------------------------------------------
(* A claim of the repository that the code does not keep *)

(* pkg/runstore/read.go:238: recovery "completes or discards the small     *)
(* transaction used by CopyInput".  A process that dies inside atomicWrite *)
(* leaves inputs/.artifact-*, which recovery does not look at and Open     *)
(* refuses, so the active run can never be resumed.                        *)
RecoveryCompletesOrDiscards ==
  call.step = "open" /\ disk.base = {"config", "manifest"} =>
    InputsConsistent(disk)
=============================================================================
