---------------------------- MODULE RunStoreProofs ----------------------------
(***************************************************************************)
(* Proofs about RunStore, for every set of roles and every number of       *)
(* faults, crashes and power losses.                                       *)
(*                                                                         *)
(* None of the properties is inductive: what a rename makes visible comes  *)
(* from the memory of the process, so each rests on what a Run knows of    *)
(* the directory at each step of each call.  The invariant is a            *)
(* conjunction of parts, one for each thing a call relies on; the parts    *)
(* under "cautious" and "Quiet" say for which callers and which            *)
(* interruptions they hold.                                                *)
(***************************************************************************)
EXTENDS RunStore, TLAPS

(* The rename of the step under way is visible, its sync has not returned. *)
At(step) == call.step = step /\ call.at = "renamed"

(* No process has died and no system call has failed so far. *)
Quiet == budget.crashes + budget.faults = 0

(* A call of one kind is at one of the steps of that kind, on a Run that   *)
(* still takes it; the process holds nothing of a Run it has not opened.   *)
CallShape ==
  /\ call.op = "none" => call = Idle
  /\ call.op = "create" => call.step \in {"config", "manifest", "status"} /\ ~ run.open
  /\ call.op = "copy" =>
       /\ call.step \in InputWrites \cup {"publish", "dirsync"}
       /\ call.role \in Roles /\ run.open /\ ~ run.terminal
  /\ call.op = "complete" =>
       /\ call.step \in {"summary", "status"} /\ run.open /\ ~ run.terminal
       /\ call.step = "status" => run.status = "complete"
  /\ call.op = "fail" =>
       /\ call.step = "status" /\ run.open /\ ~ run.terminal
       /\ run.status = "failed"
  /\ call.op = "resume" =>
       call.step \in {"recover", "recoversync", "open"} /\ ~ run.open
  /\ ~ run.open => run = NoRun

(* How the last call returned says what the caller may rely on. *)
ResultTold ==
  /\ run.open /\ call = Idle =>
       /\ result # "none"
       /\ result = "ctx" => canceled
       /\ result = "error" => ~ Quiet
  /\ call.step = "rollback" => ~ Quiet

(* The status of an open Run is the one in the file, but for the moment    *)
(* between the rename of status.json and the return of the call.           *)
StatusKnown ==
  /\ call.op = "create" /\ ~ At("status") => disk.status = NoFile
  /\ run.open /\ ~ At("status") =>
       IF run.terminal THEN disk.status \in Terminal ELSE disk.status = "active"
  /\ At("status") => disk.status = run.status
  /\ safe.status \in Terminal => disk.status = safe.status

(* The summary is on storage before anything says complete. *)
SummaryFirst ==
  /\ "complete" \in {run.status, disk.status, safe.status} => safe.summary
  /\ safe.summary => disk.summary
  /\ At("summary") => disk.summary

(* config.json and manifest.json are on storage before status.json exists. *)
BaseFirst ==
  /\ safe.base \subseteq disk.base
  /\ \A step \in {"config", "manifest"} : At(step) => step \in disk.base
  /\ call.op = "create" /\ call.step \in {"manifest", "status"} => "config" \in safe.base
  /\ call.op = "create" /\ call.step = "status" => "manifest" \in safe.base
  /\ disk.status # NoFile \/ safe.status # NoFile =>
       safe.base = {"config", "manifest"}

(* A new directory holds no inputs. *)
NewIsEmpty ==
  call.op = "create" =>
    /\ disk.inputs = NoFile /\ ~ disk.stray
    /\ \A r \in Roles : disk.slot[r] = {}

(* What the Run lists against what inputs/manifest.json names. *)
InputsKnown ==
  /\ \A step \in {"inputs", "rollback"} : At(step) => disk.inputs = run.inputs
  /\ call.step = "pending" => call.role \notin run.inputs
  /\ call.step = "inputs" => call.role \in run.inputs
  /\ call.step = "rollback" => call.role \notin run.inputs
  /\ call.step \in {"publish", "dirsync"} =>
       call.role \in run.inputs /\ disk.inputs = run.inputs
  /\ At("pending") => "pending" \in disk.slot[call.role]
  /\ call.step = "dirsync" => "final" \in disk.slot[call.role]
  /\ run.open /\ call = Idle /\ result = "ok" /\ ~ run.terminal =>
       run.inputs = Named(disk)

(* The inputs a call that returned success has copied. *)
AckedKnown ==
  /\ AckedInputsDurable
  /\ run.open => acked \subseteq run.inputs
  /\ call.op = "copy" => call.role \notin acked

(* Only a write under way has a temporary in inputs/, unless a process     *)
(* died there, and then no Run is open.                                    *)
StrayKnown ==
  run.open /\ disk.stray => call.step \in InputWrites /\ call.at = "temp"

(* Recovery ends with no pending name left. *)
PendingGone == call.step \in {"recoversync", "open"} => Pending = {}

(* A caller that stops at the first failure, or one that meets none, lists *)
(* the inputs of the manifest and the one under way.                       *)
TrustedInputs ==
  cautious \/ Quiet =>
    /\ call.step = "pending" => run.inputs = Named(disk)
    /\ call.step = "inputs" /\ call.at # "renamed" =>
         run.inputs = Named(disk) \cup {call.role} /\ call.role \notin Named(disk)
    /\ call.step = "rollback" /\ call.at # "renamed" =>
         run.inputs = Named(disk) \ {call.role} /\ call.role \in Named(disk)

IInv ==
  /\ TypeOK /\ CallShape /\ ResultTold
  /\ StatusKnown /\ SummaryFirst /\ BaseFirst /\ NewIsEmpty
  /\ InputsKnown /\ AckedKnown /\ StrayKnown /\ PendingGone /\ TrustedInputs

-----------------------------------------------------------------------------
(* A new directory, before anything happened. *)
LEMMA InitIInv == Init => IInv
<1> SUFFICES ASSUME Init PROVE IInv
  OBVIOUS
<1>1. TypeOK
  <2>1. disk \in Image /\ safe \in Image
    BY RunStoreAssumption DEF Init, EmptyDirectory, Image
  <2>2. run \in [open : BOOLEAN, inputs : SUBSET Roles, status : States, terminal : BOOLEAN]
    BY DEF Init, NoRun, States
  <2>3. call \in Call
    BY DEF Init, Idle, Call
  <2>4. budget \in [faults : 0 .. MaxFaults, crashes : 0 .. MaxCrashes,
                   losses : 0 .. MaxLosses]
    BY RunStoreAssumption DEF Init
  <2>5. QED
    BY <2>1, <2>2, <2>3, <2>4 DEF Init, TypeOK
<1>2. CallShape /\ ResultTold /\ StatusKnown /\ SummaryFirst /\ BaseFirst /\ NewIsEmpty
  BY RunStoreAssumption
  DEF Init, EmptyDirectory, NoRun, Idle, At, CallShape, ResultTold, StatusKnown, SummaryFirst, BaseFirst, NewIsEmpty, Terminal
<1>3. InputsKnown /\ AckedKnown /\ StrayKnown /\ PendingGone /\ TrustedInputs
  BY RunStoreAssumption
  DEF Init, EmptyDirectory, NoRun, Idle, At, InputsKnown, AckedKnown, StrayKnown, PendingGone, TrustedInputs, AckedInputsDurable
<1>4. QED
  BY <1>1, <1>2, <1>3 DEF IInv

(* The kinds of calls and their steps, spelled out. *)
LEMMA CallCases ==
  ASSUME TypeOK, CallShape
  PROVE  /\ \/ call = Idle /\ call.op = "none" /\ call.step = "none" /\ call.at = "start"
            \/ /\ call.op = "create" /\ call.step \in {"config", "manifest", "status"}
               /\ ~ run.open
            \/ /\ call.op = "copy" /\ call.step \in {"pending", "inputs", "rollback", "publish", "dirsync"}
               /\ call.role \in Roles /\ run.open /\ ~ run.terminal
            \/ /\ call.op = "complete" /\ call.step \in {"summary", "status"}
               /\ run.open /\ ~ run.terminal
            \/ call.op = "fail" /\ call.step = "status" /\ run.open /\ ~ run.terminal
            \/ call.op = "resume" /\ call.step \in {"recover", "recoversync", "open"} /\ ~ run.open
         /\ call.at \in {"start", "temp", "renamed"}
BY DEF TypeOK, CallShape, Call, InputWrites, Idle

RunType == [open : BOOLEAN, inputs : SUBSET Roles, status : States, terminal : BOOLEAN]
BudgetType == [faults : 0 .. MaxFaults, crashes : 0 .. MaxCrashes, losses : 0 .. MaxLosses]

(* A system call that fails is counted, and nothing else is. *)
LEMMA FaultCounted ==
  ASSUME TypeOK, Fault
  PROVE  budget' \in BudgetType /\ budget'.losses = budget.losses /\ ~ Quiet'
BY RunStoreAssumption DEF Fault, TypeOK, BudgetType, Quiet

-----------------------------------------------------------------------------
(* A call begins *)

(* The call a caller begins. *)
LEMMA BegunCall ==
  ASSUME NEW op \in {"create", "copy", "complete", "fail", "resume"},
         NEW step \in {"config", "pending", "summary", "status", "recover", "open"},
         NEW role \in Roles \cup {NoRole}, Begin(op, step, role)
  PROVE  /\ call = Idle /\ result' = "none"
         /\ call' \in Call /\ call' # Idle
         /\ call'.op = op /\ call'.step = step /\ call'.at = "start" /\ call'.role = role
BY DEF Begin, Call, Writes, Idle

(* The state a call begins in, field by field. *)
BegunFields ==
  /\ UNCHANGED <<disk, safe, canceled, acked, budget, cautious>>
  /\ call = Idle /\ result' = "none"
  /\ call' \in Call /\ call'.at = "start" /\ call' # Idle
  /\ run' \in RunType
  /\ run'.open = run.open /\ run'.inputs = run.inputs /\ run'.terminal = run.terminal
  /\ \/ run' = run /\ call'.op # "fail"
     \/ call'.op = "fail" /\ run'.status = "failed"
  /\ \/ /\ call'.op = "create" /\ call'.step = "config" /\ ~ run.open
        /\ disk = EmptyDirectory
     \/ /\ call'.op = "complete" /\ call'.step = "summary" /\ run.open /\ ~ run.terminal
        /\ MayCall("complete")
     \/ /\ call'.op = "fail" /\ call'.step = "status" /\ run.open /\ ~ run.terminal
     \/ /\ call'.op = "copy" /\ call'.step = "pending" /\ run.open /\ ~ run.terminal
        /\ call'.role \in Roles \ run.inputs /\ MayCall("copy")
     \/ /\ call'.op = "resume" /\ ~ run.open
        /\ \/ call'.step = "open" /\ Pending = {}
           \/ call'.step = "recover"

(* The actions that begin a call do that. *)
LEMMA BeginFields ==
  ASSUME TypeOK, Create \/ Complete \/ Fail \/ Resume \/ \E r \in Roles : CopyInput(r)
  PROVE  BegunFields
<1> USE DEF BegunFields
<1>1. CASE Create
  BY <1>1, BegunCall DEF TypeOK, Create, RunType
<1>2. CASE Complete
  BY <1>2, BegunCall DEF TypeOK, Complete, MayCall, RunType
<1>3. CASE Fail
  BY <1>3, BegunCall DEF TypeOK, Fail, MayCall, RunType, States, Terminal
<1>4. CASE Resume
  BY <1>4, BegunCall DEF TypeOK, Resume, RunType
<1>5. CASE \E r \in Roles : CopyInput(r)
  BY <1>5, BegunCall DEF TypeOK, CopyInput, MayCall, RunType
<1>6. QED
  BY <1>1, <1>2, <1>3, <1>4, <1>5

(* A call that begins keeps the invariant. *)
LEMMA BeginKeepsIInv ==
  ASSUME IInv, Create \/ Complete \/ Fail \/ Resume \/ \E r \in Roles : CopyInput(r)
  PROVE  IInv'
<1>1. BegunFields
  BY BeginFields DEF IInv
<1> USE DEF BegunFields
<1>2. TypeOK'
  BY <1>1 DEF IInv, TypeOK, RunType
<1>3. CallShape' /\ ResultTold'
  BY <1>1 DEF IInv, CallShape, ResultTold, InputWrites
<1>4. StatusKnown' /\ SummaryFirst'
  BY <1>1 DEF IInv, StatusKnown, SummaryFirst, At, Idle, EmptyDirectory
<1>5. BaseFirst' /\ NewIsEmpty'
  BY <1>1 DEF IInv, BaseFirst, NewIsEmpty, At, Idle, EmptyDirectory
<1>6. InputsKnown'
  BY <1>1 DEF IInv, InputsKnown, At
<1>7. AckedKnown' /\ StrayKnown'
  BY <1>1 DEF IInv, AckedKnown, AckedInputsDurable, StrayKnown, Idle
<1>8. PendingGone'
  BY <1>1 DEF Pending, PendingGone
<1>9. TrustedInputs'
  <2>1. (cautious \/ Quiet) /\ call'.step = "pending" => result = "ok"
    BY <1>1 DEF IInv, TypeOK, ResultTold, MayCall
  <2>2. QED
    BY <1>1, <2>1 DEF IInv, InputsKnown, TrustedInputs, Quiet, Named
<1>10. QED
  BY <1>2, <1>3, <1>4, <1>5, <1>6, <1>7, <1>8, <1>9 DEF IInv

-----------------------------------------------------------------------------
(* atomicWrite *)

(* A temporary appears, in inputs/ or elsewhere. *)
TemporaryFields ==
  /\ UNCHANGED <<safe, run, canceled, result, acked, budget, cautious>>
  /\ call.step \in Writes /\ call.at = "start"
  /\ call' \in Call /\ call'.at = "temp"
  /\ call'.op = call.op /\ call'.step = call.step /\ call'.role = call.role
  /\ disk' \in Image
  /\ disk'.base = disk.base /\ disk'.status = disk.status /\ disk'.summary = disk.summary
  /\ disk'.inputs = disk.inputs /\ disk'.slot = disk.slot
  /\ disk'.stray = (disk.stray \/ call.step \in InputWrites)

(* That is what WriteTemporary does. *)
LEMMA TemporaryWritten ==
  ASSUME IInv, WriteTemporary
  PROVE  TemporaryFields
<1>1. /\ UNCHANGED <<safe, run, canceled, result, acked, budget, cautious>>
      /\ call.step \in Writes /\ call.at = "start"
      /\ call' \in Call /\ call'.at = "temp"
      /\ call'.op = call.op /\ call'.step = call.step /\ call'.role = call.role
  BY DEF IInv, TypeOK, WriteTemporary, Call
<1>2. /\ disk' \in Image
      /\ disk'.base = disk.base /\ disk'.status = disk.status /\ disk'.summary = disk.summary
      /\ disk'.inputs = disk.inputs /\ disk'.slot = disk.slot
      /\ disk'.stray = (disk.stray \/ call.step \in InputWrites)
  BY <1>1 DEF IInv, TypeOK, WriteTemporary, Image, Directory, InputWrites
<1>3. QED
  BY <1>1, <1>2 DEF TemporaryFields

(* A temporary disturbs nothing a call knows. *)
LEMMA WriteTemporaryKeepsIInv ==
  ASSUME IInv, WriteTemporary
  PROVE  IInv'
<1>1. TemporaryFields
  BY TemporaryWritten DEF IInv
<1> USE DEF TemporaryFields
<1>2. TypeOK'
  BY <1>1 DEF IInv, TypeOK
<1>3. CallShape' /\ ResultTold'
  BY <1>1 DEF IInv, CallShape, ResultTold, Idle, Quiet, Writes
<1>4. StatusKnown' /\ SummaryFirst'
  BY <1>1 DEF IInv, StatusKnown, SummaryFirst, At
<1>5. BaseFirst' /\ NewIsEmpty'
  BY <1>1, CallCases DEF IInv, BaseFirst, NewIsEmpty, At, InputWrites
<1>6. InputsKnown'
  BY <1>1 DEF IInv, InputsKnown, At, Named, Idle
<1>7. AckedKnown'
  BY <1>1 DEF IInv, AckedKnown, AckedInputsDurable, Named
<1>8. StrayKnown' /\ PendingGone'
  BY <1>1 DEF IInv, StrayKnown, PendingGone, Writes, InputWrites
<1>9. TrustedInputs'
  BY <1>1 DEF IInv, TrustedInputs, Quiet, Named
<1>10. QED
  BY <1>2, <1>3, <1>4, <1>5, <1>6, <1>7, <1>8, <1>9 DEF IInv

(* What a rename makes of the directory, field by field. *)
RenamedFields ==
  /\ UNCHANGED <<safe, run, canceled, result, acked, budget, cautious>>
  /\ call' \in Call /\ disk' \in Image
  /\ call'.op = call.op /\ call'.step = call.step /\ call'.role = call.role
  /\ call'.at = "renamed" /\ call.step \in Writes /\ call.at = "temp"
  /\ disk'.base = IF call.step \in {"config", "manifest"}
                    THEN disk.base \cup {call.step} ELSE disk.base
  /\ disk'.status = IF call.step = "status" THEN run.status ELSE disk.status
  /\ disk'.summary = (disk.summary \/ call.step = "summary")
  /\ disk'.inputs = IF call.step \in {"inputs", "rollback"} THEN run.inputs ELSE disk.inputs
  /\ \A r \in Roles :
       disk'.slot[r] = IF call.step = "pending" /\ r = call.role
                         THEN disk.slot[r] \cup {"pending"} ELSE disk.slot[r]
  /\ call.step # "pending" => disk'.slot = disk.slot
  /\ disk'.stray = (disk.stray /\ call.step \notin InputWrites)

(* That is what RenameTemporary does. *)
LEMMA RenameFields ==
  ASSUME TypeOK, CallShape, RenameTemporary
  PROVE  RenamedFields
<1> USE DEF RenamedFields
<1>1. /\ call \in Call /\ disk \in Image /\ call.step \in Writes /\ call.at = "temp"
      /\ call.step = "pending" => call.role \in Roles
      /\ run.inputs \in SUBSET Roles /\ run.status \in States
  BY DEF TypeOK, CallShape, RenameTemporary, Call, InputWrites, Idle
<1>2. /\ call' = [call EXCEPT !.at = "renamed"]
      /\ UNCHANGED <<safe, run, canceled, result, acked, budget, cautious>>
  BY DEF RenameTemporary
<1>3. CASE call.step \in {"config", "manifest"}
  <2>1. disk' = [disk EXCEPT !.base = disk.base \cup {call.step}]
    BY <1>3 DEF RenameTemporary, Renamed
  <2>2. QED
    BY <1>1, <1>2, <1>3, <2>1 DEF Call, Image, InputWrites
<1>4. CASE call.step = "status"
  <2>1. disk' = [disk EXCEPT !.status = run.status]
    BY <1>4 DEF RenameTemporary, Renamed
  <2>2. QED
    BY <1>1, <1>2, <1>4, <2>1 DEF Call, Image, InputWrites
<1>5. CASE call.step = "summary"
  <2>1. disk' = [disk EXCEPT !.summary = TRUE]
    BY <1>5 DEF RenameTemporary, Renamed
  <2>2. QED
    BY <1>1, <1>2, <1>5, <2>1 DEF Call, Image, InputWrites
<1>6. CASE call.step = "pending"
  <2>1. disk' = [disk EXCEPT !.slot[call.role] = disk.slot[call.role] \cup {"pending"}, !.stray = FALSE]
    BY <1>6 DEF RenameTemporary, Renamed
  <2>2. QED
    BY <1>1, <1>2, <1>6, <2>1 DEF Call, Image, InputWrites
<1>7. CASE call.step \in {"inputs", "rollback"}
  <2>1. disk' = [disk EXCEPT !.inputs = run.inputs, !.stray = FALSE]
    BY <1>7 DEF RenameTemporary, Renamed
  <2>2. QED
    BY <1>1, <1>2, <1>7, <2>1 DEF Call, Image, InputWrites
<1>8. QED
  BY <1>1, <1>3, <1>4, <1>5, <1>6, <1>7 DEF Writes

(* A rename shows what the Run already knows. *)
LEMMA RenameTemporaryKeepsIInv ==
  ASSUME IInv, RenameTemporary
  PROVE  IInv'
<1>1. RenamedFields
  BY RenameFields DEF IInv
<1> USE DEF RenamedFields
<1>2. TypeOK'
  BY <1>1 DEF IInv, TypeOK
<1>3. CallShape' /\ ResultTold'
  BY <1>1 DEF IInv, CallShape, ResultTold, Quiet, Idle
<1>4. StatusKnown'
  BY <1>1, RunStoreAssumption
  DEF At, IInv, TypeOK, Call, CallShape, StatusKnown, Terminal, Idle, Writes, NoRun
<1>5. SummaryFirst'
  BY <1>1 DEF At, IInv, CallShape, SummaryFirst
<1>6. BaseFirst'
  <2>1. disk'.status # NoFile => safe.base = {"config", "manifest"}
    <3>1. CASE disk'.status # disk.status /\ call.op = "create"
      <4>1. call.step = "status" /\ safe.base \in SUBSET {"config", "manifest"}
        BY <1>1, <3>1 DEF IInv, TypeOK, Image
      <4>2. QED
        BY <3>1, <4>1 DEF IInv, BaseFirst
    <3>2. CASE disk'.status # disk.status /\ call.op # "create"
      <4>1. disk.status = "active"
        BY <1>1, <3>2, CallCases DEF IInv, StatusKnown, At
      <4>2. QED
        BY <4>1, RunStoreAssumption DEF IInv, BaseFirst
    <3>3. QED
      BY <3>1, <3>2 DEF IInv, BaseFirst
  <2>2. QED
    BY <1>1, <2>1 DEF IInv, BaseFirst, At
<1>7. NewIsEmpty'
  BY <1>1, CallCases DEF IInv, NewIsEmpty
<1>8. InputsKnown'
  <2>1. (\A step \in {"inputs", "rollback"} : At(step) => disk.inputs = run.inputs)'
    BY <1>1 DEF At
  <2>2. (At("pending") => "pending" \in disk.slot[call.role])'
    BY <1>1, CallCases DEF IInv, At
  <2>3. QED
    BY <1>1, <2>1, <2>2 DEF IInv, InputsKnown, Writes, Idle
<1>9. AckedKnown'
  <2>1. ASSUME NEW r \in acked
        PROVE  r \in Named(disk)' /\ "final" \in disk'.slot[r]
    <3>1. r \in Roles /\ r \in Named(disk) /\ "final" \in disk.slot[r]
      BY DEF IInv, TypeOK, AckedKnown, AckedInputsDurable
    <3>2. call.step \in {"inputs", "rollback"} => r \in run.inputs /\ run.inputs # NoFile
      BY RunStoreAssumption, CallCases DEF IInv, TypeOK, AckedKnown
    <3>3. QED
      BY <1>1, <3>1, <3>2 DEF Named
  <2>2. QED
    BY <1>1, <2>1 DEF IInv, AckedKnown, AckedInputsDurable, Named
<1>10. StrayKnown' /\ PendingGone'
  BY <1>1, CallCases DEF IInv, StrayKnown, PendingGone, Writes
<1>11. TrustedInputs'
  BY <1>1, CallCases DEF IInv, InputsKnown, TrustedInputs, Quiet, Named
<1>12. QED
  BY <1>2, <1>3, <1>4, <1>5, <1>6, <1>7, <1>8, <1>9, <1>10, <1>11 DEF IInv

(* What a sync makes of storage, of the Run and of the call. *)
SyncedFields ==
  LET root == call.step \in {"config", "manifest", "status"}
      inputs == call.step \in InputWrites
  IN  /\ UNCHANGED <<disk, canceled, acked, budget, cautious>>
      /\ call.step \in Writes /\ call.at = "renamed"
      /\ safe' \in Image
      /\ safe'.base = IF root THEN disk.base ELSE safe.base
      /\ safe'.status = IF root THEN disk.status ELSE safe.status
      /\ safe'.summary = IF call.step = "summary" THEN disk.summary ELSE safe.summary
      /\ safe'.inputs = IF inputs THEN disk.inputs ELSE safe.inputs
      /\ safe'.slot = IF inputs THEN disk.slot ELSE safe.slot
      /\ safe'.stray = IF inputs THEN disk.stray ELSE safe.stray

ReturnedFields ==
  /\ run' \in RunType
  /\ run'.open = (run.open \/ (call.op = "create" /\ call.step = "status"))
  /\ run'.terminal = (run.terminal \/ (call.op # "create" /\ call.step = "status"))
  /\ run'.status = IF call.step = "summary" THEN "complete" ELSE run.status
  /\ run'.inputs = IF call.step = "pending" THEN run.inputs \cup {call.role} ELSE run.inputs
  /\ call' \in Call
  /\ IF call.step \in {"status", "rollback"}
       THEN call' = Idle /\ result' = IF call.step = "rollback" THEN "error" ELSE "ok"
       ELSE /\ call'.op = call.op /\ call'.role = call.role /\ call'.at = "start"
            /\ call'.step = NextStep(call.step) /\ result' = result

(* That is what SyncParent does. *)
LEMMA SyncFields ==
  ASSUME TypeOK, CallShape, SyncParent
  PROVE  SyncedFields /\ ReturnedFields
<1>1. /\ call \in Call /\ call.step \in Writes /\ call.at = "renamed"
      /\ call.step = "pending" => call.role \in Roles
      /\ disk \in Image /\ safe \in Image /\ run \in RunType
  BY CallCases DEF TypeOK, SyncParent, RunType
<1>2. SyncedFields
  BY <1>1 DEF SyncParent, SyncedFields, Synced, Directory, Writes, InputWrites, Image
<1>3. /\ run' \in RunType
      /\ run'.open = (run.open \/ (call.op = "create" /\ call.step = "status"))
      /\ run'.terminal = (run.terminal \/ (call.op # "create" /\ call.step = "status"))
      /\ run'.status = (IF call.step = "summary" THEN "complete" ELSE run.status)
      /\ run'.inputs = (IF call.step = "pending" THEN run.inputs \cup {call.role} ELSE run.inputs)
  <2>1. run' = RunAfter(call.step)
    BY DEF SyncParent
  <2>2. CASE call.step = "pending"
    BY <1>1, <2>1, <2>2 DEF RunAfter, RunType
  <2>3. CASE call.step = "summary"
    BY <1>1, <2>1, <2>3 DEF RunAfter, RunType, States, Terminal
  <2>4. CASE call.step = "status" /\ call.op = "create"
    <3>1. run' = [run EXCEPT !.open = TRUE]
      BY <2>1, <2>4 DEF RunAfter
    <3>2. QED
      BY <1>1, <2>4, <3>1 DEF RunType
  <2>5. CASE call.step = "status" /\ call.op # "create"
    <3>1. run' = [run EXCEPT !.terminal = TRUE]
      BY <2>1, <2>5 DEF RunAfter
    <3>2. QED
      BY <1>1, <2>5, <3>1 DEF RunType
  <2>6. CASE call.step \notin {"pending", "summary", "status"}
    BY <1>1, <2>1, <2>6 DEF RunAfter, RunType
  <2>7. QED
    BY <2>2, <2>3, <2>4, <2>5, <2>6
<1>4. CASE call.step \in {"status", "rollback"}
  <2>1. call' = Idle /\ result' = (IF call.step = "rollback" THEN "error" ELSE "ok")
    BY <1>4 DEF SyncParent, NextStep, Return
  <2>2. call' \in Call
    BY <2>1 DEF Idle, Call
  <2>3. ReturnedFields
    BY <1>3, <1>4, <2>1, <2>2 DEF ReturnedFields
  <2>4. QED
    BY <1>2, <2>3
<1>5. CASE call.step \notin {"status", "rollback"}
  <2>1. NextStep(call.step) \in Writes \cup {"publish"} /\ NextStep(call.step) # "done"
    BY <1>1, <1>5 DEF NextStep, Writes
  <2>2. call' = [call EXCEPT !.step = NextStep(call.step), !.at = "start"] /\ result' = result
    BY <2>1 DEF SyncParent, Goto
  <2>3. /\ call' \in Call
        /\ call'.op = call.op /\ call'.role = call.role /\ call'.at = "start"
        /\ call'.step = NextStep(call.step)
    BY <1>1, <2>1, <2>2 DEF Call
  <2>4. ReturnedFields
    BY <1>3, <1>5, <2>2, <2>3 DEF ReturnedFields
  <2>5. QED
    BY <1>2, <2>4
<1>6. QED
  BY <1>4, <1>5

(* A sync stores what the rename before it showed. *)
LEMMA SyncParentKeepsIInv ==
  ASSUME IInv, SyncParent
  PROVE  IInv'
<1>1. SyncedFields /\ ReturnedFields
  BY SyncFields DEF IInv
<1> USE DEF SyncedFields, ReturnedFields
<1>2. TypeOK'
  BY <1>1 DEF IInv, TypeOK, RunType
<1>3. CallShape'
  <2>1. run.open => run'.open
    BY <1>1
  <2>2. ~ run'.open => run' = NoRun
    <3>1. ~ run'.open => ~ run.open /\ call.op = "create" /\ call.step # "status"
      BY <1>1, CallCases DEF IInv, Writes
    <3>2. ~ run'.open => run' = run
      BY <1>1, <3>1, CallCases DEF IInv, TypeOK, RunType
    <3>3. QED
      BY <3>1, <3>2 DEF IInv, CallShape
  <2>3. CASE call.step \in {"status", "rollback"}
    BY <1>1, <2>2, <2>3 DEF CallShape, Idle
  <2>4. CASE call.step \notin {"status", "rollback"}
    <3>1. /\ call'.op = call.op /\ call'.role = call.role /\ call'.step = NextStep(call.step)
          /\ run'.open = run.open /\ run'.terminal = run.terminal
          /\ call.step \in Writes
      BY <1>1, <2>4 DEF IInv, TypeOK, RunType
    <3>2. CASE call.op = "create"
      BY <2>2, <2>4, <3>1, <3>2, CallCases DEF IInv, CallShape, NextStep
    <3>3. CASE call.op = "copy"
      <4>1. call.step \in {"pending", "inputs"}
        BY <2>4, <3>1, <3>3, CallCases DEF IInv, Writes
      <4>2. call'.step \in {"inputs", "publish"}
        BY <3>1, <4>1 DEF NextStep
      <4>3. QED
        BY <2>2, <3>1, <3>3, <4>2, CallCases DEF IInv, CallShape, InputWrites
    <3>4. CASE call.op = "complete"
      BY <1>1, <2>2, <2>4, <3>1, <3>4, CallCases DEF IInv, CallShape, NextStep
    <3>5. QED
      BY <2>4, <3>1, <3>2, <3>3, <3>4, CallCases DEF IInv, Writes
  <2>5. QED
    BY <2>3, <2>4
<1>4. ResultTold'
  BY <1>1, CallCases DEF IInv, ResultTold, NextStep, Idle, Quiet, Writes
<1>5. StatusKnown'
  BY <1>1, CallCases, RunStoreAssumption
  DEF IInv, TypeOK, CallShape, StatusKnown, NextStep, At, Idle, Terminal, States, NoRun
<1>6. SummaryFirst'
  BY <1>1, CallCases DEF IInv, SummaryFirst, NextStep, At, Idle
<1>7. BaseFirst'
  <2>1. safe.base \subseteq {"config", "manifest"} /\ disk.base \subseteq {"config", "manifest"}
    BY DEF IInv, TypeOK, Image
  <2>2. safe'.base \subseteq disk.base /\ safe.base \subseteq safe'.base
    BY <1>1 DEF IInv, BaseFirst
  <2>3. disk.status # NoFile \/ safe'.status # NoFile => safe'.base = {"config", "manifest"}
    BY <1>1, <2>1, <2>2 DEF IInv, BaseFirst
  <2>4. call'.op = "create" /\ call'.step \in {"manifest", "status"} => "config" \in safe'.base
    BY <1>1, <2>2, CallCases DEF IInv, BaseFirst, NextStep, At, Idle
  <2>5. call'.op = "create" /\ call'.step = "status" => "manifest" \in safe'.base
    BY <1>1, <2>2, CallCases DEF IInv, BaseFirst, NextStep, At, Idle
  <2>6. call'.at = "start"
    BY <1>1 DEF Idle
  <2>7. QED
    BY <1>1, <2>2, <2>3, <2>4, <2>5, <2>6 DEF BaseFirst, At
<1>8. NewIsEmpty'
  BY <1>1, CallCases DEF IInv, NewIsEmpty, NextStep, Idle
<1>9. InputsKnown'
  BY <1>1, CallCases DEF IInv, InputsKnown, NewIsEmpty, CallShape, NextStep, At, Idle, Named, NoRun
<1>10. AckedKnown'
  BY <1>1, CallCases DEF IInv, AckedKnown, AckedInputsDurable, NewIsEmpty, Named, Idle, Writes
<1>11. StrayKnown' /\ PendingGone'
  BY <1>1, CallCases DEF IInv, StrayKnown, PendingGone, NewIsEmpty, NextStep, Idle, Writes, InputWrites
<1>12. TrustedInputs'
  BY <1>1, CallCases DEF IInv, TrustedInputs, InputsKnown, NextStep, Idle, Quiet, Named
<1>13. QED
  BY <1>2, <1>3, <1>4, <1>5, <1>6, <1>7, <1>8, <1>9, <1>10, <1>11, <1>12 DEF IInv

(* A write that fails returns, its temporary gone. *)
FailedFields ==
  /\ UNCHANGED <<safe, canceled, acked, cautious>>
  /\ call.step \in Writes /\ call' = Idle
  /\ \/ result' = "ctx" /\ canceled /\ call.at \in {"start", "temp"}
     \/ result' = "error" /\ ~ Quiet'
  /\ disk' \in Image
  /\ disk'.base = disk.base /\ disk'.status = disk.status /\ disk'.summary = disk.summary
  /\ disk'.inputs = disk.inputs /\ disk'.slot = disk.slot
  /\ disk'.stray = (disk.stray /\ ~ (call.at = "temp" /\ call.step \in InputWrites))
  /\ run' \in RunType
  /\ \/ call.op = "create" /\ run' = NoRun
     \/ call.op # "create" /\ At("status") /\ run' = [run EXCEPT !.terminal = TRUE]
     \/ call.op # "create" /\ ~ At("status") /\ run' = run
  /\ budget' \in BudgetType /\ budget'.losses = budget.losses /\ (Quiet' => Quiet)

(* That is what FailWrite does. *)
LEMMA FailedWrite ==
  ASSUME IInv, FailWrite
  PROVE  FailedFields
<1>1. /\ UNCHANGED <<safe, canceled, acked, cautious>>
      /\ call.step \in Writes /\ call' = Idle
      /\ budget' \in BudgetType /\ budget'.losses = budget.losses /\ (Quiet' => Quiet)
      /\ \/ result' = "ctx" /\ canceled /\ call.at \in {"start", "temp"}
         \/ result' = "error" /\ ~ Quiet'
  BY FaultCounted DEF FailWrite, Return, CtxDone, Quiet, IInv, TypeOK, BudgetType
<1>2. /\ disk' \in Image
      /\ disk'.base = disk.base /\ disk'.status = disk.status /\ disk'.summary = disk.summary
      /\ disk'.inputs = disk.inputs /\ disk'.slot = disk.slot
      /\ disk'.stray = (disk.stray /\ ~ (call.at = "temp" /\ call.step \in InputWrites))
  BY DEF FailWrite, IInv, TypeOK, Image
<1>3. /\ run' \in RunType
      /\ \/ call.op = "create" /\ run' = NoRun
         \/ call.op # "create" /\ At("status") /\ run' = [run EXCEPT !.terminal = TRUE]
         \/ call.op # "create" /\ ~ At("status") /\ run' = run
  BY DEF FailWrite, RunAfterFailedWrite, At, IInv, TypeOK, RunType, NoRun, States
<1>4. QED
  BY <1>1, <1>2, <1>3 DEF FailedFields

(* A write that fails keeps the invariant. *)
LEMMA FailWriteKeepsIInv ==
  ASSUME IInv, FailWrite
  PROVE  IInv'
<1>1. FailedFields
  BY FailedWrite DEF IInv
<1> USE DEF FailedFields
<1>2. TypeOK'
  BY <1>1 DEF IInv, TypeOK, RunType, BudgetType, Idle, Call
<1>3. CallShape' /\ ResultTold'
  <2>1. ~ run'.open => run' = NoRun
    BY <1>1, CallCases DEF IInv, TypeOK, RunType, CallShape, At
  <2>2. QED
    BY <1>1, <2>1 DEF IInv, CallShape, ResultTold, Idle
<1>4. StatusKnown'
  BY <1>1, CallCases
  DEF IInv, TypeOK, RunType, CallShape, StatusKnown, At, Idle, Terminal, NoRun
<1>5. SummaryFirst'
  BY <1>1, CallCases
  DEF IInv, TypeOK, RunType, SummaryFirst, At, Idle, NoRun
<1>6. BaseFirst' /\ NewIsEmpty'
  BY <1>1 DEF IInv, BaseFirst, NewIsEmpty, At, Idle
<1>7. InputsKnown'
  BY <1>1 DEF IInv, InputsKnown, At, Idle
<1>8. AckedKnown'
  BY <1>1 DEF IInv, TypeOK, RunType, AckedKnown, AckedInputsDurable, Named, Idle, NoRun
<1>9. StrayKnown'
  <2>1. run'.open => run.open
    BY <1>1 DEF IInv, TypeOK, RunType, NoRun
  <2>2. ~ (run'.open /\ disk'.stray)
    BY <1>1, <2>1 DEF IInv, StrayKnown
  <2>3. QED
    BY <2>2 DEF StrayKnown
<1>10. PendingGone' /\ TrustedInputs'
  BY <1>1 DEF PendingGone, TrustedInputs, Idle
<1>11. QED
  BY <1>2, <1>3, <1>4, <1>5, <1>6, <1>7, <1>8, <1>9, <1>10 DEF IInv

-----------------------------------------------------------------------------
(* CopyInput after its writes *)

(* The pending bytes of an input get their final name. *)
PublishedFields ==
  /\ UNCHANGED <<safe, run, canceled, result, acked, budget, cautious>>
  /\ call.step = "publish" /\ call.role \in Roles /\ call.op = "copy"
  /\ run.open /\ ~ run.terminal
  /\ call' \in Call /\ call'.op = "copy" /\ call'.step = "dirsync"
  /\ call'.at = "start" /\ call'.role = call.role
  /\ disk' \in Image
  /\ disk'.base = disk.base /\ disk'.status = disk.status /\ disk'.summary = disk.summary
  /\ disk'.inputs = disk.inputs /\ disk'.stray = disk.stray
  /\ \A r \in Roles : disk'.slot[r] = IF r = call.role THEN {"final"} ELSE disk.slot[r]

(* That is what PublishInput does. *)
LEMMA InputPublished ==
  ASSUME IInv, PublishInput
  PROVE  PublishedFields
<1>1. /\ UNCHANGED <<safe, run, canceled, result, acked, budget, cautious>>
      /\ call.step = "publish" /\ call.role \in Roles /\ call.op = "copy"
      /\ run.open /\ ~ run.terminal
      /\ call' \in Call /\ call'.op = "copy" /\ call'.step = "dirsync"
      /\ call'.at = "start" /\ call'.role = call.role
  BY CallCases DEF PublishInput, Goto, IInv, TypeOK, Call
<1>2. /\ disk' \in Image
      /\ disk'.base = disk.base /\ disk'.status = disk.status /\ disk'.summary = disk.summary
      /\ disk'.inputs = disk.inputs /\ disk'.stray = disk.stray
      /\ \A r \in Roles : disk'.slot[r] = IF r = call.role THEN {"final"} ELSE disk.slot[r]
  BY <1>1 DEF PublishInput, IInv, TypeOK, Image
<1>3. QED
  BY <1>1, <1>2 DEF PublishedFields

(* The final name of an input keeps the invariant. *)
LEMMA PublishInputKeepsIInv ==
  ASSUME IInv, PublishInput
  PROVE  IInv'
<1>1. PublishedFields
  BY InputPublished DEF IInv
<1> USE DEF PublishedFields
<1>2. TypeOK'
  BY <1>1 DEF IInv, TypeOK
<1>3. CallShape' /\ ResultTold'
  BY <1>1 DEF IInv, CallShape, ResultTold, Idle
<1>4. StatusKnown' /\ SummaryFirst'
  BY <1>1 DEF IInv, StatusKnown, SummaryFirst, At
<1>5. BaseFirst' /\ NewIsEmpty'
  BY <1>1 DEF IInv, BaseFirst, NewIsEmpty, At
<1>6. InputsKnown'
  BY <1>1 DEF IInv, InputsKnown, At, Idle
<1>7. AckedKnown'
  BY <1>1 DEF IInv, TypeOK, AckedKnown, AckedInputsDurable, Named
<1>8. StrayKnown' /\ PendingGone' /\ TrustedInputs'
  BY <1>1 DEF IInv, StrayKnown, PendingGone, TrustedInputs, InputWrites
<1>9. QED
  BY <1>2, <1>3, <1>4, <1>5, <1>6, <1>7, <1>8 DEF IInv

(* The input under way is taken off the Run. *)
WithdrawnFields ==
  /\ UNCHANGED <<disk, safe, canceled, result, acked, cautious>>
  /\ call.step = "publish" /\ call.role \in Roles /\ call.op = "copy"
  /\ run.open /\ ~ run.terminal
  /\ call' \in Call /\ call'.op = "copy" /\ call'.step = "rollback"
  /\ call'.at = "start" /\ call'.role = call.role
  /\ run' \in RunType
  /\ run'.open = run.open /\ run'.status = run.status /\ run'.terminal = run.terminal
  /\ run'.inputs = run.inputs \ {call.role}
  /\ budget' \in BudgetType /\ budget'.losses = budget.losses /\ ~ Quiet'

(* That is what FailPublish does. *)
LEMMA InputWithdrawn ==
  ASSUME IInv, FailPublish
  PROVE  WithdrawnFields
<1>1. /\ UNCHANGED <<disk, safe, canceled, result, acked, cautious>>
      /\ call.step = "publish" /\ call.role \in Roles /\ call.op = "copy"
      /\ run.open /\ ~ run.terminal
      /\ call' \in Call /\ call'.op = "copy" /\ call'.step = "rollback"
      /\ call'.at = "start" /\ call'.role = call.role
  BY CallCases DEF FailPublish, Goto, IInv, TypeOK, Call, Writes
<1>2. /\ run' \in RunType
      /\ run'.open = run.open /\ run'.status = run.status /\ run'.terminal = run.terminal
      /\ run'.inputs = run.inputs \ {call.role}
  BY <1>1 DEF FailPublish, IInv, TypeOK, RunType
<1>3. budget' \in BudgetType /\ budget'.losses = budget.losses /\ ~ Quiet'
  BY FaultCounted DEF FailPublish, IInv
<1>4. QED
  BY <1>1, <1>2, <1>3 DEF WithdrawnFields

(* An input taken back keeps the invariant. *)
LEMMA FailPublishKeepsIInv ==
  ASSUME IInv, FailPublish
  PROVE  IInv'
<1>1. WithdrawnFields
  BY InputWithdrawn DEF IInv
<1> USE DEF WithdrawnFields
<1>2. TypeOK'
  BY <1>1 DEF IInv, TypeOK, RunType, BudgetType
<1>3. CallShape' /\ ResultTold'
  BY <1>1 DEF IInv, CallShape, ResultTold, InputWrites, Idle
<1>4. StatusKnown' /\ SummaryFirst'
  BY <1>1 DEF IInv, StatusKnown, SummaryFirst, At
<1>5. BaseFirst' /\ NewIsEmpty'
  BY <1>1 DEF IInv, BaseFirst, NewIsEmpty, At
<1>6. InputsKnown'
  BY <1>1 DEF IInv, InputsKnown, At, Idle
<1>7. AckedKnown'
  BY <1>1 DEF IInv, AckedKnown, AckedInputsDurable, Named
<1>8. StrayKnown' /\ PendingGone'
  BY <1>1 DEF IInv, StrayKnown, PendingGone, InputWrites
<1>9. TrustedInputs'
  BY <1>1, RunStoreAssumption DEF IInv, TypeOK, InputsKnown, TrustedInputs, Named
<1>10. QED
  BY <1>2, <1>3, <1>4, <1>5, <1>6, <1>7, <1>8, <1>9 DEF IInv

(* What a synced inputs/ makes of storage. *)
LEMMA InputsSyncedFields ==
  ASSUME TypeOK, safe' = Synced("inputs")
  PROVE  /\ safe' \in Image
         /\ safe'.base = safe.base /\ safe'.status = safe.status /\ safe'.summary = safe.summary
         /\ safe'.inputs = disk.inputs /\ safe'.slot = disk.slot /\ safe'.stray = disk.stray
BY DEF TypeOK, Synced, Image

(* inputs/ is on storage and CopyInput returns success. *)
KeptFields ==
  /\ UNCHANGED <<disk, run, canceled, budget, cautious>>
  /\ call.step = "dirsync" /\ call.role \in Roles /\ call.op = "copy"
  /\ run.open /\ ~ run.terminal
  /\ call' = Idle /\ result' = "ok" /\ acked' = acked \cup {call.role}
  /\ safe' \in Image
  /\ safe'.base = safe.base /\ safe'.status = safe.status /\ safe'.summary = safe.summary
  /\ safe'.inputs = disk.inputs /\ safe'.slot = disk.slot /\ safe'.stray = disk.stray

(* That is what SyncInput does. *)
LEMMA InputKept ==
  ASSUME IInv, SyncInput
  PROVE  KeptFields
<1>1. /\ UNCHANGED <<disk, run, canceled, budget, cautious>>
      /\ call.step = "dirsync" /\ call.role \in Roles /\ call.op = "copy"
      /\ run.open /\ ~ run.terminal
      /\ call' = Idle /\ result' = "ok" /\ acked' = acked \cup {call.role}
  BY CallCases DEF SyncInput, Return, IInv
<1>2. /\ safe' \in Image
      /\ safe'.base = safe.base /\ safe'.status = safe.status /\ safe'.summary = safe.summary
      /\ safe'.inputs = disk.inputs /\ safe'.slot = disk.slot /\ safe'.stray = disk.stray
  BY InputsSyncedFields DEF SyncInput, IInv
<1>3. QED
  BY <1>1, <1>2 DEF KeptFields

(* A CopyInput that returns success keeps the invariant. *)
LEMMA SyncInputKeepsIInv ==
  ASSUME IInv, SyncInput
  PROVE  IInv'
<1>1. KeptFields
  BY InputKept DEF IInv
<1> USE DEF KeptFields
<1>2. TypeOK'
  BY <1>1 DEF IInv, TypeOK, Idle, Call
<1>3. CallShape' /\ ResultTold'
  BY <1>1 DEF IInv, CallShape, ResultTold, Idle
<1>4. StatusKnown' /\ SummaryFirst'
  BY <1>1 DEF IInv, StatusKnown, SummaryFirst, At, Idle
<1>5. BaseFirst' /\ NewIsEmpty'
  BY <1>1 DEF IInv, BaseFirst, NewIsEmpty, At, Idle
<1>6. disk.inputs = run.inputs /\ call.role \in run.inputs /\ Named(disk) = run.inputs
  BY <1>1, RunStoreAssumption DEF IInv, TypeOK, InputsKnown, Named
<1>7. InputsKnown'
  BY <1>1, <1>6 DEF InputsKnown, At, Idle, Named
<1>8. AckedKnown'
  <2>1. Named(safe)' = Named(disk)' /\ Named(disk)' = run.inputs
    BY <1>1, <1>6 DEF Named
  <2>2. \A r \in acked' : r \in run.inputs /\ "final" \in disk.slot[r]
    BY <1>1, <1>6 DEF IInv, AckedKnown, AckedInputsDurable, InputsKnown
  <2>3. QED
    BY <1>1, <2>1, <2>2 DEF AckedKnown, AckedInputsDurable, Idle
<1>9. StrayKnown' /\ PendingGone' /\ TrustedInputs'
  BY <1>1 DEF IInv, StrayKnown, PendingGone, TrustedInputs, Idle, InputWrites
<1>10. QED
  BY <1>2, <1>3, <1>4, <1>5, <1>7, <1>8, <1>9 DEF IInv

(* A CopyInput or a recovery that returns a failure and changes no file. *)
(* A call returns a failure and changes no file. *)
AbandonedFields ==
  /\ UNCHANGED <<disk, safe, run, canceled, acked, cautious>>
  /\ call.step \in {"publish", "dirsync", "recover", "recoversync"} /\ call' = Idle
  /\ budget' \in BudgetType /\ budget'.losses = budget.losses /\ (Quiet' => Quiet)
  /\ \/ result' = "ctx" /\ canceled /\ call.step = "publish"
     \/ result' = "error" /\ ~ Quiet'

(* A canceled CopyInput, a sync or a recovery that fails do that. *)
LEMMA CallAbandoned ==
  ASSUME TypeOK, CancelPublish \/ FailSyncInput \/ FailRecovery
  PROVE  AbandonedFields
<1>1. CASE CancelPublish
  BY <1>1 DEF CancelPublish, Return, Quiet, TypeOK, BudgetType, AbandonedFields
<1>2. CASE FailSyncInput
  BY <1>2, FaultCounted DEF FailSyncInput, Return, AbandonedFields
<1>3. CASE FailRecovery
  BY <1>3, FaultCounted DEF FailRecovery, Return, AbandonedFields
<1>4. QED
  BY <1>1, <1>2, <1>3

(* A call that fails between its writes keeps the invariant. *)
LEMMA FailedReturnKeepsIInv ==
  ASSUME IInv, CancelPublish \/ FailSyncInput \/ FailRecovery
  PROVE  IInv'
<1>1. AbandonedFields
  BY CallAbandoned DEF IInv
<1> USE DEF AbandonedFields
<1>2. TypeOK'
  BY <1>1 DEF IInv, TypeOK, BudgetType, Idle, Call
<1>3. CallShape' /\ ResultTold' /\ StatusKnown' /\ SummaryFirst'
  BY <1>1 DEF IInv, CallShape, ResultTold, StatusKnown, SummaryFirst, At, Idle
<1>4. BaseFirst' /\ NewIsEmpty' /\ InputsKnown'
  BY <1>1 DEF IInv, BaseFirst, NewIsEmpty, InputsKnown, At, Idle
<1>5. AckedKnown' /\ StrayKnown' /\ PendingGone' /\ TrustedInputs'
  BY <1>1 DEF IInv, AckedKnown, AckedInputsDurable, StrayKnown, PendingGone, TrustedInputs, InputWrites, Idle
<1>6. QED
  BY <1>2, <1>3, <1>4, <1>5 DEF IInv

-----------------------------------------------------------------------------
(* Resume *)

(* One pending input is published or discarded. *)
RecoveredFields(r) ==
  /\ UNCHANGED <<safe, run, canceled, result, acked, budget, cautious>>
  /\ call.step = "recover" /\ call.op = "resume" /\ ~ run.open /\ r \in Pending
  /\ call' \in Call /\ call'.op = "resume" /\ call'.at = "start"
  /\ call'.step = IF Pending = {r} THEN "recoversync" ELSE "recover"
  /\ disk' \in Image
  /\ disk'.base = disk.base /\ disk'.status = disk.status /\ disk'.summary = disk.summary
  /\ disk'.inputs = disk.inputs /\ disk'.stray = disk.stray
  /\ \A s \in Roles : disk'.slot[s] = IF s = r THEN Recovered(r) ELSE disk.slot[s]

(* That is what RecoverInput does. *)
LEMMA InputRecovered ==
  ASSUME IInv, NEW r \in Roles, RecoverInput(r)
  PROVE  RecoveredFields(r)
<1>1. /\ UNCHANGED <<safe, run, canceled, result, acked, budget, cautious>>
      /\ call.step = "recover" /\ call.op = "resume" /\ ~ run.open /\ r \in Pending
      /\ call' \in Call /\ call'.op = "resume" /\ call'.at = "start"
      /\ call'.step = IF Pending = {r} THEN "recoversync" ELSE "recover"
  BY CallCases DEF RecoverInput, Goto, IInv, TypeOK, Call
<1>2. /\ disk' \in Image
      /\ disk'.base = disk.base /\ disk'.status = disk.status /\ disk'.summary = disk.summary
      /\ disk'.inputs = disk.inputs /\ disk'.stray = disk.stray
      /\ \A s \in Roles : disk'.slot[s] = IF s = r THEN Recovered(r) ELSE disk.slot[s]
  BY DEF RecoverInput, Recovered, IInv, TypeOK, Image
<1>3. QED
  BY <1>1, <1>2 DEF RecoveredFields

(* The recovery of one input keeps the invariant. *)
LEMMA RecoverInputKeepsIInv ==
  ASSUME IInv, NEW r \in Roles, RecoverInput(r)
  PROVE  IInv'
<1>1. RecoveredFields(r)
  BY InputRecovered DEF IInv
<1> USE DEF RecoveredFields
<1>2. TypeOK'
  BY <1>1 DEF IInv, TypeOK
<1>3. CallShape' /\ ResultTold'
  BY <1>1 DEF IInv, CallShape, ResultTold, Idle
<1>4. StatusKnown' /\ SummaryFirst'
  BY <1>1 DEF IInv, StatusKnown, SummaryFirst, At
<1>5. BaseFirst' /\ NewIsEmpty'
  BY <1>1 DEF IInv, BaseFirst, NewIsEmpty, At
<1>6. InputsKnown'
  BY <1>1 DEF IInv, InputsKnown, At, Idle
<1>7. AckedKnown'
  <2>1. ASSUME NEW s \in acked
        PROVE  s \in Named(disk)' /\ "final" \in disk'.slot[s]
    BY <1>1 DEF IInv, TypeOK, AckedKnown, AckedInputsDurable, Named, Recovered
  <2>2. QED
    BY <1>1, <2>1 DEF IInv, AckedKnown, AckedInputsDurable, Named
<1>8. PendingGone'
  <2>1. "pending" \notin Recovered(r)
    BY DEF Recovered
  <2>2. Pending = {r} => Pending' = {}
    BY <1>1, <2>1 DEF Pending
  <2>3. QED
    BY <1>1, <2>2 DEF PendingGone
<1>9. StrayKnown' /\ TrustedInputs'
  BY <1>1 DEF IInv, StrayKnown, TrustedInputs, InputWrites
<1>10. QED
  BY <1>2, <1>3, <1>4, <1>5, <1>6, <1>7, <1>8, <1>9 DEF IInv

(* inputs/ is on storage, and Open follows. *)
RecoverySyncedFields ==
  /\ UNCHANGED <<disk, run, canceled, result, acked, budget, cautious>>
  /\ call.step = "recoversync" /\ call.op = "resume" /\ ~ run.open
  /\ call' \in Call /\ call'.op = "resume" /\ call'.step = "open" /\ call'.at = "start"
  /\ safe' \in Image
  /\ safe'.base = safe.base /\ safe'.status = safe.status /\ safe'.summary = safe.summary
  /\ safe'.inputs = disk.inputs /\ safe'.slot = disk.slot /\ safe'.stray = disk.stray

(* That is what SyncRecovery does. *)
LEMMA RecoverySynced ==
  ASSUME IInv, SyncRecovery
  PROVE  RecoverySyncedFields
<1>1. /\ UNCHANGED <<disk, run, canceled, result, acked, budget, cautious>>
      /\ call.step = "recoversync" /\ call.op = "resume" /\ ~ run.open
      /\ call' \in Call /\ call'.op = "resume" /\ call'.step = "open" /\ call'.at = "start"
  BY CallCases DEF SyncRecovery, Goto, IInv, TypeOK, Call
<1>2. /\ safe' \in Image
      /\ safe'.base = safe.base /\ safe'.status = safe.status /\ safe'.summary = safe.summary
      /\ safe'.inputs = disk.inputs /\ safe'.slot = disk.slot /\ safe'.stray = disk.stray
  BY InputsSyncedFields DEF SyncRecovery, IInv
<1>3. QED
  BY <1>1, <1>2 DEF RecoverySyncedFields

(* The sync after recovery keeps the invariant. *)
LEMMA SyncRecoveryKeepsIInv ==
  ASSUME IInv, SyncRecovery
  PROVE  IInv'
<1>1. RecoverySyncedFields
  BY RecoverySynced DEF IInv
<1> USE DEF RecoverySyncedFields
<1>2. TypeOK'
  BY <1>1 DEF IInv, TypeOK
<1>3. CallShape' /\ ResultTold' /\ StatusKnown' /\ SummaryFirst'
  BY <1>1 DEF IInv, CallShape, ResultTold, StatusKnown, SummaryFirst, At, Idle
<1>4. BaseFirst' /\ NewIsEmpty' /\ InputsKnown'
  BY <1>1 DEF IInv, BaseFirst, NewIsEmpty, InputsKnown, At, Idle
<1>5. AckedKnown'
  BY <1>1 DEF IInv, AckedKnown, AckedInputsDurable, Named
<1>6. StrayKnown' /\ PendingGone' /\ TrustedInputs'
  BY <1>1 DEF IInv, StrayKnown, PendingGone, Pending, TrustedInputs
<1>7. QED
  BY <1>2, <1>3, <1>4, <1>5, <1>6 DEF IInv

(* Resume returns a Run as the directory has it, or none. *)
ResumedFields ==
  /\ UNCHANGED <<disk, safe, canceled, acked, budget, cautious>>
  /\ call.step = "open" /\ call.op = "resume" /\ ~ run.open /\ run = NoRun
  /\ call' = Idle
  /\ \/ /\ Openable(disk) /\ disk.status = "active" /\ result' = "ok"
        /\ run' = [NoRun EXCEPT !.open = TRUE, !.inputs = Named(disk)]
     \/ run' = NoRun /\ result' = "error"
  /\ run' \in RunType /\ run'.status = "active" /\ ~ run'.terminal
  /\ run'.open => /\ result' = "ok" /\ disk.status = "active" /\ ~ disk.stray
                  /\ run'.inputs = Named(disk)
  /\ ~ run'.open => run' = NoRun

(* That is what FinishResume does. *)
LEMMA RunResumed ==
  ASSUME IInv, NEW sameConfig \in BOOLEAN, FinishResume(sameConfig)
  PROVE  ResumedFields
<1>1. /\ UNCHANGED <<disk, safe, canceled, acked, budget, cautious>>
      /\ call.step = "open" /\ call.op = "resume" /\ ~ run.open /\ run = NoRun
      /\ call' = Idle
      /\ \/ /\ Openable(disk) /\ disk.status = "active" /\ result' = "ok"
            /\ run' = [NoRun EXCEPT !.open = TRUE, !.inputs = Named(disk)]
         \/ run' = NoRun /\ result' = "error"
  BY CallCases DEF FinishResume, Return, IInv, CallShape
<1>2. /\ run' \in RunType /\ run'.status = "active" /\ ~ run'.terminal
      /\ run'.open => /\ result' = "ok" /\ disk.status = "active" /\ ~ disk.stray
                      /\ run'.inputs = Named(disk)
      /\ ~ run'.open => run' = NoRun
  <2>1. Named(disk) \in SUBSET Roles
    BY DEF IInv, TypeOK, Image, Named
  <2>2. CASE run' = NoRun /\ result' = "error"
    BY <2>2 DEF NoRun, RunType, States
  <2>3. CASE /\ Openable(disk) /\ disk.status = "active" /\ result' = "ok"
             /\ run' = [NoRun EXCEPT !.open = TRUE, !.inputs = Named(disk)]
    <3>1. run' = [open |-> TRUE, inputs |-> Named(disk), status |-> "active", terminal |-> FALSE]
      BY <2>3 DEF NoRun
    <3>2. ~ disk.stray
      BY <2>3 DEF Openable, InputsConsistent
    <3>3. run' \in RunType
      BY <2>1, <3>1 DEF RunType, States
    <3>4. run'.open /\ run'.status = "active" /\ ~ run'.terminal /\ run'.inputs = Named(disk)
      BY <3>1
    <3>5. QED
      BY <2>3, <3>2, <3>3, <3>4
  <2>4. QED
    BY <1>1, <2>2, <2>3
<1>3. QED
  BY <1>1, <1>2 DEF ResumedFields

(* The end of Resume keeps the invariant. *)
LEMMA FinishResumeKeepsIInv ==
  ASSUME IInv, NEW sameConfig \in BOOLEAN, FinishResume(sameConfig)
  PROVE  IInv'
<1>1. ResumedFields
  BY RunResumed DEF IInv
<1> USE DEF ResumedFields
<1>2. TypeOK'
  BY <1>1 DEF IInv, TypeOK, RunType, Idle, Call
<1>3. CallShape' /\ ResultTold' /\ StatusKnown' /\ SummaryFirst'
  BY <1>1 DEF IInv, CallShape, ResultTold, StatusKnown, SummaryFirst, At, Idle
<1>4. BaseFirst' /\ NewIsEmpty' /\ InputsKnown'
  BY <1>1 DEF IInv, BaseFirst, NewIsEmpty, InputsKnown, At, Idle, Named
<1>5. AckedKnown' /\ StrayKnown' /\ PendingGone' /\ TrustedInputs'
  BY <1>1 DEF IInv, AckedKnown, AckedInputsDurable, StrayKnown, PendingGone, TrustedInputs, Idle, Named
<1>6. QED
  BY <1>2, <1>3, <1>4, <1>5 DEF IInv

-----------------------------------------------------------------------------
(* The environment *)

(* A cancellation is only ever looked at by the next step. *)
LEMMA CancelKeepsIInv ==
  ASSUME IInv, Cancel
  PROVE  IInv'
<1>1. /\ UNCHANGED <<disk, safe, run, call, result, acked, budget, cautious>>
      /\ canceled' = TRUE
  BY DEF Cancel
<1>2. TypeOK' /\ CallShape' /\ ResultTold' /\ StatusKnown' /\ SummaryFirst'
  BY <1>1 DEF IInv, TypeOK, CallShape, ResultTold, StatusKnown, SummaryFirst, At, Quiet
<1>3. BaseFirst' /\ NewIsEmpty' /\ InputsKnown' /\ AckedKnown'
  BY <1>1 DEF IInv, BaseFirst, NewIsEmpty, InputsKnown, AckedKnown, AckedInputsDurable, At, Named
<1>4. StrayKnown' /\ PendingGone' /\ TrustedInputs'
  BY <1>1 DEF IInv, StrayKnown, PendingGone, Pending, TrustedInputs, Quiet, Named
<1>5. QED
  BY <1>2, <1>3, <1>4 DEF IInv

(* The process is gone, with its Run and its call; the directory is not. *)
ForgottenFields ==
  /\ UNCHANGED <<disk, safe, acked, cautious>>
  /\ run' = NoRun /\ call' = Idle /\ canceled' = FALSE /\ result' = "none"
  /\ budget' \in BudgetType /\ budget'.losses = budget.losses
  /\ Quiet' => Quiet /\ call = Idle

(* That is what a process that dies, or lets go of a Run, leaves. *)
LEMMA ForgetFields ==
  ASSUME TypeOK, Release \/ Crash
  PROVE  ForgottenFields
<1>1. budget \in BudgetType
  BY DEF TypeOK, BudgetType
<1>2. CASE Release
  BY <1>1, <1>2 DEF Release, Forget, ForgottenFields, Quiet
<1>3. CASE Crash
  BY <1>1, <1>3, RunStoreAssumption DEF Crash, Forget, ForgottenFields, BudgetType, Quiet
<1>4. QED
  BY <1>2, <1>3

(* A directory without its process keeps the invariant. *)
LEMMA ForgetKeepsIInv ==
  ASSUME IInv, Release \/ Crash
  PROVE  IInv'
<1>1. ForgottenFields
  BY ForgetFields DEF IInv
<1> USE DEF ForgottenFields
<1>2. TypeOK'
  BY <1>1 DEF IInv, TypeOK, BudgetType, NoRun, States, Idle, Call
<1>3. CallShape' /\ ResultTold' /\ StatusKnown' /\ SummaryFirst'
  BY <1>1 DEF IInv, CallShape, ResultTold, StatusKnown, SummaryFirst, At, Idle, NoRun
<1>4. BaseFirst' /\ NewIsEmpty' /\ InputsKnown' /\ AckedKnown'
  BY <1>1 DEF IInv, BaseFirst, NewIsEmpty, InputsKnown, AckedKnown, AckedInputsDurable, At, Idle, NoRun, Named
<1>5. StrayKnown' /\ PendingGone' /\ TrustedInputs'
  BY <1>1 DEF StrayKnown, PendingGone, TrustedInputs, Idle, NoRun
<1>6. QED
  BY <1>2, <1>3, <1>4, <1>5 DEF IInv

(* What a loss of power leaves of the directory. *)
LostFields ==
  /\ UNCHANGED <<acked, cautious>>
  /\ run' = NoRun /\ call' = Idle /\ canceled' = FALSE /\ result' = "none"
  /\ budget' \in BudgetType /\ budget'.losses > budget.losses /\ budget'.losses > 0
  /\ Quiet' => Quiet
  /\ disk' \in Image /\ safe' = disk'
  /\ disk'.base \in {safe.base, disk.base}
  /\ disk'.status \in {safe.status, disk.status}
  /\ disk'.summary \in {safe.summary, disk.summary}
  /\ disk'.inputs \in {safe.inputs, disk.inputs}
  /\ disk'.stray \in {safe.stray, disk.stray}
  /\ \A r \in Roles : disk'.slot[r] \in {safe.slot[r], disk.slot[r],
                                         safe.slot[r] \cup disk.slot[r]}

(* That is what PowerLoss does. *)
LEMMA LossFields ==
  ASSUME TypeOK, PowerLoss
  PROVE  LostFields
<1>1. PICK base \in {safe.base, disk.base}, status \in {safe.status, disk.status},
           summary \in {safe.summary, disk.summary},
           inputs \in {safe.inputs, disk.inputs}, stray \in {safe.stray, disk.stray},
           slot \in [Roles -> SUBSET {"pending", "final"}] :
        /\ \A r \in Roles : slot[r] \in {safe.slot[r], disk.slot[r],
                                         safe.slot[r] \cup disk.slot[r]}
        /\ disk' = [base |-> base, status |-> status, summary |-> summary,
                    inputs |-> inputs, slot |-> slot, stray |-> stray]
  BY DEF PowerLoss
<1>2. disk' \in Image
  BY <1>1 DEF TypeOK, Image
<1>3. budget' \in BudgetType /\ budget'.losses > budget.losses /\ budget'.losses > 0 /\ (Quiet' => Quiet)
  BY RunStoreAssumption DEF PowerLoss, TypeOK, BudgetType, Quiet
<1>4. QED
  BY <1>1, <1>2, <1>3 DEF PowerLoss, Forget, LostFields

(* What storage held is enough for a fresh process. *)
LEMMA PowerLossKeepsIInv ==
  ASSUME IInv, PowerLoss
  PROVE  IInv'
<1>1. LostFields
  BY LossFields DEF IInv
<1> USE DEF LostFields
<1>2. TypeOK'
  BY <1>1 DEF IInv, TypeOK, BudgetType, NoRun, States, Idle, Call
<1>3. CallShape' /\ ResultTold'
  BY <1>1 DEF CallShape, ResultTold, Idle, NoRun
<1>4. StatusKnown'
  BY <1>1 DEF IInv, StatusKnown, At, Idle, NoRun
<1>5. SummaryFirst'
  BY <1>1 DEF IInv, TypeOK, Image, SummaryFirst, At, Idle, NoRun
<1>6. BaseFirst'
  BY <1>1 DEF IInv, TypeOK, Image, BaseFirst, At, Idle
<1>7. NewIsEmpty' /\ InputsKnown'
  BY <1>1 DEF NewIsEmpty, InputsKnown, At, Idle, NoRun
<1>8. AckedKnown'
  BY <1>1 DEF IInv, TypeOK, AckedKnown, AckedInputsDurable, Idle, NoRun, Named
<1>9. StrayKnown' /\ PendingGone' /\ TrustedInputs'
  BY <1>1 DEF StrayKnown, PendingGone, TrustedInputs, Idle, NoRun
<1>10. QED
  BY <1>2, <1>3, <1>4, <1>5, <1>6, <1>7, <1>8, <1>9 DEF IInv

-----------------------------------------------------------------------------
(* Every step keeps the invariant, so it holds in every reachable state. *)
LEMMA StepKeepsIInv ==
  ASSUME IInv, [Next]_vars
  PROVE  IInv'
<1>1. CASE Create \/ Complete \/ Fail \/ Resume \/ \E r \in Roles : CopyInput(r)
  BY <1>1, BeginKeepsIInv
<1>2. CASE WriteTemporary \/ RenameTemporary \/ SyncParent \/ FailWrite
  BY <1>2, WriteTemporaryKeepsIInv, RenameTemporaryKeepsIInv, SyncParentKeepsIInv, FailWriteKeepsIInv
<1>3. CASE PublishInput \/ FailPublish \/ SyncInput
  BY <1>3, PublishInputKeepsIInv, FailPublishKeepsIInv, SyncInputKeepsIInv
<1>4. CASE CancelPublish \/ FailSyncInput \/ FailRecovery
  BY <1>4, FailedReturnKeepsIInv
<1>5. CASE \E r \in Roles : RecoverInput(r)
  BY <1>5, RecoverInputKeepsIInv
<1>6. CASE SyncRecovery \/ \E sameConfig \in BOOLEAN : FinishResume(sameConfig)
  BY <1>6, SyncRecoveryKeepsIInv, FinishResumeKeepsIInv
<1>7. CASE Cancel \/ Release \/ Crash \/ PowerLoss
  BY <1>7, CancelKeepsIInv, ForgetKeepsIInv, PowerLossKeepsIInv
<1>8. CASE UNCHANGED vars
  <2>1. UNCHANGED <<disk, safe, run, call, canceled, result, acked, cautious, budget>>
    BY <1>8 DEF vars
  <2>2. TypeOK' /\ CallShape' /\ ResultTold' /\ StatusKnown' /\ SummaryFirst'
    BY <2>1 DEF IInv, TypeOK, CallShape, ResultTold, StatusKnown, SummaryFirst, At, Quiet
  <2>3. BaseFirst' /\ NewIsEmpty' /\ InputsKnown' /\ AckedKnown'
    BY <2>1 DEF IInv, BaseFirst, NewIsEmpty, InputsKnown, AckedKnown, AckedInputsDurable, At, Named
  <2>4. StrayKnown' /\ PendingGone' /\ TrustedInputs'
    BY <2>1 DEF IInv, StrayKnown, PendingGone, Pending, TrustedInputs, Quiet, Named
  <2>5. QED
    BY <2>2, <2>3, <2>4 DEF IInv
<1>9. QED
  BY <1>1, <1>2, <1>3, <1>4, <1>5, <1>6, <1>7, <1>8 DEF Next, Process, Environment

(* The invariant holds in every state a run directory can reach. *)
THEOREM Invariance == Spec => []IInv
<1>1. Init => IInv
  BY InitIInv
<1>2. IInv /\ [Next]_vars => IInv'
  BY StepKeepsIInv
<1>3. QED
  BY <1>1, <1>2, PTL DEF Spec

(* The variables keep their types. *)
THEOREM TypeCorrect == Spec => []TypeOK
<1>1. IInv => TypeOK
  BY DEF IInv
<1>2. QED
  BY <1>1, Invariance, PTL

(* An input whose CopyInput (input.go) returned success stays named and in *)
(* place, as seen and as stored, through whatever follows.                 *)
THEOREM AckedInputsStay == Spec => []AckedInputsDurable
<1>1. IInv => AckedInputsDurable
  BY DEF IInv, AckedKnown
<1>2. QED
  BY <1>1, Invariance, PTL

(* Storage never says complete without a summary (finish, run.go). *)
THEOREM SummaryBeforeComplete == Spec => []DurableCompleteHasSummary
<1>1. IInv => DurableCompleteHasSummary
  BY DEF IInv, SummaryFirst, DurableCompleteHasSummary
<1>2. QED
  BY <1>1, Invariance, PTL

(* Between calls the Run in memory agrees with status.json, and after a    *)
(* call that succeeded with inputs/manifest.json.                          *)
THEOREM MemoryAgrees == Spec => []MemoryMatchesDisk
<1>1. IInv => MemoryMatchesDisk
  BY RunStoreAssumption
  DEF IInv, CallShape, StatusKnown, InputsKnown, MemoryMatchesDisk, At, Idle, Terminal
<1>2. QED
  BY <1>1, Invariance, PTL

(* One step never replaces a status that says complete or failed, unless   *)
(* the power fails before storage holds it.                                *)
LEMMA TerminalStays ==
  ASSUME IInv, IInv', [Next]_vars
  PROVE  /\ disk.status \in Terminal /\ budget'.losses = budget.losses =>
              disk'.status = disk.status
         /\ safe.status \in Terminal =>
              safe'.status = safe.status /\ disk'.status = safe.status
<1>1. CASE UNCHANGED <<disk, safe>>
  BY <1>1 DEF IInv, StatusKnown
<1>2. CASE WriteTemporary
  BY <1>2 DEF WriteTemporary, IInv, TypeOK, Image, StatusKnown
<1>3. CASE RenameTemporary
  <2>1. RenamedFields
    BY <1>3, RenameFields DEF IInv
  <2>2. call.step = "status" => disk.status \notin Terminal
    BY <2>1, CallCases, RunStoreAssumption DEF RenamedFields, IInv, StatusKnown, At, Terminal
  <2>3. QED
    BY <2>1, <2>2 DEF RenamedFields, IInv, StatusKnown
<1>4. CASE SyncParent
  BY <1>4, SyncFields DEF SyncedFields, IInv, StatusKnown
<1>5. CASE FailWrite
  BY <1>5 DEF FailWrite, IInv, TypeOK, Image, StatusKnown
<1>6. CASE PublishInput
  BY <1>6 DEF PublishInput, IInv, TypeOK, Image, StatusKnown
<1>7. CASE SyncInput \/ SyncRecovery
  BY <1>7, InputsSyncedFields DEF SyncInput, SyncRecovery, IInv, StatusKnown
<1>8. CASE \E r \in Roles : RecoverInput(r)
  BY <1>8 DEF RecoverInput, IInv, TypeOK, Image, StatusKnown
<1>9. CASE PowerLoss
  <2>1. LostFields
    BY <1>9, LossFields DEF IInv
  <2>2. budget'.losses # budget.losses
    BY <2>1 DEF LostFields, IInv, TypeOK
  <2>3. QED
    BY <2>1, <2>2 DEF LostFields, IInv, StatusKnown
<1>10. QED
  BY <1>1, <1>2, <1>3, <1>4, <1>5, <1>6, <1>7, <1>8, <1>9
  DEF Next, Process, Environment, vars, Create, Complete, Fail, Resume, CopyInput,
      CancelPublish, FailPublish, FailSyncInput, FailRecovery, FinishResume, Cancel, Release, Crash

(* A terminal status is final: no Fail after a Complete whose sync failed, *)
(* and no Resume, ever replaces it.                                        *)
THEOREM TerminalStaysFinal == Spec => TerminalIsFinal
<1>1. IInv /\ IInv' /\ [Next]_vars =>
        [/\ disk.status \in Terminal /\ budget'.losses = budget.losses =>
              disk'.status = disk.status
         /\ safe.status \in Terminal =>
              safe'.status = safe.status /\ disk'.status = safe.status]_vars
  BY TerminalStays
<1>2. QED
  BY <1>1, Invariance, PTL DEF Spec, TerminalIsFinal

-----------------------------------------------------------------------------
(* Custody *)

(* A step that shows a caller nothing new is a stutter of Custody. *)
LEMMA Unseen ==
  ASSUME disk'.status = disk.status, disk'.inputs = disk.inputs, acked' = acked
  PROVE  UNCHANGED Store!vars
BY DEF Store!vars, Named

(* For a cautious caller a rename is one of Custody's steps, or shows      *)
(* nothing.                                                                *)
LEMMA RenameIsCustody ==
  ASSUME IInv, RenameTemporary, cautious
  PROVE  Store!Next \/ UNCHANGED Store!vars
<1>1. RenamedFields
  BY RenameFields DEF IInv
<1> USE DEF RenamedFields
<1>2. disk.status \in States \cup {NoFile} /\ run.status \in States /\ NoFile \notin States
  BY RunStoreAssumption DEF IInv, TypeOK, Image, States, Terminal
<1>3. CASE call.step \in {"config", "manifest", "summary", "pending"}
  BY <1>1, <1>3, Unseen
<1>4. CASE call.step = "status"
  <2>1. disk'.status = run.status /\ disk'.inputs = disk.inputs /\ Named(disk)' = Named(disk)
    BY <1>1, <1>4 DEF Named
  <2>2. CASE call.op = "create"
    <3>1. disk.status = NoFile /\ run.status = "active"
      BY <1>1, <2>2, CallCases DEF IInv, CallShape, StatusKnown, At, NoRun
    <3>2. Store!Create
      BY <1>1, <1>2, <2>1, <3>1 DEF Store!Create, States, Terminal
    <3>3. QED
      BY <3>2 DEF Store!Next
  <2>3. CASE call.op # "create"
    <3>1. disk.status = "active" /\ run.status \in {"complete", "failed"}
      BY <1>1, <1>4, <2>3, CallCases DEF IInv, CallShape, StatusKnown, At
    <3>2. Store!Finish(run.status)
      BY <1>1, <1>2, <2>1, <3>1 DEF Store!Finish, States
    <3>3. QED
      BY <3>1, <3>2 DEF Store!Next
  <2>4. QED
    BY <2>2, <2>3
<1>5. CASE call.step \in {"inputs", "rollback"}
  <2>1. /\ call.op = "copy" /\ call.role \in Roles /\ disk.status = "active"
        /\ run.inputs \in SUBSET Roles /\ run.inputs # NoFile
    BY <1>5, CallCases, RunStoreAssumption DEF IInv, TypeOK, StatusKnown, At
  <2>2. disk'.status = disk.status /\ Named(disk)' = run.inputs
    BY <1>1, <1>5, <2>1 DEF Named
  <2>3. CASE call.step = "inputs"
    <3>1. run.inputs = Named(disk) \cup {call.role} /\ call.role \notin Named(disk)
      BY <1>1, <2>3 DEF IInv, TrustedInputs
    <3>2. Store!Enter(call.role)
      BY <1>1, <1>2, <2>1, <2>2, <3>1 DEF Store!Enter, States
    <3>3. QED
      BY <2>1, <3>2 DEF Store!Next
  <2>4. CASE call.step = "rollback"
    <3>1. run.inputs = Named(disk) \ {call.role} /\ call.role \in Named(disk) \ acked
      BY <1>1, <2>1, <2>4 DEF IInv, TrustedInputs, AckedKnown
    <3>2. Store!Withdraw(call.role)
      BY <1>1, <1>2, <2>1, <2>2, <3>1 DEF Store!Withdraw, States
    <3>3. QED
      BY <2>1, <3>2 DEF Store!Next
  <2>5. QED
    BY <1>5, <2>3, <2>4
<1>6. QED
  BY <1>1, <1>3, <1>4, <1>5 DEF Writes

(* The return of a CopyInput is the moment its input is kept. *)
LEMMA SyncInputIsCustody ==
  ASSUME IInv, SyncInput
  PROVE  Store!Next
<1>1. /\ call.op = "copy" /\ call.role \in Roles /\ disk' = disk
      /\ acked' = acked \cup {call.role}
  BY CallCases DEF SyncInput, IInv
<1>2. disk.status = "active"
  BY <1>1, CallCases DEF SyncInput, IInv, StatusKnown, At
<1>3. call.role \in Named(disk)
  BY RunStoreAssumption DEF SyncInput, IInv, TypeOK, InputsKnown, Named
<1>4. Store!Keep(call.role)
  BY <1>1, <1>2, <1>3, RunStoreAssumption DEF Store!Keep, Named
<1>5. QED
  BY <1>1, <1>4 DEF Store!Next

(* Every other step shows a caller nothing. *)
LEMMA StepIsCustody ==
  ASSUME IInv, [Next]_vars, cautious
  PROVE  Store!Next \/ UNCHANGED Store!vars \/ budget'.losses > budget.losses
<1>1. CASE UNCHANGED <<disk, acked>>
  BY <1>1, Unseen
<1>2. CASE WriteTemporary \/ FailWrite \/ PublishInput \/ \E r \in Roles : RecoverInput(r)
  <2>1. disk'.status = disk.status /\ disk'.inputs = disk.inputs /\ acked' = acked
    BY <1>2 DEF WriteTemporary, FailWrite, PublishInput, RecoverInput, IInv, TypeOK, Image
  <2>2. QED
    BY <2>1, Unseen
<1>3. CASE RenameTemporary
  BY <1>3, RenameIsCustody
<1>4. CASE SyncInput
  BY <1>4, SyncInputIsCustody
<1>5. CASE PowerLoss
  BY <1>5, RunStoreAssumption DEF PowerLoss, IInv, TypeOK
<1>6. QED
  BY <1>1, <1>2, <1>3, <1>4, <1>5
  DEF Next, Process, Environment, vars, Create, Complete, Fail, Resume, CopyInput, SyncParent,
      SyncRecovery, CancelPublish, FailPublish, FailSyncInput, FailRecovery, FinishResume,
      Cancel, Release, Crash

(* The store implements Custody: what a cautious caller sees changes only  *)
(* by Custody's atomic steps, or by a loss of power.                       *)
THEOREM StoreRefinesCustody == Spec => RefinesCustody
<1>1. Init => Store!Init
  BY RunStoreAssumption DEF Init, EmptyDirectory, Store!Init, Named
<1>2. IInv /\ [Next]_vars =>
        [cautious => Store!Next \/ budget'.losses > budget.losses]_(Store!vars)
  BY StepIsCustody
<1>3. QED
  BY <1>1, <1>2, Invariance, PTL DEF Spec, RefinesCustody

-----------------------------------------------------------------------------
(***************************************************************************)
(* What recovery can rely on: the inputs of a run directory through        *)
(* failures, deaths and losses of power.  Four more parts join IInv, each  *)
(* under the interruptions it survives; together they are inductive.       *)
(***************************************************************************)

(* Without a loss of power, or without anything else, named inputs have    *)
(* their bytes. *)
BytesKept ==
  budget.losses = 0 \/ Quiet =>
    /\ \A r \in Named(disk) : disk.slot[r] # {}
    /\ run.open => \A r \in run.inputs : disk.slot[r] # {}

(* Without a loss of power only named inputs have their final name. *)
FinalIsNamed ==
  budget.losses = 0 =>
    /\ \A r \in Roles : "final" \in disk.slot[r] =>
         r \in Named(disk) /\ (run.open => r \in run.inputs)
    /\ call.op = "copy" /\ call.step # "dirsync" => "final" \notin disk.slot[call.role]

(* Without failures storage is behind by the step under way only. *)
QuietStorage ==
  Quiet =>
    /\ \/ safe.inputs = disk.inputs
       \/ At("inputs") /\ safe.slot = disk.slot
    /\ \/ safe.slot = disk.slot \/ At("pending")
       \/ call.step \in {"dirsync", "recover", "recoversync"}
    /\ safe.stray => disk.stray
    /\ run.open => ~ safe.stray
    /\ \A r \in Named(disk) : safe.slot[r] # {}
    /\ \A r \in Named(safe) : disk.slot[r] # {}

(* The caller stops at the first failure and no power was lost, or nothing *)
(* failed at all.                                                          *)
Careful == (cautious /\ budget.losses = 0) \/ Quiet

(* Every input but one is named if and only if it has its final name. *)
ConsistentBut(image, role) ==
  \A r \in Roles \ {role} : "final" \in image.slot[r] <=> r \in Named(image)

(* A Run that takes a Complete holds consistent inputs.                    *)
ReadyToComplete == call = Idle /\ MayCall("complete") => InputsConsistent(disk)

(* A CopyInput works on its own input only.                                *)
CopiesOne ==
  call.op = "copy" /\ call.step # "rollback" =>
    /\ ConsistentBut(disk, call.role)
    /\ call.step # "dirsync" => "final" \notin disk.slot[call.role]

ConsistentOnceComplete ==
  /\ call.op = "complete" \/ disk.status = "complete" => InputsConsistent(disk)
  /\ Quiet /\ disk.status = "complete" => InputsConsistent(safe)

InputsSettled == Careful => ReadyToComplete /\ CopiesOne /\ ConsistentOnceComplete

RInv == IInv /\ BytesKept /\ FinalIsNamed /\ QuietStorage /\ InputsSettled

-----------------------------------------------------------------------------
(* A new directory has no inputs to lose. *)
LEMMA InitRInv == Init => RInv
<1> SUFFICES ASSUME Init PROVE RInv
  OBVIOUS
<1>1. IInv
  BY InitIInv
<1>2. BytesKept /\ FinalIsNamed
  BY DEF Init, EmptyDirectory, NoRun, Idle, Named, BytesKept, FinalIsNamed
<1>3. QuietStorage
  BY DEF Init, EmptyDirectory, NoRun, Idle, Named, QuietStorage
<1>4. InputsSettled
  BY RunStoreAssumption DEF Init, EmptyDirectory, NoRun, Idle, InputsSettled, MayCall, ReadyToComplete, CopiesOne, ConsistentOnceComplete
<1>5. QED
  BY <1>1, <1>2, <1>3, <1>4 DEF RInv

-----------------------------------------------------------------------------
(* The bytes and the names of the inputs *)

CanceledFields ==
  /\ UNCHANGED <<disk, safe, run, call, result, acked, budget, cautious>>
  /\ canceled' \in {canceled, TRUE}

(* A step, by what it changes. *)
StepFields ==
  \/ BegunFields \/ TemporaryFields \/ RenamedFields
  \/ SyncedFields /\ ReturnedFields
  \/ FailedFields \/ PublishedFields \/ WithdrawnFields \/ KeptFields \/ AbandonedFields
  \/ \E r \in Roles : RecoveredFields(r)
  \/ RecoverySyncedFields \/ ResumedFields
  \/ CanceledFields \/ ForgottenFields \/ LostFields

(* Every step is one of those. *)
LEMMA StepCases ==
  ASSUME IInv, [Next]_vars
  PROVE  StepFields
<1> TypeOK /\ CallShape
  BY DEF IInv
<1>1. CASE Create \/ Complete \/ Fail \/ Resume \/ \E r \in Roles : CopyInput(r)
  BY <1>1, BeginFields DEF StepFields
<1>2. CASE WriteTemporary \/ RenameTemporary \/ SyncParent \/ FailWrite
  BY <1>2, TemporaryWritten, RenameFields, SyncFields, FailedWrite DEF StepFields
<1>3. CASE PublishInput \/ FailPublish \/ SyncInput
  BY <1>3, InputPublished, InputWithdrawn, InputKept DEF StepFields
<1>4. CASE CancelPublish \/ FailSyncInput \/ FailRecovery
  BY <1>4, CallAbandoned DEF StepFields
<1>5. CASE \E r \in Roles : RecoverInput(r)
  BY <1>5, InputRecovered DEF StepFields
<1>6. CASE SyncRecovery \/ \E sameConfig \in BOOLEAN : FinishResume(sameConfig)
  BY <1>6, RecoverySynced, RunResumed DEF StepFields
<1>7. CASE Cancel \/ UNCHANGED vars
  BY <1>7 DEF Cancel, vars, StepFields, CanceledFields
<1>8. CASE Release \/ Crash \/ PowerLoss
  BY <1>8, ForgetFields, LossFields DEF StepFields
<1>9. QED
  BY <1>1, <1>2, <1>3, <1>4, <1>5, <1>6, <1>7, <1>8 DEF Next, Process, Environment

(* Named inputs keep their bytes; a loss of power is survived because      *)
(* storage and directory each hold the bytes the other's manifest names.   *)
LEMMA StepKeepsBytes ==
  ASSUME RInv, StepFields
  PROVE  BytesKept'
<1>1. CASE BegunFields
  BY <1>1 DEF BegunFields, RInv, BytesKept, Quiet, Named
<1>2. CASE TemporaryFields
  BY <1>2 DEF TemporaryFields, RInv, BytesKept, Quiet, Named
<1>3. CASE RenamedFields
  <2>1. call.step \in {"inputs", "rollback"} => run.open
    BY CallCases DEF RInv, IInv
  <2>2. \A r \in Roles : disk.slot[r] \subseteq disk'.slot[r]
    BY <1>3 DEF RenamedFields
  <2>3. Named(disk) \subseteq Roles /\ run.inputs \subseteq Roles
    BY DEF RInv, IInv, TypeOK, Image, Named
  <2>4. QED
    BY <1>3, <2>1, <2>2, <2>3 DEF RenamedFields, RInv, BytesKept, Quiet, Named
<1>4. CASE SyncedFields /\ ReturnedFields
  <2>1. call.step = "pending" => run.open /\ "pending" \in disk.slot[call.role]
    BY <1>4, CallCases DEF RInv, IInv, InputsKnown, At, SyncedFields
  <2>2. ~ run.open => run'.inputs = {}
    BY <1>4, <2>1 DEF ReturnedFields, RInv, IInv, CallShape, NoRun
  <2>3. QED
    BY <1>4, <2>1, <2>2 DEF SyncedFields, ReturnedFields, RInv, BytesKept, Quiet, Named
<1>5. CASE FailedFields
  <2>1. run'.open => run.open /\ run'.inputs = run.inputs
    BY <1>5 DEF FailedFields, RInv, IInv, TypeOK, RunType, NoRun
  <2>2. QED
    BY <1>5, <2>1 DEF FailedFields, RInv, BytesKept, Named
<1>6. CASE PublishedFields
  BY <1>6 DEF PublishedFields, RInv, IInv, TypeOK, Image, BytesKept, Quiet, Named
<1>7. CASE WithdrawnFields
  BY <1>7 DEF WithdrawnFields, RInv, BytesKept, Named
<1>8. CASE KeptFields
  BY <1>8 DEF KeptFields, RInv, BytesKept, Quiet, Named
<1>9. CASE AbandonedFields
  BY <1>9 DEF AbandonedFields, RInv, BytesKept, Named
<1>10. CASE \E r \in Roles : RecoveredFields(r)
  <2>1. PICK r \in Roles : RecoveredFields(r)
    BY <1>10
  <2>2. \A s \in Named(disk) : s \in Roles /\ (disk.slot[s] # {} => disk'.slot[s] # {})
    BY <2>1 DEF RecoveredFields, Recovered, RInv, IInv, TypeOK, Image, Named
  <2>3. QED
    BY <2>1, <2>2 DEF RecoveredFields, RInv, BytesKept, Quiet, Named
<1>11. CASE RecoverySyncedFields
  BY <1>11 DEF RecoverySyncedFields, RInv, BytesKept, Quiet, Named
<1>12. CASE ResumedFields
  BY <1>12 DEF ResumedFields, RInv, BytesKept, Quiet, Named
<1>13. CASE CanceledFields
  BY <1>13 DEF CanceledFields, RInv, BytesKept, Quiet, Named
<1>14. CASE ForgottenFields
  BY <1>14 DEF ForgottenFields, RInv, BytesKept, NoRun, Named
<1>15. CASE LostFields
  <2>1. SUFFICES ASSUME Quiet PROVE \A r \in Named(disk)' : disk'.slot[r] # {}
    BY <1>15 DEF LostFields, BytesKept, NoRun
  <2>2. \A r \in Named(disk) : safe.slot[r] # {} /\ disk.slot[r] # {}
    BY <2>1 DEF RInv, BytesKept, QuietStorage
  <2>3. \A r \in Named(safe) : disk.slot[r] # {} /\ safe.slot[r] # {}
    BY <2>1, <2>2 DEF RInv, QuietStorage, Named
  <2>4. Named(disk)' \subseteq Roles /\ Named(disk)' \in {Named(safe), Named(disk)}
    BY <1>15 DEF LostFields, Image, Named
  <2>5. QED
    BY <1>15, <2>2, <2>3, <2>4 DEF LostFields
<1>16. QED
  BY <1>1, <1>2, <1>3, <1>4, <1>5, <1>6, <1>7, <1>8, <1>9, <1>10, <1>11, <1>12, <1>13, <1>14, <1>15
  DEF StepFields

(* Without a loss of power recovery never gives an unnamed input its final *)
(* name, and a CopyInput never takes back one that has it.                 *)
LEMMA StepKeepsNames ==
  ASSUME RInv, StepFields
  PROVE  FinalIsNamed'
<1>1. CASE BegunFields
  BY <1>1 DEF BegunFields, RInv, FinalIsNamed, Named
<1>2. CASE TemporaryFields
  BY <1>2 DEF TemporaryFields, RInv, FinalIsNamed, Named
<1>3. CASE RenamedFields
  <2>1. call.step \in {"inputs", "rollback"} => run.open /\ run.inputs # NoFile
    BY CallCases, RunStoreAssumption DEF RInv, IInv, TypeOK
  <2>2. ASSUME NEW r \in Roles PROVE "final" \in disk'.slot[r] <=> "final" \in disk.slot[r]
    <3>1. disk'.slot[r] \in {disk.slot[r], disk.slot[r] \cup {"pending"}}
      BY <1>3 DEF RenamedFields
    <3>2. QED
      BY <3>1
  <2>3. call.op = "copy" => call.role \in Roles
    BY CallCases DEF RInv, IInv
  <2>4. QED
    BY <1>3, <2>1, <2>2, <2>3 DEF RenamedFields, RInv, FinalIsNamed, Named
<1>4. CASE SyncedFields /\ ReturnedFields
  <2>1. call.op = "create" => \A r \in Roles : disk.slot[r] = {}
    BY DEF RInv, IInv, NewIsEmpty
  <2>2. run'.open /\ ~ run.open => call.op = "create"
    BY <1>4 DEF ReturnedFields
  <2>3. call'.op = "copy" => call.op = "copy" /\ call'.role = call.role /\ call.step # "dirsync"
    BY <1>4 DEF SyncedFields, ReturnedFields, Idle, Writes
  <2>4. run.inputs \subseteq run'.inputs
    BY <1>4 DEF ReturnedFields
  <2>5. QED
    BY <1>4, <2>1, <2>2, <2>3, <2>4 DEF SyncedFields, RInv, FinalIsNamed, Named
<1>5. CASE FailedFields
  <2>1. run'.open => run.open /\ run'.inputs = run.inputs
    BY <1>5 DEF FailedFields, RInv, IInv, TypeOK, RunType, NoRun
  <2>2. QED
    BY <1>5, <2>1 DEF FailedFields, RInv, FinalIsNamed, Named, Idle
<1>6. CASE PublishedFields
  <2>1. call.role \in run.inputs /\ call.role \in Named(disk)
    BY <1>6, RunStoreAssumption DEF PublishedFields, RInv, IInv, TypeOK, InputsKnown, Named
  <2>2. QED
    BY <1>6, <2>1 DEF PublishedFields, RInv, FinalIsNamed, Named
<1>7. CASE WithdrawnFields
  BY <1>7 DEF WithdrawnFields, RInv, FinalIsNamed, Named
<1>8. CASE KeptFields
  BY <1>8 DEF KeptFields, RInv, FinalIsNamed, Named, Idle
<1>9. CASE AbandonedFields
  BY <1>9 DEF AbandonedFields, RInv, FinalIsNamed, Named, Idle
<1>10. CASE \E r \in Roles : RecoveredFields(r)
  BY <1>10 DEF RecoveredFields, Recovered, RInv, FinalIsNamed, Named
<1>11. CASE RecoverySyncedFields
  BY <1>11 DEF RecoverySyncedFields, RInv, FinalIsNamed, Named
<1>12. CASE ResumedFields
  BY <1>12 DEF ResumedFields, RInv, FinalIsNamed, Named, Idle
<1>13. CASE CanceledFields
  BY <1>13 DEF CanceledFields, RInv, FinalIsNamed, Named
<1>14. CASE ForgottenFields
  BY <1>14 DEF ForgottenFields, RInv, FinalIsNamed, NoRun, Named, Idle
<1>15. CASE LostFields
  BY <1>15 DEF LostFields, FinalIsNamed
<1>16. QED
  BY <1>1, <1>2, <1>3, <1>4, <1>5, <1>6, <1>7, <1>8, <1>9, <1>10, <1>11, <1>12, <1>13, <1>14, <1>15
  DEF StepFields
(* While nothing fails, storage is behind the directory by the rename      *)
(* under way and no more, and what each names the other has bytes for.     *)
LEMMA StepKeepsStorage ==
  ASSUME RInv, StepFields, BytesKept'
  PROVE  QuietStorage'
<1> SUFFICES ASSUME Quiet' PROVE QuietStorage'
  BY DEF QuietStorage
<1>1. CASE BegunFields
  BY <1>1 DEF BegunFields, RInv, QuietStorage, Quiet, Named, At, Idle
<1>2. CASE TemporaryFields
  BY <1>2 DEF TemporaryFields, RInv, IInv, QuietStorage, Quiet, Named, At, Writes
<1>3. CASE RenamedFields
  <2>1. Quiet /\ call.step # "rollback" /\ safe.inputs = disk.inputs /\ safe.slot = disk.slot
    BY <1>3 DEF RenamedFields, RInv, IInv, ResultTold, QuietStorage, Quiet, At, Writes
  <2>2. call.step \in InputWrites => run.open /\ ~ safe.stray
    BY <2>1, CallCases DEF RInv, IInv, QuietStorage, InputWrites
  <2>3. (safe.inputs = disk.inputs \/ (At("inputs") /\ safe.slot = disk.slot))'
    BY <1>3, <2>1 DEF RenamedFields, At
  <2>4. (safe.slot = disk.slot \/ At("pending"))'
    BY <1>3, <2>1 DEF RenamedFields, At
  <2>5. (safe.stray => disk.stray)' /\ (run.open => ~ safe.stray)'
    BY <1>3, <2>1, <2>2 DEF RenamedFields, RInv, QuietStorage
  <2>6. \A r \in Named(disk)' : safe.slot[r] # {}
    <3>1. \/ Named(disk)' = Named(disk)
          \/ Named(disk)' = run.inputs /\ run.open /\ run.inputs \subseteq Roles
      BY <1>3, <2>1, CallCases, RunStoreAssumption DEF RenamedFields, RInv, IInv, TypeOK, Named
    <3>2. \A r \in run.inputs : run.open => disk.slot[r] # {}
      BY <2>1 DEF RInv, BytesKept
    <3>3. QED
      BY <2>1, <3>1, <3>2 DEF RInv, QuietStorage
  <2>7. \A r \in Named(safe) : disk'.slot[r] # {}
    <3>1. Named(safe) \subseteq Roles
      BY DEF RInv, IInv, TypeOK, Image, Named
    <3>2. \A r \in Roles : disk.slot[r] \subseteq disk'.slot[r]
      BY <1>3 DEF RenamedFields
    <3>3. QED
      BY <2>1, <3>1, <3>2 DEF RInv, QuietStorage
  <2>8. QED
    BY <1>3, <2>3, <2>4, <2>5, <2>6, <2>7 DEF RenamedFields, QuietStorage, Named
<1>4. CASE SyncedFields /\ ReturnedFields /\ call.step \in InputWrites
  <2>1. Quiet /\ run.open /\ run'.open /\ ~ disk.stray
    BY <1>4, CallCases DEF SyncedFields, ReturnedFields, RInv, IInv, StrayKnown, Quiet, InputWrites
  <2>2. safe'.inputs = disk'.inputs /\ safe'.slot = disk'.slot /\ safe'.stray = disk'.stray
    BY <1>4 DEF SyncedFields
  <2>3. \A r \in Named(disk)' : disk'.slot[r] # {}
    BY DEF BytesKept
  <2>4. QED
    BY <1>4, <2>1, <2>2, <2>3 DEF SyncedFields, QuietStorage, Named
<1>5. CASE SyncedFields /\ ReturnedFields /\ call.step \notin InputWrites
  <2>1. /\ Quiet /\ safe'.inputs = safe.inputs /\ safe'.slot = safe.slot /\ safe'.stray = safe.stray
        /\ disk' = disk
    BY <1>5 DEF SyncedFields, Quiet
  <2>2. call.op = "create" => ~ disk.stray
    BY DEF RInv, IInv, NewIsEmpty
  <2>3. safe.inputs = disk.inputs /\ safe.slot = disk.slot
    BY <1>5, <2>1 DEF SyncedFields, RInv, QuietStorage, At, Writes, InputWrites
  <2>4. run'.open => ~ safe.stray
    BY <1>5, <2>1, <2>2 DEF ReturnedFields, RInv, QuietStorage
  <2>5. QED
    BY <2>1, <2>3, <2>4 DEF RInv, QuietStorage, Named
<1>6. CASE FailedFields
  <2>1. run'.open => run.open
    BY <1>6 DEF FailedFields, RInv, IInv, TypeOK, RunType, NoRun
  <2>2. Quiet /\ safe.inputs = disk.inputs /\ safe.slot = disk.slot
    BY <1>6 DEF FailedFields, RInv, QuietStorage, At, Writes
  <2>3. call.step \in InputWrites => ~ safe.stray
    BY <1>6, <2>2, CallCases DEF RInv, IInv, QuietStorage, InputWrites
  <2>4. QED
    BY <1>6, <2>1, <2>2, <2>3 DEF FailedFields, RInv, QuietStorage, Named
<1>7. CASE PublishedFields
  <2>1. Quiet /\ safe.inputs = disk.inputs /\ Named(safe) \subseteq Roles
    BY <1>7 DEF PublishedFields, RInv, IInv, TypeOK, Image, QuietStorage, Quiet, At, Named
  <2>2. \A r \in Named(safe) : disk'.slot[r] # {}
    BY <1>7, <2>1 DEF PublishedFields, RInv, QuietStorage
  <2>3. QED
    BY <1>7, <2>1, <2>2 DEF PublishedFields, RInv, QuietStorage, Named
<1>8. CASE WithdrawnFields
  BY <1>8 DEF WithdrawnFields
<1>9. CASE KeptFields
  <2>1. ~ disk.stray
    BY <1>9 DEF KeptFields, RInv, IInv, StrayKnown, InputWrites
  <2>2. \A r \in Named(disk)' : disk'.slot[r] # {}
    BY DEF BytesKept
  <2>3. QED
    BY <1>9, <2>1, <2>2 DEF KeptFields, QuietStorage, Named
<1>10. CASE AbandonedFields
  BY <1>10 DEF AbandonedFields, RInv, QuietStorage, Named, At
<1>11. CASE \E r \in Roles : RecoveredFields(r)
  <2>1. PICK r \in Roles : RecoveredFields(r)
    BY <1>11
  <2>2. Quiet /\ safe.inputs = disk.inputs /\ Named(safe) = Named(disk) /\ Named(safe) \subseteq Roles
    BY <2>1 DEF RecoveredFields, RInv, IInv, TypeOK, Image, QuietStorage, Quiet, At, Named
  <2>3. \A s \in Named(safe) : disk'.slot[s] # {}
    BY <2>1, <2>2 DEF RecoveredFields, Recovered, RInv, QuietStorage
  <2>4. QED
    BY <2>1, <2>2, <2>3 DEF RecoveredFields, RInv, QuietStorage, Named
<1>12. CASE RecoverySyncedFields
  <2>1. \A r \in Named(disk)' : disk'.slot[r] # {}
    BY DEF BytesKept
  <2>2. QED
    BY <1>12, <2>1 DEF RecoverySyncedFields, QuietStorage, Named
<1>13. CASE ResumedFields
  BY <1>13 DEF ResumedFields, RInv, QuietStorage, Quiet, Named, At
<1>14. CASE CanceledFields
  BY <1>14 DEF CanceledFields, RInv, QuietStorage, Quiet, Named, At
<1>15. CASE ForgottenFields
  BY <1>15 DEF ForgottenFields, RInv, QuietStorage, NoRun, Named, At, Idle
<1>16. CASE LostFields
  <2>1. \A r \in Named(disk)' : disk'.slot[r] # {}
    BY DEF BytesKept
  <2>2. QED
    BY <1>16, <2>1 DEF LostFields, QuietStorage, NoRun, Named
<1>17. QED
  BY <1>1, <1>2, <1>3, <1>4, <1>5, <1>6, <1>7, <1>8, <1>9, <1>10, <1>11, <1>12, <1>13, <1>14, <1>15, <1>16
  DEF StepFields

(* The caller may make the call that needs the inputs consistent only when *)
(* its last call succeeded.                                                *)
LEMMA TrustedCall ==
  ASSUME ResultTold, CallShape, TypeOK, Careful, call = Idle, MayCall("complete")
  PROVE  result = "ok" /\ run.open /\ ~ run.terminal
BY DEF ResultTold, TypeOK, Careful, MayCall

(* A call that has failed leaves no caller that would call Complete.       *)
LEMMA FailedCall ==
  ASSUME Careful, call = Idle, result \in {"ctx", "error"},
         result = "ctx" => canceled, result = "error" => ~ Quiet
  PROVE  ~ MayCall("complete")
BY DEF Careful, MayCall

(* Images that hold the same inputs are consistent together. *)
LEMMA SameInputs ==
  ASSUME NEW one, NEW other, InputsConsistent(one),
         other.inputs = one.inputs, other.stray => one.stray,
         \A r \in Roles : "final" \in other.slot[r] <=> "final" \in one.slot[r]
  PROVE  InputsConsistent(other)
BY DEF InputsConsistent, Named

(* For a caller that stops at the first failure, or without failures, each *)
(* CopyInput moves the directory from one consistent set of inputs to the  *)
(* next, and nothing else that call can meet undoes it.                    *)
LEMMA StepKeepsSettled ==
  ASSUME RInv, IInv', StepFields
  PROVE  InputsSettled'
<1> SUFFICES ASSUME Careful' PROVE InputsSettled'
  BY DEF InputsSettled
<1>0. Careful
  <2>1. (Quiet' => Quiet) /\ cautious' = cautious /\ (budget'.losses = budget.losses \/ budget'.losses > 0)
    BY DEF StepFields, BegunFields, TemporaryFields, RenamedFields, SyncedFields, FailedFields,
           PublishedFields, WithdrawnFields, KeptFields, AbandonedFields, RecoveredFields,
           RecoverySyncedFields, ResumedFields, CanceledFields, ForgottenFields, LostFields, Quiet
  <2>2. QED
    BY <2>1 DEF Careful, IInv, TypeOK
<1> ReadyToComplete /\ CopiesOne /\ ConsistentOnceComplete
  BY <1>0 DEF RInv, InputsSettled
<1> SUFFICES ReadyToComplete' /\ CopiesOne' /\ ConsistentOnceComplete'
  BY DEF InputsSettled
<1> ~ (disk.status = "complete" /\ run.open /\ ~ run.terminal /\ ~ At("status"))
  BY DEF RInv, IInv, StatusKnown
<1>1. CASE BegunFields
  <2>1. CASE call'.op = "copy"
    <3>1. call'.role \in Roles \ run.inputs /\ MayCall("complete") /\ call = Idle
      BY <1>1, <2>1 DEF BegunFields, MayCall
    <3>2. InputsConsistent(disk) /\ run.inputs = Named(disk)
      BY <1>0, <3>1, TrustedCall DEF RInv, IInv, InputsKnown, ReadyToComplete
    <3>3. CopiesOne'
      BY <1>1, <3>1, <3>2 DEF BegunFields, CopiesOne, ConsistentBut, InputsConsistent, Named
    <3>4. QED
      BY <1>1, <2>1, <3>3 DEF BegunFields, ReadyToComplete, ConsistentOnceComplete, InputsConsistent, Named, Quiet
  <2>2. CASE call'.op # "copy"
    <3>1. call'.op = "complete" => InputsConsistent(disk)
      BY <1>1 DEF BegunFields, ReadyToComplete
    <3>2. QED
      BY <1>1, <2>2, <3>1 DEF BegunFields, ReadyToComplete, CopiesOne, ConsistentOnceComplete, InputsConsistent, Named, Quiet
  <2>3. QED
    BY <2>1, <2>2
<1>2. CASE TemporaryFields
  <2>1. call'.op = call.op /\ call' # Idle
    BY <1>2 DEF TemporaryFields, Idle
  <2>2. CopiesOne'
    BY <1>2 DEF TemporaryFields, CopiesOne, ConsistentBut, Named
  <2>3. call.step \in InputWrites => call.op = "copy" /\ disk.status # "complete"
    BY <1>2, CallCases DEF TemporaryFields, RInv, IInv, InputWrites, At
  <2>4. call.step \notin InputWrites => disk'.stray = disk.stray
    BY <1>2 DEF TemporaryFields, RInv, IInv, TypeOK, Image
  <2>5. ConsistentOnceComplete'
    BY <1>2, <2>1, <2>3, <2>4, SameInputs DEF TemporaryFields, ConsistentOnceComplete, InputsConsistent, Named, Quiet
  <2>6. QED
    BY <2>1, <2>2, <2>5 DEF ReadyToComplete
<1>3. CASE RenamedFields
  <2>1. /\ call'.op = call.op /\ call'.step = call.step /\ call'.role = call.role /\ call' # Idle
        /\ call.step \in Writes /\ call.at = "temp" /\ call.step # "dirsync"
    BY <1>3 DEF RenamedFields, Idle, Writes
  <2>2. CASE call.op = "copy"
    <3>1. /\ call.role \in Roles /\ run.inputs \in SUBSET Roles /\ run.inputs # NoFile
          /\ disk.status # "complete" /\ disk'.status = disk.status
      BY <1>3, <2>1, <2>2, CallCases, RunStoreAssumption DEF RenamedFields, RInv, IInv, TypeOK, At
    <3>2. \A r \in Roles \ {call.role} : r \in Named(disk)' <=> r \in Named(disk)
      <4>1. CASE call.step = "inputs"
        <5>1. run.inputs = Named(disk) \cup {call.role}
          BY <1>0, <2>1, <4>1 DEF Careful, RInv, IInv, TrustedInputs
        <5>2. QED
          BY <1>3, <3>1, <4>1, <5>1 DEF RenamedFields, Named
      <4>2. CASE call.step = "rollback"
        <5>1. run.inputs = Named(disk) \ {call.role}
          BY <1>0, <2>1, <4>2 DEF Careful, RInv, IInv, TrustedInputs
        <5>2. QED
          BY <1>3, <3>1, <4>2, <5>1 DEF RenamedFields, Named
      <4>3. CASE call.step \notin {"inputs", "rollback"}
        BY <1>3, <4>3 DEF RenamedFields, Named
      <4>4. QED
        BY <4>1, <4>2, <4>3
    <3>3. ASSUME NEW r \in Roles PROVE "final" \in disk'.slot[r] <=> "final" \in disk.slot[r]
      <4>1. disk'.slot[r] \in {disk.slot[r], disk.slot[r] \cup {"pending"}}
        BY <1>3 DEF RenamedFields
      <4>2. QED
        BY <4>1
    <3>4. CopiesOne'
      BY <2>1, <2>2, <3>1, <3>2, <3>3 DEF CopiesOne, ConsistentBut
    <3>5. QED
      BY <2>1, <2>2, <3>1, <3>4 DEF ReadyToComplete, ConsistentOnceComplete
  <2>3. CASE call.op # "copy"
    <3>1. /\ disk'.inputs = disk.inputs /\ disk'.slot = disk.slot /\ disk'.stray = disk.stray
          /\ safe' = safe /\ (Quiet' => Quiet)
      BY <1>3, <2>1, <2>3, CallCases DEF RenamedFields, RInv, IInv, TypeOK, Image, InputWrites, Quiet
    <3>2. disk'.status = "complete" => call.op = "complete" \/ disk.status = "complete"
      BY <1>3, <2>3, CallCases DEF RenamedFields, RInv, IInv, CallShape, NoRun
    <3>3. call'.op = "complete" \/ disk'.status = "complete" => InputsConsistent(disk)
      BY <2>1, <3>2 DEF ConsistentOnceComplete
    <3>4. Quiet => (safe.stray => disk.stray) /\ disk.inputs = safe.inputs /\ disk.slot = safe.slot
      BY <2>1 DEF RInv, QuietStorage, At, Writes
    <3>5. ConsistentOnceComplete'
      BY <3>1, <3>3, <3>4, SameInputs DEF ConsistentOnceComplete, InputsConsistent, Named
    <3>6. QED
      BY <2>1, <2>3, <3>5 DEF ReadyToComplete, CopiesOne
  <2>4. QED
    BY <2>2, <2>3
<1>4. CASE SyncedFields /\ ReturnedFields
  <2>1. /\ disk' = disk /\ (Quiet' => Quiet) /\ budget' = budget /\ cautious' = cautious
        /\ call.step \in Writes
    BY <1>4 DEF SyncedFields, Quiet
  <2>2. ReadyToComplete'
    <3>1. SUFFICES ASSUME call' = Idle, MayCall("complete")' PROVE InputsConsistent(disk)
      BY <2>1 DEF ReadyToComplete, InputsConsistent, Named
    <3>2. TypeOK' /\ ResultTold' /\ CallShape'
      BY DEF IInv
    <3>3. result' = "ok" /\ ~ run'.terminal
      BY <3>1, <3>2 DEF TypeOK, ResultTold, Careful, MayCall
    <3>4. call.step \in {"status", "rollback"}
      BY <1>4, <2>1, <3>1, CallCases DEF ReturnedFields, Idle, RInv, IInv, Writes
    <3>5. call.op = "create"
      BY <1>4, <3>3, <3>4 DEF ReturnedFields
    <3>6. QED
      BY <3>5 DEF RInv, IInv, NewIsEmpty, InputsConsistent, Named
  <2>3. CopiesOne'
    BY <1>4, <2>1 DEF ReturnedFields, CopiesOne, ConsistentBut, Named, Idle, Writes
  <2>4. ConsistentOnceComplete'
    <3>1. call.step \in InputWrites => disk.status # "complete"
      BY CallCases DEF RInv, IInv, At, InputWrites
    <3>2. call.step \notin InputWrites => UNCHANGED <<safe.inputs, safe.slot, safe.stray>>
      BY <1>4 DEF SyncedFields
    <3>3. call'.op \in {call.op, "none"}
      BY <1>4 DEF ReturnedFields, Idle
    <3>4. call'.op = "complete" \/ disk'.status = "complete" => InputsConsistent(disk')
      BY <2>1, <3>3 DEF ConsistentOnceComplete
    <3>5. Quiet' /\ disk'.status = "complete" => InputsConsistent(safe')
      BY <2>1, <3>1, <3>2, SameInputs DEF ConsistentOnceComplete
    <3>6. QED
      BY <3>4, <3>5 DEF ConsistentOnceComplete, InputsConsistent, Named
  <2>5. QED
    BY <2>2, <2>3, <2>4
<1>5. CASE FailedFields
  <2>1. /\ call' = Idle /\ disk'.inputs = disk.inputs /\ disk'.slot = disk.slot
        /\ disk'.stray => disk.stray
        /\ disk'.status = disk.status /\ safe' = safe /\ (Quiet' => Quiet)
    BY <1>5 DEF FailedFields, RInv, IInv, TypeOK, Image
  <2>2. ~ MayCall("complete")'
    BY <1>5 DEF FailedFields, Careful, MayCall
  <2>3. ConsistentOnceComplete'
    BY <2>1, SameInputs DEF ConsistentOnceComplete, InputsConsistent, Named, Idle
  <2>4. QED
    BY <2>1, <2>2, <2>3 DEF ReadyToComplete, CopiesOne, Idle
<1>6. CASE PublishedFields
  <2>1. call' # Idle /\ call'.op = "copy" /\ call'.role = call.role /\ disk'.status # "complete"
    BY <1>6 DEF PublishedFields, Idle, At
  <2>2. CopiesOne'
    BY <1>6, <2>1 DEF PublishedFields, CopiesOne, ConsistentBut, Named
  <2>3. QED
    BY <2>1, <2>2 DEF ReadyToComplete, ConsistentOnceComplete
<1>7. CASE WithdrawnFields
  BY <1>7 DEF WithdrawnFields, ReadyToComplete, CopiesOne, ConsistentOnceComplete, Idle, At
<1>8. CASE KeptFields
  <2>1. call.role \in Named(disk) /\ "final" \in disk.slot[call.role] /\ ~ disk.stray
    BY <1>8, RunStoreAssumption
    DEF KeptFields, RInv, IInv, TypeOK, InputsKnown, StrayKnown, InputWrites, Named
  <2>2. InputsConsistent(disk)
    BY <1>8, <2>1 DEF KeptFields, CopiesOne, ConsistentBut, InputsConsistent
  <2>3. disk.status # "complete" /\ disk' = disk /\ call' = Idle
    BY <1>8 DEF KeptFields, At
  <2>4. QED
    BY <2>2, <2>3 DEF ReadyToComplete, CopiesOne, ConsistentOnceComplete, InputsConsistent, Named, Idle
<1>9. CASE AbandonedFields
  <2>1. ~ MayCall("complete")'
    BY <1>9 DEF AbandonedFields, Careful, MayCall
  <2>2. disk' = disk /\ safe' = safe /\ call' = Idle /\ (Quiet' => Quiet)
    BY <1>9 DEF AbandonedFields
  <2>3. QED
    BY <2>1, <2>2 DEF ReadyToComplete, CopiesOne, ConsistentOnceComplete, InputsConsistent, Named, Idle
<1>10. CASE \E r \in Roles : RecoveredFields(r)
  <2>1. PICK r \in Roles : RecoveredFields(r)
    BY <1>10
  <2>2. /\ call' # Idle /\ call'.op = "resume" /\ disk'.status = disk.status /\ safe' = safe
        /\ disk'.inputs = disk.inputs /\ disk'.stray = disk.stray /\ (Quiet' => Quiet)
    BY <2>1 DEF RecoveredFields, Idle, Quiet
  <2>3. InputsConsistent(disk) => \A s \in Roles : "final" \in disk'.slot[s] <=> "final" \in disk.slot[s]
    BY <2>1 DEF RecoveredFields, Recovered, InputsConsistent
  <2>4. ConsistentOnceComplete'
    BY <2>2, <2>3, SameInputs DEF ConsistentOnceComplete, InputsConsistent, Named
  <2>5. QED
    BY <2>2, <2>4 DEF ReadyToComplete, CopiesOne
<1>11. CASE RecoverySyncedFields
  <2>1. /\ call' # Idle /\ call'.op = "resume" /\ disk' = disk /\ (Quiet' => Quiet)
        /\ safe'.inputs = disk.inputs /\ safe'.slot = disk.slot /\ safe'.stray = disk.stray
    BY <1>11 DEF RecoverySyncedFields, Idle, Quiet
  <2>2. ConsistentOnceComplete'
    BY <2>1, SameInputs DEF ConsistentOnceComplete, InputsConsistent, Named
  <2>3. QED
    BY <2>1, <2>2 DEF ReadyToComplete, CopiesOne
<1>12. CASE ResumedFields
  <2>1. run'.open => InputsConsistent(disk)
    BY <1>12 DEF ResumedFields, Openable, NoRun
  <2>2. disk' = disk /\ safe' = safe /\ call' = Idle /\ (Quiet' => Quiet)
    BY <1>12 DEF ResumedFields, Quiet
  <2>3. QED
    BY <2>1, <2>2 DEF ReadyToComplete, CopiesOne, ConsistentOnceComplete, MayCall, InputsConsistent, Named, Idle
<1>13. CASE CanceledFields
  <2>1. MayCall("complete")' => MayCall("complete")
    BY <1>13 DEF CanceledFields, MayCall, RInv, IInv, TypeOK
  <2>2. disk' = disk /\ safe' = safe /\ call' = call /\ (Quiet' => Quiet)
    BY <1>13 DEF CanceledFields, Quiet
  <2>3. QED
    BY <2>1, <2>2 DEF ReadyToComplete, CopiesOne, ConsistentBut, ConsistentOnceComplete, InputsConsistent, Named
<1>14. CASE ForgottenFields
  BY <1>14
  DEF ForgottenFields, ReadyToComplete, CopiesOne, ConsistentOnceComplete, MayCall, InputsConsistent, Named, NoRun, Idle
<1>15. CASE LostFields
  <2>1. Quiet /\ run' = NoRun /\ call' = Idle /\ safe' = disk'
    BY <1>15 DEF LostFields, Careful
  <2>2. ASSUME disk'.status = "complete" PROVE InputsConsistent(disk')
    <3>1. disk.status = "complete"
      BY <1>15, <2>2 DEF LostFields, RInv, IInv, StatusKnown, Terminal
    <3>2. InputsConsistent(disk) /\ InputsConsistent(safe)
      BY <2>1, <3>1 DEF ConsistentOnceComplete
    <3>3. disk.inputs = safe.inputs
      BY <2>1, <3>1, CallCases DEF RInv, IInv, QuietStorage, At
    <3>4. disk'.inputs = disk.inputs /\ (disk'.stray => disk.stray)
      BY <1>15, <3>2, <3>3 DEF LostFields, InputsConsistent
    <3>5. ASSUME NEW r \in Roles PROVE "final" \in disk'.slot[r] <=> "final" \in disk.slot[r]
      <4>1. "final" \in safe.slot[r] <=> "final" \in disk.slot[r]
        BY <3>2, <3>3 DEF InputsConsistent, Named
      <4>2. disk'.slot[r] \in {safe.slot[r], disk.slot[r], safe.slot[r] \cup disk.slot[r]}
        BY <1>15 DEF LostFields
      <4>3. QED
        BY <4>1, <4>2
    <3>6. QED
      BY <3>2, <3>4, <3>5, SameInputs
  <2>3. QED
    BY <2>1, <2>2 DEF ReadyToComplete, CopiesOne, ConsistentOnceComplete, MayCall, InputsConsistent, Named, NoRun, Idle
<1>16. QED
  BY <1>1, <1>2, <1>3, <1>4, <1>5, <1>6, <1>7, <1>8, <1>9, <1>10, <1>11, <1>12, <1>13, <1>14, <1>15
  DEF StepFields

-----------------------------------------------------------------------------
(* The four parts and IInv together are inductive. *)
THEOREM RecoveryInvariance == Spec => []RInv
<1>1. RInv /\ [Next]_vars => RInv'
  <2> SUFFICES ASSUME RInv, [Next]_vars PROVE RInv'
    OBVIOUS
  <2>1. IInv'
    BY StepKeepsIInv DEF RInv
  <2>2. StepFields
    BY StepCases DEF RInv
  <2>3. BytesKept' /\ FinalIsNamed'
    BY <2>2, StepKeepsBytes, StepKeepsNames
  <2>4. QED
    BY <2>1, <2>2, <2>3, StepKeepsStorage, StepKeepsSettled DEF RInv
<1>2. QED
  BY <1>1, InitRInv, PTL DEF Spec

(* An input the manifest names keeps its bytes through whatever interrupts *)
(* CopyInput or its recovery (input.go), but for a loss of power after a   *)
(* death or a failure.                                                     *)
THEOREM CommittedBytesStay == Spec => []CommittedBytesSurvive
<1>1. RInv => CommittedBytesSurvive
  <2>1. TypeOK => budget.losses \in Nat /\ budget.crashes \in Nat /\ budget.faults \in Nat
    BY RunStoreAssumption DEF TypeOK
  <2>2. QED
    BY <2>1 DEF RInv, IInv, BytesKept, Quiet, CommittedBytesSurvive
<1>2. QED
  BY <1>1, RecoveryInvariance, PTL

(* recoverPendingInputs (input.go) hands Open a settled directory, but for *)
(* a leftover temporary or a loss of power.                                *)
THEOREM RecoverySettles == Spec => []RecoverySettlesInputs
<1>1. RInv => RecoverySettlesInputs
  <2> SUFFICES ASSUME RInv, call.step = "open", ~ disk.stray, budget.losses = 0
      PROVE  Pending = {} /\ InputsConsistent(disk)
    BY RunStoreAssumption DEF RInv, IInv, TypeOK, RecoverySettlesInputs
  <2>1. Pending = {}
    BY DEF RInv, IInv, PendingGone
  <2>2. ASSUME NEW r \in Named(disk) PROVE "final" \in disk.slot[r]
    <3>1. r \in Roles /\ disk.slot[r] \in SUBSET {"pending", "final"}
      BY DEF RInv, IInv, TypeOK, Image, Named
    <3>2. disk.slot[r] # {} /\ "pending" \notin disk.slot[r]
      BY <2>1, <3>1 DEF RInv, BytesKept, Pending
    <3>3. QED
      BY <3>1, <3>2
  <2>3. \A r \in Roles : "final" \in disk.slot[r] => r \in Named(disk)
    BY DEF RInv, FinalIsNamed
  <2>4. QED
    BY <2>1, <2>2, <2>3 DEF InputsConsistent
<1>2. QED
  BY <1>1, RecoveryInvariance, PTL

(* A run a careful caller marked complete is one Open (read.go) accepts,   *)
(* as long as the power does not fail.                                     *)
THEOREM CompleteOpens == Spec => []CompleteIsReadable
<1>1. RInv => CompleteIsReadable
  <2> SUFFICES ASSUME RInv, cautious, budget.losses = 0, disk.status = "complete"
      PROVE  Openable(disk)
    BY DEF CompleteIsReadable
  <2>1. disk.base = {"config", "manifest"} /\ disk.summary /\ disk.status # NoFile
    BY RunStoreAssumption DEF RInv, IInv, TypeOK, Image, BaseFirst, SummaryFirst
  <2>2. InputsConsistent(disk)
    BY DEF RInv, InputsSettled, Careful, ConsistentOnceComplete
  <2>3. QED
    BY <2>1, <2>2 DEF Openable
<1>2. QED
  BY <1>1, RecoveryInvariance, PTL

(* Without a death or a failure, what storage holds as complete is one     *)
(* Open accepts after a loss of power.                                     *)
THEOREM StoredCompleteOpens == Spec => []DurableCompleteOpens
<1>1. RInv => DurableCompleteOpens
  <2> SUFFICES ASSUME RInv, Quiet, safe.status = "complete" PROVE Openable(safe)
    BY DEF DurableCompleteOpens, Quiet
  <2>1. safe.base = {"config", "manifest"} /\ safe.summary /\ safe.status # NoFile
    BY RunStoreAssumption DEF RInv, IInv, BaseFirst, SummaryFirst
  <2>2. disk.status = "complete"
    BY DEF RInv, IInv, StatusKnown, Terminal
  <2>3. InputsConsistent(safe)
    BY <2>2 DEF RInv, InputsSettled, Careful, ConsistentOnceComplete
  <2>4. QED
    BY <2>1, <2>3 DEF Openable
<1>2. QED
  BY <1>1, RecoveryInvariance, PTL
=============================================================================
