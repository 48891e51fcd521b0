--------------------------- MODULE ReportWriteProofs ---------------------------
(***************************************************************************)
(* Proofs about ReportWrite, for every number of outputs, every way they   *)
(* lie in directories, and every number of calls, failing steps,           *)
(* interruptions and power losses.                                         *)
(*                                                                         *)
(* What Write promises about the names it leaves does not follow from one  *)
(* step: publishing an output overwrites its path, which is safe because   *)
(* the loops before it moved away what was there, and discarding a backup  *)
(* is safe because the loop before it synced every directory.  So the      *)
(* invariant says, for each loop, what the flags of stagedOutput mean, and *)
(* what they say of the names in view and on storage.                      *)
(***************************************************************************)
EXTENDS ReportWrite, TLAPS

(* What is in view is something storage may hold. *)
ImageMayBeStored == \A o \in Outputs : image[o] \in since[o]

(* Only a directory that Write made may be lost. *)
UnnamedWasMade == dirs.unnamed \subseteq dirs.made

(* Every document is one of the Writes so far, and in a call the documents *)
(* that were there before it are older than its own.                       *)
Known(i, last) == i.path \in 0 .. last /\ i.aside \subseteq 1 .. last
DocumentsKnown ==
  /\ \A o \in Outputs : acked[o] <= version /\ \A i \in since[o] : Known(i, version)
  /\ pc # "idle" => \A o \in Outputs : /\ Known(before[o], version - 1)
                                       /\ image[o].aside \subseteq 1 .. version - 1

(* The outputs that were there when the call began. *)
Existing == {o \in Outputs : before[o].path # 0}

(* What the flags mean in each loop. *)
FlagsFollowLoop ==
  /\ pc = "idle" => mem = NoFlags /\ cursor = 1
  /\ pc = "stage" => /\ mem.existed = {o \in Existing : o < cursor}
                     /\ mem.backup = {} /\ mem.published = {}
  /\ pc = "backup" => /\ mem.existed = Existing
                      /\ mem.backup = {o \in Existing : o < cursor}
                      /\ mem.published = {}
  /\ pc = "publish" => /\ mem.backup = Existing /\ mem.published = 1 .. cursor - 1
                       /\ mem.temporary \subseteq cursor .. N
  /\ pc = "sync" => mem.backup = Existing
  /\ pc = "discard" => mem.backup \subseteq cursor .. N
  /\ pc = "syncagain" => mem.backup = {}
  /\ pc \in {"sync", "discard", "syncagain"} => mem.published = Outputs /\ mem.temporary = {}
  /\ pc = "unpublish" => /\ mem.published \subseteq cursor .. N
                         /\ mem.published # {} => mem.backup = Existing
  /\ pc = "restore" => mem.published = {} /\ mem.backup \subseteq cursor .. N
  /\ pc = "syncback" => mem.published = {} /\ mem.backup = {}
  /\ pc = "cleanup" => /\ mem.temporary \subseteq cursor .. N
                       /\ mem.published = Outputs \/ (mem.published = {} /\ mem.backup = {})
  /\ mem.backup \subseteq Existing

(* Only the loops that undo a call make it untidy, and a call has a result *)
(* once it has returned.                                                   *)
ResultsFollowLoop ==
  /\ untidy => pc \in {"idle", "unpublish", "restore", "syncback", "cleanup"}
  /\ result # "none" => pc = "idle"

(* What the flags of an output say of its names. *)
PathNow(o) == IF o \in mem.published THEN version
              ELSE IF o \in mem.backup THEN 0 ELSE before[o].path
AsideNow(o) == before[o].aside \cup (IF o \in mem.backup THEN {before[o].path} ELSE {})

(* As long as nothing that undoes the call has failed, the flags tell the  *)
(* names; and what undoing overwrites is never an older document.          *)
NamesFollowFlags ==
  /\ pc # "idle" /\ ~ untidy =>
       /\ staged = mem.temporary
       /\ \A o \in Outputs : image[o].path = PathNow(o)
  /\ pc # "idle" /\ ~ untidy /\ budget.losses = 0 =>
       \A o \in Outputs : image[o].aside = AsideNow(o)
  /\ pc \in {"unpublish", "restore"} =>
       \A o \in mem.published \cup mem.backup : image[o].path \in {0, version}

(* Without a power loss no document has two names of an output. *)
OneNameEach ==
  budget.losses = 0 =>
    \A o \in Outputs : /\ image[o].path \notin image[o].aside
                       /\ pc # "idle" => before[o].path \notin before[o].aside

(* A document that storage holds under some name whatever it comes back    *)
(* with; until the call is durable, not one of the call itself.            *)
Undoable == {"stage", "backup", "publish", "sync", "unpublish", "restore"}
Held(o) ==
  \E d \in 1 .. version :
    /\ d >= acked[o]
    /\ pc \in Undoable => d # version
    /\ \A i \in since[o] : d \in Names(i)
StorageHoldsAcked ==
  \A o \in Outputs : placed[o] \notin dirs.made /\ acked[o] > 0 => Held(o)

(* The new documents are at their paths on storage. *)
Settled(o) == \A i \in since[o] : i.path = version
StorageFollowsSync ==
  /\ pc = "sync" =>
       \A o, first \in Outputs : first < cursor /\ placed[first] = placed[o] => Settled(o)
  /\ pc \in {"discard", "syncagain"} => \A o \in Outputs : Settled(o)
  /\ result = "ok" =>
       \A o \in Outputs : acked[o] = version /\ (placed[o] \notin dirs.made => Settled(o))

IInv ==
  /\ TypeOK /\ ImageMayBeStored /\ UnnamedWasMade /\ DocumentsKnown
  /\ FlagsFollowLoop /\ ResultsFollowLoop /\ NamesFollowFlags /\ OneNameEach
  /\ StorageHoldsAcked /\ StorageFollowsSync /\ AllOrNothing

-----------------------------------------------------------------------------
(* Types *)

(* A system call that fails, and an interruption, are counted, within      *)
(* their bounds.                                                           *)
LEMMA BudgetIsBounded ==
  ASSUME TypeOK, Fault \/ Refused \/ Interrupt
  PROVE  /\ budget' \in [faults : 0 .. MaxFaults, interrupts : 0 .. MaxInterrupts,
                         losses : 0 .. MaxLosses]
         /\ budget'.losses = budget.losses
BY ReportWriteAssumption DEF TypeOK, Fault, Refused, Interrupt

(* MkdirAll adds the directory, and counts it as made and not synced.      *)
LEMMA MadeDirectory ==
  ASSUME TypeOK, UnnamedWasMade, NEW d \in Directories, MakeDirectory(d)
  PROVE  /\ dirs' \in [present : SUBSET Directories, made : SUBSET Directories,
                       unnamed : SUBSET Directories]
         /\ UnnamedWasMade' /\ dirs.made \subseteq dirs'.made
BY DEF TypeOK, UnnamedWasMade, MakeDirectory

(* The images an output may get are images. *)
LEMMA ImagesAreTyped ==
  ASSUME TypeOK, NEW o \in Outputs
  PROVE  /\ MovedAside(o) \in Image /\ MovedBack(o) \in Image
         /\ [image[o] EXCEPT !.path = version] \in Image
         /\ [image[o] EXCEPT !.path = 0] \in Image
         /\ [image[o] EXCEPT !.aside = @ \ {before[o].path}] \in Image
<1>1. 0 \in Documents /\ version \in Documents
  BY ReportWriteAssumption DEF TypeOK, Documents
<1>2. image[o] \in Image /\ before[o] \in Image
  BY DEF TypeOK
<1>3. QED
  BY <1>1, <1>2 DEF Image, MovedAside, MovedBack

(* A change of one output's names changes its images and no other's. *)
LEMMA BecomesFields ==
  ASSUME TypeOK, NEW o \in Outputs, NEW new \in Image, Becomes(o, new)
  PROVE  /\ image' \in [Outputs -> Image] /\ since' \in [Outputs -> SUBSET Image]
         /\ image'[o] = new /\ since'[o] = since[o] \cup {new}
         /\ \A p \in Outputs \ {o} : image'[p] = image[p] /\ since'[p] = since[p]
BY DEF TypeOK, Becomes

(* A sync leaves, of each output in that directory, what is in view. *)
LEMMA SettleFields ==
  ASSUME TypeOK, NEW o \in Outputs, Settle(o)
  PROVE  /\ since' \in [Outputs -> SUBSET Image]
         /\ \A p \in Outputs :
              since'[p] = IF placed[p] = placed[o] THEN {image[p]} ELSE since[p]
BY DEF TypeOK, Settle

(* A loop that goes on or ends stays within the outputs. *)
LEMMA LoopIsTyped ==
  ASSUME TypeOK
  PROVE  /\ cursor \in Outputs /\ Advance => cursor' \in 1 .. N + 1 /\ pc' = pc
         /\ \A loop \in Loops \cup {"idle"} :
              Enter(loop) => cursor' = 1 /\ 1 \in 1 .. N + 1 /\ pc' = loop
         /\ Leave => /\ cursor' = 1 /\ 1 \in 1 .. N + 1 /\ pc' = "idle" /\ mem' = NoFlags
                     /\ canceled' = FALSE
                     /\ NoFlags \in [existed : SUBSET Outputs, temporary : SUBSET Outputs,
                                    backup : SUBSET Outputs, published : SUBSET Outputs]
BY ReportWriteAssumption DEF TypeOK, Advance, Enter, Leave, Outputs, NoFlags

-----------------------------------------------------------------------------
(* The loops *)

(* A new process has nothing to undo. *)
LEMMA InitIInv == Init => IInv
<1> SUFFICES ASSUME Init PROVE IInv
  OBVIOUS
<1> USE ReportWriteAssumption
<1>1. /\ \A o \in Outputs : /\ image[o] = [path |-> acked[o], aside |-> {}] /\ since[o] = {image[o]}
                            /\ acked[o] \in 0 .. 1 /\ image[o] \in Image
      /\ acked \in [Outputs -> Documents]
      /\ mem = NoFlags /\ version = 1 /\ pc = "idle" /\ cursor = 1 /\ result = "none"
      /\ untidy = FALSE /\ dirs.unnamed = {}
  BY DEF Init, Image, Documents
<1>2. TypeOK
  <2>1. /\ placed \in [Outputs -> Directories] /\ before = image /\ staged = {} /\ canceled = FALSE
        /\ image = [o \in Outputs |-> [path |-> acked[o], aside |-> {}]]
        /\ since = [o \in Outputs |-> {image[o]}]
        /\ budget = [faults |-> 0, interrupts |-> 0, losses |-> 0]
        /\ dirs \in [present : SUBSET Directories, made : SUBSET Directories,
                     unnamed : SUBSET Directories]
    BY DEF Init
  <2>2. image \in [Outputs -> Image] /\ since \in [Outputs -> SUBSET Image]
    BY <1>1, <2>1
  <2>3. mem \in [existed : SUBSET Outputs, temporary : SUBSET Outputs,
                backup : SUBSET Outputs, published : SUBSET Outputs]
    BY <1>1 DEF NoFlags
  <2>4. budget \in [faults : 0 .. MaxFaults, interrupts : 0 .. MaxInterrupts,
                   losses : 0 .. MaxLosses]
    BY <2>1
  <2>5. version \in 1 .. MaxWrites /\ cursor \in 1 .. N + 1
    BY <1>1
  <2>6. QED
    BY <1>1, <2>1, <2>2, <2>3, <2>4, <2>5 DEF TypeOK, Loops
<1>3. \A o \in Outputs : /\ image[o].path = acked[o] /\ image[o].aside = {} /\ since[o] = {image[o]}
                         /\ acked[o] \in 0 .. 1
  <2>1. TAKE o \in Outputs
  <2>2. image[o] = [path |-> acked[o], aside |-> {}] /\ since[o] = {image[o]} /\ acked[o] \in 0 .. 1
    BY <1>1
  <2>3. QED
    BY <2>2
<1>4. ImageMayBeStored /\ UnnamedWasMade
  BY <1>1 DEF ImageMayBeStored, UnnamedWasMade
<1>5. DocumentsKnown
  <2>1. \A o \in Outputs : acked[o] <= version /\ \A i \in since[o] : Known(i, version)
    BY <1>1, <1>3 DEF Known
  <2>2. QED
    BY <1>1, <2>1 DEF DocumentsKnown
<1>6. FlagsFollowLoop
  BY <1>1 DEF FlagsFollowLoop, NoFlags
<1>7. ResultsFollowLoop /\ NamesFollowFlags /\ OneNameEach
  BY <1>1, <1>3 DEF ResultsFollowLoop, NamesFollowFlags, OneNameEach
<1>8. StorageHoldsAcked
  <2>1. SUFFICES ASSUME NEW o \in Outputs, acked[o] > 0 PROVE Held(o)
    BY DEF StorageHoldsAcked
  <2>2. acked[o] = 1 /\ \A i \in since[o] : 1 \in Names(i)
    BY <1>3, <2>1 DEF Names
  <2>3. QED
    BY <1>1, <2>2 DEF Held, Undoable
<1>9. StorageFollowsSync /\ AllOrNothing
  BY <1>1 DEF StorageFollowsSync, AllOrNothing
<1>10. QED
  BY <1>2, <1>4, <1>5, <1>6, <1>7, <1>8, <1>9 DEF IInv

(* A step that changes nothing but the place in the loops. *)
Turns ==
  /\ UNCHANGED <<files, history, mem, result, untidy>>
  /\ budget'.losses = budget.losses
  /\ pc # "idle"
  /\ \/ pc' = pc /\ cursor' = cursor
     \/ /\ cursor \in Outputs /\ pc' = pc /\ cursor' = cursor + 1
        /\ pc = "syncback" \/ ~ Wanted(cursor)
     \/ /\ cursor = N + 1 /\ pc' = NextLoop /\ cursor' = 1
        /\ pc \notin {"syncagain", "cleanup"}
     \/ pc \in {"backup", "publish", "sync"} /\ pc' = "unpublish" /\ cursor' = 1
     \/ pc \in {"stage", "syncagain", "discard"} /\ pc' = "cleanup" /\ cursor' = 1

(* The flags mean in the next place of a loop, or in the next loop, what   *)
(* they should.                                                            *)
LEMMA TurnsKeepFlags ==
  ASSUME IInv, Turns
  PROVE  FlagsFollowLoop'
<1> USE ReportWriteAssumption DEF Outputs
<1>1. /\ UNCHANGED <<mem, before>> /\ Existing' = Existing /\ pc # "idle"
      /\ mem.existed \subseteq Outputs /\ mem.backup \subseteq Existing
      /\ mem.temporary \subseteq Outputs /\ mem.published \subseteq Outputs
      /\ Existing \subseteq Outputs /\ cursor \in 1 .. N + 1 /\ pc \in Loops
  BY DEF Turns, history, IInv, TypeOK, FlagsFollowLoop, Existing
<1>2. FlagsFollowLoop
  BY DEF IInv
<1>3. CASE pc' = pc /\ cursor' = cursor
  BY <1>1, <1>2, <1>3 DEF FlagsFollowLoop
<1>4. CASE /\ cursor \in Outputs /\ pc' = pc /\ cursor' = cursor + 1
           /\ pc = "syncback" \/ ~ Wanted(cursor)
  <2>1. CASE pc \in {"stage", "publish"}
    BY <1>4, <2>1 DEF Wanted
  <2>2. CASE pc = "backup"
    <3>1. cursor \notin Existing
      BY <1>2, <1>4, <2>2 DEF Wanted, FlagsFollowLoop
    <3>2. QED
      BY <1>1, <1>2, <1>4, <2>2, <3>1 DEF FlagsFollowLoop
  <2>3. CASE pc \in {"discard", "restore"}
    <3>1. cursor \notin mem.backup
      BY <1>4, <2>3 DEF Wanted
    <3>2. QED
      BY <1>1, <1>2, <1>4, <2>3, <3>1 DEF FlagsFollowLoop
  <2>4. CASE pc = "unpublish"
    <3>1. cursor \notin mem.published
      BY <1>4, <2>4 DEF Wanted
    <3>2. QED
      BY <1>1, <1>2, <1>4, <2>4, <3>1 DEF FlagsFollowLoop
  <2>5. CASE pc = "cleanup"
    <3>1. cursor \notin mem.temporary
      BY <1>4, <2>5 DEF Wanted
    <3>2. QED
      BY <1>1, <1>2, <1>4, <2>5, <3>1 DEF FlagsFollowLoop
  <2>6. CASE pc \in {"sync", "syncagain", "syncback"}
    BY <1>1, <1>2, <1>4, <2>6 DEF FlagsFollowLoop
  <2>7. QED
    BY <1>1, <2>1, <2>2, <2>3, <2>4, <2>5, <2>6 DEF Loops
<1>5. CASE /\ cursor = N + 1 /\ pc' = NextLoop /\ cursor' = 1
           /\ pc \notin {"syncagain", "cleanup"}
  <2>1. CASE pc \in {"stage", "backup"}
    <3>1. \A o \in Existing : o < cursor
      BY <1>1, <1>5
    <3>2. {o \in Existing : o < cursor} = Existing
      BY <3>1
    <3>3. CASE pc = "stage"
      <4>1. mem.existed = Existing /\ mem.backup = {} /\ mem.published = {} /\ pc' = "backup"
        BY <1>2, <1>5, <3>2, <3>3 DEF FlagsFollowLoop, NextLoop
      <4>2. \A o \in Existing : ~ (o < cursor')
        BY <1>1, <1>5
      <4>3. {o \in Existing : o < cursor'} = {}
        BY <4>2
      <4>4. QED
        BY <1>1, <1>5, <4>1, <4>3 DEF FlagsFollowLoop
    <3>4. CASE pc = "backup"
      <4>1. mem.backup = Existing /\ mem.published = {} /\ pc' = "publish"
        BY <1>2, <1>5, <3>2, <3>4 DEF FlagsFollowLoop, NextLoop
      <4>2. QED
        BY <1>1, <1>5, <4>1 DEF FlagsFollowLoop
    <3>5. QED
      BY <2>1, <3>3, <3>4
  <2>2. CASE pc = "publish"
    <3>1. cursor .. N = {} /\ 1 .. cursor - 1 = Outputs
      BY <1>5
    <3>2. QED
      BY <1>1, <1>2, <1>5, <2>2, <3>1 DEF FlagsFollowLoop, NextLoop
  <2>3. CASE pc \in {"sync", "discard", "unpublish", "restore"}
    <3>1. cursor .. N = {}
      BY <1>5
    <3>2. QED
      BY <1>1, <1>2, <1>5, <2>3, <3>1 DEF FlagsFollowLoop, NextLoop
  <2>4. CASE pc = "syncback"
    BY <1>1, <1>2, <1>5, <2>4 DEF FlagsFollowLoop, NextLoop
  <2>5. QED
    BY <1>1, <1>5, <2>1, <2>2, <2>3, <2>4 DEF Loops
<1>6. CASE pc \in {"backup", "publish", "sync"} /\ pc' = "unpublish" /\ cursor' = 1
  BY <1>1, <1>2, <1>6 DEF FlagsFollowLoop
<1>7. CASE pc \in {"stage", "syncagain", "discard"} /\ pc' = "cleanup" /\ cursor' = 1
  BY <1>1, <1>2, <1>7 DEF FlagsFollowLoop
<1>8. QED
  BY <1>3, <1>4, <1>5, <1>6, <1>7 DEF Turns

(* Where such a step leads. *)
LEMMA TurnsLead ==
  ASSUME IInv, Turns
  PROVE  /\ pc # "idle" /\ pc' # "idle" /\ pc \in Loops
         /\ pc' \in Undoable => pc \in Undoable
         /\ pc \in {"unpublish", "restore", "syncback", "cleanup"} =>
              pc' \in {"unpublish", "restore", "syncback", "cleanup"}
         /\ pc' \in {"unpublish", "restore"} =>
              pc \in {"backup", "publish", "sync", "unpublish", "restore"}
         /\ pc' = "sync" => (pc = "publish" /\ cursor' = 1) \/ pc = "sync"
         /\ pc' \in {"discard", "syncagain"} =>
              (pc = "sync" /\ cursor = N + 1) \/ pc \in {"discard", "syncagain"}
<1>1. pc \in Loops
  BY DEF IInv, TypeOK, Turns
<1>2. QED
  BY <1>1 DEF Turns, NextLoop, Undoable, Loops

(* Such a step keeps the invariant. *)
LEMMA TurnsKeepIInv ==
  ASSUME IInv, Turns, TypeOK'
  PROVE  IInv'
<1>1. UNCHANGED <<placed, dirs, image, since, staged, version, before, acked, mem, result, untidy>>
  BY DEF Turns, files, history
<1>2. pc # "idle" /\ pc' # "idle" /\ budget'.losses = budget.losses
  BY TurnsLead DEF Turns
<1>3. ImageMayBeStored' /\ UnnamedWasMade' /\ DocumentsKnown' /\ OneNameEach' /\ AllOrNothing'
  BY <1>1, <1>2
  DEF IInv, ImageMayBeStored, UnnamedWasMade, DocumentsKnown, OneNameEach, AllOrNothing
<1>4. FlagsFollowLoop'
  BY TurnsKeepFlags
<1>5. ResultsFollowLoop'
  BY <1>1, <1>2, TurnsLead DEF IInv, ResultsFollowLoop, Loops
<1>6. NamesFollowFlags'
  <2>1. \A o \in Outputs : PathNow(o)' = PathNow(o) /\ AsideNow(o)' = AsideNow(o)
    BY <1>1 DEF PathNow, AsideNow
  <2>2. ~ untidy /\ pc' \in {"unpublish", "restore"} =>
          \A o \in mem.published \cup mem.backup : image[o].path \in {0, version}
    BY <1>2 DEF IInv, TypeOK, NamesFollowFlags, PathNow
  <2>3. untidy /\ pc' \in {"unpublish", "restore"} => pc \in {"unpublish", "restore"}
    BY <1>2, TurnsLead DEF IInv, ResultsFollowLoop
  <2>4. QED
    BY <1>1, <1>2, <2>1, <2>2, <2>3 DEF IInv, NamesFollowFlags
<1>7. StorageHoldsAcked'
  <2>1. \A o \in Outputs : Held(o) => Held(o)'
    BY <1>1, TurnsLead DEF Held
  <2>2. QED
    BY <1>1, <2>1 DEF IInv, StorageHoldsAcked
<1>8. StorageFollowsSync'
  <2>1. \A o \in Outputs : Settled(o)' <=> Settled(o)
    BY <1>1 DEF Settled
  <2>2. ASSUME pc' = "sync", NEW o \in Outputs, NEW first \in Outputs, first < cursor',
               placed[first] = placed[o]
        PROVE  Settled(o)
    <3>1. cursor' # 1 /\ pc = "sync"
      BY <2>2, TurnsLead DEF Outputs
    <3>2. \/ cursor' = cursor
          \/ cursor' = cursor + 1 /\ cursor \in Outputs /\ ~ FirstInDirectory(cursor)
      BY <2>2, <3>1 DEF Turns, Wanted
    <3>3. first < cursor \/ (first = cursor /\ ~ FirstInDirectory(cursor))
      BY <2>2, <3>2, ReportWriteAssumption DEF Outputs
    <3>4. CASE first < cursor
      BY <2>2, <3>1, <3>4 DEF IInv, StorageFollowsSync
    <3>5. CASE first = cursor /\ ~ FirstInDirectory(cursor)
      <4>1. PICK earlier \in 1 .. first - 1 : placed[earlier] = placed[first]
        BY <3>5 DEF FirstInDirectory
      <4>2. earlier \in Outputs /\ earlier < cursor
        BY <2>2, <3>5, ReportWriteAssumption DEF Outputs
      <4>3. QED
        BY <2>2, <3>1, <4>1, <4>2 DEF IInv, StorageFollowsSync
    <3>6. QED
      BY <3>3, <3>4, <3>5
  <2>3. ASSUME pc' \in {"discard", "syncagain"}, NEW o \in Outputs
        PROVE  Settled(o)
    <3>1. CASE pc = "sync" /\ cursor = N + 1
      BY <3>1, ReportWriteAssumption DEF IInv, StorageFollowsSync, Outputs
    <3>2. CASE pc \in {"discard", "syncagain"}
      BY <3>2 DEF IInv, StorageFollowsSync
    <3>3. QED
      BY <2>3, <3>1, <3>2, TurnsLead
  <2>4. result' # "ok"
    BY <1>1, <1>2 DEF IInv, ResultsFollowLoop
  <2>5. QED
    BY <1>1, <2>1, <2>2, <2>3, <2>4 DEF StorageFollowsSync
<1>9. QED
  BY <1>3, <1>4, <1>5, <1>6, <1>7, <1>8 DEF IInv

(* The steps that only turn. *)
LEMMA TurningKeepsIInv ==
  ASSUME IInv,
         \/ SkipOutput \/ EndLoop \/ FailBackUp \/ FailPublish \/ FailSync \/ FailDiscard \/ Cancel
         \/ FailStage /\ UNCHANGED <<dirs, staged, mem>>
  PROVE  IInv'
<1>1. /\ UNCHANGED <<files, history, mem, result, untidy>> /\ pc # "idle"
      /\ Fault \/ Refused \/ Interrupt \/ UNCHANGED budget
      /\ canceled' \in {canceled, TRUE}
  BY DEF SkipOutput, EndLoop, FailBackUp, FailPublish, FailSync, FailDiscard, Cancel, FailStage, At,
         files, history
<1>2. /\ budget' \in [faults : 0 .. MaxFaults, interrupts : 0 .. MaxInterrupts,
                      losses : 0 .. MaxLosses]
      /\ budget'.losses = budget.losses
  BY <1>1, BudgetIsBounded DEF IInv, TypeOK
<1>3. Turns
  BY <1>1, <1>2
  DEF SkipOutput, EndLoop, FailBackUp, FailPublish, FailSync, FailDiscard, Cancel, FailStage, At,
      Advance, Enter, Turns
<1>4. pc' \in Loops \cup {"idle"} /\ cursor' \in 1 .. N + 1
  <2>1. pc \in Loops /\ cursor \in 1 .. N + 1
    BY <1>1 DEF IInv, TypeOK
  <2>2. pc' \in Loops
    BY <1>3, <2>1 DEF Turns, NextLoop, Loops
  <2>3. QED
    BY <1>3, <2>1, <2>2, ReportWriteAssumption DEF Turns, Outputs
<1>5. TypeOK'
  BY <1>1, <1>2, <1>4 DEF IInv, TypeOK, files, history
<1>6. QED
  BY <1>3, <1>5, TurnsKeepIInv

-----------------------------------------------------------------------------
(* Staging *)

(* What a step of stage leaves: the same names, more directories, and the  *)
(* temporaries its flags tell of.                                          *)
Staging ==
  /\ UNCHANGED <<placed, image, since, version, before, acked, result, untidy>>
  /\ budget'.losses = budget.losses
  /\ UnnamedWasMade' /\ dirs.made \subseteq dirs'.made
  /\ pc = "stage" /\ pc' \in {"stage", "cleanup"}
  /\ mem'.backup = {} /\ mem'.published = {} /\ mem.backup = {} /\ mem.published = {}
  /\ staged' = mem'.temporary

(* Such a step keeps the invariant. *)
LEMMA StagingKeepsIInv ==
  ASSUME IInv, Staging, TypeOK', FlagsFollowLoop'
  PROVE  IInv'
<1> USE DEF Staging
<1>1. ImageMayBeStored' /\ DocumentsKnown' /\ OneNameEach' /\ AllOrNothing' /\ ResultsFollowLoop'
  BY DEF IInv, ImageMayBeStored, DocumentsKnown, OneNameEach, AllOrNothing, ResultsFollowLoop
<1>2. NamesFollowFlags'
  <2>1. \A o \in Outputs : PathNow(o)' = PathNow(o) /\ AsideNow(o)' = AsideNow(o)
    BY DEF PathNow, AsideNow
  <2>2. QED
    BY <2>1 DEF IInv, NamesFollowFlags
<1>3. StorageHoldsAcked'
  <2>1. \A o \in Outputs : Held(o) => Held(o)'
    BY DEF Held, Undoable
  <2>2. QED
    BY <2>1 DEF IInv, StorageHoldsAcked
<1>4. StorageFollowsSync'
  BY DEF IInv, ResultsFollowLoop, StorageFollowsSync
<1>5. QED
  BY <1>1, <1>2, <1>3, <1>4 DEF IInv

(* The memory of a Write that has staged another output. *)
LEMMA StagedFlags ==
  ASSUME IInv, pc = "stage", cursor \in Outputs
  PROVE  /\ staged = mem.temporary /\ mem.backup = {} /\ mem.published = {}
         /\ mem.existed = {o \in Existing : o < cursor}
         /\ image[cursor].path = before[cursor].path /\ image[cursor].path \in Documents
         /\ ~ untidy
<1>1. mem.backup = {} /\ mem.published = {} /\ mem.existed = {o \in Existing : o < cursor}
  BY DEF IInv, FlagsFollowLoop
<1>2. ~ untidy
  BY DEF IInv, ResultsFollowLoop
<1>3. staged = mem.temporary /\ image[cursor].path = PathNow(cursor)
  BY <1>2 DEF IInv, NamesFollowFlags
<1>4. image[cursor] \in Image
  BY DEF IInv, TypeOK
<1>5. QED
  BY <1>1, <1>2, <1>3, <1>4 DEF PathNow, Image

(* An output staged is remembered with what was at its path. *)
LEMMA StageKeepsIInv ==
  ASSUME IInv, StageOutput
  PROVE  IInv'
<1> USE DEF Outputs
<1>1. /\ pc = "stage" /\ cursor \in Outputs /\ pc' = "stage" /\ cursor' = cursor + 1
      /\ UNCHANGED <<placed, image, since, version, before, acked, canceled, result, untidy, budget>>
      /\ staged' = staged \cup {cursor} /\ MakeDirectory(placed[cursor])
      /\ placed[cursor] \in Directories
  BY DEF StageOutput, At, Advance, history, IInv, TypeOK
<1>2. /\ mem' \in [existed : SUBSET Outputs, temporary : SUBSET Outputs,
                   backup : SUBSET Outputs, published : SUBSET Outputs]
      /\ mem'.temporary = mem.temporary \cup {cursor}
      /\ mem'.existed = IF image[cursor].path # 0 THEN mem.existed \cup {cursor} ELSE mem.existed
      /\ mem'.backup = mem.backup /\ mem'.published = mem.published
  BY <1>1 DEF StageOutput, IInv, TypeOK
<1>3. /\ dirs' \in [present : SUBSET Directories, made : SUBSET Directories,
                    unnamed : SUBSET Directories]
      /\ UnnamedWasMade' /\ dirs.made \subseteq dirs'.made
  BY <1>1, MadeDirectory DEF IInv
<1>4. TypeOK'
  BY <1>1, <1>2, <1>3, ReportWriteAssumption DEF IInv, TypeOK
<1>5. FlagsFollowLoop'
  <2>1. mem'.existed = {o \in Existing : o < cursor + 1}
    <3>1. /\ mem.existed = {o \in Existing : o < cursor}
          /\ cursor \in Existing <=> image[cursor].path # 0
      BY <1>1, StagedFlags DEF Existing
    <3>2. \A o \in Existing : o < cursor + 1 <=> o < cursor \/ o = cursor
      BY <1>1, ReportWriteAssumption DEF Existing
    <3>3. QED
      BY <1>2, <3>1, <3>2
  <2>2. Existing' = Existing
    BY <1>1 DEF Existing
  <2>3. QED
    BY <1>1, <1>2, <2>1, <2>2, StagedFlags DEF FlagsFollowLoop
<1>6. Staging
  BY <1>1, <1>2, <1>3, StagedFlags DEF Staging
<1>7. QED
  BY <1>4, <1>5, <1>6, StagingKeepsIInv

(* A staging that fails leaves what it made to cleanupStaged. *)
LEMMA FailStageKeepsIInv ==
  ASSUME IInv, FailStage
  PROVE  IInv'
<1> USE DEF Outputs
<1>1. /\ pc = "stage" /\ cursor \in Outputs /\ pc' = "cleanup" /\ cursor' = 1
      /\ UNCHANGED <<placed, image, since, version, before, acked, canceled, result, untidy>>
      /\ Fault \/ Refused
      /\ placed[cursor] \in Directories
  BY DEF FailStage, At, Enter, history, IInv, TypeOK
<1>2. CASE UNCHANGED <<dirs, staged, mem>>
  BY <1>2, TurningKeepsIInv
<1> TypeOK
  BY DEF IInv
<1>3. /\ budget' \in [faults : 0 .. MaxFaults, interrupts : 0 .. MaxInterrupts,
                      losses : 0 .. MaxLosses]
      /\ budget'.losses = budget.losses
  BY <1>1, BudgetIsBounded
<1>4. CASE MakeDirectory(placed[cursor]) /\ UNCHANGED <<staged, mem>>
  <2>1. /\ dirs' \in [present : SUBSET Directories, made : SUBSET Directories,
                      unnamed : SUBSET Directories]
        /\ UnnamedWasMade' /\ dirs.made \subseteq dirs'.made
    BY <1>1, <1>4, MadeDirectory DEF IInv
  <2>2. TypeOK'
    BY <1>1, <1>3, <1>4, <2>1, ReportWriteAssumption DEF TypeOK, Loops
  <2>3. FlagsFollowLoop'
    BY <1>1, <1>4, <2>2, StagedFlags DEF FlagsFollowLoop, TypeOK
  <2>4. Staging
    BY <1>1, <1>3, <1>4, <2>1, StagedFlags DEF Staging
  <2>5. QED
    BY <2>2, <2>3, <2>4, StagingKeepsIInv
<1>5. CASE /\ MakeDirectory(placed[cursor])
           /\ staged' = staged \cup {cursor}
           /\ mem' = [mem EXCEPT !.temporary = @ \cup {cursor}]
  <2>1. /\ dirs' \in [present : SUBSET Directories, made : SUBSET Directories,
                      unnamed : SUBSET Directories]
        /\ UnnamedWasMade' /\ dirs.made \subseteq dirs'.made
    BY <1>1, <1>5, MadeDirectory DEF IInv
  <2>2. /\ mem' \in [existed : SUBSET Outputs, temporary : SUBSET Outputs,
                     backup : SUBSET Outputs, published : SUBSET Outputs]
        /\ mem'.temporary = mem.temporary \cup {cursor}
        /\ mem'.backup = mem.backup /\ mem'.published = mem.published
        /\ staged' \in SUBSET Outputs
    BY <1>1, <1>5 DEF IInv, TypeOK
  <2>3. TypeOK'
    BY <1>1, <1>3, <2>1, <2>2, ReportWriteAssumption DEF TypeOK, Loops
  <2>4. FlagsFollowLoop'
    BY <1>1, <2>2, <2>3, StagedFlags DEF FlagsFollowLoop, TypeOK
  <2>5. Staging
    BY <1>1, <1>3, <1>5, <2>1, <2>2, StagedFlags DEF Staging
  <2>6. QED
    BY <2>3, <2>4, <2>5, StagingKeepsIInv
<1>6. QED
  BY <1>2, <1>4, <1>5 DEF FailStage

-----------------------------------------------------------------------------
(* Renames and removals *)

(* A step that gives the output at the cursor other names, and what it     *)
(* must respect: in a loop that may be undone, no document of an earlier   *)
(* call loses its name; afterwards, the new document keeps its path.       *)
NameChange(o, new) ==
  /\ UNCHANGED <<placed, dirs, version, before, acked, result, untidy>>
  /\ budget'.losses = budget.losses
  /\ pc \in {"backup", "publish", "discard", "unpublish", "restore"} /\ pc' = pc
  /\ cursor = o
  /\ Becomes(o, new)

Respects(o, new) ==
  /\ new.path \in 0 .. version /\ new.aside \subseteq 1 .. version - 1
  /\ budget.losses = 0 => new.path \notin new.aside
  /\ pc # "discard" => \A d \in 1 .. version - 1 : d \in Names(image[o]) => d \in Names(new)
  /\ pc = "discard" => new.path = version

(* The flags go on telling the names. *)
Tells(o, new) ==
  /\ \A p \in Outputs \ {o} :
       /\ p \in mem'.published <=> p \in mem.published
       /\ p \in mem'.backup <=> p \in mem.backup
  /\ ~ untidy => staged' = mem'.temporary /\ new.path = PathNow(o)'
  /\ ~ untidy /\ budget.losses = 0 => new.aside = AsideNow(o)'
  /\ pc \in {"unpublish", "restore"} =>
       new.path = 0 \/ o \notin mem'.published \cup mem'.backup

(* Such a step keeps the invariant. *)
LEMMA NameChangeKeepsIInv ==
  ASSUME IInv, NEW o \in Outputs, NEW new \in Image, NameChange(o, new), Respects(o, new), Tells(o, new),
         TypeOK', FlagsFollowLoop'
  PROVE  IInv'
<1>1. /\ UNCHANGED <<placed, dirs, version, before, acked, result, untidy>> /\ pc' = pc
      /\ budget'.losses = budget.losses /\ pc # "idle" /\ pc # "sync" /\ pc # "syncagain"
  BY DEF NameChange
<1>2. /\ image'[o] = new /\ since'[o] = since[o] \cup {new}
      /\ \A p \in Outputs \ {o} : image'[p] = image[p] /\ since'[p] = since[p]
  BY BecomesFields DEF NameChange, IInv
<1>3. ImageMayBeStored' /\ UnnamedWasMade'
  BY <1>1, <1>2 DEF IInv, ImageMayBeStored, UnnamedWasMade
<1>4. DocumentsKnown'
  <2>1. Known(new, version)
    BY DEF Respects, Known, IInv, TypeOK
  <2>2. \A p \in Outputs : \A i \in since'[p] : Known(i, version)
    BY <1>2, <2>1 DEF IInv, DocumentsKnown
  <2>3. \A p \in Outputs : image'[p].aside \subseteq 1 .. version - 1
    BY <1>1, <1>2 DEF IInv, DocumentsKnown, Respects
  <2>4. QED
    BY <1>1, <2>2, <2>3 DEF IInv, DocumentsKnown
<1>5. ResultsFollowLoop' /\ AllOrNothing'
  BY <1>1 DEF IInv, ResultsFollowLoop, AllOrNothing
<1>6. NamesFollowFlags'
  <2>1. \A p \in Outputs \ {o} : PathNow(p)' = PathNow(p) /\ AsideNow(p)' = AsideNow(p)
    BY <1>1 DEF PathNow, AsideNow, Tells
  <2>2. ~ untidy => staged' = mem'.temporary /\ \A p \in Outputs : image'[p].path = PathNow(p)'
    BY <1>1, <1>2, <2>1 DEF IInv, NamesFollowFlags, Tells
  <2>3. ~ untidy /\ budget.losses = 0 => \A p \in Outputs : image'[p].aside = AsideNow(p)'
    BY <1>1, <1>2, <2>1 DEF IInv, NamesFollowFlags, Tells
  <2>4. mem'.published \subseteq Outputs /\ mem'.backup \subseteq Outputs
    BY DEF TypeOK
  <2>5. pc \in {"unpublish", "restore"} =>
          \A p \in mem'.published \cup mem'.backup : image'[p].path \in {0, version}
    BY <1>1, <1>2, <2>4 DEF IInv, NamesFollowFlags, Tells
  <2>6. QED
    BY <1>1, <2>2, <2>3, <2>5 DEF NamesFollowFlags
<1>7. OneNameEach'
  BY <1>1, <1>2 DEF IInv, OneNameEach, Respects
<1>8. StorageHoldsAcked'
  <2>1. \A p \in Outputs \ {o} : Held(p) => Held(p)'
    BY <1>1, <1>2 DEF Held
  <2>2. ASSUME Held(o) PROVE Held(o)'
    <3>1. CASE pc = "discard"
      <4>1. \A i \in since'[o] : version \in Names(i)
        BY <1>1, <1>2, <3>1 DEF IInv, StorageFollowsSync, Settled, Respects, Names
      <4>2. version \in 1 .. version /\ version >= acked[o]
        BY <1>1 DEF IInv, TypeOK, DocumentsKnown, Documents
      <4>3. QED
        BY <1>1, <3>1, <4>1, <4>2 DEF Held, Undoable
    <3>2. CASE pc # "discard"
      <4>1. PICK d \in 1 .. version : /\ d >= acked[o] /\ d # version
                                      /\ \A i \in since[o] : d \in Names(i)
        BY <1>1, <2>2, <3>2 DEF Held, Undoable, NameChange
      <4>2. d \in Names(image[o]) /\ d \in 1 .. version - 1
        BY <1>1, <4>1 DEF IInv, ImageMayBeStored, TypeOK
      <4>3. \A i \in since'[o] : d \in Names(i)
        BY <1>2, <3>2, <4>1, <4>2 DEF Respects
      <4>4. QED
        BY <1>1, <4>1, <4>3 DEF Held
    <3>3. QED
      BY <3>1, <3>2
  <2>3. QED
    BY <1>1, <2>1, <2>2 DEF IInv, StorageHoldsAcked
<1>9. StorageFollowsSync'
  <2>1. pc = "discard" => \A p \in Outputs : Settled(p)'
    BY <1>1, <1>2 DEF IInv, StorageFollowsSync, Settled, Respects
  <2>2. QED
    BY <1>1, <2>1 DEF IInv, ResultsFollowLoop, StorageFollowsSync
<1>10. QED
  BY <1>3, <1>4, <1>5, <1>6, <1>7, <1>8, <1>9 DEF IInv

(* What is known of the output a loop has reached. *)
LEMMA OutputReached ==
  ASSUME IInv, NEW o \in Outputs, o = cursor, pc # "idle"
  PROVE  /\ cursor + 1 \in 1 .. N + 1 /\ version - 1 \in Nat /\ version \in Nat
         /\ image[o].path \in 0 .. version /\ image[o].aside \subseteq 1 .. version - 1
         /\ before[o].path \in 0 .. version - 1
         /\ (o \in Existing <=> before[o].path # 0)
         /\ ~ untidy => /\ image[o].path = PathNow(o) /\ staged = mem.temporary
                        /\ budget.losses = 0 => image[o].aside = AsideNow(o)
         /\ budget.losses = 0 => before[o].path \notin before[o].aside
<1>1. image[o] \in since[o] /\ Known(before[o], version - 1) /\ Known(image[o], version)
      /\ image[o].aside \subseteq 1 .. version - 1
  BY DEF IInv, ImageMayBeStored, DocumentsKnown
<1>2. cursor + 1 \in 1 .. N + 1 /\ version - 1 \in Nat /\ version \in Nat
  BY ReportWriteAssumption DEF IInv, TypeOK, Outputs
<1>3. QED
  BY <1>1, <1>2 DEF IInv, Known, Existing, NamesFollowFlags, OneNameEach

(* The old document goes to a name of its own. *)
LEMMA BackUpKeepsIInv ==
  ASSUME IInv, BackUp
  PROVE  IInv'
<1>1. PICK o \in Outputs : o = cursor
  BY DEF BackUp, At
<1>2. /\ pc = "backup" /\ o \in mem.existed /\ Becomes(o, MovedAside(o)) /\ pc' = pc /\ cursor' = cursor + 1
      /\ UNCHANGED <<placed, dirs, staged, version, before, acked, canceled, result, untidy, budget>>
      /\ mem' = [mem EXCEPT !.backup = @ \cup {o}]
  BY <1>1 DEF BackUp, At, Wanted, Advance, history
<1>3. /\ mem' \in [existed : SUBSET Outputs, temporary : SUBSET Outputs,
                   backup : SUBSET Outputs, published : SUBSET Outputs]
      /\ mem'.existed = mem.existed /\ mem'.backup = mem.backup \cup {o}
      /\ mem'.temporary = mem.temporary /\ mem'.published = mem.published
  BY <1>2 DEF IInv, TypeOK
<1>4. /\ mem.existed = Existing /\ mem.backup = {p \in Existing : p < cursor} /\ mem.published = {}
      /\ ~ untidy /\ o \in Existing
  BY <1>2 DEF IInv, FlagsFollowLoop, ResultsFollowLoop
<1>5. /\ image[o].path = before[o].path /\ before[o].path \in 1 .. version - 1
      /\ budget.losses = 0 => image[o].aside = before[o].aside
      /\ MovedAside(o) \in Image
      /\ MovedAside(o).path = 0 /\ MovedAside(o).aside = image[o].aside \cup {image[o].path}
  <2>1. o \notin mem.backup
    BY <1>1, <1>4 DEF Outputs
  <2>2. /\ image[o].path = before[o].path /\ before[o].path \in 1 .. version - 1
        /\ budget.losses = 0 => image[o].aside = before[o].aside
    <3>1. o \notin mem.published /\ ~ untidy /\ o \in Existing /\ pc # "idle"
      BY <1>2, <1>4
    <3>2. PathNow(o) = before[o].path /\ AsideNow(o) = before[o].aside
      BY <2>1, <3>1 DEF PathNow, AsideNow
    <3>3. QED
      BY <1>1, <3>1, <3>2, OutputReached
  <2>3. MovedAside(o) \in Image
    BY ImagesAreTyped DEF IInv
  <2>4. MovedAside(o).path = 0 /\ MovedAside(o).aside = image[o].aside \cup {image[o].path}
    BY DEF MovedAside
  <2>5. QED
    BY <2>2, <2>3, <2>4
<1>6. TypeOK'
  BY <1>1, <1>2, <1>3, <1>5, BecomesFields, OutputReached DEF IInv, TypeOK
<1>7. FlagsFollowLoop'
  <2>1. Existing' = Existing /\ Existing \subseteq Outputs
    BY <1>2 DEF Existing
  <2>2. mem'.backup = {p \in Existing : p < cursor + 1}
    <3>1. \A p \in Existing : p < cursor + 1 <=> p < cursor \/ p = o
      BY <1>1, <2>1, ReportWriteAssumption DEF Outputs
    <3>2. QED
      BY <1>3, <1>4, <3>1
  <2>3. QED
    BY <1>2, <1>3, <1>4, <2>1, <2>2 DEF FlagsFollowLoop
<1>8. Respects(o, MovedAside(o))
  BY <1>1, <1>2, <1>5, OutputReached DEF Respects, Names
<1>9. Tells(o, MovedAside(o))
  BY <1>2, <1>3, <1>4, <1>5, <1>1, OutputReached DEF Tells, PathNow, AsideNow
<1>10. NameChange(o, MovedAside(o))
  BY <1>1, <1>2 DEF NameChange
<1>11. QED
  BY <1>5, <1>6, <1>7, <1>8, <1>9, <1>10, NameChangeKeepsIInv

(* The new document takes a path that has been cleared. *)
LEMMA PublishKeepsIInv ==
  ASSUME IInv, Publish
  PROVE  IInv'
<1>1. PICK o \in Outputs : o = cursor
  BY DEF Publish, At
<1> DEFINE new == [image[o] EXCEPT !.path = version]
<1>2. /\ pc = "publish" /\ Becomes(o, new) /\ pc' = pc /\ cursor' = cursor + 1
      /\ UNCHANGED <<placed, dirs, version, before, acked, canceled, result, untidy, budget>>
      /\ staged' = staged \ {o}
      /\ mem' = [mem EXCEPT !.temporary = @ \ {o}, !.published = @ \cup {o}]
  BY <1>1 DEF Publish, At, Advance, history
<1>3. /\ mem' \in [existed : SUBSET Outputs, temporary : SUBSET Outputs,
                   backup : SUBSET Outputs, published : SUBSET Outputs]
      /\ mem'.existed = mem.existed /\ mem'.backup = mem.backup
      /\ mem'.temporary = mem.temporary \ {o} /\ mem'.published = mem.published \cup {o}
      /\ staged' \in SUBSET Outputs
  BY <1>2 DEF IInv, TypeOK
<1>4. /\ mem.backup = Existing /\ mem.published = 1 .. cursor - 1 /\ ~ untidy
      /\ mem.temporary \subseteq cursor .. N
  BY <1>2 DEF IInv, FlagsFollowLoop, ResultsFollowLoop
<1>5. /\ image[o].path = 0 /\ new.path = version /\ new.aside = image[o].aside /\ new \in Image
  <2>1. o \notin mem.published
    BY <1>1, <1>4, ReportWriteAssumption DEF Outputs
  <2>2. image[o].path = 0
    BY <1>1, <1>2, <1>4, <2>1, OutputReached DEF PathNow
  <2>3. image[o] \in Image
    BY DEF IInv, TypeOK
  <2>4. QED
    BY <2>2, <2>3, ImagesAreTyped DEF IInv, Image
<1> HIDE DEF new
<1>6. TypeOK'
  BY <1>1, <1>2, <1>3, <1>5, BecomesFields, OutputReached DEF IInv, TypeOK
<1>7. FlagsFollowLoop'
  <2>1. Existing' = Existing
    BY <1>2 DEF Existing
  <2>2. mem'.published = 1 .. cursor' - 1
    BY <1>1, <1>2, <1>3, <1>4, ReportWriteAssumption DEF Outputs
  <2>3. mem'.temporary \subseteq cursor' .. N
    BY <1>1, <1>2, <1>3, <1>4, ReportWriteAssumption DEF Outputs
  <2>4. QED
    BY <1>2, <1>3, <1>4, <2>1, <2>2, <2>3 DEF FlagsFollowLoop
<1>8. Respects(o, new)
  BY <1>1, <1>2, <1>5, OutputReached DEF Respects, Names
<1>9. Tells(o, new)
  BY <1>1, <1>2, <1>3, <1>4, <1>5, OutputReached DEF Tells, PathNow, AsideNow
<1>10. NameChange(o, new)
  BY <1>1, <1>2 DEF NameChange
<1>11. QED
  BY <1>5, <1>6, <1>7, <1>8, <1>9, <1>10, NameChangeKeepsIInv

(* A backup goes once the new document is at its path on storage. *)
LEMMA DiscardKeepsIInv ==
  ASSUME IInv, DiscardBackup
  PROVE  IInv'
<1>1. PICK o \in Outputs : o = cursor
  BY DEF DiscardBackup, At
<1> DEFINE new == [image[o] EXCEPT !.aside = @ \ {before[o].path}]
<1>2. /\ pc = "discard" /\ o \in mem.backup /\ Becomes(o, new) /\ pc' = pc /\ cursor' = cursor + 1
      /\ UNCHANGED <<placed, dirs, staged, version, before, acked, canceled, result, untidy, budget>>
      /\ mem' = [mem EXCEPT !.backup = @ \ {o}]
  BY <1>1 DEF DiscardBackup, At, Wanted, Advance, history
<1>3. /\ mem' \in [existed : SUBSET Outputs, temporary : SUBSET Outputs,
                   backup : SUBSET Outputs, published : SUBSET Outputs]
      /\ mem'.existed = mem.existed /\ mem'.backup = mem.backup \ {o}
      /\ mem'.temporary = mem.temporary /\ mem'.published = mem.published
  BY <1>2 DEF IInv, TypeOK
<1>4. /\ mem.published = Outputs /\ mem.temporary = {} /\ mem.backup \subseteq cursor .. N
      /\ ~ untidy /\ mem.backup \subseteq Existing
  BY <1>2 DEF IInv, FlagsFollowLoop, ResultsFollowLoop
<1>5. /\ image[o].path = version /\ new.path = version
      /\ new.aside = image[o].aside \ {before[o].path} /\ new \in Image
  <2>1. image[o].path = version
    BY <1>1, <1>2, <1>4, OutputReached DEF PathNow
  <2>2. image[o] \in Image
    BY DEF IInv, TypeOK
  <2>3. QED
    BY <2>1, <2>2, ImagesAreTyped DEF IInv, Image
<1> HIDE DEF new
<1>6. TypeOK'
  BY <1>1, <1>2, <1>3, <1>5, BecomesFields, OutputReached DEF IInv, TypeOK
<1>7. FlagsFollowLoop'
  <2>1. Existing' = Existing
    BY <1>2 DEF Existing
  <2>2. mem'.backup \subseteq cursor' .. N
    BY <1>1, <1>2, <1>3, <1>4, ReportWriteAssumption DEF Outputs
  <2>3. QED
    BY <1>2, <1>3, <1>4, <2>1, <2>2 DEF FlagsFollowLoop
<1>8. Respects(o, new)
  BY <1>1, <1>2, <1>5, OutputReached DEF Respects
<1>9. Tells(o, new)
  <2>1. budget.losses = 0 => new.aside = before[o].aside
    BY <1>1, <1>2, <1>4, <1>5, OutputReached DEF AsideNow
  <2>2. QED
    BY <1>1, <1>2, <1>3, <1>4, <1>5, <2>1, OutputReached DEF Tells, PathNow, AsideNow
<1>10. NameChange(o, new)
  BY <1>1, <1>2 DEF NameChange
<1>11. QED
  BY <1>5, <1>6, <1>7, <1>8, <1>9, <1>10, NameChangeKeepsIInv

-----------------------------------------------------------------------------
(* Undoing *)

(* A step that undoes and fails changes no name; it is remembered.         *)
GivesUp ==
  /\ UNCHANGED <<placed, dirs, image, since, staged, version, before, acked, result>>
  /\ budget'.losses = budget.losses
  /\ pc \in {"unpublish", "restore", "cleanup"} /\ pc' = pc
  /\ untidy'
  /\ mem'.backup \subseteq mem.backup /\ mem'.published \subseteq mem.published

(* Such a step keeps the invariant. *)
LEMMA GivesUpKeepsIInv ==
  ASSUME IInv, GivesUp, TypeOK', FlagsFollowLoop'
  PROVE  IInv'
<1> USE DEF GivesUp
<1>1. ImageMayBeStored' /\ UnnamedWasMade' /\ DocumentsKnown' /\ OneNameEach'
  BY DEF IInv, ImageMayBeStored, UnnamedWasMade, DocumentsKnown, OneNameEach
<1>2. ResultsFollowLoop' /\ NamesFollowFlags' /\ AllOrNothing'
  BY DEF IInv, ResultsFollowLoop, NamesFollowFlags, AllOrNothing
<1>3. StorageHoldsAcked'
  <2>1. \A o \in Outputs : Held(o) => Held(o)'
    BY DEF Held
  <2>2. QED
    BY <2>1 DEF IInv, StorageHoldsAcked
<1>4. StorageFollowsSync'
  BY DEF IInv, ResultsFollowLoop, StorageFollowsSync
<1>5. QED
  BY <1>1, <1>2, <1>3, <1>4 DEF IInv

(* The new document goes, or the step fails. *)
LEMMA UnpublishKeepsIInv ==
  ASSUME IInv, Unpublish
  PROVE  IInv'
<1>1. PICK o \in Outputs : o = cursor
  BY DEF Unpublish, At
<1> DEFINE new == [image[o] EXCEPT !.path = 0]
<1>2. /\ pc = "unpublish" /\ o \in mem.published /\ pc' = pc /\ cursor' = cursor + 1
      /\ UNCHANGED <<placed, dirs, staged, version, before, acked, canceled, result>>
      /\ mem' = [mem EXCEPT !.published = @ \ {o}]
      /\ \/ Becomes(o, new) /\ UNCHANGED <<untidy, budget>>
         \/ Fault /\ untidy' = TRUE /\ UNCHANGED <<image, since>>
  BY <1>1 DEF Unpublish, At, Wanted, Advance, history
<1>3. /\ mem' \in [existed : SUBSET Outputs, temporary : SUBSET Outputs,
                   backup : SUBSET Outputs, published : SUBSET Outputs]
      /\ mem'.existed = mem.existed /\ mem'.backup = mem.backup
      /\ mem'.temporary = mem.temporary /\ mem'.published = mem.published \ {o}
  BY <1>2 DEF IInv, TypeOK
<1>4. /\ mem.published \subseteq cursor .. N /\ mem.backup = Existing
      /\ image[o].path \in {0, version}
  BY <1>2 DEF IInv, FlagsFollowLoop, NamesFollowFlags
<1>5. new.path = 0 /\ new.aside = image[o].aside /\ new \in Image
  <2>1. image[o] \in Image
    BY DEF IInv, TypeOK
  <2>2. QED
    BY <2>1, ImagesAreTyped DEF IInv, Image
<1> HIDE DEF new
<1>6. FlagsFollowLoop'
  <2>1. Existing' = Existing
    BY <1>2 DEF Existing
  <2>2. mem'.published \subseteq cursor' .. N
    BY <1>1, <1>2, <1>3, <1>4, ReportWriteAssumption DEF Outputs
  <2>3. QED
    BY <1>2, <1>3, <1>4, <2>1, <2>2 DEF FlagsFollowLoop
<1>7. CASE Becomes(o, new) /\ UNCHANGED <<untidy, budget>>
  <2>1. TypeOK'
    BY <1>1, <1>2, <1>3, <1>5, <1>7, BecomesFields, OutputReached DEF IInv, TypeOK
  <2>2. Respects(o, new)
    BY <1>1, <1>2, <1>4, <1>5, OutputReached DEF Respects, Names
  <2>3. Tells(o, new)
    BY <1>1, <1>2, <1>3, <1>4, <1>5, OutputReached DEF Tells, PathNow, AsideNow
  <2>4. NameChange(o, new)
    BY <1>1, <1>2, <1>7 DEF NameChange
  <2>5. QED
    BY <1>5, <1>6, <2>1, <2>2, <2>3, <2>4, NameChangeKeepsIInv
<1>8. CASE Fault /\ untidy' = TRUE /\ UNCHANGED <<image, since>>
  <2>1. /\ budget' \in [faults : 0 .. MaxFaults, interrupts : 0 .. MaxInterrupts,
                        losses : 0 .. MaxLosses]
        /\ budget'.losses = budget.losses
    BY <1>8, BudgetIsBounded DEF IInv
  <2>2. TypeOK'
    BY <1>1, <1>2, <1>3, <1>8, <2>1, OutputReached DEF IInv, TypeOK
  <2>3. GivesUp
    BY <1>2, <1>3, <1>8, <2>1 DEF GivesUp
  <2>4. QED
    BY <1>6, <2>2, <2>3, GivesUpKeepsIInv
<1>9. QED
  BY <1>2, <1>7, <1>8

(* The old document comes back, over the new one if that is still there,   *)
(* or the step fails.                                                      *)
LEMMA RestoreKeepsIInv ==
  ASSUME IInv, Restore
  PROVE  IInv'
<1>1. PICK o \in Outputs : o = cursor
  BY DEF Restore, At
<1>2. /\ pc = "restore" /\ o \in mem.backup /\ pc' = pc /\ cursor' = cursor + 1
      /\ UNCHANGED <<placed, dirs, staged, version, before, acked, canceled, result>>
      /\ mem' = [mem EXCEPT !.backup = @ \ {o}]
      /\ \/ Becomes(o, MovedBack(o)) /\ UNCHANGED <<untidy, budget>>
         \/ Fault /\ untidy' = TRUE /\ UNCHANGED <<image, since>>
  BY <1>1 DEF Restore, At, Wanted, Advance, history
<1>3. /\ mem' \in [existed : SUBSET Outputs, temporary : SUBSET Outputs,
                   backup : SUBSET Outputs, published : SUBSET Outputs]
      /\ mem'.existed = mem.existed /\ mem'.backup = mem.backup \ {o}
      /\ mem'.temporary = mem.temporary /\ mem'.published = mem.published
  BY <1>2 DEF IInv, TypeOK
<1>4. /\ mem.published = {} /\ mem.backup \subseteq cursor .. N /\ mem.backup \subseteq Existing
      /\ image[o].path \in {0, version}
  BY <1>2 DEF IInv, FlagsFollowLoop, NamesFollowFlags
<1>5. /\ MovedBack(o) \in Image /\ MovedBack(o).path = before[o].path
      /\ MovedBack(o).aside = image[o].aside \ {before[o].path}
  <2>1. MovedBack(o) \in Image
    BY ImagesAreTyped DEF IInv
  <2>2. QED
    BY <2>1 DEF MovedBack
<1>6. FlagsFollowLoop'
  <2>1. Existing' = Existing
    BY <1>2 DEF Existing
  <2>2. mem'.backup \subseteq cursor' .. N
    BY <1>1, <1>2, <1>3, <1>4, ReportWriteAssumption DEF Outputs
  <2>3. QED
    BY <1>2, <1>3, <1>4, <2>1, <2>2 DEF FlagsFollowLoop
<1>7. CASE Becomes(o, MovedBack(o)) /\ UNCHANGED <<untidy, budget>>
  <2>1. TypeOK'
    BY <1>1, <1>2, <1>3, <1>5, <1>7, BecomesFields, OutputReached DEF IInv, TypeOK
  <2>2. Respects(o, MovedBack(o))
    BY <1>1, <1>2, <1>4, <1>5, OutputReached DEF Respects, Names
  <2>3. Tells(o, MovedBack(o))
    <3>1. ~ untidy /\ budget.losses = 0 => MovedBack(o).aside = before[o].aside
      BY <1>1, <1>2, <1>4, <1>5, OutputReached DEF AsideNow
    <3>2. QED
      BY <1>1, <1>2, <1>3, <1>4, <1>5, <1>7, <3>1, OutputReached DEF Tells, PathNow, AsideNow
  <2>4. NameChange(o, MovedBack(o))
    BY <1>1, <1>2, <1>7 DEF NameChange
  <2>5. QED
    BY <1>5, <1>6, <2>1, <2>2, <2>3, <2>4, NameChangeKeepsIInv
<1>8. CASE Fault /\ untidy' = TRUE /\ UNCHANGED <<image, since>>
  <2>1. /\ budget' \in [faults : 0 .. MaxFaults, interrupts : 0 .. MaxInterrupts,
                        losses : 0 .. MaxLosses]
        /\ budget'.losses = budget.losses
    BY <1>8, BudgetIsBounded DEF IInv
  <2>2. TypeOK'
    BY <1>1, <1>2, <1>3, <1>8, <2>1, OutputReached DEF IInv, TypeOK
  <2>3. GivesUp
    BY <1>2, <1>3, <1>8, <2>1 DEF GivesUp
  <2>4. QED
    BY <1>6, <2>2, <2>3, GivesUpKeepsIInv
<1>9. QED
  BY <1>2, <1>7, <1>8

(* A temporary goes, or the step fails; no name in view changes. *)
LEMMA RemoveTemporaryKeepsIInv ==
  ASSUME IInv, RemoveTemporary
  PROVE  IInv'
<1>1. PICK o \in Outputs : o = cursor
  BY DEF RemoveTemporary, At
<1>2. /\ pc = "cleanup" /\ pc' = pc /\ cursor' = cursor + 1
      /\ UNCHANGED <<placed, dirs, image, since, version, before, acked, canceled, result>>
      /\ mem' = [mem EXCEPT !.temporary = @ \ {o}]
      /\ \/ staged' = staged \ {o} /\ UNCHANGED <<untidy, budget>>
         \/ Fault /\ untidy' = TRUE /\ UNCHANGED staged
  BY <1>1 DEF RemoveTemporary, At, Advance, history
<1>3. /\ mem' \in [existed : SUBSET Outputs, temporary : SUBSET Outputs,
                   backup : SUBSET Outputs, published : SUBSET Outputs]
      /\ mem'.existed = mem.existed /\ mem'.backup = mem.backup
      /\ mem'.temporary = mem.temporary \ {o} /\ mem'.published = mem.published
  BY <1>2 DEF IInv, TypeOK
<1>4. FlagsFollowLoop'
  <2>1. Existing' = Existing
    BY <1>2 DEF Existing
  <2>2. /\ mem.temporary \subseteq cursor .. N /\ mem.backup \subseteq Existing
        /\ mem.published = Outputs \/ (mem.published = {} /\ mem.backup = {})
    BY <1>2 DEF IInv, FlagsFollowLoop
  <2>3. mem'.temporary \subseteq cursor' .. N
    BY <1>1, <1>2, <1>3, <2>2, ReportWriteAssumption DEF Outputs
  <2>4. QED
    BY <1>2, <1>3, <2>1, <2>2, <2>3 DEF FlagsFollowLoop
<1>5. CASE staged' = staged \ {o} /\ UNCHANGED <<untidy, budget>>
  <2>1. TypeOK'
    BY <1>1, <1>2, <1>3, <1>5, OutputReached DEF IInv, TypeOK
  <2>2. ImageMayBeStored' /\ UnnamedWasMade' /\ DocumentsKnown' /\ OneNameEach'
    BY <1>2, <1>5 DEF IInv, ImageMayBeStored, UnnamedWasMade, DocumentsKnown, OneNameEach
  <2>3. NamesFollowFlags'
    <3>1. \A p \in Outputs : PathNow(p)' = PathNow(p) /\ AsideNow(p)' = AsideNow(p)
      BY <1>2, <1>3 DEF PathNow, AsideNow
    <3>2. QED
      BY <1>2, <1>3, <1>5, <3>1 DEF IInv, NamesFollowFlags
  <2>4. ResultsFollowLoop' /\ AllOrNothing'
    BY <1>2, <1>5 DEF IInv, ResultsFollowLoop, AllOrNothing
  <2>5. StorageHoldsAcked'
    <3>1. \A p \in Outputs : Held(p) => Held(p)'
      BY <1>2 DEF Held
    <3>2. QED
      BY <1>2, <3>1 DEF IInv, StorageHoldsAcked
  <2>6. StorageFollowsSync'
    BY <1>2 DEF IInv, ResultsFollowLoop, StorageFollowsSync
  <2>7. QED
    BY <1>4, <2>1, <2>2, <2>3, <2>4, <2>5, <2>6 DEF IInv
<1>6. CASE Fault /\ untidy' = TRUE /\ UNCHANGED staged
  <2>1. /\ budget' \in [faults : 0 .. MaxFaults, interrupts : 0 .. MaxInterrupts,
                        losses : 0 .. MaxLosses]
        /\ budget'.losses = budget.losses
    BY <1>6, BudgetIsBounded DEF IInv
  <2>2. TypeOK'
    BY <1>1, <1>2, <1>3, <1>6, <2>1, OutputReached DEF IInv, TypeOK
  <2>3. GivesUp
    BY <1>2, <1>3, <1>6, <2>1 DEF GivesUp
  <2>4. QED
    BY <1>4, <2>2, <2>3, GivesUpKeepsIInv
<1>7. QED
  BY <1>2, <1>5, <1>6

-----------------------------------------------------------------------------
(* Syncing *)

(* A sync leaves storage fewer choices, and settles what it covers. *)
LEMMA SyncOutputsKeepsIInv ==
  ASSUME IInv, SyncOutputs
  PROVE  IInv'
<1>1. PICK o \in Outputs : o = cursor
  BY DEF SyncOutputs, At
<1>2. /\ pc \in {"sync", "syncagain", "syncback"} /\ pc' = pc /\ cursor' = cursor + 1 /\ Settle(o)
      /\ UNCHANGED <<placed, dirs, image, staged, version, before, acked, mem, canceled, result,
                     untidy, budget>>
  BY <1>1 DEF SyncOutputs, At, Advance, history
<1>3. /\ since' \in [Outputs -> SUBSET Image]
      /\ \A p \in Outputs :
           since'[p] = IF placed[p] = placed[o] THEN {image[p]} ELSE since[p]
  BY <1>2, SettleFields DEF IInv
<1>4. \A p \in Outputs : since'[p] \subseteq since[p] /\ image[p] \in since'[p]
  BY <1>3 DEF IInv, ImageMayBeStored
<1>5. TypeOK'
  BY <1>1, <1>2, <1>3, OutputReached DEF IInv, TypeOK
<1>6. ImageMayBeStored' /\ UnnamedWasMade' /\ DocumentsKnown' /\ OneNameEach'
  BY <1>2, <1>4 DEF IInv, ImageMayBeStored, UnnamedWasMade, DocumentsKnown, OneNameEach
<1>7. FlagsFollowLoop'
  <2>1. Existing' = Existing
    BY <1>2 DEF Existing
  <2>2. QED
    BY <1>2, <2>1 DEF IInv, FlagsFollowLoop
<1>8. NamesFollowFlags'
  <2>1. \A p \in Outputs : PathNow(p)' = PathNow(p) /\ AsideNow(p)' = AsideNow(p)
    BY <1>2 DEF PathNow, AsideNow
  <2>2. QED
    BY <1>2, <2>1 DEF IInv, NamesFollowFlags
<1>9. ResultsFollowLoop' /\ AllOrNothing'
  BY <1>2 DEF IInv, ResultsFollowLoop, AllOrNothing
<1>10. StorageHoldsAcked'
  <2>1. \A p \in Outputs : Held(p) => Held(p)'
    BY <1>2, <1>4 DEF Held
  <2>2. QED
    BY <1>2, <2>1 DEF IInv, StorageHoldsAcked
<1>11. StorageFollowsSync'
  <2>1. \A p \in Outputs : Settled(p) => Settled(p)'
    BY <1>2, <1>4 DEF Settled
  <2>2. ASSUME pc = "sync", NEW p \in Outputs, placed[p] = placed[o]
        PROVE  Settled(p)'
    <3>1. ~ untidy /\ mem.published = Outputs
      BY <2>2 DEF IInv, ResultsFollowLoop, FlagsFollowLoop
    <3>2. image[p].path = version
      BY <2>2, <3>1 DEF IInv, NamesFollowFlags, PathNow
    <3>3. QED
      BY <1>2, <1>3, <2>2, <3>2 DEF Settled
  <2>3. ASSUME pc = "sync", NEW p \in Outputs, NEW first \in Outputs, first < cursor + 1,
               placed[first] = placed[p]
        PROVE  Settled(p)'
    <3>1. first < cursor \/ first = o
      BY <1>1, <2>3, ReportWriteAssumption DEF Outputs
    <3>2. QED
      BY <2>1, <2>2, <2>3, <3>1 DEF IInv, StorageFollowsSync
  <2>4. result' # "ok"
    BY <1>2 DEF IInv, ResultsFollowLoop
  <2>5. QED
    BY <1>2, <2>1, <2>3, <2>4 DEF IInv, StorageFollowsSync
<1>12. QED
  BY <1>5, <1>6, <1>7, <1>8, <1>9, <1>10, <1>11 DEF IInv

-----------------------------------------------------------------------------
(* The call ends *)

(* A call that returns, or whose process dies, leaves its names. *)
Leaves ==
  /\ UNCHANGED <<placed, dirs, image, since, staged, version, before, untidy>>
  /\ budget'.losses = budget.losses
  /\ pc # "idle" /\ Leave

(* It keeps the invariant if what it reports is true. *)
LEMMA LeavesKeepsIInv ==
  ASSUME IInv, Leaves, TypeOK', AllOrNothing', StorageHoldsAcked', StorageFollowsSync',
         \A o \in Outputs : acked'[o] <= version
  PROVE  IInv'
<1> USE DEF Leaves
<1>1. pc' = "idle" /\ cursor' = 1 /\ mem' = NoFlags
  BY DEF Leave, Enter
<1>2. ImageMayBeStored' /\ UnnamedWasMade' /\ DocumentsKnown' /\ OneNameEach'
  BY <1>1 DEF IInv, ImageMayBeStored, UnnamedWasMade, DocumentsKnown, OneNameEach
<1>3. FlagsFollowLoop' /\ ResultsFollowLoop' /\ NamesFollowFlags'
  BY <1>1 DEF FlagsFollowLoop, ResultsFollowLoop, NamesFollowFlags, NoFlags
<1>4. QED
  BY <1>2, <1>3 DEF IInv

(* Success is reported of documents that are in view and on storage. *)
LEMMA ReturnSuccessKeepsIInv ==
  ASSUME IInv, ReturnSuccess
  PROVE  IInv'
<1>1. /\ pc = "syncagain" /\ cursor = N + 1 /\ pc' = "idle" /\ result' = "ok" /\ Leave
      /\ UNCHANGED <<placed, dirs, image, since, staged, version, before, untidy, budget>>
      /\ acked' = [o \in Outputs |-> version]
  BY DEF ReturnSuccess, Leave, Enter, files
<1>2. version \in Nat /\ version \in 1 .. version /\ version \in Documents
  BY ReportWriteAssumption DEF IInv, TypeOK, Documents
<1>3. TypeOK'
  BY <1>1, <1>2, LoopIsTyped DEF IInv, TypeOK
<1>4. \A o \in Outputs : Settled(o)
  BY <1>1 DEF IInv, StorageFollowsSync
<1>5. StorageFollowsSync'
  BY <1>1, <1>4 DEF StorageFollowsSync, Settled
<1>6. StorageHoldsAcked'
  <2>1. \A o \in Outputs : \A i \in since[o] : version \in Names(i)
    BY <1>4 DEF Settled, Names
  <2>2. QED
    BY <1>1, <1>2, <2>1 DEF StorageHoldsAcked, Held, Undoable
<1>7. AllOrNothing'
  <2>1. mem.backup = {} /\ mem.temporary = {} /\ ~ untidy
    BY <1>1 DEF IInv, FlagsFollowLoop, ResultsFollowLoop
  <2>2. \A o \in Outputs : image[o].path = version
    BY <1>4 DEF IInv, ImageMayBeStored, Settled
  <2>3. staged = {} /\ (budget.losses = 0 => \A o \in Outputs : image[o].aside = before[o].aside)
    BY <1>1, <2>1 DEF IInv, NamesFollowFlags, AsideNow
  <2>4. QED
    BY <1>1, <2>2, <2>3 DEF AllOrNothing
<1>8. Leaves /\ \A o \in Outputs : acked'[o] <= version
  BY <1>1, <1>2 DEF Leaves
<1>9. QED
  BY <1>3, <1>5, <1>6, <1>7, <1>8, LeavesKeepsIInv

(* An error is reported of a call undone, or of one already durable. *)
LEMMA ReturnErrorKeepsIInv ==
  ASSUME IInv, ReturnError
  PROVE  IInv'
<1>1. /\ pc = "cleanup" /\ cursor = N + 1 /\ pc' = "idle" /\ result' = "error" /\ Leave
      /\ UNCHANGED <<placed, dirs, image, since, staged, version, before, acked, untidy, budget>>
  BY DEF ReturnError, Leave, Enter, files, history
<1>2. TypeOK'
  BY <1>1, LoopIsTyped DEF IInv, TypeOK
<1>3. StorageFollowsSync'
  BY <1>1 DEF StorageFollowsSync
<1>4. StorageHoldsAcked'
  <2>1. \A o \in Outputs : Held(o) => Held(o)'
    BY <1>1 DEF Held, Undoable
  <2>2. QED
    BY <1>1, <2>1 DEF IInv, StorageHoldsAcked
<1>5. AllOrNothing'
  <2>1. SUFFICES ASSUME budget.losses = 0, ~ untidy
                 PROVE  \/ \A o \in Outputs : image[o].path = version
                        \/ image = before /\ staged = {}
    BY <1>1 DEF AllOrNothing
  <2>2. /\ mem.temporary \subseteq cursor .. N
        /\ mem.published = Outputs \/ (mem.published = {} /\ mem.backup = {})
    BY <1>1 DEF IInv, FlagsFollowLoop
  <2>3. CASE mem.published = Outputs
    BY <1>1, <2>1, <2>3 DEF IInv, NamesFollowFlags, PathNow
  <2>4. CASE mem.published = {} /\ mem.backup = {}
    <3>1. \A o \in Outputs : image[o].path = before[o].path /\ image[o].aside = before[o].aside
      BY <1>1, <2>1, <2>4 DEF IInv, NamesFollowFlags, PathNow, AsideNow
    <3>2. image \in [Outputs -> Image] /\ before \in [Outputs -> Image]
      BY DEF IInv, TypeOK
    <3>3. \A o \in Outputs : image[o] = before[o]
      BY <3>1, <3>2 DEF Image
    <3>4. image = before
      BY <3>2, <3>3
    <3>5. mem.temporary = {}
      BY <1>1, <2>2, ReportWriteAssumption
    <3>6. QED
      BY <1>1, <2>1, <3>4, <3>5 DEF IInv, NamesFollowFlags
  <2>5. QED
    BY <2>2, <2>3, <2>4
<1>6. Leaves /\ \A o \in Outputs : acked'[o] <= version
  BY <1>1 DEF Leaves, IInv, DocumentsKnown
<1>7. QED
  BY <1>2, <1>3, <1>4, <1>5, <1>6, LeavesKeepsIInv

(* A process that dies reports nothing. *)
LEMMA CrashKeepsIInv ==
  ASSUME IInv, Crash
  PROVE  IInv'
<1>1. /\ pc # "idle" /\ pc' = "idle" /\ result' = result /\ Leave
      /\ UNCHANGED <<placed, dirs, image, since, staged, version, before, acked, untidy>>
  BY DEF Crash, Leave, Enter, files, history
<1>2. /\ budget' \in [faults : 0 .. MaxFaults, interrupts : 0 .. MaxInterrupts,
                      losses : 0 .. MaxLosses]
      /\ budget'.losses = budget.losses
  BY BudgetIsBounded DEF IInv, Crash
<1>3. result = "none"
  BY <1>1 DEF IInv, ResultsFollowLoop
<1>4. TypeOK'
  BY <1>1, <1>2, LoopIsTyped DEF IInv, TypeOK
<1>5. StorageFollowsSync' /\ AllOrNothing'
  BY <1>1, <1>3 DEF StorageFollowsSync, AllOrNothing
<1>6. StorageHoldsAcked'
  <2>1. \A o \in Outputs : Held(o) => Held(o)'
    BY <1>1 DEF Held, Undoable
  <2>2. QED
    BY <1>1, <2>1 DEF IInv, StorageHoldsAcked
<1>7. Leaves /\ \A o \in Outputs : acked'[o] <= version
  BY <1>1, <1>2 DEF Leaves, IInv, DocumentsKnown
<1>8. QED
  BY <1>4, <1>5, <1>6, <1>7, LeavesKeepsIInv

-----------------------------------------------------------------------------
(* A power loss, and the next call *)

(* What storage comes back with is known, and still has what it held: only *)
(* directories that Write made are lost.                                   *)
LEMMA PowerLossFields ==
  ASSUME IInv, PowerLoss
  PROVE  /\ dirs' \in [present : SUBSET Directories, made : SUBSET Directories,
                       unnamed : SUBSET Directories]
         /\ UnnamedWasMade' /\ dirs'.made = dirs.made
         /\ image' \in [Outputs -> Image]
         /\ \A o \in Outputs :
              /\ Known(image'[o], version)
              /\ placed[o] \notin dirs.made => image'[o] \in Surviving(since[o])
<1>1. PICK lost \in SUBSET dirs.unnamed,
           kept \in [Outputs -> UNION {Surviving(since[o]) : o \in Outputs}] :
        /\ dirs' = [dirs EXCEPT !.present = @ \ lost, !.unnamed = {}]
        /\ \A o \in Outputs : kept[o] \in Surviving(since[o])
        /\ image' = [o \in Outputs |-> IF placed[o] \in lost
                                       THEN [path |-> 0, aside |-> {}] ELSE kept[o]]
  BY DEF PowerLoss
<1>2. /\ dirs' \in [present : SUBSET Directories, made : SUBSET Directories,
                    unnamed : SUBSET Directories]
      /\ UnnamedWasMade' /\ dirs'.made = dirs.made /\ lost \subseteq dirs.made
  BY <1>1 DEF IInv, TypeOK, UnnamedWasMade
<1>3. \A o \in Outputs : kept[o] \in Image /\ Known(kept[o], version)
  <2>1. TAKE o \in Outputs
  <2>2. kept[o] \in Surviving(since[o]) /\ \A i \in since[o] : Known(i, version)
    BY <1>1 DEF IInv, DocumentsKnown
  <2>3. kept[o] \in Image
    BY <2>2 DEF Surviving
  <2>4. kept[o].path \in 0 .. version
    BY <2>2 DEF Surviving, Known
  <2>5. \A d \in kept[o].aside : d \in 1 .. version
    <3>1. TAKE d \in kept[o].aside
    <3>2. d \in Documents
      BY <2>3 DEF Image
    <3>3. PICK j \in since[o] : d \in j.aside
      BY <2>2, <3>2 DEF Surviving
    <3>4. QED
      BY <2>2, <3>3 DEF Known
  <2>6. QED
    BY <2>3, <2>4, <2>5 DEF Known
<1>4. [path |-> 0, aside |-> {}] \in Image /\ Known([path |-> 0, aside |-> {}], version)
  BY ReportWriteAssumption DEF Image, Documents, Known, IInv, TypeOK
<1>5. \A o \in Outputs : image'[o] = IF placed[o] \in lost THEN [path |-> 0, aside |-> {}] ELSE kept[o]
  BY <1>1
<1>6. image' \in [Outputs -> Image]
  BY <1>1, <1>3, <1>4
<1>7. QED
  BY <1>1, <1>2, <1>3, <1>4, <1>5, <1>6

(* A power loss keeps the invariant. *)
LEMMA PowerLossKeepsIInv ==
  ASSUME IInv, PowerLoss
  PROVE  IInv'
<1>1. /\ pc' = "idle" /\ cursor' = 1 /\ mem' = NoFlags /\ Leave
      /\ UNCHANGED <<placed, staged, version, before, acked, result, untidy>>
      /\ since' = [o \in Outputs |-> {image'[o]}]
  BY DEF PowerLoss, Leave, Enter, history
<1>2. /\ budget' \in [faults : 0 .. MaxFaults, interrupts : 0 .. MaxInterrupts,
                      losses : 0 .. MaxLosses]
      /\ budget'.losses # 0
  BY ReportWriteAssumption DEF PowerLoss, IInv, TypeOK
<1>3. \A o \in Outputs : since'[o] = {image'[o]}
  BY <1>1
<1>4. since' \in [Outputs -> SUBSET Image]
  BY <1>1, PowerLossFields
<1>5. TypeOK'
  BY <1>1, <1>2, <1>4, PowerLossFields, LoopIsTyped DEF IInv, TypeOK
<1>6. ImageMayBeStored' /\ UnnamedWasMade' /\ DocumentsKnown'
  BY <1>1, <1>3, PowerLossFields DEF IInv, ImageMayBeStored, DocumentsKnown
<1>7. FlagsFollowLoop' /\ ResultsFollowLoop' /\ NamesFollowFlags'
  BY <1>1 DEF FlagsFollowLoop, ResultsFollowLoop, NamesFollowFlags, NoFlags
<1>8. OneNameEach' /\ AllOrNothing'
  BY <1>2 DEF OneNameEach, AllOrNothing
<1>9. StorageHoldsAcked'
  <2>1. SUFFICES ASSUME NEW o \in Outputs, placed[o] \notin dirs.made, acked[o] > 0
                 PROVE  Held(o)'
    BY <1>1, PowerLossFields DEF StorageHoldsAcked
  <2>2. PICK d \in 1 .. version : d >= acked[o] /\ \A i \in since[o] : d \in Names(i)
    BY <2>1 DEF IInv, StorageHoldsAcked, Held
  <2>3. d \in Documents
    BY ReportWriteAssumption DEF Documents, IInv, TypeOK
  <2>4. d \in Names(image'[o])
    BY <2>1, <2>2, <2>3, PowerLossFields DEF Surviving
  <2>5. QED
    BY <1>1, <1>3, <2>2, <2>4 DEF Held, Undoable
<1>10. StorageFollowsSync'
  <2>1. ASSUME result = "ok", NEW o \in Outputs, placed[o] \notin dirs.made
        PROVE  image'[o].path = version
    BY <2>1, PowerLossFields DEF IInv, StorageFollowsSync, Settled, Surviving
  <2>2. QED
    BY <1>1, <1>3, <2>1, PowerLossFields DEF IInv, StorageFollowsSync, Settled
<1>11. QED
  BY <1>5, <1>6, <1>7, <1>8, <1>9, <1>10 DEF IInv

(* The next call takes what it finds for what was there before. *)
LEMMA WriteKeepsIInv ==
  ASSUME IInv, Write
  PROVE  IInv'
<1>1. /\ pc = "idle" /\ pc' = "stage" /\ cursor' = 1 /\ mem' = mem /\ mem = NoFlags
      /\ version' = version + 1 /\ before' = image /\ staged' = {} /\ result' = "none"
      /\ untidy' = FALSE /\ UNCHANGED <<placed, dirs, image, since, canceled, acked, budget>>
  BY DEF Write, Enter, IInv, FlagsFollowLoop
<1>2. version + 1 \in 1 .. MaxWrites /\ version \in Nat /\ 1 \in 1 .. N + 1
  BY ReportWriteAssumption DEF Write, IInv, TypeOK
<1>3. TypeOK'
  BY <1>1, <1>2 DEF IInv, TypeOK, Loops
<1>4. \A o \in Outputs : image[o] \in since[o] /\ acked[o] <= version /\ acked[o] \in Nat
                         /\ \A i \in since[o] : Known(i, version)
  BY ReportWriteAssumption DEF IInv, ImageMayBeStored, DocumentsKnown, TypeOK, Documents
<1>5. ImageMayBeStored' /\ UnnamedWasMade'
  BY <1>1 DEF IInv, ImageMayBeStored, UnnamedWasMade
<1>6. DocumentsKnown'
  <2>1. \A o \in Outputs : acked'[o] <= version' /\ \A i \in since'[o] : Known(i, version')
    BY <1>1, <1>2, <1>4 DEF Known
  <2>2. \A o \in Outputs : Known(before'[o], version' - 1) /\ image'[o].aside \subseteq 1 .. version' - 1
    BY <1>1, <1>2, <1>4 DEF Known
  <2>3. QED
    BY <1>1, <2>1, <2>2 DEF DocumentsKnown
<1>7. FlagsFollowLoop'
  <2>1. \A o \in Outputs : ~ (o < 1)
    BY ReportWriteAssumption DEF Outputs
  <2>2. {o \in Existing' : o < 1} = {}
    BY <2>1 DEF Existing
  <2>3. QED
    BY <1>1, <2>2 DEF FlagsFollowLoop, NoFlags
<1>8. ResultsFollowLoop' /\ AllOrNothing'
  BY <1>1 DEF ResultsFollowLoop, AllOrNothing
<1>9. NamesFollowFlags'
  BY <1>1 DEF NamesFollowFlags, PathNow, AsideNow, NoFlags
<1>10. OneNameEach'
  BY <1>1 DEF IInv, OneNameEach
<1>11. StorageHoldsAcked'
  <2>1. SUFFICES ASSUME NEW o \in Outputs, placed[o] \notin dirs.made, acked[o] > 0
                 PROVE  Held(o)'
    BY <1>1 DEF StorageHoldsAcked
  <2>2. PICK d \in 1 .. version : d >= acked[o] /\ \A i \in since[o] : d \in Names(i)
    BY <2>1 DEF IInv, StorageHoldsAcked, Held
  <2>3. d \in 1 .. version + 1 /\ d # version + 1
    BY <1>2
  <2>4. QED
    BY <1>1, <2>2, <2>3 DEF Held
<1>12. StorageFollowsSync'
  BY <1>1 DEF StorageFollowsSync
<1>13. QED
  BY <1>3, <1>5, <1>6, <1>7, <1>8, <1>9, <1>10, <1>11, <1>12 DEF IInv

-----------------------------------------------------------------------------
(* The theorems *)

(* Every step keeps the invariant. *)
LEMMA StepKeepsIInv == IInv /\ [Next]_vars => IInv'
<1> SUFFICES ASSUME IInv, [Next]_vars PROVE IInv'
  OBVIOUS
<1>1. CASE SkipOutput \/ EndLoop \/ FailBackUp \/ FailPublish \/ FailSync \/ FailDiscard \/ Cancel
  BY <1>1, TurningKeepsIInv
<1>2. CASE Write
  BY <1>2, WriteKeepsIInv
<1>3. CASE StageOutput
  BY <1>3, StageKeepsIInv
<1>4. CASE FailStage
  BY <1>4, FailStageKeepsIInv
<1>5. CASE BackUp
  BY <1>5, BackUpKeepsIInv
<1>6. CASE Publish
  BY <1>6, PublishKeepsIInv
<1>7. CASE SyncOutputs
  BY <1>7, SyncOutputsKeepsIInv
<1>8. CASE DiscardBackup
  BY <1>8, DiscardKeepsIInv
<1>9. CASE Unpublish
  BY <1>9, UnpublishKeepsIInv
<1>10. CASE Restore
  BY <1>10, RestoreKeepsIInv
<1>11. CASE RemoveTemporary
  BY <1>11, RemoveTemporaryKeepsIInv
<1>12. CASE ReturnSuccess
  BY <1>12, ReturnSuccessKeepsIInv
<1>13. CASE ReturnError
  BY <1>13, ReturnErrorKeepsIInv
<1>14. CASE Crash
  BY <1>14, CrashKeepsIInv
<1>15. CASE PowerLoss
  BY <1>15, PowerLossKeepsIInv
<1>16. CASE UNCHANGED vars
  <2>1. TypeOK' /\ ImageMayBeStored' /\ UnnamedWasMade' /\ DocumentsKnown'
    BY <1>16 DEF vars, files, history, IInv, TypeOK, ImageMayBeStored, UnnamedWasMade, DocumentsKnown
  <2>2. FlagsFollowLoop' /\ ResultsFollowLoop' /\ OneNameEach' /\ AllOrNothing'
    BY <1>16
    DEF vars, files, history, IInv, FlagsFollowLoop, Existing, ResultsFollowLoop, OneNameEach, AllOrNothing
  <2>3. NamesFollowFlags'
    BY <1>16 DEF vars, files, history, IInv, NamesFollowFlags, PathNow, AsideNow
  <2>4. StorageHoldsAcked' /\ StorageFollowsSync'
    BY <1>16 DEF vars, files, history, IInv, StorageHoldsAcked, Held, StorageFollowsSync, Settled
  <2>5. QED
    BY <2>1, <2>2, <2>3, <2>4 DEF IInv
<1>17. QED
  BY <1>1, <1>2, <1>3, <1>4, <1>5, <1>6, <1>7, <1>8, <1>9, <1>10, <1>11, <1>12, <1>13, <1>14,
     <1>15, <1>16
  DEF Next, Publication, Rest

(* The invariant holds of every behaviour. *)
THEOREM Invariance == Spec => []IInv
<1>1. QED
  BY InitIInv, StepKeepsIInv, PTL DEF Spec

(* Every variable keeps its type: no loop runs past the outputs, and no    *)
(* name ever holds a document that no Write made.                          *)
THEOREM TypeCorrect == Spec => []TypeOK
<1>1. IInv => TypeOK
  BY DEF IInv
<1>2. QED
  BY <1>1, Invariance, PTL

(* When Write returns, all its outputs are new or all are as they were.    *)
THEOREM WriteIsAllOrNothing == Spec => []AllOrNothing
<1>1. IInv => AllOrNothing
  BY DEF IInv
<1>2. QED
  BY <1>1, Invariance, PTL

(* A document that was acknowledged, or a newer one, is always found at    *)
(* its path or under a backup name.                                        *)
THEOREM AcknowledgedIsNeverLost == Spec => []AcknowledgedSurvives
<1>1. IInv => AcknowledgedSurvives
  <2>1. SUFFICES ASSUME IInv, NEW o \in Outputs, placed[o] \notin dirs.made
                 PROVE  \E document \in Names(image[o]) : document >= acked[o]
    BY DEF AcknowledgedSurvives
  <2>2. acked[o] \in Nat /\ image[o].path \in Nat
    BY <2>1, ReportWriteAssumption DEF IInv, TypeOK, Documents, Image
  <2>3. CASE acked[o] = 0
    BY <2>2, <2>3 DEF Names
  <2>4. CASE acked[o] > 0
    <3>1. Held(o)
      BY <2>1, <2>4 DEF IInv, StorageHoldsAcked
    <3>2. QED
      BY <2>1, <3>1 DEF Held, IInv, ImageMayBeStored
  <2>5. QED
    BY <2>2, <2>3, <2>4
<1>2. QED
  BY <1>1, Invariance, PTL

(* The documents of a successful Write stay at their paths until the next. *)
THEOREM PublishedIsKept == Spec => []PublishedStays
<1>1. IInv => PublishedStays
  BY DEF IInv, PublishedStays, StorageFollowsSync, Settled, ImageMayBeStored
<1>2. QED
  BY <1>1, Invariance, PTL
=============================================================================
