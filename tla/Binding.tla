-------------------------------- MODULE Binding --------------------------------
(***************************************************************************)
(* How pkg/eval prepares a run and binds its inputs: prepareRequest reads  *)
(* suite, candidate bundle and policy one file after the other, bindInputs *)
(* copies them one after the other into the run directory, sessions are    *)
(* canceled, die and are resumed, and all the while the author of the      *)
(* candidate may edit the files.  The run directory is the one Custody     *)
(* describes.                                                              *)
(*                                                                         *)
(* A file is its content and a digest is what it identifies.  The author   *)
(* replaces one file at a time and never brings an old content back: the   *)
(* code compares digests, and cannot tell a file that was changed and      *)
(* changed back.                                                           *)
(***************************************************************************)
EXTENDS Candidate, SequencesExt, FiniteSets

CONSTANTS
  Bundles,           \* the files as the author may first leave them: path -> content
  Editions(_, _),    \* what a path with some content may be replaced by
  Plans,             \* arm names and repeats a caller may ask for
  NoConfig,          \* the run has not been created
  NoDocument,        \* nothing has been read yet
  NoFile,            \* what a path without a file holds
  MaxEdits,          \* bound: files the author replaces
  MaxInterrupts,     \* bound: cancellations and deaths of a session
  MaxFaults          \* bound: system calls that fail

ASSUME BindingAssumption ==
  /\ \A bundle \in Bundles :
       {"suite", "policy", "manifest", "parent", "candidate"} \subseteq DOMAIN bundle
  /\ NoFile \notin Contents /\ NoFile \notin Snapshots
  /\ {MaxEdits, MaxInterrupts, MaxFaults} \subseteq Nat

VARIABLES
  files,     \* the source files: path -> content
  history,   \* every state the source files have been in
  session,   \* the memory of the process: the step it has reached, what it
             \* was asked for, what it has read, the assets left to read and
             \* the next input to bind
  state,     \* status.json of the run, "none" before it exists
  config,    \* config.json of the run
  bound,     \* inputs/manifest.json: role -> content
  kept,      \* the roles whose CopyInput returned success
  canceled,  \* the context of the session is done
  ran,       \* the experiments whose arms have been run in this directory
  budget

vars == <<files, history, session, state, config, bound, kept, canceled, ran, budget>>

Documents == <<"suite", "policy", "manifest", "parent", "candidate">>
Sides == <<"parent", "candidate">>

Store == INSTANCE Custody WITH
  Roles <- ({"file"} \X Range(Documents)) \cup (Range(Sides) \X Names),
  inputs <- DOMAIN bound

-----------------------------------------------------------------------------
(* Roles and what is expected of them *)

(* snapshotAssets: locked before mutable, in a fixed order. *)
AssetNames(doc) == SetToSeq(NamesIn(doc.locked)) \o SetToSeq(NamesIn(doc.mutable))

(* bindInputs: the five documents, then the assets of either snapshot. *)
BindingOrder(read) ==
  [i \in 1 .. 5 |-> <<"file", Documents[i]>>]
    \o [i \in DOMAIN AssetNames(read.parent) |->
          <<"parent", AssetNames(read.parent)[i]>>]
    \o [i \in DOMAIN AssetNames(read.candidate) |->
          <<"candidate", AssetNames(read.candidate)[i]>>]

AssetRef(read, role) ==
  RefOf(read[role[1]].locked \o read[role[1]].mutable, role[2])

(* Where CopyInput finds the input of a role. *)
Source(read, role) ==
  IF role[1] = "file" THEN role[2] ELSE AssetRef(read, role).path

(* expectedInputDigests *)
Expected(read) ==
  [role \in Range(BindingOrder(read)) |->
     IF role[1] = "file" THEN read[role[2]] ELSE AssetRef(read, role).sha256]

(* RunConfig: the identities of what was read, the plan, and the digest of *)
(* every input.                                                            *)
ConfigOf(read, plan) ==
  [suite |-> read.suite.means,
   candidate |-> CandidateDigest(read.manifest, read.parent, read.candidate),
   plan |-> plan,
   inputs |-> Expected(read)]

-----------------------------------------------------------------------------
Nothing == [path \in Range(Documents) |-> NoDocument]
Idle == [step |-> "idle", request |-> NoDocument, plan |-> NoDocument,
         read |-> Nothing, assets |-> <<>>, next |-> 1]

Init ==
  /\ files \in Bundles
  /\ history = {files}
  /\ session = Idle
  /\ state = "none"
  /\ config = NoConfig
  /\ bound = <<>>
  /\ kept = {}
  /\ canceled = FALSE
  /\ ran = {}
  /\ budget = [edits |-> 0, interrupts |-> 0, faults |-> 0]

world == <<files, history>>
directory == <<state, config, bound, kept>>

Fault == /\ budget.faults < MaxFaults
         /\ budget' = [budget EXCEPT !.faults = @ + 1]

Goto(step) == session' = [session EXCEPT !.step = step]

(* The session returns to its caller, or is gone. *)
Return == session' = Idle /\ canceled' = FALSE

-----------------------------------------------------------------------------
(* prepareRequest.  An error of it, and a context that is done, end the    *)
(* session and have changed nothing.                                       *)

GiveUp == Return /\ UNCHANGED <<world, directory, ran, budget>>

Prepare(step, read, assets) ==
  /\ session' = [session EXCEPT !.step = step, !.read = read, !.assets = assets]
  /\ UNCHANGED <<world, directory, canceled, ran, budget>>

Reading(path) == [session.read EXCEPT ![path] = files[path]]

Holds(path, content) == path \in DOMAIN files /\ files[path] = content

(* The caller holds a suite and a candidate it loaded at some moment. *)
Begin(moment, plan) ==
  /\ session = Idle /\ moment \in history
  /\ moment.suite # NoFile /\ moment.manifest # NoFile
  /\ Loads(moment.manifest, moment.parent, moment.candidate, moment)
  /\ session' = [Idle EXCEPT
       !.step = "suite", !.plan = plan,
       !.request = [suite |-> moment.suite.means,
                    candidate |-> CandidateDigest(moment.manifest, moment.parent,
                                                  moment.candidate)]]
  /\ UNCHANGED <<world, directory, canceled, ran, budget>>

ReadSuite ==
  /\ session.step = "suite"
  /\ IF ~ canceled /\ files.suite # NoFile /\ files.suite.means = session.request.suite
       THEN Prepare("manifest", Reading("suite"), <<>>)
       ELSE GiveUp

ReadManifest ==
  /\ session.step = "manifest"
  /\ IF canceled \/ files.manifest = NoFile
       THEN GiveUp
       ELSE Prepare("parent", Reading("manifest"), <<>>)

AssetsOf == [parent |-> "parent assets", candidate |-> "candidate assets"]

(* The document of one side; loadAssets then reads what it pins. *)
ReadSnapshot(side) ==
  /\ session.step = side
  /\ IF files[side] \in Snapshots
       THEN Prepare(AssetsOf[side], Reading(side),
                    files[side].locked \o files[side].mutable)
       ELSE GiveUp

ReadAsset(side) ==
  /\ session.step = AssetsOf[side] /\ session.assets # <<>>
  /\ IF ~ canceled /\ Holds(Head(session.assets).path, Head(session.assets).sha256)
       THEN Prepare(session.step, session.read, Tail(session.assets))
       ELSE GiveUp

CheckParent ==
  /\ session.step = "parent assets" /\ session.assets = <<>>
  /\ IF WellFormed(session.read.parent)
       THEN Prepare("candidate", session.read, <<>>)
       ELSE GiveUp

CheckCandidate ==
  /\ session.step = "candidate assets" /\ session.assets = <<>>
  /\ LET read == session.read
     IN  IF /\ WellFormed(read.candidate)
            /\ ValidMutation(read.manifest, read.parent, read.candidate)
            /\ CandidateDigest(read.manifest, read.parent, read.candidate)
                 = session.request.candidate
           THEN Prepare("policy", read, <<>>)
           ELSE GiveUp

ReadPolicy ==
  /\ session.step = "policy"
  /\ IF canceled \/ files.policy = NoFile
       THEN GiveUp
       ELSE Prepare("open", Reading("policy"), <<>>)

-----------------------------------------------------------------------------
(* Run and Resume *)

CreateRun ==
  /\ session.step = "open" /\ state = "none" /\ ~ canceled
  /\ bound' = bound
  /\ Store!Create
  /\ config' = ConfigOf(session.read, session.plan)
  /\ Goto("bind")
  /\ UNCHANGED <<world, canceled, ran, budget>>

(* Mutant: suite and candidate are taken for the whole configuration. *)
SameConfigByIdentity(wanted) ==
  config.suite = wanted.suite /\ config.candidate = wanted.candidate

SameConfig(wanted) == config = wanted

Resumable == state = "active" /\ SameConfig(ConfigOf(session.read, session.plan))

ResumeRun ==
  /\ session.step = "open" /\ Resumable /\ ~ canceled
  /\ Goto("bind")
  /\ UNCHANGED <<world, directory, canceled, ran, budget>>

(* The context is done; the run is terminal or has another configuration;  *)
(* or a process that died has left something in inputs/ (see RunStore).    *)
RefuseOpen ==
  /\ session.step = "open"
  /\ \/ canceled
     \/ state # "none" /\ (~ Resumable \/ budget.interrupts > 0)
  /\ GiveUp

-----------------------------------------------------------------------------
(* bindInputs *)

Order == BindingOrder(session.read)
Role == Order[session.next]

(* Mutant: what the run already holds is believed. *)
WantedAsBound == bound @@ Expected(session.read)

Wanted == Expected(session.read)

SourceOfRole == files[Source(session.read, Role)]

AtInput == session.step = "bind" /\ session.next \in DOMAIN Order
Uncopied == AtInput /\ Role \notin DOMAIN bound
Copied == session.step = "copied"

NextInput == session' = [session EXCEPT !.step = "bind", !.next = @ + 1]

(* Mutant: an input bound by an earlier session is copied again. *)
ReuseInputNever ==
  /\ AtInput /\ Role \in DOMAIN bound
  /\ Goto("fail")
  /\ UNCHANGED <<world, directory, canceled, ran, budget>>

(* ensureBoundInput finds the role bound by an earlier session. *)
ReuseInput ==
  /\ AtInput /\ Role \in DOMAIN bound
  /\ IF bound[Role] = Wanted[Role] THEN NextInput ELSE Goto("fail")
  /\ UNCHANGED <<world, directory, canceled, ran, budget>>

BoundAnd(role, content) ==
  [r \in DOMAIN bound \cup {role} |-> IF r = role THEN content ELSE bound[r]]

(* CopyInput reads the source and commits what it holds now. *)
CommitInput ==
  /\ Uncopied /\ ~ canceled
  /\ SourceOfRole # NoFile
  /\ bound' = BoundAnd(Role, SourceOfRole)
  /\ Store!Enter(Role)
  /\ Goto("copied")
  /\ UNCHANGED <<world, config, canceled, ran, budget>>

(* CopyInput returns success, and its caller compares what was copied with *)
(* what was read ("changed during binding").                               *)
FinishCopy ==
  /\ Copied
  /\ bound' = bound
  /\ Store!Keep(Role)
  /\ IF bound[Role] = Wanted[Role] THEN NextInput ELSE Goto("fail")
  /\ UNCHANGED <<world, config, canceled, ran, budget>>

(* bindingFailure leaves the run active for a context that is done. *)
CancelCopy ==
  /\ Uncopied \/ Copied
  /\ canceled
  /\ Return
  /\ UNCHANGED <<world, directory, ran, budget>>

(* The source is gone. *)
MissSource ==
  /\ Uncopied /\ ~ canceled
  /\ SourceOfRole = NoFile
  /\ Goto("fail")
  /\ UNCHANGED <<world, directory, canceled, ran, budget>>

(* A failing call of CopyInput, before or after the commit; in the latter  *)
(* case the input is withdrawn, or not when the rollback fails as well or  *)
(* only the last sync has failed.                                          *)
FailCopy ==
  /\ Fault
  /\ Goto("fail")
  /\ \/ /\ Uncopied
        /\ UNCHANGED directory
     \/ /\ Copied
        /\ UNCHANGED directory
     \/ /\ Copied
        /\ bound' = Restrict(bound, DOMAIN bound \ {Role})
        /\ Store!Withdraw(Role)
        /\ UNCHANGED config
  /\ UNCHANGED <<world, canceled, ran>>

(* verifyBoundInputs and viewsFromInputs *)
VerifyInputs ==
  /\ session.step = "bind" /\ session.next = Len(Order) + 1
  /\ Goto(IF bound = Wanted THEN "execute" ELSE "fail")
  /\ UNCHANGED <<world, directory, canceled, ran, budget>>

(* failRun, whose context ignores the cancellation; its own failure leaves *)
(* the run active.                                                         *)
FailRun ==
  /\ session.step = "fail"
  /\ \/ /\ bound' = bound
        /\ Store!Finish("failed")
        /\ UNCHANGED <<config, budget>>
     \/ Fault /\ UNCHANGED directory
  /\ Return
  /\ UNCHANGED <<world, ran>>

(* execute, which EvalRunner models: arms run, and the run ends complete,  *)
(* failed, or interrupted.                                                 *)
Execute(outcome) ==
  /\ session.step = "execute"
  /\ ran' = ran \cup {[inputs |-> bound, plan |-> session.plan]}
  /\ bound' = bound
  /\ IF outcome = "active" THEN UNCHANGED <<state, kept>> ELSE Store!Finish(outcome)
  /\ Return
  /\ UNCHANGED <<world, config, budget>>

-----------------------------------------------------------------------------
(* The environment *)

(* The author replaces, adds or removes one file. *)
Edit(path, content) ==
  /\ budget.edits < MaxEdits
  /\ budget' = [budget EXCEPT !.edits = @ + 1]
  /\ \A moment \in history : moment[path] # content
  /\ files' = [files EXCEPT ![path] = content]
  /\ history' = history \cup {files'}
  /\ UNCHANGED <<session, directory, canceled, ran>>

Interrupt == /\ budget.interrupts < MaxInterrupts
             /\ budget' = [budget EXCEPT !.interrupts = @ + 1]

Cancel ==
  /\ session # Idle /\ ~ canceled
  /\ Interrupt
  /\ canceled' = TRUE
  /\ UNCHANGED <<world, session, directory, ran>>

Crash ==
  /\ session # Idle
  /\ Interrupt
  /\ Return
  /\ UNCHANGED <<world, directory, ran>>

-----------------------------------------------------------------------------
Next ==
  \/ \E moment \in history, plan \in Plans : Begin(moment, plan)
  \/ ReadSuite \/ ReadManifest \/ ReadPolicy \/ CheckParent \/ CheckCandidate
  \/ \E side \in Range(Sides) : ReadSnapshot(side) \/ ReadAsset(side)
  \/ CreateRun \/ ResumeRun \/ RefuseOpen
  \/ ReuseInput \/ CommitInput \/ FinishCopy \/ CancelCopy \/ MissSource
  \/ FailCopy \/ VerifyInputs \/ FailRun
  \/ \E outcome \in {"active", "complete", "failed"} : Execute(outcome)
  \/ \E path \in DOMAIN files : \E content \in Editions(path, files[path]) :
       Edit(path, content)
  \/ Cancel \/ Crash

Spec == Init /\ [][Next]_vars

-----------------------------------------------------------------------------
(* Safety *)

(* The documents among a set of inputs. *)
DocumentsOf(inputs) == [path \in Range(Documents) |-> inputs[<<"file", path>>]]

(* The inputs as the files held them at some moment. *)
HeldAt(moment, inputs) ==
  \A role \in DOMAIN inputs :
    moment[Source(DocumentsOf(inputs), role)] = inputs[role]

(* Suite, policy and bundle are read one file after the other and copied   *)
(* one file after the other, over several sessions even; yet what the arms *)
(* run against is what the files were, all at once, at some moment, and a  *)
(* candidate that loads (bind.go compares every copy with what it read).   *)
BoundIsOneMoment ==
  \A experiment \in ran : \E moment \in history :
    /\ HeldAt(moment, experiment.inputs)
    /\ Loads(moment.manifest, moment.parent, moment.candidate, moment)

(* What the arms of one side are given, asset by asset. *)
ViewOf(inputs, side) ==
  LET doc == inputs[<<"file", side>>]
      refs == doc.locked \o doc.mutable
  IN  [name \in NamesIn(refs) |->
         [bytes |-> inputs[<<side, name>>], media |-> RefOf(refs, name).media,
          locked |-> name \in NamesIn(doc.locked)]]

(* The two arms differ in the bytes of one asset, the mutable one that the *)
(* manifest declares: in no other bytes, and in neither the system, the    *)
(* dimensions, the names and media types of the assets nor their locks     *)
(* (package candidate: "exactly-one-mutation candidate bundles").  The     *)
(* paths of the declared asset may differ: the arms are given copies.      *)
ArmsDifferInOneAsset ==
  \A experiment \in ran :
    LET inputs == experiment.inputs
        before == inputs[<<"file", "parent">>]
        after == inputs[<<"file", "candidate">>]
        parent == ViewOf(inputs, "parent")
        child == ViewOf(inputs, "candidate")
        asset == inputs[<<"file", "manifest">>].asset
    IN  /\ before.system = after.system /\ before.dimensions = after.dimensions
        /\ DOMAIN parent = DOMAIN child
        /\ {name \in DOMAIN parent : parent[name] # child[name]} = {asset}
        /\ parent[asset].media = child[asset].media
        /\ ~ parent[asset].locked /\ ~ child[asset].locked

(* However often a run is interrupted and resumed, with whatever request   *)
(* and whatever has become of the files, its arms only ever run one        *)
(* experiment.                                                             *)
OneExperiment == Cardinality(ran) <= 1

(* Binding is repeatable: no cancellation and no death of a session, at    *)
(* any step, makes it fail a run; only a source that was edited after it   *)
(* had been read does, or a failing system call.                           *)
FailsOnlyForEdits ==
  state = "failed" /\ ran = {} /\ budget.faults = 0 =>
    \E role \in DOMAIN config.inputs :
      LET path == Source(DocumentsOf(config.inputs), role)
      IN  /\ \E moment \in history : moment[path] = config.inputs[role]
          /\ files[path] # config.inputs[role]
=============================================================================
