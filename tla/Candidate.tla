------------------------------- MODULE Candidate -------------------------------
(***************************************************************************)
(* pkg/candidate: what makes two snapshot documents and a manifest a       *)
(* candidate, as operators on values already decoded from YAML.            *)
(*                                                                         *)
(* A digest is the value it identifies.  An asset reference is a record    *)
(* [name, path, media, sha256], whose sha256 is the content of the file    *)
(* it pins; a snapshot document is [system, dimensions, locked, mutable,   *)
(* id] with two sequences of references.                                   *)
(***************************************************************************)
EXTENDS Naturals, Sequences, Functions

CONSTANTS
  Names,      \* the names assets may have
  Contents    \* the bytes their files may hold

(* AssetRef and Snapshot as readStrictYAML decodes them. *)
AssetRefs == [name : Names, path : STRING, media : STRING, sha256 : Contents]

SnapshotIDs == [system : STRING, dimensions : STRING,
                locked : SUBSET AssetRefs, mutable : SUBSET AssetRefs]

Snapshots == [system : STRING, dimensions : STRING, id : SnapshotIDs,
              locked : Seq(AssetRefs), mutable : Seq(AssetRefs)]

NamesIn(refs) == {ref.name : ref \in Range(refs)}

(* indexAssets *)
RefOf(refs, name) == CHOOSE ref \in Range(refs) : ref.name = name

(* DigestSnapshot: the order of the assets does not count, their paths do. *)
SnapshotID(doc) ==
  [system |-> doc.system, dimensions |-> doc.dimensions,
   locked |-> Range(doc.locked), mutable |-> Range(doc.mutable)]

(* loadSnapshot, once every asset has its declared bytes: no name twice,   *)
(* not in two classes either; something to mutate; the id is the content's.*)
WellFormed(doc) ==
  /\ LET refs == doc.locked \o doc.mutable
     IN  \A i, j \in DOMAIN refs : refs[i].name = refs[j].name => i = j
  /\ doc.mutable # <<>>
  /\ doc.id = SnapshotID(doc)

Changed(parent, child) ==
  {name \in NamesIn(parent.mutable) :
     RefOf(parent.mutable, name).sha256 # RefOf(child.mutable, name).sha256}

(* Mutant: the declared asset changes; others may change with it. *)
ValidMutationOfDeclared(manifest, parent, child) ==
  /\ parent.system = child.system
  /\ parent.dimensions = child.dimensions
  /\ Range(parent.locked) = Range(child.locked)
  /\ NamesIn(parent.mutable) = NamesIn(child.mutable)
  /\ manifest.asset \in Changed(parent, child)

(* validateMutation: the same system, dimensions and locked assets, the    *)
(* same mutable names; exactly one mutable asset with other bytes, the one *)
(* the manifest declares, of the same media type; the others identical.    *)
ValidMutation(manifest, parent, child) ==
  /\ parent.system = child.system
  /\ parent.dimensions = child.dimensions
  /\ Range(parent.locked) = Range(child.locked)
  /\ NamesIn(parent.mutable) = NamesIn(child.mutable)
  /\ Changed(parent, child) = {manifest.asset}
  /\ \A name \in NamesIn(parent.mutable) :
       LET before == RefOf(parent.mutable, name)
           after == RefOf(child.mutable, name)
       IN  IF name = manifest.asset
             THEN before.media = after.media
             ELSE before = after

(* digestCandidate: what the manifest says, however it is formatted, and   *)
(* the two snapshots.                                                      *)
CandidateDigest(manifest, parent, child) ==
  [asset |-> manifest.asset,
   parent |-> SnapshotID(parent), child |-> SnapshotID(child)]

(* LoadCandidate over files none of which changes while it reads them. *)
Loads(manifest, parent, child, files) ==
  /\ {parent, child} \subseteq Snapshots
  /\ WellFormed(parent) /\ WellFormed(child)
  /\ \A doc \in {parent, child} : \A ref \in Range(doc.locked \o doc.mutable) :
       files[ref.path] = ref.sha256
  /\ ValidMutation(manifest, parent, child)
=============================================================================
