---------------------------- MODULE BindingProofs ----------------------------
EXTENDS Binding, FiniteSetTheorems, TLAPS

(***************************************************************************)
(* What the sessions of Binding can do to a run directory, proved for all  *)
(* bundles, all edits and all bounds.                                      *)
(*                                                                         *)
(* No property of Binding is inductive: whether the bytes bound were there *)
(* at one moment depends on what the session that binds them had read, and *)
(* on what earlier sessions left in the directory.  IInv says both.        *)
(* SessionInv follows a session from step to step: each document it has    *)
(* read, and each asset it has checked, was held by its file, and from the *)
(* binding on its configuration is the run's.  DirectoryInv relates the    *)
(* configuration to a bundle that loads, the bytes bound to the            *)
(* configuration, and both to the moment the run was created (HasMoment):  *)
(* an input that its file no longer held at that moment has been edited    *)
(* since it was read and, as no content comes back, can never be bound.    *)
(***************************************************************************)

(* Sequences, and the sequence made of a set *)

LEMMA RangeOfConcat ==
  ASSUME NEW S, NEW s \in Seq(S), NEW t \in Seq(S)
  PROVE  /\ s \o t \in Seq(S)
         /\ Range(s \o t) = Range(s) \cup Range(t)
<1>1. /\ s \o t \in Seq(S) /\ Len(s \o t) = Len(s) + Len(t)
      /\ DOMAIN s = 1 .. Len(s) /\ DOMAIN t = 1 .. Len(t)
      /\ DOMAIN (s \o t) = 1 .. Len(s) + Len(t)
  OBVIOUS
<1>2. \A i \in 1 .. Len(s) : (s \o t)[i] = s[i]
  OBVIOUS
<1>3. \A i \in 1 .. Len(t) : (s \o t)[Len(s) + i] = t[i]
  OBVIOUS
<1>4. \A i \in 1 .. Len(s) + Len(t) :
        (s \o t)[i] \in Range(s) \cup Range(t)
  <2>1. SUFFICES ASSUME NEW i \in 1 .. Len(s) + Len(t)
                 PROVE  (s \o t)[i] \in Range(s) \cup Range(t)
    OBVIOUS
  <2>2. CASE i \in 1 .. Len(s)
    BY <2>2, <1>1, <1>2 DEF Range
  <2>3. CASE i \notin 1 .. Len(s)
    <3>1. i - Len(s) \in 1 .. Len(t) /\ Len(s) + (i - Len(s)) = i
      BY <2>3
    <3>2. QED
      BY <3>1, <1>1, <1>3 DEF Range
  <2>4. QED
    BY <2>2, <2>3
<1>5. \A i \in 1 .. Len(s) : s[i] \in Range(s \o t)
  <2>1. \A i \in 1 .. Len(s) : i \in 1 .. Len(s) + Len(t)
    OBVIOUS
  <2>2. QED
    BY <2>1, <1>1, <1>2 DEF Range
<1>6. \A i \in 1 .. Len(t) : t[i] \in Range(s \o t)
  <2>1. \A i \in 1 .. Len(t) : Len(s) + i \in 1 .. Len(s) + Len(t)
    OBVIOUS
  <2>2. QED
    BY <2>1, <1>1, <1>3 DEF Range
<1>7. QED
  BY <1>1, <1>4, <1>5, <1>6 DEF Range

LEMMA NamesApart ==
  ASSUME NEW S, NEW s \in Seq(S), NEW t \in Seq(S),
         \A i, j \in DOMAIN (s \o t) : (s \o t)[i].name = (s \o t)[j].name => i = j,
         NEW p \in Range(s), NEW q \in Range(t)
  PROVE  p.name # q.name
<1>1. /\ DOMAIN s = 1 .. Len(s) /\ DOMAIN t = 1 .. Len(t)
      /\ DOMAIN (s \o t) = 1 .. Len(s) + Len(t)
  OBVIOUS
<1>2. PICK i \in 1 .. Len(s) : s[i] = p
  BY <1>1 DEF Range
<1>3. PICK j \in 1 .. Len(t) : t[j] = q
  BY <1>1 DEF Range
<1>4. (s \o t)[i] = p /\ (s \o t)[Len(s) + j] = q
  BY <1>2, <1>3
<1>5. i # Len(s) + j /\ i \in DOMAIN (s \o t) /\ Len(s) + j \in DOMAIN (s \o t)
  BY <1>1, <1>2, <1>3
<1>6. QED
  BY <1>4, <1>5

LEMMA RangeOfTail ==
  ASSUME NEW S, NEW s \in Seq(S), s # <<>>
  PROVE  /\ Tail(s) \in Seq(S) /\ Head(s) \in S
         /\ Range(s) = {Head(s)} \cup Range(Tail(s))
<1>1. /\ Tail(s) \in Seq(S) /\ Head(s) \in S /\ Head(s) = s[1]
      /\ Len(s) \in Nat \ {0} /\ Len(Tail(s)) = Len(s) - 1
      /\ DOMAIN s = 1 .. Len(s) /\ DOMAIN Tail(s) = 1 .. Len(s) - 1
  OBVIOUS
<1>2. \A i \in 1 .. Len(s) - 1 : Tail(s)[i] = s[i + 1]
  OBVIOUS
<1>3. \A i \in 1 .. Len(s) : s[i] \in {Head(s)} \cup Range(Tail(s))
  <2>1. SUFFICES ASSUME NEW i \in 1 .. Len(s), i # 1
                 PROVE  s[i] \in Range(Tail(s))
    BY <1>1
  <2>2. i - 1 \in 1 .. Len(s) - 1 /\ (i - 1) + 1 = i
    BY <1>1, <2>1
  <2>3. QED
    BY <2>2, <1>1, <1>2 DEF Range
<1>4. \A i \in 1 .. Len(s) - 1 : Tail(s)[i] \in Range(s)
  <2>1. \A i \in 1 .. Len(s) - 1 : i + 1 \in 1 .. Len(s)
    BY <1>1
  <2>2. QED
    BY <2>1, <1>1, <1>2 DEF Range
<1>5. 1 \in DOMAIN s
  BY <1>1
<1>6. QED
  BY <1>1, <1>3, <1>4, <1>5 DEF Range

LEMMA NamesAreFinite ==
  ASSUME NEW S, NEW refs \in Seq(S)
  PROVE  IsFiniteSet(NamesIn(refs))
<1> DEFINE f == [i \in 1 .. Len(refs) |-> refs[i].name]
<1>1. f \in [1 .. Len(refs) -> NamesIn(refs)]
  BY DEF NamesIn, Range
<1>2. \A name \in NamesIn(refs) : \E i \in 1 .. Len(refs) : f[i] = name
  BY DEF NamesIn, Range
<1>3. f \in Surjection(1 .. Len(refs), NamesIn(refs))
  BY <1>1, <1>2 DEF Surjection
<1>4. QED
  BY <1>3, FS_NatSurjection DEF ExistsSurjection

LEMMA SequenceOfSet ==
  ASSUME NEW S, IsFiniteSet(S)
  PROVE  SetToSeq(S) \in Seq(S) /\ Range(SetToSeq(S)) = S
<1> DEFINE n == Cardinality(S)
<1>1. n \in Nat /\ ExistsBijection(1 .. n, S)
  BY FS_CardinalityType
<1>2. \E f \in [1 .. n -> S] : IsInjective(f)
  BY <1>1 DEF ExistsBijection, Bijection, Injection, IsInjective
<1>3. SetToSeq(S) \in [1 .. n -> S] /\ IsInjective(SetToSeq(S))
  BY <1>2 DEF SetToSeq
<1>4. SetToSeq(S) \in Injection(1 .. n, S)
  BY <1>3 DEF Injection, IsInjective
<1>5. Cardinality(1 .. n) = n
  BY <1>1, FS_Interval
<1>6. SetToSeq(S) \in Surjection(1 .. n, S)
  BY <1>4, <1>5, FS_Injection
<1>7. QED
  BY <1>1, <1>3, <1>6 DEF Surjection, Range

-----------------------------------------------------------------------------
(* The references of a snapshot *)

Refs(doc) == doc.locked \o doc.mutable

LEMMA SnapshotRefs ==
  ASSUME NEW doc \in Snapshots
  PROVE  /\ doc.locked \in Seq(AssetRefs) /\ doc.mutable \in Seq(AssetRefs)
         /\ Refs(doc) \in Seq(AssetRefs)
         /\ Range(Refs(doc)) = Range(doc.locked) \cup Range(doc.mutable)
         /\ Range(Refs(doc)) \subseteq AssetRefs
         /\ NamesIn(Refs(doc)) = NamesIn(doc.locked) \cup NamesIn(doc.mutable)
<1>1. doc.locked \in Seq(AssetRefs) /\ doc.mutable \in Seq(AssetRefs)
  BY DEF Snapshots
<1>2. /\ Refs(doc) \in Seq(AssetRefs)
      /\ Range(Refs(doc)) = Range(doc.locked) \cup Range(doc.mutable)
  BY <1>1, RangeOfConcat DEF Refs
<1>3. Range(Refs(doc)) \subseteq AssetRefs
  BY <1>2 DEF Range
<1>4. QED
  BY <1>1, <1>2, <1>3 DEF NamesIn

LEMMA OneRefForAName ==
  ASSUME NEW doc \in Snapshots, WellFormed(doc),
         NEW r \in Range(Refs(doc)), NEW s \in Range(Refs(doc)), r.name = s.name
  PROVE  r = s
<1>1. PICK i \in DOMAIN Refs(doc) : Refs(doc)[i] = r
  BY DEF Range
<1>2. PICK j \in DOMAIN Refs(doc) : Refs(doc)[j] = s
  BY DEF Range
<1>3. i = j
  BY <1>1, <1>2 DEF WellFormed, Refs
<1>4. QED
  BY <1>1, <1>2, <1>3

LEMMA RefOfFinds ==
  ASSUME NEW refs, NEW name \in NamesIn(refs)
  PROVE  RefOf(refs, name) \in Range(refs) /\ RefOf(refs, name).name = name
<1>1. \E ref \in Range(refs) : ref.name = name
  BY DEF NamesIn
<1>2. QED
  BY <1>1 DEF RefOf

LEMMA RefOfIsTheRef ==
  ASSUME NEW doc \in Snapshots, WellFormed(doc), NEW ref \in Range(Refs(doc))
  PROVE  RefOf(Refs(doc), ref.name) = ref
<1>1. ref.name \in NamesIn(Refs(doc))
  BY DEF NamesIn
<1>2. QED
  BY <1>1, RefOfFinds, OneRefForAName

LEMMA RefOfMutable ==
  ASSUME NEW doc \in Snapshots, WellFormed(doc), NEW name \in NamesIn(doc.mutable)
  PROVE  /\ RefOf(Refs(doc), name) = RefOf(doc.mutable, name)
         /\ name \notin NamesIn(doc.locked)
<1>1. Range(doc.mutable) \subseteq Range(Refs(doc)) /\ Range(doc.locked) \subseteq Range(Refs(doc))
  BY SnapshotRefs
<1>2. RefOf(doc.mutable, name) \in Range(doc.mutable) /\ RefOf(doc.mutable, name).name = name
  BY RefOfFinds
<1>3. RefOf(Refs(doc), name) = RefOf(doc.mutable, name)
  BY <1>1, <1>2, RefOfIsTheRef
<1>4. ASSUME name \in NamesIn(doc.locked)
      PROVE  FALSE
  <2>1. PICK ref \in Range(doc.locked) : ref.name = name
    BY <1>4 DEF NamesIn
  <2>2. doc.locked \in Seq(AssetRefs) /\ doc.mutable \in Seq(AssetRefs)
    BY SnapshotRefs
  <2>3. \A i, j \in DOMAIN (doc.locked \o doc.mutable) :
          (doc.locked \o doc.mutable)[i].name = (doc.locked \o doc.mutable)[j].name => i = j
    BY DEF WellFormed
  <2>4. QED
    BY <2>1, <2>2, <2>3, <1>2, NamesApart
<1>5. QED
  BY <1>3, <1>4

-----------------------------------------------------------------------------
(* What binding expects of a bundle that was read whole *)

LEMMA FiveDocuments ==
  /\ Range(Documents) = {"suite", "policy", "manifest", "parent", "candidate"}
  /\ Range(Sides) = {"parent", "candidate"}
<1>1. DOMAIN Documents = 1 .. 5 /\ DOMAIN Sides = 1 .. 2
  BY DEF Documents, Sides
<1>2. 1 .. 5 = {1, 2, 3, 4, 5} /\ 1 .. 2 = {1, 2}
  OBVIOUS
<1>3. QED
  BY <1>1, <1>2 DEF Range, Documents, Sides

Prepared(read) ==
  /\ read = [path \in Range(Documents) |-> read[path]]
  /\ \A side \in Range(Sides) : read[side] \in Snapshots /\ WellFormed(read[side])
  /\ ValidMutation(read.manifest, read.parent, read.candidate)
  /\ \A path \in Range(Documents) : read[path] # NoFile

AssetRoles(read, side) == {side} \X NamesIn(Refs(read[side]))

RolesOf(read) ==
  ({"file"} \X Range(Documents))
    \cup AssetRoles(read, "parent") \cup AssetRoles(read, "candidate")

LEMMA AssetNamesCover ==
  ASSUME NEW doc \in Snapshots
  PROVE  /\ AssetNames(doc) \in Seq(NamesIn(Refs(doc)))
         /\ Range(AssetNames(doc)) = NamesIn(Refs(doc))
<1> DEFINE L == SetToSeq(NamesIn(doc.locked))
           M == SetToSeq(NamesIn(doc.mutable))
           All == NamesIn(Refs(doc))
<1>1. IsFiniteSet(NamesIn(doc.locked)) /\ IsFiniteSet(NamesIn(doc.mutable))
  BY SnapshotRefs, NamesAreFinite
<1>2. /\ L \in Seq(NamesIn(doc.locked)) /\ Range(L) = NamesIn(doc.locked)
      /\ M \in Seq(NamesIn(doc.mutable)) /\ Range(M) = NamesIn(doc.mutable)
  BY <1>1, SequenceOfSet
<1>3. All = NamesIn(doc.locked) \cup NamesIn(doc.mutable)
  BY SnapshotRefs
<1> HIDE DEF L, M, All
<1>4. L \in Seq(All) /\ M \in Seq(All)
  BY <1>2, <1>3
<1>5. L \o M \in Seq(All) /\ Range(L \o M) = All
  BY <1>2, <1>3, <1>4, RangeOfConcat
<1>6. QED
  BY <1>5 DEF AssetNames, L, M, All

(* The roles of one side, in the order they are bound. *)
LEMMA SideOrder ==
  ASSUME NEW doc \in Snapshots, NEW side
  PROVE  LET order == [i \in DOMAIN AssetNames(doc) |-> <<side, AssetNames(doc)[i]>>]
         IN  /\ order \in Seq({side} \X NamesIn(Refs(doc)))
             /\ Range(order) = {side} \X NamesIn(Refs(doc))
<1> DEFINE names == AssetNames(doc)
           order == [i \in DOMAIN names |-> <<side, names[i]>>]
<1>1. names \in Seq(NamesIn(Refs(doc))) /\ Range(names) = NamesIn(Refs(doc))
  BY AssetNamesCover
<1> HIDE DEF names
<1>2. /\ DOMAIN order = 1 .. Len(names) /\ DOMAIN names = 1 .. Len(names)
      /\ Len(names) \in Nat
      /\ \A i \in 1 .. Len(names) :
           order[i] \in {side} \X NamesIn(Refs(doc)) /\ order[i] = <<side, names[i]>>
  BY <1>1
<1>3. order \in Seq({side} \X NamesIn(Refs(doc)))
  BY <1>2
<1>4. ASSUME NEW name \in NamesIn(Refs(doc))
      PROVE  <<side, name>> \in Range(order)
  BY <1>1, <1>2 DEF Range
<1>5. Range(order) \subseteq {side} \X NamesIn(Refs(doc))
  BY <1>2 DEF Range
<1>6. QED
  BY <1>3, <1>4, <1>5 DEF names

LEMMA OrderCovers ==
  ASSUME NEW read, Prepared(read)
  PROVE  /\ BindingOrder(read) \in Seq(RolesOf(read))
         /\ Range(BindingOrder(read)) = RolesOf(read)
<1> DEFINE F == [i \in 1 .. 5 |-> <<"file", Documents[i]>>]
           P == [i \in DOMAIN AssetNames(read.parent) |->
                   <<"parent", AssetNames(read.parent)[i]>>]
           C == [i \in DOMAIN AssetNames(read.candidate) |->
                   <<"candidate", AssetNames(read.candidate)[i]>>]
           R == RolesOf(read)
<1>1. read.parent \in Snapshots /\ read.candidate \in Snapshots
  BY FiveDocuments DEF Prepared
<1>2. /\ P \in Seq(AssetRoles(read, "parent")) /\ Range(P) = AssetRoles(read, "parent")
      /\ C \in Seq(AssetRoles(read, "candidate")) /\ Range(C) = AssetRoles(read, "candidate")
  BY <1>1, SideOrder DEF AssetRoles
<1>3. F \in Seq({"file"} \X Range(Documents)) /\ Range(F) = {"file"} \X Range(Documents)
  <2>1. DOMAIN Documents = 1 .. 5
    BY DEF Documents
  <2>2. \A i \in 1 .. 5 : F[i] \in {"file"} \X Range(Documents) /\ F[i] = <<"file", Documents[i]>>
    BY <2>1 DEF Range
  <2>3. F \in Seq({"file"} \X Range(Documents))
    BY <2>2
  <2>4. Range(F) \subseteq {"file"} \X Range(Documents)
    BY <2>2 DEF Range
  <2>5. \A path \in Range(Documents) : <<"file", path>> \in Range(F)
    BY <2>1, <2>2 DEF Range
  <2>6. QED
    BY <2>3, <2>4, <2>5
<1>4. BindingOrder(read) = F \o P \o C
  BY DEF BindingOrder
<1>5. R = ({"file"} \X Range(Documents)) \cup AssetRoles(read, "parent")
            \cup AssetRoles(read, "candidate")
  BY DEF RolesOf
<1> HIDE DEF F, P, C, R
<1>6. F \in Seq(R) /\ P \in Seq(R) /\ C \in Seq(R)
  BY <1>2, <1>3, <1>5
<1> DEFINE FP == F \o P
<1>7. FP \in Seq(R) /\ Range(FP) = Range(F) \cup Range(P)
  BY <1>6, RangeOfConcat
<1> HIDE DEF FP
<1>8. FP \o C \in Seq(R) /\ Range(FP \o C) = Range(FP) \cup Range(C)
  BY <1>6, <1>7, RangeOfConcat
<1>9. QED
  BY <1>2, <1>3, <1>4, <1>5, <1>7, <1>8 DEF R, FP

LEMMA ExpectedOfFile ==
  ASSUME NEW read, Prepared(read), NEW path \in Range(Documents)
  PROVE  /\ <<"file", path>> \in DOMAIN Expected(read)
         /\ Expected(read)[<<"file", path>>] = read[path]
         /\ Source(read, <<"file", path>>) = path
<1>1. <<"file", path>> \in Range(BindingOrder(read))
  BY OrderCovers DEF RolesOf
<1>2. QED
  BY <1>1 DEF Expected, Source

LEMMA ExpectedOfAsset ==
  ASSUME NEW read, Prepared(read), NEW side \in Range(Sides),
         NEW ref \in Range(Refs(read[side]))
  PROVE  /\ <<side, ref.name>> \in DOMAIN Expected(read)
         /\ Expected(read)[<<side, ref.name>>] = ref.sha256
         /\ Source(read, <<side, ref.name>>) = ref.path
<1>1. read[side] \in Snapshots /\ WellFormed(read[side])
  BY DEF Prepared
<1>2. RefOf(Refs(read[side]), ref.name) = ref
  BY <1>1, RefOfIsTheRef
<1>3. <<side, ref.name>> \in AssetRoles(read, side) /\ side # "file"
  BY FiveDocuments DEF AssetRoles, NamesIn
<1>4. <<side, ref.name>> \in Range(BindingOrder(read))
  BY <1>3, OrderCovers, FiveDocuments DEF RolesOf
<1>5. AssetRef(read, <<side, ref.name>>) = ref
  BY <1>2 DEF AssetRef, Refs
<1>6. QED
  BY <1>3, <1>4, <1>5 DEF Expected, Source

LEMMA ExpectedRoles ==
  ASSUME NEW read, Prepared(read), NEW role \in DOMAIN Expected(read)
  PROVE  \/ \E path \in Range(Documents) : role = <<"file", path>>
         \/ \E side \in Range(Sides) : \E ref \in Range(Refs(read[side])) :
              role = <<side, ref.name>>
<1>1. role \in RolesOf(read)
  BY OrderCovers DEF Expected
<1>2. CASE role \in {"file"} \X Range(Documents)
  BY <1>2
<1>3. ASSUME NEW side \in Range(Sides), role \in AssetRoles(read, side)
      PROVE  \E ref \in Range(Refs(read[side])) : role = <<side, ref.name>>
  BY <1>3 DEF AssetRoles, NamesIn
<1>4. QED
  BY <1>1, <1>2, <1>3, FiveDocuments DEF RolesOf

LEMMA DocumentsOfExpected ==
  ASSUME NEW read, Prepared(read)
  PROVE  DocumentsOf(Expected(read)) = read
<1>1. \A path \in Range(Documents) : Expected(read)[<<"file", path>>] = read[path]
  BY ExpectedOfFile
<1>2. read = [path \in Range(Documents) |-> read[path]]
  BY DEF Prepared
<1>3. QED
  BY <1>1, <1>2 DEF DocumentsOf

-----------------------------------------------------------------------------
(* The two sides of a bundle that was read whole *)

DifferInOneAsset(inputs) ==
  LET before == inputs[<<"file", "parent">>]
      after == inputs[<<"file", "candidate">>]
      parent == ViewOf(inputs, "parent")
      child == ViewOf(inputs, "candidate")
      asset == inputs[<<"file", "manifest">>].asset
  IN  /\ before.system = after.system /\ before.dimensions = after.dimensions
      /\ DOMAIN parent = DOMAIN child
      /\ {name \in DOMAIN parent : parent[name] # child[name]} = {asset}
      /\ parent[asset].media = child[asset].media
      /\ ~ parent[asset].locked /\ ~ child[asset].locked

LEMMA ViewOfSide ==
  ASSUME NEW read, Prepared(read), NEW side \in Range(Sides)
  PROVE  ViewOf(Expected(read), side) =
           [name \in NamesIn(Refs(read[side])) |->
              [bytes |-> RefOf(Refs(read[side]), name).sha256,
               media |-> RefOf(Refs(read[side]), name).media,
               locked |-> name \in NamesIn(read[side].locked)]]
<1>1. side \in Range(Documents)
  BY FiveDocuments
<1>2. Expected(read)[<<"file", side>>] = read[side]
  BY <1>1, ExpectedOfFile
<1>3. ASSUME NEW name \in NamesIn(Refs(read[side]))
      PROVE  Expected(read)[<<side, name>>] = RefOf(Refs(read[side]), name).sha256
  <2>1. /\ RefOf(Refs(read[side]), name) \in Range(Refs(read[side]))
        /\ RefOf(Refs(read[side]), name).name = name
    BY RefOfFinds
  <2>2. QED
    BY <2>1, ExpectedOfAsset
<1>4. QED
  BY <1>2, <1>3 DEF ViewOf, Refs

LEMMA SidesDiffer ==
  ASSUME NEW read, Prepared(read)
  PROVE  DifferInOneAsset(Expected(read))
<1> DEFINE P == read.parent
           C == read.candidate
           asset == read.manifest.asset
           before(name) == RefOf(Refs(P), name)
           after(name) == RefOf(Refs(C), name)
           parent == ViewOf(Expected(read), "parent")
           child == ViewOf(Expected(read), "candidate")
<1>1. /\ P \in Snapshots /\ WellFormed(P) /\ C \in Snapshots /\ WellFormed(C)
      /\ P.system = C.system /\ P.dimensions = C.dimensions
  BY FiveDocuments DEF Prepared, ValidMutation
<1>2. /\ Range(P.locked) = Range(C.locked)
      /\ NamesIn(P.mutable) = NamesIn(C.mutable)
      /\ Changed(P, C) = {asset}
  BY DEF Prepared, ValidMutation
<1>3. NamesIn(P.locked) = NamesIn(C.locked)
  BY <1>2 DEF NamesIn
<1>4. /\ NamesIn(Refs(P)) = NamesIn(P.locked) \cup NamesIn(P.mutable)
      /\ NamesIn(Refs(C)) = NamesIn(P.locked) \cup NamesIn(P.mutable)
  BY <1>1, <1>2, <1>3, SnapshotRefs
<1>5. ASSUME NEW name \in NamesIn(P.locked)
      PROVE  before(name) = after(name)
  <2>1. PICK ref \in Range(P.locked) : ref.name = name
    BY DEF NamesIn
  <2>2. ref \in Range(Refs(P)) /\ ref \in Range(Refs(C))
    BY <2>1, <1>1, <1>2, SnapshotRefs
  <2>3. QED
    BY <2>1, <2>2, <1>1, RefOfIsTheRef
<1>6. ASSUME NEW name \in NamesIn(P.mutable)
      PROVE  /\ name \notin NamesIn(P.locked)
             /\ before(name).sha256 # after(name).sha256 <=> name = asset
             /\ before(name).media = after(name).media
  <2>1. /\ before(name) = RefOf(P.mutable, name) /\ name \notin NamesIn(P.locked)
        /\ after(name) = RefOf(C.mutable, name)
    BY <1>1, <1>2, RefOfMutable
  <2>2. name \in Changed(P, C) <=> name = asset
    BY <1>2
  <2>3. before(name).media = after(name).media
    BY <2>1 DEF Prepared, ValidMutation
  <2>4. QED
    BY <2>1, <2>2, <2>3 DEF Changed
<1>7. asset \in NamesIn(P.mutable)
  BY <1>2 DEF Changed
<1>8. /\ Expected(read)[<<"file", "manifest">>].asset = asset
      /\ Expected(read)[<<"file", "parent">>] = P
      /\ Expected(read)[<<"file", "candidate">>] = C
  BY ExpectedOfFile, FiveDocuments
<1>9. /\ parent = [name \in NamesIn(Refs(P)) |->
                     [bytes |-> before(name).sha256, media |-> before(name).media,
                      locked |-> name \in NamesIn(P.locked)]]
      /\ child = [name \in NamesIn(Refs(C)) |->
                     [bytes |-> after(name).sha256, media |-> after(name).media,
                      locked |-> name \in NamesIn(C.locked)]]
  BY ViewOfSide, FiveDocuments
<1> HIDE DEF P, C, asset, before, after, parent, child
<1>10. DOMAIN parent = DOMAIN child /\ DOMAIN parent = NamesIn(P.locked) \cup NamesIn(P.mutable)
  BY <1>4, <1>9
<1>11. \A name \in DOMAIN parent :
         /\ parent[name] = [bytes |-> before(name).sha256, media |-> before(name).media,
                            locked |-> name \in NamesIn(P.locked)]
         /\ child[name] = [bytes |-> after(name).sha256, media |-> after(name).media,
                           locked |-> name \in NamesIn(P.locked)]
  BY <1>3, <1>4, <1>9
<1>12. \A name \in DOMAIN parent :
         /\ parent[name].bytes = before(name).sha256
         /\ parent[name].media = before(name).media
         /\ parent[name].locked = (name \in NamesIn(P.locked))
  BY <1>9
<1>13. \A name \in DOMAIN child :
         /\ child[name].bytes = after(name).sha256
         /\ child[name].media = after(name).media
         /\ child[name].locked = (name \in NamesIn(C.locked))
  BY <1>9
<1>14. ASSUME NEW name \in DOMAIN parent
       PROVE  parent[name] # child[name] <=> name = asset
  <2>1. before(name).sha256 # after(name).sha256 <=> name = asset
    <3>1. CASE name \in NamesIn(P.mutable)
      BY <3>1, <1>6
    <3>2. CASE name \notin NamesIn(P.mutable)
      BY <3>2, <1>5, <1>7, <1>10
    <3>3. QED
      BY <3>1, <3>2
  <2>2. CASE before(name).sha256 = after(name).sha256
    <3>1. before(name).media = after(name).media
      BY <1>5, <1>6, <1>10
    <3>2. parent[name] = child[name]
      BY <2>2, <3>1, <1>11
    <3>3. QED
      BY <3>2, <2>1, <2>2
  <2>3. CASE before(name).sha256 # after(name).sha256
    <3>1. parent[name].bytes = before(name).sha256 /\ child[name].bytes = after(name).sha256
      BY <1>10, <1>12, <1>13
    <3>2. QED
      BY <3>1, <2>1, <2>3
  <2>4. QED
    BY <2>2, <2>3
<1>15. {name \in DOMAIN parent : parent[name] # child[name]} = {asset}
  BY <1>7, <1>10, <1>14
<1>16. ~ parent[asset].locked /\ ~ child[asset].locked
  <2>1. asset \in DOMAIN parent /\ asset \notin NamesIn(P.locked)
    BY <1>6, <1>7, <1>10
  <2>2. /\ parent[asset].locked = (asset \in NamesIn(P.locked))
        /\ child[asset].locked = (asset \in NamesIn(P.locked))
    BY <2>1, <1>3, <1>10, <1>12, <1>13
  <2>3. QED
    BY <2>1, <2>2
<1>17. parent[asset].media = child[asset].media
  BY <1>6, <1>7, <1>10, <1>12, <1>13
<1>18. QED
  BY <1>1, <1>8, <1>10, <1>15, <1>16, <1>17 DEF DifferInOneAsset, parent, child

-----------------------------------------------------------------------------
(* The inductive invariant: what a session knows *)

Steps == {"idle", "suite", "manifest", "parent", "parent assets", "candidate",
          "candidate assets", "policy", "open", "bind", "copied", "execute", "fail"}

PastSuite == Steps \ {"idle", "suite"}
PastManifest == PastSuite \ {"manifest"}
PastParent == PastManifest \ {"parent", "parent assets"}
PastCandidate == PastParent \ {"candidate", "candidate assets"}
PastPolicy == PastCandidate \ {"policy"}
PastOpen == PastPolicy \ {"open"}

FilesTyped == Range(Documents) \subseteq DOMAIN files /\ files \in history

SessionTyped ==
  /\ session = [step |-> session.step, request |-> session.request,
                plan |-> session.plan, read |-> session.read,
                assets |-> session.assets, next |-> session.next]
  /\ session.step \in Steps
  /\ session.read = [path \in Range(Documents) |-> session.read[path]]
  /\ session.next \in Nat
  /\ session.step \notin PastOpen => session.next = 1

BudgetTyped == budget \in [edits : Nat, interrupts : Nat, faults : Nat]

(* A content the files have held.  The author does not bring it back. *)
Held(path, content) ==
  /\ path \in DOMAIN files
  /\ content # NoFile
  /\ \E moment \in history : moment[path] = content

DocumentRead(path) == Held(path, session.read[path])


(* While its assets are read, a side has been checked but for those left. *)
SideBeingRead(side) ==
  /\ DocumentRead(side) /\ session.read[side] \in Snapshots
  /\ session.assets \in Seq(AssetRefs)
  /\ \A ref \in Range(Refs(session.read[side])) :
       ref \in Range(session.assets) \/ Held(ref.path, ref.sha256)

SideRead(side) ==
  /\ DocumentRead(side) /\ session.read[side] \in Snapshots
  /\ WellFormed(session.read[side])
  /\ \A ref \in Range(Refs(session.read[side])) : Held(ref.path, ref.sha256)

ReadingFollowsSteps ==
  /\ session.step \in PastSuite => DocumentRead("suite")
  /\ session.step \in PastManifest => DocumentRead("manifest")
  /\ session.step = "parent assets" => SideBeingRead("parent")
  /\ session.step \in PastParent => SideRead("parent")
  /\ session.step = "candidate assets" => SideBeingRead("candidate")
  /\ session.step \in PastCandidate =>
       /\ SideRead("candidate")
       /\ ValidMutation(session.read.manifest, session.read.parent,
                        session.read.candidate)
  /\ session.step \in PastPolicy => DocumentRead("policy")

(* A session that binds has the configuration of the run, and has bound    *)
(* as expected what comes before the input it is at.                       *)
BindingFollowsConfig ==
  session.step \in PastOpen =>
    state = "active" /\ config = ConfigOf(session.read, session.plan)

BoundUpToNext ==
  /\ session.step \in {"bind", "copied"} =>
       \A i \in DOMAIN BindingOrder(session.read) : i < session.next =>
         LET role == BindingOrder(session.read)[i]
         IN  role \in DOMAIN bound /\ bound[role] = Expected(session.read)[role]
  /\ session.step = "copied" =>
       /\ session.next \in DOMAIN BindingOrder(session.read)
       /\ BindingOrder(session.read)[session.next] \in DOMAIN bound
  /\ session.step = "execute" => bound = Expected(session.read)

Inputs == config.inputs
SourceOf(role) == Source(DocumentsOf(Inputs), role)

(* An expected input that was held is not there any more. *)
SomeEdit ==
  \E role \in DOMAIN Inputs :
    /\ Held(SourceOf(role), Inputs[role])
    /\ files[SourceOf(role)] # Inputs[role]

FailingForEdits ==
  session.step = "fail" /\ budget.faults = 0 => SomeEdit

SessionInv ==
  /\ SessionTyped /\ ReadingFollowsSteps /\ BindingFollowsConfig
  /\ BoundUpToNext /\ FailingForEdits

-----------------------------------------------------------------------------
(* The inductive invariant: what the directory holds *)

BoundIsExpected ==
  /\ bound = [role \in DOMAIN bound |-> bound[role]]
  /\ state = "none" => bound = <<>> /\ ran = {}
  /\ state # "none" => DOMAIN bound \subseteq DOMAIN Inputs

ConfigIsOfABundle ==
  state # "none" =>
    Prepared(DocumentsOf(Inputs)) /\ Inputs = Expected(DocumentsOf(Inputs))

(* Every input the run expects was held; one that is bound otherwise than  *)
(* expected was not there any more.                                        *)
InputsHeld ==
  state # "none" =>
    /\ \A role \in DOMAIN Inputs : Held(SourceOf(role), Inputs[role])
    /\ \A role \in DOMAIN bound :
         bound[role] = Inputs[role] \/ files[SourceOf(role)] # Inputs[role]

FailedForEdits == state = "failed" /\ ran = {} /\ budget.faults = 0 => SomeEdit

(* The moment the run was created: an expected input that was not there    *)
(* then has been edited since it was read, and is not there any more, so   *)
(* that it cannot have been bound since.                                   *)
HeldAtOnce(moment) ==
  \A role \in DOMAIN Inputs :
    /\ moment[SourceOf(role)] = Inputs[role] \/ files[SourceOf(role)] # Inputs[role]
    /\ role \in DOMAIN bound /\ bound[role] = Inputs[role] =>
         moment[SourceOf(role)] = Inputs[role]

HasMoment == state # "none" => \E moment \in history : HeldAtOnce(moment)

RanAsConfigured ==
  \A experiment \in ran :
    experiment = [inputs |-> Inputs, plan |-> config.plan]

DirectoryInv ==
  /\ BoundIsExpected /\ ConfigIsOfABundle /\ InputsHeld /\ HasMoment
  /\ RanAsConfigured /\ BoundIsOneMoment /\ FailedForEdits

IInv == FilesTyped /\ BudgetTyped /\ SessionInv /\ DirectoryInv

-----------------------------------------------------------------------------
(* What most steps leave alone *)

LEMMA InitIInv == Init => IInv
<1> SUFFICES ASSUME Init PROVE IInv
  OBVIOUS
<1>1. FilesTyped
  BY BindingAssumption, FiveDocuments DEF Init, FilesTyped
<1>2. BudgetTyped
  BY DEF Init, BudgetTyped
<1>3. SessionInv
  <2>1. session = Idle
    BY DEF Init
  <2>2. /\ session.step = "idle" /\ session.next = 1 /\ session.read = Nothing
        /\ session.step \notin PastSuite /\ "idle" \in Steps
    BY <2>1 DEF Idle, PastSuite, Steps
  <2>3. SessionTyped
    BY <2>1, <2>2 DEF SessionTyped, Idle, Nothing, PastOpen, PastPolicy,
                      PastCandidate, PastParent, PastManifest
  <2>4. QED
    BY <2>2, <2>3 DEF SessionInv, ReadingFollowsSteps, BindingFollowsConfig, BoundUpToNext,
         FailingForEdits, PastOpen, PastPolicy, PastCandidate, PastParent, PastManifest
<1>4. DirectoryInv
  BY DEF Init, DirectoryInv, BoundIsExpected, ConfigIsOfABundle, InputsHeld, HasMoment,
         RanAsConfigured, BoundIsOneMoment, FailedForEdits
<1>5. QED
  BY <1>1, <1>2, <1>3, <1>4 DEF IInv

(* A session that has returned knows nothing. *)
LEMMA IdleSession ==
  ASSUME session' = Idle
  PROVE  SessionInv'
<1>1. /\ session'.step = "idle" /\ session'.next = 1 /\ session'.read = Nothing
      /\ session'.step \notin PastSuite /\ "idle" \in Steps
  BY DEF Idle, PastSuite, Steps
<1>2. SessionTyped'
  BY <1>1 DEF SessionTyped, Idle, Nothing, PastOpen, PastPolicy,
              PastCandidate, PastParent, PastManifest
<1>3. QED
  BY <1>1, <1>2 DEF SessionInv, ReadingFollowsSteps, BindingFollowsConfig, BoundUpToNext,
       FailingForEdits, PastOpen, PastPolicy, PastCandidate, PastParent, PastManifest

NoFaultForgotten == budget'.faults = 0 => budget.faults = 0

LEMMA DirectoryFrame ==
  ASSUME DirectoryInv, UNCHANGED <<files, history, state, config, bound, ran>>,
         NoFaultForgotten
  PROVE  DirectoryInv'
<1>1. BoundIsExpected'
  BY DEF DirectoryInv, BoundIsExpected, Inputs
<1>2. ConfigIsOfABundle'
  BY DEF DirectoryInv, ConfigIsOfABundle, Inputs
<1>3. InputsHeld'
  BY DEF DirectoryInv, InputsHeld, Inputs, SourceOf, Held
<1>4. HasMoment'
  BY DEF DirectoryInv, HasMoment, HeldAtOnce, Inputs, SourceOf
<1>5. RanAsConfigured'
  BY DEF DirectoryInv, RanAsConfigured, Inputs
<1>6. BoundIsOneMoment'
  BY DEF DirectoryInv, BoundIsOneMoment
<1>7. FailedForEdits'
  BY DEF DirectoryInv, FailedForEdits, NoFaultForgotten, SomeEdit, Inputs, SourceOf, Held
<1>8. QED
  BY <1>1, <1>2, <1>3, <1>4, <1>5, <1>6, <1>7 DEF DirectoryInv

LEMMA SessionFrame ==
  ASSUME SessionInv, UNCHANGED <<files, history, session, state, config, bound>>,
         NoFaultForgotten
  PROVE  SessionInv'
<1>1. SessionTyped'
  BY DEF SessionInv, SessionTyped
<1>2. ReadingFollowsSteps'
  BY DEF SessionInv, ReadingFollowsSteps, DocumentRead, SideBeingRead, SideRead, Held
<1>3. BindingFollowsConfig'
  BY DEF SessionInv, BindingFollowsConfig
<1>4. BoundUpToNext'
  BY DEF SessionInv, BoundUpToNext
<1>5. FailingForEdits'
  BY DEF SessionInv, FailingForEdits, SomeEdit, NoFaultForgotten, Inputs, SourceOf, Held
<1>6. QED
  BY <1>1, <1>2, <1>3, <1>4, <1>5 DEF SessionInv

LEMMA FilesFrame ==
  ASSUME FilesTyped, UNCHANGED <<files, history>>
  PROVE  FilesTyped'
BY DEF FilesTyped

LEMMA BudgetFrame ==
  ASSUME BudgetTyped, UNCHANGED budget
  PROVE  BudgetTyped' /\ NoFaultForgotten
BY DEF BudgetTyped, NoFaultForgotten

LEMMA FaultFields ==
  ASSUME BudgetTyped, Fault
  PROVE  BudgetTyped' /\ budget'.faults # 0 /\ NoFaultForgotten
BY DEF BudgetTyped, Fault, NoFaultForgotten

LEMMA InterruptFields ==
  ASSUME BudgetTyped, Interrupt
  PROVE  BudgetTyped' /\ NoFaultForgotten
BY DEF BudgetTyped, Interrupt, NoFaultForgotten

(* A step that ends a session and changes nothing else. *)
LEMMA ReturnKeeps ==
  ASSUME IInv, Return, UNCHANGED <<files, history, state, config, bound, ran>>,
         BudgetTyped', NoFaultForgotten
  PROVE  IInv'
BY IdleSession, DirectoryFrame, FilesFrame DEF IInv, Return

LEMMA GiveUpKeeps ==
  ASSUME IInv, GiveUp
  PROVE  IInv'
<1>1. Return /\ UNCHANGED <<files, history, state, config, bound, ran, budget>>
  BY DEF GiveUp, world, directory
<1>2. BudgetTyped' /\ NoFaultForgotten
  BY <1>1, BudgetFrame DEF IInv
<1>3. QED
  BY <1>1, <1>2, ReturnKeeps

-----------------------------------------------------------------------------
(* prepareRequest *)

LEMMA PrepareFields ==
  ASSUME SessionTyped, NEW step, NEW read, NEW assets, Prepare(step, read, assets)
  PROVE  /\ session' = [step |-> step, request |-> session.request, plan |-> session.plan,
                        read |-> read, assets |-> assets, next |-> session.next]
         /\ session'.step = step /\ session'.read = read /\ session'.assets = assets
         /\ session'.request = session.request /\ session'.plan = session.plan
         /\ session'.next = session.next
         /\ UNCHANGED <<files, history, state, config, bound, ran, budget>>
BY DEF SessionTyped, Prepare, world, directory

(* Before the run is opened only what has been read must be looked at. *)
LEMMA PrepareKeeps ==
  ASSUME IInv, NEW step \in Steps \ PastOpen, session.step \notin PastOpen,
         NEW read, read = [path \in Range(Documents) |-> read[path]],
         NEW assets, Prepare(step, read, assets), ReadingFollowsSteps'
  PROVE  IInv'
<1>1. SessionTyped /\ FilesTyped /\ BudgetTyped /\ DirectoryInv
  BY DEF IInv, SessionInv
<1>2. /\ session' = [step |-> step, request |-> session.request, plan |-> session.plan,
                     read |-> read, assets |-> assets, next |-> session.next]
      /\ session'.step = step /\ session'.read = read /\ session'.assets = assets
      /\ session'.request = session.request /\ session'.plan = session.plan
      /\ session'.next = session.next
      /\ UNCHANGED <<files, history, state, config, bound, ran, budget>>
  BY <1>1, PrepareFields
<1>3. SessionTyped'
  <2>1. session.next \in Nat /\ session.next = 1
    BY <1>1 DEF SessionTyped
  <2>2. QED
    BY <1>2, <2>1 DEF SessionTyped
<1>4. BindingFollowsConfig' /\ BoundUpToNext' /\ FailingForEdits'
  BY <1>2 DEF BindingFollowsConfig, BoundUpToNext, FailingForEdits, PastOpen, PastPolicy,
              PastCandidate, PastParent, PastManifest, PastSuite, Steps
<1>5. FilesTyped' /\ BudgetTyped' /\ NoFaultForgotten
  BY <1>1, <1>2, FilesFrame, BudgetFrame
<1>6. DirectoryInv'
  BY <1>1, <1>2, <1>5, DirectoryFrame
<1>7. QED
  BY <1>3, <1>4, <1>5, <1>6 DEF IInv, SessionInv

LEMMA StepsInOrder ==
  /\ PastOpen = {"bind", "copied", "execute", "fail"}
  /\ PastPolicy = {"open", "bind", "copied", "execute", "fail"}
  /\ PastCandidate = {"policy", "open", "bind", "copied", "execute", "fail"}
  /\ PastParent = {"candidate", "candidate assets", "policy", "open", "bind", "copied",
                   "execute", "fail"}
  /\ PastManifest = {"parent", "parent assets", "candidate", "candidate assets", "policy",
                     "open", "bind", "copied", "execute", "fail"}
  /\ PastSuite = {"manifest", "parent", "parent assets", "candidate", "candidate assets",
                  "policy", "open", "bind", "copied", "execute", "fail"}
BY DEF Steps, PastSuite, PastManifest, PastParent, PastCandidate, PastPolicy, PastOpen

LEMMA ReadingFields ==
  ASSUME SessionTyped, NEW path \in Range(Documents)
  PROVE  /\ Reading(path) = [p \in Range(Documents) |-> Reading(path)[p]]
         /\ Reading(path)[path] = files[path]
         /\ \A p \in Range(Documents) \ {path} : Reading(path)[p] = session.read[p]
<1>1. session.read = [p \in Range(Documents) |-> session.read[p]]
  BY DEF SessionTyped
<1>2. QED
  BY <1>1 DEF Reading

LEMMA BeginKeepsIInv ==
  ASSUME IInv, NEW moment, NEW plan, Begin(moment, plan)
  PROVE  IInv'
<1> DEFINE request == [suite |-> moment.suite.means,
                       candidate |-> CandidateDigest(moment.manifest, moment.parent,
                                                     moment.candidate)]
<1>1. /\ session' = [Idle EXCEPT !.step = "suite", !.plan = plan, !.request = request]
      /\ UNCHANGED <<files, history, state, config, bound, ran, budget>>
  BY DEF Begin, world, directory
<1>2. /\ session' = [step |-> "suite", request |-> request, plan |-> plan,
                     read |-> Nothing, assets |-> <<>>, next |-> 1]
      /\ session'.step = "suite" /\ session'.next = 1 /\ session'.read = Nothing
  BY <1>1 DEF Idle
<1>3. SessionTyped'
  BY <1>2 DEF SessionTyped, Nothing, Steps
<1>4. ReadingFollowsSteps' /\ BindingFollowsConfig' /\ BoundUpToNext' /\ FailingForEdits'
  BY <1>2, StepsInOrder
  DEF ReadingFollowsSteps, BindingFollowsConfig, BoundUpToNext, FailingForEdits
<1>5. FilesTyped' /\ BudgetTyped' /\ NoFaultForgotten
  BY <1>1, FilesFrame, BudgetFrame DEF IInv
<1>6. DirectoryInv'
  BY <1>1, <1>5, DirectoryFrame DEF IInv
<1>7. QED
  BY <1>3, <1>4, <1>5, <1>6 DEF IInv, SessionInv

LEMMA ReadSuiteKeepsIInv ==
  ASSUME IInv, ReadSuite
  PROVE  IInv'
<1>1. CASE GiveUp
  BY <1>1, GiveUpKeeps
<1>2. CASE Prepare("manifest", Reading("suite"), <<>>) /\ files.suite # NoFile
  <2>1. SessionTyped /\ FilesTyped /\ session.step = "suite" /\ "suite" \in Range(Documents)
    BY FiveDocuments DEF IInv, SessionInv, ReadSuite
  <2>2. /\ session'.step = "manifest" /\ session'.read = Reading("suite")
        /\ UNCHANGED <<files, history>>
    BY <1>2, <2>1, PrepareFields
  <2>3. Reading("suite") = [p \in Range(Documents) |-> Reading("suite")[p]]
    BY <2>1, ReadingFields
  <2>4. session'.read["suite"] = files["suite"]
    BY <2>1, <2>2, ReadingFields
  <2>5. DocumentRead("suite")'
    BY <1>2, <2>1, <2>2, <2>4 DEF DocumentRead, Held, FilesTyped
  <2>6. ReadingFollowsSteps'
    BY <2>2, <2>5, StepsInOrder DEF ReadingFollowsSteps
  <2>7. "manifest" \in Steps \ PastOpen /\ session.step \notin PastOpen
    BY <2>1, StepsInOrder DEF Steps
  <2>8. QED
    BY <1>2, <2>3, <2>6, <2>7, PrepareKeeps
<1>3. QED
  BY <1>1, <1>2 DEF ReadSuite

LEMMA ReadManifestKeepsIInv ==
  ASSUME IInv, ReadManifest
  PROVE  IInv'
<1>1. CASE GiveUp
  BY <1>1, GiveUpKeeps
<1>2. CASE Prepare("parent", Reading("manifest"), <<>>) /\ files.manifest # NoFile
  <2>1. /\ SessionTyped /\ FilesTyped /\ session.step = "manifest"
        /\ {"suite", "manifest"} \subseteq Range(Documents)
    BY FiveDocuments DEF IInv, SessionInv, ReadManifest
  <2>2. /\ session'.step = "parent" /\ session'.read = Reading("manifest")
        /\ UNCHANGED <<files, history>>
    BY <1>2, <2>1, PrepareFields
  <2>3. Reading("manifest") = [p \in Range(Documents) |-> Reading("manifest")[p]]
    BY <2>1, ReadingFields
  <2>4. /\ session'.read["manifest"] = files["manifest"]
        /\ session'.read["suite"] = session.read["suite"]
    BY <2>1, <2>2, ReadingFields
  <2>5. DocumentRead("suite")
    BY <2>1, StepsInOrder DEF IInv, SessionInv, ReadingFollowsSteps
  <2>6. DocumentRead("suite")' /\ DocumentRead("manifest")'
    BY <1>2, <2>1, <2>2, <2>4, <2>5 DEF DocumentRead, Held, FilesTyped
  <2>7. ReadingFollowsSteps'
    BY <2>2, <2>6, StepsInOrder DEF ReadingFollowsSteps
  <2>8. "parent" \in Steps \ PastOpen /\ session.step \notin PastOpen
    BY <2>1, StepsInOrder DEF Steps
  <2>9. QED
    BY <1>2, <2>3, <2>7, <2>8, PrepareKeeps
<1>3. QED
  BY <1>1, <1>2 DEF ReadManifest

(* What was read before stays read. *)
LEMMA ReadStays ==
  ASSUME UNCHANGED <<files, history>>, NEW path,
         session'.read[path] = session.read[path]
  PROVE  /\ DocumentRead(path) => DocumentRead(path)'
         /\ SideRead(path) => SideRead(path)'
BY DEF DocumentRead, SideRead, Held

LEMMA AssetSteps ==
  /\ AssetsOf["parent"] = "parent assets"
  /\ AssetsOf["candidate"] = "candidate assets"
BY DEF AssetsOf

LEMMA ReadSnapshotKeepsIInv ==
  ASSUME IInv, NEW side \in Range(Sides), ReadSnapshot(side)
  PROVE  IInv'
<1>1. CASE GiveUp
  BY <1>1, GiveUpKeeps
<1>2. CASE /\ files[side] \in Snapshots
           /\ Prepare(AssetsOf[side], Reading(side),
                      files[side].locked \o files[side].mutable)
  <2>1. /\ SessionTyped /\ FilesTyped /\ session.step = side
        /\ Range(Documents) = {"suite", "policy", "manifest", "parent", "candidate"}
        /\ side \in {"parent", "candidate"} /\ side \in Range(Documents)
    BY FiveDocuments DEF IInv, SessionInv, ReadSnapshot
  <2>2. /\ session'.step = AssetsOf[side] /\ session'.read = Reading(side)
        /\ session'.assets = Refs(files[side])
        /\ UNCHANGED <<files, history>>
    BY <1>2, <2>1, PrepareFields DEF Refs
  <2>3. Reading(side) = [p \in Range(Documents) |-> Reading(side)[p]]
    BY <2>1, ReadingFields
  <2>4. /\ session'.read[side] = files[side]
        /\ \A p \in Range(Documents) \ {side} : session'.read[p] = session.read[p]
    BY <2>1, <2>2, ReadingFields
  <2>5. SideBeingRead(side)'
    <3>1. files[side] # NoFile
      BY <1>2, BindingAssumption
    <3>2. Refs(files[side]) \in Seq(AssetRefs)
      BY <1>2, SnapshotRefs
    <3>3. DocumentRead(side)'
      BY <2>1, <2>2, <2>4, <3>1 DEF DocumentRead, Held, FilesTyped
    <3>4. QED
      BY <1>2, <2>2, <2>4, <3>2, <3>3 DEF SideBeingRead
  <2>6. ReadingFollowsSteps'
    <3>1. CASE side = "parent"
      <4>1. DocumentRead("suite") /\ DocumentRead("manifest")
        BY <2>1, <3>1, StepsInOrder DEF IInv, SessionInv, ReadingFollowsSteps
      <4>2. DocumentRead("suite")' /\ DocumentRead("manifest")'
        BY <2>1, <2>2, <2>4, <3>1, <4>1, ReadStays
      <4>3. session'.step = "parent assets"
        BY <2>2, <3>1 DEF AssetsOf
      <4>4. QED
        BY <2>5, <3>1, <4>2, <4>3, StepsInOrder DEF ReadingFollowsSteps
    <3>2. CASE side = "candidate"
      <4>1. DocumentRead("suite") /\ DocumentRead("manifest") /\ SideRead("parent")
        BY <2>1, <3>2, StepsInOrder DEF IInv, SessionInv, ReadingFollowsSteps
      <4>2. DocumentRead("suite")' /\ DocumentRead("manifest")' /\ SideRead("parent")'
        BY <2>1, <2>2, <2>4, <3>2, <4>1, ReadStays
      <4>3. session'.step = "candidate assets"
        BY <2>2, <3>2 DEF AssetsOf
      <4>4. QED
        BY <2>5, <3>2, <4>2, <4>3, StepsInOrder DEF ReadingFollowsSteps
    <3>3. QED
      BY <2>1, <3>1, <3>2
  <2>7. AssetsOf[side] \in Steps \ PastOpen /\ session.step \notin PastOpen
    BY <2>1, StepsInOrder, AssetSteps DEF Steps
  <2>8. QED
    BY <1>2, <2>3, <2>6, <2>7, PrepareKeeps
<1>3. QED
  BY <1>1, <1>2 DEF ReadSnapshot

LEMMA ReadAssetKeepsIInv ==
  ASSUME IInv, NEW side \in Range(Sides), ReadAsset(side)
  PROVE  IInv'
<1>1. CASE GiveUp
  BY <1>1, GiveUpKeeps
<1>2. CASE /\ Holds(Head(session.assets).path, Head(session.assets).sha256)
           /\ Prepare(session.step, session.read, Tail(session.assets))
  <2>1. /\ SessionTyped /\ FilesTyped /\ session.step = AssetsOf[side]
        /\ session.assets # <<>>
        /\ side \in {"parent", "candidate"}
    BY FiveDocuments DEF IInv, SessionInv, ReadAsset
  <2>2. SideBeingRead(side)
    BY <2>1, AssetSteps DEF IInv, SessionInv, ReadingFollowsSteps
  <2>3. /\ session'.step = session.step /\ session'.read = session.read
        /\ session'.assets = Tail(session.assets)
        /\ UNCHANGED <<files, history>>
    BY <1>2, <2>1, PrepareFields
  <2>4. /\ Tail(session.assets) \in Seq(AssetRefs) /\ Head(session.assets) \in AssetRefs
        /\ Range(session.assets) = {Head(session.assets)} \cup Range(Tail(session.assets))
    BY <2>1, <2>2, RangeOfTail DEF SideBeingRead
  <2>5. Held(Head(session.assets).path, Head(session.assets).sha256)
    <3>1. Head(session.assets).sha256 # NoFile
      BY <2>4, BindingAssumption DEF AssetRefs
    <3>2. QED
      BY <1>2, <2>1, <3>1 DEF Held, Holds, FilesTyped
  <2>6. SideBeingRead(side)'
    <3>1. DocumentRead(side)'
      BY <2>2, <2>3, ReadStays DEF SideBeingRead
    <3>2. ASSUME NEW ref \in Range(Refs(session.read[side]))
          PROVE  ref \in Range(Tail(session.assets)) \/ Held(ref.path, ref.sha256)
      BY <2>2, <2>4, <2>5 DEF SideBeingRead
    <3>3. \A ref : Held(ref.path, ref.sha256) => Held(ref.path, ref.sha256)'
      BY <2>3 DEF Held
    <3>4. QED
      BY <2>2, <2>3, <2>4, <3>1, <3>2, <3>3 DEF SideBeingRead
  <2>7. ReadingFollowsSteps'
    <3>1. CASE side = "parent"
      <4>1. session.step = "parent assets"
        BY <2>1, <3>1 DEF AssetsOf
      <4>2. DocumentRead("suite") /\ DocumentRead("manifest")
        BY <4>1, StepsInOrder DEF IInv, SessionInv, ReadingFollowsSteps
      <4>3. DocumentRead("suite")' /\ DocumentRead("manifest")'
        BY <2>3, <4>2, ReadStays
      <4>4. QED
        BY <2>3, <2>6, <3>1, <4>1, <4>3, StepsInOrder DEF ReadingFollowsSteps
    <3>2. CASE side = "candidate"
      <4>1. session.step = "candidate assets"
        BY <2>1, <3>2 DEF AssetsOf
      <4>2. DocumentRead("suite") /\ DocumentRead("manifest") /\ SideRead("parent")
        BY <4>1, StepsInOrder DEF IInv, SessionInv, ReadingFollowsSteps
      <4>3. DocumentRead("suite")' /\ DocumentRead("manifest")' /\ SideRead("parent")'
        BY <2>3, <4>2, ReadStays
      <4>4. QED
        BY <2>3, <2>6, <3>2, <4>1, <4>3, StepsInOrder DEF ReadingFollowsSteps
    <3>3. QED
      BY <2>1, <3>1, <3>2
  <2>8. /\ session.step \in Steps \ PastOpen
        /\ session.read = [path \in Range(Documents) |-> session.read[path]]
    BY <2>1, StepsInOrder, AssetSteps DEF Steps, SessionTyped
  <2>9. QED
    BY <1>2, <2>7, <2>8, PrepareKeeps
<1>3. QED
  BY <1>1, <1>2 DEF ReadAsset

(* A side whose last asset has been read, and that is well formed, is read. *)
LEMMA AllAssetsRead ==
  ASSUME NEW side, SideBeingRead(side), session.assets = <<>>,
         WellFormed(session.read[side])
  PROVE  SideRead(side)
<1>1. Range(session.assets) = {}
  BY DEF Range
<1>2. QED
  BY <1>1 DEF SideBeingRead, SideRead

LEMMA CheckParentKeepsIInv ==
  ASSUME IInv, CheckParent
  PROVE  IInv'
<1>1. CASE GiveUp
  BY <1>1, GiveUpKeeps
<1>2. CASE /\ WellFormed(session.read.parent)
           /\ Prepare("candidate", session.read, <<>>)
  <2>1. SessionTyped /\ session.step = "parent assets" /\ session.assets = <<>>
    BY DEF IInv, SessionInv, CheckParent
  <2>2. /\ session'.step = "candidate" /\ session'.read = session.read
        /\ UNCHANGED <<files, history>>
    BY <1>2, <2>1, PrepareFields
  <2>3. DocumentRead("suite") /\ DocumentRead("manifest") /\ SideBeingRead("parent")
    BY <2>1, StepsInOrder DEF IInv, SessionInv, ReadingFollowsSteps
  <2>4. SideRead("parent")
    BY <1>2, <2>1, <2>3, AllAssetsRead
  <2>5. DocumentRead("suite")' /\ DocumentRead("manifest")' /\ SideRead("parent")'
    BY <2>2, <2>3, <2>4, ReadStays
  <2>6. ReadingFollowsSteps'
    BY <2>2, <2>5, StepsInOrder DEF ReadingFollowsSteps
  <2>7. /\ "candidate" \in Steps \ PastOpen /\ session.step \notin PastOpen
        /\ session.read = [path \in Range(Documents) |-> session.read[path]]
    BY <2>1, StepsInOrder DEF Steps, SessionTyped
  <2>8. QED
    BY <1>2, <2>6, <2>7, PrepareKeeps
<1>3. QED
  BY <1>1, <1>2 DEF CheckParent

LEMMA CheckCandidateKeepsIInv ==
  ASSUME IInv, CheckCandidate
  PROVE  IInv'
<1>1. CASE GiveUp
  BY <1>1, GiveUpKeeps
<1>2. CASE /\ WellFormed(session.read.candidate)
           /\ ValidMutation(session.read.manifest, session.read.parent,
                            session.read.candidate)
           /\ Prepare("policy", session.read, <<>>)
  <2>1. SessionTyped /\ session.step = "candidate assets" /\ session.assets = <<>>
    BY DEF IInv, SessionInv, CheckCandidate
  <2>2. /\ session'.step = "policy" /\ session'.read = session.read
        /\ UNCHANGED <<files, history>>
    BY <1>2, <2>1, PrepareFields
  <2>3. /\ DocumentRead("suite") /\ DocumentRead("manifest") /\ SideRead("parent")
        /\ SideBeingRead("candidate")
    BY <2>1, StepsInOrder DEF IInv, SessionInv, ReadingFollowsSteps
  <2>4. SideRead("candidate")
    BY <1>2, <2>1, <2>3, AllAssetsRead
  <2>5. /\ DocumentRead("suite")' /\ DocumentRead("manifest")' /\ SideRead("parent")'
        /\ SideRead("candidate")'
    BY <2>2, <2>3, <2>4, ReadStays
  <2>6. ReadingFollowsSteps'
    BY <1>2, <2>2, <2>5, StepsInOrder DEF ReadingFollowsSteps
  <2>7. /\ "policy" \in Steps \ PastOpen /\ session.step \notin PastOpen
        /\ session.read = [path \in Range(Documents) |-> session.read[path]]
    BY <2>1, StepsInOrder DEF Steps, SessionTyped
  <2>8. QED
    BY <1>2, <2>6, <2>7, PrepareKeeps
<1>3. QED
  BY <1>1, <1>2 DEF CheckCandidate

LEMMA ReadPolicyKeepsIInv ==
  ASSUME IInv, ReadPolicy
  PROVE  IInv'
<1>1. CASE GiveUp
  BY <1>1, GiveUpKeeps
<1>2. CASE Prepare("open", Reading("policy"), <<>>) /\ files.policy # NoFile
  <2>1. /\ SessionTyped /\ FilesTyped /\ session.step = "policy"
        /\ Range(Documents) = {"suite", "policy", "manifest", "parent", "candidate"}
    BY FiveDocuments DEF IInv, SessionInv, ReadPolicy
  <2>2. /\ session'.step = "open" /\ session'.read = Reading("policy")
        /\ UNCHANGED <<files, history>>
    BY <1>2, <2>1, PrepareFields
  <2>3. Reading("policy") = [p \in Range(Documents) |-> Reading("policy")[p]]
    BY <2>1, ReadingFields
  <2>4. /\ session'.read["policy"] = files["policy"]
        /\ session'.read["suite"] = session.read["suite"]
        /\ session'.read["manifest"] = session.read["manifest"]
        /\ session'.read["parent"] = session.read["parent"]
        /\ session'.read["candidate"] = session.read["candidate"]
    BY <2>1, <2>2, ReadingFields
  <2>5. /\ DocumentRead("suite") /\ DocumentRead("manifest")
        /\ SideRead("parent") /\ SideRead("candidate")
        /\ ValidMutation(session.read.manifest, session.read.parent,
                         session.read.candidate)
    BY <2>1, StepsInOrder DEF IInv, SessionInv, ReadingFollowsSteps
  <2>6. /\ DocumentRead("suite")' /\ DocumentRead("manifest")'
        /\ SideRead("parent")' /\ SideRead("candidate")'
    BY <2>2, <2>4, <2>5, ReadStays
  <2>7. DocumentRead("policy")'
    BY <1>2, <2>1, <2>2, <2>4 DEF DocumentRead, Held, FilesTyped
  <2>8. ReadingFollowsSteps'
    BY <2>2, <2>4, <2>5, <2>6, <2>7, StepsInOrder DEF ReadingFollowsSteps
  <2>9. "open" \in Steps \ PastOpen /\ session.step \notin PastOpen
    BY <2>1, StepsInOrder DEF Steps
  <2>10. QED
    BY <1>2, <2>3, <2>8, <2>9, PrepareKeeps
<1>3. QED
  BY <1>1, <1>2 DEF ReadPolicy

-----------------------------------------------------------------------------
(* Run and Resume *)

(* Once everything has been read the bundle is whole, and every input it   *)
(* expects has been in the files.                                          *)
LEMMA ReadIsPrepared ==
  ASSUME SessionTyped, ReadingFollowsSteps, session.step \in PastPolicy
  PROVE  /\ Prepared(session.read)
         /\ \A role \in DOMAIN Expected(session.read) :
              Held(Source(session.read, role), Expected(session.read)[role])
<1>1. /\ DocumentRead("suite") /\ DocumentRead("manifest") /\ DocumentRead("policy")
      /\ SideRead("parent") /\ SideRead("candidate")
      /\ ValidMutation(session.read.manifest, session.read.parent,
                       session.read.candidate)
  BY StepsInOrder DEF ReadingFollowsSteps
<1>2. \A path \in Range(Documents) : DocumentRead(path)
  BY <1>1, FiveDocuments DEF SideRead
<1>3. \A side \in Range(Sides) : SideRead(side)
  BY <1>1, FiveDocuments
<1>4. Prepared(session.read)
  <2>1. session.read = [path \in Range(Documents) |-> session.read[path]]
    BY DEF SessionTyped
  <2>2. \A path \in Range(Documents) : session.read[path] # NoFile
    BY <1>2 DEF DocumentRead, Held
  <2>3. \A side \in Range(Sides) :
          session.read[side] \in Snapshots /\ WellFormed(session.read[side])
    BY <1>3 DEF SideRead
  <2>4. QED
    BY <1>1, <2>1, <2>2, <2>3 DEF Prepared
<1>5. ASSUME NEW role \in DOMAIN Expected(session.read)
      PROVE  Held(Source(session.read, role), Expected(session.read)[role])
  <2>1. CASE \E path \in Range(Documents) : role = <<"file", path>>
    <3>1. PICK path \in Range(Documents) : role = <<"file", path>>
      BY <2>1
    <3>2. /\ Expected(session.read)[role] = session.read[path]
          /\ Source(session.read, role) = path
      BY <1>4, <3>1, ExpectedOfFile
    <3>3. QED
      BY <1>2, <3>2 DEF DocumentRead
  <2>2. CASE \E side \in Range(Sides) : \E ref \in Range(Refs(session.read[side])) :
               role = <<side, ref.name>>
    <3>0. PICK side \in Range(Sides) :
            \E ref \in Range(Refs(session.read[side])) : role = <<side, ref.name>>
      BY <2>2
    <3>1. PICK ref \in Range(Refs(session.read[side])) : role = <<side, ref.name>>
      BY <3>0
    <3>2. /\ Expected(session.read)[role] = ref.sha256
          /\ Source(session.read, role) = ref.path
      BY <1>4, <3>1, ExpectedOfAsset
    <3>3. QED
      BY <1>3, <3>2 DEF SideRead
  <2>3. QED
    BY <1>4, <2>1, <2>2, ExpectedRoles
<1>6. QED
  BY <1>4, <1>5

LEMMA GotoFields ==
  ASSUME SessionTyped, NEW step, Goto(step)
  PROVE  /\ session' = [step |-> step, request |-> session.request, plan |-> session.plan,
                        read |-> session.read, assets |-> session.assets,
                        next |-> session.next]
         /\ session'.step = step /\ session'.read = session.read
         /\ session'.plan = session.plan /\ session'.assets = session.assets
         /\ session'.request = session.request /\ session'.next = session.next
BY DEF SessionTyped, Goto

LEMMA GotoTyped ==
  ASSUME SessionTyped, NEW step \in PastOpen, Goto(step)
  PROVE  SessionTyped'
<1>1. /\ session' = [step |-> step, request |-> session.request, plan |-> session.plan,
                     read |-> session.read, assets |-> session.assets,
                     next |-> session.next]
      /\ session'.step = step /\ session'.read = session.read
      /\ session'.plan = session.plan /\ session'.assets = session.assets
      /\ session'.request = session.request /\ session'.next = session.next
  BY GotoFields
<1>2. step \in Steps
  BY StepsInOrder DEF Steps
<1>3. session.next \in Nat /\ session.read = [path \in Range(Documents) |-> session.read[path]]
  BY DEF SessionTyped
<1>4. QED
  BY <1>1, <1>2, <1>3 DEF SessionTyped

(* Going on after everything has been read forgets nothing of it. *)
LEMMA ReadingGoesOn ==
  ASSUME ReadingFollowsSteps, session.step \in PastPolicy, session'.step \in PastPolicy,
         session'.read = session.read, UNCHANGED <<files, history>>
  PROVE  ReadingFollowsSteps'
<1>1. /\ DocumentRead("suite") /\ DocumentRead("manifest") /\ DocumentRead("policy")
      /\ SideRead("parent") /\ SideRead("candidate")
      /\ ValidMutation(session.read.manifest, session.read.parent,
                       session.read.candidate)
  BY StepsInOrder DEF ReadingFollowsSteps
<1>2. /\ DocumentRead("suite")' /\ DocumentRead("manifest")' /\ DocumentRead("policy")'
      /\ SideRead("parent")' /\ SideRead("candidate")'
  BY <1>1, ReadStays
<1>3. QED
  BY <1>1, <1>2, StepsInOrder DEF ReadingFollowsSteps

LEMMA CreateRunKeepsIInv ==
  ASSUME IInv, CreateRun
  PROVE  IInv'
<1>1. /\ FilesTyped /\ BudgetTyped /\ SessionTyped /\ ReadingFollowsSteps
      /\ BoundIsExpected
      /\ session.step = "open" /\ session.next = 1
  BY StepsInOrder DEF IInv, SessionInv, SessionTyped, DirectoryInv, CreateRun
<1>2. /\ Goto("bind") /\ state = "none" /\ state' = "active" /\ bound' = bound
      /\ config' = ConfigOf(session.read, session.plan)
      /\ UNCHANGED <<files, history, ran, budget>>
  BY DEF CreateRun, Store!Create, world
<1>3. bound = <<>> /\ ran = {} /\ bound' = <<>> /\ ran' = {}
  BY <1>1, <1>2 DEF BoundIsExpected
<1>4. /\ Prepared(session.read)
      /\ \A role \in DOMAIN Expected(session.read) :
           Held(Source(session.read, role), Expected(session.read)[role])
  BY <1>1, StepsInOrder, ReadIsPrepared
<1>5. /\ config'.inputs = Expected(session.read)
      /\ DocumentsOf(config'.inputs) = session.read
  BY <1>2, <1>4, DocumentsOfExpected DEF ConfigOf
<1>6. /\ session'.step = "bind" /\ session'.read = session.read
      /\ session'.plan = session.plan /\ session'.next = 1
  BY <1>1, <1>2, GotoFields
<1>7. SessionInv'
  <2>1. SessionTyped'
    BY <1>1, <1>2, StepsInOrder, GotoTyped
  <2>2. ReadingFollowsSteps'
    BY <1>1, <1>2, <1>6, StepsInOrder, ReadingGoesOn
  <2>3. BindingFollowsConfig' /\ FailingForEdits'
    BY <1>2, <1>6 DEF BindingFollowsConfig, FailingForEdits
  <2>4. BoundUpToNext'
    <3>1. BindingOrder(session.read) \in Seq(RolesOf(session.read))
      BY <1>4, OrderCovers
    <3>2. \A i \in DOMAIN BindingOrder(session.read) : ~ (i < 1)
      BY <3>1
    <3>3. QED
      BY <1>6, <3>2 DEF BoundUpToNext
  <2>5. QED
    BY <2>1, <2>2, <2>3, <2>4 DEF SessionInv
<1>8. DirectoryInv'
  <2>1. BoundIsExpected'
    BY <1>2, <1>3 DEF BoundIsExpected
  <2>2. ConfigIsOfABundle'
    BY <1>4, <1>5 DEF ConfigIsOfABundle, Inputs
  <2>3. InputsHeld'
    BY <1>2, <1>3, <1>4, <1>5 DEF InputsHeld, Inputs, SourceOf, Held
  <2>4. HasMoment'
    BY <1>1, <1>2, <1>3 DEF HasMoment, HeldAtOnce, Inputs, SourceOf, FilesTyped
  <2>5. RanAsConfigured' /\ BoundIsOneMoment' /\ FailedForEdits'
    BY <1>2, <1>3 DEF RanAsConfigured, BoundIsOneMoment, FailedForEdits
  <2>6. QED
    BY <2>1, <2>2, <2>3, <2>4, <2>5 DEF DirectoryInv
<1>9. FilesTyped' /\ BudgetTyped'
  BY <1>1, <1>2, FilesFrame, BudgetFrame
<1>10. QED
  BY <1>7, <1>8, <1>9 DEF IInv

LEMMA ResumeRunKeepsIInv ==
  ASSUME IInv, ResumeRun
  PROVE  IInv'
<1>1. /\ FilesTyped /\ BudgetTyped /\ SessionTyped /\ ReadingFollowsSteps /\ DirectoryInv
      /\ session.step = "open" /\ session.next = 1
  BY StepsInOrder DEF IInv, SessionInv, SessionTyped, ResumeRun
<1>2. /\ Goto("bind") /\ state = "active"
      /\ config = ConfigOf(session.read, session.plan)
      /\ UNCHANGED <<files, history, state, config, bound, ran, budget>>
  BY DEF ResumeRun, Resumable, SameConfig, world, directory
<1>3. /\ session'.step = "bind" /\ session'.read = session.read
      /\ session'.plan = session.plan /\ session'.next = 1
  BY <1>1, <1>2, GotoFields
<1>4. SessionInv'
  <2>1. SessionTyped'
    BY <1>1, <1>2, StepsInOrder, GotoTyped
  <2>2. ReadingFollowsSteps'
    BY <1>1, <1>2, <1>3, StepsInOrder, ReadingGoesOn
  <2>3. BindingFollowsConfig' /\ FailingForEdits'
    BY <1>2, <1>3 DEF BindingFollowsConfig, FailingForEdits
  <2>4. BoundUpToNext'
    <3>1. BindingOrder(session.read) \in Seq(RolesOf(session.read))
      BY <1>1, StepsInOrder, ReadIsPrepared, OrderCovers
    <3>2. \A i \in DOMAIN BindingOrder(session.read) : ~ (i < 1)
      BY <3>1
    <3>3. QED
      BY <1>3, <3>2 DEF BoundUpToNext
  <2>5. QED
    BY <2>1, <2>2, <2>3, <2>4 DEF SessionInv
<1>5. FilesTyped' /\ BudgetTyped' /\ NoFaultForgotten
  BY <1>1, <1>2, FilesFrame, BudgetFrame
<1>6. DirectoryInv'
  BY <1>1, <1>2, <1>5, DirectoryFrame
<1>7. QED
  BY <1>4, <1>5, <1>6 DEF IInv

LEMMA RefuseOpenKeepsIInv ==
  ASSUME IInv, RefuseOpen
  PROVE  IInv'
BY GiveUpKeeps DEF RefuseOpen

-----------------------------------------------------------------------------
(* bindInputs *)

(* While a session binds, what the run expects is what the session read. *)
LEMMA WhileBinding ==
  ASSUME SessionInv, session.step \in PastOpen
  PROVE  /\ Prepared(session.read)
         /\ Inputs = Expected(session.read)
         /\ DocumentsOf(Inputs) = session.read
         /\ state = "active"
         /\ DOMAIN Inputs = Range(BindingOrder(session.read))
         /\ DOMAIN BindingOrder(session.read) \subseteq Nat
<1>1. Prepared(session.read)
  BY ReadIsPrepared, StepsInOrder DEF SessionInv
<1>2. state = "active" /\ config = ConfigOf(session.read, session.plan)
  BY DEF SessionInv, BindingFollowsConfig
<1>3. Inputs = Expected(session.read)
  BY <1>2 DEF ConfigOf, Inputs
<1>4. BindingOrder(session.read) \in Seq(RolesOf(session.read))
  BY <1>1, OrderCovers
<1>5. DOMAIN BindingOrder(session.read) \subseteq Nat
  BY <1>4
<1>6. DOMAIN Inputs = Range(BindingOrder(session.read))
  BY <1>3 DEF Expected
<1>7. QED
  BY <1>1, <1>2, <1>3, <1>5, <1>6, DocumentsOfExpected

(* An input of a run that is not there now shows an edit. *)
LEMMA EditSeen ==
  ASSUME DirectoryInv, state # "none", NEW role \in DOMAIN Inputs,
         files[SourceOf(role)] # Inputs[role]
  PROVE  SomeEdit
BY DEF DirectoryInv, InputsHeld, SomeEdit

LEMMA RoleIsExpected ==
  ASSUME IInv, session.step \in PastOpen,
         session.next \in DOMAIN BindingOrder(session.read)
  PROVE  /\ Role \in DOMAIN Inputs
         /\ Wanted[Role] = Inputs[Role]
         /\ Source(session.read, Role) = SourceOf(Role)
<1>1. /\ Inputs = Expected(session.read) /\ DocumentsOf(Inputs) = session.read
      /\ DOMAIN Inputs = Range(BindingOrder(session.read))
  BY WhileBinding DEF IInv
<1>2. Role \in Range(BindingOrder(session.read))
  BY DEF Role, Order, Range
<1>3. QED
  BY <1>1, <1>2 DEF Wanted, SourceOf

(* A binding session that goes to "fail". *)
LEMMA GotoFailKeeps ==
  ASSUME IInv, session.step \in PastOpen, Goto("fail"),
         UNCHANGED <<files, history, state, config>>,
         budget'.faults = 0 => SomeEdit
  PROVE  SessionInv'
<1>1. SessionTyped /\ ReadingFollowsSteps /\ BindingFollowsConfig
  BY DEF IInv, SessionInv
<1>2. /\ session'.step = "fail" /\ session'.read = session.read
      /\ session'.plan = session.plan
  BY <1>1, GotoFields
<1>3. SessionTyped'
  BY <1>1, StepsInOrder, GotoTyped
<1>4. ReadingFollowsSteps'
  BY <1>1, <1>2, StepsInOrder, ReadingGoesOn
<1>5. BindingFollowsConfig'
  BY <1>1, <1>2 DEF BindingFollowsConfig
<1>6. BoundUpToNext'
  BY <1>2 DEF BoundUpToNext
<1>7. FailingForEdits'
  BY <1>2 DEF FailingForEdits, SomeEdit, Inputs, SourceOf, Held
<1>8. QED
  BY <1>3, <1>4, <1>5, <1>6, <1>7 DEF SessionInv

(* A binding session that has the input it is at, as expected, goes on. *)
LEMMA NextInputKeeps ==
  ASSUME IInv, session.step \in {"bind", "copied"}, NextInput,
         session.next \in DOMAIN BindingOrder(session.read),
         Role \in DOMAIN bound, bound[Role] = Wanted[Role],
         UNCHANGED <<files, history, state, config, bound>>
  PROVE  SessionInv'
<1>1. SessionTyped /\ ReadingFollowsSteps /\ BindingFollowsConfig /\ BoundUpToNext
  BY DEF IInv, SessionInv
<1>2. /\ session' = [step |-> "bind", request |-> session.request, plan |-> session.plan,
                     read |-> session.read, assets |-> session.assets,
                     next |-> session.next + 1]
      /\ session'.step = "bind" /\ session'.read = session.read
      /\ session'.plan = session.plan /\ session'.next = session.next + 1
  BY <1>1 DEF SessionTyped, NextInput
<1>3. SessionTyped'
  <2>1. "bind" \in Steps /\ "bind" \in PastOpen
    BY StepsInOrder DEF Steps
  <2>2. /\ session.next + 1 \in Nat
        /\ session.read = [path \in Range(Documents) |-> session.read[path]]
    BY <1>1 DEF SessionTyped
  <2>3. QED
    BY <1>2, <2>1, <2>2 DEF SessionTyped
<1>4. ReadingFollowsSteps'
  BY <1>1, <1>2, StepsInOrder, ReadingGoesOn
<1>5. BindingFollowsConfig'
  BY <1>1, <1>2, StepsInOrder DEF BindingFollowsConfig
<1>6. BoundUpToNext'
  <2>1. ASSUME NEW i \in DOMAIN BindingOrder(session.read), i < session.next + 1
        PROVE  LET role == BindingOrder(session.read)[i]
               IN  role \in DOMAIN bound /\ bound[role] = Expected(session.read)[role]
    <3>1. i \in Nat /\ session.next \in Nat
      BY <1>1, WhileBinding, StepsInOrder DEF IInv, SessionTyped
    <3>2. CASE i < session.next
      BY <1>1, <3>2 DEF BoundUpToNext
    <3>3. CASE i = session.next
      BY <3>3 DEF Role, Order, Wanted
    <3>4. QED
      BY <2>1, <3>1, <3>2, <3>3
  <2>2. QED
    BY <1>2, <2>1 DEF BoundUpToNext
<1>7. FailingForEdits'
  BY <1>2 DEF FailingForEdits
<1>8. QED
  BY <1>3, <1>4, <1>5, <1>6, <1>7 DEF SessionInv

(* An input bound with other bytes than expected shows an edit. *)
LEMMA BoundElsewise ==
  ASSUME IInv, session.step \in PastOpen,
         session.next \in DOMAIN BindingOrder(session.read),
         Role \in DOMAIN bound, bound[Role] # Wanted[Role]
  PROVE  SomeEdit
<1>1. state # "none" /\ DirectoryInv
  BY WhileBinding DEF IInv
<1>2. Role \in DOMAIN Inputs /\ bound[Role] # Inputs[Role]
  BY RoleIsExpected
<1>3. files[SourceOf(Role)] # Inputs[Role]
  BY <1>1, <1>2 DEF DirectoryInv, InputsHeld
<1>4. QED
  BY <1>1, <1>2, <1>3, EditSeen

LEMMA ReuseInputKeepsIInv ==
  ASSUME IInv, ReuseInput
  PROVE  IInv'
<1>1. /\ session.step \in PastOpen /\ session.step = "bind"
      /\ session.next \in DOMAIN BindingOrder(session.read) /\ Role \in DOMAIN bound
      /\ UNCHANGED <<files, history, state, config, bound, ran, budget>>
  BY StepsInOrder DEF ReuseInput, AtInput, Order, world, directory
<1>2. FilesTyped' /\ BudgetTyped' /\ NoFaultForgotten
  BY <1>1, FilesFrame, BudgetFrame DEF IInv
<1>3. DirectoryInv'
  BY <1>1, <1>2, DirectoryFrame DEF IInv
<1>4. SessionInv'
  <2>1. CASE bound[Role] = Wanted[Role] /\ NextInput
    BY <1>1, <2>1, NextInputKeeps
  <2>2. CASE bound[Role] # Wanted[Role] /\ Goto("fail")
    BY <1>1, <2>2, BoundElsewise, GotoFailKeeps
  <2>3. QED
    BY <2>1, <2>2 DEF ReuseInput
<1>5. QED
  BY <1>2, <1>3, <1>4 DEF IInv

LEMMA MissSourceKeepsIInv ==
  ASSUME IInv, MissSource
  PROVE  IInv'
<1>1. /\ session.step \in PastOpen /\ Goto("fail")
      /\ session.next \in DOMAIN BindingOrder(session.read)
      /\ files[Source(session.read, Role)] = NoFile
      /\ UNCHANGED <<files, history, state, config, bound, ran, budget>>
  BY StepsInOrder
  DEF MissSource, Uncopied, AtInput, Order, SourceOfRole, world, directory
<1>2. FilesTyped' /\ BudgetTyped' /\ NoFaultForgotten
  BY <1>1, FilesFrame, BudgetFrame DEF IInv
<1>3. DirectoryInv'
  BY <1>1, <1>2, DirectoryFrame DEF IInv
<1>4. SomeEdit
  <2>1. Role \in DOMAIN Inputs /\ Source(session.read, Role) = SourceOf(Role)
    BY <1>1, RoleIsExpected
  <2>2. Inputs[Role] # NoFile
    BY <1>1, <2>1, WhileBinding DEF IInv, DirectoryInv, InputsHeld, Held
  <2>3. state # "none" /\ DirectoryInv
    BY <1>1, WhileBinding DEF IInv
  <2>4. QED
    BY <1>1, <2>1, <2>2, <2>3, EditSeen
<1>5. SessionInv'
  BY <1>1, <1>4, GotoFailKeeps
<1>6. QED
  BY <1>2, <1>3, <1>5 DEF IInv

LEMMA CancelCopyKeepsIInv ==
  ASSUME IInv, CancelCopy
  PROVE  IInv'
<1>1. Return /\ UNCHANGED <<files, history, state, config, bound, ran, budget>>
  BY DEF CancelCopy, world, directory
<1>2. BudgetTyped' /\ NoFaultForgotten
  BY <1>1, BudgetFrame DEF IInv
<1>3. QED
  BY <1>1, <1>2, ReturnKeeps

(* Inputs leave, or enter as the files hold them now. *)
LEMMA BoundChanges ==
  ASSUME FilesTyped, DirectoryInv, state = "active",
         UNCHANGED <<files, history, state, config, ran>>,
         bound' = [role \in DOMAIN bound' |-> bound'[role]],
         \A role \in DOMAIN bound' :
           /\ role \in DOMAIN Inputs
           /\ \/ role \in DOMAIN bound /\ bound'[role] = bound[role]
              \/ bound'[role] = files[SourceOf(role)]
  PROVE  DirectoryInv'
<1>1. BoundIsExpected'
  BY DEF BoundIsExpected, Inputs
<1>2. ConfigIsOfABundle'
  BY DEF DirectoryInv, ConfigIsOfABundle, Inputs
<1>3. InputsHeld'
  <2>1. \A role \in DOMAIN Inputs : Held(SourceOf(role), Inputs[role])
    BY DEF DirectoryInv, InputsHeld
  <2>2. \A role \in DOMAIN bound :
          bound[role] = Inputs[role] \/ files[SourceOf(role)] # Inputs[role]
    BY DEF DirectoryInv, InputsHeld
  <2>3. \A role \in DOMAIN bound' :
          bound'[role] = Inputs[role] \/ files[SourceOf(role)] # Inputs[role]
    BY <2>2
  <2>4. QED
    BY <2>1, <2>3 DEF InputsHeld, Held, Inputs, SourceOf
<1>4. HasMoment'
  <2>1. PICK moment \in history : HeldAtOnce(moment)
    BY DEF DirectoryInv, HasMoment
  <2>2. ASSUME NEW role \in DOMAIN Inputs
        PROVE  /\ moment[SourceOf(role)] = Inputs[role]
                    \/ files[SourceOf(role)] # Inputs[role]
               /\ role \in DOMAIN bound' /\ bound'[role] = Inputs[role] =>
                    moment[SourceOf(role)] = Inputs[role]
    BY <2>1 DEF HeldAtOnce
  <2>3. HeldAtOnce(moment)'
    BY <2>2 DEF HeldAtOnce, Inputs, SourceOf
  <2>4. QED
    BY <2>3 DEF HasMoment
<1>5. RanAsConfigured' /\ BoundIsOneMoment'
  BY DEF DirectoryInv, RanAsConfigured, Inputs, BoundIsOneMoment
<1>6. FailedForEdits'
  BY DEF FailedForEdits
<1>7. QED
  BY <1>1, <1>2, <1>3, <1>4, <1>5, <1>6 DEF DirectoryInv

LEMMA CommitInputKeepsIInv ==
  ASSUME IInv, CommitInput
  PROVE  IInv'
<1> DEFINE content == files[Source(session.read, Role)]
<1>1. /\ session.step \in PastOpen /\ session.step = "bind" /\ Goto("copied")
      /\ session.next \in DOMAIN BindingOrder(session.read)
      /\ Role \notin DOMAIN bound /\ bound' = BoundAnd(Role, content)
      /\ UNCHANGED <<files, history, state, config, ran, budget>>
  BY StepsInOrder
  DEF CommitInput, Uncopied, AtInput, Order, SourceOfRole, Store!Enter, world
<1>2. /\ SessionTyped /\ ReadingFollowsSteps /\ BindingFollowsConfig /\ BoundUpToNext
      /\ FilesTyped /\ DirectoryInv /\ state = "active"
  BY <1>1, WhileBinding DEF IInv, SessionInv
<1>3. /\ bound' = [role \in DOMAIN bound' |-> bound'[role]]
      /\ DOMAIN bound' = DOMAIN bound \cup {Role}
      /\ bound'[Role] = content
      /\ \A role \in DOMAIN bound : bound'[role] = bound[role]
  BY <1>1 DEF BoundAnd
<1>4. Role \in DOMAIN Inputs /\ content = files[SourceOf(Role)]
  BY <1>1, RoleIsExpected
<1>5. DirectoryInv'
  <2>1. DOMAIN bound \subseteq DOMAIN Inputs
    BY <1>2 DEF DirectoryInv, BoundIsExpected
  <2>2. \A role \in DOMAIN bound' :
          /\ role \in DOMAIN Inputs
          /\ \/ role \in DOMAIN bound /\ bound'[role] = bound[role]
             \/ bound'[role] = files[SourceOf(role)]
    BY <1>3, <1>4, <2>1
  <2>3. QED
    BY <1>1, <1>2, <1>3, <2>2, BoundChanges
<1>6. /\ session'.step = "copied" /\ session'.read = session.read
      /\ session'.plan = session.plan /\ session'.next = session.next
  BY <1>1, <1>2, GotoFields
<1>7. SessionInv'
  <2>1. SessionTyped'
    BY <1>1, <1>2, StepsInOrder, GotoTyped
  <2>2. ReadingFollowsSteps'
    BY <1>1, <1>2, <1>6, StepsInOrder, ReadingGoesOn
  <2>3. BindingFollowsConfig' /\ FailingForEdits'
    BY <1>1, <1>2, <1>6 DEF BindingFollowsConfig, FailingForEdits
  <2>4. BoundUpToNext'
    BY <1>1, <1>2, <1>3, <1>6 DEF BoundUpToNext, Role, Order
  <2>5. QED
    BY <2>1, <2>2, <2>3, <2>4 DEF SessionInv
<1>8. FilesTyped' /\ BudgetTyped'
  BY <1>1, FilesFrame, BudgetFrame DEF IInv
<1>9. QED
  BY <1>5, <1>7, <1>8 DEF IInv

LEMMA FinishCopyKeepsIInv ==
  ASSUME IInv, FinishCopy
  PROVE  IInv'
<1>1. /\ session.step \in PastOpen /\ session.step = "copied"
      /\ UNCHANGED <<files, history, state, config, bound, ran, budget>>
  BY StepsInOrder DEF FinishCopy, Copied, Store!Keep, world
<1>2. session.next \in DOMAIN BindingOrder(session.read) /\ Role \in DOMAIN bound
  BY <1>1 DEF IInv, SessionInv, BoundUpToNext, Role, Order
<1>3. FilesTyped' /\ BudgetTyped' /\ NoFaultForgotten
  BY <1>1, FilesFrame, BudgetFrame DEF IInv
<1>4. DirectoryInv'
  BY <1>1, <1>3, DirectoryFrame DEF IInv
<1>5. SessionInv'
  <2>1. CASE bound[Role] = Wanted[Role] /\ NextInput
    BY <1>1, <1>2, <2>1, NextInputKeeps
  <2>2. CASE bound[Role] # Wanted[Role] /\ Goto("fail")
    BY <1>1, <1>2, <2>2, BoundElsewise, GotoFailKeeps
  <2>3. QED
    BY <2>1, <2>2 DEF FinishCopy
<1>6. QED
  BY <1>3, <1>4, <1>5 DEF IInv

LEMMA FailCopyKeepsIInv ==
  ASSUME IInv, FailCopy
  PROVE  IInv'
<1>1. /\ session.step \in PastOpen /\ Fault /\ Goto("fail")
      /\ UNCHANGED <<files, history, state, config, ran>>
  BY StepsInOrder DEF FailCopy, Uncopied, AtInput, Copied, Store!Withdraw, world, directory
<1>2. BudgetTyped' /\ budget'.faults # 0 /\ NoFaultForgotten
  BY <1>1, FaultFields DEF IInv
<1>3. FilesTyped' /\ SessionInv'
  BY <1>1, <1>2, FilesFrame, GotoFailKeeps DEF IInv
<1>4. DirectoryInv'
  <2>1. CASE bound' = bound
    BY <1>1, <1>2, <2>1, DirectoryFrame DEF IInv
  <2>2. CASE bound' = Restrict(bound, DOMAIN bound \ {Role})
    <3>1. /\ bound' = [role \in DOMAIN bound' |-> bound'[role]]
          /\ \A role \in DOMAIN bound' : role \in DOMAIN bound /\ bound'[role] = bound[role]
      BY <2>2 DEF Restrict
    <3>2. /\ state = "active" /\ DOMAIN bound \subseteq DOMAIN Inputs
          /\ FilesTyped /\ DirectoryInv
      BY <1>1, WhileBinding DEF IInv, DirectoryInv, BoundIsExpected
    <3>3. \A role \in DOMAIN bound' :
            /\ role \in DOMAIN Inputs
            /\ \/ role \in DOMAIN bound /\ bound'[role] = bound[role]
               \/ bound'[role] = files[SourceOf(role)]
      BY <3>1, <3>2
    <3>4. QED
      BY <1>1, <3>1, <3>2, <3>3, BoundChanges
  <2>3. QED
    BY <2>1, <2>2 DEF FailCopy, directory
<1>5. QED
  BY <1>2, <1>3, <1>4 DEF IInv

LEMMA VerifyInputsKeepsIInv ==
  ASSUME IInv, VerifyInputs
  PROVE  IInv'
<1>1. /\ session.step \in PastOpen /\ session.step = "bind"
      /\ session.next = Len(BindingOrder(session.read)) + 1
      /\ UNCHANGED <<files, history, state, config, bound, ran, budget>>
  BY StepsInOrder DEF VerifyInputs, Order, world, directory
<1>2. /\ Prepared(session.read) /\ Inputs = Expected(session.read)
      /\ DOMAIN Inputs = Range(BindingOrder(session.read)) /\ state = "active"
  BY <1>1, WhileBinding DEF IInv
<1>3. SessionTyped /\ ReadingFollowsSteps /\ BindingFollowsConfig /\ BoundUpToNext
  BY DEF IInv, SessionInv
<1>4. bound = Expected(session.read)
  <2>1. BindingOrder(session.read) \in Seq(RolesOf(session.read))
    BY <1>2, OrderCovers
  <2>2. \A i \in DOMAIN BindingOrder(session.read) : i < session.next
    BY <1>1, <2>1
  <2>3. \A role \in DOMAIN Inputs :
          role \in DOMAIN bound /\ bound[role] = Expected(session.read)[role]
    BY <1>1, <1>2, <1>3, <2>2 DEF BoundUpToNext, Range
  <2>4. /\ bound = [role \in DOMAIN bound |-> bound[role]]
        /\ DOMAIN bound \subseteq DOMAIN Inputs
    BY <1>2 DEF IInv, DirectoryInv, BoundIsExpected
  <2>5. Expected(session.read) =
          [role \in DOMAIN Expected(session.read) |-> Expected(session.read)[role]]
    BY DEF Expected
  <2>6. QED
    BY <1>2, <2>3, <2>4, <2>5
<1>5. Goto("execute")
  BY <1>4 DEF VerifyInputs, Wanted
<1>6. /\ session'.step = "execute" /\ session'.read = session.read
      /\ session'.plan = session.plan
  BY <1>3, <1>5, GotoFields
<1>7. SessionInv'
  <2>1. SessionTyped'
    BY <1>3, <1>5, StepsInOrder, GotoTyped
  <2>2. ReadingFollowsSteps'
    BY <1>1, <1>3, <1>6, StepsInOrder, ReadingGoesOn
  <2>3. BindingFollowsConfig' /\ FailingForEdits'
    BY <1>1, <1>3, <1>6 DEF BindingFollowsConfig, FailingForEdits
  <2>4. BoundUpToNext'
    BY <1>1, <1>4, <1>6 DEF BoundUpToNext
  <2>5. QED
    BY <2>1, <2>2, <2>3, <2>4 DEF SessionInv
<1>8. FilesTyped' /\ BudgetTyped' /\ NoFaultForgotten
  BY <1>1, FilesFrame, BudgetFrame DEF IInv
<1>9. DirectoryInv'
  BY <1>1, <1>8, DirectoryFrame DEF IInv
<1>10. QED
  BY <1>7, <1>8, <1>9 DEF IInv

(* The run fails, for the reason that led here; or failing it fails. *)
LEMMA FailRunKeepsIInv ==
  ASSUME IInv, FailRun
  PROVE  IInv'
<1>1. Return /\ session.step = "fail" /\ UNCHANGED <<files, history, config, bound, ran>>
  BY DEF FailRun, Store!Finish, world, directory
<1>2. CASE state' = "failed" /\ budget' = budget
  <2>1. /\ FilesTyped' /\ BudgetTyped' /\ SessionInv'
    BY <1>1, <1>2, FilesFrame, BudgetFrame, IdleSession DEF IInv, Return
  <2>2. state # "none" /\ DirectoryInv
    BY <1>1, StepsInOrder, WhileBinding DEF IInv
  <2>3. BoundIsExpected'
    BY <1>1, <1>2, <2>2 DEF DirectoryInv, BoundIsExpected, Inputs
  <2>4. ConfigIsOfABundle'
    BY <1>1, <1>2, <2>2 DEF DirectoryInv, ConfigIsOfABundle, Inputs
  <2>5. InputsHeld'
    BY <1>1, <1>2, <2>2 DEF DirectoryInv, InputsHeld, Inputs, SourceOf, Held
  <2>6. HasMoment'
    BY <1>1, <1>2, <2>2 DEF DirectoryInv, HasMoment, HeldAtOnce, Inputs, SourceOf
  <2>7. RanAsConfigured' /\ BoundIsOneMoment'
    BY <1>1, <2>2 DEF DirectoryInv, RanAsConfigured, Inputs, BoundIsOneMoment
  <2>8. FailedForEdits'
    BY <1>1, <1>2 DEF IInv, SessionInv, FailingForEdits, SomeEdit, FailedForEdits,
                           Inputs, SourceOf, Held
  <2>9. QED
    BY <2>1, <2>3, <2>4, <2>5, <2>6, <2>7, <2>8 DEF IInv, DirectoryInv
<1>3. CASE Fault /\ UNCHANGED directory
  <2>1. BudgetTyped' /\ NoFaultForgotten
    BY <1>3, FaultFields DEF IInv
  <2>2. UNCHANGED state
    BY <1>3 DEF directory
  <2>3. QED
    BY <1>1, <2>1, <2>2, ReturnKeeps
<1>4. QED
  BY <1>2, <1>3 DEF FailRun, Store!Finish

(* What is about to run is what the files held when the run was created.   *)
LEMMA ExecuteOneMoment ==
  ASSUME IInv, session.step = "execute"
  PROVE  /\ bound = Inputs /\ session.plan = config.plan /\ state = "active"
         /\ \E moment \in history :
              /\ HeldAt(moment, bound)
              /\ Loads(moment.manifest, moment.parent, moment.candidate, moment)
<1> DEFINE read == session.read
<1>1. /\ Prepared(read) /\ Inputs = Expected(read) /\ DocumentsOf(Inputs) = read
      /\ state = "active"
  BY StepsInOrder, WhileBinding DEF IInv
<1>2. bound = Inputs
  BY <1>1 DEF IInv, SessionInv, BoundUpToNext
<1>3. config = ConfigOf(read, session.plan)
  BY StepsInOrder DEF IInv, SessionInv, BindingFollowsConfig
<1>4. session.plan = config.plan
  BY <1>3 DEF ConfigOf
<1>5. PICK moment \in history : HeldAtOnce(moment)
  BY <1>1 DEF IInv, DirectoryInv, HasMoment
<1>6. \A role \in DOMAIN Inputs : moment[Source(read, role)] = Inputs[role]
  BY <1>1, <1>2, <1>5 DEF HeldAtOnce, SourceOf
<1>7. HeldAt(moment, bound)
  BY <1>1, <1>2, <1>6 DEF HeldAt
<1>8. \A path \in Range(Documents) : moment[path] = read[path]
  BY <1>1, <1>6, ExpectedOfFile
<1>9. /\ moment.manifest = read.manifest /\ moment.parent = read.parent
      /\ moment.candidate = read.candidate
  BY <1>8, FiveDocuments
<1>10. ASSUME NEW side \in Range(Sides), NEW ref \in Range(Refs(read[side]))
       PROVE  moment[ref.path] = ref.sha256
  <2> DEFINE role == <<side, ref.name>>
             expected == Expected(read)
  <2>1. Prepared(read)
    BY <1>1
  <2>2. role \in DOMAIN expected /\ expected[role] = ref.sha256 /\ Source(read, role) = ref.path
    BY <2>1, ExpectedOfAsset
  <2>3. role \in DOMAIN Inputs /\ Inputs[role] = ref.sha256
    BY <1>1, <2>2
  <2> HIDE DEF role, expected, read
  <2>4. moment[Source(read, role)] = Inputs[role]
    BY <1>6, <2>3
  <2>5. QED
    BY <2>2, <2>3, <2>4
<1>11. \A side \in Range(Sides) : read[side] \in Snapshots /\ WellFormed(read[side])
  BY <1>1 DEF Prepared
<1>12. ValidMutation(read.manifest, read.parent, read.candidate)
  BY <1>1 DEF Prepared
<1>13. Loads(read.manifest, read.parent, read.candidate, moment)
  BY <1>10, <1>11, <1>12, FiveDocuments DEF Loads, Refs
<1>14. QED
  BY <1>1, <1>2, <1>4, <1>7, <1>9, <1>13

LEMMA ExecuteKeepsIInv ==
  ASSUME IInv, NEW outcome \in {"active", "complete", "failed"}, Execute(outcome)
  PROVE  IInv'
<1>1. /\ Return /\ session.step = "execute"
      /\ ran' = ran \cup {[inputs |-> bound, plan |-> session.plan]}
      /\ UNCHANGED <<files, history, config, bound, budget>>
  BY DEF Execute, world
<1>2. /\ bound = Inputs /\ session.plan = config.plan /\ state = "active"
      /\ \E moment \in history :
           /\ HeldAt(moment, bound)
           /\ Loads(moment.manifest, moment.parent, moment.candidate, moment)
  BY <1>1, ExecuteOneMoment
<1>3. state' # "none"
  BY <1>2 DEF Execute, Store!Finish
<1>4. /\ FilesTyped' /\ BudgetTyped' /\ SessionInv'
  BY <1>1, FilesFrame, BudgetFrame, IdleSession DEF IInv, Return
<1>5. DirectoryInv /\ state # "none"
  BY <1>2 DEF IInv
<1>6. BoundIsExpected'
  BY <1>1, <1>3, <1>5 DEF DirectoryInv, BoundIsExpected, Inputs
<1>7. ConfigIsOfABundle'
  BY <1>1, <1>5 DEF DirectoryInv, ConfigIsOfABundle, Inputs
<1>8. InputsHeld'
  BY <1>1, <1>5 DEF DirectoryInv, InputsHeld, Inputs, SourceOf, Held
<1>9. HasMoment'
  BY <1>1, <1>5 DEF DirectoryInv, HasMoment, HeldAtOnce, Inputs, SourceOf
<1>10. RanAsConfigured'
  BY <1>1, <1>2, <1>5 DEF DirectoryInv, RanAsConfigured, Inputs
<1>11. BoundIsOneMoment'
  <2>1. SUFFICES ASSUME NEW experiment \in ran'
                 PROVE  \E moment \in history :
                          /\ HeldAt(moment, experiment.inputs)
                          /\ Loads(moment.manifest, moment.parent, moment.candidate, moment)
    BY <1>1 DEF BoundIsOneMoment
  <2>2. CASE experiment \in ran
    BY <1>5, <2>2 DEF DirectoryInv, BoundIsOneMoment
  <2>3. CASE experiment = [inputs |-> bound, plan |-> session.plan]
    <3>1. experiment.inputs = bound
      BY <2>3
    <3>2. QED
      BY <1>2, <3>1
  <2>4. QED
    BY <1>1, <2>2, <2>3
<1>12. FailedForEdits'
  <2>1. ran' # {}
    BY <1>1
  <2>2. QED
    BY <2>1 DEF FailedForEdits
<1>13. QED
  BY <1>4, <1>6, <1>7, <1>8, <1>9, <1>10, <1>11, <1>12 DEF IInv, DirectoryInv

-----------------------------------------------------------------------------
(* The environment *)

LEMMA EditKeepsIInv ==
  ASSUME IInv, NEW path \in DOMAIN files, NEW content, Edit(path, content)
  PROVE  IInv'
<1>1. /\ files' = [files EXCEPT ![path] = content] /\ history' = history \cup {files'}
      /\ \A moment \in history : moment[path] # content
      /\ budget' = [budget EXCEPT !.edits = @ + 1]
      /\ UNCHANGED <<session, state, config, bound, ran>>
  BY DEF Edit, directory
<1>2. /\ DOMAIN files' = DOMAIN files /\ files'[path] = content
      /\ \A p \in DOMAIN files \ {path} : files'[p] = files[p]
  BY <1>1
<1>3. FilesTyped'
  BY <1>1, <1>2 DEF IInv, FilesTyped
<1>4. BudgetTyped' /\ NoFaultForgotten
  BY <1>1 DEF IInv, BudgetTyped, NoFaultForgotten
<1>5. ASSUME NEW p, NEW c, Held(p, c)
      PROVE  p \in DOMAIN files' /\ c # NoFile /\ \E moment \in history' : moment[p] = c
  BY <1>1, <1>2, <1>5 DEF Held
<1>6. SomeEdit => SomeEdit'
  <2>1. SUFFICES ASSUME NEW role \in DOMAIN Inputs, Held(SourceOf(role), Inputs[role]),
                        files[SourceOf(role)] # Inputs[role]
                 PROVE  SomeEdit'
    BY DEF SomeEdit
  <2>2. files'[SourceOf(role)] # Inputs[role]
    BY <1>1, <1>2, <2>1 DEF Held
  <2>3. Held(SourceOf(role), Inputs[role])'
    BY <1>1, <1>5, <2>1 DEF Held, Inputs, SourceOf
  <2>4. Inputs' = Inputs /\ SourceOf(role)' = SourceOf(role)
    BY <1>1 DEF Inputs, SourceOf
  <2>5. QED
    BY <2>2, <2>3, <2>4 DEF SomeEdit
<1>7. SessionInv'
  <2>1. SessionTyped'
    BY <1>1 DEF IInv, SessionInv, SessionTyped
  <2>2. ASSUME NEW p, DocumentRead(p)
        PROVE  DocumentRead(p)'
    BY <1>1, <1>5, <2>2 DEF DocumentRead, Held
  <2>3. ASSUME NEW side, SideRead(side)
        PROVE  SideRead(side)'
    BY <1>1, <1>5, <2>2, <2>3 DEF SideRead, Held
  <2>4. ASSUME NEW side, SideBeingRead(side)
        PROVE  SideBeingRead(side)'
    BY <1>1, <1>5, <2>2, <2>4 DEF SideBeingRead, Held
  <2>5. ReadingFollowsSteps'
    BY <1>1, <2>2, <2>3, <2>4 DEF IInv, SessionInv, ReadingFollowsSteps
  <2>6. BindingFollowsConfig' /\ BoundUpToNext'
    BY <1>1 DEF IInv, SessionInv, BindingFollowsConfig, BoundUpToNext
  <2>7. FailingForEdits'
    BY <1>1, <1>4, <1>6 DEF IInv, SessionInv, FailingForEdits, NoFaultForgotten
  <2>8. QED
    BY <2>1, <2>5, <2>6, <2>7 DEF SessionInv
<1>8. DirectoryInv'
  <2>1. BoundIsExpected' /\ ConfigIsOfABundle' /\ RanAsConfigured'
    BY <1>1 DEF IInv, DirectoryInv, BoundIsExpected, ConfigIsOfABundle, RanAsConfigured, Inputs
  <2>2. InputsHeld'
    <3>1. CASE state = "none"
      BY <1>1, <3>1 DEF InputsHeld
    <3>2. CASE state # "none"
      <4>1. ASSUME NEW role \in DOMAIN Inputs
            PROVE  /\ SourceOf(role) \in DOMAIN files' /\ Inputs[role] # NoFile
                   /\ \E moment \in history' : moment[SourceOf(role)] = Inputs[role]
        <5>1. Held(SourceOf(role), Inputs[role])
          BY <3>2 DEF IInv, DirectoryInv, InputsHeld
        <5>2. QED
          BY <1>5, <5>1
      <4>2. ASSUME NEW role \in DOMAIN bound
            PROVE  bound[role] = Inputs[role] \/ files'[SourceOf(role)] # Inputs[role]
        <5>1. role \in DOMAIN Inputs
          BY <3>2 DEF IInv, DirectoryInv, BoundIsExpected
        <5>2. Held(SourceOf(role), Inputs[role])
          BY <3>2, <5>1 DEF IInv, DirectoryInv, InputsHeld
        <5>3. bound[role] = Inputs[role] \/ files[SourceOf(role)] # Inputs[role]
          BY <3>2 DEF IInv, DirectoryInv, InputsHeld
        <5>4. QED
          BY <1>1, <1>2, <5>2, <5>3 DEF Held
      <4>3. QED
        BY <1>1, <4>1, <4>2 DEF InputsHeld, Inputs, SourceOf, Held
    <3>3. QED
      BY <3>1, <3>2
  <2>3. HasMoment'
    <3>1. SUFFICES ASSUME state # "none" PROVE HasMoment'
      BY <1>1 DEF HasMoment
    <3>2. PICK moment \in history : HeldAtOnce(moment)
      BY <3>1 DEF IInv, DirectoryInv, HasMoment
    <3>3. ASSUME NEW role \in DOMAIN Inputs
          PROVE  moment[SourceOf(role)] = Inputs[role]
                   \/ files'[SourceOf(role)] # Inputs[role]
      <4>1. Held(SourceOf(role), Inputs[role])
        BY <3>1 DEF IInv, DirectoryInv, InputsHeld
      <4>2. moment[SourceOf(role)] = Inputs[role] \/ files[SourceOf(role)] # Inputs[role]
        BY <3>2 DEF HeldAtOnce
      <4>3. QED
        BY <1>1, <1>2, <4>1, <4>2 DEF Held
    <3>4. \A role \in DOMAIN Inputs :
            role \in DOMAIN bound /\ bound[role] = Inputs[role] =>
              moment[SourceOf(role)] = Inputs[role]
      BY <3>2 DEF HeldAtOnce
    <3>5. HeldAtOnce(moment)'
      BY <1>1, <3>3, <3>4 DEF HeldAtOnce, Inputs, SourceOf
    <3>6. QED
      BY <1>1, <3>5 DEF HasMoment
  <2>4. BoundIsOneMoment'
    BY <1>1 DEF IInv, DirectoryInv, BoundIsOneMoment
  <2>5. FailedForEdits'
    <3>1. state' = "failed" /\ ran' = {} /\ budget'.faults = 0 =>
            state = "failed" /\ ran = {} /\ budget.faults = 0
      BY <1>1, <1>4 DEF NoFaultForgotten
    <3>2. state = "failed" /\ ran = {} /\ budget.faults = 0 => SomeEdit
      BY DEF IInv, DirectoryInv, FailedForEdits
    <3>3. QED
      BY <1>6, <3>1, <3>2 DEF FailedForEdits
  <2>6. QED
    BY <2>1, <2>2, <2>3, <2>4, <2>5 DEF DirectoryInv
<1>9. QED
  BY <1>3, <1>4, <1>7, <1>8 DEF IInv

LEMMA CancelKeepsIInv ==
  ASSUME IInv, Cancel
  PROVE  IInv'
<1>1. Interrupt /\ UNCHANGED <<files, history, session, state, config, bound, ran>>
  BY DEF Cancel, world, directory
<1>2. FilesTyped' /\ BudgetTyped' /\ NoFaultForgotten
  BY <1>1, FilesFrame, InterruptFields DEF IInv
<1>3. SessionInv' /\ DirectoryInv'
  BY <1>1, <1>2, SessionFrame, DirectoryFrame DEF IInv
<1>4. QED
  BY <1>2, <1>3 DEF IInv

LEMMA CrashKeepsIInv ==
  ASSUME IInv, Crash
  PROVE  IInv'
<1>1. Interrupt /\ Return /\ UNCHANGED <<files, history, state, config, bound, ran>>
  BY DEF Crash, world, directory
<1>2. BudgetTyped' /\ NoFaultForgotten
  BY <1>1, InterruptFields DEF IInv
<1>3. QED
  BY <1>1, <1>2, ReturnKeeps

-----------------------------------------------------------------------------
LEMMA StepKeepsIInv == IInv /\ [Next]_vars => IInv'
<1> SUFFICES ASSUME IInv, [Next]_vars PROVE IInv'
  OBVIOUS
<1>1. ASSUME NEW moment \in history, NEW plan \in Plans, Begin(moment, plan)
      PROVE  IInv'
  BY <1>1, BeginKeepsIInv
<1>2. CASE ReadSuite \/ ReadManifest \/ ReadPolicy \/ CheckParent \/ CheckCandidate
  BY <1>2, ReadSuiteKeepsIInv, ReadManifestKeepsIInv, ReadPolicyKeepsIInv,
     CheckParentKeepsIInv, CheckCandidateKeepsIInv
<1>3. ASSUME NEW side \in Range(Sides), ReadSnapshot(side) \/ ReadAsset(side)
      PROVE  IInv'
  BY <1>3, ReadSnapshotKeepsIInv, ReadAssetKeepsIInv
<1>4. CASE CreateRun \/ ResumeRun \/ RefuseOpen
  BY <1>4, CreateRunKeepsIInv, ResumeRunKeepsIInv, RefuseOpenKeepsIInv
<1>5. CASE ReuseInput \/ CommitInput \/ FinishCopy \/ CancelCopy \/ MissSource
  BY <1>5, ReuseInputKeepsIInv, CommitInputKeepsIInv, FinishCopyKeepsIInv,
     CancelCopyKeepsIInv, MissSourceKeepsIInv
<1>6. CASE FailCopy \/ VerifyInputs \/ FailRun
  BY <1>6, FailCopyKeepsIInv, VerifyInputsKeepsIInv, FailRunKeepsIInv
<1>7. ASSUME NEW outcome \in {"active", "complete", "failed"}, Execute(outcome)
      PROVE  IInv'
  BY <1>7, ExecuteKeepsIInv
<1>8. ASSUME NEW path \in DOMAIN files, NEW content \in Editions(path, files[path]),
             Edit(path, content)
      PROVE  IInv'
  BY <1>8, EditKeepsIInv
<1>9. CASE Cancel \/ Crash
  BY <1>9, CancelKeepsIInv, CrashKeepsIInv
<1>10. CASE UNCHANGED vars
  <2>1. UNCHANGED <<files, history, session, state, config, bound, ran, budget>>
    BY <1>10 DEF vars
  <2>2. FilesTyped' /\ BudgetTyped' /\ NoFaultForgotten
    BY <2>1, FilesFrame, BudgetFrame DEF IInv
  <2>3. QED
    BY <2>1, <2>2, SessionFrame, DirectoryFrame DEF IInv
<1>11. QED
  BY <1>1, <1>2, <1>3, <1>4, <1>5, <1>6, <1>7, <1>8, <1>9, <1>10 DEF Next

(* For every set of first bundles, whatever the author puts in the place   *)
(* of a file, and for every bound, the invariant holds.                    *)
THEOREM Invariance == Spec => []IInv
<1>1. QED
  BY InitIInv, StepKeepsIInv, PTL DEF Spec

(* What the arms run against was in the files at one moment, the one at    *)
(* which the run was created, however many sessions it took to bind it and *)
(* whatever was edited meanwhile; and it loads as a candidate.             *)
THEOREM BoundAtOneMoment == Spec => []BoundIsOneMoment
<1>1. IInv => BoundIsOneMoment
  BY DEF IInv, DirectoryInv
<1>2. QED
  BY <1>1, Invariance, PTL

(* The two arms of everything that was run differ in the one declared      *)
(* mutable asset.                                                          *)
THEOREM ArmsAlwaysDifferInOneAsset == Spec => []ArmsDifferInOneAsset
<1>1. IInv => ArmsDifferInOneAsset
  <2>1. SUFFICES ASSUME IInv, NEW experiment \in ran
                 PROVE  DifferInOneAsset(experiment.inputs)
    BY DEF ArmsDifferInOneAsset, DifferInOneAsset
  <2>2. state # "none"
    BY <2>1 DEF IInv, DirectoryInv, BoundIsExpected
  <2>3. experiment = [inputs |-> Inputs, plan |-> config.plan]
    BY <2>1 DEF IInv, DirectoryInv, RanAsConfigured
  <2>4. Prepared(DocumentsOf(Inputs)) /\ Inputs = Expected(DocumentsOf(Inputs))
    BY <2>1, <2>2 DEF IInv, DirectoryInv, ConfigIsOfABundle
  <2>5. QED
    BY <2>3, <2>4, SidesDiffer
<1>2. QED
  BY <1>1, Invariance, PTL

(* Whatever sessions are begun on a directory, with whatever requests, its *)
(* arms run one experiment only.                                           *)
THEOREM OnlyOneExperiment == Spec => []OneExperiment
<1>1. IInv => OneExperiment
  <2>1. SUFFICES ASSUME IInv PROVE Cardinality(ran) <= 1
    BY DEF OneExperiment
  <2> DEFINE x == [inputs |-> Inputs, plan |-> config.plan]
  <2>2. ran \subseteq {x}
    BY <2>1 DEF IInv, DirectoryInv, RanAsConfigured
  <2>3. ran = {} \/ ran = {x}
    BY <2>2
  <2>4. Cardinality({}) = 0 /\ Cardinality({x}) = 1
    BY FS_EmptySet, FS_Singleton
  <2>5. QED
    BY <2>3, <2>4
<1>2. QED
  BY <1>1, Invariance, PTL

(* Without failing system calls, a run fails before its arms have run only *)
(* if an input that had been read is not there any more: no interruption   *)
(* does it.                                                                *)
THEOREM FailureShowsAnEdit == Spec => []FailsOnlyForEdits
<1>1. IInv => FailsOnlyForEdits
  BY DEF IInv, DirectoryInv, FailedForEdits, SomeEdit, FailsOnlyForEdits,
         Held, Inputs, SourceOf
<1>2. QED
  BY <1>1, Invariance, PTL
=============================================================================
