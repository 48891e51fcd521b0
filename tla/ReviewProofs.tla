----------------------------- MODULE ReviewProofs -----------------------------
(***************************************************************************)
(* Proofs about Review, for every protocol, all lists of candidates and    *)
(* opinions of them, and files of any length.                              *)
(*                                                                         *)
(* A report is right about a line because three things stay related while  *)
(* the product builds anew, reviewers write and the loader reads: a line   *)
(* has the review ID of the candidate it was written on, the key is that   *)
(* of the candidates built last, and what was loaded are the lines before  *)
(* the next, each valid against this key.  What a report counts is then a  *)
(* matter of finite sets, partitioned in different ways, and what it says  *)
(* of two reviewers of integers in the range of an int.  Its means and     *)
(* medians are rationals in lowest terms: each has one form, so that they  *)
(* are the same in whatever order they are added, and are negated and grow *)
(* with the scores they are made of.                                       *)
(***************************************************************************)
EXTENDS Review, FiniteSumProofs

-----------------------------------------------------------------------------
(* The invariant *)

Candidates == UNION {{list[i] : i \in DOMAIN list} : list \in Lists}
Voiced == UNION {Opinions(candidate) : candidate \in Candidates}
Line == [review : {Digest[x] : x \in DOMAIN Digest}, reviewer : {o[1] : o \in Voiced},
         scores : {o[2] : o \in Voiced}, whole : BOOLEAN, of : Candidates]

(* A line carries the ID of the candidate it was written on. *)
LinesKnown ==
  /\ lines \in Seq(Line)
  /\ \A i \in 1 .. Len(lines) : /\ Identity(lines[i].of) \in DOMAIN Digest
                                /\ lines[i].review = Digest[Identity(lines[i].of)]

(* Queue and key are those of the list built last, for one protocol. *)
KeysKnown ==
  /\ dims \in Protocols
  /\ listed = <<>> \/ (listed \in Lists /\ Buildable(listed))
  /\ keys = KeysOf(listed, Digest)
  /\ queue = <<>> \/ queue = QueueOf(listed, Digest)

(* The loader has taken the lines before the next, and no others. *)
LoadKnown ==
  /\ load \in [step : {"idle", "reading", "loaded"}, next : 1 .. Len(lines) + 1,
               taken : {load.taken}]
  /\ load.step = "idle" => load = Idle
  /\ load.taken = {Taken(lines[i]) : i \in 1 .. load.next - 1}
  /\ \A i \in 1 .. load.next - 1 : lines[i].whole /\ ValidAnnotation(lines[i])
  /\ \A i, j \in 1 .. load.next - 1 :
       lines[i].review = lines[j].review /\ lines[i].reviewer = lines[j].reviewer => i = j

(* There is a report only of what was loaded. *)
ReportKnown ==
  Loaded => /\ load.step = "loaded" /\ load.next = Len(lines) + 1
            /\ report = Report(keys, load.taken, dims)

IInv == LinesKnown /\ KeysKnown /\ LoadKnown /\ ReportKnown

(* The fields of a load that begins. *)
LEMMA IdleFields == Idle.step = "idle" /\ Idle.next = 1 /\ Idle.taken = {}
BY DEF Idle

(* A load that begins has taken nothing. *)
LEMMA IdleIsKnown ==
  ASSUME NEW n \in Nat
  PROVE  /\ Idle \in [step : {"idle", "reading", "loaded"}, next : 1 .. n + 1, taken : {Idle.taken}]
         /\ 1 .. Idle.next - 1 = {}
BY DEF Idle

(* Before anything was built. *)
LEMMA InitIsKnown == Init => IInv
<1>1. SUFFICES ASSUME Init PROVE IInv
  OBVIOUS
<1>2. Len(lines) = 0 /\ lines \in Seq(Line)
  BY <1>1 DEF Init
<1>3. LinesKnown
  BY <1>2 DEF LinesKnown
<1>4. KeysKnown
  BY <1>1 DEF Init, KeysKnown, KeysOf
<1>5. LoadKnown
  BY <1>1, <1>2, IdleIsKnown, IdleFields DEF Init, LoadKnown
<1>6. ReportKnown
  BY <1>1 DEF Init, ReportKnown, Loaded
<1>7. QED
  BY <1>3, <1>4, <1>5, <1>6 DEF IInv

(* A candidate of a list that can be built has an ID. *)
LEMMA BuiltHasIdentity ==
  ASSUME NEW list \in Lists, Buildable(list), NEW i \in DOMAIN list
  PROVE  Identity(list[i]) \in DOMAIN Digest
BY ReviewAssumption DEF Buildable

(* A build changes the key while nothing is loaded. *)
LEMMA BuildKeeps ==
  ASSUME IInv, NEW list \in Lists, Build(list)
  PROVE  IInv'
<1>1. UNCHANGED <<dims, lines, load, report>> /\ load = Idle
  BY DEF Build
<1>2. LinesKnown'
  BY <1>1 DEF IInv, LinesKnown
<1>3. KeysKnown'
  <2>1. CASE ~ Buildable(list)
    BY <1>1, <2>1 DEF Build, IInv, KeysKnown, Buildable, ValidDimensions
  <2>2. CASE Buildable(list)
    <3>1. listed' = list /\ queue' = QueueOf(list, Digest) /\ keys' = KeysOf(list, Digest)
      BY <2>2 DEF Build
    <3>2. Buildable(listed)'
      BY <1>1, <2>2, <3>1 DEF Buildable, ValidDimensions
    <3>3. dims' \in Protocols
      BY <1>1 DEF IInv, KeysKnown
    <3>4. QED
      BY <3>1, <3>2, <3>3 DEF KeysKnown
  <2>3. QED
    BY <2>1, <2>2
<1>4. LoadKnown'
  <2>1. load.next = 1 /\ load.taken = {}
    BY <1>1, IdleFields
  <2>2. QED
    BY <1>1, <2>1 DEF IInv, LoadKnown
<1>5. ReportKnown'
  BY <1>1, IdleFields DEF IInv, ReportKnown, Loaded
<1>6. QED
  BY <1>2, <1>3, <1>4, <1>5 DEF IInv

(* What is built stays known as long as nothing is built. *)
LEMMA KeysStay ==
  ASSUME KeysKnown, UNCHANGED <<dims, listed, queue, keys>>
  PROVE  KeysKnown'
BY DEF KeysKnown, Buildable, ValidDimensions

(* What has been read stays valid while the file grows behind it. *)
LEMMA LoadStays ==
  ASSUME LoadKnown, UNCHANGED <<dims, keys, load>>,
         Len(lines) \in Nat, Len(lines') \in Nat, Len(lines) <= Len(lines'),
         \A i \in 1 .. load.next - 1 : lines'[i] = lines[i]
  PROVE  LoadKnown'
<1>1. load.next \in 1 .. Len(lines) + 1
  BY DEF LoadKnown
<1>2. {Taken(lines'[i]) : i \in 1 .. load.next - 1} = {Taken(lines[i]) : i \in 1 .. load.next - 1}
  BY DEF Taken
<1>3. \A i \in 1 .. load.next - 1 : lines'[i].whole /\ ValidAnnotation(lines[i])'
  BY DEF LoadKnown, ValidAnnotation
<1>4. load' \in [step : {"idle", "reading", "loaded"}, next : 1 .. Len(lines') + 1,
                 taken : {load'.taken}]
  <2>1. load.next \in 1 .. Len(lines') + 1
    BY <1>1
  <2>2. QED
    BY <2>1 DEF LoadKnown
<1>5. load'.taken = {Taken(lines'[i]) : i \in 1 .. load'.next - 1}
  BY <1>2 DEF LoadKnown
<1>6. \A i, j \in 1 .. load'.next - 1 :
        lines'[i].review = lines'[j].review /\ lines'[i].reviewer = lines'[j].reviewer => i = j
  BY DEF LoadKnown
<1>7. load'.step = "idle" => load' = Idle
  BY DEF LoadKnown
<1>8. QED
  BY <1>3, <1>4, <1>5, <1>6, <1>7 DEF LoadKnown, Taken

(* A line written on a listed candidate has its ID. *)
LEMMA AnnotateKeeps ==
  ASSUME IInv, NEW c \in DOMAIN listed, NEW opinion \in Opinions(listed[c]),
         NEW whole \in BOOLEAN, Annotate(listed[c], opinion, whole)
  PROVE  IInv'
<1> DEFINE candidate == listed[c]
           line == [review |-> Entry(candidate, Digest).review, reviewer |-> opinion[1],
                    scores |-> opinion[2], whole |-> whole, of |-> candidate]
<1>1. lines' = Append(lines, line) /\ UNCHANGED <<dims, listed, queue, keys, load, report>>
  BY DEF Annotate
<1>2. listed \in Lists /\ Buildable(listed)
  BY DEF IInv, KeysKnown
<1>3. line.of = candidate
  OBVIOUS
<1>4. Identity(line.of) \in DOMAIN Digest
  BY <1>2, <1>3, BuiltHasIdentity
<1>5. line.review = Digest[Identity(line.of)]
  BY <1>3 DEF Entry
<1>6. candidate \in Candidates
  BY <1>2 DEF Candidates
<1>7. line \in Line
  <2>1. opinion \in Voiced
    BY <1>6 DEF Voiced
  <2>2. line.review \in {Digest[x] : x \in DOMAIN Digest}
    BY <1>4, <1>5
  <2>3. QED
    BY <1>6, <2>1, <2>2 DEF Line
<1> HIDE DEF line
<1>8. lines \in Seq(Line) /\ Len(lines) \in Nat
  BY DEF IInv, LinesKnown
<1>9. /\ lines' \in Seq(Line) /\ Len(lines') = Len(lines) + 1
      /\ \A i \in 1 .. Len(lines) : lines'[i] = lines[i]
      /\ lines'[Len(lines) + 1] = line
  BY <1>1, <1>7, <1>8
<1>10. LinesKnown'
  BY <1>4, <1>5, <1>8, <1>9 DEF IInv, LinesKnown
<1>11. report = NoReport
  BY DEF Annotate
<1>12. KeysKnown'
  BY <1>1, KeysStay DEF IInv
<1>13. ReportKnown'
  BY <1>1, <1>11 DEF ReportKnown, Loaded
<1>14. LoadKnown'
  <2>1. load.next \in 1 .. Len(lines) + 1
    BY DEF IInv, LoadKnown
  <2>2. \A i \in 1 .. load.next - 1 : lines'[i] = lines[i]
    BY <1>8, <1>9, <2>1
  <2>3. Len(lines') \in Nat /\ Len(lines) <= Len(lines')
    BY <1>8, <1>9
  <2>4. QED
    BY <1>1, <1>8, <2>2, <2>3, LoadStays DEF IInv
<1>15. QED
  BY <1>10, <1>12, <1>13, <1>14 DEF IInv

(* Finishing a line changes none that has been read. *)
LEMMA FinishKeeps ==
  ASSUME IInv, FinishLine
  PROVE  IInv'
<1> DEFINE n == Len(lines)
<1>1. /\ lines # <<>> /\ ~ Last(lines).whole
      /\ lines' = [lines EXCEPT ![n].whole = TRUE]
      /\ UNCHANGED <<dims, listed, queue, keys, load, report>>
  BY DEF FinishLine
<1>2. lines \in Seq(Line) /\ n \in Nat /\ DOMAIN lines = 1 .. n
  BY DEF IInv, LinesKnown
<1>3. n \in 1 .. n /\ ~ lines[n].whole
  BY <1>1, <1>2 DEF Last
<1> HIDE DEF n
<1>4. lines[n] \in Line
  BY <1>2, <1>3
<1> DEFINE finished == [lines[n] EXCEPT !.whole = TRUE]
<1>5. finished \in Line /\ finished.review = lines[n].review /\ finished.of = lines[n].of
  BY <1>4 DEF Line
<1>6. lines' = [lines EXCEPT ![n] = finished]
  BY <1>1 DEF n
<1> HIDE DEF finished
<1>7. /\ lines' \in Seq(Line) /\ Len(lines') = n
      /\ \A i \in 1 .. n : lines'[i] = IF i = n THEN finished ELSE lines[i]
  BY <1>2, <1>3, <1>5, <1>6 DEF n
<1>8. LinesKnown'
  BY <1>5, <1>7 DEF IInv, LinesKnown, n
<1>9. KeysKnown'
  BY <1>1, KeysStay DEF IInv
<1>10. load.next \in 1 .. n + 1 /\ \A i \in 1 .. load.next - 1 : lines[i].whole
  BY DEF IInv, LoadKnown, n
<1>11. \A i \in 1 .. load.next - 1 : lines'[i] = lines[i]
  BY <1>2, <1>3, <1>7, <1>10
<1>12. LoadKnown'
  <2>1. /\ UNCHANGED <<dims, keys, load>> /\ LoadKnown
        /\ Len(lines) \in Nat /\ Len(lines') \in Nat /\ Len(lines) <= Len(lines')
    BY <1>1, <1>2, <1>7 DEF IInv, n
  <2>2. QED
    BY <1>11, <2>1, LoadStays
<1>13. ReportKnown'
  BY <1>1, <1>7 DEF IInv, ReportKnown, Loaded, n
<1>14. QED
  BY <1>8, <1>9, <1>12, <1>13 DEF IInv

(* A load begins with nothing taken. *)
LEMMA BeginKeeps ==
  ASSUME IInv, BeginLoad
  PROVE  IInv'
<1>1. /\ load = Idle /\ load' = [Idle EXCEPT !.step = "reading"]
      /\ UNCHANGED <<dims, listed, queue, keys, lines, report>>
  BY DEF BeginLoad
<1>2. LinesKnown' /\ KeysKnown'
  BY <1>1, KeysStay DEF IInv, LinesKnown
<1>3. /\ load' = [step |-> "reading", next |-> 1, taken |-> {}]
      /\ load'.step = "reading" /\ load'.next = 1 /\ load'.taken = {}
  BY <1>1 DEF Idle
<1>4. Len(lines) \in Nat
  BY DEF IInv, LinesKnown
<1>5. LoadKnown'
  <2>1. 1 .. load'.next - 1 = {}
    BY <1>3
  <2>2. load' \in [step : {"idle", "reading", "loaded"}, next : 1 .. Len(lines') + 1,
                   taken : {load'.taken}]
    <3>1. 1 \in 1 .. Len(lines') + 1
      BY <1>1, <1>4
    <3>2. QED
      BY <1>3, <3>1
  <2>3. QED
    BY <1>3, <2>1, <2>2 DEF LoadKnown
<1>6. ~ Loaded
  BY <1>1, IdleFields DEF IInv, ReportKnown
<1>7. QED
  BY <1>1, <1>2, <1>5, <1>6 DEF IInv, ReportKnown, Loaded

(* The line read next is taken, or the load is given up. *)
LEMMA ReadKeeps ==
  ASSUME IInv, ReadLine
  PROVE  IInv'
<1> DEFINE n == load.next
           line == lines[n]
           usable == /\ line.whole
                     /\ ValidAnnotation(line)
                     /\ ~ \E a \in load.taken :
                            a.review = line.review /\ a.reviewer = line.reviewer
<1>1. /\ load.step = "reading" /\ n <= Len(lines)
      /\ load' = IF usable
                   THEN [load EXCEPT !.next = n + 1, !.taken = @ \cup {Taken(line)}]
                   ELSE Idle
      /\ UNCHANGED <<dims, listed, queue, keys, lines, report>>
  BY DEF ReadLine
<1>2. LinesKnown' /\ KeysKnown'
  BY <1>1, KeysStay DEF IInv, LinesKnown
<1>3. Len(lines) \in Nat
  BY DEF IInv, LinesKnown
<1>4. ReportKnown'
  BY <1>1 DEF IInv, ReportKnown, Loaded
<1>5. LoadKnown
  BY DEF IInv
<1>6. LoadKnown'
  <2>1. CASE ~ usable
    <3>1. load' = Idle
      BY <1>1, <2>1
    <3>2. QED
      BY <1>1, <1>3, <3>1, IdleIsKnown, IdleFields DEF LoadKnown
  <2>2. CASE usable
    <3>1. n \in 1 .. Len(lines) /\ n - 1 \in 0 .. Len(lines) - 1
      BY <1>1, <1>3, <1>5 DEF LoadKnown
    <3>2. /\ load'.step = "reading" /\ load'.next = n + 1
          /\ load'.taken = load.taken \cup {Taken(line)}
          /\ load' = [step |-> load'.step, next |-> load'.next, taken |-> load'.taken]
      BY <1>1, <1>5, <2>2 DEF LoadKnown
    <3>3. 1 .. load'.next - 1 = (1 .. n - 1) \cup {n}
      BY <3>1, <3>2
    <3>4. line.whole /\ ValidAnnotation(line)
      BY <2>2
    <3>5. \A i \in 1 .. n - 1 : ~ (lines[i].review = line.review /\ lines[i].reviewer = line.reviewer)
      <4>1. SUFFICES ASSUME NEW i \in 1 .. n - 1
                     PROVE  ~ (lines[i].review = line.review /\ lines[i].reviewer = line.reviewer)
        OBVIOUS
      <4>2. Taken(lines[i]) \in load.taken
        BY <1>5 DEF LoadKnown
      <4>3. Taken(lines[i]).review = lines[i].review /\ Taken(lines[i]).reviewer = lines[i].reviewer
        BY DEF Taken
      <4>4. QED
        BY <2>2, <4>2, <4>3
    <3>6. load'.taken = {Taken(lines[i]) : i \in 1 .. load'.next - 1}
      BY <1>5, <3>2, <3>3 DEF LoadKnown
    <3>7. \A i \in 1 .. load'.next - 1 : lines[i].whole /\ ValidAnnotation(lines[i])
      BY <1>5, <3>3, <3>4 DEF LoadKnown
    <3>8. \A i, j \in 1 .. load'.next - 1 :
            lines[i].review = lines[j].review /\ lines[i].reviewer = lines[j].reviewer => i = j
      BY <1>5, <3>3, <3>5 DEF LoadKnown
    <3>9. /\ load' \in [step : {"idle", "reading", "loaded"}, next : 1 .. Len(lines) + 1,
                        taken : {load'.taken}]
          /\ load'.step # "idle"
      BY <3>1, <3>2
    <3>10. \A i \in 1 .. load'.next - 1 : lines'[i].whole /\ ValidAnnotation(lines[i])'
      BY <1>1, <3>7 DEF ValidAnnotation
    <3>11. load'.taken = {Taken(lines'[i]) : i \in 1 .. load'.next - 1}
      BY <1>1, <3>6
    <3> HIDE DEF line, n, usable
    <3>12. QED
      BY <1>1, <3>8, <3>9, <3>10, <3>11 DEF LoadKnown, Taken
  <2>3. QED
    BY <2>1, <2>2
<1>7. QED
  BY <1>2, <1>4, <1>6 DEF IInv

(* At the end of the file all lines have been taken. *)
LEMMA EndKeeps ==
  ASSUME IInv, EndOfFile
  PROVE  IInv'
<1>1. /\ load.step = "reading" /\ load.next = Len(lines) + 1
      /\ report' = Report(keys, load.taken, dims)
      /\ load' = [load EXCEPT !.step = "loaded"]
      /\ UNCHANGED <<dims, listed, queue, keys, lines>>
  BY DEF EndOfFile
<1>2. LinesKnown' /\ KeysKnown'
  BY <1>1, KeysStay DEF IInv, LinesKnown
<1>3. load \in [step : {"idle", "reading", "loaded"}, next : 1 .. Len(lines) + 1,
                taken : {load.taken}]
  BY DEF IInv, LoadKnown
<1>4. /\ load'.step = "loaded" /\ load'.next = load.next /\ load'.taken = load.taken
      /\ load' = [step |-> "loaded", next |-> load.next, taken |-> load.taken]
  BY <1>1, <1>3
<1>5. LoadKnown'
  <2>1. \A i \in 1 .. load.next - 1 : lines'[i].whole /\ ValidAnnotation(lines[i])'
    BY <1>1 DEF IInv, LoadKnown, ValidAnnotation
  <2>2. load' \in [step : {"idle", "reading", "loaded"}, next : 1 .. Len(lines') + 1,
                   taken : {load'.taken}]
    BY <1>1, <1>3, <1>4
  <2>3. load'.taken = {Taken(lines'[i]) : i \in 1 .. load'.next - 1}
    BY <1>1, <1>4 DEF IInv, LoadKnown
  <2>4. QED
    BY <1>1, <1>4, <2>1, <2>2, <2>3 DEF IInv, LoadKnown, Taken
<1>6. ReportKnown'
  BY <1>1, <1>4 DEF ReportKnown
<1>7. QED
  BY <1>2, <1>5, <1>6 DEF IInv

(* Every line before the next was read whole, is valid, and carries the ID *)
(* of the candidate it was written on: the inductive invariant.            *)
THEOREM Invariance == Spec => []IInv
<1>1. IInv /\ UNCHANGED vars => IInv'
  <2>1. SUFFICES ASSUME IInv, UNCHANGED vars PROVE IInv'
    OBVIOUS
  <2>2. UNCHANGED <<dims, listed, queue, keys, lines, load, report>>
    BY <2>1 DEF vars
  <2>3. LinesKnown' /\ KeysKnown'
    BY <2>1, <2>2, KeysStay DEF IInv, LinesKnown
  <2>4. LoadKnown'
    BY <2>1, <2>2 DEF IInv, LoadKnown, ValidAnnotation, Taken
  <2>5. QED
    BY <2>1, <2>2, <2>3, <2>4 DEF IInv, ReportKnown, Loaded
<1>2. IInv /\ [Next]_vars => IInv'
  BY <1>1, BuildKeeps, AnnotateKeeps, FinishKeeps, BeginKeeps, ReadKeeps, EndKeeps DEF Next
<1>3. QED
  BY <1>2, InitIsKnown, PTL DEF Spec

(* What is loaded counts for the identity its reviewer was shown, although *)
(* the key may have been built anew since, and for the payload as well     *)
(* where that goes with the identity (review.go, BuildArtifacts and        *)
(* deterministicID).                                                       *)
THEOREM EveryLineCountsAsSeen == Spec => []CountedAsSeen
<1>1. IInv => CountedAsSeen
  <2>1. SUFFICES ASSUME IInv, NEW i \in 1 .. load.next - 1
                 PROVE  \E j \in DOMAIN listed :
                          /\ \E key \in keys : /\ key.review = lines[i].review
                                               /\ key.subject = lines[i].of.subject
                                               /\ key.variant = lines[i].of.variant
                          /\ Declared(listed[j]) = Declared(lines[i].of)
                          /\ OnePayload(Declared(lines[i].of))
                               => listed[j].payload = lines[i].of.payload
    BY DEF CountedAsSeen
  <2> DEFINE seen == lines[i].of
  <2>2. ValidAnnotation(lines[i])
    BY <2>1 DEF IInv, LoadKnown
  <2>3. PICK key \in keys : key.review = lines[i].review
    BY <2>2 DEF ValidAnnotation
  <2>4. PICK j \in DOMAIN listed :
          key = [review |-> Digest[Identity(listed[j])], subject |-> listed[j].subject,
                 variant |-> listed[j].variant]
    BY <2>1, <2>3 DEF IInv, KeysKnown, KeysOf
  <2>5. i \in 1 .. Len(lines) /\ lines \in Seq(Line)
    BY <2>1 DEF IInv, LoadKnown, LinesKnown
  <2>6. /\ seen \in Candidates /\ Identity(seen) \in DOMAIN Digest
        /\ lines[i].review = Digest[Identity(seen)]
    <3>1. lines[i] \in Line
      BY <2>5
    <3>2. QED
      BY <2>1, <2>5, <3>1 DEF IInv, LinesKnown, Line
  <2>7. listed \in Lists /\ Identity(listed[j]) \in DOMAIN Digest
    BY <2>1, <2>4, BuiltHasIdentity DEF IInv, KeysKnown
  <2> HIDE DEF seen
  <2>8. Identity(seen) = Identity(listed[j])
    BY <2>3, <2>4, <2>6, <2>7, ReviewAssumption DEF IsInjective
  <2>9. /\ seen.subject = listed[j].subject
        /\ seen.variant = listed[j].variant
        /\ seen.identity = listed[j].identity
    BY <2>8 DEF Identity
  <2>10. Declared(listed[j]) = Declared(seen)
    BY <2>9 DEF Declared
  <2>11. PICK list \in Lists : \E k \in DOMAIN list : seen = list[k]
    BY <2>6 DEF Candidates
  <2>12. OnePayload(Declared(seen)) => listed[j].payload = seen.payload
    BY <2>7, <2>10, <2>11 DEF OnePayload
  <2>13. QED
    BY <2>3, <2>4, <2>9, <2>10, <2>12 DEF seen
<1>2. QED
  BY <1>1, Invariance, PTL

(* Distinct pictures of 1 .. n number n. *)
LEMMA CountOfPictures ==
  ASSUME NEW n \in Nat, NEW f, f = [i \in 1 .. n |-> f[i]],
         \A i, j \in 1 .. n : f[i] = f[j] => i = j
  PROVE  Cardinality({f[i] : i \in 1 .. n}) = n
<1> DEFINE T == {f[i] : i \in 1 .. n}
<1>1. f \in Bijection(1 .. n, T)
  BY DEF Bijection, Injection, Surjection, IsInjective
<1>2. IsFiniteSet(1 .. n) /\ Cardinality(1 .. n) = n
  <2>1. 1 \in Int /\ n \in Int
    OBVIOUS
  <2>2. IsFiniteSet(1 .. n) /\ Cardinality(1 .. n) = IF 1 > n THEN 0 ELSE n - 1 + 1
    BY <2>1, FS_Interval
  <2>3. QED
    BY <2>2
<1>3. ExistsBijection(1 .. n, T)
  BY <1>1 DEF ExistsBijection
<1>4. QED
  BY <1>2, <1>3, FS_Bijection

(* A report counts every line of the file up to its end, all of them whole *)
(* and valid, and no reviewer twice for an item (review.go,                *)
(* LoadAnnotations).                                                       *)
THEOREM NoLineIsSkipped == Spec => []NothingSkipped
<1>1. IInv => NothingSkipped
  <2> DEFINE n == load.next - 1
             pair == [i \in 1 .. n |-> <<lines[i].review, lines[i].reviewer>>]
             taken == [i \in 1 .. n |-> Taken(lines[i])]
  <2>1. SUFFICES ASSUME IInv, Loaded
                 PROVE  /\ report.annotations = n
                        /\ Cardinality({<<lines[i].review, lines[i].reviewer>> : i \in 1 .. n}) = n
    BY DEF NothingSkipped, IInv, LoadKnown
  <2>2. n \in Nat
    BY <2>1 DEF IInv, LoadKnown
  <2>3. \A i, j \in 1 .. n :
          lines[i].review = lines[j].review /\ lines[i].reviewer = lines[j].reviewer => i = j
    BY <2>1 DEF IInv, LoadKnown
  <2>4. \A i, j \in 1 .. n : pair[i] = pair[j] => i = j
    BY <2>3
  <2>5. \A i, j \in 1 .. n : taken[i] = taken[j] => i = j
    BY <2>3 DEF Taken
  <2>6. load.taken = {taken[i] : i \in 1 .. n}
    BY <2>1 DEF IInv, LoadKnown
  <2>7. {<<lines[i].review, lines[i].reviewer>> : i \in 1 .. n} = {pair[i] : i \in 1 .. n}
    OBVIOUS
  <2>8. pair = [i \in 1 .. n |-> pair[i]] /\ taken = [i \in 1 .. n |-> taken[i]]
    OBVIOUS
  <2>9. report.annotations = Cardinality(load.taken)
    BY <2>1 DEF IInv, ReportKnown, Report
  <2> HIDE DEF n, pair, taken
  <2>10. Cardinality({pair[i] : i \in 1 .. n}) = n
    BY <2>2, <2>4, <2>8, CountOfPictures
  <2>11. Cardinality({taken[i] : i \in 1 .. n}) = n
    BY <2>2, <2>5, <2>8, CountOfPictures
  <2>12. QED
    BY <2>6, <2>7, <2>9, <2>10, <2>11
<1>2. QED
  BY <1>1, Invariance, PTL

-----------------------------------------------------------------------------
(* Blinding *)

(* An injection of a finite set into itself takes every value. *)
LEMMA InjectionIsOnto ==
  ASSUME NEW D, IsFiniteSet(D), NEW p \in [D -> D], IsInjective(p)
  PROVE  \A j \in D : \E i \in D : p[i] = j
<1>1. p \in Injection(D, D)
  BY DEF Injection, IsInjective
<1>2. p \in Surjection(D, D)
  BY <1>1, FS_Injection
<1>3. QED
  BY <1>2 DEF Surjection

(* A list built last is finite, its candidates are whole records, told     *)
(* apart by identities that have IDs.                                      *)
LEMMA ListedKnown ==
  ASSUME KeysKnown
  PROVE  /\ IsFiniteSet(DOMAIN listed)
         /\ \A i \in DOMAIN listed :
              /\ DOMAIN listed[i] = {"subject", "variant", "identity", "payload"}
              /\ Identity(listed[i]) \in DOMAIN Digest
         /\ \A i, j \in DOMAIN listed : Identity(listed[i]) = Identity(listed[j]) => i = j
<1>1. CASE listed = <<>>
  <2>1. DOMAIN listed = {}
    BY <1>1
  <2>2. QED
    BY <2>1, FS_EmptySet
<1>2. CASE listed \in Lists /\ Buildable(listed)
  <2>1. listed \in Seq({listed[i] : i \in DOMAIN listed})
    BY <1>2, ReviewAssumption
  <2>2. DOMAIN listed = 1 .. Len(listed) /\ Len(listed) \in Nat
    BY <2>1
  <2>3. IsFiniteSet(DOMAIN listed)
    <3>1. 1 \in Int /\ Len(listed) \in Int
      BY <2>2
    <3>2. QED
      BY <2>2, <3>1, FS_Interval
  <2>4. QED
    BY <1>2, <2>3, BuiltHasIdentity, ReviewAssumption DEF Buildable
<1>3. QED
  BY <1>1, <1>2 DEF KeysKnown

(* From the queue nobody can tell how variants were given to candidates:   *)
(* with another digest the same queue comes of them (review.go,            *)
(* BuildArtifacts).                                                        *)
THEOREM QueueIsBlind == Spec => []Blinded
<1>1. KeysKnown => Blinded
  <2> DEFINE D == DOMAIN listed
             permutations == {f \in [D -> D] : IsInjective(f)}
             relabelled(p, v) ==
               [i \in D |-> [listed[p[i]] EXCEPT !.variant = listed[v[i]].variant]]
             ids == {key.review : key \in keys}
  <2>1. SUFFICES ASSUME KeysKnown, queue # <<>>, NEW other \in Relabelled(listed)
                 PROVE  \E f \in {g \in [{Identity(other[i]) : i \in DOMAIN other} -> ids] :
                                    IsInjective(g)} :
                          QueueOf(other, f) = queue
    BY DEF Blinded
  <2>2. /\ IsFiniteSet(D)
        /\ \A i \in D : /\ DOMAIN listed[i] = {"subject", "variant", "identity", "payload"}
                        /\ Identity(listed[i]) \in DOMAIN Digest
        /\ \A i, j \in D : Identity(listed[i]) = Identity(listed[j]) => i = j
    BY <2>1, ListedKnown
  <2>3. PICK p \in permutations, v \in permutations : other = relabelled(p, v)
    BY <2>1 DEF Relabelled
  <2>4. DOMAIN other = D
    BY <2>3
  <2>5. \A i, j \in D : Identity(other[i]) = Identity(other[j]) => i = j
    BY <2>1, <2>4 DEF Relabelled
  <2>6. p \in [D -> D] /\ IsInjective(p)
    BY <2>3
  <2>7. \A i \in D : /\ other[i].subject = listed[p[i]].subject
                     /\ other[i].payload = listed[p[i]].payload
    BY <2>2, <2>3, <2>6
  <2> HIDE DEF D, relabelled, permutations
  <2> DEFINE identities == {Identity(other[i]) : i \in D}
             at(x) == CHOOSE i \in D : Identity(other[i]) = x
             f == [x \in identities |-> Digest[Identity(listed[p[at(x)]])]]
  <2>8. \A i \in D : at(Identity(other[i])) = i
    BY <2>5
  <2>9. \A i \in D : f[Identity(other[i])] = Digest[Identity(listed[p[i]])]
    BY <2>8
  <2>10. f \in [identities -> ids]
    <3>1. \A j \in D : Digest[Identity(listed[j])] \in ids
      <4>1. ASSUME NEW j \in D PROVE Digest[Identity(listed[j])] \in ids
        <5> DEFINE key == [review |-> Digest[Identity(listed[j])],
                           subject |-> listed[j].subject, variant |-> listed[j].variant]
        <5>1. key \in keys
          BY <2>1, <4>1 DEF KeysKnown, KeysOf, D
        <5>2. key.review = Digest[Identity(listed[j])]
          OBVIOUS
        <5> HIDE DEF key
        <5>3. QED
          BY <5>1, <5>2
      <4>2. QED
        BY <4>1
    <3>2. ASSUME NEW x \in identities PROVE f[x] \in ids
      <4>1. PICK i \in D : x = Identity(other[i])
        BY <3>2
      <4>2. p[i] \in D /\ f[x] = Digest[Identity(listed[p[i]])]
        BY <2>6, <2>9, <4>1
      <4> HIDE DEF f, ids
      <4>3. QED
        BY <3>1, <4>2
    <3> HIDE DEF ids
    <3>3. QED
      BY <3>2
  <2>11. IsInjective(f)
    <3>1. SUFFICES ASSUME NEW i \in D, NEW j \in D,
                          f[Identity(other[i])] = f[Identity(other[j])]
                   PROVE  i = j
      BY DEF IsInjective
    <3>2. Digest[Identity(listed[p[i]])] = Digest[Identity(listed[p[j]])]
      BY <2>9, <3>1
    <3>3. p[i] \in D /\ p[j] \in D
      BY <2>6
    <3>4. Identity(listed[p[i]]) = Identity(listed[p[j]])
      BY <2>2, <3>2, <3>3, ReviewAssumption DEF IsInjective
    <3>5. p[i] = p[j]
      BY <2>2, <3>3, <3>4
    <3>6. DOMAIN p = D
      BY <2>6
    <3>7. QED
      BY <2>6, <3>5, <3>6 DEF IsInjective
  <2> HIDE DEF f
  <2>12. \A i \in D : Entry(other[i], f) = Entry(listed[p[i]], Digest)
    BY <2>7, <2>9 DEF Entry
  <2>13. \A j \in D : \E i \in D : p[i] = j
    BY <2>2, <2>6, InjectionIsOnto
  <2>14. {Entry(other[i], f) : i \in D} = {Entry(listed[j], Digest) : j \in D}
    BY <2>6, <2>12, <2>13
  <2>15. QueueOf(other, f) = InOrder({Entry(other[i], f) : i \in D})
    BY <2>4 DEF QueueOf
  <2>16. queue = InOrder({Entry(listed[j], Digest) : j \in D})
    BY <2>1 DEF KeysKnown, QueueOf, D
  <2>17. QueueOf(other, f) = queue
    BY <2>14, <2>15, <2>16
  <2>18. QED
    BY <2>4, <2>10, <2>11, <2>17
<1>2. QED
  BY <1>1, Invariance, PTL DEF IInv

-----------------------------------------------------------------------------
(* Rationals *)

Rationals == Int \X (Nat \ {0})

(* A quotient has the value of its operands, and no smaller denominator    *)
(* would do.                                                               *)
LEMMA RatioFound ==
  ASSUME NEW n \in Int, NEW d \in Nat \ {0}
  PROVE  /\ Ratio(n, d) \in Rationals
         /\ Ratio(n, d)[1] * d = n * Ratio(n, d)[2]
         /\ Ratio(n, d)[2] <= d
         /\ \A m \in Int, k \in Nat \ {0} : n * k = m * d => Ratio(n, d)[2] <= k
<1> DEFINE G == {k \in 1 .. d : (n * k) % d = 0}
           g == Min(G)
           q == (n * g) \div d
<1>1. d \in Int /\ 1 \in Int /\ d \in 1 .. d
  OBVIOUS
<1>2. \A k \in Int, m \in Int : n * k \in Int /\ (n * k = m * d => (n * k) % d = 0)
  <2>1. \A x \in Int, m \in Int : x = m * d => x % d = 0
    OBVIOUS
  <2>2. QED
    BY <2>1
<1>3. \A k \in Int : (n * k) % d = 0 => n * k = ((n * k) \div d) * d /\ (n * k) \div d \in Int
  <2>1. \A x \in Int : x % d = 0 => x = (x \div d) * d /\ x \div d \in Int
    OBVIOUS
  <2>2. QED
    BY <2>1
<1>4. d \in G
  BY <1>1, <1>2
<1>5. G \in SUBSET (1 .. d) /\ G \in SUBSET Int
  OBVIOUS
<1> HIDE DEF G
<1>6. IsFiniteSet(G)
  BY <1>1, <1>5, FS_Interval, FS_Subset
<1>7. g \in G /\ \A k \in G : g <= k
  BY <1>4, <1>5, <1>6, MinIsFound
<1>8. Ratio(n, d) = <<q, g>>
  BY DEF Ratio, G
<1> HIDE DEF g
<1>9. g \in 1 .. d /\ (n * g) % d = 0
  BY <1>7 DEF G
<1>10. q \in Int /\ n * g = q * d
  BY <1>3, <1>9
<1> HIDE DEF q
<1>11. ASSUME NEW m \in Int, NEW k \in Nat \ {0}, n * k = m * d
       PROVE  g <= k
  <2>1. CASE k <= d
    <3>1. k \in G
      BY <1>2, <1>11, <2>1 DEF G
    <3>2. QED
      BY <1>7, <3>1
  <2>2. CASE k > d
    BY <1>9, <2>2
  <2>3. QED
    BY <2>1, <2>2
<1>12. QED
  BY <1>8, <1>9, <1>10, <1>11 DEF Rationals

(* The value of a pair decides what it is in lowest terms. *)
LEMMA RatioIsCanonical ==
  ASSUME NEW n \in Int, NEW d \in Nat \ {0}, NEW m \in Int, NEW e \in Nat \ {0},
         n * e = m * d
  PROVE  Ratio(n, d) = Ratio(m, e)
<1> DEFINE p == Ratio(n, d)
           q == Ratio(m, e)
<1>1. /\ p \in Rationals /\ p[1] * d = n * p[2]
      /\ \A l \in Int, k \in Nat \ {0} : n * k = l * d => p[2] <= k
  BY RatioFound
<1>2. /\ q \in Rationals /\ q[1] * e = m * q[2]
      /\ \A l \in Int, k \in Nat \ {0} : m * k = l * e => q[2] <= k
  BY RatioFound
<1> HIDE DEF p, q
<1>3. p[1] \in Int /\ p[2] \in Nat \ {0} /\ q[1] \in Int /\ q[2] \in Nat \ {0}
  BY <1>1, <1>2 DEF Rationals
<1>4. \A a \in Int, b \in Nat \ {0} : a * d = n * b => a * e = m * b
  <2>1. SUFFICES ASSUME NEW a \in Int, NEW b \in Nat \ {0}, a * d = n * b PROVE a * e = m * b
    OBVIOUS
  <2>2. (a * d) * e = (n * b) * e /\ (n * b) * e = (n * e) * b
    BY <2>1
  <2>3. (n * e) * b = (m * d) * b
    OBVIOUS
  <2>4. (a * e) * d = (m * b) * d
    BY <2>2, <2>3
  <2>5. a * e \in Int /\ m * b \in Int
    OBVIOUS
  <2>6. QED
    BY <2>4, <2>5
<1>5. \A a \in Int, b \in Nat \ {0} : a * e = m * b => a * d = n * b
  <2>1. SUFFICES ASSUME NEW a \in Int, NEW b \in Nat \ {0}, a * e = m * b PROVE a * d = n * b
    OBVIOUS
  <2>2. (a * e) * d = (m * b) * d /\ (m * b) * d = (m * d) * b
    BY <2>1
  <2>3. (m * d) * b = (n * e) * b
    OBVIOUS
  <2>4. (a * d) * e = (n * b) * e
    BY <2>2, <2>3
  <2>5. a * d \in Int /\ n * b \in Int
    OBVIOUS
  <2>6. QED
    BY <2>4, <2>5
<1>6. m * p[2] = p[1] * e /\ n * q[2] = q[1] * d
  BY <1>1, <1>2, <1>3, <1>4, <1>5
<1>7. p[2] = q[2]
  <2>1. p[2] <= q[2] /\ q[2] <= p[2]
    BY <1>1, <1>2, <1>3, <1>6
  <2>2. QED
    BY <1>3, <2>1
<1>8. p[1] * d = q[1] * d
  BY <1>1, <1>6, <1>7
<1>9. p[1] = q[1]
  <2>1. \A a, b \in Int : a * d = b * d => a = b
    OBVIOUS
  <2>2. QED
    BY <1>3, <1>8, <2>1
<1>10. p = q
  BY <1>1, <1>2, <1>7, <1>9 DEF Rationals
<1>11. QED
  BY <1>10 DEF p, q

(* Rationals in lowest terms *)
Reduced == {p \in Rationals : Ratio(p[1], p[2]) = p}

Negative(p) == <<- p[1], p[2]>>
AtMost(p, q) == p[1] * q[2] <= q[1] * p[2]

(* A rational is its numerator and its denominator.                        *)
LEMMA PartsOfRational ==
  ASSUME NEW p \in Rationals
  PROVE  p[1] \in Int /\ p[2] \in Nat \ {0} /\ p = <<p[1], p[2]>>
BY DEF Rationals

(* A quotient is in lowest terms.                                          *)
LEMMA RatioIsReduced ==
  ASSUME NEW n \in Int, NEW d \in Nat \ {0}
  PROVE  Ratio(n, d) \in Reduced
<1> DEFINE p == Ratio(n, d)
<1>1. p \in Rationals /\ p[1] * d = n * p[2]
  BY RatioFound
<1> HIDE DEF p
<1>2. p[1] \in Int /\ p[2] \in Nat \ {0}
  BY <1>1, PartsOfRational
<1>3. Ratio(p[1], p[2]) = Ratio(n, d)
  BY <1>1, <1>2, RatioIsCanonical
<1>4. QED
  BY <1>1, <1>3 DEF Reduced, p

(* A whole number over 1 is in lowest terms.                               *)
LEMMA RatioOfWhole ==
  ASSUME NEW n \in Int
  PROVE  Ratio(n, 1) = <<n, 1>> /\ <<n, 1>> \in Reduced
<1> DEFINE p == Ratio(n, 1)
<1>1. 1 \in Nat \ {0}
  OBVIOUS
<1>2. p \in Rationals /\ p[1] * 1 = n * p[2] /\ p[2] <= 1 /\ p \in Reduced
  BY <1>1, RatioFound, RatioIsReduced
<1> HIDE DEF p
<1>3. p[1] \in Int /\ p[2] = 1 /\ p = <<p[1], p[2]>>
  BY <1>2, PartsOfRational
<1>4. p[1] = n
  BY <1>2, <1>3
<1>5. p = <<n, 1>>
  BY <1>3, <1>4
<1>6. QED
  BY <1>2, <1>5 DEF p

(* With the numerator negated, the quotient is.                            *)
LEMMA RatioIsOdd ==
  ASSUME NEW n \in Int, NEW d \in Nat \ {0}
  PROVE  Ratio(- n, d) = Negative(Ratio(n, d))
<1> DEFINE p == Ratio(n, d)
           q == Ratio(- n, d)
<1>1. /\ p \in Rationals /\ p[1] * d = n * p[2]
      /\ \A l \in Int, k \in Nat \ {0} : n * k = l * d => p[2] <= k
  BY RatioFound
<1>2. /\ q \in Rationals /\ q[1] * d = (- n) * q[2]
      /\ \A l \in Int, k \in Nat \ {0} : (- n) * k = l * d => q[2] <= k
  BY RatioFound
<1> HIDE DEF p, q
<1>3. p[1] \in Int /\ p[2] \in Nat \ {0} /\ q[1] \in Int /\ q[2] \in Nat \ {0}
  BY <1>1, <1>2, PartsOfRational
<1>4. /\ (- n) * p[2] = (- p[1]) * d /\ - p[1] \in Int
      /\ n * q[2] = (- q[1]) * d /\ - q[1] \in Int
  BY <1>1, <1>2, <1>3
<1>5. q[2] <= p[2] /\ p[2] <= q[2]
  BY <1>1, <1>2, <1>3, <1>4
<1>6. q[2] = p[2]
  BY <1>3, <1>5
<1>7. q[1] * d = (- p[1]) * d
  BY <1>2, <1>4, <1>6
<1>8. q[1] = - p[1]
  <2>1. \A a, b \in Int : a * d = b * d => a = b
    OBVIOUS
  <2>2. QED
    BY <1>3, <1>4, <1>7, <2>1
<1>9. q = <<q[1], q[2]>>
  BY <1>2, PartsOfRational
<1>10. q = Negative(p)
  BY <1>6, <1>8, <1>9 DEF Negative
<1>11. QED
  BY <1>10 DEF p, q

(* Quotients are ordered as they are by cross-multiplication. *)
LEMMA RatioOrder ==
  ASSUME NEW n \in Int, NEW d \in Nat \ {0}, NEW m \in Int, NEW e \in Nat \ {0}
  PROVE  /\ AtMost(Ratio(n, d), Ratio(m, e)) <=> n * e <= m * d
         /\ Below(Ratio(n, d), Ratio(m, e)) <=> n * e < m * d
<1> DEFINE p == Ratio(n, d)
           q == Ratio(m, e)
<1>1. p \in Rationals /\ p[1] * d = n * p[2] /\ q \in Rationals /\ q[1] * e = m * q[2]
  BY RatioFound
<1> HIDE DEF p, q
<1>2. p[1] \in Int /\ p[2] \in Nat \ {0} /\ q[1] \in Int /\ q[2] \in Nat \ {0}
  BY <1>1, PartsOfRational
<1> DEFINE a == p[1] * q[2]
           b == q[1] * p[2]
           x == n * e
           y == m * d
           c == d * e
           f == p[2] * q[2]
<1>3. a \in Int /\ b \in Int /\ x \in Int /\ y \in Int /\ c \in Nat \ {0} /\ f \in Nat \ {0}
  BY <1>2
<1>4. a * c = x * f
  <2>1. a * c = (p[1] * d) * (q[2] * e)
    BY <1>2
  <2>2. x * f = (n * p[2]) * (q[2] * e)
    BY <1>2
  <2>3. QED
    BY <1>1, <2>1, <2>2
<1>5. b * c = y * f
  <2>1. b * c = (q[1] * e) * (p[2] * d)
    BY <1>2
  <2>2. y * f = (m * q[2]) * (p[2] * d)
    BY <1>2
  <2>3. QED
    BY <1>1, <2>1, <2>2
<1> HIDE DEF a, b, x, y, c, f
<1>6. (a <= b <=> a * c <= b * c) /\ (x <= y <=> x * f <= y * f)
  BY <1>3
<1>7. (a < b <=> a * c < b * c) /\ (x < y <=> x * f < y * f)
  BY <1>3
<1>8. (a <= b <=> x <= y) /\ (a < b <=> x < y)
  BY <1>4, <1>5, <1>6, <1>7
<1>9. QED
  BY <1>8 DEF AtMost, Below, a, b, x, y, p, q

(* AtMost is a total order of the values of rationals, and Below its       *)
(* strict part.                                                            *)
LEMMA AtMostIsOrder ==
  ASSUME NEW p \in Rationals, NEW q \in Rationals, NEW r \in Rationals
  PROVE  /\ AtMost(p, p)
         /\ AtMost(p, q) <=> ~ Below(q, p)
         /\ AtMost(p, q) \/ AtMost(q, p)
         /\ AtMost(p, q) /\ AtMost(q, r) => AtMost(p, r)
         /\ AtMost(p, q) /\ Below(q, r) => Below(p, r)
         /\ Below(p, q) /\ AtMost(q, r) => Below(p, r)
         /\ Below(p, q) => AtMost(p, q)
<1> DEFINE a == p[1]  b == p[2]  c == q[1]  d == q[2]  e == r[1]  f == r[2]
<1>1. a \in Int /\ b \in Nat \ {0} /\ c \in Int /\ d \in Nat \ {0} /\ e \in Int /\ f \in Nat \ {0}
  BY PartsOfRational
<1> HIDE DEF a, b, c, d, e, f
<1>2. /\ a * d \in Int /\ c * b \in Int /\ c * f \in Int /\ e * d \in Int
      /\ a * f \in Int /\ e * b \in Int
  BY <1>1
<1>3. \A x, y \in Int : /\ (x <= y <=> x * f <= y * f) /\ (x < y <=> x * f < y * f)
                        /\ (x <= y <=> x * b <= y * b) /\ (x < y <=> x * b < y * b)
                        /\ (x <= y <=> x * d <= y * d) /\ (x < y <=> x * d < y * d)
  BY <1>1
<1> DEFINE u == a * d * f
           v == c * b * f
           w == e * d * b
<1>4. /\ u = (a * d) * f /\ v = (c * b) * f /\ v = (c * f) * b /\ w = (e * d) * b
      /\ u = (a * f) * d /\ w = (e * b) * d
  BY <1>1
<1>5. u \in Int /\ v \in Int /\ w \in Int
  BY <1>1
<1> HIDE DEF u, v, w
<1>6. /\ a * d <= c * b <=> u <= v
      /\ a * d < c * b <=> u < v
      /\ c * f <= e * d <=> v <= w
      /\ c * f < e * d <=> v < w
      /\ a * f <= e * b <=> u <= w
      /\ a * f < e * b <=> u < w
  BY <1>2, <1>3, <1>4
<1>7. /\ AtMost(p, q) <=> u <= v
      /\ Below(p, q) <=> u < v
      /\ AtMost(q, r) <=> v <= w
      /\ Below(q, r) <=> v < w
      /\ AtMost(p, r) <=> u <= w
      /\ Below(p, r) <=> u < w
      /\ AtMost(q, p) <=> v <= u
      /\ Below(q, p) <=> v < u
  <2>1. /\ c * b <= a * d <=> v <= u
        /\ c * b < a * d <=> v < u
    BY <1>2, <1>3, <1>4
  <2>2. QED
    BY <1>6, <2>1 DEF AtMost, Below, a, b, c, d, e, f
<1>8. AtMost(p, p)
  <2>1. a * b <= a * b
    BY <1>1
  <2>2. QED
    BY <2>1 DEF AtMost, a, b
<1>9. QED
  BY <1>5, <1>7, <1>8

(* Two rationals in lowest terms of one value are the same. *)
LEMMA ReducedIsUnique ==
  ASSUME NEW p \in Reduced, NEW q \in Reduced, AtMost(p, q), AtMost(q, p)
  PROVE  p = q
<1>1. /\ p \in Rationals /\ q \in Rationals
      /\ p = Ratio(p[1], p[2]) /\ q = Ratio(q[1], q[2])
  BY DEF Reduced
<1>2. p[1] \in Int /\ p[2] \in Nat \ {0} /\ q[1] \in Int /\ q[2] \in Nat \ {0}
  BY <1>1, PartsOfRational
<1>3. p[1] * q[2] = q[1] * p[2]
  BY <1>2 DEF AtMost
<1>4. Ratio(p[1], p[2]) = Ratio(q[1], q[2])
  <2> DEFINE a == p[1]  b == p[2]  c == q[1]  d == q[2]
  <2>1. a \in Int /\ b \in Nat \ {0} /\ c \in Int /\ d \in Nat \ {0} /\ a * d = c * b
    BY <1>2, <1>3
  <2> HIDE DEF a, b, c, d
  <2>2. Ratio(a, b) = Ratio(c, d)
    BY <2>1, RatioIsCanonical
  <2>3. QED
    BY <2>2 DEF a, b, c, d
<1>5. QED
  BY <1>1, <1>4

(* Sums of rationals do not depend on how they are written, on their order *)
(* or on their brackets.                                                   *)
LEMMA PlusOfRatio ==
  ASSUME NEW n \in Int, NEW d \in Nat \ {0}, NEW m \in Int, NEW e \in Nat \ {0}
  PROVE  Plus(Ratio(n, d), <<m, e>>) = Ratio(n * e + m * d, d * e)
<1> DEFINE p == Ratio(n, d)
<1>1. p \in Rationals /\ p[1] * d = n * p[2]
  BY RatioFound
<1> HIDE DEF p
<1>2. p[1] \in Int /\ p[2] \in Nat \ {0}
  BY <1>1, PartsOfRational
<1> DEFINE a == p[1]  b == p[2]
<1> HIDE DEF a, b
<1>3. a \in Int /\ b \in Nat \ {0} /\ a * d = n * b
  BY <1>1, <1>2 DEF a, b
<1>4. (a * e + m * b) * (d * e) = (n * e + m * d) * (b * e)
  <2>1. (a * e + m * b) * (d * e) = (a * d) * (e * e) + m * b * d * e
    BY <1>3
  <2>2. (n * e + m * d) * (b * e) = (n * b) * (e * e) + m * b * d * e
    BY <1>3
  <2>3. QED
    BY <1>3, <2>1, <2>2
<1>5. /\ a * e + m * b \in Int /\ n * e + m * d \in Int
      /\ d * e \in Nat \ {0} /\ b * e \in Nat \ {0}
  BY <1>3
<1>6. Ratio(a * e + m * b, b * e) = Ratio(n * e + m * d, d * e)
  BY <1>4, <1>5, RatioIsCanonical
<1>7. QED
  BY <1>6 DEF Plus, p, a, b

(* Operands of a sum may be exchanged, and may be added in any order.      *)
LEMMA PlusCommutes ==
  ASSUME NEW p \in Rationals, NEW q \in Rationals, NEW r \in Rationals
  PROVE  /\ Plus(p, q) = Plus(q, p)
         /\ Plus(p, Plus(q, r)) = Plus(q, Plus(p, r))
<1> DEFINE a == p[1]  b == p[2]  c == q[1]  d == q[2]  e == r[1]  f == r[2]
<1>1. a \in Int /\ b \in Nat \ {0} /\ c \in Int /\ d \in Nat \ {0} /\ e \in Int /\ f \in Nat \ {0}
  BY PartsOfRational
<1> DEFINE x == a * d + c * b
           y == b * d
<1>2. /\ Plus(p, q) = Ratio(a * d + c * b, b * d)
      /\ Plus(q, p) = Ratio(c * b + a * d, d * b)
      /\ Plus(q, r) = Ratio(c * f + e * d, d * f)
      /\ Plus(p, r) = Ratio(a * f + e * b, b * f)
  BY DEF Plus
<1>3. p = <<a, b>> /\ q = <<c, d>>
  BY PartsOfRational
<1> HIDE DEF a, b, c, d, e, f
<1>4. a * d + c * b = c * b + a * d /\ b * d = d * b
  BY <1>1
<1>5. Plus(p, q) = Plus(q, p)
  BY <1>2, <1>4
<1>6. /\ c * f + e * d \in Int /\ d * f \in Nat \ {0}
      /\ a * f + e * b \in Int /\ b * f \in Nat \ {0}
  BY <1>1
<1>7. Plus(Plus(q, r), p) = Ratio((c * f + e * d) * b + a * (d * f), (d * f) * b)
  <2>1. Plus(Ratio(c * f + e * d, d * f), <<a, b>>)
          = Ratio((c * f + e * d) * b + a * (d * f), (d * f) * b)
    BY <1>1, <1>6, PlusOfRatio
  <2>2. QED
    BY <1>2, <1>3, <2>1
<1>8. Plus(Plus(p, r), q) = Ratio((a * f + e * b) * d + c * (b * f), (b * f) * d)
  <2>1. Plus(Ratio(a * f + e * b, b * f), <<c, d>>)
          = Ratio((a * f + e * b) * d + c * (b * f), (b * f) * d)
    BY <1>1, <1>6, PlusOfRatio
  <2>2. QED
    BY <1>2, <1>3, <2>1
<1>9. /\ (c * f + e * d) * b + a * (d * f) = (a * f + e * b) * d + c * (b * f)
      /\ (d * f) * b = (b * f) * d
  BY <1>1
<1>10. Plus(Plus(q, r), p) = Plus(Plus(p, r), q)
  BY <1>7, <1>8, <1>9
<1>11. /\ Plus(Plus(q, r), p) = Plus(p, Plus(q, r))
       /\ Plus(Plus(p, r), q) = Plus(q, Plus(p, r))
  <2>1. Plus(q, r) \in Rationals /\ Plus(p, r) \in Rationals
    BY <1>2, <1>6, RatioFound
  <2> DEFINE s == Plus(q, r)
             t == Plus(p, r)
  <2>2. /\ s[1] \in Int /\ s[2] \in Nat \ {0} /\ t[1] \in Int /\ t[2] \in Nat \ {0}
    BY <2>1, PartsOfRational
  <2>3. /\ Plus(s, p) = Ratio(s[1] * b + a * s[2], s[2] * b)
        /\ Plus(p, s) = Ratio(a * s[2] + s[1] * b, b * s[2])
        /\ Plus(t, q) = Ratio(t[1] * d + c * t[2], t[2] * d)
        /\ Plus(q, t) = Ratio(c * t[2] + t[1] * d, d * t[2])
    BY DEF Plus, a, b, c, d
  <2> HIDE DEF s, t
  <2>4. /\ s[1] * b + a * s[2] = a * s[2] + s[1] * b /\ s[2] * b = b * s[2]
        /\ t[1] * d + c * t[2] = c * t[2] + t[1] * d /\ t[2] * d = d * t[2]
    BY <1>1, <2>2
  <2>5. Plus(s, p) = Plus(p, s) /\ Plus(t, q) = Plus(q, t)
    BY <2>3, <2>4
  <2>6. QED
    BY <2>5 DEF s, t
<1>12. QED
  BY <1>5, <1>10, <1>11

(* A larger operand gives a larger sum. *)
LEMMA PlusIsMonotone ==
  ASSUME NEW p \in Rationals, NEW q \in Rationals, NEW r \in Rationals
  PROVE  /\ AtMost(p, q) <=> AtMost(Plus(p, r), Plus(q, r))
         /\ Below(p, q) <=> Below(Plus(p, r), Plus(q, r))
<1> DEFINE a == p[1]  b == p[2]  c == q[1]  d == q[2]  e == r[1]  f == r[2]
<1>1. a \in Int /\ b \in Nat \ {0} /\ c \in Int /\ d \in Nat \ {0} /\ e \in Int /\ f \in Nat \ {0}
  BY PartsOfRational
<1>2. /\ Plus(p, r) = Ratio(a * f + e * b, b * f)
      /\ Plus(q, r) = Ratio(c * f + e * d, d * f)
  BY DEF Plus
<1> HIDE DEF a, b, c, d, e, f
<1>3. /\ a * f + e * b \in Int /\ b * f \in Nat \ {0}
      /\ c * f + e * d \in Int /\ d * f \in Nat \ {0}
  BY <1>1
<1>4. /\ AtMost(Plus(p, r), Plus(q, r)) <=>
           (a * f + e * b) * (d * f) <= (c * f + e * d) * (b * f)
      /\ Below(Plus(p, r), Plus(q, r)) <=>
           (a * f + e * b) * (d * f) < (c * f + e * d) * (b * f)
  BY <1>2, <1>3, RatioOrder
<1>5. /\ (a * f + e * b) * (d * f) = (a * d) * (f * f) + e * b * d * f
      /\ (c * f + e * d) * (b * f) = (c * b) * (f * f) + e * b * d * f
  BY <1>1
<1> DEFINE x == a * d  y == c * b  g == f * f  h == e * b * d * f
<1>6. x \in Int /\ y \in Int /\ g \in Nat \ {0} /\ h \in Int
  BY <1>1
<1> HIDE DEF x, y, g, h
<1>7. /\ x <= y <=> x * g + h <= y * g + h
      /\ x < y <=> x * g + h < y * g + h
  <2>1. (x <= y <=> x * g <= y * g) /\ (x < y <=> x * g < y * g)
    BY <1>6
  <2>2. x * g \in Int /\ y * g \in Int
    BY <1>6
  <2>3. QED
    BY <1>6, <2>1, <2>2
<1>8. QED
  BY <1>4, <1>5, <1>7 DEF AtMost, Below, a, b, c, d, x, y, g, h

(* Sums and differences are in lowest terms.                               *)
LEMMA SumIsReduced ==
  ASSUME NEW p \in Rationals, NEW q \in Rationals
  PROVE  /\ Plus(p, q) \in Reduced /\ Minus(p, q) \in Reduced
         /\ Plus(p, q) \in Rationals /\ Minus(p, q) \in Rationals
<1>1. p[1] \in Int /\ q[1] \in Int /\ p[2] \in Nat \ {0} /\ q[2] \in Nat \ {0}
  BY PartsOfRational
<1> DEFINE n == p[1] * q[2] + q[1] * p[2]
           m == p[1] * q[2] - q[1] * p[2]
           d == p[2] * q[2]
<1>2. n \in Int /\ m \in Int /\ d \in Nat \ {0}
  BY <1>1
<1>3. Plus(p, q) = Ratio(n, d) /\ Minus(p, q) = Ratio(m, d)
  BY DEF Plus, Minus
<1> HIDE DEF n, m, d
<1>4. QED
  BY <1>2, <1>3, RatioIsReduced DEF Reduced

(* Negation turns the order around and distributes over sums; a difference *)
(* is a sum, and the other way round it is negated.                        *)
LEMMA NegativeIsRational ==
  ASSUME NEW p \in Rationals
  PROVE  /\ Negative(p) \in Rationals
         /\ Negative(Negative(p)) = p
         /\ Negative(p)[1] = - p[1] /\ Negative(p)[2] = p[2]
         /\ p \in Reduced => Negative(p) \in Reduced
<1>1. p[1] \in Int /\ p[2] \in Nat \ {0} /\ p = <<p[1], p[2]>>
  BY PartsOfRational
<1>2. Negative(p) \in Rationals /\ Negative(p)[1] = - p[1] /\ Negative(p)[2] = p[2]
  BY <1>1 DEF Negative, Rationals
<1>3. Negative(Negative(p)) = p
  <2>1. - (- p[1]) = p[1]
    BY <1>1
  <2>2. QED
    BY <1>1, <1>2, <2>1 DEF Negative
<1>4. ASSUME p \in Reduced PROVE Negative(p) \in Reduced
  <2>1. p = Ratio(p[1], p[2])
    BY <1>4 DEF Reduced
  <2>2. Ratio(- p[1], p[2]) = Negative(p)
    BY <1>1, <2>1, RatioIsOdd
  <2>3. QED
    BY <1>2, <2>2 DEF Reduced
<1>5. QED
  BY <1>2, <1>3, <1>4

(* Negation turns the order around.                                        *)
LEMMA NegativeTurnsOrder ==
  ASSUME NEW p \in Rationals, NEW q \in Rationals
  PROVE  /\ AtMost(Negative(p), Negative(q)) <=> AtMost(q, p)
         /\ Below(Negative(p), Negative(q)) <=> Below(q, p)
<1> DEFINE a == p[1]  b == p[2]  c == q[1]  d == q[2]
<1>1. a \in Int /\ b \in Nat \ {0} /\ c \in Int /\ d \in Nat \ {0}
  BY PartsOfRational
<1>2. /\ Negative(p)[1] = - a /\ Negative(p)[2] = b
      /\ Negative(q)[1] = - c /\ Negative(q)[2] = d
  BY NegativeIsRational
<1> HIDE DEF a, b, c, d
<1>3. (- a) * d = - (a * d) /\ (- c) * b = - (c * b) /\ a * d \in Int /\ c * b \in Int
  BY <1>1
<1>4. /\ (- a) * d <= (- c) * b <=> c * b <= a * d
      /\ (- a) * d < (- c) * b <=> c * b < a * d
  BY <1>3
<1>5. /\ AtMost(Negative(p), Negative(q)) <=> (- a) * d <= (- c) * b
      /\ Below(Negative(p), Negative(q)) <=> (- a) * d < (- c) * b
  BY <1>2 DEF AtMost, Below
<1>6. AtMost(q, p) <=> c * b <= a * d
  BY DEF AtMost, a, b, c, d
<1>7. Below(q, p) <=> c * b < a * d
  BY DEF Below, a, b, c, d
<1>8. QED
  BY <1>4, <1>5, <1>6, <1>7

(* The negative of a sum and of a difference.                              *)
LEMMA NegativeOfSum ==
  ASSUME NEW p \in Rationals, NEW q \in Rationals
  PROVE  /\ Plus(Negative(p), Negative(q)) = Negative(Plus(p, q))
         /\ Minus(p, q) = Plus(p, Negative(q))
         /\ Minus(q, p) = Negative(Minus(p, q))
<1> DEFINE a == p[1]  b == p[2]  c == q[1]  d == q[2]
<1>1. a \in Int /\ b \in Nat \ {0} /\ c \in Int /\ d \in Nat \ {0}
  BY PartsOfRational
<1>2. /\ Negative(p)[1] = - a /\ Negative(p)[2] = b
      /\ Negative(q)[1] = - c /\ Negative(q)[2] = d
  BY NegativeIsRational
<1>3. /\ Plus(Negative(p), Negative(q)) = Ratio((- a) * d + (- c) * b, b * d)
      /\ Plus(p, Negative(q)) = Ratio(a * d + (- c) * b, b * d)
      /\ Plus(p, q) = Ratio(a * d + c * b, b * d)
      /\ Minus(p, q) = Ratio(a * d - c * b, b * d)
      /\ Minus(q, p) = Ratio(c * b - a * d, d * b)
  BY <1>2 DEF Plus, Minus
<1> HIDE DEF a, b, c, d
<1>4. /\ (- a) * d + (- c) * b = - (a * d + c * b)
      /\ a * d + (- c) * b = a * d - c * b
      /\ c * b - a * d = - (a * d - c * b) /\ d * b = b * d
      /\ a * d + c * b \in Int /\ a * d - c * b \in Int /\ b * d \in Nat \ {0}
  BY <1>1
<1>5. /\ Ratio(- (a * d + c * b), b * d) = Negative(Ratio(a * d + c * b, b * d))
      /\ Ratio(- (a * d - c * b), b * d) = Negative(Ratio(a * d - c * b, b * d))
  BY <1>4, RatioIsOdd
<1>6. QED
  BY <1>3, <1>4, <1>5

(* A difference grows with what it is taken of and falls with what is      *)
(* taken away.                                                             *)
LEMMA MinusIsMonotone ==
  ASSUME NEW p \in Rationals, NEW q \in Rationals, NEW r \in Rationals
  PROVE  /\ AtMost(p, q) <=> AtMost(Minus(p, r), Minus(q, r))
         /\ AtMost(p, q) <=> AtMost(Minus(r, q), Minus(r, p))
<1>1. Negative(p) \in Rationals /\ Negative(q) \in Rationals /\ Negative(r) \in Rationals
  BY NegativeIsRational
<1>2. AtMost(p, q) <=> AtMost(Plus(p, Negative(r)), Plus(q, Negative(r)))
  BY <1>1, PlusIsMonotone
<1>3. AtMost(Negative(q), Negative(p))
        <=> AtMost(Plus(Negative(q), r), Plus(Negative(p), r))
  BY <1>1, PlusIsMonotone
<1>4. AtMost(Negative(q), Negative(p)) <=> AtMost(p, q)
  BY NegativeTurnsOrder
<1>5. /\ Plus(Negative(q), r) = Plus(r, Negative(q))
      /\ Plus(Negative(p), r) = Plus(r, Negative(p))
  BY <1>1, PlusCommutes
<1>6. /\ Minus(p, r) = Plus(p, Negative(r)) /\ Minus(q, r) = Plus(q, Negative(r))
      /\ Minus(r, q) = Plus(r, Negative(q)) /\ Minus(r, p) = Plus(r, Negative(p))
  BY NegativeOfSum
<1>7. QED
  BY <1>2, <1>3, <1>4, <1>5, <1>6

(* A quotient of a rational by a number above zero. *)
Share(p, n) == Ratio(p[1], p[2] * n)

(* A larger rational has a larger share, a negated one a negated share.    *)
LEMMA ShareIsMonotone ==
  ASSUME NEW p \in Rationals, NEW q \in Rationals, NEW n \in Nat \ {0}
  PROVE  /\ Share(p, n) \in Reduced /\ Share(p, n) \in Rationals
         /\ AtMost(p, q) <=> AtMost(Share(p, n), Share(q, n))
         /\ Below(p, q) <=> Below(Share(p, n), Share(q, n))
         /\ Share(Negative(p), n) = Negative(Share(p, n))
<1> DEFINE a == p[1]  b == p[2]  c == q[1]  d == q[2]
<1>1. a \in Int /\ b \in Nat \ {0} /\ c \in Int /\ d \in Nat \ {0}
  BY PartsOfRational
<1>2. b * n \in Nat \ {0} /\ d * n \in Nat \ {0}
  BY <1>1
<1>3. Share(p, n) = Ratio(a, b * n) /\ Share(q, n) = Ratio(c, d * n)
  BY DEF Share
<1>4. Negative(p)[1] = - a /\ Negative(p)[2] = b
  BY NegativeIsRational
<1>5. Share(Negative(p), n) = Ratio(- a, b * n)
  BY <1>4 DEF Share
<1> HIDE DEF a, b, c, d
<1>6. Share(p, n) \in Reduced /\ Share(p, n) \in Rationals
  BY <1>1, <1>2, <1>3, RatioIsReduced DEF Reduced
<1>7. Share(Negative(p), n) = Negative(Share(p, n))
  BY <1>1, <1>2, <1>3, <1>5, RatioIsOdd
<1>8. /\ AtMost(Share(p, n), Share(q, n)) <=> a * (d * n) <= c * (b * n)
      /\ Below(Share(p, n), Share(q, n)) <=> a * (d * n) < c * (b * n)
  BY <1>1, <1>2, <1>3, RatioOrder
<1>9. /\ a * (d * n) = (a * d) * n /\ c * (b * n) = (c * b) * n
      /\ a * d \in Int /\ c * b \in Int
  BY <1>1
<1>10. \A x, y \in Int : (x <= y <=> x * n <= y * n) /\ (x < y <=> x * n < y * n)
  OBVIOUS
<1>11. /\ a * d <= c * b <=> a * (d * n) <= c * (b * n)
       /\ a * d < c * b <=> a * (d * n) < c * (b * n)
  BY <1>9, <1>10
<1>12. /\ AtMost(p, q) <=> a * d <= c * b
       /\ Below(p, q) <=> a * d < c * b
  BY DEF AtMost, Below, a, b, c, d
<1>13. QED
  BY <1>6, <1>7, <1>8, <1>11, <1>12

-----------------------------------------------------------------------------
(* Totals and means *)

(* The recursion by which Mean adds, on the subsets of S. *)
PlusesUp(total, f, S) ==
  total = [s \in SUBSET S |->
             IF s = {} THEN <<0, 1>> ELSE Plus(f[Pick(s)], total[s \ {Pick(s)}])]

(* It has one value on a finite set, wherever it is taken from. *)
LEMMA TotalsAgree ==
  ASSUME NEW S, IsFiniteSet(S), NEW f, NEW A, NEW B, S \subseteq A, S \subseteq B,
         NEW total, PlusesUp(total, f, A), NEW other, PlusesUp(other, f, B)
  PROVE  total[S] = other[S]
<1> DEFINE Good == {s \in SUBSET S : total[s] = other[s]}
<1>1. ASSUME NEW s \in SUBSET S, \A t \in SUBSET s : t # s => t \in Good
      PROVE  s \in Good
  <2>1. s \in SUBSET A /\ s \in SUBSET B
    OBVIOUS
  <2>2. /\ total[s] = IF s = {} THEN <<0, 1>> ELSE Plus(f[Pick(s)], total[s \ {Pick(s)}])
        /\ other[s] = IF s = {} THEN <<0, 1>> ELSE Plus(f[Pick(s)], other[s \ {Pick(s)}])
    BY <2>1 DEF PlusesUp
  <2>3. CASE s = {}
    BY <2>2, <2>3
  <2>4. CASE s # {}
    <3>1. s \ {Pick(s)} \in SUBSET s /\ s \ {Pick(s)} # s
      BY <2>4, PickInSet
    <3>2. total[s \ {Pick(s)}] = other[s \ {Pick(s)}]
      BY <1>1, <3>1
    <3>3. QED
      BY <2>2, <2>4, <3>2
  <2>5. QED
    BY <2>3, <2>4
<1> HIDE DEF Good
<1>2. SUBSET S \subseteq Good
  BY <1>1, FiniteInduction
<1>3. QED
  BY <1>2 DEF Good

(* It has a solution. *)
LEMMA TotalExists ==
  ASSUME NEW S, IsFiniteSet(S), NEW f
  PROVE  \E total : PlusesUp(total, f, S)
<1> DEFINE Good == {s \in SUBSET S : \E total : PlusesUp(total, f, s)}
           of(s) == CHOOSE total : PlusesUp(total, f, s)
           rest(s) == s \ {Pick(s)}
<1>1. ASSUME NEW s \in SUBSET S, \A t \in SUBSET s : t # s => t \in Good
      PROVE  s \in Good
  <2> DEFINE total == [t \in SUBSET s |->
                         IF t = {} THEN <<0, 1>> ELSE Plus(f[Pick(t)], of(rest(t))[rest(t)])]
  <2>1. ASSUME NEW t \in SUBSET s, t # s
        PROVE  PlusesUp(of(t), f, t) /\ IsFiniteSet(t)
    BY <1>1, <2>1, FS_Subset
  <2>2. ASSUME NEW t \in SUBSET s, t # {}
        PROVE  rest(t) \in SUBSET s /\ rest(t) # s
    BY <2>2, PickInSet
  <2> HIDE DEF of, rest
  <2>3. ASSUME NEW t \in SUBSET s, t # s
        PROVE  total[t] = of(t)[t]
    <3>1. of(t)[t] = IF t = {} THEN <<0, 1>> ELSE Plus(f[Pick(t)], of(t)[rest(t)])
      BY <2>1, <2>3 DEF PlusesUp, rest
    <3>2. CASE t = {}
      BY <3>1, <3>2
    <3>3. CASE t # {}
      <4>1. rest(t) \in SUBSET s /\ rest(t) # s /\ rest(t) \subseteq t
        BY <2>2, <3>3 DEF rest
      <4>2. of(t)[rest(t)] = of(rest(t))[rest(t)]
        BY <2>1, <2>3, <4>1, TotalsAgree
      <4>3. QED
        BY <3>1, <3>3, <4>2
    <3>4. QED
      BY <3>2, <3>3
  <2>4. ASSUME NEW t \in SUBSET s, t # {}
        PROVE  total[t] = Plus(f[Pick(t)], total[rest(t)])
    BY <2>2, <2>3, <2>4
  <2>5. PlusesUp(total, f, s)
    BY <2>4 DEF PlusesUp, rest
  <2>6. QED
    BY <2>5
<1> HIDE DEF Good
<1>2. SUBSET S \subseteq Good
  BY <1>1, FiniteInduction
<1>3. QED
  BY <1>2 DEF Good

TotalOver(f, S) == (CHOOSE total : PlusesUp(total, f, S))[S]

(* Any solution of it gives the totals of the subsets. *)
LEMMA TotalFound ==
  ASSUME NEW A, IsFiniteSet(A), NEW S \in SUBSET A, NEW f, NEW total, PlusesUp(total, f, A)
  PROVE  total[S] = TotalOver(f, S)
<1>1. IsFiniteSet(S)
  BY FS_Subset
<1>2. PlusesUp(CHOOSE other : PlusesUp(other, f, S), f, S)
  BY <1>1, TotalExists
<1>3. QED
  BY <1>1, <1>2, TotalsAgree DEF TotalOver

(* It is what Mean divides. *)
LEMMA TotalIsTaken ==
  ASSUME NEW f, IsFiniteSet(DOMAIN f)
  PROVE  FoldFunction(Plus, <<0, 1>>, f) = TotalOver(f, DOMAIN f)
BY DEF FoldFunction, FoldFunctionOnSet, MapThenFoldSet, PlusesUp, Pick, TotalOver

(* The total of nothing, and the step of the recursion. *)
LEMMA TotalStep ==
  ASSUME NEW S, IsFiniteSet(S), NEW f
  PROVE  TotalOver(f, S) =
           IF S = {} THEN <<0, 1>> ELSE Plus(f[Pick(S)], TotalOver(f, S \ {Pick(S)}))
<1>1. PICK total : PlusesUp(total, f, S)
  BY TotalExists
<1>2. total[S] = IF S = {} THEN <<0, 1>> ELSE Plus(f[Pick(S)], total[S \ {Pick(S)}])
  BY <1>1 DEF PlusesUp
<1>3. total[S] = TotalOver(f, S) /\ total[S \ {Pick(S)}] = TotalOver(f, S \ {Pick(S)})
  BY <1>1, TotalFound
<1>4. QED
  BY <1>2, <1>3

(* The total may be taken from any element. *)
LEMMA TotalWithout ==
  ASSUME NEW S, IsFiniteSet(S), NEW f, \A x \in S : f[x] \in Rationals
  PROVE  /\ TotalOver(f, S) \in Reduced /\ TotalOver(f, S) \in Rationals
         /\ \A x \in S : TotalOver(f, S) = Plus(f[x], TotalOver(f, S \ {x}))
<1> DEFINE Whole(s) == /\ TotalOver(f, s) \in Reduced /\ TotalOver(f, s) \in Rationals
                       /\ \A x \in s : TotalOver(f, s) = Plus(f[x], TotalOver(f, s \ {x}))
           Good == {s \in SUBSET S : Whole(s)}
<1>1. ASSUME NEW s \in SUBSET S, \A t \in SUBSET s : t # s => t \in Good
      PROVE  s \in Good
  <2>1. IsFiniteSet(s)
    BY FS_Subset
  <2>2. CASE s = {}
    <3>1. TotalOver(f, s) = <<0, 1>>
      BY <2>1, <2>2, TotalStep
    <3>2. 0 \in Int
      OBVIOUS
    <3>3. <<0, 1>> \in Reduced
      BY <3>2, RatioOfWhole
    <3>4. QED
      BY <2>2, <3>1, <3>3 DEF Reduced
  <2>3. CASE s # {}
    <3> DEFINE p == Pick(s)
    <3>1. p \in s
      BY <2>3, PickInSet
    <3>2. TotalOver(f, s) = Plus(f[p], TotalOver(f, s \ {p}))
      BY <2>1, <2>3, TotalStep
    <3> HIDE DEF p, Whole
    <3>3. \A x \in s : Whole(s \ {x})
      BY <1>1
    <3>4. f[p] \in Rationals /\ TotalOver(f, s \ {p}) \in Rationals
      BY <3>1, <3>3 DEF Whole
    <3>5. TotalOver(f, s) \in Reduced /\ TotalOver(f, s) \in Rationals
      BY <3>2, <3>4, SumIsReduced
    <3>6. ASSUME NEW x \in s, x # p
          PROVE  TotalOver(f, s) = Plus(f[x], TotalOver(f, s \ {x}))
      <4> DEFINE both == (s \ {p}) \ {x}
      <4>1. both = (s \ {x}) \ {p}
        OBVIOUS
      <4>2. x \in s \ {p} /\ p \in s \ {x}
        BY <3>1, <3>6
      <4>3. both \in SUBSET s /\ both # s
        BY <3>1
      <4> HIDE DEF both
      <4>4. TotalOver(f, s \ {p}) = Plus(f[x], TotalOver(f, both))
        BY <3>1, <3>3, <4>2 DEF Whole, both
      <4>5. TotalOver(f, s \ {x}) = Plus(f[p], TotalOver(f, both))
        BY <3>3, <3>6, <4>1, <4>2 DEF Whole
      <4>6. f[x] \in Rationals /\ TotalOver(f, both) \in Rationals
        BY <1>1, <4>3 DEF Whole
      <4>7. Plus(f[p], Plus(f[x], TotalOver(f, both))) = Plus(f[x], Plus(f[p], TotalOver(f, both)))
        BY <3>4, <4>6, PlusCommutes
      <4>8. QED
        BY <3>2, <4>4, <4>5, <4>7
    <3>7. QED
      BY <3>2, <3>5, <3>6 DEF Whole
  <2>4. QED
    BY <2>2, <2>3
<1> HIDE DEF Good, Whole
<1>2. SUBSET S \subseteq Good
  BY <1>1, FiniteInduction
<1>3. QED
  BY <1>2 DEF Good, Whole

(* A function that is nowhere larger has no larger total, one that is also *)
(* smaller somewhere has a smaller one.                                    *)
LEMMA TotalIsMonotone ==
  ASSUME NEW S, IsFiniteSet(S), NEW f, NEW g,
         \A x \in S : f[x] \in Rationals /\ g[x] \in Rationals /\ AtMost(f[x], g[x])
  PROVE  /\ AtMost(TotalOver(f, S), TotalOver(g, S))
         /\ (\E x \in S : Below(f[x], g[x])) => Below(TotalOver(f, S), TotalOver(g, S))
<1> DEFINE Good == {s \in SUBSET S : AtMost(TotalOver(f, s), TotalOver(g, s))}
<1>1. ASSUME NEW s \in SUBSET S
      PROVE  IsFiniteSet(s) /\ TotalOver(f, s) \in Rationals /\ TotalOver(g, s) \in Rationals
  <2>1. IsFiniteSet(s) /\ \A x \in s : f[x] \in Rationals /\ g[x] \in Rationals
    BY FS_Subset
  <2>2. QED
    BY <2>1, TotalWithout
<1>2. ASSUME NEW s \in SUBSET S, NEW x \in s
      PROVE  /\ f[x] \in Rationals /\ g[x] \in Rationals /\ AtMost(f[x], g[x])
             /\ s \ {x} \in SUBSET S /\ s \ {x} \in SUBSET s /\ s \ {x} # s
             /\ TotalOver(f, s) = Plus(f[x], TotalOver(f, s \ {x}))
             /\ TotalOver(g, s) = Plus(g[x], TotalOver(g, s \ {x}))
  <2>1. \A y \in s : f[y] \in Rationals /\ g[y] \in Rationals
    OBVIOUS
  <2>2. QED
    BY <1>1, <2>1, TotalWithout
<1>3. ASSUME NEW s \in SUBSET S, NEW x \in s, s \ {x} \in Good
      PROVE  /\ AtMost(TotalOver(f, s), TotalOver(g, s))
             /\ Below(f[x], g[x]) => Below(TotalOver(f, s), TotalOver(g, s))
  <2> DEFINE p == f[x]
             q == g[x]
             r == TotalOver(f, s \ {x})
             t == TotalOver(g, s \ {x})
  <2>1. /\ p \in Rationals /\ q \in Rationals /\ r \in Rationals /\ t \in Rationals
        /\ AtMost(p, q) /\ AtMost(r, t)
    BY <1>1, <1>2, <1>3
  <2>2. TotalOver(f, s) = Plus(p, r) /\ TotalOver(g, s) = Plus(q, t)
    BY <1>2
  <2> HIDE DEF p, q, r, t
  <2>3. AtMost(Plus(p, r), Plus(q, r)) /\ (Below(p, q) => Below(Plus(p, r), Plus(q, r)))
    BY <2>1, PlusIsMonotone
  <2>4. AtMost(Plus(q, r), Plus(q, t))
    <3>1. AtMost(Plus(r, q), Plus(t, q))
      BY <2>1, PlusIsMonotone
    <3>2. Plus(r, q) = Plus(q, r) /\ Plus(t, q) = Plus(q, t)
      BY <2>1, PlusCommutes
    <3>3. QED
      BY <3>1, <3>2
  <2>5. Plus(p, r) \in Rationals /\ Plus(q, r) \in Rationals /\ Plus(q, t) \in Rationals
    BY <2>1, SumIsReduced
  <2>6. /\ AtMost(Plus(p, r), Plus(q, t))
        /\ Below(p, q) => Below(Plus(p, r), Plus(q, t))
    BY <2>3, <2>4, <2>5, AtMostIsOrder
  <2>7. QED
    BY <2>2, <2>6 DEF p, q
<1>4. ASSUME NEW s \in SUBSET S, \A t \in SUBSET s : t # s => t \in Good
      PROVE  s \in Good
  <2>1. CASE s = {}
    <3>1. TotalOver(f, s) = <<0, 1>> /\ TotalOver(g, s) = <<0, 1>>
      BY <1>1, <2>1, TotalStep
    <3>2. TotalOver(f, s) \in Rationals
      BY <1>1
    <3>3. AtMost(TotalOver(f, s), TotalOver(f, s))
      BY <3>2, AtMostIsOrder
    <3>4. QED
      BY <3>1, <3>3
  <2>2. CASE s # {}
    <3>1. PICK x \in s : TRUE
      BY <2>2
    <3>2. s \ {x} \in SUBSET s /\ s \ {x} # s
      BY <3>1
    <3>3. s \ {x} \in Good
      BY <1>4, <3>2
    <3> HIDE DEF Good
    <3>4. AtMost(TotalOver(f, s), TotalOver(g, s))
      BY <1>3, <3>1, <3>3
    <3>5. QED
      BY <3>4 DEF Good
  <2>3. QED
    BY <2>1, <2>2
<1>5. SUBSET S \subseteq Good
  <2> HIDE DEF Good
  <2>1. QED
    BY <1>4, FiniteInduction
<1>6. S \in SUBSET S
  OBVIOUS
<1>7. ASSUME NEW x \in S, Below(f[x], g[x])
      PROVE  Below(TotalOver(f, S), TotalOver(g, S))
  <2>1. S \ {x} \in Good
    BY <1>5
  <2>2. QED
    BY <1>3, <1>6, <1>7, <2>1
<1>8. AtMost(TotalOver(f, S), TotalOver(g, S))
  BY <1>5
<1>9. QED
  BY <1>7, <1>8

(* Totals are a matter of the values alone. *)
LEMMA TotalIsOfValues ==
  ASSUME NEW S, IsFiniteSet(S), NEW f, NEW g,
         \A x \in S : f[x] \in Rationals /\ g[x] = f[x]
  PROVE  TotalOver(f, S) = TotalOver(g, S)
<1>1. \A x \in S : /\ f[x] \in Rationals /\ g[x] \in Rationals
                   /\ AtMost(f[x], g[x]) /\ AtMost(g[x], f[x])
  BY AtMostIsOrder
<1>2. AtMost(TotalOver(f, S), TotalOver(g, S)) /\ AtMost(TotalOver(g, S), TotalOver(f, S))
  BY <1>1, TotalIsMonotone
<1>3. TotalOver(f, S) \in Reduced /\ TotalOver(g, S) \in Reduced
  BY <1>1, TotalWithout
<1>4. QED
  BY <1>2, <1>3, ReducedIsUnique

(* Negated values have a negated total. *)
LEMMA TotalIsOdd ==
  ASSUME NEW S, IsFiniteSet(S), NEW f, NEW g,
         \A x \in S : f[x] \in Rationals /\ g[x] = Negative(f[x])
  PROVE  TotalOver(g, S) = Negative(TotalOver(f, S))
<1> DEFINE Good == {s \in SUBSET S : TotalOver(g, s) = Negative(TotalOver(f, s))}
<1>1. ASSUME NEW s \in SUBSET S, \A t \in SUBSET s : t # s => t \in Good
      PROVE  s \in Good
  <2>1. IsFiniteSet(s)
    BY FS_Subset
  <2>2. CASE s = {}
    <3>1. TotalOver(f, s) = <<0, 1>> /\ TotalOver(g, s) = <<0, 1>>
      BY <2>1, <2>2, TotalStep
    <3>2. Negative(<<0, 1>>) = <<0, 1>>
      <4>1. <<0, 1>>[1] = 0 /\ <<0, 1>>[2] = 1
        OBVIOUS
      <4>2. \A n \in Int : - n = 0 - n
        OBVIOUS
      <4>3. - 0 = 0
        <5>1. 0 - 0 = 0 /\ 0 \in Int
          OBVIOUS
        <5>2. QED
          BY <4>2, <5>1
      <4>4. QED
        BY <4>1, <4>3 DEF Negative
    <3>3. QED
      BY <3>1, <3>2
  <2>3. CASE s # {}
    <3> DEFINE p == Pick(s)
               rest == s \ {p}
    <3>1. p \in s /\ f[p] \in Rationals /\ g[p] = Negative(f[p])
      BY <2>3, PickInSet
    <3>2. /\ TotalOver(f, s) = Plus(f[p], TotalOver(f, rest))
          /\ TotalOver(g, s) = Plus(g[p], TotalOver(g, rest))
      BY <2>1, <2>3, TotalStep
    <3>3. TotalOver(g, rest) = Negative(TotalOver(f, rest))
      BY <1>1, <3>1
    <3>4. IsFiniteSet(rest) /\ \A x \in rest : f[x] \in Rationals
      BY <2>1, FS_Subset
    <3> HIDE DEF p, rest
    <3>5. TotalOver(f, rest) \in Rationals
      BY <3>4, TotalWithout
    <3>6. Plus(Negative(f[p]), Negative(TotalOver(f, rest))) = Negative(Plus(f[p], TotalOver(f, rest)))
      BY <3>1, <3>5, NegativeOfSum
    <3>7. QED
      BY <3>1, <3>2, <3>3, <3>6
  <2>4. QED
    BY <2>2, <2>3
<1> HIDE DEF Good
<1>2. SUBSET S \subseteq Good
  BY <1>1, FiniteInduction
<1>3. QED
  BY <1>2 DEF Good

(* The total over a picture without two of the same is that over the set.  *)
LEMMA TotalOfPicture ==
  ASSUME NEW S, IsFiniteSet(S), NEW t, \A x, y \in S : t[x] = t[y] => x = y,
         NEW f, NEW g, \A x \in S : f[x] \in Rationals /\ g[t[x]] = f[x]
  PROVE  TotalOver(g, {t[x] : x \in S}) = TotalOver(f, S)
<1> DEFINE picture(s) == {t[x] : x \in s}
           Good == {s \in SUBSET S : TotalOver(g, picture(s)) = TotalOver(f, s)}
<1>1. ASSUME NEW s \in SUBSET S, \A r \in SUBSET s : r # s => r \in Good
      PROVE  s \in Good
  <2>1. IsFiniteSet(s)
    BY FS_Subset
  <2>2. IsFiniteSet(picture(s))
    BY <2>1, PictureIsFinite
  <2>3. CASE s = {}
    <3>1. picture(s) = {}
      BY <2>3
    <3> HIDE DEF picture
    <3>2. QED
      BY <2>1, <2>2, <2>3, <3>1, TotalStep
  <2>4. CASE s # {}
    <3>1. PICK x \in s : TRUE
      BY <2>4
    <3>2. /\ t[x] \in picture(s)
          /\ picture(s \ {x}) = picture(s) \ {t[x]}
          /\ \A y \in picture(s) : g[y] \in Rationals
          /\ \A y \in s : f[y] \in Rationals
      BY <3>1
    <3>3. TotalOver(g, picture(s \ {x})) = TotalOver(f, s \ {x})
      BY <1>1, <3>1
    <3> HIDE DEF picture
    <3>4. TotalOver(g, picture(s)) = Plus(g[t[x]], TotalOver(g, picture(s) \ {t[x]}))
      BY <2>2, <3>2, TotalWithout
    <3>5. TotalOver(f, s) = Plus(f[x], TotalOver(f, s \ {x}))
      BY <2>1, <3>1, <3>2, TotalWithout
    <3>6. QED
      BY <3>1, <3>2, <3>3, <3>4, <3>5
  <2>5. QED
    BY <2>3, <2>4
<1> HIDE DEF Good
<1>2. SUBSET S \subseteq Good
  BY <1>1, FiniteInduction
<1>3. QED
  BY <1>2 DEF Good

(* Of integers, the total is their sum. *)
LEMMA TotalOfWholes ==
  ASSUME NEW S, IsFiniteSet(S), NEW f, NEW h,
         \A x \in S : h[x] \in Int /\ f[x] = <<h[x], 1>>
  PROVE  TotalOver(f, S) = <<SumOver(h, S), 1>>
<1> DEFINE Good == {s \in SUBSET S : TotalOver(f, s) = <<SumOver(h, s), 1>>}
<1>1. ASSUME NEW s \in SUBSET S, \A t \in SUBSET s : t # s => t \in Good
      PROVE  s \in Good
  <2>1. IsFiniteSet(s)
    BY FS_Subset
  <2>2. CASE s = {}
    BY <2>1, <2>2, TotalStep, SumOfNothing
  <2>3. CASE s # {}
    <3> DEFINE p == Pick(s)
               rest == s \ {p}
    <3>1. p \in s /\ h[p] \in Int /\ f[p] = <<h[p], 1>>
      BY <2>3, PickInSet
    <3>2. TotalOver(f, s) = Plus(f[p], TotalOver(f, rest))
      BY <2>1, <2>3, TotalStep
    <3>3. SumOver(h, s) = h[p] + SumOver(h, rest)
      BY <2>1, <2>3, SumStep
    <3>4. TotalOver(f, rest) = <<SumOver(h, rest), 1>>
      BY <1>1, <3>1
    <3>5. IsFiniteSet(rest) /\ \A x \in rest : h[x] \in Int
      BY <2>1, FS_Subset
    <3> HIDE DEF p, rest
    <3>6. SumOver(h, rest) \in Int
      BY <3>5, SumWithout
    <3> DEFINE a == h[p]  b == SumOver(h, rest)
    <3> HIDE DEF a, b
    <3>7. a \in Int /\ b \in Int
      BY <3>1, <3>6 DEF a, b
    <3>8. Plus(<<a, 1>>, <<b, 1>>) = Ratio(a * 1 + b * 1, 1 * 1)
      BY DEF Plus
    <3>9. a * 1 + b * 1 = a + b /\ 1 * 1 = 1 /\ a + b \in Int
      BY <3>7
    <3>10. Plus(<<a, 1>>, <<b, 1>>) = <<a + b, 1>>
      BY <3>8, <3>9, RatioOfWhole
    <3>11. QED
      BY <3>1, <3>2, <3>3, <3>4, <3>10 DEF a, b
  <2>4. QED
    BY <2>2, <2>3
<1> HIDE DEF Good
<1>2. SUBSET S \subseteq Good
  BY <1>1, FiniteInduction
<1>3. QED
  BY <1>2 DEF Good

(* A mean is a share of the total. *)
LEMMA MeanIsShare ==
  ASSUME NEW f, IsFiniteSet(DOMAIN f), DOMAIN f # {}
  PROVE  /\ Mean(f) = Share(TotalOver(f, DOMAIN f), Cardinality(DOMAIN f))
         /\ Cardinality(DOMAIN f) \in Nat \ {0}
<1>1. FoldFunction(Plus, <<0, 1>>, f) = TotalOver(f, DOMAIN f)
  BY TotalIsTaken
<1>2. Mean(f) = Share(TotalOver(f, DOMAIN f), Cardinality(DOMAIN f))
  BY <1>1 DEF Mean, Share
<1>3. QED
  BY <1>2, FS_CardinalityType, FS_EmptySet

(* The mean of rationals is one; that of integers is their sum's. *)
LEMMA MeanIsRational ==
  ASSUME NEW f, IsFiniteSet(DOMAIN f), DOMAIN f # {}, \A x \in DOMAIN f : f[x] \in Rationals
  PROVE  /\ Mean(f) \in Rationals /\ Mean(f) \in Reduced
         /\ \A h : (\A x \in DOMAIN f : f[x] = <<h[x], 1>>) =>
              Mean(f) = Ratio(SumOver(h, DOMAIN f), Cardinality(DOMAIN f))
<1> DEFINE S == DOMAIN f
           total == TotalOver(f, S)
           n == Cardinality(S)
<1>1. Mean(f) = Share(total, n) /\ n \in Nat \ {0}
  BY MeanIsShare
<1>2. total \in Rationals
  <2> HIDE DEF S
  <2>1. IsFiniteSet(S) /\ \A x \in S : f[x] \in Rationals
    BY DEF S
  <2>2. QED
    BY <2>1, TotalWithout
<1>3. Mean(f) \in Rationals /\ Mean(f) \in Reduced
  <2> HIDE DEF total, n
  <2>1. QED
    BY <1>1, <1>2, ShareIsMonotone
<1>4. ASSUME NEW h, \A x \in S : f[x] = <<h[x], 1>>
      PROVE  Mean(f) = Ratio(SumOver(h, S), n)
  <2>1. \A x \in S : h[x] \in Int
    BY <1>4 DEF Rationals
  <2>2. total = <<SumOver(h, S), 1>>
    <3> HIDE DEF S
    <3>1. IsFiniteSet(S)
      BY DEF S
    <3>2. QED
      BY <1>4, <2>1, <3>1, TotalOfWholes
  <2> HIDE DEF total, n, S
  <2>3. total[1] = SumOver(h, S) /\ total[2] * n = n
    BY <1>1, <2>2
  <2>4. QED
    BY <1>1, <2>3 DEF Share
<1>5. QED
  BY <1>3, <1>4

(* Means of functions on one set: larger values have a larger mean, the    *)
(* same values the same, negated values a negated one.                     *)
LEMMA MeansOnSet ==
  ASSUME NEW S, IsFiniteSet(S), S # {}, NEW f, NEW g, DOMAIN f = S, DOMAIN g = S,
         \A x \in S : f[x] \in Rationals /\ g[x] \in Rationals
  PROVE  /\ (\A x \in S : AtMost(f[x], g[x])) =>
              /\ AtMost(Mean(f), Mean(g))
              /\ (\E x \in S : Below(f[x], g[x])) => Below(Mean(f), Mean(g))
         /\ (\A x \in S : g[x] = f[x]) => Mean(f) = Mean(g)
         /\ (\A x \in S : g[x] = Negative(f[x])) => Mean(g) = Negative(Mean(f))
<1> DEFINE n == Cardinality(S)
           p == TotalOver(f, S)
           q == TotalOver(g, S)
<1>1. Mean(f) = Share(p, n) /\ Mean(g) = Share(q, n) /\ n \in Nat \ {0}
  BY MeanIsShare
<1>2. p \in Rationals /\ q \in Rationals
  BY TotalWithout
<1>3. (\A x \in S : AtMost(f[x], g[x])) =>
        /\ AtMost(p, q)
        /\ (\E x \in S : Below(f[x], g[x])) => Below(p, q)
  BY TotalIsMonotone
<1>4. (\A x \in S : g[x] = f[x]) => p = q
  BY TotalIsOfValues
<1>5. (\A x \in S : g[x] = Negative(f[x])) => q = Negative(p)
  BY TotalIsOdd
<1> HIDE DEF n, p, q
<1>6. /\ AtMost(p, q) => AtMost(Share(p, n), Share(q, n))
      /\ Below(p, q) => Below(Share(p, n), Share(q, n))
      /\ Share(Negative(p), n) = Negative(Share(p, n))
  BY <1>1, <1>2, ShareIsMonotone
<1>7. QED
  BY <1>1, <1>3, <1>4, <1>5, <1>6

(* The mean over a picture without two of the same is that over the set.   *)
LEMMA MeanOfPicture ==
  ASSUME NEW S, IsFiniteSet(S), S # {}, NEW t, \A x, y \in S : t[x] = t[y] => x = y,
         NEW f, DOMAIN f = S, NEW g, DOMAIN g = {t[x] : x \in S},
         \A x \in S : f[x] \in Rationals /\ g[t[x]] = f[x]
  PROVE  Mean(g) = Mean(f)
<1> DEFINE T == {t[x] : x \in S}
<1>1. IsFiniteSet(T) /\ Cardinality(T) = Cardinality(S)
  BY PictureIsFinite
<1>2. TotalOver(g, T) = TotalOver(f, S)
  BY TotalOfPicture
<1>3. T # {}
  OBVIOUS
<1> HIDE DEF T
<1>4. DOMAIN g = T
  BY DEF T
<1>5. Mean(g) = Share(TotalOver(g, T), Cardinality(T))
  BY <1>1, <1>3, <1>4, MeanIsShare
<1>6. Mean(f) = Share(TotalOver(f, S), Cardinality(S))
  BY MeanIsShare
<1>7. QED
  BY <1>1, <1>2, <1>5, <1>6

-----------------------------------------------------------------------------
(* Order and medians *)

(* f goes through S from the lowest value of x to the highest. *)
Orders(f, x, S) ==
  LET n == Cardinality(S)
  IN  /\ f \in [1 .. n -> S]
      /\ \A i, j \in 1 .. n : f[i] = f[j] => i = j
      /\ \A s \in S : \E i \in 1 .. n : f[i] = s
      /\ \A i, j \in 1 .. n : i < j => AtMost(x[f[i]], x[f[j]])

(* A finite set can be put in order: its highest element comes last. *)
LEMMA OrderExists ==
  ASSUME NEW S, IsFiniteSet(S), NEW x, \A s \in S : x[s] \in Rationals
  PROVE  \E f : Orders(f, x, S)
<1> DEFINE Good == {s \in SUBSET S : \E f : Orders(f, x, s)}
<1>1. ASSUME NEW s \in SUBSET S, \A t \in SUBSET s : t # s => t \in Good
      PROVE  s \in Good
  <2>1. IsFiniteSet(s)
    BY FS_Subset
  <2>2. CASE s = {}
    <3>1. Cardinality(s) = 0 /\ 1 .. 0 = {}
      BY <2>2, FS_EmptySet
    <3>2. Orders([i \in {} |-> i], x, s)
      BY <2>2, <3>1 DEF Orders
    <3>3. QED
      BY <3>2
  <2>3. CASE s # {}
    <3> DEFINE R == {p \in s \X s : AtMost(x[p[1]], x[p[2]])}
    <3>1. \A a, b \in s : <<a, b>> \in R <=> AtMost(x[a], x[b])
      OBVIOUS
    <3>2. \A a \in s : x[a] \in Rationals
      OBVIOUS
    <3> HIDE DEF R
    <3>3. \A a, b \in s : <<a, b>> \in R \/ <<b, a>> \in R
      BY <3>1, <3>2, AtMostIsOrder
    <3>4. \A a, b, c \in s : <<a, b>> \in R /\ <<b, c>> \in R => <<a, c>> \in R
      BY <3>1, <3>2, AtMostIsOrder
    <3>5. PICK m \in s : \A a \in s : <<a, m>> \in R
      BY <2>1, <2>3, <3>3, <3>4, LastIsFound
    <3>6. \A a \in s : AtMost(x[a], x[m])
      BY <3>1, <3>5
    <3> DEFINE rest == s \ {m}
               n == Cardinality(s)
    <3>7. Cardinality(rest) = n - 1 /\ n \in Nat /\ n - 1 \in Nat
      <4>1. n \in Nat /\ n # 0
        BY <2>1, <2>3, FS_CardinalityType, FS_EmptySet
      <4>2. Cardinality(rest) = n - 1
        BY <2>1, FS_RemoveElement
      <4> HIDE DEF n
      <4>3. QED
        BY <4>1, <4>2
    <3>8. PICK g : Orders(g, x, rest)
      BY <1>1
    <3>9. /\ g \in [1 .. n - 1 -> rest]
          /\ \A i, j \in 1 .. n - 1 : g[i] = g[j] => i = j
          /\ \A a \in rest : \E i \in 1 .. n - 1 : g[i] = a
          /\ \A i, j \in 1 .. n - 1 : i < j => AtMost(x[g[i]], x[g[j]])
      BY <3>7, <3>8 DEF Orders
    <3> DEFINE f == [i \in 1 .. n |-> IF i = n THEN m ELSE g[i]]
    <3> HIDE DEF n
    <3>10. \A i \in 1 .. n : i # n => i \in 1 .. n - 1 /\ i < n
      BY <3>7
    <3>11. n \in 1 .. n /\ \A i \in 1 .. n - 1 : i \in 1 .. n /\ i # n
      BY <3>7
    <3>12. f \in [1 .. n -> s]
      BY <3>9, <3>10
    <3>13. \A i, j \in 1 .. n : f[i] = f[j] => i = j
      BY <3>9, <3>10
    <3>14. \A a \in s : \E i \in 1 .. n : f[i] = a
      <4>1. SUFFICES ASSUME NEW a \in s PROVE \E i \in 1 .. n : f[i] = a
        OBVIOUS
      <4>2. CASE a = m
        BY <3>11, <4>2
      <4>3. CASE a # m
        <5>1. PICK i \in 1 .. n - 1 : g[i] = a
          BY <3>9, <4>3
        <5>2. QED
          BY <3>11, <5>1
      <4>4. QED
        BY <4>2, <4>3
    <3>15. \A i, j \in 1 .. n : i < j => AtMost(x[f[i]], x[f[j]])
      <4>1. SUFFICES ASSUME NEW i \in 1 .. n, NEW j \in 1 .. n, i < j
                     PROVE  AtMost(x[f[i]], x[f[j]])
        OBVIOUS
      <4>2. i \in 1 .. n - 1
        BY <3>7, <4>1
      <4>3. CASE j = n
        <5>1. f[j] = m /\ f[i] \in s
          BY <3>12, <4>3
        <5>2. QED
          BY <3>6, <5>1
      <4>4. CASE j # n
        <5>1. f[i] = g[i] /\ f[j] = g[j] /\ j \in 1 .. n - 1
          BY <3>10, <3>11, <4>2, <4>4
        <5>2. QED
          BY <3>9, <4>1, <4>2, <5>1
      <4>5. QED
        BY <4>3, <4>4
    <3> HIDE DEF f
    <3>16. Orders(f, x, s)
      BY <3>12, <3>13, <3>14, <3>15 DEF Orders, n
    <3>17. QED
      BY <3>16
  <2>4. QED
    BY <2>2, <2>3
<1> HIDE DEF Good
<1>2. SUBSET S \subseteq Good
  BY <1>1, FiniteInduction
<1>3. QED
  BY <1>2 DEF Good

(* What is sorted is the values in such an order. *)
LEMMA SortedFound ==
  ASSUME NEW x, IsFiniteSet(DOMAIN x), \A s \in DOMAIN x : x[s] \in Rationals
  PROVE  \E f : /\ Orders(f, x, DOMAIN x)
                /\ Sorted(x) = [i \in 1 .. Cardinality(DOMAIN x) |-> x[f[i]]]
<1> DEFINE S == DOMAIN x
           n == Cardinality(S)
           Ascending(f) == \A i, j \in 1 .. n : i < j => ~ Below(x[f[j]], x[f[i]])
           order == CHOOSE f \in Bijection(1 .. n, S) : Ascending(f)
<1>1. Sorted(x) = [i \in 1 .. n |-> x[order[i]]]
  BY DEF Sorted
<1>2. \A s, t \in S : AtMost(x[s], x[t]) <=> ~ Below(x[t], x[s])
  BY AtMostIsOrder
<1>3. PICK g : Orders(g, x, S)
  BY OrderExists
<1> HIDE DEF S, n
<1>4. /\ g \in [1 .. n -> S]
      /\ \A i, j \in 1 .. n : g[i] = g[j] => i = j
      /\ \A s \in S : \E i \in 1 .. n : g[i] = s
      /\ \A i, j \in 1 .. n : i < j => AtMost(x[g[i]], x[g[j]])
  BY <1>3 DEF Orders, n
<1>5. g \in Bijection(1 .. n, S)
  <2>1. DOMAIN g = 1 .. n
    BY <1>4
  <2>2. g \in Injection(1 .. n, S)
    BY <1>4, <2>1 DEF Injection, IsInjective
  <2>3. g \in Surjection(1 .. n, S)
    BY <1>4 DEF Surjection
  <2>4. QED
    BY <2>2, <2>3 DEF Bijection
<1>6. Ascending(g)
  BY <1>2, <1>4
<1>7. order \in Bijection(1 .. n, S) /\ Ascending(order)
  BY <1>5, <1>6
<1> HIDE DEF order
<1>8. /\ order \in [1 .. n -> S]
      /\ \A i, j \in 1 .. n : order[i] = order[j] => i = j
      /\ \A s \in S : \E i \in 1 .. n : order[i] = s
  <2>1. order \in Injection(1 .. n, S) /\ order \in Surjection(1 .. n, S)
    BY <1>7 DEF Bijection
  <2>2. order \in [1 .. n -> S] /\ DOMAIN order = 1 .. n
    BY <2>1 DEF Surjection
  <2>3. QED
    BY <2>1, <2>2 DEF Injection, Surjection, IsInjective
<1>9. \A i, j \in 1 .. n : i < j => AtMost(x[order[i]], x[order[j]])
  BY <1>2, <1>7, <1>8
<1>10. Orders(order, x, S)
  BY <1>8, <1>9 DEF Orders, n
<1>11. QED
  BY <1>1, <1>10 DEF S, n

(* The values of larger functions are larger at every place of the order:  *)
(* else the first places of one order were more than they are.             *)
LEMMA PlacesAreMonotone ==
  ASSUME NEW S, IsFiniteSet(S), NEW x, NEW y,
         \A s \in S : x[s] \in Rationals /\ y[s] \in Rationals /\ AtMost(x[s], y[s]),
         NEW f, Orders(f, x, S), NEW g, Orders(g, y, S), NEW k \in 1 .. Cardinality(S)
  PROVE  AtMost(x[f[k]], y[g[k]])
<1> DEFINE n == Cardinality(S)
<1>1. n \in Nat
  BY FS_CardinalityType
<1>2. /\ f \in [1 .. n -> S]
      /\ \A s \in S : \E i \in 1 .. n : f[i] = s
      /\ \A i, j \in 1 .. n : i < j => AtMost(x[f[i]], x[f[j]])
  BY DEF Orders
<1>3. /\ g \in [1 .. n -> S]
      /\ \A i, j \in 1 .. n : g[i] = g[j] => i = j
      /\ \A i, j \in 1 .. n : i < j => AtMost(y[g[i]], y[g[j]])
  BY DEF Orders
<1>4. k \in 1 .. n
  OBVIOUS
<1> HIDE DEF n
<1>5. SUFFICES ASSUME Below(y[g[k]], x[f[k]]) PROVE FALSE
  BY <1>2, <1>3, <1>4, AtMostIsOrder
<1> DEFINE h == [i \in 1 .. k |-> CHOOSE j \in 1 .. n : f[j] = g[i]]
<1>6. \A i \in 1 .. k : i \in 1 .. n
  BY <1>1, <1>4
<1>7. ASSUME NEW i \in 1 .. k
      PROVE  h[i] \in 1 .. n /\ f[h[i]] = g[i]
  <2>1. g[i] \in S
    BY <1>3, <1>6
  <2>2. \E j \in 1 .. n : f[j] = g[i]
    BY <1>2, <2>1
  <2>3. QED
    BY <2>2
<1> HIDE DEF h
<1>8. ASSUME NEW i \in 1 .. k
      PROVE  h[i] \in 1 .. k - 1
  <2>1. SUFFICES ASSUME ~ (h[i] < k) PROVE FALSE
    BY <1>1, <1>4, <1>7
  <2> DEFINE a == x[f[k]]  b == x[g[i]]  c == y[g[i]]  d == y[g[k]]
  <2>2. f[k] \in S /\ g[i] \in S /\ g[k] \in S
    BY <1>2, <1>3, <1>4, <1>6
  <2>3. a \in Rationals /\ b \in Rationals /\ c \in Rationals /\ d \in Rationals
    BY <2>2
  <2>4. AtMost(a, b)
    <3>1. CASE h[i] = k
      <4>1. a = b
        BY <1>7, <3>1
      <4> HIDE DEF a, b
      <4>2. QED
        BY <2>3, <4>1, AtMostIsOrder
    <3>2. CASE h[i] # k
      <4>1. k < h[i]
        BY <1>1, <1>4, <1>7, <2>1, <3>2
      <4>2. QED
        BY <1>2, <1>4, <1>7, <4>1
    <3>3. QED
      BY <3>1, <3>2
  <2>5. AtMost(b, c)
    BY <2>2
  <2>6. AtMost(c, d)
    <3>1. CASE i = k
      <4>1. c = d
        BY <3>1
      <4> HIDE DEF c, d
      <4>2. QED
        BY <2>3, <4>1, AtMostIsOrder
    <3>2. CASE i # k
      <4>1. i < k
        BY <1>1, <1>4, <3>2
      <4>2. QED
        BY <1>3, <1>4, <1>6, <4>1
    <3>3. QED
      BY <3>1, <3>2
  <2>7. Below(d, a)
    BY <1>5
  <2> HIDE DEF a, b, c, d
  <2>8. AtMost(a, c)
    BY <2>3, <2>4, <2>5, AtMostIsOrder
  <2>9. AtMost(a, d)
    BY <2>3, <2>6, <2>8, AtMostIsOrder
  <2>10. QED
    BY <2>3, <2>7, <2>9, AtMostIsOrder
<1>9. h \in [1 .. k -> 1 .. k - 1]
  BY <1>8 DEF h
<1>10. k \in Int /\ k - 1 \in Int /\ 1 \in Int /\ k >= 1
  BY <1>1, <1>4
<1>11. /\ IsFiniteSet(1 .. k) /\ IsFiniteSet(1 .. k - 1)
       /\ Cardinality(1 .. k) = k /\ Cardinality(1 .. k - 1) = k - 1
  <2>1. \A a, b \in Int : /\ IsFiniteSet(a .. b)
                          /\ Cardinality(a .. b) = IF a > b THEN 0 ELSE (b - a) + 1
    BY FS_Interval
  <2>2. /\ (IF 1 > k THEN 0 ELSE (k - 1) + 1) = k
        /\ (IF 1 > k - 1 THEN 0 ELSE ((k - 1) - 1) + 1) = k - 1
    BY <1>10
  <2>3. QED
    BY <1>10, <2>1, <2>2
<1>12. Cardinality(1 .. k - 1) < Cardinality(1 .. k)
  BY <1>10, <1>11
<1>13. PICK i \in 1 .. k, j \in 1 .. k : i # j /\ h[i] = h[j]
  <2> DEFINE A == 1 .. k  B == 1 .. k - 1
  <2>1. IsFiniteSet(A) /\ IsFiniteSet(B) /\ Cardinality(B) < Cardinality(A) /\ h \in [A -> B]
    BY <1>9, <1>11, <1>12
  <2> HIDE DEF A, B
  <2>2. \E i, j \in A : i # j /\ h[i] = h[j]
    BY <2>1, FS_PigeonHole
  <2>3. QED
    BY <2>2 DEF A
<1>14. g[i] = g[j]
  BY <1>7, <1>13
<1>15. QED
  BY <1>3, <1>6, <1>13, <1>14

(* A sorted function is a sequence of its values. *)
LEMMA SortedIsSequence ==
  ASSUME NEW S, IsFiniteSet(S), NEW x, DOMAIN x = S, \A s \in S : x[s] \in Rationals
  PROVE  /\ Sorted(x) \in Seq(Rationals) /\ Len(Sorted(x)) = Cardinality(S)
         /\ Cardinality(S) \in Nat
         /\ \A k \in 1 .. Cardinality(S) : \E s \in S : Sorted(x)[k] = x[s]
<1> DEFINE n == Cardinality(S)
<1>1. n \in Nat
  BY FS_CardinalityType
<1>2. PICK f : Orders(f, x, S) /\ Sorted(x) = [i \in 1 .. n |-> x[f[i]]]
  BY SortedFound
<1>3. f \in [1 .. n -> S]
  BY <1>2 DEF Orders
<1> HIDE DEF n
<1>4. Sorted(x) \in [1 .. n -> Rationals]
  BY <1>2, <1>3
<1>5. Sorted(x) \in Seq(Rationals)
  BY <1>1, <1>4
<1>6. DOMAIN Sorted(x) = 1 .. n /\ DOMAIN Sorted(x) = 1 .. Len(Sorted(x)) /\ Len(Sorted(x)) \in Nat
  BY <1>4, <1>5
<1>7. Len(Sorted(x)) = n
  BY <1>1, <1>6
<1>8. \A k \in 1 .. n : \E s \in S : Sorted(x)[k] = x[s]
  BY <1>2, <1>3
<1>9. QED
  BY <1>1, <1>5, <1>7, <1>8 DEF n

(* Larger values are larger at every place. *)
LEMMA SortedIsMonotone ==
  ASSUME NEW S, IsFiniteSet(S), NEW x, NEW y, DOMAIN x = S, DOMAIN y = S,
         \A s \in S : x[s] \in Rationals /\ y[s] \in Rationals /\ AtMost(x[s], y[s]),
         NEW k \in 1 .. Cardinality(S)
  PROVE  AtMost(Sorted(x)[k], Sorted(y)[k])
<1>1. PICK f : Orders(f, x, S) /\ Sorted(x) = [i \in 1 .. Cardinality(S) |-> x[f[i]]]
  BY SortedFound
<1>2. PICK g : Orders(g, y, S) /\ Sorted(y) = [i \in 1 .. Cardinality(S) |-> y[g[i]]]
  BY SortedFound
<1>3. AtMost(x[f[k]], y[g[k]])
  BY <1>1, <1>2, PlacesAreMonotone
<1>4. QED
  BY <1>1, <1>2, <1>3

(* Negated values are in the opposite order. *)
LEMMA SortedIsOdd ==
  ASSUME NEW S, IsFiniteSet(S), NEW x, NEW y, DOMAIN x = S, DOMAIN y = S,
         \A s \in S : x[s] \in Reduced /\ y[s] = Negative(x[s]),
         NEW k \in 1 .. Cardinality(S)
  PROVE  Sorted(y)[k] = Negative(Sorted(x)[Cardinality(S) + 1 - k])
<1> DEFINE n == Cardinality(S)
<1>1. \A s \in S : /\ x[s] \in Rationals /\ y[s] \in Rationals
                   /\ x[s] \in Reduced /\ y[s] \in Reduced
  BY NegativeIsRational DEF Reduced
<1>2. PICK f : Orders(f, x, S) /\ Sorted(x) = [i \in 1 .. n |-> x[f[i]]]
  BY <1>1, SortedFound
<1>3. PICK g : Orders(g, y, S) /\ Sorted(y) = [i \in 1 .. n |-> y[g[i]]]
  BY <1>1, SortedFound
<1>4. n \in Nat
  BY FS_CardinalityType
<1> DEFINE h == [i \in 1 .. n |-> f[n + 1 - i]]
<1>5. /\ f \in [1 .. n -> S]
      /\ \A i, j \in 1 .. n : f[i] = f[j] => i = j
      /\ \A s \in S : \E i \in 1 .. n : f[i] = s
      /\ \A i, j \in 1 .. n : i < j => AtMost(x[f[i]], x[f[j]])
  BY <1>2 DEF Orders
<1>6. k \in 1 .. n
  OBVIOUS
<1>7. Orders(h, y, S)
  <2> HIDE DEF n
  <2>1. \A i \in 1 .. n : n + 1 - i \in 1 .. n /\ n + 1 - (n + 1 - i) = i
    BY <1>4
  <2>2. \A i, j \in 1 .. n : /\ n + 1 - i = n + 1 - j => i = j
                             /\ i < j => n + 1 - j < n + 1 - i
    BY <1>4
  <2>3. h \in [1 .. n -> S]
    BY <1>5, <2>1
  <2>4. \A i, j \in 1 .. n : h[i] = h[j] => i = j
    BY <1>5, <2>1, <2>2
  <2>5. ASSUME NEW s \in S PROVE \E i \in 1 .. n : h[i] = s
    <3>1. PICK i \in 1 .. n : f[i] = s
      BY <1>5
    <3>2. h[n + 1 - i] = f[n + 1 - (n + 1 - i)] /\ n + 1 - i \in 1 .. n
      BY <2>1
    <3>3. QED
      BY <2>1, <3>1, <3>2
  <2>6. ASSUME NEW i \in 1 .. n, NEW j \in 1 .. n, i < j
        PROVE  AtMost(y[h[i]], y[h[j]])
    <3> DEFINE a == f[n + 1 - i]
               b == f[n + 1 - j]
    <3>1. a \in S /\ b \in S /\ h[i] = a /\ h[j] = b
      BY <1>5, <2>1
    <3>2. AtMost(x[b], x[a])
      BY <1>5, <2>1, <2>2, <2>6
    <3> HIDE DEF a, b
    <3>3. AtMost(Negative(x[a]), Negative(x[b]))
      BY <1>1, <3>1, <3>2, NegativeTurnsOrder
    <3>4. QED
      BY <3>1, <3>3
  <2> HIDE DEF h
  <2>7. QED
    BY <2>3, <2>4, <2>5, <2>6 DEF Orders, n
<1>8. AtMost(y[g[k]], y[h[k]]) /\ AtMost(y[h[k]], y[g[k]])
  <2> HIDE DEF h
  <2>1. \A s \in S : AtMost(y[s], y[s])
    BY <1>1, AtMostIsOrder
  <2>2. QED
    BY <1>1, <1>3, <1>7, <2>1, PlacesAreMonotone
<1>9. g[k] \in S /\ h[k] \in S /\ h[k] = f[n + 1 - k]
  <2>1. g \in [1 .. n -> S] /\ h \in [1 .. n -> S]
    BY <1>3, <1>7 DEF Orders
  <2>2. QED
    BY <1>6, <2>1
<1>10. y[g[k]] = y[h[k]]
  <2> HIDE DEF h, n
  <2>1. QED
    BY <1>1, <1>8, <1>9, ReducedIsUnique
<1>11. y[h[k]] = Negative(x[f[n + 1 - k]])
  <2> HIDE DEF h, n
  <2>1. QED
    BY <1>9
<1>12. n + 1 - k \in 1 .. n
  <2> HIDE DEF n
  <2>1. QED
    BY <1>4, <1>6
<1>13. QED
  BY <1>2, <1>3, <1>10, <1>11, <1>12

(* The median of a sorted function, in terms of its one or two places in   *)
(* the middle.                                                             *)
LEMMA MedianFound ==
  ASSUME NEW v \in Seq(Rationals), NEW m \in Nat
  PROVE  /\ Len(v) = 2 * m + 1 => Median(v) = v[m + 1]
         /\ Len(v) = 2 * m /\ m > 0 => Median(v) = Share(Plus(v[m], v[m + 1]), 2)
<1>1. ASSUME Len(v) = 2 * m + 1 PROVE Median(v) = v[m + 1]
  <2>1. Len(v) \div 2 = m /\ Len(v) % 2 = 1
    BY <1>1
  <2>2. QED
    BY <2>1 DEF Median
<1>2. ASSUME Len(v) = 2 * m, m > 0 PROVE Median(v) = Share(Plus(v[m], v[m + 1]), 2)
  <2>1. Len(v) \div 2 = m /\ Len(v) % 2 = 0
    BY <1>2
  <2> DEFINE sum == Plus(v[m], v[m + 1])
  <2>2. Median(v) = Ratio(sum[1], 2 * sum[2])
    BY <2>1 DEF Median
  <2>3. v[m] \in Rationals /\ v[m + 1] \in Rationals
    BY <1>2
  <2>4. sum[2] \in Nat
    <3>1. sum \in Rationals
      BY <2>3, SumIsReduced
    <3> HIDE DEF sum
    <3>2. QED
      BY <3>1, PartsOfRational
  <2>5. Share(sum, 2) = Ratio(sum[1], sum[2] * 2)
    BY DEF Share
  <2> HIDE DEF sum
  <2>6. 2 * sum[2] = sum[2] * 2
    BY <2>4
  <2>7. QED
    BY <2>2, <2>5, <2>6 DEF sum
<1>3. QED
  BY <1>1, <1>2

(* Every number is even or odd. *)
LEMMA EvenOrOdd ==
  ASSUME NEW n \in Nat
  PROVE  \E m \in Nat : n = 2 * m \/ n = 2 * m + 1
<1>1. n \div 2 \in Nat /\ (n = 2 * (n \div 2) \/ n = 2 * (n \div 2) + 1)
  OBVIOUS
<1>2. QED
  BY <1>1

(* A median grows with the values. *)
LEMMA MedianIsMonotone ==
  ASSUME NEW S, IsFiniteSet(S), S # {}, NEW x, NEW y, DOMAIN x = S, DOMAIN y = S,
         \A s \in S : x[s] \in Rationals /\ y[s] \in Rationals /\ AtMost(x[s], y[s])
  PROVE  /\ Median(Sorted(x)) \in Rationals /\ Median(Sorted(y)) \in Rationals
         /\ AtMost(Median(Sorted(x)), Median(Sorted(y)))
<1> DEFINE n == Cardinality(S)
           v == Sorted(x)
           w == Sorted(y)
<1>1. /\ v \in Seq(Rationals) /\ Len(v) = n /\ w \in Seq(Rationals) /\ Len(w) = n
      /\ n \in Nat
  BY SortedIsSequence
<1>2. n # 0
  BY FS_EmptySet
<1>3. \A k \in 1 .. n : AtMost(v[k], w[k])
  BY SortedIsMonotone
<1> HIDE DEF n, v, w
<1>4. \A k \in 1 .. n : v[k] \in Rationals /\ w[k] \in Rationals
  BY <1>1
<1>5. PICK m \in Nat : n = 2 * m \/ n = 2 * m + 1
  BY <1>1, EvenOrOdd
<1>6. CASE n = 2 * m + 1
  <2>1. m + 1 \in 1 .. n
    BY <1>6
  <2>2. Median(v) = v[m + 1] /\ Median(w) = w[m + 1]
    BY <1>1, <1>6, MedianFound
  <2>3. QED
    BY <1>3, <1>4, <2>1, <2>2 DEF v, w
<1>7. CASE n = 2 * m
  <2>1. m > 0 /\ m \in 1 .. n /\ m + 1 \in 1 .. n
    BY <1>2, <1>7
  <2>2. /\ Median(v) = Share(Plus(v[m], v[m + 1]), 2)
        /\ Median(w) = Share(Plus(w[m], w[m + 1]), 2)
    BY <1>1, <1>7, <2>1, MedianFound
  <2> DEFINE a == v[m]  b == v[m + 1]  c == w[m]  d == w[m + 1]
  <2>3. /\ a \in Rationals /\ b \in Rationals /\ c \in Rationals /\ d \in Rationals
        /\ AtMost(a, c) /\ AtMost(b, d)
    BY <1>3, <1>4, <2>1
  <2> HIDE DEF a, b, c, d
  <2>4. AtMost(Plus(a, b), Plus(c, b))
    BY <2>3, PlusIsMonotone
  <2>5. AtMost(Plus(c, b), Plus(c, d))
    <3>1. AtMost(Plus(b, c), Plus(d, c))
      BY <2>3, PlusIsMonotone
    <3>2. Plus(b, c) = Plus(c, b) /\ Plus(d, c) = Plus(c, d)
      BY <2>3, PlusCommutes
    <3>3. QED
      BY <3>1, <3>2
  <2>6. Plus(a, b) \in Rationals /\ Plus(c, b) \in Rationals /\ Plus(c, d) \in Rationals
    BY <2>3, SumIsReduced
  <2>7. AtMost(Plus(a, b), Plus(c, d))
    BY <2>4, <2>5, <2>6, AtMostIsOrder
  <2>8. 2 \in Nat \ {0}
    OBVIOUS
  <2>9. /\ AtMost(Share(Plus(a, b), 2), Share(Plus(c, d), 2))
        /\ Share(Plus(a, b), 2) \in Rationals /\ Share(Plus(c, d), 2) \in Rationals
    BY <2>6, <2>7, <2>8, ShareIsMonotone
  <2>10. QED
    BY <2>2, <2>9 DEF v, w, a, b, c, d
<1>8. QED
  BY <1>5, <1>6, <1>7

(* The median of negated values is the negated median. *)
LEMMA MedianIsOdd ==
  ASSUME NEW S, IsFiniteSet(S), S # {}, NEW x, NEW y, DOMAIN x = S, DOMAIN y = S,
         \A s \in S : x[s] \in Reduced /\ y[s] = Negative(x[s])
  PROVE  Median(Sorted(y)) = Negative(Median(Sorted(x)))
<1> DEFINE n == Cardinality(S)
           v == Sorted(x)
           w == Sorted(y)
<1>1. \A s \in S : x[s] \in Rationals /\ y[s] \in Rationals
  BY NegativeIsRational DEF Reduced
<1>2. /\ v \in Seq(Rationals) /\ Len(v) = n /\ w \in Seq(Rationals) /\ Len(w) = n
      /\ n \in Nat
  BY <1>1, SortedIsSequence
<1>3. n # 0
  BY FS_EmptySet
<1>4. \A k \in 1 .. n : w[k] = Negative(v[n + 1 - k])
  BY SortedIsOdd
<1> HIDE DEF n, v, w
<1>5. \A k \in 1 .. n : v[k] \in Rationals
  BY <1>2
<1>6. PICK m \in Nat : n = 2 * m \/ n = 2 * m + 1
  BY <1>2, EvenOrOdd
<1>7. CASE n = 2 * m + 1
  <2>1. m + 1 \in 1 .. n /\ n + 1 - (m + 1) = m + 1
    BY <1>7
  <2>2. Median(v) = v[m + 1] /\ Median(w) = w[m + 1]
    BY <1>2, <1>7, MedianFound
  <2>3. QED
    BY <1>4, <2>1, <2>2 DEF v, w
<1>8. CASE n = 2 * m
  <2>1. /\ m > 0 /\ m \in 1 .. n /\ m + 1 \in 1 .. n
        /\ n + 1 - m = m + 1 /\ n + 1 - (m + 1) = m
    BY <1>3, <1>8
  <2>2. /\ Median(v) = Share(Plus(v[m], v[m + 1]), 2)
        /\ Median(w) = Share(Plus(w[m], w[m + 1]), 2)
    BY <1>2, <1>8, <2>1, MedianFound
  <2>3. w[m] = Negative(v[m + 1]) /\ w[m + 1] = Negative(v[m])
    BY <1>4, <2>1
  <2> DEFINE a == v[m]  b == v[m + 1]
  <2>4. a \in Rationals /\ b \in Rationals
    BY <1>5, <2>1
  <2> HIDE DEF a, b
  <2>5. Plus(Negative(b), Negative(a)) = Negative(Plus(b, a)) /\ Plus(b, a) = Plus(a, b)
    BY <2>4, NegativeOfSum, PlusCommutes
  <2>6. Plus(a, b) \in Rationals /\ 2 \in Nat \ {0}
    BY <2>4, SumIsReduced
  <2>7. Share(Negative(Plus(a, b)), 2) = Negative(Share(Plus(a, b), 2))
    BY <2>6, ShareIsMonotone
  <2>8. QED
    BY <2>2, <2>3, <2>5, <2>7 DEF v, w, a, b
<1>9. QED
  BY <1>6, <1>7, <1>8

-----------------------------------------------------------------------------
(* What is aggregated *)

(* A key tells its items apart, an item is annotated once by a reviewer,   *)
(* and its scores are in ranges an int can hold the width of.              *)
Readable(K, A, ds) ==
  /\ IsFiniteSet(K) /\ IsFiniteSet(A)
  /\ \A key \in K : key.variant \in Int
  /\ \A k, l \in K : k.review = l.review => k = l
  /\ \A a \in A : a.reviewer \in Int /\ \E key \in K : key.review = a.review
  /\ \A a, b \in A : a.review = b.review /\ a.reviewer = b.reviewer => a = b
  /\ \A a \in A : \A i \in DOMAIN ds :
       /\ ds[i].min \in Int /\ ds[i].max \in Int /\ ds[i].max - ds[i].min <= MaxInt
       /\ a.scores[ds[i].name] \in ds[i].min .. ds[i].max

(* That is what has been loaded. *)
LEMMA LoadedIsReadable ==
  ASSUME IInv
  PROVE  Readable(keys, load.taken, dims)
<1> DEFINE n == load.next - 1
           I == 1 .. n
           D == DOMAIN listed
           keyOf == [j \in D |-> [review |-> Digest[Identity(listed[j])],
                                  subject |-> listed[j].subject,
                                  variant |-> listed[j].variant]]
           takenOf == [i \in I |-> Taken(lines[i])]
<1>1. /\ n \in 0 .. Len(lines) /\ lines \in Seq(Line) /\ Len(lines) \in Nat
      /\ \A i \in I : lines[i] \in Line
  BY DEF IInv, LoadKnown, LinesKnown
<1>2. keys = {keyOf[j] : j \in D}
  BY DEF IInv, KeysKnown, KeysOf
<1>3. load.taken = {takenOf[i] : i \in I}
  BY DEF IInv, LoadKnown
<1>4. \A i \in I : /\ takenOf[i].review = lines[i].review
                   /\ takenOf[i].reviewer = lines[i].reviewer
                   /\ takenOf[i].scores = lines[i].scores
  BY DEF Taken
<1>5. \A i \in I : ValidAnnotation(lines[i])
  BY DEF IInv, LoadKnown
<1>6. \A i, j \in I : lines[i].review = lines[j].review /\ lines[i].reviewer = lines[j].reviewer => i = j
  BY DEF IInv, LoadKnown
<1>7. /\ IsFiniteSet(D)
      /\ \A j \in D : Identity(listed[j]) \in DOMAIN Digest
      /\ \A i, j \in D : Identity(listed[i]) = Identity(listed[j]) => i = j
  BY ListedKnown DEF IInv
<1>8. \A j \in D : /\ keyOf[j].review = Digest[Identity(listed[j])]
                   /\ keyOf[j].variant = listed[j].variant
  OBVIOUS
<1>9. \A j \in D : listed \in Lists /\ Buildable(listed) /\ WellFormed(listed[j])
  BY DEF IInv, KeysKnown, Buildable
<1> HIDE DEF keyOf, takenOf
<1>10. IsFiniteSet(keys) /\ IsFiniteSet(load.taken)
  <2>1. IsFiniteSet(I)
    <3>1. 1 \in Int /\ n \in Int
      BY <1>1
    <3> HIDE DEF n
    <3>2. QED
      BY <3>1, FS_Interval
  <2> HIDE DEF I, D
  <2>2. QED
    BY <1>2, <1>3, <1>7, <2>1, PictureIsFinite
<1> HIDE DEF n
<1>11. \A key \in keys : key.variant \in Int
  BY <1>2, <1>8, <1>9, ReviewAssumption
<1>12. \A k, l \in keys : k.review = l.review => k = l
  <2>1. ASSUME NEW i \in D, NEW j \in D, keyOf[i].review = keyOf[j].review
        PROVE  keyOf[i] = keyOf[j]
    <3>1. Identity(listed[i]) = Identity(listed[j])
      BY <1>7, <1>8, <2>1, ReviewAssumption DEF IsInjective
    <3>2. QED
      BY <1>7, <3>1
  <2> HIDE DEF D
  <2>2. QED
    BY <1>2, <2>1
<1>13. ASSUME NEW i \in I
       PROVE  lines[i].reviewer \in Int
  <2>1. lines[i].reviewer # Blank
    BY <1>5 DEF ValidAnnotation
  <2>2. PICK opinion \in Voiced : lines[i].reviewer = opinion[1]
    BY <1>1 DEF Line
  <2>3. PICK list \in Lists : \E j \in DOMAIN list : opinion \in Opinions(list[j])
    BY <2>2 DEF Voiced, Candidates
  <2>4. opinion[1] = Blank \/ opinion[1] \in Int
    BY <2>3, ReviewAssumption
  <2>5. QED
    BY <2>1, <2>2, <2>4
<1>14. \A a \in load.taken : a.reviewer \in Int /\ \E key \in keys : key.review = a.review
  <2>1. \A i \in I : \E key \in keys : key.review = lines[i].review
    BY <1>5 DEF ValidAnnotation
  <2>2. QED
    BY <1>3, <1>4, <1>13, <2>1
<1>15. \A a, b \in load.taken : a.review = b.review /\ a.reviewer = b.reviewer => a = b
  <2>1. ASSUME NEW i \in I, NEW j \in I, takenOf[i].review = takenOf[j].review,
               takenOf[i].reviewer = takenOf[j].reviewer
        PROVE  takenOf[i] = takenOf[j]
    <3>1. i = j
      BY <1>4, <1>6, <2>1
    <3>2. QED
      BY <3>1
  <2> HIDE DEF I
  <2>2. QED
    BY <1>3, <2>1
<1>16. ASSUME NEW a \in load.taken, NEW i \in DOMAIN dims
       PROVE  /\ dims[i].min \in Int /\ dims[i].max \in Int
              /\ dims[i].max - dims[i].min <= MaxInt
              /\ a.scores[dims[i].name] \in dims[i].min .. dims[i].max
  <2>1. dims[i].min \in Int /\ dims[i].max \in Int
    BY ReviewAssumption DEF IInv, KeysKnown
  <2>2. PICK l \in I : a = takenOf[l]
    BY <1>3
  <2>3. a.scores[dims[i].name] \in dims[i].min .. dims[i].max
    BY <1>4, <1>5, <2>2 DEF ValidAnnotation
  <2>4. PICK j \in D : TRUE
    BY <1>2, <1>14
  <2>5. ValidDimensions(dims)
    BY <1>9 DEF Buildable
  <2>6. QED
    BY <2>1, <2>3, <2>5 DEF ValidDimensions
<1>17. QED
  BY <1>10, <1>11, <1>12, <1>14, <1>15, <1>16 DEF Readable

-----------------------------------------------------------------------------
(* Counts by variant *)

(* Items have finitely many variants, and may be counted by them. *)
LEMMA ItemsByVariant ==
  ASSUME NEW K, NEW S \in SUBSET K, IsFiniteSet(K)
  PROVE  /\ IsFiniteSet(Variants(K)) /\ IsFiniteSet(S)
         /\ Cardinality(S) =
              SumFunction([v \in Variants(K) |-> Cardinality({key \in S : key.variant = v})])
<1> DEFINE V == Variants(K)
           of == [key \in K |-> key.variant]
           count == [v \in V |-> Cardinality({key \in S : key.variant = v})]
           part == [v \in V |-> Cardinality({key \in S : of[key] = v})]
<1>1. V = {of[key] : key \in K} /\ \A key \in K : of[key] \in V
  BY DEF Variants
<1>2. count = part
  OBVIOUS
<1>3. DOMAIN count = V
  OBVIOUS
<1>4. IsFiniteSet(S)
  BY FS_Subset
<1> HIDE DEF count
<1>5. IsFiniteSet(V)
  <2> HIDE DEF V, of
  <2>1. QED
    BY <1>1, PictureIsFinite
<1>6. Cardinality(S) = SumOver(part, V)
  <2>1. \A key \in S : of[key] \in V
    BY <1>1
  <2> HIDE DEF of, V
  <2>2. QED
    BY <1>4, <1>5, <2>1, CountByParts
<1> HIDE DEF part, V
<1>7. SumFunction(count) = SumOver(count, V)
  BY <1>3, <1>5, SumOfFunction
<1>8. QED
  BY <1>2, <1>4, <1>5, <1>6, <1>7 DEF V, count

(* Annotations are counted by the items they are of. *)
LEMMA AnnotationsByItem ==
  ASSUME NEW K, NEW A, NEW ds, Readable(K, A, ds)
  PROVE  Cardinality(A) = SumOver([key \in Reviewed(K, A) |-> Cardinality(Annotated(A, key))],
                                  Reviewed(K, A))
<1> DEFINE R == Reviewed(K, A)
           of == [a \in A |-> CHOOSE key \in R : key.review = a.review]
           part == [key \in R |-> Cardinality({a \in A : of[a] = key})]
           count == [key \in R |-> Cardinality(Annotated(A, key))]
<1>1. ASSUME NEW a \in A PROVE of[a] \in R /\ of[a].review = a.review
  <2>1. PICK key \in K : key.review = a.review
    BY DEF Readable
  <2>2. key \in R
    BY <2>1 DEF Reviewed, Annotated
  <2>3. QED
    BY <2>1, <2>2
<1>2. \A k, l \in R : k.review = l.review => k = l
  BY DEF Readable, Reviewed
<1>3. R \in SUBSET K
  BY DEF Reviewed
<1>4. IsFiniteSet(R) /\ IsFiniteSet(A)
  BY <1>3, FS_Subset DEF Readable
<1> HIDE DEF of, R
<1>5. \A key \in R : {a \in A : of[a] = key} = Annotated(A, key)
  BY <1>1, <1>2 DEF Annotated
<1>6. part = count
  BY <1>5
<1> HIDE DEF count
<1>7. Cardinality(A) = SumOver(part, R)
  BY <1>1, <1>4, CountByParts
<1>8. QED
  BY <1>6, <1>7 DEF count, R

(* The annotations of a key's item are finitely many, none if it was not   *)
(* reviewed.                                                               *)
LEMMA AnnotatedIsFinite ==
  ASSUME NEW A, IsFiniteSet(A), NEW key
  PROVE  IsFiniteSet(Annotated(A, key)) /\ Cardinality(Annotated(A, key)) \in Nat
<1>1. Annotated(A, key) \in SUBSET A
  BY DEF Annotated
<1>2. QED
  BY <1>1, FS_Subset, FS_CardinalityType

(* Annotations are counted by the variants of their items. *)
LEMMA AnnotationsByVariant ==
  ASSUME NEW K, NEW A, NEW ds, Readable(K, A, ds)
  PROVE  Cardinality(A) =
           SumFunction([v \in Variants(K) |-> Summary(K, A, ds, v).annotations])
<1> DEFINE V == Variants(K)
           R == Reviewed(K, A)
           of == [key \in R |-> key.variant]
           count == [key \in R |-> Cardinality(Annotated(A, key))]
           part(v) == {key \in R : of[key] = v}
           parts == [v \in V |-> SumOver(count, part(v))]
           sums == [v \in V |-> Summary(K, A, ds, v).annotations]
<1>1. Cardinality(A) = SumOver(count, R)
  BY AnnotationsByItem
<1>2. R \in SUBSET K /\ IsFiniteSet(K) /\ IsFiniteSet(A)
  BY DEF Reviewed, Readable
<1>3. IsFiniteSet(R) /\ IsFiniteSet(V)
  <2> HIDE DEF R
  <2>1. QED
    BY <1>2, ItemsByVariant
<1>4. \A key \in R : count[key] \in Int /\ of[key] \in V
  <2>1. \A key \in R : Cardinality(Annotated(A, key)) \in Int
    BY <1>2, AnnotatedIsFinite
  <2>2. QED
    BY <1>2, <2>1 DEF Variants
<1>5. SumOver(count, R) = SumOver(parts, V)
  <2> HIDE DEF count, R, V, of
  <2>1. QED
    BY <1>3, <1>4, SumByParts
<1>6. ASSUME NEW v \in V PROVE sums[v] = parts[v]
  <2> DEFINE items == Reviewed({key \in K : key.variant = v}, A)
             own == [key \in items |-> Cardinality(Annotated(A, key))]
  <2>1. sums[v] = SumFunction(own)
    BY DEF Summary
  <2>2. items = part(v)
    <3>1. part(v) = {key \in R : key.variant = v}
      OBVIOUS
    <3>2. items = {key \in R : key.variant = v}
      BY DEF Reviewed
    <3> HIDE DEF part, items
    <3>3. QED
      BY <3>1, <3>2
  <2>3. items \in SUBSET R
    BY <2>2
  <2>4. \A key \in items : own[key] = count[key] /\ own[key] \in Int
    BY <1>4, <2>3
  <2>5. IsFiniteSet(items)
    <3> HIDE DEF R, items
    <3>1. QED
      BY <1>3, <2>3, FS_Subset
  <2>6. DOMAIN own = items
    OBVIOUS
  <2>7. parts[v] = SumOver(count, part(v))
    OBVIOUS
  <2> HIDE DEF items, own, count, part, sums, parts
  <2>8. SumFunction(own) = SumOver(own, items)
    BY <2>5, <2>6, SumOfFunction
  <2>9. SumOver(own, items) = SumOver(count, items)
    BY <2>4, <2>5, SumIsOfValues
  <2>10. QED
    BY <2>1, <2>2, <2>7, <2>8, <2>9
<1>7. sums = parts
  <2>1. sums = [v \in V |-> sums[v]] /\ parts = [v \in V |-> parts[v]]
    OBVIOUS
  <2> HIDE DEF sums, parts
  <2>2. QED
    BY <1>6, <2>1
<1>8. DOMAIN sums = V
  OBVIOUS
<1> HIDE DEF sums, parts, V
<1>9. SumFunction(sums) = SumOver(sums, V)
  BY <1>3, <1>8, SumOfFunction
<1>10. QED
  BY <1>1, <1>5, <1>7, <1>9 DEF sums, V

-----------------------------------------------------------------------------
(* Counts of comparisons *)

(* The mean of an item that was reviewed. *)
LEMMA ItemMeanIsRational ==
  ASSUME NEW K, NEW A, NEW ds, Readable(K, A, ds), NEW key \in Reviewed(K, A),
         NEW dim \in Names(ds)
  PROVE  ItemMean(A, key, dim) \in Rationals
<1> DEFINE own == Annotated(A, key)
           f == [a \in own |-> <<a.scores[dim], 1>>]
<1>1. ItemMean(A, key, dim) = Mean(f)
  BY DEF ItemMean
<1>2. own # {} /\ own \in SUBSET A /\ IsFiniteSet(A)
  BY DEF Reviewed, Annotated, Readable
<1>3. PICK i \in DOMAIN ds : dim = ds[i].name
  BY DEF Names
<1>4. \A a \in own : a.scores[dim] \in Int
  BY <1>2, <1>3 DEF Readable
<1>5. \A a \in own : f[a] \in Rationals
  BY <1>4 DEF Rationals
<1>6. DOMAIN f = own
  OBVIOUS
<1> HIDE DEF own, f
<1>7. IsFiniteSet(own)
  BY <1>2, FS_Subset
<1>8. QED
  BY <1>1, <1>2, <1>5, <1>6, <1>7, MeanIsRational

(* The mean of a subject that was reviewed under a variant. *)
LEMMA SubjectMeanIsRational ==
  ASSUME NEW K, NEW A, NEW ds, Readable(K, A, ds), NEW dim \in Names(ds),
         NEW key \in Reviewed(K, A)
  PROVE  SubjectMean(Reviewed(K, A), A, key.subject, key.variant, dim) \in Rationals
<1> DEFINE items == Reviewed(K, A)
           own == {k \in items : k.subject = key.subject /\ k.variant = key.variant}
           f == [k \in own |-> ItemMean(A, k, dim)]
<1>1. SubjectMean(items, A, key.subject, key.variant, dim) = Mean(f)
  BY DEF SubjectMean
<1>2. key \in own /\ own \in SUBSET items /\ items \in SUBSET K /\ IsFiniteSet(K)
  BY DEF Reviewed, Readable
<1>3. \A k \in items : ItemMean(A, k, dim) \in Rationals
  BY ItemMeanIsRational
<1>4. \A k \in own : f[k] \in Rationals
  BY <1>3
<1>5. DOMAIN f = own
  OBVIOUS
<1> HIDE DEF own, f, items
<1>6. IsFiniteSet(own)
  BY <1>2, FS_Subset
<1>7. Mean(f) \in Rationals
  BY <1>2, <1>4, <1>5, <1>6, MeanIsRational
<1>8. QED
  BY <1>1, <1>7 DEF items

(* The delta of a subject that was reviewed under both variants. *)
LEMMA DeltaIsRational ==
  ASSUME NEW K, NEW A, NEW ds, Readable(K, A, ds), NEW dim \in Names(ds), NEW a, NEW b,
         NEW subject \in PairedSubjects(Reviewed(K, A), a, b)
  PROVE  Delta(Reviewed(K, A), A, subject, a, b, dim) \in Rationals
<1>1. PICK k \in Reviewed(K, A) : k.variant = a /\ k.subject = subject
  BY DEF PairedSubjects
<1>2. PICK l \in Reviewed(K, A) : l.variant = b /\ l.subject = subject
  BY DEF PairedSubjects
<1>3. SubjectMean(Reviewed(K, A), A, subject, a, dim) \in Rationals
  BY <1>1, SubjectMeanIsRational
<1>4. SubjectMean(Reviewed(K, A), A, subject, b, dim) \in Rationals
  BY <1>2, SubjectMeanIsRational
<1>5. QED
  BY <1>3, <1>4, SumIsReduced DEF Delta

(* A finite set in three parts. *)
LEMMA ThreeParts ==
  ASSUME NEW X, NEW Y, NEW Z, IsFiniteSet((X \cup Y) \cup Z),
         X \cap Y = {}, (X \cup Y) \cap Z = {}
  PROVE  Cardinality((X \cup Y) \cup Z) = Cardinality(X) + Cardinality(Y) + Cardinality(Z)
<1>1. IsFiniteSet(X) /\ IsFiniteSet(Y) /\ IsFiniteSet(Z) /\ IsFiniteSet(X \cup Y)
  <2>1. /\ X \in SUBSET ((X \cup Y) \cup Z) /\ Y \in SUBSET ((X \cup Y) \cup Z)
        /\ Z \in SUBSET ((X \cup Y) \cup Z) /\ X \cup Y \in SUBSET ((X \cup Y) \cup Z)
    OBVIOUS
  <2>2. QED
    BY <2>1, FS_Subset
<1>2. Cardinality(X) \in Nat /\ Cardinality(Y) \in Nat /\ Cardinality(Z) \in Nat
        /\ Cardinality(X \cup Y) \in Nat
  BY <1>1, FS_CardinalityType
<1>3. Cardinality(X \cap Y) = 0 /\ Cardinality((X \cup Y) \cap Z) = 0
  BY FS_EmptySet
<1>4. Cardinality(X \cup Y) = Cardinality(X) + Cardinality(Y) - Cardinality(X \cap Y)
  BY <1>1, FS_Union
<1> DEFINE XY == X \cup Y
<1>5. Cardinality(XY \cup Z) = Cardinality(XY) + Cardinality(Z) - Cardinality(XY \cap Z)
  <2> HIDE DEF XY
  <2>1. IsFiniteSet(XY) /\ IsFiniteSet(Z)
    BY <1>1 DEF XY
  <2>2. QED
    BY <2>1, FS_Union
<1>6. QED
  BY <1>2, <1>3, <1>4, <1>5

(* Every subject compared is a win, a tie or a loss; of two variants, it   *)
(* is each subject both of them share.                                     *)
LEMMA ComparisonAddsUp ==
  ASSUME NEW K, NEW A, NEW ds, Readable(K, A, ds), NEW dim \in Names(ds),
         NEW a \in Variants(K), NEW b \in Variants(K), a < b
  PROVE  LET c == Compared(K, A, a, b, dim)
         IN  /\ c.wins + c.ties + c.losses = c.pairs
             /\ Cardinality(Variants(K)) = 2 =>
                  c.pairs = Summary(K, A, ds, a).subjects + Summary(K, A, ds, b).subjects
                              - Cardinality({key.subject : key \in Reviewed(K, A)})
<1> DEFINE items == Reviewed(K, A)
           subjects == PairedSubjects(items, a, b)
           delta == [s \in subjects |-> Delta(items, A, s, a, b, dim)]
           c == Compared(K, A, a, b, dim)
           sub == [key \in items |-> key.subject]
           of(v) == {key.subject : key \in {k \in items : k.variant = v}}
           all == {key.subject : key \in items}
<1>1. /\ c.pairs = Cardinality(subjects)
      /\ c.wins = Cardinality({s \in subjects : delta[s][1] > 0})
      /\ c.ties = Cardinality({s \in subjects : delta[s][1] = 0})
      /\ c.losses = Cardinality({s \in subjects : delta[s][1] < 0})
  BY DEF Compared
<1>2. \A s \in subjects : delta[s][1] \in Int
  <2>1. \A s \in subjects : Delta(items, A, s, a, b, dim) \in Rationals
    BY DeltaIsRational
  <2>2. QED
    BY <2>1 DEF Rationals
<1>3. subjects = of(a) \cap of(b)
  BY DEF PairedSubjects
<1>4. IsFiniteSet(items)
  <2>1. items \in SUBSET K /\ IsFiniteSet(K)
    BY DEF Reviewed, Readable
  <2> HIDE DEF items
  <2>2. QED
    BY <2>1, FS_Subset
<1>5. IsFiniteSet(all)
  <2>1. all = {sub[key] : key \in items}
    OBVIOUS
  <2> HIDE DEF all, sub, items
  <2>2. QED
    BY <1>4, <2>1, PictureIsFinite
<1>6. of(a) \in SUBSET all /\ of(b) \in SUBSET all /\ subjects \in SUBSET all
  BY <1>3
<1>7. IsFiniteSet(of(a)) /\ IsFiniteSet(of(b)) /\ IsFiniteSet(subjects)
  <2> HIDE DEF of, all, subjects
  <2>1. QED
    BY <1>5, <1>6, FS_Subset
<1>8. c.wins + c.ties + c.losses = c.pairs
  <2> DEFINE W == {s \in subjects : delta[s][1] > 0}
             T == {s \in subjects : delta[s][1] = 0}
             L == {s \in subjects : delta[s][1] < 0}
  <2>1. subjects = (W \cup T) \cup L /\ W \cap T = {} /\ (W \cup T) \cap L = {}
    <3> HIDE DEF delta, subjects
    <3>1. QED
      BY <1>2
  <2>2. c.pairs = Cardinality(subjects) /\ c.wins = Cardinality(W) /\ c.ties = Cardinality(T)
          /\ c.losses = Cardinality(L)
    BY <1>1
  <2> HIDE DEF W, T, L, c, subjects
  <2>3. Cardinality(subjects) = Cardinality(W) + Cardinality(T) + Cardinality(L)
    <3>1. IsFiniteSet((W \cup T) \cup L)
      BY <1>7, <2>1
    <3>2. QED
      BY <2>1, <3>1, ThreeParts
  <2>4. QED
    BY <2>2, <2>3
<1>9. ASSUME Cardinality(Variants(K)) = 2
      PROVE  c.pairs = Summary(K, A, ds, a).subjects + Summary(K, A, ds, b).subjects
                         - Cardinality(all)
  <2>1. a \in Int /\ b \in Int /\ a # b
    BY DEF Variants, Readable
  <2>2. Variants(K) = {a, b}
    <3>1. IsFiniteSet(Variants(K))
      BY ItemsByVariant DEF Readable
    <3>2. {a, b} \in SUBSET Variants(K)
      OBVIOUS
    <3>3. IsFiniteSet({a}) /\ Cardinality({a}) = 1
      BY FS_Singleton
    <3>4. {a, b} = {a} \cup {b} /\ b \notin {a}
      BY <2>1
    <3>5. Cardinality({a, b}) = 2
      BY <3>3, <3>4, FS_AddElement
    <3>6. QED
      BY <1>9, <3>1, <3>2, <3>5, FS_Subset
  <2>3. all = of(a) \cup of(b)
    <3>1. \A key \in items : key.variant \in Variants(K)
      BY DEF Reviewed, Variants
    <3> HIDE DEF items
    <3>2. QED
      BY <2>2, <3>1
  <2>4. Summary(K, A, ds, a).subjects = Cardinality(of(a))
          /\ Summary(K, A, ds, b).subjects = Cardinality(of(b))
    BY DEF Summary, UniqueSubjects, Reviewed
  <2>5. c.pairs = Cardinality(of(a) \cap of(b))
    BY <1>1, <1>3
  <2> HIDE DEF of, all, c
  <2>6. Cardinality(of(a) \cup of(b))
          = Cardinality(of(a)) + Cardinality(of(b)) - Cardinality(of(a) \cap of(b))
    BY <1>7, FS_Union
  <2>7. /\ Cardinality(of(a)) \in Nat /\ Cardinality(of(b)) \in Nat
        /\ Cardinality(of(a) \cap of(b)) \in Nat
    <3>1. IsFiniteSet(of(a) \cap of(b))
      BY <1>3, <1>7
    <3>2. QED
      BY <1>7, <3>1, FS_CardinalityType
  <2>8. QED
    BY <2>3, <2>4, <2>5, <2>6, <2>7
<1>10. QED
  BY <1>8, <1>9

-----------------------------------------------------------------------------
(* Counts of overlaps *)

(* Of n annotations by as many reviewers, n * (n - 1) / 2 pairs are made.  *)
LEMMA PairsOfReviewers ==
  ASSUME NEW S, IsFiniteSet(S), \A x \in S : x.reviewer \in Int,
         \A x, y \in S : x.reviewer = y.reviewer => x = y
  PROVE  LET P == {q \in S \X S : q[1].reviewer < q[2].reviewer}
             n == Cardinality(S)
         IN  Cardinality(P) \in Nat /\ 2 * Cardinality(P) = n * (n - 1)
<1> DEFINE P == {q \in S \X S : q[1].reviewer < q[2].reviewer}
           U == {q \in S \X S : q[2].reviewer < q[1].reviewer}
           D == {q \in S \X S : q[1] = q[2]}
           n == Cardinality(S)
           swap == [q \in S \X S |-> <<q[2], q[1]>>]
           twice == [x \in S |-> <<x, x>>]
<1>1. IsFiniteSet(S \X S) /\ Cardinality(S \X S) = n * n /\ n \in Nat
  BY FS_Product, FS_CardinalityType
<1>2. S \X S = (P \cup U) \cup D /\ P \cap U = {} /\ (P \cup U) \cap D = {}
  <2>1. ASSUME NEW q \in S \X S
        PROVE  /\ q[1] \in S /\ q[2] \in S
               /\ q[1].reviewer < q[2].reviewer \/ q[2].reviewer < q[1].reviewer \/ q[1] = q[2]
               /\ ~ (q[1].reviewer < q[2].reviewer /\ q[2].reviewer < q[1].reviewer)
               /\ ~ (q[1].reviewer < q[2].reviewer /\ q[1] = q[2])
               /\ ~ (q[2].reviewer < q[1].reviewer /\ q[1] = q[2])
    <3>1. q[1] \in S /\ q[2] \in S /\ q[1].reviewer \in Int /\ q[2].reviewer \in Int
      OBVIOUS
    <3>2. q[1].reviewer = q[2].reviewer => q[1] = q[2]
      BY <3>1
    <3>3. QED
      BY <3>1, <3>2
  <2>2. QED
    BY <2>1
<1>3. n * n = Cardinality(P) + Cardinality(U) + Cardinality(D)
  <2> HIDE DEF P, U, D, n
  <2>1. IsFiniteSet((P \cup U) \cup D)
    BY <1>1, <1>2
  <2>2. Cardinality((P \cup U) \cup D) = Cardinality(P) + Cardinality(U) + Cardinality(D)
    BY <1>2, <2>1, ThreeParts
  <2>3. QED
    BY <1>1, <1>2, <2>2
<1>4. Cardinality(D) = n
  <2>1. D = {twice[x] : x \in S}
    <3>1. \A x \in S : twice[x] \in D
      OBVIOUS
    <3>2. \A q \in D : q \in {twice[x] : x \in S}
      <4>1. SUFFICES ASSUME NEW q \in D PROVE q \in {twice[x] : x \in S}
        OBVIOUS
      <4>2. q[1] \in S /\ q = <<q[1], q[1]>>
        OBVIOUS
      <4>3. QED
        BY <4>2
    <3>3. QED
      BY <3>1, <3>2
  <2>2. \A x, y \in S : twice[x] = twice[y] => x = y
    <3>1. \A x \in S : twice[x][1] = x
      OBVIOUS
    <3>2. QED
      BY <3>1
  <2> HIDE DEF D, twice
  <2>3. QED
    BY <2>1, <2>2, PictureIsFinite
<1>5. IsFiniteSet(P) /\ IsFiniteSet(U)
  <2>1. P \in SUBSET (S \X S) /\ U \in SUBSET (S \X S)
    OBVIOUS
  <2> HIDE DEF P, U
  <2>2. QED
    BY <1>1, <2>1, FS_Subset
<1>6. Cardinality(U) = Cardinality(P)
  <2>1. \A q \in P : swap[q] \in U
    OBVIOUS
  <2>2. \A q \in U : <<q[2], q[1]>> \in P /\ swap[<<q[2], q[1]>>] = q
    OBVIOUS
  <2>3. U = {swap[q] : q \in P}
    <3>1. \A q \in U : \E r \in P : swap[r] = q
      <4> HIDE DEF swap, P, U
      <4>1. QED
        BY <2>2
    <3> HIDE DEF swap, P, U
    <3>2. QED
      BY <2>1, <3>1
  <2>4. \A q, r \in P : swap[q] = swap[r] => q = r
    <3>1. \A q \in P : swap[q][1] = q[2] /\ swap[q][2] = q[1] /\ q = <<q[1], q[2]>>
      OBVIOUS
    <3> HIDE DEF swap, P
    <3>2. QED
      BY <3>1
  <2> HIDE DEF U, P, swap
  <2>5. QED
    BY <1>5, <2>3, <2>4, PictureIsFinite
<1>7. Cardinality(P) \in Nat
  <2> HIDE DEF P
  <2>1. QED
    BY <1>5, FS_CardinalityType
<1> DEFINE m == Cardinality(P)
<1>8. n * n = m + m + n
  BY <1>3, <1>4, <1>6
<1>9. n \in Nat /\ m \in Nat
  BY <1>1, <1>7
<1>10. m \in Nat /\ 2 * m = n * (n - 1)
  <2> HIDE DEF n, m
  <2>1. n * (n - 1) = n * n - n
    BY <1>9
  <2>2. QED
    BY <1>8, <1>9, <2>1
<1>11. QED
  BY <1>10

(* The places of a report that overlaps fill, and all pairs they count.    *)
Overlapping(A) == {p \in Reviewers(A) \X Reviewers(A) : p[1] < p[2] /\ Shared(A, p[1], p[2]) # {}}
PairsOf(A) == {q \in A \X A : q[1].review = q[2].review /\ q[1].reviewer < q[2].reviewer}

(* The pairs of an overlap are those of its reviewers. *)
LEMMA PairsOfOverlap ==
  ASSUME NEW A, NEW p \in Overlapping(A)
  PROVE  Shared(A, p[1], p[2]) =
           {q \in PairsOf(A) : q[1].reviewer = p[1] /\ q[2].reviewer = p[2]}
BY DEF Shared, By, PairsOf, Overlapping

(* Finitely many reviewers overlap in finitely many pairs. *)
LEMMA OverlapsAreFinite ==
  ASSUME NEW A, IsFiniteSet(A)
  PROVE  /\ IsFiniteSet(Overlapping(A)) /\ IsFiniteSet(PairsOf(A))
         /\ \A p \in Overlapping(A) : /\ IsFiniteSet(Shared(A, p[1], p[2]))
                                      /\ Cardinality(Shared(A, p[1], p[2])) \in Nat \ {0}
<1> DEFINE of == [a \in A |-> a.reviewer]
           R == Reviewers(A)
<1>1. R = {of[a] : a \in A}
  BY DEF Reviewers
<1>2. IsFiniteSet(R \X R) /\ IsFiniteSet(A \X A)
  <2> HIDE DEF R, of
  <2>1. IsFiniteSet(R)
    BY <1>1, PictureIsFinite
  <2>2. QED
    BY <2>1, FS_Product
<1>3. Overlapping(A) \in SUBSET (R \X R) /\ PairsOf(A) \in SUBSET (A \X A)
  BY DEF Overlapping, PairsOf
<1>4. \A p \in Overlapping(A) : Shared(A, p[1], p[2]) \in SUBSET (A \X A)
                                  /\ Shared(A, p[1], p[2]) # {}
  BY DEF Overlapping, Shared, By
<1> HIDE DEF R
<1>5. QED
  BY <1>2, <1>3, <1>4, FS_Subset, FS_CardinalityType, FS_EmptySet

(* Pairs are counted by the overlaps they are in. *)
LEMMA PairsByOverlap ==
  ASSUME NEW A, IsFiniteSet(A)
  PROVE  Cardinality(PairsOf(A)) =
           SumOver([p \in Overlapping(A) |-> Cardinality(Shared(A, p[1], p[2]))], Overlapping(A))
<1> DEFINE Q == PairsOf(A)
           V == Overlapping(A)
           of == [q \in Q |-> <<q[1].reviewer, q[2].reviewer>>]
           part == [p \in V |-> Cardinality({q \in Q : of[q] = p})]
           count == [p \in V |-> Cardinality(Shared(A, p[1], p[2]))]
<1>1. \A q \in Q : of[q] \in V
  <2>1. SUFFICES ASSUME NEW q \in Q PROVE <<q[1].reviewer, q[2].reviewer>> \in V
    OBVIOUS
  <2>2. /\ q \in A \X A /\ q[1] \in A /\ q[2] \in A
        /\ q[1].review = q[2].review /\ q[1].reviewer < q[2].reviewer
    BY DEF PairsOf
  <2>3. q \in Shared(A, q[1].reviewer, q[2].reviewer)
    BY <2>2 DEF Shared, By
  <2>4. q[1].reviewer \in Reviewers(A) /\ q[2].reviewer \in Reviewers(A)
    BY <2>2 DEF Reviewers
  <2>5. QED
    BY <2>2, <2>3, <2>4 DEF Overlapping
<1>2. \A p \in V : {q \in Q : of[q] = p} = Shared(A, p[1], p[2])
  <2>1. SUFFICES ASSUME NEW p \in V PROVE {q \in Q : of[q] = p} = Shared(A, p[1], p[2])
    OBVIOUS
  <2>2. p = <<p[1], p[2]>>
    BY DEF Overlapping
  <2>3. \A q \in Q : of[q] = p <=> q[1].reviewer = p[1] /\ q[2].reviewer = p[2]
    BY <2>2
  <2>4. Shared(A, p[1], p[2]) = {q \in Q : q[1].reviewer = p[1] /\ q[2].reviewer = p[2]}
    BY PairsOfOverlap
  <2> HIDE DEF Q, V, of
  <2>5. QED
    BY <2>3, <2>4
<1>3. part = count
  <2> HIDE DEF Q, V, of
  <2>1. QED
    BY <1>2
<1>4. IsFiniteSet(Q) /\ IsFiniteSet(V)
  BY OverlapsAreFinite
<1> HIDE DEF Q, V, of, count
<1>5. Cardinality(Q) = SumOver(part, V)
  BY <1>1, <1>4, CountByParts
<1>6. QED
  BY <1>3, <1>5 DEF Q, V, count

(* Pairs are counted by the items they are of. *)
LEMMA PairsByItem ==
  ASSUME NEW K, NEW A, NEW ds, Readable(K, A, ds)
  PROVE  2 * Cardinality(PairsOf(A)) =
           SumOver([key \in K |-> LET n == Cardinality(Annotated(A, key)) IN n * (n - 1)], K)
<1> DEFINE Q == PairsOf(A)
           of == [q \in Q |-> CHOOSE key \in K : key.review = q[1].review]
           part(key) == {q \in Q : of[q] = key}
           parts == [key \in K |-> Cardinality(part(key))]
           own(key) == {q \in Annotated(A, key) \X Annotated(A, key) :
                          q[1].reviewer < q[2].reviewer}
           count == [key \in K |-> LET n == Cardinality(Annotated(A, key)) IN n * (n - 1)]
<1>1. IsFiniteSet(K) /\ IsFiniteSet(A) /\ IsFiniteSet(Q)
  BY OverlapsAreFinite DEF Readable
<1>2. ASSUME NEW q \in Q PROVE of[q] \in K /\ of[q].review = q[1].review
  <2>1. q[1] \in A
    BY DEF PairsOf
  <2>2. \E key \in K : key.review = q[1].review
    BY <2>1 DEF Readable
  <2>3. QED
    BY <2>2
<1>3. \A k, l \in K : k.review = l.review => k = l
  BY DEF Readable
<1>4. ASSUME NEW key \in K PROVE part(key) = own(key)
  <2>1. \A q \in Q : of[q] = key <=> q[1].review = key.review
    BY <1>2, <1>3
  <2> HIDE DEF of
  <2>2. QED
    BY <2>1 DEF PairsOf, Annotated
<1>5. ASSUME NEW key \in K PROVE parts[key] \in Int /\ count[key] = 2 * parts[key]
  <2> DEFINE S == Annotated(A, key)
             n == Cardinality(S)
             P == {q \in S \X S : q[1].reviewer < q[2].reviewer}
  <2>1. IsFiniteSet(S)
    BY <1>1, AnnotatedIsFinite
  <2>2. (\A x \in S : x.reviewer \in Int) /\ \A x, y \in S : x.reviewer = y.reviewer => x = y
    BY DEF Readable, Annotated
  <2>3. Cardinality(P) \in Nat /\ 2 * Cardinality(P) = n * (n - 1)
    <3> HIDE DEF S
    <3>1. QED
      BY <2>1, <2>2, PairsOfReviewers
  <2>4. part(key) = P
    BY <1>4
  <2>5. parts[key] = Cardinality(part(key)) /\ count[key] = n * (n - 1)
    OBVIOUS
  <2> HIDE DEF P, part, parts, count, n
  <2>6. QED
    BY <2>3, <2>4, <2>5
<1>6. Cardinality(Q) = SumOver(parts, K)
  <2> HIDE DEF Q, of
  <2>1. QED
    BY <1>1, <1>2, CountByParts
<1> HIDE DEF parts, count
<1>7. SumOver(count, K) = 2 * SumOver(parts, K)
  BY <1>1, <1>5, SumDoubled
<1>8. QED
  BY <1>6, <1>7 DEF count

-----------------------------------------------------------------------------
(* The report *)

(* The fields of a report. *)
LEMMA ReportFields ==
  ASSUME NEW K, NEW A, NEW ds
  PROVE  /\ Report(K, A, ds).items = Cardinality(K)
         /\ Report(K, A, ds).reviewed = Cardinality(Reviewed(K, A))
         /\ Report(K, A, ds).annotations = Cardinality(A)
         /\ Report(K, A, ds).variants = [v \in Variants(K) |-> Summary(K, A, ds, v)]
         /\ Report(K, A, ds).comparisons =
              [p \in {p \in Variants(K) \X Variants(K) \X Names(ds) : p[1] < p[2]} |->
                 Compared(K, A, p[1], p[2], p[3])]
         /\ Report(K, A, ds).overlaps =
              [p \in Overlapping(A) |-> Overlap(A, ds, p[1], p[2])]
BY DEF Report, Overlapping

(* A report is of the keys and annotations that are loaded. *)
LEMMA LoadedReport ==
  ASSUME IInv, Loaded
  PROVE  /\ report.items = Cardinality(keys)
         /\ report.reviewed = Cardinality(Reviewed(keys, load.taken))
         /\ report.annotations = Cardinality(load.taken)
         /\ report.variants = [v \in Variants(keys) |-> Summary(keys, load.taken, dims, v)]
         /\ report.comparisons =
              [p \in {p \in Variants(keys) \X Variants(keys) \X Names(dims) : p[1] < p[2]} |->
                 Compared(keys, load.taken, p[1], p[2], p[3])]
         /\ report.overlaps =
              [p \in Overlapping(load.taken) |-> Overlap(load.taken, dims, p[1], p[2])]
BY ReportFields DEF IInv, ReportKnown

(* Counts by variant, by subject and by reviewer are of the same items and *)
(* annotations (aggregate.go, Aggregate).                                  *)
THEOREM CountsAlwaysAddUp == Spec => []CountsAddUp
<1>1. IInv => CountsAddUp
  <2>1. SUFFICES ASSUME IInv, Loaded PROVE CountsAddUp
    BY DEF CountsAddUp
  <2> DEFINE K == keys
             A == load.taken
             V == Variants(K)
             P == {p \in V \X V \X Names(dims) : p[1] < p[2]}
             O == Overlapping(A)
  <2>2. Readable(K, A, dims)
    BY <2>1, LoadedIsReadable
  <2>3. /\ report.items = Cardinality(K)
        /\ report.reviewed = Cardinality(Reviewed(K, A))
        /\ report.annotations = Cardinality(A)
        /\ report.variants = [v \in V |-> Summary(K, A, dims, v)]
        /\ report.comparisons = [p \in P |-> Compared(K, A, p[1], p[2], p[3])]
        /\ report.overlaps = [p \in O |-> Overlap(A, dims, p[1], p[2])]
    BY <2>1, LoadedReport
  <2>4. IsFiniteSet(K) /\ IsFiniteSet(A) /\ Reviewed(K, A) \in SUBSET K /\ K \in SUBSET K
    BY <2>2 DEF Readable, Reviewed
  <2> DEFINE vs == DOMAIN report.variants
             available == [v \in vs |-> report.variants[v].available]
             reviewed == [v \in vs |-> report.variants[v].reviewed]
             annotations == [v \in vs |-> report.variants[v].annotations]
             items == [p \in DOMAIN report.overlaps |-> report.overlaps[p].items]
             pairs == [key \in keys |->
                         LET n == Cardinality(Annotated(load.taken, key)) IN n * (n - 1)]
  <2>5. report.items = SumFunction(available)
    <3>1. \A v \in V : Summary(K, A, dims, v).available = Cardinality({key \in K : key.variant = v})
      BY DEF Summary
    <3>2. available = [v \in V |-> Cardinality({key \in K : key.variant = v})]
      BY <2>3, <3>1
    <3> HIDE DEF available
    <3>3. Cardinality(K) = SumFunction([v \in V |-> Cardinality({key \in K : key.variant = v})])
      <4> HIDE DEF K
      <4>1. QED
        BY <2>4, ItemsByVariant
    <3>4. QED
      BY <2>3, <3>2, <3>3
  <2>6. report.reviewed = SumFunction(reviewed)
    <3>1. \A v \in V : Summary(K, A, dims, v).reviewed
                         = Cardinality({key \in Reviewed(K, A) : key.variant = v})
      <4>1. SUFFICES ASSUME NEW v \in V
                     PROVE  Summary(K, A, dims, v).reviewed
                              = Cardinality({key \in Reviewed(K, A) : key.variant = v})
        OBVIOUS
      <4>2. Reviewed({key \in K : key.variant = v}, A)
              = {key \in Reviewed(K, A) : key.variant = v}
        BY DEF Reviewed
      <4>3. Summary(K, A, dims, v).reviewed
              = Cardinality(Reviewed({key \in K : key.variant = v}, A))
        BY DEF Summary
      <4>4. QED
        BY <4>2, <4>3
    <3>2. reviewed = [v \in V |-> Cardinality({key \in Reviewed(K, A) : key.variant = v})]
      BY <2>3, <3>1
    <3> HIDE DEF reviewed
    <3>3. Cardinality(Reviewed(K, A))
            = SumFunction([v \in V |-> Cardinality({key \in Reviewed(K, A) : key.variant = v})])
      <4> DEFINE R == Reviewed(K, A)
      <4> HIDE DEF R
      <4>1. R \in SUBSET K
        BY <2>4 DEF R
      <4>2. Cardinality(R) = SumFunction([v \in V |-> Cardinality({key \in R : key.variant = v})])
        <5> HIDE DEF K
        <5>1. QED
          BY <2>4, <4>1, ItemsByVariant
      <4>3. QED
        BY <4>2 DEF R
    <3>4. QED
      BY <2>3, <3>2, <3>3
  <2>7. report.annotations = SumFunction(annotations)
    <3>1. annotations = [v \in V |-> Summary(K, A, dims, v).annotations]
      BY <2>3
    <3> HIDE DEF annotations
    <3>2. Cardinality(A) = SumFunction([v \in V |-> Summary(K, A, dims, v).annotations])
      BY <2>2, AnnotationsByVariant
    <3>3. QED
      BY <2>3, <3>1, <3>2
  <2>8. ASSUME NEW p \in DOMAIN report.comparisons
        PROVE  LET c == report.comparisons[p]
                   subjects == {key.subject : key \in Reviewed(keys, load.taken)}
                   shared == report.variants[p[1]].subjects + report.variants[p[2]].subjects
                               - Cardinality(subjects)
               IN  /\ c.wins + c.ties + c.losses = c.pairs
                   /\ Cardinality(vs) = 2 => c.pairs = shared
    <3>1. p \in P /\ report.comparisons[p] = Compared(K, A, p[1], p[2], p[3])
      BY <2>3, <2>8
    <3>2. p[1] \in V /\ p[2] \in V /\ p[1] < p[2] /\ p[3] \in Names(dims)
      BY <3>1
    <3>3. /\ report.variants[p[1]] = Summary(K, A, dims, p[1])
          /\ report.variants[p[2]] = Summary(K, A, dims, p[2])
          /\ vs = V
      BY <2>3, <3>2
    <3> HIDE DEF P, vs
    <3>4. QED
      BY <2>2, <3>1, <3>2, <3>3, ComparisonAddsUp
  <2>9. 2 * SumFunction(items) = SumFunction(pairs)
    <3>1. \A p \in O : Overlap(A, dims, p[1], p[2]).items = Cardinality(Shared(A, p[1], p[2]))
      BY DEF Overlap
    <3>2. items = [p \in O |-> Cardinality(Shared(A, p[1], p[2]))]
      BY <2>3, <3>1
    <3>3. DOMAIN items = O /\ DOMAIN pairs = K
      BY <2>3
    <3> HIDE DEF items
    <3>4. SumOver(items, O) = Cardinality(PairsOf(A))
      BY <2>4, <3>2, PairsByOverlap
    <3>5. SumOver(pairs, K) = 2 * Cardinality(PairsOf(A))
      BY <2>2, PairsByItem
    <3> HIDE DEF pairs
    <3>6. SumFunction(items) = SumOver(items, O) /\ SumFunction(pairs) = SumOver(pairs, K)
      BY <2>4, <3>3, OverlapsAreFinite, SumOfFunction
    <3>7. QED
      BY <3>4, <3>5, <3>6
  <2>10. QED
    BY <2>5, <2>6, <2>7, <2>8, <2>9 DEF CountsAddUp
<1>2. QED
  BY <1>1, Invariance, PTL

-----------------------------------------------------------------------------
(* Disagreements *)

(* What fits an int is left as it is. *)
LEMMA WrapOfSmall ==
  ASSUME NEW n \in Int, - MaxInt <= n, n <= MaxInt
  PROVE  Wrap(n) = n
<1> DEFINE m == n - MinInt
           w == MaxInt - MinInt + 1
<1>1. MaxInt \in Nat /\ MinInt = - MaxInt - 1
  BY FixedWidthAssumption DEF MinInt
<1>2. m \in Nat /\ w \in Nat \ {0} /\ m < w /\ n = m + MinInt /\ MinInt \in Int
  BY <1>1
<1>3. Wrap(n) = (m % w) + MinInt
  BY DEF Wrap
<1> HIDE DEF m, w
<1>4. m % w = m
  BY <1>2
<1>5. QED
  BY <1>2, <1>3, <1>4

(* The difference of two scores of a dimension does not wrap. *)
LEMMA DifferenceIsExact ==
  ASSUME NEW K, NEW A, NEW ds, Readable(K, A, ds), NEW i \in DOMAIN ds,
         NEW q \in A \X A
  PROVE  LET a == q[1].scores[ds[i].name]
             b == q[2].scores[ds[i].name]
             d == Difference(q, ds[i].name)
         IN  d \in Nat /\ d \in {a - b, b - a}
<1> DEFINE dim == ds[i].name
           a == q[1].scores[dim]
           b == q[2].scores[dim]
<1>1. /\ ds[i].min \in Int /\ ds[i].max \in Int /\ ds[i].max - ds[i].min <= MaxInt
      /\ a \in ds[i].min .. ds[i].max /\ b \in ds[i].min .. ds[i].max
  BY DEF Readable
<1>2. MaxInt \in Nat
  BY FixedWidthAssumption
<1> HIDE DEF a, b
<1>3. /\ a \in Int /\ b \in Int /\ a - b \in Int /\ - (a - b) \in Int
      /\ - MaxInt <= a - b /\ a - b <= MaxInt
      /\ - MaxInt <= - (a - b) /\ - (a - b) <= MaxInt
  BY <1>1, <1>2
<1>4. Wrap(a - b) = a - b /\ Wrap(- (a - b)) = - (a - b)
  BY <1>3, WrapOfSmall
<1>5. Difference(q, dim) = IF a - b < 0 THEN - (a - b) ELSE a - b
  BY <1>4 DEF Difference, AbsInt, a, b
<1>6. Difference(q, dim) \in Nat /\ Difference(q, dim) \in {a - b, b - a}
  BY <1>3, <1>5
<1>7. QED
  BY <1>6 DEF a, b

(* What a report may say of an overlap, in one dimension. *)
TrueOverlap(overlap, dim) ==
  LET found == {d \in overlap.disagreements : d.dim = dim}
      agreement == overlap.agreement[dim]
  IN  /\ \A d \in found : /\ d.difference \in {d.a - d.b, d.b - d.a}
                          /\ 0 < d.difference /\ d.difference <= agreement.most
      /\ agreement.exact + Cardinality(found) = overlap.items
      /\ agreement.mean = Ratio(SumFunction([d \in found |-> d.difference]), overlap.items)

(* It says so of every overlap of what it is made from. *)
LEMMA OverlapIsTrue ==
  ASSUME NEW K, NEW A, NEW ds, Readable(K, A, ds), NEW p \in Overlapping(A),
         NEW i \in DOMAIN ds
  PROVE  TrueOverlap(Overlap(A, ds, p[1], p[2]), ds[i].name)
<1> DEFINE dim == ds[i].name
           overlap == Overlap(A, ds, p[1], p[2])
           found == {d \in overlap.disagreements : d.dim = dim}
           agreement == overlap.agreement[dim]
           pairs == Shared(A, p[1], p[2])
           h == [q \in pairs |-> Difference(q, dim)]
           apart == {q \in pairs : h[q] # 0}
           alike == {q \in pairs : h[q] = 0}
           entry == [q \in pairs |->
                       [review |-> q[1].review, dim |-> dim, a |-> q[1].scores[dim],
                        b |-> q[2].scores[dim], difference |-> h[q]]]
           values == [q \in pairs |-> <<h[q], 1>>]
           differences == {h[q] : q \in pairs}
<1>1. dim \in Names(ds)
  BY DEF Names
<1>2. pairs \in SUBSET (A \X A) /\ IsFiniteSet(pairs) /\ pairs # {}
  <2>1. pairs \in SUBSET (A \X A)
    BY DEF Shared, By
  <2>2. IsFiniteSet(pairs) /\ Cardinality(pairs) # 0
    BY OverlapsAreFinite DEF Readable
  <2> HIDE DEF pairs
  <2>3. QED
    BY <2>1, <2>2, FS_EmptySet
<1>3. \A q \in pairs : /\ h[q] \in Nat
                       /\ h[q] \in {q[1].scores[dim] - q[2].scores[dim],
                                    q[2].scores[dim] - q[1].scores[dim]}
  <2>1. SUFFICES ASSUME NEW q \in pairs
                 PROVE  LET d == Difference(q, dim)
                        IN  d \in Nat /\ d \in {q[1].scores[dim] - q[2].scores[dim],
                                                q[2].scores[dim] - q[1].scores[dim]}
    OBVIOUS
  <2>2. q \in A \X A
    BY <1>2, <2>1
  <2> HIDE DEF pairs
  <2>3. QED
    BY <2>2, DifferenceIsExact
<1>4. overlap.items = Cardinality(pairs)
  BY DEF Overlap
<1>5. overlap.agreement = [n \in Names(ds) |->
         [exact |-> Cardinality({q \in pairs : Difference(q, n) = 0}),
          mean |-> Mean([q \in pairs |-> <<Difference(q, n), 1>>]),
          most |-> Max({0} \cup {Difference(q, n) : q \in pairs})]]
  BY DEF Overlap
<1>6. /\ agreement.exact = Cardinality({q \in pairs : Difference(q, dim) = 0})
      /\ agreement.mean = Mean([q \in pairs |-> <<Difference(q, dim), 1>>])
      /\ agreement.most = Max({0} \cup {Difference(q, dim) : q \in pairs})
  <2> HIDE DEF pairs, overlap, dim
  <2>1. QED
    BY <1>1, <1>5
<1>7. \A q \in pairs : h[q] = Difference(q, dim)
  OBVIOUS
<1>8. /\ alike = {q \in pairs : Difference(q, dim) = 0}
      /\ values = [q \in pairs |-> <<Difference(q, dim), 1>>]
      /\ differences = {Difference(q, dim) : q \in pairs}
  <2> HIDE DEF pairs, dim, h
  <2>1. QED
    BY <1>7
<1>9. overlap.disagreements =
        {[review |-> x[1][1].review, dim |-> x[2], a |-> x[1][1].scores[x[2]],
          b |-> x[1][2].scores[x[2]], difference |-> Difference(x[1], x[2])] :
           x \in {y \in pairs \X Names(ds) : Difference(y[1], y[2]) # 0}}
  BY DEF Overlap
<1>10. \A q \in pairs : /\ entry[q].review = q[1].review /\ entry[q].dim = dim
                        /\ entry[q].a = q[1].scores[dim] /\ entry[q].b = q[2].scores[dim]
                        /\ entry[q].difference = h[q]
  OBVIOUS
<1>11. found = {entry[q] : q \in apart}
  <2>1. ASSUME NEW q \in apart PROVE entry[q] \in found
    <3> DEFINE x == <<q, dim>>
    <3>1. /\ x \in pairs \X Names(ds) /\ x[1] = q /\ x[2] = dim
          /\ Difference(q, dim) # 0 /\ q \in pairs
      BY <1>1, <2>1
    <3>2. entry[q] = [review |-> q[1].review, dim |-> dim, a |-> q[1].scores[dim],
                      b |-> q[2].scores[dim], difference |-> Difference(q, dim)]
      BY <3>1
    <3>3. entry[q].dim = dim
      BY <1>10, <3>1
    <3>4. entry[q] \in overlap.disagreements
      <4> HIDE DEF overlap, entry, pairs, dim, x
      <4>1. QED
        BY <1>9, <3>1, <3>2
    <3>5. QED
      BY <3>3, <3>4
  <2>2. ASSUME NEW d \in found PROVE d \in {entry[q] : q \in apart}
    <3>1. PICK x \in {y \in pairs \X Names(ds) : Difference(y[1], y[2]) # 0} :
            d = [review |-> x[1][1].review, dim |-> x[2], a |-> x[1][1].scores[x[2]],
                 b |-> x[1][2].scores[x[2]], difference |-> Difference(x[1], x[2])]
      BY <1>9, <2>2
    <3>2. d.dim = dim /\ d.dim = x[2]
      BY <2>2, <3>1
    <3>3. x[1] \in pairs /\ Difference(x[1], dim) # 0
      BY <3>1, <3>2
    <3>4. x[1] \in apart
      BY <3>3
    <3>5. d = entry[x[1]]
      BY <3>1, <3>2, <3>3
    <3> HIDE DEF entry, apart
    <3>6. QED
      BY <3>4, <3>5
  <2> HIDE DEF found, entry, apart
  <2>3. QED
    BY <2>1, <2>2
<1>12. \A q, r \in pairs : entry[q] = entry[r] => q = r
  <2>1. SUFFICES ASSUME NEW q \in pairs, NEW r \in pairs, entry[q] = entry[r] PROVE q = r
    OBVIOUS
  <2>2. q[1].review = r[1].review
    BY <1>10, <2>1
  <2>3. /\ q[1] \in A /\ q[2] \in A /\ r[1] \in A /\ r[2] \in A
        /\ q = <<q[1], q[2]>> /\ r = <<r[1], r[2]>>
        /\ q[1].reviewer = r[1].reviewer /\ q[2].reviewer = r[2].reviewer
        /\ q[1].review = q[2].review /\ r[1].review = r[2].review
    BY DEF Shared, By
  <2>4. q[1] = r[1] /\ q[2] = r[2]
    <3>1. \A a, b \in A : a.review = b.review /\ a.reviewer = b.reviewer => a = b
      BY DEF Readable
    <3>2. q[2].review = r[2].review
      BY <2>2, <2>3
    <3> HIDE DEF entry, pairs
    <3>3. QED
      BY <2>2, <2>3, <3>1, <3>2
  <2>5. QED
    BY <2>3, <2>4
<1>13. IsFiniteSet(apart) /\ IsFiniteSet(alike) /\ IsFiniteSet(differences)
         /\ apart \in SUBSET pairs /\ alike \in SUBSET pairs
  <2>1. apart \in SUBSET pairs /\ alike \in SUBSET pairs
    OBVIOUS
  <2>2. IsFiniteSet(differences)
    <3> HIDE DEF pairs, h
    <3>1. QED
      BY <1>2, PictureIsFinite
  <2> HIDE DEF apart, alike, pairs, differences
  <2>3. QED
    BY <1>2, <2>1, <2>2, FS_Subset
<1>14. overlap.items \in Nat /\ agreement.exact + Cardinality(found) = overlap.items
  <2>1. apart = pairs \ alike /\ pairs \cap alike = alike
    OBVIOUS
  <2>2. Cardinality(found) = Cardinality(apart) /\ IsFiniteSet(found)
    <3>1. \A q, r \in apart : entry[q] = entry[r] => q = r
      BY <1>12, <1>13
    <3> HIDE DEF found, apart, entry
    <3>2. QED
      BY <1>11, <1>13, <3>1, PictureIsFinite
  <2>3. agreement.exact = Cardinality(alike)
    BY <1>6, <1>8
  <2> HIDE DEF apart, alike, pairs, found, agreement, overlap
  <2>4. Cardinality(apart) = Cardinality(pairs) - Cardinality(alike)
    BY <1>2, <2>1, FS_Difference
  <2>5. Cardinality(pairs) \in Nat /\ Cardinality(alike) \in Nat
    BY <1>2, <1>13, FS_CardinalityType
  <2>6. QED
    BY <1>4, <2>2, <2>3, <2>4, <2>5
<1>15. ASSUME NEW d \in found
       PROVE  /\ d.difference \in {d.a - d.b, d.b - d.a}
              /\ 0 < d.difference /\ d.difference <= agreement.most
  <2>1. PICK q \in apart : d = entry[q]
    BY <1>11
  <2>2. q \in pairs /\ h[q] # 0
    BY <2>1
  <2>3. h[q] \in Nat /\ d.difference = h[q] /\ d.difference \in {d.a - d.b, d.b - d.a}
    <3> HIDE DEF pairs, h, entry, dim
    <3>1. QED
      BY <1>3, <1>10, <2>1, <2>2
  <2>4. agreement.most = Max({0} \cup differences)
    BY <1>6, <1>8
  <2>5. h[q] <= Max({0} \cup differences)
    <3> DEFINE D == {0} \cup differences
    <3>1. IsFiniteSet(D)
      <4> HIDE DEF differences
      <4>1. IsFiniteSet(differences \cup {0}) /\ D = differences \cup {0}
        BY <1>13, FS_AddElement
      <4>2. QED
        BY <4>1
    <3>2. D \in SUBSET Int /\ D # {} /\ h[q] \in D
      <4> HIDE DEF pairs, h
      <4>1. QED
        BY <1>3, <2>2
    <3> HIDE DEF D, h
    <3>3. h[q] <= Max(D)
      BY <3>1, <3>2, MaxIsFound
    <3>4. QED
      BY <3>3 DEF D
  <2> HIDE DEF h, agreement, differences
  <2>6. 0 < h[q]
    BY <2>2, <2>3
  <2>7. QED
    BY <2>3, <2>4, <2>5, <2>6
<1>16. agreement.mean = Ratio(SumFunction([d \in found |-> d.difference]), overlap.items)
  <2> DEFINE g == [d \in found |-> d.difference]
  <2>1. agreement.mean = Mean(values)
    BY <1>6, <1>8
  <2>2. DOMAIN values = pairs /\ DOMAIN g = found
    OBVIOUS
  <2>3. \A q \in pairs : values[q] = <<h[q], 1>> /\ values[q] \in Rationals
    <3>1. \A q \in pairs : values[q] = <<h[q], 1>>
      OBVIOUS
    <3> HIDE DEF values, h, pairs
    <3>2. \A q \in pairs : h[q] \in Int
      BY <1>3
    <3>3. 1 \in Nat \ {0}
      OBVIOUS
    <3>4. QED
      BY <3>1, <3>2, <3>3 DEF Rationals
  <2>4. \A q \in apart : entry[q] \in found /\ g[entry[q]] = h[q]
    <3>1. \A q \in apart : entry[q] \in found /\ q \in pairs
      BY <1>11
    <3>2. \A d \in found : g[d] = d.difference
      OBVIOUS
    <3> HIDE DEF found, entry, h, apart, g, pairs
    <3>3. QED
      BY <1>10, <3>1, <3>2
  <2> HIDE DEF values, g, h, entry, pairs, found
  <2>5. Mean(values) = Ratio(SumOver(h, pairs), Cardinality(pairs))
    <3>1. \A k : (\A q \in DOMAIN values : values[q] = <<k[q], 1>>) =>
             Mean(values) = Ratio(SumOver(k, DOMAIN values), Cardinality(DOMAIN values))
      BY <1>2, <2>2, <2>3, MeanIsRational
    <3>2. QED
      BY <2>2, <2>3, <3>1
  <2>6. SumOver(h, pairs) = SumOver(h, apart)
    <3>1. \A q \in pairs : h[q] \in Int
      BY <1>3
    <3>2. \A q \in pairs \ apart : h[q] = 0
      OBVIOUS
    <3>3. pairs \cap apart = apart
      OBVIOUS
    <3> HIDE DEF apart
    <3>4. QED
      BY <1>2, <3>1, <3>2, <3>3, SumOnPart
  <2> HIDE DEF apart
  <2>7. SumOver(g, found) = SumOver(h, apart)
    <3>1. \A q, r \in apart : entry[q] = entry[r] => q = r
      BY <1>12, <1>13
    <3>2. \A q \in apart : h[q] \in Int
      BY <1>3, <1>13
    <3>3. QED
      BY <1>11, <1>13, <2>4, <3>1, <3>2, SumOfPicture
  <2>8. IsFiniteSet(found)
    BY <1>11, <1>13, PictureIsFinite
  <2>9. SumFunction(g) = SumOver(g, found)
    BY <2>2, <2>8, SumOfFunction
  <2>10. agreement.mean = Ratio(SumFunction(g), overlap.items)
    BY <1>4, <2>1, <2>5, <2>6, <2>7, <2>9
  <2>11. QED
    BY <2>10 DEF g
<1>17. QED
  BY <1>14, <1>15, <1>16 DEF TrueOverlap

(* Reviewers differ by what the report says, and an item is either one     *)
(* they agree on or one it lists (aggregate.go, absInt on the difference). *)
THEOREM DisagreementsAlwaysTrue == Spec => []DisagreementsAreTrue
<1>1. IInv => DisagreementsAreTrue
  <2>1. SUFFICES ASSUME IInv, Loaded, NEW o \in DOMAIN report.overlaps, NEW i \in DOMAIN dims
                 PROVE  TrueOverlap(report.overlaps[o], dims[i].name)
    BY DEF DisagreementsAreTrue, TrueOverlap
  <2>2. o \in Overlapping(load.taken)
          /\ report.overlaps[o] = Overlap(load.taken, dims, o[1], o[2])
    BY <2>1, LoadedReport
  <2>3. Readable(keys, load.taken, dims)
    BY <2>1, LoadedIsReadable
  <2>4. QED
    BY <2>2, <2>3, OverlapIsTrue
<1>2. QED
  BY <1>1, Invariance, PTL

-----------------------------------------------------------------------------
(* Variants exchanged *)

(* The subjects compared are finitely many, each with items of both.       *)
LEMMA PairedFound ==
  ASSUME NEW K, NEW A, NEW ds, Readable(K, A, ds), NEW a, NEW b
  PROVE  /\ IsFiniteSet(Reviewed(K, A)) /\ Reviewed(K, A) \in SUBSET K
         /\ IsFiniteSet(PairedSubjects(Reviewed(K, A), a, b))
         /\ \A s \in PairedSubjects(Reviewed(K, A), a, b) : \A v \in {a, b} :
              \E key \in Reviewed(K, A) : key.subject = s /\ key.variant = v
<1> DEFINE items == Reviewed(K, A)
           sub == [key \in items |-> key.subject]
           T == {sub[key] : key \in items}
<1>1. items \in SUBSET K /\ IsFiniteSet(items)
  <2>1. items \in SUBSET K /\ IsFiniteSet(K)
    BY DEF Reviewed, Readable
  <2> HIDE DEF items
  <2>2. QED
    BY <2>1, FS_Subset
<1>2. PairedSubjects(items, a, b) \in SUBSET T
  BY DEF PairedSubjects
<1>3. IsFiniteSet(T)
  <2> HIDE DEF items, sub
  <2>1. QED
    BY <1>1, PictureIsFinite
<1>4. \A s \in PairedSubjects(items, a, b) : \A v \in {a, b} :
        \E key \in items : key.subject = s /\ key.variant = v
  BY DEF PairedSubjects
<1> HIDE DEF T, items
<1>5. IsFiniteSet(PairedSubjects(items, a, b))
  BY <1>2, <1>3, FS_Subset
<1>6. QED
  BY <1>1, <1>4, <1>5 DEF items

(* m gives the items other variants, and leaves the rest of them alone. *)
Relabels(m, K, swap) ==
  \A key \in K : /\ m[key].review = key.review
                 /\ m[key].subject = key.subject
                 /\ m[key].variant = swap[key.variant]

(* The mean of a subject under a variant is now that of the other. *)
LEMMA SubjectMeanMoves ==
  ASSUME NEW K, NEW A, NEW ds, Readable(K, A, ds), NEW dim \in Names(ds),
         NEW m, NEW swap, Relabels(m, K, swap), NEW v, NEW w,
         \A key \in K : swap[key.variant] = v <=> key.variant = w,
         NEW s, \E key \in Reviewed(K, A) : key.subject = s /\ key.variant = w
  PROVE  SubjectMean(Reviewed({m[key] : key \in K}, A), A, s, v, dim)
           = SubjectMean(Reviewed(K, A), A, s, w, dim)
<1> DEFINE L == {m[key] : key \in K}
           items == Reviewed(K, A)
           own == {key \in items : key.subject = s /\ key.variant = w}
           other == {l \in Reviewed(L, A) : l.subject = s /\ l.variant = v}
           f == [key \in own |-> ItemMean(A, key, dim)]
           g == [l \in other |-> ItemMean(A, l, dim)]
<1>1. \A key \in K : /\ m[key].review = key.review
                     /\ m[key].subject = key.subject
                     /\ m[key].variant = v <=> key.variant = w
  BY DEF Relabels
<1>2. \A key \in K : Annotated(A, m[key]) = Annotated(A, key)
  BY <1>1 DEF Annotated
<1>3. \A key \in K : ItemMean(A, m[key], dim) = ItemMean(A, key, dim)
  BY <1>2 DEF ItemMean
<1>4. \A key \in K : m[key] \in other <=> key \in own
  BY <1>1, <1>2 DEF Reviewed
<1>5. other \subseteq L /\ own \subseteq K
  BY DEF Reviewed
<1> HIDE DEF own, other
<1>6. other = {m[key] : key \in own}
  BY <1>4, <1>5
<1>7. \A k, l \in own : m[k] = m[l] => k = l
  BY <1>1, <1>5 DEF Readable
<1>8. IsFiniteSet(own) /\ own # {}
  <2>1. IsFiniteSet(K)
    BY DEF Readable
  <2>2. own # {}
    BY DEF own
  <2>3. QED
    BY <1>5, <2>1, <2>2, FS_Subset
<1>9. \A key \in own : ItemMean(A, key, dim) \in Rationals
  BY ItemMeanIsRational DEF own
<1>10. \A key \in own : f[key] \in Rationals /\ g[m[key]] = f[key]
  BY <1>3, <1>5, <1>6, <1>9
<1>11. DOMAIN f = own /\ DOMAIN g = other
  OBVIOUS
<1>12. SubjectMean(Reviewed(L, A), A, s, v, dim) = Mean(g) /\ SubjectMean(items, A, s, w, dim) = Mean(f)
  BY DEF SubjectMean, own, other
<1> HIDE DEF f, g
<1>13. Mean(g) = Mean(f)
  BY <1>6, <1>7, <1>8, <1>10, <1>11, MeanOfPicture
<1>14. QED
  BY <1>12, <1>13

(* One comparison is the other one with its sides exchanged. *)
TurnedAround(c, mirrored) ==
  /\ <<mirrored.pairs, mirrored.ties>> = <<c.pairs, c.ties>>
  /\ <<mirrored.wins, mirrored.losses>> = <<c.losses, c.wins>>
  /\ mirrored.mean = <<- c.mean[1], c.mean[2]>>
  /\ mirrored.median = <<- c.median[1], c.median[2]>>

(* Two comparisons of the same subjects with opposite deltas. *)
LEMMA OppositeComparisons ==
  ASSUME NEW K, NEW L, NEW A, NEW a, NEW b, NEW dim, NEW S, IsFiniteSet(S),
         S = PairedSubjects(Reviewed(K, A), a, b), S = PairedSubjects(Reviewed(L, A), a, b),
         \A s \in S : /\ Delta(Reviewed(K, A), A, s, a, b, dim) \in Reduced
                      /\ Delta(Reviewed(L, A), A, s, a, b, dim)
                           = Negative(Delta(Reviewed(K, A), A, s, a, b, dim))
  PROVE  TurnedAround(Compared(K, A, a, b, dim), Compared(L, A, a, b, dim))
<1> DEFINE x == [s \in S |-> Delta(Reviewed(K, A), A, s, a, b, dim)]
           y == [s \in S |-> Delta(Reviewed(L, A), A, s, a, b, dim)]
           c == Compared(K, A, a, b, dim)
           d == Compared(L, A, a, b, dim)
<1>1. /\ c.pairs = Cardinality(S)
      /\ c.wins = Cardinality({s \in S : x[s][1] > 0})
      /\ c.ties = Cardinality({s \in S : x[s][1] = 0})
      /\ c.losses = Cardinality({s \in S : x[s][1] < 0})
      /\ c.mean = IF S = {} THEN <<0, 1>> ELSE Mean(x)
      /\ c.median = IF S = {} THEN <<0, 1>> ELSE Median(Sorted(x))
  BY DEF Compared
<1>2. /\ d.pairs = Cardinality(S)
      /\ d.wins = Cardinality({s \in S : y[s][1] > 0})
      /\ d.ties = Cardinality({s \in S : y[s][1] = 0})
      /\ d.losses = Cardinality({s \in S : y[s][1] < 0})
      /\ d.mean = IF S = {} THEN <<0, 1>> ELSE Mean(y)
      /\ d.median = IF S = {} THEN <<0, 1>> ELSE Median(Sorted(y))
  BY DEF Compared
<1>3. \A s \in S : x[s] \in Reduced /\ y[s] = Negative(x[s])
  OBVIOUS
<1>4. DOMAIN x = S /\ DOMAIN y = S
  OBVIOUS
<1> HIDE DEF x, y, c, d
<1>5. \A s \in S : x[s] \in Rationals /\ y[s] \in Rationals
  BY <1>3, NegativeIsRational DEF Reduced
<1>6. \A s \in S : x[s][1] \in Int /\ y[s][1] = - x[s][1]
  BY <1>3, <1>5, NegativeIsRational, PartsOfRational
<1>7. \A n \in Int : (- n > 0 <=> n < 0) /\ (- n < 0 <=> n > 0) /\ (- n = 0 <=> n = 0)
  OBVIOUS
<1>8. \A s \in S : /\ y[s][1] > 0 <=> x[s][1] < 0
                   /\ y[s][1] < 0 <=> x[s][1] > 0
                   /\ y[s][1] = 0 <=> x[s][1] = 0
  BY <1>6, <1>7
<1>9. /\ {s \in S : y[s][1] > 0} = {s \in S : x[s][1] < 0}
      /\ {s \in S : y[s][1] < 0} = {s \in S : x[s][1] > 0}
      /\ {s \in S : y[s][1] = 0} = {s \in S : x[s][1] = 0}
  BY <1>8
<1>10. d.wins = c.losses /\ d.losses = c.wins /\ d.ties = c.ties /\ d.pairs = c.pairs
  BY <1>1, <1>2, <1>9
<1>11. d.mean = <<- c.mean[1], c.mean[2]>> /\ d.median = <<- c.median[1], c.median[2]>>
  <2>1. CASE S = {}
    <3>1. - 0 = 0
      <4>1. \A n \in Int : - n = 0 - n
        OBVIOUS
      <4>2. 0 - 0 = 0 /\ 0 \in Int
        OBVIOUS
      <4>3. QED
        BY <4>1, <4>2
    <3>2. c.mean = <<0, 1>> /\ d.mean = <<0, 1>> /\ c.median = <<0, 1>> /\ d.median = <<0, 1>>
      BY <1>1, <1>2, <2>1
    <3>3. QED
      BY <3>1, <3>2
  <2>2. CASE S # {}
    <3>1. Mean(y) = Negative(Mean(x))
      BY <1>3, <1>4, <1>5, <2>2, MeansOnSet
    <3>2. Median(Sorted(y)) = Negative(Median(Sorted(x)))
      BY <1>3, <1>4, <2>2, MedianIsOdd
    <3>3. QED
      BY <1>1, <1>2, <2>2, <3>1, <3>2 DEF Negative
  <2>3. QED
    BY <2>1, <2>2
<1>12. QED
  BY <1>10, <1>11 DEF c, d, TurnedAround

(* With the variants of the items exchanged, a comparison is turned around. *)
LEMMA ExchangeTurnsAround ==
  ASSUME NEW K, NEW A, NEW ds, Readable(K, A, ds), NEW dim \in Names(ds),
         NEW a, NEW b, NEW m, NEW swap, Relabels(m, K, swap),
         \A key \in K : /\ swap[key.variant] = a <=> key.variant = b
                        /\ swap[key.variant] = b <=> key.variant = a
  PROVE  TurnedAround(Compared(K, A, a, b, dim),
                      Compared({m[key] : key \in K}, A, a, b, dim))
<1> DEFINE L == {m[key] : key \in K}
           items == Reviewed(K, A)
           moved == Reviewed(L, A)
           S == PairedSubjects(items, a, b)
<1>1. IsFiniteSet(S) /\ \A s \in S : \A v \in {a, b} :
                          \E key \in items : key.subject = s /\ key.variant = v
  BY PairedFound
<1>2. S = PairedSubjects(moved, a, b)
  <2>1. \A key \in K : /\ Annotated(A, m[key]) = Annotated(A, key)
                       /\ m[key].subject = key.subject
                       /\ m[key].variant = a <=> key.variant = b
                       /\ m[key].variant = b <=> key.variant = a
    BY DEF Relabels, Annotated
  <2>2. \A key \in K : m[key] \in moved <=> key \in items
    BY <2>1 DEF Reviewed
  <2>3. moved \subseteq L /\ items \subseteq K
    BY DEF Reviewed
  <2> DEFINE of(I, v) == {key.subject : key \in {k \in I : k.variant = v}}
  <2> HIDE DEF items, moved
  <2>4. of(moved, a) = of(items, b)
    BY <2>1, <2>2, <2>3
  <2>5. of(moved, b) = of(items, a)
    BY <2>1, <2>2, <2>3
  <2>6. S = of(items, a) \cap of(items, b) /\ PairedSubjects(moved, a, b) = of(moved, a) \cap of(moved, b)
    BY DEF PairedSubjects
  <2> HIDE DEF of
  <2>7. QED
    BY <2>4, <2>5, <2>6
<1>3. ASSUME NEW s \in S
      PROVE  /\ Delta(items, A, s, a, b, dim) \in Reduced
             /\ Delta(moved, A, s, a, b, dim) = Negative(Delta(items, A, s, a, b, dim))
  <2> DEFINE p == SubjectMean(items, A, s, a, dim)
             q == SubjectMean(items, A, s, b, dim)
  <2>1. PICK k \in items : k.subject = s /\ k.variant = a
    BY <1>1
  <2>2. PICK l \in items : l.subject = s /\ l.variant = b
    BY <1>1
  <2>3. p \in Rationals
    BY <2>1, SubjectMeanIsRational
  <2>4. q \in Rationals
    BY <2>2, SubjectMeanIsRational
  <2>5. SubjectMean(moved, A, s, a, dim) = q
    BY <2>2, SubjectMeanMoves
  <2>6. SubjectMean(moved, A, s, b, dim) = p
    BY <2>1, SubjectMeanMoves
  <2>7. Delta(items, A, s, a, b, dim) = Minus(p, q) /\ Delta(moved, A, s, a, b, dim) = Minus(q, p)
    BY <2>5, <2>6 DEF Delta
  <2> HIDE DEF p, q
  <2>8. Minus(p, q) \in Reduced /\ Minus(q, p) = Negative(Minus(p, q))
    BY <2>3, <2>4, SumIsReduced, NegativeOfSum
  <2>9. QED
    BY <2>7, <2>8
<1> HIDE DEF S, L
<1>4. QED
  BY <1>1, <1>2, <1>3, OppositeComparisons DEF S, L

(* The fields of a key are those of its candidate. *)
LEMMA KeysAreRecords ==
  ASSUME IInv
  PROVE  \A key \in keys : key = [review |-> key.review, subject |-> key.subject,
                                  variant |-> key.variant]
BY DEF IInv, KeysKnown, KeysOf

(* Neither side of a comparison is favoured (aggregate.go, summarizeDeltas *)
(* and the pairs of variants of Aggregate).                                *)
THEOREM VariantsAlwaysAlike == Spec => []VariantsAreAlike
<1>1. IInv => VariantsAreAlike
  <2>1. SUFFICES ASSUME IInv, Loaded, NEW p \in DOMAIN report.comparisons
                 PROVE  LET exchange == [v \in Variants(keys) |->
                                           IF v = p[1] THEN p[2] ELSE IF v = p[2] THEN p[1] ELSE v]
                        IN  TurnedAround(report.comparisons[p],
                              Compared({[key EXCEPT !.variant = exchange[@]] : key \in keys},
                                       load.taken, p[1], p[2], p[3]))
    BY DEF VariantsAreAlike, TurnedAround
  <2> DEFINE K == keys
             A == load.taken
             a == p[1]
             b == p[2]
             swap == [v \in Variants(K) |-> IF v = a THEN b ELSE IF v = b THEN a ELSE v]
             m == [key \in K |-> [key EXCEPT !.variant = swap[@]]]
  <2>2. /\ report.comparisons[p] = Compared(K, A, a, b, p[3])
        /\ p[3] \in Names(dims)
    BY <2>1, LoadedReport
  <2>3. Readable(K, A, dims)
    BY <2>1, LoadedIsReadable
  <2>4. Relabels(m, K, swap)
    <3>1. SUFFICES ASSUME NEW key \in K
                   PROVE  /\ m[key].review = key.review
                          /\ m[key].subject = key.subject
                          /\ m[key].variant = swap[key.variant]
      BY DEF Relabels
    <3>2. key = [review |-> key.review, subject |-> key.subject, variant |-> key.variant]
      BY <2>1, KeysAreRecords
    <3>3. m[key] = [key EXCEPT !.variant = swap[key.variant]]
      OBVIOUS
    <3> HIDE DEF swap, m
    <3>4. m[key] = [review |-> key.review, subject |-> key.subject, variant |-> swap[key.variant]]
      BY <3>2, <3>3
    <3>5. QED
      BY <3>4
  <2>5. \A key \in K : /\ swap[key.variant] = a <=> key.variant = b
                       /\ swap[key.variant] = b <=> key.variant = a
    BY DEF Variants
  <2>6. {[key EXCEPT !.variant = swap[@]] : key \in K} = {m[key] : key \in K}
    OBVIOUS
  <2> HIDE DEF K, A, a, b, swap, m
  <2>7. TurnedAround(Compared(K, A, a, b, p[3]), Compared({m[key] : key \in K}, A, a, b, p[3]))
    BY <2>2, <2>3, <2>4, <2>5, ExchangeTurnsAround
  <2>8. QED
    BY <2>2, <2>6, <2>7 DEF K, A, a, b, swap
<1>2. QED
  BY <1>1, Invariance, PTL

-----------------------------------------------------------------------------
(* A score raised *)

(* B has b where A has a, of the same item and higher in one dimension.    *)
Raised(A, B, a, b, ds, dim) ==
  /\ a \in A /\ b \notin A /\ B = (A \ {a}) \cup {b}
  /\ b.review = a.review
  /\ b.scores[dim] = a.scores[dim] + 1
  /\ \A other \in Names(ds) \ {dim} : b.scores[other] = a.scores[other]

(* What an annotation has become.                                          *)
LEMMA RaisedIsPicture ==
  ASSUME NEW A, NEW B, NEW a, NEW b, NEW ds, NEW dim, Raised(A, B, a, b, ds, dim)
  PROVE  LET m == [x \in A |-> IF x = a THEN b ELSE x]
         IN  /\ \A x, y \in A : m[x] = m[y] => x = y
             /\ \A x \in A : m[x].review = x.review
             /\ \A key : Annotated(B, key) = {m[x] : x \in Annotated(A, key)}
<1> DEFINE m == [x \in A |-> IF x = a THEN b ELSE x]
<1>1. /\ a \in A /\ b \notin A /\ B = (A \ {a}) \cup {b} /\ b.review = a.review
  BY DEF Raised
<1>2. \A x \in A : m[x] = IF x = a THEN b ELSE x
  OBVIOUS
<1> HIDE DEF m
<1>3. \A x, y \in A : m[x] = m[y] => x = y
  BY <1>1, <1>2
<1>4. \A x \in A : m[x].review = x.review
  BY <1>1, <1>2
<1>5. B = {m[x] : x \in A}
  BY <1>1, <1>2
<1>6. ASSUME NEW key PROVE Annotated(B, key) = {m[x] : x \in Annotated(A, key)}
  BY <1>4, <1>5 DEF Annotated
<1>7. QED
  BY <1>3, <1>4, <1>6 DEF m

(* The same items are reviewed.                                            *)
LEMMA RaisedIsReviewed ==
  ASSUME NEW K, NEW A, NEW B, NEW a, NEW b, NEW ds, NEW dim, Raised(A, B, a, b, ds, dim)
  PROVE  Reviewed(K, B) = Reviewed(K, A)
<1> DEFINE m == [x \in A |-> IF x = a THEN b ELSE x]
<1>1. \A key : Annotated(B, key) = {m[x] : x \in Annotated(A, key)}
  BY RaisedIsPicture
<1> HIDE DEF m
<1>2. ASSUME NEW key PROVE Annotated(B, key) = {} <=> Annotated(A, key) = {}
  <2> DEFINE S == Annotated(A, key)
             T == Annotated(B, key)
  <2>1. T = {m[x] : x \in S}
    BY <1>1
  <2> HIDE DEF S, T
  <2>2. T = {} <=> S = {}
    BY <2>1
  <2>3. QED
    BY <2>2 DEF S, T
<1>3. QED
  BY <1>2 DEF Reviewed

(* The mean of its item is higher in that dimension, and no other mean of  *)
(* an item is another one.                                                 *)
LEMMA ItemMeanRises ==
  ASSUME NEW K, NEW A, NEW ds, Readable(K, A, ds), NEW B, NEW a, NEW b,
         NEW dim \in Names(ds), Raised(A, B, a, b, ds, dim),
         NEW key \in Reviewed(K, A), NEW other \in Names(ds)
  PROVE  /\ ItemMean(A, key, other) \in Rationals /\ ItemMean(B, key, other) \in Rationals
         /\ AtMost(ItemMean(A, key, other), ItemMean(B, key, other))
         /\ key.review = a.review /\ other = dim =>
              Below(ItemMean(A, key, other), ItemMean(B, key, other))
         /\ key.review # a.review \/ other # dim =>
              ItemMean(B, key, other) = ItemMean(A, key, other)
<1> DEFINE S == Annotated(A, key)
           T == Annotated(B, key)
           m == [x \in A |-> IF x = a THEN b ELSE x]
           f == [x \in S |-> <<x.scores[other], 1>>]
           h == [x \in S |-> <<m[x].scores[other], 1>>]
           g == [y \in T |-> <<y.scores[other], 1>>]
<1>1. ItemMean(A, key, other) = Mean(f) /\ ItemMean(B, key, other) = Mean(g)
  BY DEF ItemMean
<1>2. S # {} /\ S \subseteq A /\ IsFiniteSet(S)
  BY AnnotatedIsFinite DEF Reviewed, Annotated, Readable
<1>3. /\ \A x, y \in A : m[x] = m[y] => x = y
      /\ T = {m[x] : x \in S}
  BY RaisedIsPicture
<1>4. PICK i \in DOMAIN ds : other = ds[i].name
  BY DEF Names
<1>5. \A x \in A : x.scores[other] \in Int
  BY <1>4 DEF Readable
<1>6. \A x \in A : m[x] = IF x = a THEN b ELSE x
  OBVIOUS
<1>7. \A x \in A : m[x].scores[other] =
                     IF x = a /\ other = dim THEN x.scores[other] + 1 ELSE x.scores[other]
  <2> HIDE DEF m
  <2>1. /\ b.scores[dim] = a.scores[dim] + 1
        /\ other # dim => b.scores[other] = a.scores[other]
    BY DEF Raised
  <2>2. QED
    BY <1>6, <2>1
<1>8. \A x \in S : f[x] = <<x.scores[other], 1>> /\ h[x] = <<m[x].scores[other], 1>>
  OBVIOUS
<1>9. \A y \in T : g[y] = <<y.scores[other], 1>>
  OBVIOUS
<1>10. DOMAIN f = S /\ DOMAIN g = T /\ DOMAIN h = S
  OBVIOUS
<1>11. a \in S <=> key.review = a.review
  BY DEF Raised, Annotated
<1> HIDE DEF S, T, m, f, g, h
<1>12. \A x \in S : g[m[x]] = h[x]
  BY <1>3, <1>8, <1>9
<1>13. \A x \in S : /\ f[x] \in Rationals /\ h[x] \in Rationals /\ AtMost(f[x], h[x])
                    /\ x = a /\ other = dim => Below(f[x], h[x])
                    /\ x # a \/ other # dim => h[x] = f[x]
  <2>1. SUFFICES ASSUME NEW x \in S
                 PROVE  /\ f[x] \in Rationals /\ h[x] \in Rationals /\ AtMost(f[x], h[x])
                        /\ x = a /\ other = dim => Below(f[x], h[x])
                        /\ x # a \/ other # dim => h[x] = f[x]
    OBVIOUS
  <2> DEFINE n == x.scores[other]
             k == m[x].scores[other]
  <2>2. /\ n \in Int /\ k = IF x = a /\ other = dim THEN n + 1 ELSE n
        /\ f[x] = <<n, 1>> /\ h[x] = <<k, 1>>
    BY <1>2, <1>5, <1>7, <1>8
  <2> HIDE DEF n, k
  <2>3. k \in Int /\ n * 1 <= k * 1 /\ (x = a /\ other = dim => n * 1 < k * 1)
    BY <2>2
  <2>4. QED
    BY <2>2, <2>3 DEF Rationals, AtMost, Below
<1>14. Mean(g) = Mean(h)
  BY <1>2, <1>3, <1>10, <1>12, <1>13, MeanOfPicture
<1>15. Mean(f) \in Rationals /\ Mean(h) \in Rationals
  BY <1>2, <1>10, <1>13, MeanIsRational
<1>16. /\ AtMost(Mean(f), Mean(h))
       /\ (\E x \in S : Below(f[x], h[x])) => Below(Mean(f), Mean(h))
       /\ (\A x \in S : h[x] = f[x]) => Mean(f) = Mean(h)
  BY <1>2, <1>10, <1>13, MeansOnSet
<1>17. key.review = a.review /\ other = dim => Below(Mean(f), Mean(h))
  BY <1>11, <1>13, <1>16
<1>18. key.review # a.review \/ other # dim => Mean(f) = Mean(h)
  BY <1>11, <1>13, <1>16
<1>19. QED
  BY <1>1, <1>14, <1>15, <1>16, <1>17, <1>18

(* The mean of a variant is higher in that dimension.                      *)
LEMMA SummaryRises ==
  ASSUME NEW K, NEW A, NEW ds, Readable(K, A, ds), NEW B, NEW a, NEW b,
         NEW dim \in Names(ds), Raised(A, B, a, b, ds, dim),
         NEW key \in K, key.review = a.review
  PROVE  Below(Summary(K, A, ds, key.variant).means[dim],
               Summary(K, B, ds, key.variant).means[dim])
<1> DEFINE available == {k \in K : k.variant = key.variant}
           items == Reviewed(available, A)
           f == [k \in items |-> ItemMean(A, k, dim)]
           g == [k \in items |-> ItemMean(B, k, dim)]
<1>1. Reviewed(available, B) = items
  BY RaisedIsReviewed
<1>2. items \subseteq Reviewed(K, A) /\ items \subseteq K
  BY DEF Reviewed
<1>3. key \in items
  BY DEF Reviewed, Annotated, Raised
<1>4. /\ Summary(K, A, ds, key.variant).means[dim] = Mean(f)
      /\ Summary(K, B, ds, key.variant).means[dim] = Mean(g)
  BY <1>1, <1>3 DEF Summary
<1>5. \A k \in items : /\ ItemMean(A, k, dim) \in Rationals /\ ItemMean(B, k, dim) \in Rationals
                       /\ AtMost(ItemMean(A, k, dim), ItemMean(B, k, dim))
                       /\ k.review = a.review => Below(ItemMean(A, k, dim), ItemMean(B, k, dim))
  <2> HIDE DEF items
  <2>1. QED
    BY <1>2, ItemMeanRises
<1>6. IsFiniteSet(items)
  BY <1>2, FS_Subset DEF Readable
<1>7. DOMAIN f = items /\ DOMAIN g = items
  OBVIOUS
<1>8. \A k \in items : f[k] = ItemMean(A, k, dim) /\ g[k] = ItemMean(B, k, dim)
  OBVIOUS
<1> HIDE DEF items, f, g
<1>9. Below(Mean(f), Mean(g))
  BY <1>3, <1>5, <1>6, <1>7, <1>8, MeansOnSet
<1>10. QED
  BY <1>4, <1>9

(* The mean of a subject is no lower; under other variants, and in other   *)
(* dimensions, it is the same.                                             *)
LEMMA SubjectMeanRises ==
  ASSUME NEW K, NEW A, NEW ds, Readable(K, A, ds), NEW B, NEW a, NEW b,
         NEW dim \in Names(ds), Raised(A, B, a, b, ds, dim),
         NEW key \in K, key.review = a.review, NEW other \in Names(ds), NEW s, NEW v,
         \E k \in Reviewed(K, A) : k.subject = s /\ k.variant = v
  PROVE  /\ SubjectMean(Reviewed(K, A), A, s, v, other) \in Rationals
         /\ SubjectMean(Reviewed(K, B), B, s, v, other) \in Rationals
         /\ AtMost(SubjectMean(Reviewed(K, A), A, s, v, other),
                   SubjectMean(Reviewed(K, B), B, s, v, other))
         /\ v # key.variant \/ other # dim =>
              SubjectMean(Reviewed(K, B), B, s, v, other)
                = SubjectMean(Reviewed(K, A), A, s, v, other)
<1> DEFINE items == Reviewed(K, A)
           own == {k \in items : k.subject = s /\ k.variant = v}
           f == [k \in own |-> ItemMean(A, k, other)]
           g == [k \in own |-> ItemMean(B, k, other)]
<1>1. Reviewed(K, B) = items
  BY RaisedIsReviewed
<1>2. /\ SubjectMean(Reviewed(K, A), A, s, v, other) = Mean(f)
      /\ SubjectMean(Reviewed(K, B), B, s, v, other) = Mean(g)
  BY <1>1 DEF SubjectMean
<1>3. own \subseteq items /\ own # {} /\ items \subseteq K
  BY DEF Reviewed
<1>4. \A k \in own : k.review = a.review => v = key.variant
  BY <1>3 DEF Readable
<1>5. DOMAIN f = own /\ DOMAIN g = own
  OBVIOUS
<1>6. \A k \in own : f[k] = ItemMean(A, k, other) /\ g[k] = ItemMean(B, k, other)
  OBVIOUS
<1>7. IsFiniteSet(own)
  <2>1. IsFiniteSet(K)
    BY DEF Readable
  <2> HIDE DEF own, items
  <2>2. QED
    BY <1>3, <2>1, FS_Subset
<1>8. \A k \in own : /\ ItemMean(A, k, other) \in Rationals /\ ItemMean(B, k, other) \in Rationals
                     /\ AtMost(ItemMean(A, k, other), ItemMean(B, k, other))
                     /\ k.review # a.review \/ other # dim =>
                          ItemMean(B, k, other) = ItemMean(A, k, other)
  <2> HIDE DEF own
  <2>1. QED
    BY <1>3, ItemMeanRises
<1> HIDE DEF own, f, g
<1>9. \A k \in own : /\ f[k] \in Rationals /\ g[k] \in Rationals /\ AtMost(f[k], g[k])
                     /\ v # key.variant \/ other # dim => g[k] = f[k]
  BY <1>4, <1>6, <1>8
<1>10. Mean(f) \in Rationals /\ Mean(g) \in Rationals
  BY <1>3, <1>5, <1>7, <1>9, MeanIsRational
<1>11. /\ AtMost(Mean(f), Mean(g))
       /\ (\A k \in own : g[k] = f[k]) => Mean(f) = Mean(g)
  BY <1>3, <1>5, <1>7, <1>9, MeansOnSet
<1>12. v # key.variant \/ other # dim => Mean(g) = Mean(f)
  BY <1>9, <1>11
<1>13. QED
  BY <1>2, <1>10, <1>11, <1>12

(* One comparison is no worse than the other for the first variant.        *)
NoWorse(x, y) ==
  /\ ~ Below(y.mean, x.mean) /\ ~ Below(y.median, x.median)
  /\ x.wins <= y.wins /\ y.losses <= x.losses

(* A larger rational has no smaller sign.                                  *)
LEMMA SignIsMonotone ==
  ASSUME NEW p \in Rationals, NEW q \in Rationals, AtMost(p, q)
  PROVE  (p[1] > 0 => q[1] > 0) /\ (q[1] < 0 => p[1] < 0)
<1> DEFINE a == p[1]  b == p[2]  c == q[1]  d == q[2]
<1>1. a \in Int /\ b \in Nat \ {0} /\ c \in Int /\ d \in Nat \ {0}
  BY PartsOfRational
<1>2. a * d <= c * b
  BY DEF AtMost
<1> HIDE DEF a, b, c, d
<1>3. \A x \in Int : /\ (x > 0 <=> x * d > 0) /\ (x < 0 <=> x * d < 0)
                     /\ (x > 0 <=> x * b > 0) /\ (x < 0 <=> x * b < 0)
  BY <1>1
<1>4. a * d \in Int /\ c * b \in Int
  BY <1>1
<1>5. (a > 0 => c > 0) /\ (c < 0 => a < 0)
  BY <1>1, <1>2, <1>3, <1>4
<1>6. QED
  BY <1>5 DEF a, c

(* Two comparisons of the same subjects, the second with larger deltas.    *)
LEMMA LargerComparisons ==
  ASSUME NEW K, NEW A, NEW B, NEW a, NEW b, NEW dim, NEW S, IsFiniteSet(S),
         S = PairedSubjects(Reviewed(K, A), a, b), S = PairedSubjects(Reviewed(K, B), a, b),
         \A s \in S : /\ Delta(Reviewed(K, A), A, s, a, b, dim) \in Rationals
                      /\ Delta(Reviewed(K, B), B, s, a, b, dim) \in Rationals
                      /\ AtMost(Delta(Reviewed(K, A), A, s, a, b, dim),
                                Delta(Reviewed(K, B), B, s, a, b, dim))
  PROVE  NoWorse(Compared(K, A, a, b, dim), Compared(K, B, a, b, dim))
<1> DEFINE x == [s \in S |-> Delta(Reviewed(K, A), A, s, a, b, dim)]
           y == [s \in S |-> Delta(Reviewed(K, B), B, s, a, b, dim)]
           c == Compared(K, A, a, b, dim)
           d == Compared(K, B, a, b, dim)
           up(f) == {s \in S : f[s][1] > 0}
           down(f) == {s \in S : f[s][1] < 0}
<1>1. /\ c.wins = Cardinality(up(x)) /\ c.losses = Cardinality(down(x))
      /\ c.mean = IF S = {} THEN <<0, 1>> ELSE Mean(x)
      /\ c.median = IF S = {} THEN <<0, 1>> ELSE Median(Sorted(x))
  BY DEF Compared
<1>2. /\ d.wins = Cardinality(up(y)) /\ d.losses = Cardinality(down(y))
      /\ d.mean = IF S = {} THEN <<0, 1>> ELSE Mean(y)
      /\ d.median = IF S = {} THEN <<0, 1>> ELSE Median(Sorted(y))
  BY DEF Compared
<1>3. \A s \in S : x[s] \in Rationals /\ y[s] \in Rationals /\ AtMost(x[s], y[s])
  OBVIOUS
<1>4. DOMAIN x = S /\ DOMAIN y = S
  OBVIOUS
<1> HIDE DEF x, y, c, d
<1>5. \A s \in S : (x[s][1] > 0 => y[s][1] > 0) /\ (y[s][1] < 0 => x[s][1] < 0)
  BY <1>3, SignIsMonotone
<1>6. up(x) \subseteq up(y) /\ down(y) \subseteq down(x)
  BY <1>5
<1>7. IsFiniteSet(up(y)) /\ IsFiniteSet(down(x))
  <2>1. up(y) \subseteq S /\ down(x) \subseteq S
    OBVIOUS
  <2> HIDE DEF up, down
  <2>2. QED
    BY <2>1, FS_Subset
<1> HIDE DEF up, down
<1>8. c.wins <= d.wins /\ d.losses <= c.losses
  BY <1>1, <1>2, <1>6, <1>7, FS_Subset
<1>9. ~ Below(d.mean, c.mean) /\ ~ Below(d.median, c.median)
  <2>1. CASE S = {}
    <3>1. ~ Below(<<0, 1>>, <<0, 1>>)
      BY DEF Below
    <3>2. QED
      BY <1>1, <1>2, <2>1, <3>1
  <2>2. CASE S # {}
    <3>1. AtMost(Mean(x), Mean(y))
      BY <1>3, <1>4, <2>2, MeansOnSet
    <3>2. Mean(x) \in Rationals /\ Mean(y) \in Rationals
      BY <1>3, <1>4, <2>2, MeanIsRational
    <3>3. /\ Median(Sorted(x)) \in Rationals /\ Median(Sorted(y)) \in Rationals
          /\ AtMost(Median(Sorted(x)), Median(Sorted(y)))
      BY <1>3, <1>4, <2>2, MedianIsMonotone
    <3>4. ~ Below(Mean(y), Mean(x)) /\ ~ Below(Median(Sorted(y)), Median(Sorted(x)))
      BY <3>1, <3>2, <3>3, AtMostIsOrder
    <3>5. QED
      BY <1>1, <1>2, <2>2, <3>4
  <2>3. QED
    BY <2>1, <2>2
<1>10. QED
  BY <1>8, <1>9 DEF c, d, NoWorse

(* A comparison of the variant is no worse for it, any other is the same.  *)
LEMMA ComparisonRises ==
  ASSUME NEW K, NEW A, NEW ds, Readable(K, A, ds), NEW B, NEW a, NEW b,
         NEW dim \in Names(ds), Raised(A, B, a, b, ds, dim),
         NEW key \in K, key.review = a.review, NEW other \in Names(ds), NEW v, NEW w, v # w
  PROVE  /\ other # dim \/ key.variant \notin {v, w} =>
              Compared(K, B, v, w, other) = Compared(K, A, v, w, other)
         /\ other = dim /\ key.variant = v =>
              NoWorse(Compared(K, A, v, w, other), Compared(K, B, v, w, other))
         /\ other = dim /\ key.variant = w =>
              NoWorse(Compared(K, B, v, w, other), Compared(K, A, v, w, other))
<1> DEFINE S == PairedSubjects(Reviewed(K, A), v, w)
           old(s) == Delta(Reviewed(K, A), A, s, v, w, other)
           new(s) == Delta(Reviewed(K, B), B, s, v, w, other)
<1>1. Reviewed(K, B) = Reviewed(K, A)
  BY RaisedIsReviewed
<1>2. IsFiniteSet(S) /\ \A s \in S : \A u \in {v, w} :
                          \E k \in Reviewed(K, A) : k.subject = s /\ k.variant = u
  BY PairedFound
<1>3. S = PairedSubjects(Reviewed(K, B), v, w)
  BY <1>1
<1> HIDE DEF S
<1>4. ASSUME NEW s \in S
      PROVE  /\ old(s) \in Rationals /\ new(s) \in Rationals
             /\ key.variant = v => AtMost(old(s), new(s))
             /\ key.variant = w => AtMost(new(s), old(s))
             /\ other # dim \/ key.variant \notin {v, w} => new(s) = old(s)
  <2> DEFINE p == SubjectMean(Reviewed(K, A), A, s, v, other)
             q == SubjectMean(Reviewed(K, A), A, s, w, other)
             x == SubjectMean(Reviewed(K, B), B, s, v, other)
             y == SubjectMean(Reviewed(K, B), B, s, w, other)
  <2>1. /\ \E k \in Reviewed(K, A) : k.subject = s /\ k.variant = v
        /\ \E k \in Reviewed(K, A) : k.subject = s /\ k.variant = w
    BY <1>2
  <2>2. /\ p \in Rationals /\ x \in Rationals /\ AtMost(p, x)
        /\ v # key.variant \/ other # dim => x = p
    BY <2>1, SubjectMeanRises
  <2>3. /\ q \in Rationals /\ y \in Rationals /\ AtMost(q, y)
        /\ w # key.variant \/ other # dim => y = q
    BY <2>1, SubjectMeanRises
  <2>4. old(s) = Minus(p, q) /\ new(s) = Minus(x, y)
    BY DEF Delta
  <2> HIDE DEF p, q, x, y, old, new
  <2>5. old(s) \in Rationals /\ new(s) \in Rationals
    BY <2>2, <2>3, <2>4, SumIsReduced
  <2>6. key.variant = v => AtMost(old(s), new(s))
    BY <2>2, <2>3, <2>4, MinusIsMonotone
  <2>7. key.variant = w => AtMost(new(s), old(s))
    BY <2>2, <2>3, <2>4, MinusIsMonotone
  <2>8. other # dim \/ key.variant \notin {v, w} => new(s) = old(s)
    BY <2>2, <2>3, <2>4
  <2>9. QED
    BY <2>5, <2>6, <2>7, <2>8
<1>5. ASSUME other # dim \/ key.variant \notin {v, w}
      PROVE  Compared(K, B, v, w, other) = Compared(K, A, v, w, other)
  <2>1. [s \in S |-> new(s)] = [s \in S |-> old(s)]
    <3>1. \A s \in S : new(s) = old(s)
      BY <1>4, <1>5
    <3> HIDE DEF new, old
    <3>2. QED
      BY <3>1
  <2> DEFINE of(delta) ==
        [pairs |-> Cardinality(S),
         wins |-> Cardinality({s \in S : delta[s][1] > 0}),
         ties |-> Cardinality({s \in S : delta[s][1] = 0}),
         losses |-> Cardinality({s \in S : delta[s][1] < 0}),
         mean |-> IF S = {} THEN <<0, 1>> ELSE Mean(delta),
         median |-> IF S = {} THEN <<0, 1>> ELSE Median(Sorted(delta))]
  <2>2. Compared(K, A, v, w, other) = of([s \in S |-> old(s)])
    BY DEF Compared, S
  <2>3. Compared(K, B, v, w, other) = of([s \in S |-> new(s)])
    BY <1>3 DEF Compared, S
  <2> HIDE DEF of, old, new
  <2>4. QED
    BY <2>1, <2>2, <2>3
<1>6. ASSUME key.variant = v
      PROVE  NoWorse(Compared(K, A, v, w, other), Compared(K, B, v, w, other))
  BY <1>2, <1>3, <1>4, <1>6, LargerComparisons DEF S
<1>7. ASSUME key.variant = w
      PROVE  NoWorse(Compared(K, B, v, w, other), Compared(K, A, v, w, other))
  BY <1>2, <1>3, <1>4, <1>7, LargerComparisons DEF S
<1>8. QED
  BY <1>5, <1>6, <1>7

(* What has been loaded of a line has a score for every dimension.         *)
LEMMA TakenAreRecords ==
  ASSUME IInv, NEW a \in load.taken
  PROVE  /\ a = [review |-> a.review, reviewer |-> a.reviewer, scores |-> a.scores]
         /\ DOMAIN a.scores = Names(dims)
<1>1. PICK i \in 1 .. load.next - 1 : a = Taken(lines[i])
  BY DEF IInv, LoadKnown
<1>2. ValidAnnotation(lines[i])
  BY DEF IInv, LoadKnown
<1>3. DOMAIN lines[i].scores = Names(dims)
  BY <1>2 DEF ValidAnnotation
<1>4. QED
  BY <1>1, <1>3 DEF Taken

(* What the property changes is one score.                                 *)
LEMMA TakenIsRaised ==
  ASSUME IInv, NEW a \in load.taken, NEW dim \in Names(dims)
  PROVE  LET b == [a EXCEPT !.scores[dim] = @ + 1]
         IN  Raised(load.taken, (load.taken \ {a}) \cup {b}, a, b, dims, dim)
<1> DEFINE b == [a EXCEPT !.scores[dim] = @ + 1]
           scores == [a.scores EXCEPT ![dim] = a.scores[dim] + 1]
<1>1. /\ a = [review |-> a.review, reviewer |-> a.reviewer, scores |-> a.scores]
      /\ DOMAIN a.scores = Names(dims)
  BY TakenAreRecords
<1>2. Readable(keys, load.taken, dims)
  BY LoadedIsReadable
<1>3. /\ scores[dim] = a.scores[dim] + 1
      /\ \A other \in Names(dims) \ {dim} : scores[other] = a.scores[other]
  BY <1>1
<1>4. b = [a EXCEPT !.scores = scores]
  OBVIOUS
<1> HIDE DEF b, scores
<1>5. b.review = a.review /\ b.reviewer = a.reviewer /\ b.scores = scores
  <2>1. b = [review |-> a.review, reviewer |-> a.reviewer, scores |-> scores]
    BY <1>1, <1>4
  <2>2. QED
    BY <2>1
<1>6. b \notin load.taken
  <2>1. PICK i \in DOMAIN dims : dim = dims[i].name
    BY DEF Names
  <2>2. a.scores[dim] \in Int
    BY <1>2, <2>1 DEF Readable
  <2>3. b.scores # a.scores
    BY <1>3, <1>5, <2>2
  <2>4. QED
    BY <1>2, <1>5, <2>3 DEF Readable
<1>7. QED
  BY <1>3, <1>5, <1>6 DEF Raised, b

(* A reviewer who likes an item better does not harm its variant           *)
(* (aggregate.go, summarizeVariant and summarizeDeltas).                   *)
THEOREM BetterNeverEverHurts == Spec => []BetterNeverHurts
<1>1. IInv => BetterNeverHurts
  <2>1. SUFFICES ASSUME IInv, Loaded, NEW a \in load.taken, NEW i \in DOMAIN dims
                 PROVE  LET dim == dims[i].name
                            variant == (CHOOSE key \in keys : key.review = a.review).variant
                            better == (load.taken \ {a}) \cup {[a EXCEPT !.scores[dim] = @ + 1]}
                        IN  /\ Below(report.variants[variant].means[dim],
                                     Summary(keys, better, dims, variant).means[dim])
                            /\ \A p \in DOMAIN report.comparisons :
                                 LET before == report.comparisons[p]
                                     after == Compared(keys, better, p[1], p[2], p[3])
                                 IN  CASE p[3] # dim -> after = before
                                       [] p[3] = dim /\ p[1] = variant -> NoWorse(before, after)
                                       [] p[3] = dim /\ p[2] = variant -> NoWorse(after, before)
                                       [] OTHER -> after = before
    BY DEF BetterNeverHurts, NoWorse
  <2> DEFINE A == load.taken
             dim == dims[i].name
             b == [a EXCEPT !.scores[dim] = @ + 1]
             better == (load.taken \ {a}) \cup {b}
             key == CHOOSE key \in keys : key.review = a.review
             variant == key.variant
  <2>2. Readable(keys, A, dims) /\ dim \in Names(dims)
    BY <2>1, LoadedIsReadable DEF Names
  <2>3. Raised(A, better, a, b, dims, dim)
    BY <2>1, <2>2, TakenIsRaised
  <2>4. key \in keys /\ key.review = a.review
    BY <2>2 DEF Readable
  <2>5. report.variants[variant] = Summary(keys, A, dims, variant)
    BY <2>1, <2>4, LoadedReport DEF Variants
  <2> HIDE DEF A, dim, b, better, key
  <2>6. Below(Summary(keys, A, dims, variant).means[dim], Summary(keys, better, dims, variant).means[dim])
    BY <2>2, <2>3, <2>4, SummaryRises
  <2>7. ASSUME NEW p \in DOMAIN report.comparisons
        PROVE  LET before == report.comparisons[p]
                   after == Compared(keys, better, p[1], p[2], p[3])
               IN  CASE p[3] # dim -> after = before
                     [] p[3] = dim /\ p[1] = variant -> NoWorse(before, after)
                     [] p[3] = dim /\ p[2] = variant -> NoWorse(after, before)
                     [] OTHER -> after = before
    <3> DEFINE v == p[1]  w == p[2]  other == p[3]
               before == report.comparisons[p]
               after == Compared(keys, better, v, w, other)
    <3>1. /\ p \in Variants(keys) \X Variants(keys) \X Names(dims) /\ v < w
          /\ before = Compared(keys, A, v, w, other)
      BY <2>1, LoadedReport DEF A
    <3>2. v # w /\ other \in Names(dims)
      <4>1. v \in Int /\ w \in Int
        BY <3>1, <2>2 DEF Variants, Readable
      <4>2. QED
        BY <3>1, <4>1
    <3> HIDE DEF v, w, other, before
    <3>3. /\ other # dim \/ variant \notin {v, w} => after = before
          /\ other = dim /\ variant = v => NoWorse(before, after)
          /\ other = dim /\ variant = w => NoWorse(after, before)
      BY <2>2, <2>3, <2>4, <3>1, <3>2, ComparisonRises
    <3> HIDE DEF after, variant
    <3>4. (CASE other # dim -> after = before
             [] other = dim /\ v = variant -> NoWorse(before, after)
             [] other = dim /\ w = variant -> NoWorse(after, before)
             [] OTHER -> after = before)
      BY <3>2, <3>3 DEF NoWorse
    <3>5. QED
      BY <3>4 DEF v, w, other, before, after
  <2>8. QED
    BY <2>5, <2>6, <2>7 DEF A, dim, b, better, key
<1>2. QED
  BY <1>1, Invariance, PTL
=============================================================================
