-------------------------------- MODULE Review --------------------------------
(***************************************************************************)
(* pkg/review around its Aggregate: the product builds a blind queue and   *)
(* an unblinding key from its candidates, again and again as they change;  *)
(* reviewers who see the queue append annotations to a file, one line      *)
(* each; and while they do the file is loaded line by line, and            *)
(* aggregated.                                                             *)
(*                                                                         *)
(* A text with blanks around it or nothing in it is Blank.  A review ID is *)
(* the number an injective function gives to the identity it digests, in   *)
(* the order of the IDs.                                                   *)
(***************************************************************************)
EXTENDS Aggregate

CONSTANTS
  Protocols,      \* the dimensions a product may ask for
  Lists,          \* the candidates the product may have, one list after the other
  Opinions(_),    \* who may think what of a candidate: pairs reviewer, scores
  Digest,         \* identity -> review ID, injective
  Blank,          \* any text that is not well-formed
  NoReport,
  MaxLines        \* bound: lines reviewers append

(* Mutant: what the product calls the identity of a candidate is left out. *)
IdentityOfVariant(candidate) ==
  [subject |-> candidate.subject, variant |-> candidate.variant, identity |-> 1]

(* deterministicID: the payload is no part of it. *)
Identity(candidate) ==
  [subject |-> candidate.subject, variant |-> candidate.variant,
   identity |-> candidate.identity]

WellFormed(candidate) ==
  Blank \notin {candidate.subject, candidate.variant, candidate.payload}

ASSUME ReviewAssumption ==
  /\ MaxLines \in Nat
  /\ IsInjective(Digest)
  /\ \A ds \in Protocols : \A i \in DOMAIN ds : ds[i].min \in Int /\ ds[i].max \in Int
  /\ \A list \in Lists :
       /\ list \in Seq({list[i] : i \in DOMAIN list})
       /\ \A i \in DOMAIN list :
            /\ DOMAIN list[i] = {"subject", "variant", "identity", "payload"}
            /\ WellFormed(list[i]) =>
                 Identity(list[i]) \in DOMAIN Digest /\ list[i].variant \in Int
            /\ \A opinion \in Opinions(list[i]) :
                 opinion[1] = Blank \/ opinion[1] \in Int

VARIABLES
  dims,      \* the protocol's dimensions
  listed,    \* the candidates of the last build
  queue,     \* the queue as written for the reviewers
  keys,      \* the unblinding key, kept apart from it
  lines,     \* the annotation file; the last line may be torn
  load,      \* LoadAnnotations: its step, the next line and what it has taken
  report

vars == <<dims, listed, queue, keys, lines, load, report>>

-----------------------------------------------------------------------------
(* Validation *)

(* Mutant: the width of a range is not looked at. *)
ValidDimensionsOfAnyWidth(ds) ==
  /\ ds # <<>>
  /\ \A i \in DOMAIN ds : ds[i].name # Blank /\ ds[i].min <= ds[i].max
  /\ \A i, j \in DOMAIN ds : ds[i].name = ds[j].name => i = j

(* ValidateDimensions; the unsigned difference of the bounds is exact.     *)
ValidDimensions(ds) ==
  /\ ds # <<>>
  /\ \A i, j \in DOMAIN ds : ds[i].name = ds[j].name => i = j
  /\ \A i \in DOMAIN ds :
       /\ ds[i].name # Blank
       /\ ds[i].min <= ds[i].max
       /\ ds[i].max - ds[i].min <= MaxInt

(* ValidateKeys *)
ValidKeys(entries) ==
  /\ \A key \in entries : Blank \notin {key.review, key.subject, key.variant}
  /\ \A k, l \in entries : k.review = l.review => k = l

(* ValidateAnnotation *)
ValidAnnotation(line) ==
  /\ \E key \in keys : key.review = line.review
  /\ line.reviewer # Blank
  /\ DOMAIN line.scores = Names(dims)
  /\ \A i \in DOMAIN dims :
       line.scores[dims[i].name] \in dims[i].min .. dims[i].max

-----------------------------------------------------------------------------
(* BuildArtifacts *)

Buildable(list) ==
  /\ ValidDimensions(dims)
  /\ \A i \in DOMAIN list : WellFormed(list[i])
  /\ \A i, j \in DOMAIN list : Identity(list[i]) = Identity(list[j]) => i = j

Entry(candidate, ids) ==
  [review |-> ids[Identity(candidate)], subject |-> candidate.subject,
   payload |-> candidate.payload]

(* Mutant: the queue stays in the order of the candidates. *)
QueueAsListed(list, ids) == [i \in DOMAIN list |-> Entry(list[i], ids)]

InOrder(entries) == SetToSortSeq(entries, LAMBDA x, y : x.review < y.review)

QueueOf(list, ids) == InOrder({Entry(list[i], ids) : i \in DOMAIN list})

KeysOf(list, ids) ==
  {[review |-> ids[Identity(list[i])], subject |-> list[i].subject,
    variant |-> list[i].variant] : i \in DOMAIN list}

-----------------------------------------------------------------------------
Idle == [step |-> "idle", next |-> 1, taken |-> {}]

Init ==
  /\ dims \in Protocols
  /\ listed = <<>> /\ queue = <<>> /\ keys = {}
  /\ lines = <<>>
  /\ load = Idle
  /\ report = NoReport

(* The product writes queue and key, before the annotations are loaded. *)
Build(list) ==
  /\ load = Idle
  /\ IF Buildable(list)
       THEN /\ listed' = list
            /\ queue' = QueueOf(list, Digest)
            /\ keys' = KeysOf(list, Digest)
       ELSE UNCHANGED <<listed, queue, keys>>
  /\ UNCHANGED <<dims, lines, load, report>>

(* A reviewer appends a line on an entry of the queue.  The candidate the  *)
(* entry shows, payload included, is remembered for the properties: the    *)
(* line does not say it.  The line may be on its way to the file still.    *)
Annotate(candidate, opinion, whole) ==
  /\ report = NoReport /\ Len(lines) < MaxLines
  /\ lines # <<>> => Last(lines).whole
  /\ lines' = Append(lines,
       [review |-> Entry(candidate, Digest).review, reviewer |-> opinion[1],
        scores |-> opinion[2], whole |-> whole,
        of |-> candidate])
  /\ UNCHANGED <<dims, listed, queue, keys, load, report>>

FinishLine ==
  /\ lines # <<>> /\ ~ Last(lines).whole
  /\ lines' = [lines EXCEPT ![Len(lines)].whole = TRUE]
  /\ UNCHANGED <<dims, listed, queue, keys, load, report>>

-----------------------------------------------------------------------------
(* LoadAnnotations and Aggregate *)

BeginLoad ==
  /\ load = Idle /\ keys # {}
  /\ ValidDimensions(dims) /\ ValidKeys(keys)
  /\ load' = [Idle EXCEPT !.step = "reading"]
  /\ UNCHANGED <<dims, listed, queue, keys, lines, report>>

(* What the loader keeps of a line. *)
Taken(line) ==
  [review |-> line.review, reviewer |-> line.reviewer, scores |-> line.scores]

(* Mutant: a line that cannot be used is passed over. *)
ReadLineOrSkip ==
  /\ load.step = "reading" /\ load.next <= Len(lines)
  /\ LET line == lines[load.next]
         usable == /\ line.whole
                   /\ ValidAnnotation(line)
                   /\ ~ \E a \in load.taken :
                          a.review = line.review /\ a.reviewer = line.reviewer
     IN  load' = [load EXCEPT !.next = @ + 1,
                              !.taken = IF usable THEN @ \cup {Taken(line)} ELSE @]
  /\ UNCHANGED <<dims, listed, queue, keys, lines, report>>

(* Any line that does not decode, is not valid, or repeats an item and its *)
(* reviewer ends the load with an error.                                   *)
ReadLine ==
  /\ load.step = "reading" /\ load.next <= Len(lines)
  /\ LET line == lines[load.next]
         usable == /\ line.whole
                   /\ ValidAnnotation(line)
                   /\ ~ \E a \in load.taken :
                          a.review = line.review /\ a.reviewer = line.reviewer
     IN  load' = IF usable
                   THEN [load EXCEPT !.next = @ + 1, !.taken = @ \cup {Taken(line)}]
                   ELSE Idle
  /\ UNCHANGED <<dims, listed, queue, keys, lines, report>>

EndOfFile ==
  /\ load.step = "reading" /\ load.next = Len(lines) + 1
  /\ report' = Report(keys, load.taken, dims)
  /\ load' = [load EXCEPT !.step = "loaded"]
  /\ UNCHANGED <<dims, listed, queue, keys, lines>>

Next ==
  \/ \E list \in Lists : Build(list)
  \/ \E i \in DOMAIN listed : \E opinion \in Opinions(listed[i]), whole \in BOOLEAN :
       Annotate(listed[i], opinion, whole)
  \/ FinishLine \/ BeginLoad \/ ReadLine \/ EndOfFile

Spec == Init /\ [][Next]_vars

-----------------------------------------------------------------------------
Loaded == report # NoReport

(* The same candidates in another order, with their variants exchanged,    *)
(* as long as no two become the same.                                      *)
Relabelled(list) ==
  {other \in {[i \in DOMAIN list |-> [list[p[i]] EXCEPT !.variant = list[v[i]].variant]] :
                p, v \in {f \in [DOMAIN list -> DOMAIN list] : IsInjective(f)}} :
     /\ \A i, j \in DOMAIN other : Identity(other[i]) = Identity(other[j]) => i = j}

(* The queue tells a reviewer nothing of the variants: whichever candidate *)
(* had been whose variant, and in whatever order the product had listed    *)
(* them, the very same queue could have come out, for another digest       *)
(* function (package comment: "structurally blinded").                     *)
Blinded ==
  lines = <<>> /\ load = Idle /\ queue # <<>> =>
    \A other \in Relabelled(listed) :
      LET identities == {Identity(other[i]) : i \in DOMAIN other}
          ids == {key.review : key \in keys}
      IN  \E f \in {g \in [identities -> ids] : IsInjective(g)} :
            QueueOf(other, f) = queue

(* What the product declares a candidate to be, its payload apart. *)
Declared(candidate) == <<candidate.subject, candidate.variant, candidate.identity>>

(* The product shows one payload for a declaration, in whatever it lists.  *)
OnePayload(declared) ==
  \A list, other \in Lists : \A i \in DOMAIN list, j \in DOMAIN other :
    Declared(list[i]) = declared /\ Declared(other[j]) = declared
      => list[i].payload = other[j].payload

(* A score counts for the identity its reviewer was shown: whatever was    *)
(* built since the line was written, the key gives its review the subject  *)
(* and the variant of the candidate it was written on, and a candidate     *)
(* that is listed now has its identity (review.go, deterministicID).  The  *)
(* payload is no part of that identity.  What is listed now has the very   *)
(* payload the reviewer judged where the product never changes it under    *)
(* one identity; where it does, the score counts for another payload.      *)
CountedAsSeen ==
  Loaded => \A i \in 1 .. load.next - 1 :
    LET seen == lines[i].of
    IN  \E j \in DOMAIN listed :
          /\ \E key \in keys : /\ key.review = lines[i].review
                               /\ key.subject = seen.subject
                               /\ key.variant = seen.variant
          /\ Declared(listed[j]) = Declared(seen)
          /\ OnePayload(Declared(seen)) => listed[j].payload = seen.payload

(* A report counts every line that was in the file when the end of it was  *)
(* reached; each of them is whole and valid, and no reviewer counts twice  *)
(* for an item.  There is no report of a file with a bad line in it.       *)
NothingSkipped ==
  Loaded =>
    /\ report.annotations = load.next - 1
    /\ \A i \in 1 .. load.next - 1 : lines[i].whole /\ ValidAnnotation(lines[i])
    /\ Cardinality({<<lines[i].review, lines[i].reviewer>> : i \in 1 .. load.next - 1})
         = load.next - 1

(* What is counted by variant, by subject and by reviewer is the same:     *)
(* items and annotations add up over the variants, every comparison has    *)
(* each subject that both variants share once, and the overlaps add up to  *)
(* the pairs of annotations of an item.                                    *)
CountsAddUp ==
  Loaded =>
    LET vs == DOMAIN report.variants
        subjects == {key.subject : key \in Reviewed(keys, load.taken)}
    IN  /\ report.items = SumFunction([v \in vs |-> report.variants[v].available])
        /\ report.reviewed = SumFunction([v \in vs |-> report.variants[v].reviewed])
        /\ report.annotations = SumFunction([v \in vs |-> report.variants[v].annotations])
        /\ \A p \in DOMAIN report.comparisons :
             LET c == report.comparisons[p]
                 shared == report.variants[p[1]].subjects + report.variants[p[2]].subjects
                             - Cardinality(subjects)
             IN  /\ c.wins + c.ties + c.losses = c.pairs
                 /\ Cardinality(vs) = 2 => c.pairs = shared
        /\ 2 * SumFunction([p \in DOMAIN report.overlaps |-> report.overlaps[p].items])
             = SumFunction([key \in keys |->
                 LET n == Cardinality(Annotated(load.taken, key)) IN n * (n - 1)])

(* With the two variants of a comparison exchanged in the key, wins are    *)
(* losses and the deltas are negated: neither side is favoured.            *)
VariantsAreAlike ==
  Loaded => \A p \in DOMAIN report.comparisons :
    LET exchange == [v \in Variants(keys) |->
                       IF v = p[1] THEN p[2] ELSE IF v = p[2] THEN p[1] ELSE v]
        mirrored == Compared({[key EXCEPT !.variant = exchange[@]] : key \in keys},
                             load.taken, p[1], p[2], p[3])
        c == report.comparisons[p]
    IN  /\ <<mirrored.pairs, mirrored.ties>> = <<c.pairs, c.ties>>
        /\ <<mirrored.wins, mirrored.losses>> = <<c.losses, c.wins>>
        /\ mirrored.mean = <<- c.mean[1], c.mean[2]>>
        /\ mirrored.median = <<- c.median[1], c.median[2]>>

(* No reviewer can help a variant with a lower score or harm it with a     *)
(* higher one, in the means and in every comparison.                       *)
BetterNeverHurts ==
  Loaded => \A a \in load.taken : \A i \in DOMAIN dims :
    LET dim == dims[i].name
        variant == (CHOOSE key \in keys : key.review = a.review).variant
        better == (load.taken \ {a}) \cup {[a EXCEPT !.scores[dim] = @ + 1]}
        noWorse(x, y) == /\ ~ Below(y.mean, x.mean) /\ ~ Below(y.median, x.median)
                         /\ x.wins <= y.wins /\ y.losses <= x.losses
    IN  a.scores[dim] < dims[i].max =>
          /\ Below(report.variants[variant].means[dim],
                   Summary(keys, better, dims, variant).means[dim])
          /\ \A p \in DOMAIN report.comparisons :
               LET before == report.comparisons[p]
                   after == Compared(keys, better, p[1], p[2], p[3])
               IN  CASE p[3] # dim -> after = before
                     [] p[3] = dim /\ p[1] = variant -> noWorse(before, after)
                     [] p[3] = dim /\ p[2] = variant -> noWorse(after, before)
                     [] OTHER -> after = before

(* What two reviewers of an item are reported to differ by is what they    *)
(* differ by, at the limits of int as well; an item they agree on is       *)
(* counted and not listed, one they do not agree on is listed.             *)
DisagreementsAreTrue ==
  Loaded => \A p \in DOMAIN report.overlaps :
    LET overlap == report.overlaps[p]
        of(dim) == {d \in overlap.disagreements : d.dim = dim}
    IN  \A i \in DOMAIN dims :
          LET dim == dims[i].name
              agreement == overlap.agreement[dim]
          IN  /\ \A d \in of(dim) :
                   /\ d.difference \in {d.a - d.b, d.b - d.a}
                   /\ 0 < d.difference /\ d.difference <= agreement.most
              /\ agreement.exact + Cardinality(of(dim)) = overlap.items
              /\ agreement.mean
                   = Ratio(SumFunction([d \in of(dim) |-> d.difference]), overlap.items)
=============================================================================
