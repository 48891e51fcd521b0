------------------------------- MODULE Aggregate -------------------------------
(***************************************************************************)
(* pkg/review, Aggregate: what the scores of reviewers say of the variants *)
(* and of the reviewers, as operators.                                     *)
(*                                                                         *)
(* keys is a set of records [review, subject, variant], annotations one of *)
(* records [review, reviewer, scores], and dims a sequence of records      *)
(* [name, min, max].  Variants and reviewers are numbers, in the order of  *)
(* their names.  A mean is a rational in lowest terms, <<n, d>>: the code  *)
(* has exact sums and item averages and rounds what it reports.            *)
(***************************************************************************)
EXTENDS FixedWidth, Sequences, FiniteSets, SequencesExt, FiniteSetsExt, Functions

AbsInt(n) == IF n < 0 THEN Wrap(- n) ELSE n

-----------------------------------------------------------------------------
(* Rationals *)

(* In lowest terms: the smallest denominator that gives a whole numerator. *)
Ratio(n, d) ==
  LET k == Min({k \in 1 .. d : (n * k) % d = 0})
  IN  <<(n * k) \div d, k>>

Plus(p, q) == Ratio(p[1] * q[2] + q[1] * p[2], p[2] * q[2])
Minus(p, q) == Ratio(p[1] * q[2] - q[1] * p[2], p[2] * q[2])
Below(p, q) == p[1] * q[2] < q[1] * p[2]

(* meanRationals, of the values of a function. *)
Mean(values) ==
  LET total == FoldFunction(Plus, <<0, 1>>, values)
  IN  Ratio(total[1], total[2] * Cardinality(DOMAIN values))

-----------------------------------------------------------------------------
(* Items, variants, subjects *)

Names(dims) == {dims[i].name : i \in DOMAIN dims}
Variants(keys) == {key.variant : key \in keys}
Annotated(annotations, key) == {a \in annotations : a.review = key.review}

Reviewed(keys, annotations) == {key \in keys : Annotated(annotations, key) # {}}

ItemMean(annotations, key, dim) ==
  Mean([a \in Annotated(annotations, key) |-> <<a.scores[dim], 1>>])

(* Mutant: a subject with two items is two subjects. *)
UniqueSubjectsByItem(items) == Cardinality(items)

UniqueSubjects(items) == Cardinality({key.subject : key \in items})

(* A VariantSummary: the mean of a dimension is the mean of the items',    *)
(* however many reviewers each of them has.                                *)
Summary(keys, annotations, dims, variant) ==
  LET available == {key \in keys : key.variant = variant}
      items == Reviewed(available, annotations)
  IN  [available |-> Cardinality(available),
       reviewed |-> Cardinality(items),
       subjects |-> UniqueSubjects(items),
       annotations |-> SumFunction(
         [key \in items |-> Cardinality(Annotated(annotations, key))]),
       means |-> [dim \in IF items = {} THEN {} ELSE Names(dims) |->
                    Mean([key \in items |-> ItemMean(annotations, key, dim)])]]

(* The subjects reviewed under both variants. *)
PairedSubjects(items, a, b) ==
  {key.subject : key \in {k \in items : k.variant = a}}
    \cap {key.subject : key \in {k \in items : k.variant = b}}

(* A subject may have several items of one variant: their mean counts. *)
SubjectMean(items, annotations, subject, variant, dim) ==
  LET own == {key \in items : key.subject = subject /\ key.variant = variant}
  IN  Mean([key \in own |-> ItemMean(annotations, key, dim)])

(* Mutant: the difference is taken the other way round. *)
DeltaReversed(items, annotations, subject, a, b, dim) ==
  Minus(SubjectMean(items, annotations, subject, b, dim),
        SubjectMean(items, annotations, subject, a, dim))

Delta(items, annotations, subject, a, b, dim) ==
  Minus(SubjectMean(items, annotations, subject, a, dim),
        SubjectMean(items, annotations, subject, b, dim))

(* sort.Float64s, of the values of a function. *)
Sorted(values) ==
  LET n == Cardinality(DOMAIN values)
      order == CHOOSE f \in Bijection(1 .. n, DOMAIN values) :
                 \A i, j \in 1 .. n : i < j => ~ Below(values[f[j]], values[f[i]])
  IN  [i \in 1 .. n |-> values[order[i]]]

(* Mutant: the upper one of two middle values. *)
MedianUpper(sorted) == sorted[Len(sorted) \div 2 + 1]

Median(sorted) ==
  LET middle == Len(sorted) \div 2
  IN  IF Len(sorted) % 2 = 1 THEN sorted[middle + 1]
      ELSE LET sum == Plus(sorted[middle], sorted[middle + 1])
           IN  Ratio(sum[1], 2 * sum[2])

(* summarizeDeltas *)
Compared(keys, annotations, a, b, dim) ==
  LET items == Reviewed(keys, annotations)
      subjects == PairedSubjects(items, a, b)
      delta == [s \in subjects |-> Delta(items, annotations, s, a, b, dim)]
  IN  [pairs |-> Cardinality(subjects),
       wins |-> Cardinality({s \in subjects : delta[s][1] > 0}),
       ties |-> Cardinality({s \in subjects : delta[s][1] = 0}),
       losses |-> Cardinality({s \in subjects : delta[s][1] < 0}),
       mean |-> IF subjects = {} THEN <<0, 1>> ELSE Mean(delta),
       median |-> IF subjects = {} THEN <<0, 1>> ELSE Median(Sorted(delta))]

-----------------------------------------------------------------------------
(* Reviewers *)

Reviewers(annotations) == {a.reviewer : a \in annotations}
By(annotations, reviewer) == {a \in annotations : a.reviewer = reviewer}

(* The two annotations of every item both reviewers have annotated. *)
Shared(annotations, r, s) ==
  {pair \in By(annotations, r) \X By(annotations, s) :
     pair[1].review = pair[2].review}

Difference(pair, dim) == AbsInt(Wrap(pair[1].scores[dim] - pair[2].scores[dim]))

(* A ReviewerOverlapSummary *)
Overlap(annotations, dims, r, s) ==
  LET pairs == Shared(annotations, r, s)
      differences(dim) == {Difference(pair, dim) : pair \in pairs}
  IN  [items |-> Cardinality(pairs),
       agreement |-> [dim \in Names(dims) |->
         [exact |-> Cardinality({pair \in pairs : Difference(pair, dim) = 0}),
          mean |-> Mean([pair \in pairs |-> <<Difference(pair, dim), 1>>]),
          most |-> Max({0} \cup differences(dim))]],
       disagreements |->
         {[review |-> x[1][1].review, dim |-> x[2], a |-> x[1][1].scores[x[2]],
           b |-> x[1][2].scores[x[2]], difference |-> Difference(x[1], x[2])] :
            x \in {p \in pairs \X Names(dims) : Difference(p[1], p[2]) # 0}}]

(* Aggregate *)
Report(keys, annotations, dims) ==
  [items |-> Cardinality(keys),
   reviewed |-> Cardinality(Reviewed(keys, annotations)),
   annotations |-> Cardinality(annotations),
   overlapping |-> Cardinality({key \in keys :
                     Cardinality(Annotated(annotations, key)) > 1}),
   variants |-> [v \in Variants(keys) |-> Summary(keys, annotations, dims, v)],
   comparisons |->
     [p \in {p \in Variants(keys) \X Variants(keys) \X Names(dims) : p[1] < p[2]} |->
        Compared(keys, annotations, p[1], p[2], p[3])],
   overlaps |->
     [p \in {p \in Reviewers(annotations) \X Reviewers(annotations) :
               p[1] < p[2] /\ Shared(annotations, p[1], p[2]) # {}} |->
        Overlap(annotations, dims, p[1], p[2])]]
=============================================================================
