----------------------------- MODULE Comparison -----------------------------
(***************************************************************************)
(* pkg/compare: the strict pairing of incumbent and candidate cells, and   *)
(* the aggregates the gate and the report read, as operators.              *)
(*                                                                         *)
(* Metric values are integers and a mean is kept as its sum and its count, *)
(* so no rounding and no overflow of floats.  Of the costs the tokens are  *)
(* kept, whose arithmetic is the others' and more.  Left out are the       *)
(* counts of wins and losses, of abstentions, and those of the incumbent.  *)
(***************************************************************************)
EXTENDS FixedWidth, Sequences, FiniteSets, FiniteSetsExt

CONSTANTS
  Suite,     \* the cases, in the order of the suite
  GroupsOf,  \* the groups of each case
  Repeats,   \* how often each case is run
  Metrics    \* names an outcome may measure

Cases == {Suite[i] : i \in DOMAIN Suite}

ASSUME ComparisonAssumption ==
  /\ Suite \in Seq(Cases) /\ Suite # <<>>
  /\ \A i, j \in DOMAIN Suite : Suite[i] = Suite[j] => i = j
  /\ Repeats \in Nat \ {0}
  /\ \A i \in DOMAIN Suite : "all" \notin GroupsOf[Suite[i]]

Keys == Cases \X (0 .. Repeats - 1)

(* An outcome: whether the arm completed (if not, validateOutcome wants a   *)
(* failure, and only then), whether it kept the contract, the tokens it    *)
(* read and wrote, and the metrics it measured, a function on some of      *)
(* Metrics.                                                                *)
OutcomeOK(outcome) ==
  /\ {outcome.completed, outcome.contractValid} \subseteq BOOLEAN
  /\ outcome.contractValid => outcome.completed
  /\ outcome.tokens \in (0 .. MaxInt) \X (0 .. MaxInt)
  /\ DOMAIN outcome.metrics \subseteq Metrics
  /\ \A m \in DOMAIN outcome.metrics : outcome.metrics[m] \in Int
Failed(outcome) == ~ outcome.completed
Measured(outcome, metric) == metric \in DOMAIN outcome.metrics

(* The groups a pair counts in, "all" first. *)
GroupNames == {"all"} \cup UNION {GroupsOf[c] : c \in Cases}
KeysIn(group) == {k \in Keys : group = "all" \/ group \in GroupsOf[k[1]]}

-----------------------------------------------------------------------------
(* Build.  "cells" maps the coordinates of a run's cells to their outcomes. *)

Paired(cells) ==
  {k \in Keys : {<<k, "incumbent">>, <<k, "challenger">>} \subseteq DOMAIN cells}

MissingPair(cells, k) ==
  [incumbent |-> <<k, "incumbent">> \notin DOMAIN cells,
   candidate |-> <<k, "challenger">> \notin DOMAIN cells]

(* The tokens of a pair; an overflow of either step is one of the whole. *)
TokenDelta(candidate, incumbent) ==
  LET c == CheckedAdd(candidate.tokens[1], candidate.tokens[2])
      i == CheckedAdd(incumbent.tokens[1], incumbent.tokens[2])
  IN  IF Overflow \in {c, i} THEN Overflow ELSE CheckedSub(c, i)

(* buildPair: a delta for each metric both sides measured, none otherwise. *)
Pair(cells, k) ==
  LET incumbent == cells[<<k, "incumbent">>]
      candidate == cells[<<k, "challenger">>]
  IN  [incumbent |-> incumbent,
       candidate |-> candidate,
       tokens |-> TokenDelta(candidate, incumbent),
       deltas |-> [m \in DOMAIN incumbent.metrics \cap DOMAIN candidate.metrics |->
                     candidate.metrics[m] - incumbent.metrics[m]]]

(* The pairs come case by case and repeat by repeat. *)
KeyOrder ==
  [j \in 1 .. Len(Suite) * Repeats |->
     <<Suite[(j - 1) \div Repeats + 1], (j - 1) % Repeats>>]

(* The sum is taken pair by pair, and overflows when it does on the way.   *)
SumOfTokens(pairs, keys) ==
  LET add(sum, k) == IF Overflow \in {sum, pairs[k].tokens} THEN Overflow
                     ELSE CheckedAdd(sum, pairs[k].tokens)
      upto[j \in 0 .. Len(KeyOrder)] ==
        IF j = 0 THEN 0
        ELSE IF KeyOrder[j] \in keys THEN add(upto[j - 1], KeyOrder[j])
        ELSE upto[j - 1]
  IN  upto[Len(KeyOrder)]

GroupAggregate(pairs, group) ==
  LET complete == KeysIn(group) \cap DOMAIN pairs
  IN  [expected |-> Cardinality(KeysIn(group)),
       complete |-> Cardinality(complete),
       completed |-> Cardinality({k \in complete : pairs[k].candidate.completed}),
       contractValid |-> Cardinality({k \in complete : pairs[k].candidate.contractValid}),
       failures |-> Cardinality({k \in complete : Failed(pairs[k].candidate)}),
       tokens |-> SumOfTokens(pairs, complete)]

(* The pairs of a group that have a delta of a metric. *)
WithMetric(pairs, group, metric) ==
  {k \in KeysIn(group) \cap DOMAIN pairs : metric \in DOMAIN pairs[k].deltas}

SumOfDeltas(pairs, keys, metric) ==
  MapThenSumSet(LAMBDA k : pairs[k].deltas[metric], keys)

(* Mutant: what was not measured is expected by nobody. *)
MetricAggregateOfPresent(pairs, group, metric) ==
  LET present == WithMetric(pairs, group, metric)
  IN  [expected |-> Cardinality(present),
       present |-> Cardinality(present),
       sum |-> SumOfDeltas(pairs, present, metric)]

MetricAggregate(pairs, group, metric) ==
  LET present == WithMetric(pairs, group, metric)
  IN  [expected |-> Cardinality(KeysIn(group)),
       present |-> Cardinality(present),
       sum |-> SumOfDeltas(pairs, present, metric)]

(* Build reports nothing when the tokens of a pair or a group overflow.    *)
Overflows(report) == \E g \in DOMAIN report.groups : report.groups[g].tokens = Overflow

(* A metric has an aggregate in a group only if some pair measured it. *)
Build(state, cells) ==
  LET pairs == [k \in Paired(cells) |-> Pair(cells, k)]
      measured == {gm \in GroupNames \X Metrics : WithMetric(pairs, gm[1], gm[2]) # {}}
  IN  [state |-> state,
       expected |-> Cardinality(Keys),
       complete |-> Cardinality(Paired(cells)),
       pairs |-> pairs,
       missing |-> [k \in Keys \ Paired(cells) |-> MissingPair(cells, k)],
       groups |-> [g \in GroupNames |-> GroupAggregate(pairs, g)],
       metrics |-> [gm \in measured |-> MetricAggregate(pairs, gm[1], gm[2])]]
=============================================================================
