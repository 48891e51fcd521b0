-------------------------------- MODULE Gate --------------------------------
(***************************************************************************)
(* pkg/gate: the decision of a policy over a comparison, as operators.     *)
(*                                                                         *)
(* A policy's maps (metric floors, regression limits) are functions on the *)
(* names they mention; the failure rate is a fraction <<n, d>>.  A mean is *)
(* compared with its limit by the sum it comes from.  Left out are the tie *)
(* breakers, which always pass, the wording of checks, and the identity    *)
(* check policy_bytes: the report command takes the policy from the run.   *)
(***************************************************************************)
EXTENDS Comparison

(* policy.Validate: the failure rate is a share, every limit a finite number. *)
PolicyOK(policy) ==
  LET rate == policy.hard.maxFailureRate
      limits == {policy.hard.floors, policy.regressions.caseDelta,
                 policy.regressions.meanDelta}
  IN  /\ rate[2] \in Nat \ {0} /\ rate[1] \in 0 .. rate[2]
      /\ policy.target.minimumMeanDelta \in Int
      /\ \A limit \in limits : \A about \in DOMAIN limit : limit[about] \in Int
      /\ \A gm \in DOMAIN policy.regressions.meanDelta : gm = <<gm[1], gm[2]>>

(* "about" is what tells checks of one name apart: a metric, or a group and *)
(* a metric.                                                               *)
Check(phase, name, about, passed) ==
  [phase |-> phase, name |-> name, about |-> about, passed |-> passed]

MeanAtLeast(sum, count, limit) == sum >= limit * count

-----------------------------------------------------------------------------
(* The phases *)

(* Mutant: paired cells are enough, whatever the state of the run. *)
IdentityChecksOfPairs(report) ==
  {Check("identity", "complete_pairing", <<>>,
         report.complete = report.expected /\ DOMAIN report.missing = {})}

IdentityChecks(report) ==
  {Check("identity", "run_complete", <<>>, report.state = "complete"),
   Check("identity", "complete_pairing", <<>>,
         report.complete = report.expected /\ DOMAIN report.missing = {})}

(* candidateMetricFloor *)
AboveFloor(report, metric, floor) ==
  /\ DOMAIN report.pairs # {}
  /\ \A k \in DOMAIN report.pairs :
       /\ Measured(report.pairs[k].candidate, metric)
       /\ report.pairs[k].candidate.metrics[metric] >= floor

HardChecks(policy, report) ==
  LET hard == policy.hard
      all == report.groups["all"]
      required ==
        {c \in {Check("hard", "require_all_cells", <<>>, report.complete = report.expected),
                Check("hard", "require_completed", <<>>, all.completed = all.expected),
                Check("hard", "require_contract_valid", <<>>, all.contractValid = all.expected)} :
           c.name \in hard.require}
  IN  required
      \cup {Check("hard", "max_failure_rate", <<>>,
              all.failures * hard.maxFailureRate[2] <= hard.maxFailureRate[1] * all.expected)}
      \cup {Check("hard", "metric_floor", <<m>>, AboveFloor(report, m, hard.floors[m])) :
              m \in DOMAIN hard.floors}

(* containsGroup: no group, or the group "all", selects every pair. *)
Selected(target, report) ==
  {k \in DOMAIN report.pairs :
     target.groups = {} \/ "all" \in target.groups \/ GroupsOf[k[1]] \cap target.groups # {}}

(* Mutant: the mean is taken over the pairs that have the metric. *)
TargetChecksOfPresent(policy, report) ==
  LET target == policy.target
      selected == Selected(target, report)
      present == {k \in selected : target.metric \in DOMAIN report.pairs[k].deltas}
  IN  {Check("target", "minimum_mean_delta", <<>>,
         present # {} /\ MeanAtLeast(SumOfDeltas(report.pairs, present, target.metric),
                                     Cardinality(present), target.minimumMeanDelta))}

TargetChecks(policy, report) ==
  LET target == policy.target
      selected == Selected(target, report)
      present == {k \in selected : target.metric \in DOMAIN report.pairs[k].deltas}
      complete == selected # {} /\ present = selected
      total(keys) == SumOfDeltas(report.pairs, keys, target.metric)
      inRepeat(r) == {k \in present : k[2] = r}
  IN  {Check("target", "metric_presence", <<>>, complete),
       Check("target", "minimum_mean_delta", <<>>,
         complete /\ MeanAtLeast(total(present), Cardinality(present),
                                 target.minimumMeanDelta))}
      \cup {c \in {Check("target", "positive_each_repeat", <<>>,
                     complete /\ \A k \in present : total(inRepeat(k[2])) > 0)} :
              target.positiveEachRepeat}

(* Mutant: maximum_case_delta is read as an upper limit. *)
RegressionChecksFromAbove(policy, report) ==
  {Check("regression", "maximum_case_delta", <<m>>,
     \A k \in DOMAIN report.pairs :
       /\ m \in DOMAIN report.pairs[k].deltas
       /\ report.pairs[k].deltas[m] <= policy.regressions.caseDelta[m]) :
     m \in DOMAIN policy.regressions.caseDelta}

(* A limit on case deltas wants the metric in every expected pair, one on  *)
(* mean deltas in every expected pair of its group.                        *)
RegressionChecks(policy, report) ==
  LET regressions == policy.regressions
      within(metric, limit) ==
        \A k \in DOMAIN report.pairs : /\ metric \in DOMAIN report.pairs[k].deltas
                                       /\ report.pairs[k].deltas[metric] >= limit
      meanWithin(gm, limit) ==
        /\ gm \in DOMAIN report.metrics
        /\ report.metrics[gm].present = report.metrics[gm].expected
        /\ MeanAtLeast(report.metrics[gm].sum, report.metrics[gm].present, limit)
  IN  {Check("regression", "maximum_case_delta", <<m>>,
         /\ Cardinality(DOMAIN report.pairs) = report.expected
         /\ within(m, regressions.caseDelta[m])) : m \in DOMAIN regressions.caseDelta}
      \cup
      {Check("regression", "maximum_mean_delta", gm,
         meanWithin(gm, regressions.meanDelta[gm])) : gm \in DOMAIN regressions.meanDelta}

-----------------------------------------------------------------------------
(* Evaluate: a phase with a failing check is the last one. *)

Failing(checks) == \E c \in checks : ~ c.passed

Evaluate(policy, report) ==
  LET phases == <<IdentityChecks(report), HardChecks(policy, report),
                  TargetChecks(policy, report), RegressionChecks(policy, report)>>
      reached == {p \in DOMAIN phases : \A q \in 1 .. p - 1 : ~ Failing(phases[q])}
      checks == UNION {phases[p] : p \in reached}
  IN  [status |-> IF Failing(checks) THEN "fail" ELSE "pass", checks |-> checks]
=============================================================================
