------------------------------ MODULE GateProofs ------------------------------
(***************************************************************************)
(* Proofs about Gate and Comparison, as operators: for every suite, every  *)
(* policy, and every set of cells, whole or not.                           *)
(*                                                                         *)
(* The sums of Build and of the gate are those of FiniteSumProofs, which   *)
(* are monotone and a matter of the values alone.  So each phase can be    *)
(* said in terms of the cells, as a demand, and the demands of worse       *)
(* evidence are compared with those of better.                             *)
(***************************************************************************)
EXTENDS Gate, FiniteSumProofs

-----------------------------------------------------------------------------
(* What a phase fails for *)

(* The fields of a check. *)
LEMMA CheckPassed ==
  ASSUME NEW phase, NEW name, NEW about, NEW P \in BOOLEAN
  PROVE  /\ Check(phase, name, about, P).passed <=> P
         /\ Check(phase, name, about, P).name = name
BY DEF Check

(* The identity phase fails unless the run is complete and fully paired. *)
LEMMA IdentityFails ==
  ASSUME NEW report
  PROVE  Failing(IdentityChecks(report)) <=>
           ~ (/\ report.state = "complete"
              /\ report.complete = report.expected /\ DOMAIN report.missing = {})
<1> DEFINE run == Check("identity", "run_complete", <<>>, report.state = "complete")
           paired == report.complete = report.expected /\ DOMAIN report.missing = {}
           pairing == Check("identity", "complete_pairing", <<>>, paired)
<1>1. run.passed <=> report.state = "complete"
  BY DEF Check
<1>2. pairing.passed <=> paired
  BY DEF Check
<1>3. IdentityChecks(report) = {run, pairing}
  BY DEF IdentityChecks
<1> HIDE DEF run, pairing
<1>4. Failing(IdentityChecks(report)) <=> ~ run.passed \/ ~ pairing.passed
  BY <1>3 DEF Failing
<1>5. QED
  BY <1>1, <1>2, <1>4

(* What the hard checks ask. *)
Hard(hard, report) ==
  LET all == report.groups["all"]
  IN  /\ "require_all_cells" \in hard.require => report.complete = report.expected
      /\ "require_completed" \in hard.require => all.completed = all.expected
      /\ "require_contract_valid" \in hard.require => all.contractValid = all.expected
      /\ all.failures * hard.maxFailureRate[2] <= hard.maxFailureRate[1] * all.expected
      /\ \A m \in DOMAIN hard.floors : AboveFloor(report, m, hard.floors[m])

(* The hard phase fails unless what it asks holds. *)
LEMMA HardFails ==
  ASSUME NEW policy, NEW report
  PROVE  Failing(HardChecks(policy, report)) <=> ~ Hard(policy.hard, report)
<1> DEFINE hard == policy.hard
           all == report.groups["all"]
           paired == Check("hard", "require_all_cells", <<>>, report.complete = report.expected)
           completed == Check("hard", "require_completed", <<>>, all.completed = all.expected)
           valid == Check("hard", "require_contract_valid", <<>>,
                          all.contractValid = all.expected)
           rated == all.failures * hard.maxFailureRate[2]
                      <= hard.maxFailureRate[1] * all.expected
           rate == Check("hard", "max_failure_rate", <<>>, rated)
           floor(m) == Check("hard", "metric_floor", <<m>>, AboveFloor(report, m, hard.floors[m]))
<1>1. /\ paired.passed <=> report.complete = report.expected
      /\ paired.name = "require_all_cells"
  BY DEF Check
<1>2. /\ completed.passed <=> all.completed = all.expected
      /\ completed.name = "require_completed"
  BY DEF Check
<1>3. /\ valid.passed <=> all.contractValid = all.expected
      /\ valid.name = "require_contract_valid"
  BY DEF Check
<1>4. rate.passed <=> rated
  BY DEF Check
<1>5. \A m : floor(m).passed <=> AboveFloor(report, m, hard.floors[m])
  BY CheckPassed DEF AboveFloor
<1>6. HardChecks(policy, report) =
        {c \in {paired, completed, valid} : c.name \in hard.require}
          \cup {rate} \cup {floor(m) : m \in DOMAIN hard.floors}
  BY DEF HardChecks
<1> HIDE DEF paired, completed, valid, rate, floor
<1>7. Failing(HardChecks(policy, report)) <=>
        \/ paired.name \in hard.require /\ ~ paired.passed
        \/ completed.name \in hard.require /\ ~ completed.passed
        \/ valid.name \in hard.require /\ ~ valid.passed
        \/ ~ rate.passed
        \/ \E m \in DOMAIN hard.floors : ~ floor(m).passed
  BY <1>6 DEF Failing
<1>8. QED
  BY <1>1, <1>2, <1>3, <1>4, <1>5, <1>7 DEF Hard

(* What the target checks ask. *)
Target(target, report) ==
  LET selected == Selected(target, report)
      total(keys) == SumOfDeltas(report.pairs, keys, target.metric)
  IN  /\ selected # {}
      /\ \A k \in selected : target.metric \in DOMAIN report.pairs[k].deltas
      /\ MeanAtLeast(total(selected), Cardinality(selected), target.minimumMeanDelta)
      /\ target.positiveEachRepeat =>
           \A k \in selected : total({j \in selected : j[2] = k[2]}) > 0

(* The target phase fails unless what it asks holds. *)
LEMMA TargetFails ==
  ASSUME NEW policy, NEW report
  PROVE  Failing(TargetChecks(policy, report)) <=> ~ Target(policy.target, report)
<1> DEFINE target == policy.target
           selected == Selected(target, report)
           present == {k \in selected : target.metric \in DOMAIN report.pairs[k].deltas}
           complete == selected # {} /\ present = selected
           total(keys) == SumOfDeltas(report.pairs, keys, target.metric)
           mean(keys) == MeanAtLeast(total(keys), Cardinality(keys), target.minimumMeanDelta)
           each(keys) == \A k \in keys : total({j \in keys : j[2] = k[2]}) > 0
           presence == Check("target", "metric_presence", <<>>, complete)
           minimum == Check("target", "minimum_mean_delta", <<>>, complete /\ mean(present))
           positive == Check("target", "positive_each_repeat", <<>>,
                             complete /\ each(present))
<1>1. presence.passed <=> complete
  BY CheckPassed
<1>2. minimum.passed <=> complete /\ mean(present)
  BY CheckPassed
<1>3. positive.passed <=> complete /\ each(present)
  BY CheckPassed
<1>4. TargetChecks(policy, report) =
        {presence, minimum} \cup {c \in {positive} : target.positiveEachRepeat}
  BY DEF TargetChecks
<1> HIDE DEF presence, minimum, positive
<1>5. Failing(TargetChecks(policy, report)) <=>
        \/ ~ presence.passed \/ ~ minimum.passed
        \/ target.positiveEachRepeat /\ ~ positive.passed
  BY <1>4 DEF Failing
<1>6. Target(target, report) <=>
        /\ complete /\ mean(selected)
        /\ target.positiveEachRepeat => each(selected)
  <2>1. complete <=> /\ selected # {}
                     /\ \A k \in selected : target.metric \in DOMAIN report.pairs[k].deltas
    OBVIOUS
  <2> HIDE DEF complete
  <2>2. QED
    BY <2>1 DEF Target
<1> HIDE DEF mean, each, selected
<1>7. complete => present = selected
  OBVIOUS
<1> HIDE DEF complete, present
<1>8. QED
  BY <1>1, <1>2, <1>3, <1>5, <1>6, <1>7

(* What the regression checks ask. *)
NoRegression(regressions, report) ==
  /\ \A m \in DOMAIN regressions.caseDelta :
       /\ Cardinality(DOMAIN report.pairs) = report.expected
       /\ \A k \in DOMAIN report.pairs :
            /\ m \in DOMAIN report.pairs[k].deltas
            /\ report.pairs[k].deltas[m] >= regressions.caseDelta[m]
  /\ \A gm \in DOMAIN regressions.meanDelta :
       /\ gm \in DOMAIN report.metrics
       /\ report.metrics[gm].present = report.metrics[gm].expected
       /\ MeanAtLeast(report.metrics[gm].sum, report.metrics[gm].present,
                      regressions.meanDelta[gm])

(* The regression phase fails unless what it asks holds. *)
LEMMA RegressionFails ==
  ASSUME NEW policy, NEW report
  PROVE  Failing(RegressionChecks(policy, report)) <=>
           ~ NoRegression(policy.regressions, report)
<1> DEFINE regressions == policy.regressions
           case(m) ==
             /\ Cardinality(DOMAIN report.pairs) = report.expected
             /\ \A k \in DOMAIN report.pairs :
                  /\ m \in DOMAIN report.pairs[k].deltas
                  /\ report.pairs[k].deltas[m] >= regressions.caseDelta[m]
           mean(gm) ==
             /\ gm \in DOMAIN report.metrics
             /\ report.metrics[gm].present = report.metrics[gm].expected
             /\ MeanAtLeast(report.metrics[gm].sum, report.metrics[gm].present,
                            regressions.meanDelta[gm])
           ofCase(m) == Check("regression", "maximum_case_delta", <<m>>, case(m))
           ofMean(gm) == Check("regression", "maximum_mean_delta", gm, mean(gm))
<1>1. \A m : ofCase(m).passed <=> case(m)
  BY CheckPassed
<1>2. \A gm : ofMean(gm).passed <=> mean(gm)
  BY CheckPassed
<1>3. RegressionChecks(policy, report) =
        {ofCase(m) : m \in DOMAIN regressions.caseDelta}
          \cup {ofMean(gm) : gm \in DOMAIN regressions.meanDelta}
  BY DEF RegressionChecks
<1>4. NoRegression(regressions, report) <=>
        /\ \A m \in DOMAIN regressions.caseDelta : case(m)
        /\ \A gm \in DOMAIN regressions.meanDelta : mean(gm)
  BY DEF NoRegression
<1> HIDE DEF ofCase, ofMean, case, mean
<1>5. Failing(RegressionChecks(policy, report)) <=>
        \/ \E m \in DOMAIN regressions.caseDelta : ~ ofCase(m).passed
        \/ \E gm \in DOMAIN regressions.meanDelta : ~ ofMean(gm).passed
  BY <1>3 DEF Failing
<1>6. QED
  BY <1>1, <1>2, <1>4, <1>5

(* A decision is pass exactly when no phase fails: a phase that is not     *)
(* reached comes after one that failed.                                    *)
LEMMA PassOfReport ==
  ASSUME NEW policy, NEW report
  PROVE  Evaluate(policy, report).status = "pass" <=>
           /\ report.state = "complete"
           /\ report.complete = report.expected /\ DOMAIN report.missing = {}
           /\ Hard(policy.hard, report)
           /\ Target(policy.target, report)
           /\ NoRegression(policy.regressions, report)
<1> DEFINE phases == <<IdentityChecks(report), HardChecks(policy, report),
                       TargetChecks(policy, report), RegressionChecks(policy, report)>>
           reached == {p \in DOMAIN phases : \A q \in 1 .. p - 1 : ~ Failing(phases[q])}
           checks == UNION {phases[p] : p \in reached}
<1>1. Evaluate(policy, report) = [status |-> IF Failing(checks) THEN "fail" ELSE "pass",
                                  checks |-> checks]
  BY DEF Evaluate
<1>2. DOMAIN phases = 1 .. 4
  OBVIOUS
<1>3. /\ phases[1] = IdentityChecks(report) /\ phases[2] = HardChecks(policy, report)
      /\ phases[3] = TargetChecks(policy, report) /\ phases[4] = RegressionChecks(policy, report)
  OBVIOUS
<1> HIDE DEF phases
<1>4. Failing(checks) <=> \E p \in reached : Failing(phases[p])
  BY DEF Failing
<1> HIDE DEF checks
<1>5. (\E p \in reached : Failing(phases[p])) <=> \E p \in 1 .. 4 : Failing(phases[p])
  <2>1. SUFFICES ASSUME \E p \in 1 .. 4 : Failing(phases[p])
                 PROVE  \E p \in 1 .. 4 : /\ Failing(phases[p])
                                          /\ \A q \in 1 .. p - 1 : ~ Failing(phases[q])
    BY <1>2
  <2>2. CASE Failing(phases[1])
    <3>1. \A q \in 1 .. 1 - 1 : ~ Failing(phases[q])
      OBVIOUS
    <3>2. QED
      BY <2>2, <3>1
  <2>3. CASE ~ Failing(phases[1]) /\ Failing(phases[2])
    <3>1. \A q \in 1 .. 2 - 1 : q = 1
      OBVIOUS
    <3>2. QED
      BY <2>3, <3>1
  <2>4. CASE ~ Failing(phases[1]) /\ ~ Failing(phases[2]) /\ Failing(phases[3])
    <3>1. \A q \in 1 .. 3 - 1 : q = 1 \/ q = 2
      OBVIOUS
    <3>2. QED
      BY <2>4, <3>1
  <2>5. CASE ~ Failing(phases[1]) /\ ~ Failing(phases[2]) /\ ~ Failing(phases[3])
               /\ Failing(phases[4])
    <3>1. \A q \in 1 .. 4 - 1 : q = 1 \/ q = 2 \/ q = 3
      OBVIOUS
    <3>2. QED
      BY <2>5, <3>1
  <2>6. \A p \in 1 .. 4 : p = 1 \/ p = 2 \/ p = 3 \/ p = 4
    OBVIOUS
  <2>7. QED
    BY <2>1, <2>2, <2>3, <2>4, <2>5, <2>6
<1>6. (\E p \in 1 .. 4 : Failing(phases[p])) <=>
        \/ Failing(phases[1]) \/ Failing(phases[2]) \/ Failing(phases[3]) \/ Failing(phases[4])
  <2>1. \A p \in 1 .. 4 : p = 1 \/ p = 2 \/ p = 3 \/ p = 4
    OBVIOUS
  <2>2. QED
    BY <2>1
<1> HIDE DEF reached
<1>7. Evaluate(policy, report).status = "pass" <=> ~ Failing(checks)
  BY <1>1
<1>8. QED
  BY <1>3, <1>4, <1>5, <1>6, <1>7, IdentityFails, HardFails, TargetFails, RegressionFails

-----------------------------------------------------------------------------
(* What a policy demands of the cells of a fully paired run *)

Incumbent(cells, k) == cells[<<k, "incumbent">>]
Challenger(cells, k) == cells[<<k, "challenger">>]
MeasuredInBoth(cells, k, metric) ==
  Measured(Incumbent(cells, k), metric) /\ Measured(Challenger(cells, k), metric)
Delta(cells, k, metric) ==
  Challenger(cells, k).metrics[metric] - Incumbent(cells, k).metrics[metric]
TotalDelta(cells, keys, metric) == SumOver([k \in keys |-> Delta(cells, k, metric)], keys)

Targeted(target) ==
  {k \in Keys :
     target.groups = {} \/ "all" \in target.groups \/ GroupsOf[k[1]] \cap target.groups # {}}

MeanDemand(cells, keys, metric, limit) ==
  /\ \A k \in keys : MeasuredInBoth(cells, k, metric)
  /\ TotalDelta(cells, keys, metric) >= limit * Cardinality(keys)

HardDemand(cells, hard) ==
  /\ "require_completed" \in hard.require => \A k \in Keys : Challenger(cells, k).completed
  /\ "require_contract_valid" \in hard.require =>
       \A k \in Keys : Challenger(cells, k).contractValid
  /\ Cardinality({k \in Keys : Failed(Challenger(cells, k))}) * hard.maxFailureRate[2]
       <= hard.maxFailureRate[1] * Cardinality(Keys)
  /\ \A m \in DOMAIN hard.floors : \A k \in Keys :
       /\ Measured(Challenger(cells, k), m)
       /\ Challenger(cells, k).metrics[m] >= hard.floors[m]

TargetDemand(cells, target) ==
  /\ Targeted(target) # {}
  /\ MeanDemand(cells, Targeted(target), target.metric, target.minimumMeanDelta)
  /\ target.positiveEachRepeat =>
       \A k \in Targeted(target) :
         TotalDelta(cells, {j \in Targeted(target) : j[2] = k[2]}, target.metric) > 0

RegressionDemand(cells, regressions) ==
  /\ \A m \in DOMAIN regressions.caseDelta : \A k \in Keys :
       MeasuredInBoth(cells, k, m) /\ Delta(cells, k, m) >= regressions.caseDelta[m]
  /\ \A gm \in DOMAIN regressions.meanDelta :
       /\ gm[1] \in GroupNames
       /\ MeanDemand(cells, KeysIn(gm[1]), gm[2], regressions.meanDelta[gm])

Demands(policy, cells) ==
  /\ HardDemand(cells, policy.hard)
  /\ TargetDemand(cells, policy.target)
  /\ RegressionDemand(cells, policy.regressions)

CellsOK(cells) == \A c \in DOMAIN cells : OutcomeOK(cells[c])

-----------------------------------------------------------------------------
(* What Build reports of them *)

(* The keys are finitely many, and every known group has one. *)
LEMMA KeysAreFinite ==
  /\ IsFiniteSet(Keys) /\ Keys # {}
  /\ \A g : KeysIn(g) \subseteq Keys
  /\ \A g \in GroupNames : KeysIn(g) # {}
  /\ KeysIn("all") = Keys /\ "all" \in GroupNames
  /\ \A keys \in SUBSET Keys : IsFiniteSet(keys) /\ Cardinality(keys) \in Nat
<1>1. Suite \in Seq(Cases) /\ Suite # <<>> /\ Repeats \in Nat \ {0}
  BY ComparisonAssumption
<1>2. Len(Suite) \in Nat \ {0} /\ DOMAIN Suite = 1 .. Len(Suite)
  BY <1>1
<1>3. Suite \in [1 .. Len(Suite) -> Cases] /\ \A c \in Cases : \E i \in 1 .. Len(Suite) : Suite[i] = c
  BY <1>1, <1>2 DEF Cases
<1>4. Suite \in Surjection(1 .. Len(Suite), Cases)
  BY <1>3 DEF Surjection
<1>5. IsFiniteSet(1 .. Len(Suite)) /\ IsFiniteSet(0 .. Repeats - 1)
  BY <1>1, <1>2, FS_Interval
<1>6. IsFiniteSet(Cases)
  BY <1>4, <1>5, FS_Surjection
<1>7. IsFiniteSet(Keys)
  BY <1>5, <1>6, FS_Product DEF Keys
<1>8. Suite[1] \in Cases /\ 0 \in 0 .. Repeats - 1
  BY <1>1, <1>2 DEF Cases
<1>9. \A c \in Cases : <<c, 0>> \in Keys
  BY <1>8 DEF Keys
<1>10. \A g \in GroupNames : KeysIn(g) # {}
  <2>1. TAKE g \in GroupNames
  <2>2. PICK c \in Cases : g = "all" \/ g \in GroupsOf[c]
    BY <1>8 DEF GroupNames
  <2>3. <<c, 0>> \in KeysIn(g)
    BY <1>9, <2>2 DEF KeysIn
  <2>4. QED
    BY <2>3
<1>11. QED
  BY <1>7, <1>8, <1>9, <1>10, FS_Subset, FS_CardinalityType DEF KeysIn, GroupNames

(* The fields of a comparison. *)
Pairs(cells) == [k \in Paired(cells) |-> Pair(cells, k)]

MeasuredIn(cells) ==
  {gm \in GroupNames \X Metrics : WithMetric(Pairs(cells), gm[1], gm[2]) # {}}

(* The pairs of a comparison are the paired keys. *)
LEMMA PairsDomain ==
  ASSUME NEW cells
  PROVE  DOMAIN Pairs(cells) = Paired(cells)
BY DEF Pairs

(* The fields of a comparison, one by one. *)
LEMMA ReportFields ==
  ASSUME NEW state, NEW cells
  PROVE  /\ Build(state, cells).state = state
         /\ Build(state, cells).expected = Cardinality(Keys)
         /\ Build(state, cells).complete = Cardinality(Paired(cells))
         /\ Build(state, cells).pairs = Pairs(cells)
         /\ DOMAIN Build(state, cells).missing = Keys \ Paired(cells)
         /\ DOMAIN Build(state, cells).groups = GroupNames
         /\ \A g \in GroupNames :
              Build(state, cells).groups[g] = GroupAggregate(Pairs(cells), g)
         /\ DOMAIN Build(state, cells).metrics = MeasuredIn(cells)
         /\ \A gm \in MeasuredIn(cells) :
              Build(state, cells).metrics[gm] = MetricAggregate(Pairs(cells), gm[1], gm[2])
BY DEF Build, Pairs, MeasuredIn

(* What the identity phase reads says that all keys are paired. *)
LEMMA IdentityOfCells ==
  ASSUME NEW state, NEW cells
  PROVE  LET report == Build(state, cells)
         IN  (/\ report.state = "complete"
              /\ report.complete = report.expected /\ DOMAIN report.missing = {})
               <=> state = "complete" /\ Paired(cells) = Keys
<1>1. Paired(cells) \subseteq Keys
  BY DEF Paired
<1>2. Keys \ Paired(cells) = {} <=> Paired(cells) = Keys
  BY <1>1
<1> DEFINE report == Build(state, cells)
<1>3. /\ report.state = state /\ report.expected = Cardinality(Keys)
      /\ report.complete = Cardinality(Paired(cells))
      /\ DOMAIN report.missing = Keys \ Paired(cells)
  BY ReportFields
<1> HIDE DEF report
<1>4. /\ report.state = "complete" <=> state = "complete"
      /\ DOMAIN report.missing = {} <=> Paired(cells) = Keys
      /\ Paired(cells) = Keys => report.complete = report.expected
  BY <1>2, <1>3
<1>5. QED
  BY <1>4 DEF report

(* A pair has a delta of the metrics that both of its sides measured. *)
LEMMA PairFields ==
  ASSUME NEW cells, NEW k \in Paired(cells)
  PROVE  /\ Pairs(cells)[k].candidate = Challenger(cells, k)
         /\ DOMAIN Pairs(cells)[k].deltas =
              DOMAIN Incumbent(cells, k).metrics \cap DOMAIN Challenger(cells, k).metrics
         /\ \A m : /\ m \in DOMAIN Pairs(cells)[k].deltas <=> MeasuredInBoth(cells, k, m)
                   /\ MeasuredInBoth(cells, k, m) =>
                        Pairs(cells)[k].deltas[m] = Delta(cells, k, m)
<1>1. Pairs(cells)[k] = Pair(cells, k)
  BY DEF Pairs
<1>2. /\ Pair(cells, k).candidate = Challenger(cells, k)
      /\ Pair(cells, k).deltas =
           [m \in DOMAIN Incumbent(cells, k).metrics \cap DOMAIN Challenger(cells, k).metrics |->
              Delta(cells, k, m)]
  BY DEF Pair, Incumbent, Challenger, Delta
<1>3. QED
  BY <1>1, <1>2 DEF MeasuredInBoth, Measured

(* The cells of a pair are outcomes, and their deltas are integers. *)
LEMMA CellsOfPair ==
  ASSUME NEW cells, CellsOK(cells), NEW k \in Paired(cells)
  PROVE  /\ OutcomeOK(Incumbent(cells, k)) /\ OutcomeOK(Challenger(cells, k))
         /\ \A m : MeasuredInBoth(cells, k, m) => m \in Metrics /\ Delta(cells, k, m) \in Int
<1>1. <<k, "incumbent">> \in DOMAIN cells /\ <<k, "challenger">> \in DOMAIN cells
  BY DEF Paired
<1>2. OutcomeOK(Incumbent(cells, k)) /\ OutcomeOK(Challenger(cells, k))
  BY <1>1 DEF CellsOK, Incumbent, Challenger
<1>3. QED
  BY <1>2 DEF OutcomeOK, MeasuredInBoth, Measured, Delta

(* The sums of Build and of the gate. *)
LEMMA SumOfDeltasIs ==
  ASSUME NEW pairs, NEW keys, IsFiniteSet(keys), NEW metric
  PROVE  SumOfDeltas(pairs, keys, metric) =
           SumOver([k \in keys |-> pairs[k].deltas[metric]], keys)
<1> DEFINE f == [k \in keys |-> pairs[k].deltas[metric]]
           summed(sum) == sum = [s \in SUBSET keys |->
                                   IF s = {} THEN 0
                                   ELSE pairs[Pick(s)].deltas[metric] + sum[s \ {Pick(s)}]]
<1>1. SumOfDeltas(pairs, keys, metric) = (CHOOSE sum : summed(sum))[keys]
  BY DEF SumOfDeltas, MapThenSumSet, MapThenFoldSet, Pick
<1>2. \A sum : summed(sum) <=> AddsUp(sum, f, keys)
  <2>1. TAKE sum
  <2>2. \A s \in SUBSET keys : s # {} => f[Pick(s)] = pairs[Pick(s)].deltas[metric]
    BY PickInSet
  <2> HIDE DEF f
  <2>3. QED
    BY <2>2 DEF AddsUp
<1> HIDE DEF summed, f
<1>3. summed(CHOOSE sum : summed(sum))
  BY <1>2, SumExists
<1>4. AddsUp(CHOOSE sum : summed(sum), f, keys)
  BY <1>2, <1>3
<1>5. (CHOOSE sum : summed(sum))[keys] = SumOver(f, keys)
  BY <1>4, SumFound
<1>6. QED
  BY <1>1, <1>5 DEF f

(* The sum over pairs is one over the cells. *)
LEMMA SumOfPairs ==
  ASSUME NEW cells, CellsOK(cells), NEW keys \in SUBSET Paired(cells), NEW metric,
         \A k \in keys : MeasuredInBoth(cells, k, metric)
  PROVE  SumOfDeltas(Pairs(cells), keys, metric) = TotalDelta(cells, keys, metric)
<1>1. keys \in SUBSET Keys
  BY DEF Paired
<1>2. IsFiniteSet(keys)
  BY <1>1, KeysAreFinite
<1> DEFINE f == [k \in keys |-> Pairs(cells)[k].deltas[metric]]
           g == [k \in keys |-> Delta(cells, k, metric)]
<1>3. \A k \in keys : f[k] \in Int /\ g[k] = f[k]
  BY PairFields, CellsOfPair
<1>4. SumOfDeltas(Pairs(cells), keys, metric) = SumOver(f, keys)
  BY <1>2, SumOfDeltasIs
<1> HIDE DEF f, g
<1>5. SumOver(f, keys) = SumOver(g, keys)
  BY <1>2, <1>3, SumIsOfValues
<1>6. QED
  BY <1>4, <1>5 DEF g, TotalDelta

-----------------------------------------------------------------------------
(* Each phase asks of the comparison what it demands of the cells. *)

(* The hard phase asks of a full comparison what it demands of its cells. *)
LEMMA HardOfCells ==
  ASSUME NEW policy, PolicyOK(policy), NEW state, NEW cells, CellsOK(cells),
         Paired(cells) = Keys
  PROVE  Hard(policy.hard, Build(state, cells)) <=> HardDemand(cells, policy.hard)
<1> DEFINE report == Build(state, cells)
           hard == policy.hard
           all == report.groups["all"]
           good(P) == {k \in Keys : P[k]}
           completed == {k \in Keys : Challenger(cells, k).completed}
           valid == {k \in Keys : Challenger(cells, k).contractValid}
           failures == {k \in Keys : Failed(Challenger(cells, k))}
<1>1. /\ report.complete = report.expected
      /\ report.pairs = Pairs(cells) /\ DOMAIN Pairs(cells) = Keys
      /\ all = GroupAggregate(Pairs(cells), "all")
  BY ReportFields, KeysAreFinite, PairsDomain
<1>2. KeysIn("all") \cap DOMAIN Pairs(cells) = Keys /\ KeysIn("all") = Keys
  BY <1>1, KeysAreFinite
<1>3. \A k \in Keys : Pairs(cells)[k].candidate = Challenger(cells, k)
  BY PairFields
<1>4. /\ all.expected = Cardinality(Keys)
      /\ all.completed = Cardinality({k \in Keys : Pairs(cells)[k].candidate.completed})
      /\ all.contractValid = Cardinality({k \in Keys : Pairs(cells)[k].candidate.contractValid})
      /\ all.failures = Cardinality({k \in Keys : Failed(Pairs(cells)[k].candidate)})
  <2> DEFINE complete == KeysIn("all") \cap DOMAIN Pairs(cells)
  <2>1. /\ all.expected = Cardinality(KeysIn("all"))
        /\ all.completed = Cardinality({k \in complete : Pairs(cells)[k].candidate.completed})
        /\ all.contractValid =
             Cardinality({k \in complete : Pairs(cells)[k].candidate.contractValid})
        /\ all.failures = Cardinality({k \in complete : Failed(Pairs(cells)[k].candidate)})
    <3> HIDE DEF report
    <3>1. QED
      BY <1>1 DEF GroupAggregate
  <2>2. complete = Keys
    BY <1>2
  <2> HIDE DEF complete
  <2>3. QED
    BY <1>2, <2>1, <2>2
<1>5. /\ {k \in Keys : Pairs(cells)[k].candidate.completed} = completed
      /\ {k \in Keys : Pairs(cells)[k].candidate.contractValid} = valid
      /\ {k \in Keys : Failed(Pairs(cells)[k].candidate)} = failures
  BY <1>3
<1>6. ASSUME NEW some \in SUBSET Keys
      PROVE  Cardinality(some) = Cardinality(Keys) <=> some = Keys
  BY KeysAreFinite, FS_Subset
<1>7. completed = Keys <=> \A k \in Keys : Challenger(cells, k).completed
  OBVIOUS
<1>8. valid = Keys <=> \A k \in Keys : Challenger(cells, k).contractValid
  OBVIOUS
<1>9. /\ all.completed = all.expected <=> completed = Keys
      /\ all.contractValid = all.expected <=> valid = Keys
      /\ all.failures = Cardinality(failures)
  BY <1>4, <1>5, <1>6
<1>10. \A m \in DOMAIN hard.floors :
         AboveFloor(report, m, hard.floors[m]) <=>
           \A k \in Keys : /\ Measured(Challenger(cells, k), m)
                           /\ Challenger(cells, k).metrics[m] >= hard.floors[m]
  BY <1>1, <1>3, KeysAreFinite DEF AboveFloor
<1> HIDE DEF report, completed, valid, failures
<1>11. Hard(hard, report) <=> HardDemand(cells, hard)
  BY <1>1, <1>4, <1>7, <1>8, <1>9, <1>10 DEF Hard, HardDemand, failures
<1>12. QED
  BY <1>11 DEF report

(* So does the target phase. *)
LEMMA TargetOfCells ==
  ASSUME NEW policy, PolicyOK(policy), NEW state, NEW cells, CellsOK(cells),
         Paired(cells) = Keys
  PROVE  Target(policy.target, Build(state, cells)) <=> TargetDemand(cells, policy.target)
<1> DEFINE report == Build(state, cells)
           target == policy.target
           selected == Selected(target, report)
           metric == target.metric
           each(k) == {j \in Targeted(target) : j[2] = k[2]}
<1>1. report.pairs = Pairs(cells) /\ DOMAIN Pairs(cells) = Keys
  BY ReportFields, PairsDomain
<1>2. selected = Targeted(target) /\ selected \subseteq Keys
  BY <1>1 DEF Selected, Targeted
<1>3. \A k \in Keys : metric \in DOMAIN Pairs(cells)[k].deltas
                         <=> MeasuredInBoth(cells, k, metric)
  BY PairFields
<1>4. ASSUME NEW keys \in SUBSET Targeted(target),
             \A k \in Targeted(target) : MeasuredInBoth(cells, k, metric)
      PROVE  SumOfDeltas(Pairs(cells), keys, metric) = TotalDelta(cells, keys, metric)
  BY <1>2, <1>4, SumOfPairs
<1>5. \A k : each(k) \in SUBSET Targeted(target)
  OBVIOUS
<1>6. MeanAtLeast(SumOfDeltas(Pairs(cells), Targeted(target), metric),
                  Cardinality(Targeted(target)), target.minimumMeanDelta)
        <=> SumOfDeltas(Pairs(cells), Targeted(target), metric)
              >= target.minimumMeanDelta * Cardinality(Targeted(target))
  BY DEF MeanAtLeast
<1>7. Target(target, report) <=>
        /\ Targeted(target) # {}
        /\ \A k \in Targeted(target) : MeasuredInBoth(cells, k, metric)
        /\ SumOfDeltas(Pairs(cells), Targeted(target), metric)
              >= target.minimumMeanDelta * Cardinality(Targeted(target))
        /\ target.positiveEachRepeat =>
             \A k \in Targeted(target) : SumOfDeltas(Pairs(cells), each(k), metric) > 0
  BY <1>1, <1>2, <1>3, <1>6 DEF Target
<1>8. TargetDemand(cells, target) <=>
        /\ Targeted(target) # {}
        /\ \A k \in Targeted(target) : MeasuredInBoth(cells, k, metric)
        /\ TotalDelta(cells, Targeted(target), metric)
              >= target.minimumMeanDelta * Cardinality(Targeted(target))
        /\ target.positiveEachRepeat =>
             \A k \in Targeted(target) : TotalDelta(cells, each(k), metric) > 0
  BY DEF TargetDemand, MeanDemand
<1> HIDE DEF report, each, selected
<1>9. Target(target, report) <=> TargetDemand(cells, target)
  BY <1>4, <1>5, <1>7, <1>8
<1>10. QED
  BY <1>9 DEF report

(* So does the regression phase. *)
LEMMA RegressionOfCells ==
  ASSUME NEW policy, PolicyOK(policy), NEW state, NEW cells, CellsOK(cells),
         Paired(cells) = Keys
  PROVE  NoRegression(policy.regressions, Build(state, cells))
           <=> RegressionDemand(cells, policy.regressions)
<1> DEFINE report == Build(state, cells)
           regressions == policy.regressions
           case(m) == \A k \in Keys : /\ MeasuredInBoth(cells, k, m)
                                      /\ Delta(cells, k, m) >= regressions.caseDelta[m]
           mean(gm) == /\ gm \in DOMAIN report.metrics
                       /\ report.metrics[gm].present = report.metrics[gm].expected
                       /\ MeanAtLeast(report.metrics[gm].sum, report.metrics[gm].present,
                                      regressions.meanDelta[gm])
           demand(gm) == /\ gm[1] \in GroupNames
                         /\ MeanDemand(cells, KeysIn(gm[1]), gm[2], regressions.meanDelta[gm])
<1>1. /\ report.pairs = Pairs(cells) /\ DOMAIN Pairs(cells) = Keys
      /\ report.expected = Cardinality(Keys)
  BY ReportFields, PairsDomain
<1>2. \A k \in Keys : \A m : /\ m \in DOMAIN Pairs(cells)[k].deltas
                                  <=> MeasuredInBoth(cells, k, m)
                             /\ MeasuredInBoth(cells, k, m) =>
                                  Pairs(cells)[k].deltas[m] = Delta(cells, k, m)
  BY PairFields
<1>3. \A m \in DOMAIN regressions.caseDelta :
        (/\ Cardinality(DOMAIN report.pairs) = report.expected
         /\ \A k \in DOMAIN report.pairs :
              /\ m \in DOMAIN report.pairs[k].deltas
              /\ report.pairs[k].deltas[m] >= regressions.caseDelta[m])
          <=> case(m)
  <2> HIDE DEF report
  <2>1. QED
    BY <1>1, <1>2
<1>4. ASSUME NEW gm \in DOMAIN regressions.meanDelta
      PROVE  mean(gm) <=> demand(gm)
  <2> DEFINE group == gm[1]
             metric == gm[2]
             present == WithMetric(Pairs(cells), group, metric)
             limit == regressions.meanDelta[gm]
  <2>1. gm = <<group, metric>>
    BY DEF PolicyOK
  <2>2. present = {k \in KeysIn(group) : MeasuredInBoth(cells, k, metric)}
    BY <1>1, <1>2, KeysAreFinite DEF WithMetric
  <2>3. gm \in DOMAIN report.metrics <=>
          group \in GroupNames /\ metric \in Metrics /\ present # {}
    <3>1. DOMAIN report.metrics = MeasuredIn(cells)
      BY ReportFields
    <3> HIDE DEF report
    <3>2. QED
      BY <2>1, <3>1 DEF MeasuredIn
  <2>4. gm \in DOMAIN report.metrics =>
          /\ report.metrics[gm].present = Cardinality(present)
          /\ report.metrics[gm].expected = Cardinality(KeysIn(group))
          /\ report.metrics[gm].sum = SumOfDeltas(Pairs(cells), present, metric)
    <3>1. gm \in DOMAIN report.metrics =>
            report.metrics[gm] = MetricAggregate(Pairs(cells), group, metric)
      BY ReportFields
    <3>2. QED
      BY <3>1 DEF MetricAggregate
  <2>5. present \subseteq KeysIn(group) /\ KeysIn(group) \in SUBSET Keys
    BY <2>2, KeysAreFinite
  <2>6. Cardinality(present) = Cardinality(KeysIn(group)) <=> present = KeysIn(group)
    BY <2>5, KeysAreFinite, FS_Subset
  <2>7. present = KeysIn(group) <=>
          \A k \in KeysIn(group) : MeasuredInBoth(cells, k, metric)
    BY <2>2
  <2>8. present = KeysIn(group) =>
          SumOfDeltas(Pairs(cells), present, metric) = TotalDelta(cells, KeysIn(group), metric)
    BY <2>5, <2>7, SumOfPairs
  <2>9. group \in GroupNames /\ present = KeysIn(group) => metric \in Metrics /\ present # {}
    BY <2>5, <2>7, KeysAreFinite, CellsOfPair
  <2>10. mean(gm) <=>
           /\ group \in GroupNames /\ present = KeysIn(group)
           /\ SumOfDeltas(Pairs(cells), present, metric) >= limit * Cardinality(present)
    <3> HIDE DEF report, present, limit, group, metric
    <3>1. gm \in DOMAIN report.metrics =>
            (MeanAtLeast(report.metrics[gm].sum, report.metrics[gm].present, limit)
              <=> SumOfDeltas(Pairs(cells), present, metric) >= limit * Cardinality(present))
      BY <2>4 DEF MeanAtLeast
    <3>2. QED
      BY <2>3, <2>4, <2>6, <2>9, <3>1 DEF limit
  <2>11. demand(gm) <=>
           /\ group \in GroupNames
           /\ \A k \in KeysIn(group) : MeasuredInBoth(cells, k, metric)
           /\ TotalDelta(cells, KeysIn(group), metric) >= limit * Cardinality(KeysIn(group))
    BY DEF MeanDemand
  <2> HIDE DEF mean, demand, present, limit, group, metric
  <2>12. QED
    BY <2>7, <2>8, <2>10, <2>11
<1>5. NoRegression(regressions, report) <=>
        /\ \A m \in DOMAIN regressions.caseDelta : case(m)
        /\ \A gm \in DOMAIN regressions.meanDelta : mean(gm)
  BY <1>3 DEF NoRegression
<1>6. RegressionDemand(cells, regressions) <=>
        /\ \A m \in DOMAIN regressions.caseDelta : case(m)
        /\ \A gm \in DOMAIN regressions.meanDelta : demand(gm)
  BY DEF RegressionDemand
<1> HIDE DEF case, mean, demand
<1>7. QED
  BY <1>4, <1>5, <1>6

(* The decision is pass exactly for the cells of a complete run that meet  *)
(* what the policy demands of them, whatever the comparison makes of them  *)
(* on the way.                                                             *)
THEOREM PassMeansDemands ==
  ASSUME NEW policy, PolicyOK(policy), NEW state, NEW cells, CellsOK(cells)
  PROVE  Evaluate(policy, Build(state, cells)).status = "pass" <=>
           state = "complete" /\ Paired(cells) = Keys /\ Demands(policy, cells)
<1> DEFINE report == Build(state, cells)
           identity == /\ report.state = "complete"
                       /\ report.complete = report.expected /\ DOMAIN report.missing = {}
<1>1. identity <=> state = "complete" /\ Paired(cells) = Keys
  BY IdentityOfCells
<1>2. Evaluate(policy, report).status = "pass" <=>
        /\ identity
        /\ Hard(policy.hard, report) /\ Target(policy.target, report)
        /\ NoRegression(policy.regressions, report)
  BY PassOfReport
<1> HIDE DEF identity
<1>3. Paired(cells) = Keys =>
        /\ Hard(policy.hard, report) <=> HardDemand(cells, policy.hard)
        /\ Target(policy.target, report) <=> TargetDemand(cells, policy.target)
        /\ NoRegression(policy.regressions, report)
             <=> RegressionDemand(cells, policy.regressions)
  BY HardOfCells, TargetOfCells, RegressionOfCells
<1> HIDE DEF report
<1>4. Evaluate(policy, report).status = "pass" <=>
        state = "complete" /\ Paired(cells) = Keys /\ Demands(policy, cells)
  BY <1>1, <1>2, <1>3 DEF Demands
<1>5. QED
  BY <1>4 DEF report

-----------------------------------------------------------------------------
(* Worse evidence *)

(* Nothing the candidate did is better in "worse", and nothing the         *)
(* incumbent did is worse; what is measured there is measured in "better". *)
NoBetter(worse, better) ==
  \A k \in Keys :
    /\ Challenger(worse, k).completed = Challenger(better, k).completed
    /\ Challenger(worse, k).contractValid = Challenger(better, k).contractValid
    /\ \A m : Measured(Challenger(worse, k), m) =>
         /\ Measured(Challenger(better, k), m)
         /\ Challenger(worse, k).metrics[m] <= Challenger(better, k).metrics[m]
    /\ \A m : Measured(Incumbent(worse, k), m) =>
         /\ Measured(Incumbent(better, k), m)
         /\ Incumbent(better, k).metrics[m] <= Incumbent(worse, k).metrics[m]

(* No delta is larger in worse evidence. *)
LEMMA DeltasOfNoBetter ==
  ASSUME NEW worse, NEW better, CellsOK(worse), CellsOK(better),
         Paired(worse) = Keys, Paired(better) = Keys, NoBetter(worse, better),
         NEW k \in Keys, NEW metric, MeasuredInBoth(worse, k, metric)
  PROVE  /\ MeasuredInBoth(better, k, metric)
         /\ Delta(worse, k, metric) \in Int /\ Delta(better, k, metric) \in Int
         /\ Delta(worse, k, metric) <= Delta(better, k, metric)
<1>1. /\ Measured(Challenger(better, k), metric) /\ Measured(Incumbent(better, k), metric)
      /\ Challenger(worse, k).metrics[metric] <= Challenger(better, k).metrics[metric]
      /\ Incumbent(better, k).metrics[metric] <= Incumbent(worse, k).metrics[metric]
  BY DEF NoBetter, MeasuredInBoth
<1>2. /\ OutcomeOK(Incumbent(worse, k)) /\ OutcomeOK(Challenger(worse, k))
      /\ OutcomeOK(Incumbent(better, k)) /\ OutcomeOK(Challenger(better, k))
  BY CellsOfPair
<1>3. /\ Incumbent(worse, k).metrics[metric] \in Int
      /\ Challenger(worse, k).metrics[metric] \in Int
      /\ Incumbent(better, k).metrics[metric] \in Int
      /\ Challenger(better, k).metrics[metric] \in Int
  BY <1>1, <1>2 DEF OutcomeOK, Measured, MeasuredInBoth
<1>4. QED
  BY <1>1, <1>3 DEF Delta, MeasuredInBoth

(* Nor is a sum of them. *)
LEMMA TotalsOfNoBetter ==
  ASSUME NEW worse, NEW better, CellsOK(worse), CellsOK(better),
         Paired(worse) = Keys, Paired(better) = Keys, NoBetter(worse, better),
         NEW keys \in SUBSET Keys, NEW metric,
         \A k \in keys : MeasuredInBoth(worse, k, metric)
  PROVE  /\ \A k \in keys : MeasuredInBoth(better, k, metric)
         /\ TotalDelta(worse, keys, metric) \in Int
         /\ TotalDelta(better, keys, metric) \in Int
         /\ TotalDelta(worse, keys, metric) <= TotalDelta(better, keys, metric)
<1> DEFINE f == [k \in keys |-> Delta(worse, k, metric)]
           g == [k \in keys |-> Delta(better, k, metric)]
<1>1. \A k \in keys : /\ MeasuredInBoth(better, k, metric)
                      /\ f[k] \in Int /\ g[k] \in Int /\ f[k] <= g[k]
  BY DeltasOfNoBetter
<1>2. IsFiniteSet(keys)
  BY KeysAreFinite
<1> HIDE DEF f, g
<1>3. SumOver(f, keys) <= SumOver(g, keys)
  BY <1>1, <1>2, SumIsMonotone
<1>4. SumOver(f, keys) \in Int /\ SumOver(g, keys) \in Int
  BY <1>1, <1>2, SumWithout
<1>5. QED
  BY <1>1, <1>3, <1>4 DEF TotalDelta, f, g

(* So what worse evidence meets is met by the better. *)
LEMMA DemandsOfNoBetter ==
  ASSUME NEW policy, PolicyOK(policy), NEW worse, NEW better,
         CellsOK(worse), CellsOK(better),
         Paired(worse) = Keys, Paired(better) = Keys, NoBetter(worse, better),
         Demands(policy, worse)
  PROVE  Demands(policy, better)
<1>1. ASSUME NEW keys \in SUBSET Keys, NEW metric, NEW limit \in Int,
             MeanDemand(worse, keys, metric, limit)
      PROVE  MeanDemand(better, keys, metric, limit)
  <2>1. limit * Cardinality(keys) \in Int
    BY KeysAreFinite
  <2>2. /\ \A k \in keys : MeasuredInBoth(worse, k, metric)
        /\ TotalDelta(worse, keys, metric) >= limit * Cardinality(keys)
    BY <1>1 DEF MeanDemand
  <2> DEFINE asked == limit * Cardinality(keys)
  <2> HIDE DEF asked
  <2>3. TotalDelta(better, keys, metric) >= asked
    BY <2>1, <2>2, TotalsOfNoBetter DEF asked
  <2>4. QED
    BY <2>2, <2>3, TotalsOfNoBetter DEF MeanDemand, asked
<1>2. HardDemand(better, policy.hard)
  <2> DEFINE hard == policy.hard
  <2>1. HardDemand(worse, hard)
    BY DEF Demands
  <2>2. {k \in Keys : Failed(Challenger(worse, k))} = {k \in Keys : Failed(Challenger(better, k))}
    BY DEF NoBetter, Failed
  <2>3. /\ "require_completed" \in hard.require => \A k \in Keys : Challenger(better, k).completed
        /\ "require_contract_valid" \in hard.require =>
             \A k \in Keys : Challenger(better, k).contractValid
    BY <2>1 DEF NoBetter, HardDemand
  <2>4. ASSUME NEW m \in DOMAIN hard.floors, NEW k \in Keys
        PROVE  /\ Measured(Challenger(better, k), m)
               /\ Challenger(better, k).metrics[m] >= hard.floors[m]
    <3>1. /\ Measured(Challenger(worse, k), m)
          /\ Challenger(worse, k).metrics[m] >= hard.floors[m]
      BY <2>1 DEF HardDemand
    <3>2. /\ Measured(Challenger(better, k), m)
          /\ Challenger(worse, k).metrics[m] <= Challenger(better, k).metrics[m]
      BY <3>1 DEF NoBetter
    <3>3. OutcomeOK(Challenger(worse, k)) /\ OutcomeOK(Challenger(better, k))
      BY CellsOfPair
    <3>4. /\ Challenger(worse, k).metrics[m] \in Int
          /\ Challenger(better, k).metrics[m] \in Int
      BY <3>1, <3>2, <3>3 DEF OutcomeOK, Measured
    <3>5. hard.floors[m] \in Int
      BY DEF PolicyOK
    <3>6. QED
      BY <3>1, <3>2, <3>4, <3>5
  <2>5. QED
    BY <2>1, <2>2, <2>3, <2>4 DEF HardDemand
<1>3. TargetDemand(better, policy.target)
  <2> DEFINE target == policy.target
             each(k) == {j \in Targeted(target) : j[2] = k[2]}
  <2>1. TargetDemand(worse, target)
    BY DEF Demands
  <2>2. Targeted(target) \in SUBSET Keys /\ \A k : each(k) \in SUBSET Keys
    BY DEF Targeted
  <2>3. /\ Targeted(target) # {}
        /\ MeanDemand(worse, Targeted(target), target.metric, target.minimumMeanDelta)
        /\ target.positiveEachRepeat =>
             \A k \in Targeted(target) : TotalDelta(worse, each(k), target.metric) > 0
    BY <2>1 DEF TargetDemand
  <2>4. \A k \in Targeted(target) : MeasuredInBoth(worse, k, target.metric)
    BY <2>3 DEF MeanDemand
  <2>5. \A k : \A j \in each(k) : MeasuredInBoth(worse, j, target.metric)
    BY <2>4
  <2>6. target.minimumMeanDelta \in Int
    BY DEF PolicyOK
  <2>7. MeanDemand(better, Targeted(target), target.metric, target.minimumMeanDelta)
    BY <1>1, <2>2, <2>3, <2>6
  <2>8. ASSUME target.positiveEachRepeat, NEW k \in Targeted(target)
        PROVE  TotalDelta(better, each(k), target.metric) > 0
    <3>1. TotalDelta(worse, each(k), target.metric) > 0
      BY <2>3, <2>8
    <3> HIDE DEF each
    <3>2. /\ TotalDelta(worse, each(k), target.metric) \in Int
          /\ TotalDelta(better, each(k), target.metric) \in Int
          /\ TotalDelta(worse, each(k), target.metric)
               <= TotalDelta(better, each(k), target.metric)
      BY <2>2, <2>5, TotalsOfNoBetter
    <3>3. QED
      BY <3>1, <3>2
  <2>9. QED
    BY <2>3, <2>7, <2>8 DEF TargetDemand
<1>4. RegressionDemand(better, policy.regressions)
  <2> DEFINE regressions == policy.regressions
  <2>1. RegressionDemand(worse, regressions)
    BY DEF Demands
  <2>2. ASSUME NEW m \in DOMAIN regressions.caseDelta, NEW k \in Keys
        PROVE  MeasuredInBoth(better, k, m) /\ Delta(better, k, m) >= regressions.caseDelta[m]
    <3>1. MeasuredInBoth(worse, k, m) /\ Delta(worse, k, m) >= regressions.caseDelta[m]
      BY <2>1 DEF RegressionDemand
    <3>2. regressions.caseDelta[m] \in Int
      BY DEF PolicyOK
    <3>3. QED
      BY <3>1, <3>2, DeltasOfNoBetter
  <2>3. ASSUME NEW gm \in DOMAIN regressions.meanDelta
        PROVE  /\ gm[1] \in GroupNames
               /\ MeanDemand(better, KeysIn(gm[1]), gm[2], regressions.meanDelta[gm])
    <3>1. /\ gm[1] \in GroupNames
          /\ MeanDemand(worse, KeysIn(gm[1]), gm[2], regressions.meanDelta[gm])
      BY <2>1 DEF RegressionDemand
    <3>2. regressions.meanDelta[gm] \in Int
      BY DEF PolicyOK
    <3>3. KeysIn(gm[1]) \in SUBSET Keys
      BY KeysAreFinite
    <3>4. QED
      BY <1>1, <3>1, <3>2, <3>3
  <2>4. QED
    BY <2>2, <2>3 DEF RegressionDemand
<1>5. QED
  BY <1>2, <1>3, <1>4 DEF Demands

(* The gate is monotone: where the candidate did no better, the incumbent  *)
(* no worse, and no more was measured, a pass needs a pass.                *)
THEOREM GateIsMonotone ==
  ASSUME NEW policy, PolicyOK(policy), NEW state, NEW worse, NEW better,
         CellsOK(worse), CellsOK(better), DOMAIN worse \subseteq DOMAIN better,
         Paired(worse) = Keys => NoBetter(worse, better),
         Evaluate(policy, Build(state, worse)).status = "pass"
  PROVE  Evaluate(policy, Build(state, better)).status = "pass"
<1>1. state = "complete" /\ Paired(worse) = Keys /\ Demands(policy, worse)
  BY PassMeansDemands
<1>2. Paired(better) = Keys
  BY <1>1 DEF Paired
<1>3. Demands(policy, better)
  BY <1>1, <1>2, DemandsOfNoBetter
<1>4. QED
  BY <1>1, <1>2, <1>3, PassMeansDemands
=============================================================================
