------------------------------ MODULE Promotion ------------------------------
(***************************************************************************)
(* The report command: it loads a run, compares it, evaluates the policy   *)
(* and, before it publishes, has report.Build load, compare and evaluate   *)
(* all over again; while the evaluation may still be going on.             *)
(*                                                                         *)
(* The run directory grows as EvidenceLog promises.  A load is two reads,  *)
(* first status.json, then cells.jsonl; the rest of the directory does not *)
(* change.  ReportWrite models what publication does.                      *)
(***************************************************************************)
EXTENDS Gate

CONSTANTS
  OutcomesAt,  \* the outcomes each cell of the schedule may have
  Policies,    \* the policies a run may have been started with
  Nothing

N == Len(Suite) * Repeats * 2

ASSUME PromotionAssumption ==
  /\ DOMAIN OutcomesAt = 1 .. N
  /\ \A i \in 1 .. N : \A outcome \in OutcomesAt[i] : OutcomeOK(outcome)
  /\ \A p \in Policies : PolicyOK(p)

VARIABLES
  policy,      \* the policy copied into the run
  cells,       \* the outcomes recorded so far, in schedule order
  state,       \* the state of the run
  moments,     \* every <<state, number of cells>> the directory has been in
  pc,          \* what the command does next
  load,        \* which of its four loads it is at
  opened,      \* the state read by the load that is going on
  run,         \* the last run it loaded: <<state, number of cells>>
  comparison,  \* what compare.Build returned
  decision,    \* what gate.Evaluate returned
  published    \* the decision of the published plan

directory == <<policy, cells, state, moments>>
command == <<pc, load, opened, run, comparison, decision, published>>
vars == <<directory, command>>

(* buildSchedule: case by case, repeat by repeat, the incumbent first. *)
Schedule ==
  [i \in 1 .. N |->
     <<<<Suite[(i - 1) \div (2 * Repeats) + 1], ((i - 1) \div 2) % Repeats>>,
       IF i % 2 = 1 THEN "incumbent" ELSE "challenger">>]

CellsOf(outcomes) ==
  [c \in {Schedule[i] : i \in DOMAIN outcomes} |->
     outcomes[CHOOSE i \in DOMAIN outcomes : Schedule[i] = c]]

Init ==
  /\ policy \in Policies
  /\ cells = <<>>
  /\ state = "active"
  /\ moments = {<<"active", 0>>}
  /\ pc = "idle" /\ load = 1 /\ opened = Nothing /\ run = Nothing
  /\ comparison = Nothing /\ decision = Nothing /\ published = Nothing

-----------------------------------------------------------------------------
(* The evaluation, as its abstract specification says. *)

Log == INSTANCE EvidenceLog WITH recorded <- [i \in DOMAIN cells |-> i]

Evaluation ==
  /\ \/ /\ Len(cells) < N
        /\ \E outcome \in OutcomesAt[Len(cells) + 1] : cells' = Append(cells, outcome)
        /\ UNCHANGED state
     \/ /\ UNCHANGED cells
        /\ state' \in {"complete", "failed"}
  /\ Log!LogNext
  /\ moments' = moments \cup {<<state', Len(cells')>>}
  /\ UNCHANGED <<policy, command>>

-----------------------------------------------------------------------------
(* The command *)

Start ==
  /\ pc = "idle"
  /\ pc' = "status"
  /\ UNCHANGED <<directory, load, opened, run, comparison, decision, published>>

(* runstore.Open *)
ReadStatus ==
  /\ pc = "status"
  /\ opened' = state
  /\ pc' = "cells"
  /\ UNCHANGED <<directory, load, run, comparison, decision, published>>

NextLoad == load' = load + 1 /\ pc' = "status"

(* Mutant: compare.Build opens the run again but keeps the cells it has. *)
ReadCellsOnce ==
  /\ pc = "cells"
  /\ run' = <<opened, Len(cells)>>
  /\ opened' = Nothing
  /\ \/ load \in {1, 3} /\ NextLoad /\ UNCHANGED <<comparison, decision>>
     \/ /\ load = 2 /\ NextLoad
        /\ comparison' = Build(opened, CellsOf(SubSeq(cells, 1, run[2])))
        /\ decision' = Evaluate(policy, comparison')
     \/ /\ load = 4 /\ comparison = Build(opened, CellsOf(cells))
        /\ pc' = "publish"
        /\ UNCHANGED <<load, comparison, decision>>
  /\ UNCHANGED <<directory, published>>

(* loadArtifactCells.  The first load leads to the copied policy and the   *)
(* second is compare.Build's own; the third is report.Build's, the fourth  *)
(* that of the comparison it builds to hold against the one it was given.  *)
(* A comparison whose costs overflow ends the command.                     *)
ReadCells ==
  /\ pc = "cells"
  /\ run' = <<opened, Len(cells)>>
  /\ opened' = Nothing
  /\ LET built == Build(opened, CellsOf(cells))
     IN  \/ load \in {1, 3} /\ NextLoad /\ UNCHANGED <<comparison, decision>>
         \/ /\ load \in {2, 4} /\ Overflows(built)
            /\ pc' = "refused"
            /\ UNCHANGED <<load, comparison, decision>>
         \/ /\ load = 2 /\ ~ Overflows(built) /\ NextLoad
            /\ comparison' = built
            /\ decision' = Evaluate(policy, built)
         \/ /\ load = 4 /\ ~ Overflows(built)
            /\ pc' = IF comparison = built /\ decision = Evaluate(policy, built)
                       THEN "publish" ELSE "refused"
            /\ UNCHANGED <<load, comparison, decision>>
  /\ UNCHANGED <<directory, published>>

(* A line that is just being appended is truncated to its reader, a context *)
(* may be done at any load, and outputs may be refused.                     *)
GiveUp ==
  /\ pc \in {"status", "cells", "publish"}
  /\ pc' = "refused"
  /\ UNCHANGED <<directory, load, opened, run, comparison, decision, published>>

Publish ==
  /\ pc = "publish"
  /\ published' = decision
  /\ pc' = "done"
  /\ UNCHANGED <<directory, load, opened, run, comparison, decision>>

Rest == pc \in {"done", "refused"} /\ UNCHANGED vars

Next ==
  \/ Evaluation
  \/ Start \/ ReadStatus \/ ReadCells \/ GiveUp \/ Publish \/ Rest

Spec == Init /\ [][Next]_vars

-----------------------------------------------------------------------------
(* What a decision says, in terms of the cells themselves *)

DirectoryDecision == Evaluate(policy, Build(state, CellsOf(cells)))

(* The delta of a metric in a pair, and the pairs that have one. *)
Compared(metric) ==
  {k \in Keys : \A arm \in {"incumbent", "challenger"} :
                  Measured(CellsOf(cells)[<<k, arm>>], metric)}
DeltaOf(k, metric) ==
  CellsOf(cells)[<<k, "challenger">>].metrics[metric]
    - CellsOf(cells)[<<k, "incumbent">>].metrics[metric]
MeanOver(keys, metric, limit) ==
  /\ keys \subseteq Compared(metric)
  /\ MapThenSumSet(LAMBDA k : DeltaOf(k, metric) - limit, keys) >= 0
PositiveMeanOver(keys, metric) ==
  /\ keys \subseteq Compared(metric)
  /\ MapThenSumSet(LAMBDA k : DeltaOf(k, metric), keys) > 0

(* All that a policy asks of a run. *)
Earned ==
  LET candidates == {i \in 1 .. N : i % 2 = 0}
      require(name, P(_)) ==
        name \in policy.hard.require => \A i \in candidates : P(cells[i])
      target == policy.target
      targeted == {k \in Keys : target.groups = {} \/ \E g \in target.groups : k \in KeysIn(g)}
      failures == {i \in candidates : Failed(cells[i])}
      rate == policy.hard.maxFailureRate
  IN  /\ state = "complete" /\ Len(cells) = N
      /\ require("require_completed", LAMBDA o : o.completed)
      /\ require("require_contract_valid", LAMBDA o : o.contractValid)
      /\ Cardinality(failures) * rate[2] <= rate[1] * Cardinality(candidates)
      /\ \A m \in DOMAIN policy.hard.floors, i \in candidates :
           Measured(cells[i], m) /\ cells[i].metrics[m] >= policy.hard.floors[m]
      /\ targeted # {}
      /\ MeanOver(targeted, target.metric, target.minimumMeanDelta)
      /\ target.positiveEachRepeat =>
           \A r \in 0 .. Repeats - 1 :
             PositiveMeanOver({k \in targeted : k[2] = r}, target.metric)
      /\ \A m \in DOMAIN policy.regressions.caseDelta, k \in Keys :
           /\ k \in Compared(m)
           /\ DeltaOf(k, m) >= policy.regressions.caseDelta[m]
      /\ \A gm \in DOMAIN policy.regressions.meanDelta :
           /\ gm[1] \in GroupNames
           /\ MeanOver(KeysIn(gm[1]), gm[2], policy.regressions.meanDelta[gm])

-----------------------------------------------------------------------------
(* Safety *)

(* The decision is pass exactly when the run is complete and its cells     *)
(* themselves meet every demand of the policy: nothing is gained or lost   *)
(* on the way through pairs, aggregates and phases.                        *)
PassIsEarned == pc = "idle" => (DirectoryDecision.status = "pass" <=> Earned)

(* A plan that says pass is published only over a run that is complete and *)
(* has earned it, whatever the evaluation did during the command.          *)
PublishedPassIsEarned == published # Nothing /\ published.status = "pass" => Earned

(* Every comparison and decision the command reaches, pass or fail, is that *)
(* of a state the directory really was in at one moment, although the      *)
(* command reads its files one after the other while they change.  (Stated *)
(* for the moment it has been reached and for the one it is published.)    *)
DecisionOfOneMoment ==
  comparison # Nothing /\ <<load, pc>> \in {<<3, "status">>, <<4, "done">>} =>
    /\ decision = Evaluate(policy, comparison)
    /\ \E moment \in moments :
         /\ moment[1] = comparison.state
         /\ comparison = Build(moment[1], CellsOf(SubSeq(cells, 1, moment[2])))

(* The costs a comparison reports are those of the cells it was built      *)
(* from, in every group: no sum has wrapped, at the limits of int either.  *)
CostsAreTrue ==
  comparison # Nothing =>
    \A g \in DOMAIN comparison.groups :
      comparison.groups[g].tokens =
        MapThenSumSet(
          LAMBDA k : LET p == comparison.pairs[k]
                     IN  p.candidate.tokens[1] + p.candidate.tokens[2]
                           - (p.incumbent.tokens[1] + p.incumbent.tokens[2]),
          KeysIn(g) \cap DOMAIN comparison.pairs)

(* A decision that was fail stays fail when evidence is taken away, be it   *)
(* one metric of a cell or the cell: compare and gate give nothing that is *)
(* missing a value.                                                        *)
WithoutMetric(outcome, metric) ==
  [outcome EXCEPT !.metrics = [m \in DOMAIN @ \ {metric} |-> @[m]]]
MissingNeverHelps ==
  pc = "idle" /\ DirectoryDecision.status = "fail" =>
    LET all == CellsOf(cells)
    IN  /\ \A c \in DOMAIN all, m \in Metrics :
             LET fewer == [all EXCEPT ![c] = WithoutMetric(@, m)]
             IN  Evaluate(policy, Build(state, fewer)).status = "fail"
        /\ \A c \in DOMAIN all :
             LET fewer == [d \in DOMAIN all \ {c} |-> all[d]]
             IN  Evaluate(policy, Build(state, fewer)).status = "fail"

(* A decision that was fail stays fail when any one metric gets worse for  *)
(* the candidate or better for the incumbent: every gate of the policy     *)
(* points the same way.                                                    *)
Shifted(outcome, metric, by) ==
  IF Measured(outcome, metric)
    THEN [outcome EXCEPT !.metrics[metric] = @ + by] ELSE outcome
WorseNeverHelps ==
  pc = "idle" /\ DirectoryDecision.status = "fail" =>
    LET all == CellsOf(cells)
    IN  \A c \in DOMAIN all, m \in Metrics :
          LET worse == [all EXCEPT ![c] =
                          Shifted(@, m, IF c[2] = "incumbent" THEN 1 ELSE -1)]
          IN  Evaluate(policy, Build(state, worse)).status = "fail"
=============================================================================
