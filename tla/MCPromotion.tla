----------------------------- MODULE MCPromotion -----------------------------
(* Promotion for TLC: two cases, one of them in a group, each run twice.    *)
EXTENDS Promotion, TLC

CONSTANTS c1, c2, g, unknown, quality, safety

MCSuite == <<c1, c2>>
MCGroupsOf == (c1 :> {g}) @@ (c2 :> {})
MCMetrics == {quality, safety}

Ran(q, s, read, written) ==
  [completed |-> TRUE, contractValid |-> TRUE, tokens |-> <<read, written>>,
   metrics |-> (quality :> q) @@ (safety :> s)]

(* With an int of three bits, the tokens of a broken outcome are too many  *)
(* for one int, and the savings of the others can be too many for a group. *)
Incumbent == Ran(1, 1, 1, 1)
Better == Ran(2, 1, 1, 2)
Same == Ran(1, 1, 1, 1)
Worse == Ran(0, 1, 0, 0)
Unsafe == Ran(3, 0, 0, 0)
Invalid == [Better EXCEPT !.contractValid = FALSE]
Broken == [Invalid EXCEPT !.completed = FALSE, !.tokens = <<3, 1>>]

(* Each kind of outcome at one place, so that the kinds combine. *)
MCOutcomesAt ==
  <<{Incumbent}, {Better, Worse, WithoutMetric(Better, quality)},
    {Incumbent}, {Worse, Broken, Invalid},
    {Incumbent}, {Same, Unsafe, WithoutMetric(Better, safety)},
    {Incumbent}, {Better}>>

(* A policy that asks for little, then one or two demands at a time.       *)
Lenient ==
  [hard |-> [require |-> {}, maxFailureRate |-> <<1, 1>>, floors |-> <<>>],
   target |-> [metric |-> quality, groups |-> {}, minimumMeanDelta |-> 0,
               positiveEachRepeat |-> FALSE],
   regressions |-> [caseDelta |-> <<>>, meanDelta |-> <<>>]]

MCPolicies ==
  {Lenient,
   [Lenient EXCEPT !.hard.require = {"require_all_cells", "require_completed"},
                   !.target.groups = {g}, !.regressions.caseDelta = safety :> 0],
   [Lenient EXCEPT !.hard.require = {"require_contract_valid"},
                   !.regressions.meanDelta = (<<g, quality>> :> 0)],
   [Lenient EXCEPT !.hard.maxFailureRate = <<1, 5>>, !.hard.floors = quality :> 1],
   [Lenient EXCEPT !.hard.floors = safety :> 1, !.target.groups = {g, unknown}],
   [Lenient EXCEPT !.target.groups = {unknown}],
   [Lenient EXCEPT !.target.groups = {"all"}, !.target.minimumMeanDelta = 1],
   [Lenient EXCEPT !.target.positiveEachRepeat = TRUE],
   [Lenient EXCEPT !.target.minimumMeanDelta = -1, !.regressions.caseDelta = quality :> 0],
   [Lenient EXCEPT !.regressions.meanDelta =
                     (<<"all", safety>> :> 0) @@ (<<g, quality>> :> 1)],
   [Lenient EXCEPT !.regressions.meanDelta = (<<unknown, quality>> :> 0)]}
=============================================================================
