------------------------------- MODULE MCReview -------------------------------
(***************************************************************************)
(* Review for TLC: two subjects under two variants, one of them with two   *)
(* items of a variant, an int of three bits, and lists of candidates that  *)
(* change and that are refused.                                            *)
(***************************************************************************)
EXTENDS Review

Candidate(subject, variant, identity, payload) ==
  [subject |-> subject, variant |-> variant, identity |-> identity, payload |-> payload]

First == <<Candidate(1, 1, 1, 11), Candidate(1, 2, 1, 12),
           Candidate(2, 1, 1, 13), Candidate(2, 2, 1, 14)>>

(* One candidate is another one; one has only another payload; a subject   *)
(* has two items of a variant.                                             *)
Second == [First EXCEPT ![1].identity = 2, ![3].payload = 15]
Third == Append(First, Second[1])

MCLists ==
  {First, Second, Third,
   Append(First, Candidate(1, 1, 1, 16)), Append(First, Candidate(2, Blank, 1, 17))}

Quality(min, max) == [name |-> "quality", min |-> min, max |-> max]

MCProtocols ==
  {<<Quality(-1, 2)>>, <<Quality(-2, 3)>>, <<Quality(2, 1)>>,
   <<Quality(0, 1), Quality(0, 1)>>}

Score(value) == [dim \in {"quality"} |-> value]

MCOpinions(candidate) ==
  CASE candidate.subject = 2 /\ candidate.variant = 1 -> {<<1, Score(0)>>}
    [] candidate.subject = 2 /\ candidate.variant # 1 ->
         {<<1, Score(0)>>, <<2, Score(2)>>}
    [] candidate.subject # 2 /\ candidate.variant = 2 -> {<<1, Score(1)>>}
    [] candidate.subject # 2 /\ candidate.variant # 2 /\ candidate.identity = 1 ->
         {<<1, Score(2)>>, <<2, Score(-1)>>, <<2, Score(-2)>>}
    [] OTHER -> {<<1, Score(0)>>, <<Blank, Score(0)>>}

Identities == {Identity(Third[i]) : i \in DOMAIN Third}

MCDigest == [x \in Identities |-> (7 * x.subject + 5 * x.variant + 3 * x.identity) % 11]
=============================================================================
