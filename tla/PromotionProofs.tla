---------------------------- MODULE PromotionProofs ----------------------------
(***************************************************************************)
(* Proofs about Promotion: every suite, number of repeats, policy and set  *)
(* of outcomes, and every interleaving of the evaluation with the command. *)
(*                                                                         *)
(* The decision does not follow from what the command read last: while it  *)
(* loads four times the run goes on.  So the invariant keeps which         *)
(* prefixes of the log the directory has been in, and says that what the   *)
(* command has computed is of one of them; a pass can then only be of the  *)
(* last, since no other was complete.  That what is demanded of pairs is   *)
(* what is earned by cells rests on the schedule being a bijection between *)
(* its places and the cells.                                               *)
(***************************************************************************)
EXTENDS Promotion, GateProofs

-----------------------------------------------------------------------------
(* The schedule: the keys in order, and for each its two arms in turn.     *)

Places == 1 .. Len(Suite) * Repeats

(* Quotient and remainder are found from a decomposition. *)
LEMMA Divided ==
  ASSUME NEW a \in Nat, NEW d \in Nat \ {0}, NEW r \in 0 .. d - 1, NEW n, n = a * d + r
  PROVE  n \div d = a /\ n % d = r
OBVIOUS

(* Quotient and remainder decompose a number. *)
LEMMA Division ==
  ASSUME NEW n \in Nat, NEW d \in Nat \ {0}
  PROVE  /\ n \div d \in Nat /\ n % d \in 0 .. d - 1
         /\ n = (n \div d) * d + (n % d)
<1>1. n % d \in 0 .. d - 1
  OBVIOUS
<1>2. n = (n \div d) * d + (n % d)
  <2>1. n = d * (n \div d) + (n % d)
    OBVIOUS
  <2>2. n \div d \in Int
    OBVIOUS
  <2>3. QED
    BY <2>1, <2>2
<1>3. n \div d \in Nat
  OBVIOUS
<1>4. QED
  BY <1>1, <1>2, <1>3

(* The sizes of the suite and of its schedule. *)
LEMMA Shape ==
  /\ Len(Suite) \in Nat \ {0} /\ DOMAIN Suite = 1 .. Len(Suite)
  /\ Repeats \in Nat \ {0} /\ Len(Suite) * Repeats \in Nat \ {0}
  /\ N = 2 * (Len(Suite) * Repeats) /\ N \in Nat
  /\ \A i, j \in 1 .. Len(Suite) : Suite[i] = Suite[j] => i = j
  /\ Cases = {Suite[i] : i \in 1 .. Len(Suite)}
<1>1. Suite \in Seq(Cases) /\ Suite # <<>> /\ Repeats \in Nat \ {0}
  BY ComparisonAssumption
<1>2. Len(Suite) \in Nat \ {0} /\ DOMAIN Suite = 1 .. Len(Suite)
  BY <1>1
<1> DEFINE L == Len(Suite)
<1> HIDE DEF L
<1>3. L \in Nat \ {0} => L * Repeats \in Nat \ {0} /\ L * Repeats * 2 = 2 * (L * Repeats)
  BY <1>1
<1>4. QED
  BY <1>1, <1>2, <1>3, ComparisonAssumption DEF N, L, Cases

(* The keys come in order of their case and repeat. *)
LEMMA PlaceOfKey ==
  ASSUME NEW i \in 1 .. Len(Suite), NEW r \in 0 .. Repeats - 1
  PROVE  /\ (i - 1) * Repeats + r + 1 \in Places
         /\ KeyOrder[(i - 1) * Repeats + r + 1] = <<Suite[i], r>>
<1> DEFINE L == Len(Suite)
           R == Repeats
           j == (i - 1) * R + r + 1
<1>1. L \in Nat /\ R \in Nat \ {0} /\ i \in 1 .. L /\ r \in 0 .. R - 1
  BY Shape
<1> HIDE DEF L, R
<1>2. (i - 1) * R + r \in Nat /\ (i - 1) * R \in Nat
  BY <1>1
<1>3. (i - 1) * R + R = i * R /\ i * R <= L * R
  <2>1. L = i + (L - i) /\ L - i \in Nat
    BY <1>1
  <2>2. L * R = i * R + (L - i) * R /\ (L - i) * R \in Nat
    BY <1>1, <2>1
  <2>3. QED
    BY <1>1, <2>2
<1>4. j \in 1 .. L * R
  BY <1>1, <1>2, <1>3
<1>5. (j - 1) \div R = i - 1 /\ (j - 1) % R = r
  <2> DEFINE a == i - 1
             n == j - 1
  <2>1. n = a * R + r /\ a \in Nat
    BY <1>1, <1>2
  <2> HIDE DEF a, n
  <2>2. n \div R = a /\ n % R = r
    BY <1>1, <2>1
  <2>3. QED
    BY <2>2 DEF a, n
<1>6. j - 1 \in Nat /\ (i - 1) + 1 = i
  BY <1>1, <1>2
<1>7. QED
  BY <1>4, <1>5, <1>6 DEF KeyOrder, Places, L, R

(* Every place is that of a case and a repeat. *)
LEMMA KeyOfPlace ==
  ASSUME NEW j \in Places
  PROVE  \E i \in 1 .. Len(Suite), r \in 0 .. Repeats - 1 : j = (i - 1) * Repeats + r + 1
<1> DEFINE L == Len(Suite)
           R == Repeats
           q == (j - 1) \div R
           r == (j - 1) % R
<1>1. L \in Nat /\ R \in Nat \ {0} /\ j \in 1 .. L * R
  BY Shape DEF Places
<1> HIDE DEF L, R
<1>2. j - 1 \in Nat
  BY <1>1
<1>3. q \in Nat /\ r \in 0 .. R - 1 /\ j - 1 = q * R + r
  BY <1>1, <1>2, Division
<1> HIDE DEF q, r
<1>4. q < L
  <2>1. SUFFICES ASSUME q >= L PROVE FALSE
    BY <1>1, <1>3
  <2>2. q * R = L * R + (q - L) * R /\ (q - L) * R \in Nat
    BY <1>1, <1>3, <2>1
  <2>3. QED
    BY <1>1, <1>3, <2>2
<1>5. q + 1 \in 1 .. L /\ (q + 1) - 1 = q /\ j = ((q + 1) - 1) * R + r + 1
  BY <1>1, <1>2, <1>3, <1>4
<1>6. QED
  BY <1>3, <1>5 DEF L, R

(* The order of the keys names each of them once. *)
LEMMA KeysInOrder ==
  /\ DOMAIN KeyOrder = Places
  /\ \A j \in Places : KeyOrder[j] \in Keys
  /\ \A k \in Keys : \E j \in Places : KeyOrder[j] = k
  /\ \A i, j \in Places : KeyOrder[i] = KeyOrder[j] => i = j
<1>1. DOMAIN KeyOrder = Places
  BY DEF KeyOrder, Places
<1>2. ASSUME NEW j \in Places
      PROVE  KeyOrder[j] \in Keys
  <2>1. PICK i \in 1 .. Len(Suite), r \in 0 .. Repeats - 1 : j = (i - 1) * Repeats + r + 1
    BY KeyOfPlace
  <2>2. KeyOrder[j] = <<Suite[i], r>>
    BY <2>1, PlaceOfKey
  <2>3. QED
    BY <2>2, Shape DEF Keys
<1>3. ASSUME NEW k \in Keys
      PROVE  \E j \in Places : KeyOrder[j] = k
  <2>1. PICK i \in 1 .. Len(Suite), r \in 0 .. Repeats - 1 : k = <<Suite[i], r>>
    BY Shape DEF Keys
  <2>2. QED
    BY <2>1, PlaceOfKey
<1>4. ASSUME NEW i \in Places, NEW j \in Places, KeyOrder[i] = KeyOrder[j]
      PROVE  i = j
  <2>1. PICK a \in 1 .. Len(Suite), r \in 0 .. Repeats - 1 : i = (a - 1) * Repeats + r + 1
    BY KeyOfPlace
  <2>2. PICK b \in 1 .. Len(Suite), s \in 0 .. Repeats - 1 : j = (b - 1) * Repeats + s + 1
    BY KeyOfPlace
  <2>3. KeyOrder[i] = <<Suite[a], r>> /\ KeyOrder[j] = <<Suite[b], s>>
    BY <2>1, <2>2, PlaceOfKey
  <2>4. <<Suite[a], r>> = <<Suite[b], s>>
    BY <1>4, <2>3
  <2>5. Suite[a] = Suite[b] /\ r = s
    BY <2>4
  <2>6. a = b
    BY <2>5, Shape
  <2>7. QED
    BY <2>1, <2>2, <2>5, <2>6
<1>5. QED
  BY <1>1, <1>2, <1>3, <1>4

(* The two cells of a key come one after the other. *)
LEMMA ScheduleOfPlace ==
  ASSUME NEW j \in Places
  PROVE  /\ 2 * j - 1 \in 1 .. N /\ 2 * j \in 1 .. N
         /\ Schedule[2 * j - 1] = <<KeyOrder[j], "incumbent">>
         /\ Schedule[2 * j] = <<KeyOrder[j], "challenger">>
<1> DEFINE R == Repeats
           q == (j - 1) \div R
           r == (j - 1) % R
<1>1. R \in Nat \ {0} /\ j \in 1 .. Len(Suite) * R /\ N = 2 * (Len(Suite) * R)
  BY Shape DEF Places
<1>2. j - 1 \in Nat
  BY <1>1
<1>10. q \in Nat /\ r \in 0 .. R - 1 /\ j - 1 = q * R + r
  BY <1>1, <1>2, Division
<1>3. KeyOrder[j] = <<Suite[q + 1], r>>
  BY DEF KeyOrder, Places
<1> HIDE DEF R, q, r
<1>4. 2 * j - 1 \in 1 .. N /\ 2 * j \in 1 .. N
  BY <1>1, Shape
<1>5. ASSUME NEW i \in {2 * j - 1, 2 * j}
      PROVE  (i - 1) \div (2 * R) = q /\ ((i - 1) \div 2) % R = r
  <2>1. PICK e \in 0 .. 1 : i - 1 = 2 * (j - 1) + e
    BY <1>1, <1>2
  <2>2. (i - 1) \div 2 = j - 1
    BY <1>2, <2>1
  <2>3. i - 1 = q * (2 * R) + (2 * r + e) /\ 2 * r + e \in 0 .. 2 * R - 1
    BY <1>1, <1>2, <1>10, <2>1
  <2>4. 2 * R \in Nat \ {0}
    BY <1>1
  <2>5. (i - 1) \div (2 * R) = q
    BY <1>10, <2>3, <2>4, Divided
  <2>6. QED
    BY <2>2, <2>5 DEF r
<1>6. (2 * j - 1) % 2 = 1 /\ (2 * j) % 2 = 0
  BY <1>1
<1>7. QED
  BY <1>3, <1>4, <1>5, <1>6 DEF Schedule, R

(* Every cell of the schedule is one of two of a key. *)
LEMMA PlaceOfCell ==
  ASSUME NEW i \in 1 .. N
  PROVE  \E j \in Places : i = 2 * j - 1 \/ i = 2 * j
<1>1. Len(Suite) * Repeats \in Nat /\ i \in 1 .. 2 * (Len(Suite) * Repeats)
  BY Shape
<1> DEFINE M == Len(Suite) * Repeats
           j == (i + 1) \div 2
<1>2. j \in 1 .. M /\ (i = 2 * j - 1 \/ i = 2 * j)
  BY <1>1
<1>3. QED
  BY <1>2 DEF Places

(* No two places of the schedule are for the same cell. *)
LEMMA ScheduleIsInjective ==
  ASSUME NEW i \in 1 .. N, NEW j \in 1 .. N, Schedule[i] = Schedule[j]
  PROVE  i = j
<1>1. PICK a \in Places : i = 2 * a - 1 \/ i = 2 * a
  BY PlaceOfCell
<1>2. PICK b \in Places : j = 2 * b - 1 \/ j = 2 * b
  BY PlaceOfCell
<1>3. /\ Schedule[2 * a - 1] = <<KeyOrder[a], "incumbent">>
      /\ Schedule[2 * a] = <<KeyOrder[a], "challenger">>
      /\ Schedule[2 * b - 1] = <<KeyOrder[b], "incumbent">>
      /\ Schedule[2 * b] = <<KeyOrder[b], "challenger">>
  BY ScheduleOfPlace
<1>4. KeyOrder[a] = KeyOrder[b] /\ (i = 2 * a - 1 <=> j = 2 * b - 1)
  BY <1>1, <1>2, <1>3
<1>5. a = b
  BY <1>4, KeysInOrder
<1>6. QED
  BY <1>1, <1>2, <1>4, <1>5

-----------------------------------------------------------------------------
(* The cells of a log *)

IsLog(outcomes) ==
  /\ outcomes \in Seq(UNION {OutcomesAt[i] : i \in 1 .. N})
  /\ Len(outcomes) \in 0 .. N
  /\ \A i \in 1 .. Len(outcomes) : outcomes[i] \in OutcomesAt[i]

(* The cells of a log are those of the schedule it has come to. *)
LEMMA CellOfPlace ==
  ASSUME NEW outcomes, IsLog(outcomes)
  PROVE  /\ DOMAIN outcomes = 1 .. Len(outcomes)
         /\ 1 .. Len(outcomes) \subseteq 1 .. N
         /\ DOMAIN CellsOf(outcomes) = {Schedule[i] : i \in 1 .. Len(outcomes)}
         /\ \A i \in 1 .. Len(outcomes) : CellsOf(outcomes)[Schedule[i]] = outcomes[i]
<1>1. DOMAIN outcomes = 1 .. Len(outcomes)
  BY DEF IsLog
<1>2. 1 .. Len(outcomes) \subseteq 1 .. N
  BY Shape DEF IsLog
<1>3. DOMAIN CellsOf(outcomes) = {Schedule[i] : i \in 1 .. Len(outcomes)}
  BY <1>1 DEF CellsOf
<1>4. ASSUME NEW i \in 1 .. Len(outcomes)
      PROVE  CellsOf(outcomes)[Schedule[i]] = outcomes[i]
  <2> DEFINE j == CHOOSE j \in DOMAIN outcomes : Schedule[j] = Schedule[i]
  <2>1. j \in DOMAIN outcomes /\ Schedule[j] = Schedule[i]
    BY <1>1
  <2>2. CellsOf(outcomes)[Schedule[i]] = outcomes[j]
    BY <1>1 DEF CellsOf
  <2> HIDE DEF j
  <2>3. j = i
    BY <1>1, <1>2, <2>1, ScheduleIsInjective
  <2>4. QED
    BY <2>2, <2>3
<1>5. QED
  BY <1>1, <1>2, <1>3, <1>4

(* The cells of a log are outcomes. *)
LEMMA CellsOfLog ==
  ASSUME NEW outcomes, IsLog(outcomes)
  PROVE  CellsOK(CellsOf(outcomes))
<1>1. \A i \in 1 .. Len(outcomes) : OutcomeOK(outcomes[i])
  BY CellOfPlace, PromotionAssumption DEF IsLog
<1>2. ASSUME NEW c \in DOMAIN CellsOf(outcomes)
      PROVE  OutcomeOK(CellsOf(outcomes)[c])
  <2>1. DOMAIN CellsOf(outcomes) = {Schedule[i] : i \in 1 .. Len(outcomes)}
    BY CellOfPlace
  <2>2. PICK i \in 1 .. Len(outcomes) : c = Schedule[i]
    BY <2>1
  <2>3. CellsOf(outcomes)[c] = outcomes[i]
    BY <2>2, CellOfPlace
  <2>4. QED
    BY <1>1, <2>3
<1>3. QED
  BY <1>2 DEF CellsOK

(* All keys are paired exactly when the log is full. *)
LEMMA PairedWhenFull ==
  ASSUME NEW outcomes, IsLog(outcomes)
  PROVE  Paired(CellsOf(outcomes)) = Keys <=> Len(outcomes) = N
<1>1. ASSUME Len(outcomes) = N, NEW k \in Keys
      PROVE  {<<k, "incumbent">>, <<k, "challenger">>} \subseteq DOMAIN CellsOf(outcomes)
  <2>1. PICK j \in Places : KeyOrder[j] = k
    BY KeysInOrder
  <2>2. /\ 2 * j - 1 \in 1 .. N /\ Schedule[2 * j - 1] = <<k, "incumbent">>
        /\ 2 * j \in 1 .. N /\ Schedule[2 * j] = <<k, "challenger">>
    BY <2>1, ScheduleOfPlace
  <2>3. DOMAIN CellsOf(outcomes) = {Schedule[i] : i \in 1 .. Len(outcomes)}
    BY CellOfPlace
  <2>4. QED
    BY <1>1, <2>2, <2>3
<1>2. ASSUME Paired(CellsOf(outcomes)) = Keys
      PROVE  Len(outcomes) = N
  <2> DEFINE M == Len(Suite) * Repeats
  <2>1. M \in Nat \ {0} /\ N = 2 * M
    BY Shape
  <2> HIDE DEF M
  <2>2. M \in Places
    BY <2>1 DEF M, Places
  <2>3. KeyOrder[M] \in Keys
    BY <2>2, KeysInOrder
  <2>4. Schedule[N] = <<KeyOrder[M], "challenger">> /\ N \in 1 .. N
    BY <2>1, <2>2, ScheduleOfPlace
  <2>5. Schedule[N] \in DOMAIN CellsOf(outcomes)
    BY <1>2, <2>3, <2>4 DEF Paired
  <2>6. PICK i \in 1 .. Len(outcomes) : Schedule[i] = Schedule[N]
    <3>1. DOMAIN CellsOf(outcomes) = {Schedule[i] : i \in 1 .. Len(outcomes)}
      BY CellOfPlace
    <3>2. QED
      BY <2>5, <3>1
  <2>7. i = N
    BY <2>4, <2>6, CellOfPlace, ScheduleIsInjective
  <2>8. QED
    BY <2>1, <2>7 DEF IsLog
<1>3. QED
  BY <1>1, <1>2 DEF Paired

-----------------------------------------------------------------------------
(* The inductive invariant *)

LogInvariant ==
  /\ policy \in Policies
  /\ IsLog(cells)
  /\ state \in {"active", "complete", "failed"}

(* The directory has been active with every number of cells it has, and in *)
(* its final state with the cells it has now and no others.                *)
MomentsInvariant ==
  /\ \A n \in 0 .. Len(cells) : <<"active", n>> \in moments
  /\ <<state, Len(cells)>> \in moments
  /\ \A moment \in moments :
       /\ moment = <<moment[1], moment[2]>>
       /\ moment[2] \in 0 .. Len(cells)
       /\ moment[1] # "active" => moment = <<state, Len(cells)>>

(* The comparison and the decision are of one moment. *)
OfOneMoment ==
  /\ decision = Evaluate(policy, comparison)
  /\ \E moment \in moments :
       comparison = Build(moment[1], CellsOf(SubSeq(cells, 1, moment[2])))

CommandInvariant ==
  /\ pc \in {"idle", "status", "cells", "publish", "done", "refused"}
  /\ load \in 1 .. 4
  /\ pc = "cells" => opened \in {"active", state}
  /\ load \in {1, 2} => comparison = Nothing
  /\ load \in {3, 4} => OfOneMoment /\ ~ Overflows(comparison)
  /\ pc = "publish" => load = 4
  /\ published # Nothing => load = 4 /\ pc = "done" /\ published = decision

IInv == LogInvariant /\ MomentsInvariant /\ CommandInvariant

(* The invariant holds at the start. *)
LEMMA InitIsMoment == Init => IInv
<1>1. SUFFICES ASSUME Init PROVE IInv
  OBVIOUS
<1>2. Len(cells) = 0 /\ cells = <<>>
  BY <1>1 DEF Init
<1>3. LogInvariant
  BY <1>1, <1>2, Shape DEF Init, LogInvariant, IsLog
<1>4. MomentsInvariant
  BY <1>1, <1>2 DEF Init, MomentsInvariant
<1>5. CommandInvariant
  BY <1>1 DEF Init, CommandInvariant
<1>6. QED
  BY <1>3, <1>4, <1>5 DEF IInv

(* A prefix of the log is a log. *)
LEMMA Prefix ==
  ASSUME NEW outcomes, IsLog(outcomes), NEW n \in 0 .. Len(outcomes)
  PROVE  /\ IsLog(SubSeq(outcomes, 1, n)) /\ Len(SubSeq(outcomes, 1, n)) = n
         /\ n = Len(outcomes) => SubSeq(outcomes, 1, n) = outcomes
<1> DEFINE Outcomes == UNION {OutcomesAt[i] : i \in 1 .. N}
           prefix == SubSeq(outcomes, 1, n)
<1>1. outcomes \in Seq(Outcomes) /\ Len(outcomes) \in 0 .. N /\ N \in Nat
  BY Shape DEF IsLog
<1>2. \A i \in 1 .. Len(outcomes) : outcomes[i] \in OutcomesAt[i]
  BY DEF IsLog
<1> HIDE DEF Outcomes
<1>3. prefix = [i \in 1 .. n |-> outcomes[i]] /\ prefix \in Seq(Outcomes) /\ Len(prefix) = n
  BY <1>1
<1>4. IsLog(prefix)
  BY <1>1, <1>2, <1>3 DEF IsLog, Outcomes
<1>5. n = Len(outcomes) => prefix = outcomes
  BY <1>1, <1>3
<1>6. QED
  BY <1>3, <1>4, <1>5

(* One outcome more makes a log, and changes none of its prefixes. *)
LEMMA LongerLog ==
  ASSUME NEW outcomes, IsLog(outcomes), NEW outcome, Len(outcomes) < N,
         outcome \in OutcomesAt[Len(outcomes) + 1]
  PROVE  /\ IsLog(Append(outcomes, outcome))
         /\ Len(Append(outcomes, outcome)) = Len(outcomes) + 1
         /\ \A n \in 0 .. Len(outcomes) :
              SubSeq(Append(outcomes, outcome), 1, n) = SubSeq(outcomes, 1, n)
<1> DEFINE Outcomes == UNION {OutcomesAt[i] : i \in 1 .. N}
           longer == Append(outcomes, outcome)
<1>1. outcomes \in Seq(Outcomes) /\ Len(outcomes) \in 0 .. N /\ N \in Nat
  BY Shape DEF IsLog
<1>2. \A i \in 1 .. Len(outcomes) : outcomes[i] \in OutcomesAt[i]
  BY DEF IsLog
<1>3. outcome \in Outcomes
  BY <1>1
<1> HIDE DEF Outcomes
<1>4. /\ longer \in Seq(Outcomes) /\ Len(longer) = Len(outcomes) + 1
      /\ \A i \in 1 .. Len(outcomes) : longer[i] = outcomes[i]
      /\ longer[Len(outcomes) + 1] = outcome
  BY <1>1, <1>3
<1>5. IsLog(longer)
  BY <1>1, <1>2, <1>4 DEF IsLog, Outcomes
<1>6. ASSUME NEW n \in 0 .. Len(outcomes)
      PROVE  SubSeq(longer, 1, n) = SubSeq(outcomes, 1, n)
  <2> HIDE DEF longer
  <2>1. /\ SubSeq(longer, 1, n) = [i \in 1 .. n |-> longer[i]]
        /\ SubSeq(outcomes, 1, n) = [i \in 1 .. n |-> outcomes[i]]
    BY <1>1, <1>4
  <2>2. QED
    BY <1>1, <1>4, <2>1
<1>7. QED
  BY <1>4, <1>5, <1>6

(* A step of the evaluation: it ends the run or adds a cell, while the run *)
(* is active.                                                              *)
LEMMA EvaluationStep ==
  ASSUME Evaluation
  PROVE  /\ state = "active"
         /\ \/ /\ Len(cells) < N /\ state' = state
               /\ \E outcome \in OutcomesAt[Len(cells) + 1] : cells' = Append(cells, outcome)
            \/ cells' = cells /\ state' \in {"complete", "failed"}
         /\ moments' = moments \cup {<<state', Len(cells')>>}
         /\ UNCHANGED <<policy, pc, load, opened, run, comparison, decision, published>>
BY DEF Evaluation, command, Log!LogNext, Log!RecordCell, Log!CompleteRun, Log!FailRun

(* What the command has is still of one moment when the log has grown.     *)
LEMMA StaysOfOneMoment ==
  ASSUME LogInvariant, MomentsInvariant, OfOneMoment,
         UNCHANGED <<policy, comparison, decision>>, moments \subseteq moments',
         \A n \in 0 .. Len(cells) : SubSeq(cells', 1, n) = SubSeq(cells, 1, n)
  PROVE  OfOneMoment'
<1>1. PICK moment \in moments :
        comparison = Build(moment[1], CellsOf(SubSeq(cells, 1, moment[2])))
  BY DEF OfOneMoment
<1>2. moment \in moments' /\ SubSeq(cells', 1, moment[2]) = SubSeq(cells, 1, moment[2])
  BY <1>1 DEF MomentsInvariant
<1>3. \E m \in moments' : comparison' = Build(m[1], CellsOf(SubSeq(cells', 1, m[2])))
  BY <1>1, <1>2
<1>4. decision' = Evaluate(policy', comparison')
  BY DEF OfOneMoment
<1>5. QED
  BY <1>3, <1>4 DEF OfOneMoment

(* The evaluation keeps the invariant. *)
LEMMA EvaluationKeeps ==
  ASSUME IInv, Evaluation
  PROVE  IInv'
<1>1. LogInvariant /\ MomentsInvariant /\ CommandInvariant
  BY DEF IInv
<1>2. /\ state = "active" /\ moments' = moments \cup {<<state', Len(cells')>>}
      /\ UNCHANGED <<policy, pc, load, opened, run, comparison, decision, published>>
  BY EvaluationStep
<1>3. /\ IsLog(cells) /\ Len(cells) \in 0 .. N /\ N \in Nat
  BY <1>1, Shape DEF LogInvariant, IsLog
<1>4. /\ IsLog(cells') /\ Len(cells') \in Nat /\ Len(cells) <= Len(cells')
      /\ \A n \in 0 .. Len(cells) : SubSeq(cells', 1, n) = SubSeq(cells, 1, n)
      /\ \/ state' = "active" /\ Len(cells') = Len(cells) + 1
         \/ state' \in {"complete", "failed"} /\ Len(cells') = Len(cells)
  <2>1. CASE /\ Len(cells) < N /\ state' = state
             /\ \E outcome \in OutcomesAt[Len(cells) + 1] : cells' = Append(cells, outcome)
    BY <1>2, <1>3, <2>1, LongerLog
  <2>2. CASE cells' = cells /\ state' \in {"complete", "failed"}
    BY <1>3, <2>2
  <2>3. QED
    BY <2>1, <2>2, EvaluationStep
<1>5. LogInvariant'
  BY <1>1, <1>2, <1>4 DEF LogInvariant
<1>6. MomentsInvariant'
  <2>1. ASSUME NEW n \in 0 .. Len(cells')
        PROVE  <<"active", n>> \in moments'
    <3>1. CASE n \in 0 .. Len(cells)
      BY <1>1, <1>2, <3>1 DEF MomentsInvariant
    <3>2. CASE n \notin 0 .. Len(cells)
      <4>1. n = Len(cells') /\ state' = "active"
        BY <1>3, <1>4, <3>2
      <4>2. QED
        BY <1>2, <4>1
    <3>3. QED
      BY <3>1, <3>2
  <2>2. ASSUME NEW moment \in moments'
        PROVE  /\ moment = <<moment[1], moment[2]>>
               /\ moment[2] \in 0 .. Len(cells')
               /\ moment[1] # "active" => moment = <<state', Len(cells')>>
    <3>1. CASE moment \in moments
      <4>1. moment[1] = "active"
        <5>1. moment[1] # "active" => moment = <<state, Len(cells)>>
          BY <1>1, <3>1 DEF MomentsInvariant
        <5>2. QED
          BY <1>2, <5>1
      <4>2. moment = <<moment[1], moment[2]>> /\ moment[2] \in 0 .. Len(cells)
        BY <1>1, <3>1 DEF MomentsInvariant
      <4>3. QED
        BY <1>3, <1>4, <4>1, <4>2
    <3>2. CASE moment = <<state', Len(cells')>>
      BY <1>4, <3>2
    <3>3. QED
      BY <1>2, <2>2, <3>1, <3>2
  <2>3. <<state', Len(cells')>> \in moments'
    BY <1>2
  <2>4. QED
    BY <2>1, <2>2, <2>3 DEF MomentsInvariant
<1>7. CommandInvariant'
  <2>1. OfOneMoment => OfOneMoment'
    BY <1>1, <1>2, <1>4, StaysOfOneMoment
  <2>2. opened \in {"active", state} => opened' \in {"active", state'}
    BY <1>2
  <2>3. QED
    BY <1>1, <1>2, <2>1, <2>2 DEF CommandInvariant
<1>8. QED
  BY <1>5, <1>6, <1>7 DEF IInv

(* What a load has read is what the directory was at one moment.           *)
LEMMA ReadIsOfOneMoment ==
  ASSUME IInv, opened \in {"active", state}
  PROVE  /\ <<opened, Len(cells)>> \in moments
         /\ SubSeq(cells, 1, Len(cells)) = cells
<1>1. LogInvariant /\ MomentsInvariant /\ IsLog(cells) /\ Len(cells) \in Nat
  BY DEF IInv, LogInvariant, IsLog
<1>2. <<opened, Len(cells)>> \in moments
  BY <1>1 DEF MomentsInvariant
<1>3. SubSeq(cells, 1, Len(cells)) = cells
  BY <1>1, Prefix
<1>4. QED
  BY <1>2, <1>3

(* A load leaves the command with something of one moment. *)
LEMMA ReadKeeps ==
  ASSUME IInv, ReadCells
  PROVE  CommandInvariant'
<1> DEFINE built == Build(opened, CellsOf(cells))
<1>1. CommandInvariant /\ pc = "cells" /\ opened \in {"active", state}
  BY DEF IInv, CommandInvariant, ReadCells
<1>2. UNCHANGED <<policy, cells, state, moments, published>> /\ published = Nothing
  BY <1>1 DEF ReadCells, directory, CommandInvariant
<1>3. <<opened, Len(cells)>> \in moments /\ SubSeq(cells, 1, Len(cells)) = cells
  BY <1>1, ReadIsOfOneMoment
<1>4. CASE load \in {1, 3} /\ NextLoad /\ UNCHANGED <<comparison, decision>>
  <2>1. OfOneMoment => OfOneMoment'
    BY <1>2, <1>4 DEF OfOneMoment
  <2>2. load' = load + 1 /\ pc' = "status"
    BY <1>4 DEF NextLoad
  <2>3. QED
    BY <1>1, <1>2, <1>4, <2>1, <2>2 DEF CommandInvariant
<1>5. CASE pc' = "refused" /\ UNCHANGED <<load, comparison, decision>>
  <2>1. OfOneMoment => OfOneMoment'
    BY <1>2, <1>5 DEF OfOneMoment
  <2>2. QED
    BY <1>1, <1>2, <1>5, <2>1 DEF CommandInvariant
<1>6. CASE /\ load = 2 /\ ~ Overflows(built) /\ NextLoad
           /\ comparison' = built /\ decision' = Evaluate(policy, built)
  <2>1. OfOneMoment'
    <3>1. decision' = Evaluate(policy', comparison')
      BY <1>2, <1>6
    <3>2. comparison' = Build(opened, CellsOf(SubSeq(cells', 1, Len(cells))))
      BY <1>2, <1>3, <1>6
    <3>3. <<opened, Len(cells)>> \in moments'
      BY <1>2, <1>3
    <3>4. \E m \in moments' : comparison' = Build(m[1], CellsOf(SubSeq(cells', 1, m[2])))
      BY <3>2, <3>3
    <3>5. QED
      BY <3>1, <3>4 DEF OfOneMoment
  <2>2. load' = 3 /\ pc' = "status" /\ ~ Overflows(comparison')
    BY <1>6 DEF NextLoad
  <2>3. QED
    BY <1>2, <2>1, <2>2 DEF CommandInvariant
<1>7. CASE load = 4 /\ pc' = "publish" /\ UNCHANGED <<load, comparison, decision>>
  <2>1. OfOneMoment'
    BY <1>1, <1>2, <1>7 DEF OfOneMoment, CommandInvariant
  <2>2. ~ Overflows(comparison')
    BY <1>1, <1>7 DEF CommandInvariant
  <2>3. QED
    BY <1>2, <1>7, <2>1, <2>2 DEF CommandInvariant
<1>8. QED
  BY <1>4, <1>5, <1>6, <1>7 DEF ReadCells

(* The command keeps the invariant. *)
LEMMA CommandKeeps ==
  ASSUME IInv, Start \/ ReadStatus \/ ReadCells \/ GiveUp \/ Publish \/ UNCHANGED vars
  PROVE  IInv'
<1>1. UNCHANGED <<policy, cells, state, moments>>
  BY DEF Start, ReadStatus, ReadCells, GiveUp, Publish, vars, directory
<1>2. LogInvariant' /\ MomentsInvariant'
  BY <1>1 DEF IInv, LogInvariant, MomentsInvariant
<1>3. CommandInvariant
  BY DEF IInv
<1>4. CASE Start
  <2>1. OfOneMoment => OfOneMoment'
    BY <1>1, <1>4 DEF Start, OfOneMoment
  <2>2. QED
    BY <1>2, <1>3, <1>4, <2>1 DEF Start, CommandInvariant, IInv
<1>5. CASE ReadStatus
  <2>1. OfOneMoment => OfOneMoment'
    BY <1>1, <1>5 DEF ReadStatus, OfOneMoment
  <2>2. QED
    BY <1>1, <1>2, <1>3, <1>5, <2>1 DEF ReadStatus, CommandInvariant, IInv
<1>6. CASE ReadCells
  BY <1>2, <1>6, ReadKeeps DEF IInv
<1>7. CASE GiveUp
  <2>1. OfOneMoment => OfOneMoment'
    BY <1>1, <1>7 DEF GiveUp, OfOneMoment
  <2>2. QED
    BY <1>2, <1>3, <1>7, <2>1 DEF GiveUp, CommandInvariant, IInv
<1>8. CASE Publish
  <2>1. OfOneMoment => OfOneMoment'
    BY <1>1, <1>8 DEF Publish, OfOneMoment
  <2>2. QED
    BY <1>2, <1>3, <1>8, <2>1 DEF Publish, CommandInvariant, IInv
<1>9. CASE UNCHANGED vars
  <2>1. UNCHANGED <<pc, load, opened, comparison, decision, published>>
    BY <1>9 DEF vars, command
  <2>2. OfOneMoment => OfOneMoment'
    BY <1>1, <2>1 DEF OfOneMoment
  <2>3. QED
    BY <1>1, <1>2, <1>3, <2>1, <2>2 DEF CommandInvariant, IInv
<1>10. QED
  BY <1>4, <1>5, <1>6, <1>7, <1>8, <1>9

(* What the command holds is of one moment of the directory, in every      *)
(* reachable state: the inductive invariant.                               *)
THEOREM Invariance == Spec => []IInv
<1>1. IInv /\ [Next]_vars => IInv'
  BY EvaluationKeeps, CommandKeeps DEF Next, Rest
<1>2. QED
  BY <1>1, InitIsMoment, PTL DEF Spec

(* Every comparison and decision the command reaches is that of a state    *)
(* the directory was in at one moment (DecisionOfOneMoment), although      *)
(* status and cells are read one after the other while both may change.    *)
THEOREM OneMoment == Spec => []DecisionOfOneMoment
<1>1. IInv => DecisionOfOneMoment
  <2>1. SUFFICES ASSUME IInv, comparison # Nothing PROVE OfOneMoment
                 /\ \A moment : comparison = Build(moment[1], CellsOf(SubSeq(cells, 1, moment[2])))
                                => moment[1] = comparison.state
    BY DEF DecisionOfOneMoment, OfOneMoment
  <2>2. OfOneMoment
    BY <2>1 DEF IInv, CommandInvariant
  <2>3. QED
    BY <2>2, ReportFields
<1>2. QED
  BY <1>1, Invariance, PTL

-----------------------------------------------------------------------------
(* What is asked of the cells is what is asked of the pairs. *)

Candidates == {i \in 1 .. N : i % 2 = 0}

(* The cells of the candidate are at the even places, one for each key. *)
LEMMA CandidateCells ==
  /\ \A i \in Candidates : Schedule[i] = <<Schedule[i][1], "challenger">> /\ Schedule[i][1] \in Keys
  /\ \A k \in Keys : \E i \in Candidates : Schedule[i][1] = k
  /\ \A i, j \in Candidates : Schedule[i][1] = Schedule[j][1] => i = j
  /\ IsFiniteSet(Candidates)
<1>1. ASSUME NEW i \in Candidates
      PROVE  Schedule[i] = <<Schedule[i][1], "challenger">> /\ Schedule[i][1] \in Keys
  <2>1. i \in 1 .. N /\ i % 2 = 0
    BY DEF Candidates
  <2>2. PICK j \in Places : i = 2 * j - 1 \/ i = 2 * j
    BY <2>1, PlaceOfCell
  <2>3. j \in Int
    BY Shape DEF Places
  <2>4. i = 2 * j
    BY <2>1, <2>2, <2>3
  <2>5. Schedule[i] = <<KeyOrder[j], "challenger">> /\ KeyOrder[j] \in Keys
    BY <2>4, ScheduleOfPlace, KeysInOrder
  <2>6. QED
    BY <2>5
<1>2. ASSUME NEW k \in Keys
      PROVE  \E i \in Candidates : Schedule[i][1] = k
  <2>1. PICK j \in Places : KeyOrder[j] = k
    BY KeysInOrder
  <2>2. 2 * j \in 1 .. N /\ Schedule[2 * j] = <<k, "challenger">> /\ j \in Int
    BY <2>1, ScheduleOfPlace, Shape DEF Places
  <2>3. 2 * j \in Candidates
    BY <2>2 DEF Candidates
  <2>4. QED
    BY <2>2, <2>3
<1>3. ASSUME NEW i \in Candidates, NEW j \in Candidates, Schedule[i][1] = Schedule[j][1]
      PROVE  i = j
  <2>1. Schedule[i] = Schedule[j]
    BY <1>1, <1>3
  <2>2. QED
    BY <2>1, ScheduleIsInjective DEF Candidates
<1>4. IsFiniteSet(Candidates)
  <2>1. IsFiniteSet(1 .. N)
    BY Shape, FS_Interval
  <2>2. QED
    BY <2>1, FS_Subset DEF Candidates
<1>5. QED
  BY <1>1, <1>2, <1>3, <1>4

(* The cell of the candidate for a key is the one recorded at its place. *)
LEMMA ChallengerOfPlace ==
  ASSUME LogInvariant, Len(cells) = N, NEW i \in Candidates
  PROVE  Challenger(CellsOf(cells), Schedule[i][1]) = cells[i]
<1>1. IsLog(cells) /\ i \in 1 .. N
  BY DEF LogInvariant, Candidates
<1>2. CellsOf(cells)[Schedule[i]] = cells[i]
  BY <1>1, CellOfPlace
<1>3. Schedule[i] = <<Schedule[i][1], "challenger">>
  BY CandidateCells
<1>4. QED
  BY <1>2, <1>3 DEF Challenger

(* As many places as keys, and as many of one kind of either. *)
LEMMA PlacesMatchKeys ==
  ASSUME NEW places \in SUBSET Candidates, NEW keys \in SUBSET Keys,
         \A i \in Candidates : i \in places <=> Schedule[i][1] \in keys
  PROVE  Cardinality(places) = Cardinality(keys)
<1> DEFINE f == [i \in places |-> Schedule[i][1]]
<1>1. f \in [places -> keys]
  BY CandidateCells
<1>2. \A i, j \in places : f[i] = f[j] => i = j
  BY CandidateCells
<1>3. \A k \in keys : \E i \in places : f[i] = k
  BY CandidateCells
<1> HIDE DEF f
<1>4. f \in Surjection(places, keys) /\ f \in Injection(places, keys)
  BY <1>1, <1>2, <1>3 DEF Injection, Surjection, IsInjective
<1>5. IsFiniteSet(places)
  BY CandidateCells, FS_Subset
<1>6. QED
  BY <1>4, <1>5, FS_Surjection

(* The hard demands, over cells and over pairs. *)
LEMMA EarnedHard ==
  ASSUME LogInvariant, Len(cells) = N
  PROVE  HardDemand(CellsOf(cells), policy.hard) <=>
           /\ "require_completed" \in policy.hard.require =>
                \A i \in Candidates : cells[i].completed
           /\ "require_contract_valid" \in policy.hard.require =>
                \A i \in Candidates : cells[i].contractValid
           /\ Cardinality({i \in Candidates : Failed(cells[i])}) * policy.hard.maxFailureRate[2]
                <= policy.hard.maxFailureRate[1] * Cardinality(Candidates)
           /\ \A m \in DOMAIN policy.hard.floors, i \in Candidates :
                Measured(cells[i], m) /\ cells[i].metrics[m] >= policy.hard.floors[m]
<1> DEFINE all == CellsOf(cells)
           of(i) == Schedule[i][1]
           floor(m, outcome) ==
             Measured(outcome, m) /\ outcome.metrics[m] >= policy.hard.floors[m]
<1>1. /\ \A i \in Candidates : of(i) \in Keys /\ Challenger(all, of(i)) = cells[i]
      /\ \A k \in Keys : \E i \in Candidates : of(i) = k
  BY CandidateCells, ChallengerOfPlace
<1>2. Cardinality(Candidates) = Cardinality(Keys)
  BY CandidateCells, PlacesMatchKeys
<1>3. Cardinality({i \in Candidates : Failed(cells[i])})
        = Cardinality({k \in Keys : Failed(Challenger(all, k))})
  <2> DEFINE places == {i \in Candidates : Failed(cells[i])}
             keys == {k \in Keys : Failed(Challenger(all, k))}
  <2>1. \A i \in Candidates : i \in places <=> of(i) \in keys
    BY <1>1
  <2>2. places \in SUBSET Candidates /\ keys \in SUBSET Keys
    OBVIOUS
  <2> HIDE DEF places, keys, all
  <2>3. Cardinality(places) = Cardinality(keys)
    BY <2>1, <2>2, PlacesMatchKeys
  <2>4. QED
    BY <2>3 DEF places, keys
<1> HIDE DEF all, of, floor
<1>4. (\A k \in Keys : Challenger(all, k).completed) <=> \A i \in Candidates : cells[i].completed
  BY <1>1
<1>5. (\A k \in Keys : Challenger(all, k).contractValid)
        <=> \A i \in Candidates : cells[i].contractValid
  BY <1>1
<1>6. \A m : (\A k \in Keys : floor(m, Challenger(all, k)))
               <=> \A i \in Candidates : floor(m, cells[i])
  BY <1>1
<1>7. HardDemand(all, policy.hard) <=>
           /\ "require_completed" \in policy.hard.require =>
                \A k \in Keys : Challenger(all, k).completed
           /\ "require_contract_valid" \in policy.hard.require =>
                \A k \in Keys : Challenger(all, k).contractValid
           /\ Cardinality({k \in Keys : Failed(Challenger(all, k))}) * policy.hard.maxFailureRate[2]
                <= policy.hard.maxFailureRate[1] * Cardinality(Keys)
           /\ \A m \in DOMAIN policy.hard.floors : \A k \in Keys : floor(m, Challenger(all, k))
  BY DEF HardDemand, floor
<1>8. (\A m \in DOMAIN policy.hard.floors : \A k \in Keys : floor(m, Challenger(all, k)))
        <=> \A m \in DOMAIN policy.hard.floors, i \in Candidates :
              Measured(cells[i], m) /\ cells[i].metrics[m] >= policy.hard.floors[m]
  BY <1>6 DEF floor
<1>9. QED
  BY <1>2, <1>3, <1>4, <1>5, <1>7, <1>8 DEF all

(* A metric is compared where both sides measured it. *)
LEMMA ComparedKeys ==
  ASSUME NEW keys \in SUBSET Keys, NEW metric
  PROVE  keys \subseteq Compared(metric) <=>
           \A k \in keys : MeasuredInBoth(CellsOf(cells), k, metric)
BY DEF Compared, MeasuredInBoth, Incumbent, Challenger

(* The two sums that Earned takes. *)
LEMMA SumOfDeltaOf ==
  ASSUME NEW keys, IsFiniteSet(keys), NEW metric
  PROVE  MapThenSumSet(LAMBDA k : DeltaOf(k, metric), keys)
           = TotalDelta(CellsOf(cells), keys, metric)
<1> DEFINE f == [k \in keys |-> Delta(CellsOf(cells), k, metric)]
           summed(sum) == sum = [s \in SUBSET keys |->
                                   IF s = {} THEN 0
                                   ELSE DeltaOf(Pick(s), metric) + sum[s \ {Pick(s)}]]
<1>1. MapThenSumSet(LAMBDA k : DeltaOf(k, metric), keys) = (CHOOSE sum : summed(sum))[keys]
  BY DEF MapThenSumSet, MapThenFoldSet, Pick
<1>2. \A sum : summed(sum) <=> AddsUp(sum, f, keys)
  <2>1. TAKE sum
  <2>2. \A s \in SUBSET keys : s # {} => f[Pick(s)] = DeltaOf(Pick(s), metric)
    BY PickInSet DEF Delta, DeltaOf, Incumbent, Challenger
  <2> HIDE DEF f
  <2>3. QED
    BY <2>2 DEF AddsUp
<1> HIDE DEF summed, f
<1>3. AddsUp(CHOOSE sum : summed(sum), f, keys)
  BY <1>2, SumExists
<1>4. (CHOOSE sum : summed(sum))[keys] = SumOver(f, keys)
  BY <1>3, SumFound
<1>5. QED
  BY <1>1, <1>4 DEF f, TotalDelta

(* A limit taken off each delta is taken off the sum. *)
LEMMA SumOfDeltaOfLess ==
  ASSUME NEW keys, IsFiniteSet(keys), NEW metric, NEW limit \in Int,
         \A k \in keys : Delta(CellsOf(cells), k, metric) \in Int
  PROVE  MapThenSumSet(LAMBDA k : DeltaOf(k, metric) - limit, keys)
           = TotalDelta(CellsOf(cells), keys, metric) - limit * Cardinality(keys)
<1> DEFINE f == [k \in keys |-> Delta(CellsOf(cells), k, metric)]
           g == [k \in keys |-> Delta(CellsOf(cells), k, metric) - limit]
           summed(sum) == sum = [s \in SUBSET keys |->
                                   IF s = {} THEN 0
                                   ELSE (DeltaOf(Pick(s), metric) - limit) + sum[s \ {Pick(s)}]]
<1>1. MapThenSumSet(LAMBDA k : DeltaOf(k, metric) - limit, keys)
        = (CHOOSE sum : summed(sum))[keys]
  BY DEF MapThenSumSet, MapThenFoldSet, Pick
<1>2. \A sum : summed(sum) <=> AddsUp(sum, g, keys)
  <2>1. TAKE sum
  <2>2. \A s \in SUBSET keys : s # {} => g[Pick(s)] = DeltaOf(Pick(s), metric) - limit
    BY PickInSet DEF Delta, DeltaOf, Incumbent, Challenger
  <2> HIDE DEF g
  <2>3. QED
    BY <2>2 DEF AddsUp
<1>3. \A k \in keys : f[k] \in Int /\ g[k] = f[k] - limit
  OBVIOUS
<1> HIDE DEF summed, f, g
<1>4. AddsUp(CHOOSE sum : summed(sum), g, keys)
  BY <1>2, SumExists
<1>5. (CHOOSE sum : summed(sum))[keys] = SumOver(g, keys)
  BY <1>4, SumFound
<1>6. SumOver(g, keys) = SumOver(f, keys) - limit * Cardinality(keys)
  BY <1>3, SumShifted
<1>7. QED
  BY <1>1, <1>5, <1>6 DEF f, TotalDelta

(* The demands on means, over cells and over pairs. *)
LEMMA EarnedMean ==
  ASSUME LogInvariant, Len(cells) = N, NEW keys \in SUBSET Keys, NEW metric, NEW limit \in Int
  PROVE  /\ MeanOver(keys, metric, limit) <=> MeanDemand(CellsOf(cells), keys, metric, limit)
         /\ PositiveMeanOver(keys, metric) <=>
              /\ \A k \in keys : MeasuredInBoth(CellsOf(cells), k, metric)
              /\ TotalDelta(CellsOf(cells), keys, metric) > 0
<1> DEFINE all == CellsOf(cells)
           total == TotalDelta(all, keys, metric)
           measured == \A k \in keys : MeasuredInBoth(all, k, metric)
           shortfall == MapThenSumSet(LAMBDA k : DeltaOf(k, metric) - limit, keys)
           sum == MapThenSumSet(LAMBDA k : DeltaOf(k, metric), keys)
<1>1. IsFiniteSet(keys) /\ Cardinality(keys) \in Nat
  BY KeysAreFinite
<1>2. measured => \A k \in keys : Delta(all, k, metric) \in Int
  <2>1. CellsOK(all) /\ Paired(all) = Keys
    BY CellsOfLog, PairedWhenFull DEF LogInvariant
  <2> HIDE DEF all
  <2>2. QED
    BY <2>1, CellsOfPair
<1>3. measured => shortfall = total - limit * Cardinality(keys) /\ total \in Int
  <2>1. SUFFICES ASSUME measured
                 PROVE  shortfall = total - limit * Cardinality(keys) /\ total \in Int
    OBVIOUS
  <2>2. shortfall = total - limit * Cardinality(keys)
    BY <1>1, <1>2, <2>1, SumOfDeltaOfLess
  <2> DEFINE f == [k \in keys |-> Delta(all, k, metric)]
  <2>3. \A k \in keys : f[k] \in Int
    BY <1>2, <2>1
  <2> HIDE DEF f
  <2>4. SumOver(f, keys) \in Int
    BY <1>1, <2>3, SumWithout
  <2>5. total \in Int
    BY <2>4 DEF f, TotalDelta
  <2>6. QED
    BY <2>2, <2>5
<1>4. sum = total
  BY <1>1, SumOfDeltaOf
<1>5. MeanOver(keys, metric, limit) <=> measured /\ shortfall >= 0
  BY ComparedKeys DEF MeanOver
<1>6. PositiveMeanOver(keys, metric) <=> measured /\ sum > 0
  BY ComparedKeys DEF PositiveMeanOver
<1>7. MeanDemand(all, keys, metric, limit) <=> measured /\ total >= limit * Cardinality(keys)
  BY DEF MeanDemand
<1> DEFINE asked == limit * Cardinality(keys)
<1>8. asked \in Int
  BY <1>1
<1> HIDE DEF all, total, measured, shortfall, sum, asked
<1>9. measured => (shortfall >= 0 <=> total >= asked)
  BY <1>3, <1>8 DEF asked
<1>10. MeanOver(keys, metric, limit) <=> MeanDemand(all, keys, metric, limit)
  BY <1>5, <1>7, <1>9 DEF asked
<1>11. PositiveMeanOver(keys, metric) <=> measured /\ total > 0
  BY <1>4, <1>6
<1>12. QED
  BY <1>10, <1>11 DEF all, measured, total

(* The target demands: a repeat with no targeted pair does not exist,      *)
(* since a group holds a case with all of its repeats.                     *)
LEMMA EarnedTarget ==
  ASSUME LogInvariant, Len(cells) = N
  PROVE  TargetDemand(CellsOf(cells), policy.target) <=>
           /\ Targeted(policy.target) # {}
           /\ MeanOver(Targeted(policy.target), policy.target.metric,
                       policy.target.minimumMeanDelta)
           /\ policy.target.positiveEachRepeat =>
                \A r \in 0 .. Repeats - 1 :
                  PositiveMeanOver({k \in Targeted(policy.target) : k[2] = r},
                                   policy.target.metric)
<1> DEFINE all == CellsOf(cells)
           target == policy.target
           targeted == Targeted(target)
           inRepeat(r) == {k \in targeted : k[2] = r}
           measured(keys) == \A k \in keys : MeasuredInBoth(all, k, target.metric)
           positive(keys) == TotalDelta(all, keys, target.metric) > 0
<1>1. targeted \in SUBSET Keys /\ \A r : inRepeat(r) \in SUBSET Keys
  BY DEF Targeted
<1>2. target.minimumMeanDelta \in Int
  BY PromotionAssumption DEF LogInvariant, PolicyOK
<1>3. MeanOver(targeted, target.metric, target.minimumMeanDelta)
        <=> MeanDemand(all, targeted, target.metric, target.minimumMeanDelta)
  BY <1>1, <1>2, EarnedMean
<1>4. \A r : PositiveMeanOver(inRepeat(r), target.metric)
               <=> measured(inRepeat(r)) /\ positive(inRepeat(r))
  BY <1>1, <1>2, EarnedMean
<1>5. MeanDemand(all, targeted, target.metric, target.minimumMeanDelta) => measured(targeted)
  BY DEF MeanDemand
<1>6. measured(targeted) => \A r : measured(inRepeat(r))
  OBVIOUS
<1>7. \A k \in targeted : k[2] \in 0 .. Repeats - 1
  BY DEF Targeted, Keys
<1>8. ASSUME NEW k \in targeted, NEW r \in 0 .. Repeats - 1
      PROVE  \E j \in targeted : j[2] = r
  <2>1. PICK c \in Cases, s \in 0 .. Repeats - 1 : k = <<c, s>>
    BY <1>1 DEF Keys
  <2>2. <<c, r>> \in Keys /\ <<c, r>>[1] = k[1] /\ <<c, r>>[2] = r
    BY <2>1 DEF Keys
  <2>3. <<c, r>> \in targeted
    BY <2>2 DEF Targeted
  <2>4. QED
    BY <2>2, <2>3
<1>9. TargetDemand(all, target) <=>
        /\ targeted # {}
        /\ MeanDemand(all, targeted, target.metric, target.minimumMeanDelta)
        /\ target.positiveEachRepeat => \A k \in targeted : positive(inRepeat(k[2]))
  BY DEF TargetDemand
<1> HIDE DEF all, targeted, inRepeat, measured, positive
<1>10. targeted # {} =>
         ((\A k \in targeted : positive(inRepeat(k[2])))
            <=> \A r \in 0 .. Repeats - 1 : positive(inRepeat(r)))
  BY <1>7, <1>8
<1>11. TargetDemand(all, target) <=>
         /\ targeted # {}
         /\ MeanOver(targeted, target.metric, target.minimumMeanDelta)
         /\ target.positiveEachRepeat =>
              \A r \in 0 .. Repeats - 1 : PositiveMeanOver(inRepeat(r), target.metric)
  BY <1>3, <1>4, <1>5, <1>6, <1>9, <1>10
<1>12. QED
  BY <1>11 DEF all, targeted, inRepeat

(* The limits on regressions. *)
LEMMA EarnedRegression ==
  ASSUME LogInvariant, Len(cells) = N
  PROVE  RegressionDemand(CellsOf(cells), policy.regressions) <=>
           /\ \A m \in DOMAIN policy.regressions.caseDelta, k \in Keys :
                /\ k \in Compared(m)
                /\ DeltaOf(k, m) >= policy.regressions.caseDelta[m]
           /\ \A gm \in DOMAIN policy.regressions.meanDelta :
                /\ gm[1] \in GroupNames
                /\ MeanOver(KeysIn(gm[1]), gm[2], policy.regressions.meanDelta[gm])
<1> DEFINE regressions == policy.regressions
<1>1. \A m : \A k \in Keys : /\ k \in Compared(m) <=> MeasuredInBoth(CellsOf(cells), k, m)
                            /\ DeltaOf(k, m) = Delta(CellsOf(cells), k, m)
  BY DEF Compared, MeasuredInBoth, DeltaOf, Delta, Incumbent, Challenger
<1>2. ASSUME NEW gm \in DOMAIN regressions.meanDelta
      PROVE  MeanOver(KeysIn(gm[1]), gm[2], regressions.meanDelta[gm])
               <=> MeanDemand(CellsOf(cells), KeysIn(gm[1]), gm[2], regressions.meanDelta[gm])
  <2>1. regressions.meanDelta[gm] \in Int
    BY PromotionAssumption DEF LogInvariant, PolicyOK
  <2>2. KeysIn(gm[1]) \in SUBSET Keys
    BY KeysAreFinite
  <2>3. QED
    BY <2>1, <2>2, EarnedMean
<1>3. QED
  BY <1>1, <1>2 DEF RegressionDemand

(* What has to be earned is what is demanded of a full log. *)
LEMMA EarnedIsDemanded ==
  ASSUME LogInvariant
  PROVE  Earned <=> state = "complete" /\ Len(cells) = N /\ Demands(policy, CellsOf(cells))
<1> DEFINE target == policy.target
           targeted == {k \in Keys : target.groups = {} \/ \E g \in target.groups : k \in KeysIn(g)}
<1>1. targeted = Targeted(target)
  BY DEF Targeted, KeysIn
<1>2. Earned <=>
        /\ state = "complete" /\ Len(cells) = N
        /\ "require_completed" \in policy.hard.require =>
             \A i \in Candidates : cells[i].completed
        /\ "require_contract_valid" \in policy.hard.require =>
             \A i \in Candidates : cells[i].contractValid
        /\ Cardinality({i \in Candidates : Failed(cells[i])}) * policy.hard.maxFailureRate[2]
             <= policy.hard.maxFailureRate[1] * Cardinality(Candidates)
        /\ \A m \in DOMAIN policy.hard.floors, i \in Candidates :
             Measured(cells[i], m) /\ cells[i].metrics[m] >= policy.hard.floors[m]
        /\ targeted # {}
        /\ MeanOver(targeted, target.metric, target.minimumMeanDelta)
        /\ target.positiveEachRepeat =>
             \A r \in 0 .. Repeats - 1 :
               PositiveMeanOver({k \in targeted : k[2] = r}, target.metric)
        /\ \A m \in DOMAIN policy.regressions.caseDelta, k \in Keys :
             /\ k \in Compared(m)
             /\ DeltaOf(k, m) >= policy.regressions.caseDelta[m]
        /\ \A gm \in DOMAIN policy.regressions.meanDelta :
             /\ gm[1] \in GroupNames
             /\ MeanOver(KeysIn(gm[1]), gm[2], policy.regressions.meanDelta[gm])
  BY DEF Earned, Candidates
<1> HIDE DEF targeted
<1>3. QED
  BY <1>1, <1>2, EarnedHard, EarnedTarget, EarnedRegression DEF Demands

(* What the directory would be decided to be. *)
LEMMA PassOfDirectory ==
  ASSUME LogInvariant, NEW st
  PROVE  Evaluate(policy, Build(st, CellsOf(cells))).status = "pass" <=>
           st = "complete" /\ Len(cells) = N /\ Demands(policy, CellsOf(cells))
<1>1. PolicyOK(policy) /\ CellsOK(CellsOf(cells))
  BY CellsOfLog, PromotionAssumption DEF LogInvariant
<1>2. Paired(CellsOf(cells)) = Keys <=> Len(cells) = N
  BY PairedWhenFull DEF LogInvariant
<1>3. QED
  BY <1>1, <1>2, PassMeansDemands

(* The decision over the directory is pass exactly when the run is complete *)
(* and its cells meet every demand of the policy (PassIsEarned).           *)
THEOREM EarnedPass == Spec => []PassIsEarned
<1>1. LogInvariant => PassIsEarned
  BY PassOfDirectory, EarnedIsDemanded DEF PassIsEarned, DirectoryDecision
<1>2. QED
  BY <1>1, Invariance, PTL DEF IInv

(* A published pass is that of a run that is complete and has earned it,   *)
(* whatever was recorded while the command loaded, compared and decided    *)
(* (PublishedPassIsEarned).                                                *)
THEOREM EarnedPublishedPass == Spec => []PublishedPassIsEarned
<1>1. IInv => PublishedPassIsEarned
  <2>1. SUFFICES ASSUME IInv, published # Nothing, published.status = "pass"
                 PROVE  Earned
    BY DEF PublishedPassIsEarned
  <2>2. LogInvariant /\ MomentsInvariant /\ OfOneMoment /\ published = decision
    BY <2>1 DEF IInv, CommandInvariant
  <2>3. PICK moment \in moments :
          comparison = Build(moment[1], CellsOf(SubSeq(cells, 1, moment[2])))
    BY <2>2 DEF OfOneMoment
  <2> DEFINE prefix == SubSeq(cells, 1, moment[2])
  <2>4. IsLog(prefix) /\ Len(prefix) = moment[2] /\ moment[2] \in 0 .. Len(cells)
    BY <2>2, <2>3, Prefix DEF LogInvariant, MomentsInvariant
  <2>5. Evaluate(policy, Build(moment[1], CellsOf(prefix))).status = "pass"
    BY <2>1, <2>2, <2>3 DEF OfOneMoment
  <2> HIDE DEF prefix
  <2>6. PolicyOK(policy) /\ CellsOK(CellsOf(prefix))
    BY <2>2, <2>4, CellsOfLog, PromotionAssumption DEF LogInvariant
  <2>7. moment[1] = "complete" /\ Paired(CellsOf(prefix)) = Keys
          /\ Demands(policy, CellsOf(prefix))
    BY <2>5, <2>6, PassMeansDemands
  <2>8. moment = <<state, Len(cells)>>
    BY <2>2, <2>3, <2>7 DEF MomentsInvariant
  <2>9. moment[1] = state /\ moment[2] = Len(cells)
    BY <2>8
  <2>10. prefix = cells
    BY <2>2, <2>4, <2>9, Prefix DEF LogInvariant, prefix
  <2>11. Len(cells) = N
    BY <2>4, <2>7, <2>10, PairedWhenFull
  <2>12. QED
    BY <2>2, <2>7, <2>9, <2>10, <2>11, EarnedIsDemanded
<1>2. QED
  BY <1>1, Invariance, PTL

(* A decision is pass or fail. *)
LEMMA PassOrFail ==
  ASSUME NEW report, NEW rules
  PROVE  /\ Evaluate(rules, report).status \in {"pass", "fail"}
         /\ Evaluate(rules, report).status = "fail" <=> Evaluate(rules, report).status # "pass"
BY DEF Evaluate

(* Every cell of a log is one of a key. *)
LEMMA CellOfLog ==
  ASSUME LogInvariant, NEW c \in DOMAIN CellsOf(cells)
  PROVE  \E k \in Keys : c = <<k, "incumbent">> \/ c = <<k, "challenger">>
<1>1. IsLog(cells) /\ DOMAIN CellsOf(cells) = {Schedule[i] : i \in 1 .. Len(cells)}
        /\ 1 .. Len(cells) \subseteq 1 .. N
  BY CellOfPlace DEF LogInvariant
<1>2. PICK i \in 1 .. N : c = Schedule[i]
  BY <1>1
<1>3. PICK j \in Places : i = 2 * j - 1 \/ i = 2 * j
  BY PlaceOfCell
<1>4. QED
  BY <1>2, <1>3, ScheduleOfPlace, KeysInOrder

(* One cell changed for the worse. *)
LEMMA OneCellNoBetter ==
  ASSUME LogInvariant, NEW c \in DOMAIN CellsOf(cells), NEW outcome, OutcomeOK(outcome),
         outcome.completed = CellsOf(cells)[c].completed,
         outcome.contractValid = CellsOf(cells)[c].contractValid,
         \A m : Measured(outcome, m) =>
           /\ Measured(CellsOf(cells)[c], m)
           /\ c[2] = "challenger" => outcome.metrics[m] <= CellsOf(cells)[c].metrics[m]
           /\ c[2] = "incumbent" => CellsOf(cells)[c].metrics[m] <= outcome.metrics[m],
         Evaluate(policy, Build(state, CellsOf(cells))).status = "fail"
  PROVE  Evaluate(policy, Build(state, [CellsOf(cells) EXCEPT ![c] = outcome])).status = "fail"
<1> DEFINE all == CellsOf(cells)
           worse == [all EXCEPT ![c] = outcome]
<1>1. CellsOK(all) /\ PolicyOK(policy)
  BY CellsOfLog, PromotionAssumption DEF LogInvariant
<1>2. PICK key \in Keys : c = <<key, "incumbent">> \/ c = <<key, "challenger">>
  BY CellOfLog
<1>3. /\ DOMAIN worse = DOMAIN all /\ worse[c] = outcome
      /\ \A d \in DOMAIN all : d # c => worse[d] = all[d]
  OBVIOUS
<1> HIDE DEF all, worse
<1>4. CellsOK(worse)
  BY <1>1, <1>3 DEF CellsOK
<1>5. Paired(worse) = Keys => NoBetter(worse, all)
  <2>1. SUFFICES ASSUME Paired(worse) = Keys, NEW k \in Keys
                 PROVE  /\ Challenger(worse, k).completed = Challenger(all, k).completed
                        /\ Challenger(worse, k).contractValid = Challenger(all, k).contractValid
                        /\ \A m : Measured(Challenger(worse, k), m) =>
                             /\ Measured(Challenger(all, k), m)
                             /\ Challenger(worse, k).metrics[m] <= Challenger(all, k).metrics[m]
                        /\ \A m : Measured(Incumbent(worse, k), m) =>
                             /\ Measured(Incumbent(all, k), m)
                             /\ Incumbent(all, k).metrics[m] <= Incumbent(worse, k).metrics[m]
    BY DEF NoBetter
  <2>2. <<k, "incumbent">> \in DOMAIN all /\ <<k, "challenger">> \in DOMAIN all
    BY <1>3, <2>1 DEF Paired
  <2>3. ASSUME NEW d \in DOMAIN all, NEW m, Measured(all[d], m)
        PROVE  all[d].metrics[m] <= all[d].metrics[m]
    BY <1>1, <2>3 DEF CellsOK, OutcomeOK, Measured
  <2>4. /\ Challenger(worse, k).completed = Challenger(all, k).completed
        /\ Challenger(worse, k).contractValid = Challenger(all, k).contractValid
        /\ \A m : Measured(Challenger(worse, k), m) =>
             /\ Measured(Challenger(all, k), m)
             /\ Challenger(worse, k).metrics[m] <= Challenger(all, k).metrics[m]
    <3>1. CASE <<k, "challenger">> = c
      <4>1. c[2] = "challenger" /\ Challenger(worse, k) = outcome /\ Challenger(all, k) = all[c]
        BY <1>3, <3>1 DEF Challenger
      <4>2. QED
        BY <4>1 DEF all
    <3>2. CASE <<k, "challenger">> # c
      <4>1. Challenger(worse, k) = all[<<k, "challenger">>]
              /\ Challenger(all, k) = all[<<k, "challenger">>]
        BY <1>3, <2>2, <3>2 DEF Challenger
      <4>2. QED
        BY <2>2, <2>3, <4>1
    <3>3. QED
      BY <3>1, <3>2
  <2>5. ASSUME NEW m, Measured(Incumbent(worse, k), m)
        PROVE  /\ Measured(Incumbent(all, k), m)
               /\ Incumbent(all, k).metrics[m] <= Incumbent(worse, k).metrics[m]
    <3>1. CASE <<k, "incumbent">> = c
      <4>1. c[2] = "incumbent" /\ Incumbent(worse, k) = outcome /\ Incumbent(all, k) = all[c]
        BY <1>3, <3>1 DEF Incumbent
      <4>2. QED
        BY <2>5, <4>1 DEF all
    <3>2. CASE <<k, "incumbent">> # c
      <4>1. Incumbent(worse, k) = all[<<k, "incumbent">>]
              /\ Incumbent(all, k) = all[<<k, "incumbent">>]
        BY <1>3, <2>2, <3>2 DEF Incumbent
      <4>2. QED
        BY <2>2, <2>3, <2>5, <4>1
    <3>3. QED
      BY <3>1, <3>2
  <2>6. QED
    BY <2>4, <2>5
<1>6. Evaluate(policy, Build(state, all)).status = "fail"
  BY DEF all
<1>7. Evaluate(policy, Build(state, worse)).status # "pass"
  BY <1>1, <1>3, <1>4, <1>5, <1>6, GateIsMonotone, PassOrFail
<1>8. QED
  BY <1>7, PassOrFail DEF worse, all

(* Taking a metric or a cell away turns no fail into a pass                *)
(* (MissingNeverHelps).                                                    *)
THEOREM NothingMissingHelps == Spec => []MissingNeverHelps
<1>1. ASSUME LogInvariant PROVE MissingNeverHelps
  <2> DEFINE all == CellsOf(cells)
  <2>1. SUFFICES ASSUME Evaluate(policy, Build(state, all)).status = "fail",
                        NEW c \in DOMAIN all
                 PROVE  /\ \A m \in Metrics :
                             Evaluate(policy, Build(state,
                               [all EXCEPT ![c] = WithoutMetric(@, m)])).status = "fail"
                        /\ Evaluate(policy, Build(state,
                             [d \in DOMAIN all \ {c} |-> all[d]])).status = "fail"
    BY DEF MissingNeverHelps, DirectoryDecision
  <2>2. ASSUME NEW m \in Metrics
        PROVE  Evaluate(policy, Build(state,
                 [all EXCEPT ![c] = WithoutMetric(@, m)])).status = "fail"
    <3> DEFINE outcome == WithoutMetric(all[c], m)
    <3>1. OutcomeOK(all[c])
      BY <1>1, CellsOfLog DEF LogInvariant, CellsOK
    <3>2. /\ outcome.completed = all[c].completed
          /\ outcome.contractValid = all[c].contractValid
          /\ outcome.tokens = all[c].tokens
          /\ outcome.metrics = [x \in DOMAIN all[c].metrics \ {m} |-> all[c].metrics[x]]
      BY DEF WithoutMetric
    <3> HIDE DEF outcome, all
    <3>3. OutcomeOK(outcome)
      BY <3>1, <3>2 DEF OutcomeOK
    <3>4. ASSUME NEW x, Measured(outcome, x)
          PROVE  /\ Measured(all[c], x)
                 /\ outcome.metrics[x] <= all[c].metrics[x]
                 /\ all[c].metrics[x] <= outcome.metrics[x]
      BY <3>1, <3>2, <3>4 DEF Measured, OutcomeOK
    <3>5. Evaluate(policy, Build(state, [all EXCEPT ![c] = outcome])).status = "fail"
      BY <1>1, <2>1, <3>2, <3>3, <3>4, OneCellNoBetter DEF all
    <3>6. QED
      BY <3>5 DEF outcome
  <2>3. Evaluate(policy, Build(state, [d \in DOMAIN all \ {c} |-> all[d]])).status = "fail"
    <3> DEFINE fewer == [d \in DOMAIN all \ {c} |-> all[d]]
    <3>1. PICK k \in Keys : c = <<k, "incumbent">> \/ c = <<k, "challenger">>
      BY <1>1, CellOfLog
    <3>2. c \notin DOMAIN fewer
      OBVIOUS
    <3>3. CellsOK(all) /\ PolicyOK(policy)
      BY <1>1, CellsOfLog, PromotionAssumption DEF LogInvariant
    <3>4. CellsOK(fewer)
      BY <3>3 DEF CellsOK
    <3> HIDE DEF fewer, all
    <3>5. Paired(fewer) # Keys
      BY <3>1, <3>2 DEF Paired
    <3>6. Evaluate(policy, Build(state, fewer)).status # "pass"
      BY <3>3, <3>4, <3>5, PassMeansDemands
    <3>7. QED
      BY <3>6, PassOrFail DEF fewer
  <2>4. QED
    BY <2>2, <2>3
<1>2. QED
  BY <1>1, Invariance, PTL DEF IInv

(* Making a metric worse for the candidate, or better for the incumbent,   *)
(* turns no fail into a pass (WorseNeverHelps).                            *)
THEOREM NothingWorseHelps == Spec => []WorseNeverHelps
<1>1. ASSUME LogInvariant PROVE WorseNeverHelps
  <2> DEFINE all == CellsOf(cells)
  <2>1. SUFFICES ASSUME Evaluate(policy, Build(state, all)).status = "fail",
                        NEW c \in DOMAIN all, NEW m \in Metrics
                 PROVE  Evaluate(policy, Build(state,
                          [all EXCEPT ![c] =
                             Shifted(@, m, IF c[2] = "incumbent" THEN 1 ELSE -1)])).status = "fail"
    BY DEF WorseNeverHelps, DirectoryDecision
  <2> DEFINE by == IF c[2] = "incumbent" THEN 1 ELSE -1
             outcome == Shifted(all[c], m, by)
  <2>2. OutcomeOK(all[c])
    BY <1>1, CellsOfLog DEF LogInvariant, CellsOK
  <2>3. /\ outcome.completed = all[c].completed
        /\ outcome.contractValid = all[c].contractValid
        /\ outcome.tokens = all[c].tokens
        /\ DOMAIN outcome.metrics = DOMAIN all[c].metrics
        /\ \A x \in DOMAIN all[c].metrics :
             outcome.metrics[x] = IF x = m THEN all[c].metrics[x] + by ELSE all[c].metrics[x]
    BY DEF Shifted, Measured
  <2>4. by \in Int /\ (c[2] = "incumbent" => by = 1) /\ (c[2] = "challenger" => by = -1)
    OBVIOUS
  <2> HIDE DEF outcome, all, by
  <2>5. OutcomeOK(outcome)
    BY <2>2, <2>3, <2>4 DEF OutcomeOK
  <2>6. ASSUME NEW x, Measured(outcome, x)
        PROVE  /\ Measured(all[c], x)
               /\ c[2] = "challenger" => outcome.metrics[x] <= all[c].metrics[x]
               /\ c[2] = "incumbent" => all[c].metrics[x] <= outcome.metrics[x]
    BY <2>2, <2>3, <2>4, <2>6 DEF Measured, OutcomeOK
  <2>7. Evaluate(policy, Build(state, [all EXCEPT ![c] = outcome])).status = "fail"
    BY <1>1, <2>1, <2>3, <2>5, <2>6, OneCellNoBetter DEF all
  <2>8. QED
    BY <2>7 DEF outcome, by
<1>2. QED
  BY <1>1, Invariance, PTL DEF IInv

-----------------------------------------------------------------------------
(* The costs *)

Ints == MinInt .. MaxInt

(* An int is not wrapped. *)
LEMMA WrapOfInt ==
  ASSUME NEW n \in Ints
  PROVE  Wrap(n) = n
<1> DEFINE width == MaxInt - MinInt + 1
           offset == n - MinInt
<1>1. MaxInt \in Nat /\ MinInt = - MaxInt - 1 /\ n \in MinInt .. MaxInt
  BY FixedWidthAssumption DEF Ints, MinInt
<1>2. width \in Nat \ {0} /\ offset \in 0 .. width - 1
  BY <1>1
<1>3. offset % width = offset
  <2> HIDE DEF width, offset
  <2>1. QED
    BY <1>2
<1>4. QED
  BY <1>1, <1>3 DEF Wrap

(* A checked operation overflows or is exact. *)
LEMMA CheckedIsTrue ==
  ASSUME NEW l \in Ints, NEW r \in Ints
  PROVE  /\ CheckedAdd(l, r) = Overflow \/ (CheckedAdd(l, r) = l + r /\ l + r \in Ints)
         /\ CheckedSub(l, r) = Overflow \/ (CheckedSub(l, r) = l - r /\ l - r \in Ints)
<1>1. MaxInt \in Nat /\ MinInt = - MaxInt - 1 /\ Ints = MinInt .. MaxInt
  BY FixedWidthAssumption DEF Ints, MinInt
<1>2. CheckedAdd(l, r) = Overflow \/ (CheckedAdd(l, r) = l + r /\ l + r \in Ints)
  <2>1. SUFFICES ASSUME CheckedAdd(l, r) # Overflow
                 PROVE  CheckedAdd(l, r) = l + r /\ l + r \in Ints
    OBVIOUS
  <2>2. CheckedAdd(l, r) = Wrap(l + r) /\ ~ (r > 0 /\ l > Wrap(MaxInt - r))
          /\ ~ (r < 0 /\ l < Wrap(MinInt - r))
    BY <2>1 DEF CheckedAdd
  <2>3. l + r \in Ints
    <3>1. CASE r > 0
      <4>1. MaxInt - r \in Ints
        BY <1>1, <3>1
      <4>2. ~ (l > MaxInt - r)
        BY <2>2, <3>1, <4>1, WrapOfInt
      <4>3. QED
        BY <1>1, <3>1, <4>2
    <3>2. CASE r < 0
      <4>1. MinInt - r \in Ints
        BY <1>1, <3>2
      <4>2. ~ (l < MinInt - r)
        BY <2>2, <3>2, <4>1, WrapOfInt
      <4>3. QED
        BY <1>1, <3>2, <4>2
    <3>3. CASE r = 0
      BY <1>1, <3>3
    <3>4. QED
      BY <1>1, <3>1, <3>2, <3>3
  <2>4. QED
    BY <2>2, <2>3, WrapOfInt
<1>3. CheckedSub(l, r) = Overflow \/ (CheckedSub(l, r) = l - r /\ l - r \in Ints)
  <2>1. SUFFICES ASSUME CheckedSub(l, r) # Overflow
                 PROVE  CheckedSub(l, r) = l - r /\ l - r \in Ints
    OBVIOUS
  <2>2. CheckedSub(l, r) = Wrap(l - r) /\ ~ (r > 0 /\ l < Wrap(MinInt + r))
          /\ ~ (r < 0 /\ l > Wrap(MaxInt + r))
    BY <2>1 DEF CheckedSub
  <2>3. l - r \in Ints
    <3>1. CASE r > 0
      <4>1. MinInt + r \in Ints
        BY <1>1, <3>1
      <4>2. ~ (l < MinInt + r)
        BY <2>2, <3>1, <4>1, WrapOfInt
      <4>3. QED
        BY <1>1, <3>1, <4>2
    <3>2. CASE r < 0
      <4>1. MaxInt + r \in Ints
        BY <1>1, <3>2
      <4>2. ~ (l > MaxInt + r)
        BY <2>2, <3>2, <4>1, WrapOfInt
      <4>3. QED
        BY <1>1, <3>2, <4>2
    <3>3. CASE r = 0
      BY <1>1, <3>3
    <3>4. QED
      BY <1>1, <3>1, <3>2, <3>3
  <2>4. QED
    BY <2>2, <2>3, WrapOfInt
<1>4. QED
  BY <1>2, <1>3

Spent(outcome) == outcome.tokens[1] + outcome.tokens[2]

(* So is the delta of the tokens of a pair. *)
LEMMA TokenDeltaIsTrue ==
  ASSUME NEW candidate, OutcomeOK(candidate), NEW incumbent, OutcomeOK(incumbent)
  PROVE  \/ TokenDelta(candidate, incumbent) = Overflow
         \/ /\ TokenDelta(candidate, incumbent) = Spent(candidate) - Spent(incumbent)
            /\ TokenDelta(candidate, incumbent) \in Ints
<1> DEFINE c == CheckedAdd(candidate.tokens[1], candidate.tokens[2])
           i == CheckedAdd(incumbent.tokens[1], incumbent.tokens[2])
<1>1. MaxInt \in Nat /\ 0 .. MaxInt \subseteq Ints
  BY FixedWidthAssumption DEF Ints, MinInt
<1>2. /\ candidate.tokens[1] \in Ints /\ candidate.tokens[2] \in Ints
      /\ incumbent.tokens[1] \in Ints /\ incumbent.tokens[2] \in Ints
  BY <1>1 DEF OutcomeOK
<1>3. c = Overflow \/ (c = Spent(candidate) /\ c \in Ints)
  BY <1>2, CheckedIsTrue DEF Spent
<1>4. i = Overflow \/ (i = Spent(incumbent) /\ i \in Ints)
  BY <1>2, CheckedIsTrue DEF Spent
<1>5. TokenDelta(candidate, incumbent) =
        IF c = Overflow \/ i = Overflow THEN Overflow ELSE CheckedSub(c, i)
  BY DEF TokenDelta
<1> HIDE DEF c, i
<1>6. QED
  BY <1>3, <1>4, <1>5, CheckedIsTrue

(* The running sum of SumOfTokens. *)
AddTokens(sum, tokens) == IF Overflow \in {sum, tokens} THEN Overflow ELSE CheckedAdd(sum, tokens)

Running(pairs, keys, upto, n) ==
  upto = [j \in 0 .. n |->
            IF j = 0 THEN 0
            ELSE IF KeyOrder[j] \in keys THEN AddTokens(upto[j - 1], pairs[KeyOrder[j]].tokens)
            ELSE upto[j - 1]]

(* The running sum is defined, however long. *)
LEMMA RunningSumExists ==
  ASSUME NEW n \in Nat, NEW pairs, NEW keys
  PROVE  \E upto : Running(pairs, keys, upto, n)
<1> DEFINE Good == {i \in 0 .. n : \E upto : Running(pairs, keys, upto, i)}
           next(upto, j) ==
             IF KeyOrder[j] \in keys THEN AddTokens(upto[j - 1], pairs[KeyOrder[j]].tokens)
             ELSE upto[j - 1]
<1>1. 0 \in Good
  <2> DEFINE zero == [j \in 0 .. 0 |-> 0]
  <2>1. Running(pairs, keys, zero, 0)
    BY DEF Running
  <2>2. QED
    BY <2>1
<1>2. ASSUME NEW i \in 0 .. n - 1, i \in Good PROVE i + 1 \in Good
  <2>1. PICK upto : Running(pairs, keys, upto, i)
    BY <1>2
  <2> DEFINE longer == [j \in 0 .. i + 1 |-> IF j = i + 1 THEN next(upto, j) ELSE upto[j]]
  <2>2. upto = [j \in 0 .. i |-> IF j = 0 THEN 0 ELSE next(upto, j)]
    BY <2>1 DEF Running
  <2>3. ASSUME NEW j \in 0 .. i + 1
        PROVE  longer[j] = IF j = 0 THEN 0 ELSE next(longer, j)
    <3>1. CASE j \in 0 .. i
      <4>1. longer[j] = upto[j] /\ j # i + 1
        BY <3>1
      <4>2. upto[j] = IF j = 0 THEN 0 ELSE next(upto, j)
        <5> HIDE DEF next, longer
        <5>1. QED
          BY <2>2, <3>1
      <4>3. j # 0 => longer[j - 1] = upto[j - 1]
        BY <3>1
      <4>4. QED
        BY <4>1, <4>2, <4>3
    <3>2. CASE j = i + 1
      <4>1. longer[j] = next(upto, j) /\ longer[j - 1] = upto[j - 1] /\ j # 0
        BY <3>2
      <4> HIDE DEF longer
      <4>2. QED
        BY <4>1
    <3>3. QED
      BY <3>1, <3>2
  <2>4. longer = [j \in 0 .. i + 1 |-> longer[j]]
    OBVIOUS
  <2> HIDE DEF longer
  <2>5. longer = [j \in 0 .. i + 1 |-> IF j = 0 THEN 0 ELSE next(longer, j)]
    <3> HIDE DEF next
    <3>1. QED
      BY <2>3, <2>4
  <2>6. Running(pairs, keys, longer, i + 1)
    BY <2>5 DEF Running
  <2>7. QED
    BY <2>6
<1> HIDE DEF Good
<1>3. 0 .. n \subseteq Good
  BY <1>1, <1>2, NumberInduction
<1>4. QED
  BY <1>3 DEF Good

(* There are as many places as keys in order. *)
LEMMA LengthOfKeyOrder ==
  Len(KeyOrder) = Len(Suite) * Repeats /\ Len(KeyOrder) \in Nat /\ Places = 1 .. Len(KeyOrder)
<1>1. DOMAIN KeyOrder = 1 .. Len(Suite) * Repeats
  BY DEF KeyOrder
<1>2. KeyOrder \in Seq(Keys)
  BY <1>1, KeysInOrder, Shape DEF KeyOrder, Places
<1>3. QED
  BY <1>1, <1>2, Shape DEF Places

(* SumOfTokens is a running sum. *)
LEMMA SumOfTokensRuns ==
  ASSUME NEW pairs, NEW keys
  PROVE  \E upto : /\ Running(pairs, keys, upto, Len(KeyOrder))
                   /\ SumOfTokens(pairs, keys) = upto[Len(KeyOrder)]
<1> DEFINE upto == CHOOSE upto : Running(pairs, keys, upto, Len(KeyOrder))
<1>1. SumOfTokens(pairs, keys) = upto[Len(KeyOrder)]
  BY DEF SumOfTokens, Running, AddTokens
<1>2. Running(pairs, keys, upto, Len(KeyOrder))
  BY LengthOfKeyOrder, RunningSumExists
<1>3. QED
  BY <1>1, <1>2

(* A running sum that has not overflowed is the sum of what it has passed. *)
LEMMA RunningSumIsTrue ==
  ASSUME NEW pairs, NEW keys \in SUBSET Keys,
         \A k \in keys : pairs[k].tokens = Overflow \/ pairs[k].tokens \in Ints,
         SumOfTokens(pairs, keys) # Overflow
  PROVE  /\ SumOfTokens(pairs, keys) = SumOver([k \in keys |-> pairs[k].tokens], keys)
         /\ \A k \in keys : pairs[k].tokens \in Ints
<1> DEFINE M == Len(KeyOrder)
           f == [k \in keys |-> pairs[k].tokens]
           Passed(j) == {k \in keys : \E i \in 1 .. j : KeyOrder[i] = k}
           True(sum, j) == /\ sum \in Ints /\ sum = SumOver(f, Passed(j))
                           /\ \A k \in Passed(j) : f[k] \in Ints
<1>1. PICK upto : Running(pairs, keys, upto, M) /\ SumOfTokens(pairs, keys) = upto[M]
  BY SumOfTokensRuns
<1> DEFINE Good == {j \in 0 .. M : upto[j] # Overflow => True(upto[j], j)}
<1>2. M \in Nat /\ Places = 1 .. M
  BY LengthOfKeyOrder
<1>3. \A k \in keys : f[k] = pairs[k].tokens
  OBVIOUS
<1>4. Overflow \notin Ints /\ 0 \in Ints /\ Ints \subseteq Int
  BY FixedWidthAssumption DEF Ints, MinInt
<1> HIDE DEF M, f
<1>5. 0 \in Good
  <2>1. upto[0] = 0
    BY <1>1, <1>2 DEF Running
  <2>2. Passed(0) = {}
    OBVIOUS
  <2>3. True(upto[0], 0)
    BY <1>4, <2>1, <2>2, SumOfNothing
  <2>4. QED
    BY <1>2, <2>3
<1>6. ASSUME NEW i \in 0 .. M - 1, i \in Good PROVE i + 1 \in Good
  <2> DEFINE j == i + 1
             k == KeyOrder[j]
  <2>1. j \in 1 .. M /\ j \in 0 .. M /\ j # 0 /\ j - 1 = i /\ j \in Places
    BY <1>2
  <2>2. upto[j] = IF k \in keys THEN AddTokens(upto[i], pairs[k].tokens) ELSE upto[i]
    BY <1>1, <2>1 DEF Running
  <2>3. SUFFICES ASSUME upto[j] # Overflow PROVE True(upto[j], j)
    BY <2>1
  <2>4. \A n \in 1 .. j : n \in 1 .. i \/ n = j
    BY <2>1
  <2>5. 1 .. i \subseteq 1 .. j /\ j \in 1 .. j /\ j \notin 1 .. i
    BY <2>1
  <2>6. CASE k \notin keys
    <3>1. Passed(j) = Passed(i)
      BY <2>4, <2>5, <2>6
    <3>2. True(upto[i], i)
      BY <1>6, <2>2, <2>3, <2>6
    <3> HIDE DEF Passed
    <3>3. QED
      BY <2>2, <2>6, <3>1, <3>2
  <2>7. CASE k \in keys
    <3>1. upto[i] # Overflow /\ pairs[k].tokens # Overflow
            /\ upto[j] = CheckedAdd(upto[i], pairs[k].tokens)
      BY <2>2, <2>3, <2>7 DEF AddTokens
    <3>2. upto[i] \in Ints /\ upto[i] = SumOver(f, Passed(i)) /\ \A x \in Passed(i) : f[x] \in Ints
      BY <1>6, <3>1
    <3>3. pairs[k].tokens \in Ints /\ f[k] = pairs[k].tokens
      BY <1>3, <2>7, <3>1
    <3>4. upto[j] = upto[i] + f[k] /\ upto[j] \in Ints
      BY <2>3, <3>1, <3>2, <3>3, CheckedIsTrue
    <3>5. k \notin Passed(i)
      <4>1. \A n \in 1 .. i : n \in Places /\ n # j
        BY <1>2, <2>1
      <4>2. QED
        BY <2>1, <4>1, KeysInOrder
    <3>6. Passed(j) = Passed(i) \cup {k} /\ Passed(j) \ {k} = Passed(i) /\ k \in Passed(j)
      BY <2>4, <2>5, <2>7, <3>5
    <3>7. IsFiniteSet(Passed(j))
      BY KeysAreFinite
    <3> HIDE DEF Passed
    <3>8. \A x \in Passed(j) : f[x] \in Ints /\ f[x] \in Int
      BY <1>4, <3>2, <3>3, <3>6
    <3>9. SumOver(f, Passed(j)) = f[k] + SumOver(f, Passed(i))
      BY <3>6, <3>7, <3>8, SumWithout
    <3>10. upto[j] = SumOver(f, Passed(j))
      <4>1. upto[i] \in Int /\ f[k] \in Int
        BY <1>4, <3>2, <3>3
      <4>2. QED
        BY <3>2, <3>4, <3>9, <4>1
    <3>11. QED
      BY <3>4, <3>8, <3>10
  <2>8. QED
    BY <2>6, <2>7
<1> HIDE DEF Good
<1>7. 0 .. M \subseteq Good
  BY <1>2, <1>5, <1>6, NumberInduction
<1>8. True(upto[M], M)
  <2>1. M \in Good
    BY <1>2, <1>7
  <2>2. QED
    BY <1>1, <2>1 DEF Good
<1>9. Passed(M) = keys
  BY <1>2, KeysInOrder
<1> HIDE DEF Passed
<1>10. QED
  BY <1>1, <1>3, <1>8, <1>9 DEF f

(* The tokens of each group of a comparison that did not overflow. *)
LEMMA GroupTokens ==
  ASSUME NEW st, NEW all, CellsOK(all), ~ Overflows(Build(st, all)), NEW g \in GroupNames
  PROVE  LET keys == KeysIn(g) \cap Paired(all)
         IN  /\ Build(st, all).groups[g].tokens =
                  SumOver([k \in keys |-> Spent(Challenger(all, k)) - Spent(Incumbent(all, k))],
                          keys)
             /\ \A k \in keys : Spent(Challenger(all, k)) - Spent(Incumbent(all, k)) \in Int
<1> DEFINE keys == KeysIn(g) \cap Paired(all)
           f == [k \in keys |-> Pairs(all)[k].tokens]
           h == [k \in keys |-> Spent(Challenger(all, k)) - Spent(Incumbent(all, k))]
           tokens == Build(st, all).groups[g].tokens
<1>1. tokens = SumOfTokens(Pairs(all), keys)
  <2>1. Build(st, all).groups[g] = GroupAggregate(Pairs(all), g) /\ DOMAIN Pairs(all) = Paired(all)
    BY ReportFields, PairsDomain
  <2>2. GroupAggregate(Pairs(all), g).tokens
          = SumOfTokens(Pairs(all), KeysIn(g) \cap DOMAIN Pairs(all))
    BY DEF GroupAggregate
  <2>3. QED
    BY <2>1, <2>2
<1>2. tokens # Overflow
  BY ReportFields DEF Overflows
<1>3. keys \in SUBSET Keys /\ keys \subseteq Paired(all)
  BY KeysAreFinite
<1>4. ASSUME NEW k \in keys
      PROVE  \/ Pairs(all)[k].tokens = Overflow
             \/ /\ Pairs(all)[k].tokens = Spent(Challenger(all, k)) - Spent(Incumbent(all, k))
                /\ Pairs(all)[k].tokens \in Ints
  <2>1. OutcomeOK(Challenger(all, k)) /\ OutcomeOK(Incumbent(all, k))
    BY <1>3, CellsOfPair
  <2>2. Pairs(all)[k].tokens = TokenDelta(Challenger(all, k), Incumbent(all, k))
    BY <1>3 DEF Pairs, Pair, Challenger, Incumbent
  <2>3. QED
    BY <2>1, <2>2, TokenDeltaIsTrue
<1> HIDE DEF keys, tokens
<1>5. tokens = SumOver(f, keys) /\ \A k \in keys : Pairs(all)[k].tokens \in Ints
  BY <1>1, <1>2, <1>3, <1>4, RunningSumIsTrue
<1>6. Overflow \notin Int /\ Ints \subseteq Int
  BY FixedWidthAssumption DEF Ints, MinInt
<1>7. \A k \in keys : f[k] \in Int /\ h[k] = f[k]
  BY <1>4, <1>5, <1>6
<1>8. IsFiniteSet(keys)
  BY <1>3, KeysAreFinite
<1>9. \A k \in keys : Spent(Challenger(all, k)) - Spent(Incumbent(all, k)) \in Int
  BY <1>7
<1> HIDE DEF f, h
<1>10. SumOver(f, keys) = SumOver(h, keys)
  BY <1>7, <1>8, SumIsOfValues
<1>11. QED
  BY <1>5, <1>9, <1>10 DEF keys, h, tokens

(* The sum that CostsAreTrue takes. *)
LEMMA SumOfSpent ==
  ASSUME NEW pairs, NEW keys, IsFiniteSet(keys),
         \A k \in keys : OutcomeOK(pairs[k].candidate) /\ OutcomeOK(pairs[k].incumbent)
  PROVE  MapThenSumSet(
           LAMBDA k : LET p == pairs[k]
                      IN  p.candidate.tokens[1] + p.candidate.tokens[2]
                            - (p.incumbent.tokens[1] + p.incumbent.tokens[2]), keys)
         = SumOver([k \in keys |-> Spent(pairs[k].candidate) - Spent(pairs[k].incumbent)], keys)
<1> DEFINE f == [k \in keys |-> Spent(pairs[k].candidate) - Spent(pairs[k].incumbent)]
           value(k) == pairs[k].candidate.tokens[1] + pairs[k].candidate.tokens[2]
                         - (pairs[k].incumbent.tokens[1] + pairs[k].incumbent.tokens[2])
           summed(sum) == sum = [s \in SUBSET keys |->
                                   IF s = {} THEN 0
                                   ELSE value(Pick(s)) + sum[s \ {Pick(s)}]]
<1>1. MapThenSumSet(
        LAMBDA k : LET p == pairs[k]
                   IN  p.candidate.tokens[1] + p.candidate.tokens[2]
                         - (p.incumbent.tokens[1] + p.incumbent.tokens[2]), keys)
        = (CHOOSE sum : summed(sum))[keys]
  BY DEF MapThenSumSet, MapThenFoldSet, Pick
<1>2. \A sum : summed(sum) <=> AddsUp(sum, f, keys)
  <2>1. TAKE sum
  <2>2. \A k \in keys : f[k] = value(k)
    <3>1. TAKE k \in keys
    <3> DEFINE c == pairs[k].candidate.tokens
               i == pairs[k].incumbent.tokens
    <3>2. c[1] \in Int /\ c[2] \in Int /\ i[1] \in Int /\ i[2] \in Int
      BY FixedWidthAssumption DEF OutcomeOK
    <3>3. f[k] = (c[1] + c[2]) - (i[1] + i[2]) /\ value(k) = c[1] + (c[2] - (i[1] + i[2]))
      BY DEF Spent
    <3> HIDE DEF c, i, f, value
    <3>4. QED
      BY <3>2, <3>3
  <2>3. \A s \in SUBSET keys : s # {} => Pick(s) \in keys
    BY PickInSet
  <2> HIDE DEF f, value
  <2>4. QED
    BY <2>2, <2>3 DEF AddsUp
<1> HIDE DEF summed, f
<1>3. AddsUp(CHOOSE sum : summed(sum), f, keys)
  BY <1>2, SumExists
<1>4. (CHOOSE sum : summed(sum))[keys] = SumOver(f, keys)
  BY <1>3, SumFound
<1>5. QED
  BY <1>1, <1>4 DEF f

(* The token costs of every group of a comparison are the exact sums over  *)
(* the cells: a sum that would leave int on the way ends the command       *)
(* instead (CostsAreTrue).                                                 *)
THEOREM TrueCosts == Spec => []CostsAreTrue
<1>1. ASSUME IInv PROVE CostsAreTrue
  <2>1. SUFFICES ASSUME comparison # Nothing, NEW g \in DOMAIN comparison.groups
                 PROVE  comparison.groups[g].tokens =
                          MapThenSumSet(
                            LAMBDA k : LET p == comparison.pairs[k]
                                       IN  p.candidate.tokens[1] + p.candidate.tokens[2]
                                             - (p.incumbent.tokens[1] + p.incumbent.tokens[2]),
                            KeysIn(g) \cap DOMAIN comparison.pairs)
    BY DEF CostsAreTrue
  <2>2. LogInvariant /\ MomentsInvariant /\ OfOneMoment /\ ~ Overflows(comparison)
    BY <1>1, <2>1 DEF IInv, CommandInvariant
  <2>3. PICK moment \in moments :
          comparison = Build(moment[1], CellsOf(SubSeq(cells, 1, moment[2])))
    BY <2>2 DEF OfOneMoment
  <2> DEFINE all == CellsOf(SubSeq(cells, 1, moment[2]))
             keys == KeysIn(g) \cap Paired(all)
             f == [k \in keys |-> Spent(comparison.pairs[k].candidate)
                                     - Spent(comparison.pairs[k].incumbent)]
             h == [k \in keys |-> Spent(Challenger(all, k)) - Spent(Incumbent(all, k))]
  <2>4. CellsOK(all)
    BY <2>2, <2>3, Prefix, CellsOfLog DEF LogInvariant, MomentsInvariant
  <2>5. comparison = Build(moment[1], all)
    BY <2>3
  <2> HIDE DEF all
  <2>6. /\ g \in GroupNames /\ comparison.pairs = Pairs(all)
        /\ KeysIn(g) \cap DOMAIN comparison.pairs = keys
    BY <2>1, <2>5, ReportFields, PairsDomain
  <2>7. /\ comparison.groups[g].tokens = SumOver(h, keys)
        /\ \A k \in keys : Spent(Challenger(all, k)) - Spent(Incumbent(all, k)) \in Int
    BY <2>2, <2>4, <2>5, <2>6, GroupTokens
  <2>8. \A k \in keys : h[k] \in Int /\ f[k] = h[k]
    <3>1. ASSUME NEW k \in keys
          PROVE  /\ Pairs(all)[k].candidate = Challenger(all, k)
                 /\ Pairs(all)[k].incumbent = Incumbent(all, k)
      BY DEF Pairs, Pair, Challenger, Incumbent
    <3>2. QED
      BY <2>6, <2>7, <3>1
  <2>9. keys \in SUBSET Keys /\ IsFiniteSet(keys)
    BY KeysAreFinite
  <2>10. \A k \in keys : /\ OutcomeOK(comparison.pairs[k].candidate)
                        /\ OutcomeOK(comparison.pairs[k].incumbent)
    <3>1. \A k \in keys : OutcomeOK(Challenger(all, k)) /\ OutcomeOK(Incumbent(all, k))
      BY <2>4, CellsOfPair
    <3>2. \A k \in keys : /\ Pairs(all)[k].candidate = Challenger(all, k)
                         /\ Pairs(all)[k].incumbent = Incumbent(all, k)
      BY DEF Pairs, Pair, Challenger, Incumbent
    <3>3. QED
      BY <2>6, <3>1, <3>2
  <2>11. MapThenSumSet(
           LAMBDA k : LET p == comparison.pairs[k]
                      IN  p.candidate.tokens[1] + p.candidate.tokens[2]
                            - (p.incumbent.tokens[1] + p.incumbent.tokens[2]), keys)
           = SumOver(f, keys)
    BY <2>9, <2>10, SumOfSpent
  <2> HIDE DEF f, h, keys
  <2>12. SumOver(h, keys) = SumOver(f, keys)
    BY <2>8, <2>9, SumIsOfValues
  <2>13. QED
    BY <2>6, <2>7, <2>11, <2>12
<1>2. QED
  BY <1>1, Invariance, PTL
=============================================================================
