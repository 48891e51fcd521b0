------------------------------ MODULE FixedWidth ------------------------------
(***************************************************************************)
(* Go's int, and the arithmetic of pkg/compare that refuses to wrap.       *)
(***************************************************************************)
EXTENDS Integers

CONSTANTS
  MaxInt,    \* the largest int
  Overflow   \* the error of a checked operation, no int

ASSUME FixedWidthAssumption == MaxInt \in Nat /\ Overflow \notin Int

MinInt == - MaxInt - 1

(* What is left of an integer in an int. *)
Wrap(n) == ((n - MinInt) % (MaxInt - MinInt + 1)) + MinInt

(* Mutant: only the upper limit is looked at. *)
CheckedAddUpwards(l, r) ==
  IF r > 0 /\ l > Wrap(MaxInt - r) THEN Overflow ELSE Wrap(l + r)

(* checkedAddInt, checkedAddInt64 *)
CheckedAdd(l, r) ==
  IF \/ r > 0 /\ l > Wrap(MaxInt - r)
     \/ r < 0 /\ l < Wrap(MinInt - r)
    THEN Overflow ELSE Wrap(l + r)

(* checkedSubInt *)
CheckedSub(l, r) ==
  IF \/ r > 0 /\ l < Wrap(MinInt + r)
     \/ r < 0 /\ l > Wrap(MaxInt + r)
    THEN Overflow ELSE Wrap(l - r)
=============================================================================
