-------------------------------- MODULE Custody --------------------------------
(***************************************************************************)
(* What pkg/runstore promises to the code above it: a run directory seen   *)
(* through its state and the names of the inputs it holds.  Each action is *)
(* the moment at which a call takes effect, the rename of one small file;  *)
(* RunStore is shown to implement it (RefinesCustody there), and Binding   *)
(* is written against it.                                                  *)
(***************************************************************************)
CONSTANT Roles   \* the input roles a caller copies

VARIABLES
  state,    \* "none" until status.json exists, then what it says
  inputs,   \* the roles inputs/manifest.json names
  kept      \* the roles a CopyInput returned success for

vars == <<state, inputs, kept>>

Init == state = "none" /\ inputs = {} /\ kept = {}

(* createRun publishes status.json last. *)
Create ==
  /\ state = "none"
  /\ state' = "active"
  /\ UNCHANGED <<inputs, kept>>

(* The rename of the input manifest commits an input; only an active run   *)
(* takes one, and a role only once.                                        *)
Enter(role) ==
  /\ state = "active"
  /\ role \notin inputs
  /\ inputs' = inputs \cup {role}
  /\ UNCHANGED <<state, kept>>

(* CopyInput returns success: from here on the input never leaves. *)
Keep(role) ==
  /\ state = "active"
  /\ role \in inputs
  /\ kept' = kept \cup {role}
  /\ UNCHANGED <<state, inputs>>

(* The rollback of an input that could not get its final name. *)
Withdraw(role) ==
  /\ state = "active"
  /\ role \in inputs \ kept
  /\ inputs' = inputs \ {role}
  /\ UNCHANGED <<state, kept>>

(* Complete and Fail, once and for ever. *)
Finish(outcome) ==
  /\ state = "active"
  /\ state' = outcome
  /\ UNCHANGED <<inputs, kept>>

Next ==
  \/ Create
  \/ \E role \in Roles : Enter(role) \/ Keep(role) \/ Withdraw(role)
  \/ \E outcome \in {"complete", "failed"} : Finish(outcome)

Spec == Init /\ [][Next]_vars
=============================================================================
