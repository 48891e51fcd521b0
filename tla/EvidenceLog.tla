----------------------------- MODULE EvidenceLog -----------------------------
(***************************************************************************)
(* What a paired run promises its readers (pkg/eval/types.go: "one durable *)
(* cell per case, repeat, and arm"): an append-only list of the N cells of *)
(* the schedule, each once and in order, and a status that becomes final   *)
(* once, "complete" only over the whole list.                              *)
(***************************************************************************)
EXTENDS Naturals, Sequences

CONSTANT N  \* cells in the schedule

VARIABLES
  recorded,  \* the cells recorded so far
  state      \* the status of the run

logVars == <<recorded, state>>

LogInit == recorded = <<>> /\ state = "active"

(* execute appends a cell to results/cells.jsonl. *)
RecordCell ==
  /\ state = "active"
  /\ Len(recorded) < N
  /\ recorded' = Append(recorded, Len(recorded) + 1)
  /\ UNCHANGED state

CompleteRun ==
  /\ state = "active"
  /\ Len(recorded) = N
  /\ state' = "complete"
  /\ UNCHANGED recorded

FailRun ==
  /\ state = "active"
  /\ state' = "failed"
  /\ UNCHANGED recorded

LogNext == RecordCell \/ CompleteRun \/ FailRun

LogSpec == LogInit /\ [][LogNext]_logVars
=============================================================================
