--------------------------- MODULE TranscodeTasks ---------------------------
(***************************************************************************)
(* What the transcoding manager promises about each (path, res): the state *)
(* machine none -> queued -> running -> done | failed, deduplication (at   *)
(* most one encoder works on it, and only while it is running), a failure  *)
(* that stays until the process restarts, and a restart that leaves        *)
(* nothing queued or running.                                              *)
(***************************************************************************)
EXTENDS Naturals

CONSTANT Key

VARIABLES status,    \* status[k]: what GET /api/video/status answers
          encoders   \* encoders[k]: workers that are producing an output for k

tasks == <<status, encoders>>

Init ==
  /\ status = [k \in Key |-> "none"]
  /\ encoders = [k \in Key |-> 0]

\* A first request, or one for a source that changed or an output that vanished.
Ask(k) ==
  /\ status[k] \in {"none", "done"}
  /\ status' \in {[status EXCEPT ![k] = s] : s \in {"queued", "failed"}}
  /\ UNCHANGED encoders

Work(k) ==
  /\ status[k] = "queued"
  /\ encoders[k] = 0
  /\ status' = [status EXCEPT ![k] = "running"]
  /\ encoders' = [encoders EXCEPT ![k] = 1]

Finish(k) ==
  /\ status[k] = "running"
  /\ encoders[k] = 1
  /\ status' \in {[status EXCEPT ![k] = s] : s \in {"done", "failed"}}
  /\ encoders' = [encoders EXCEPT ![k] = 0]

\* The process ends: nothing is remembered, and no encoder survives.
Vanish ==
  /\ status' = [k \in Key |-> "none"]
  /\ encoders' = [k \in Key |-> 0]

\* A new process loads what the last one left; an earlier end state may come back.
Recover ==
  /\ \A k \in Key : encoders[k] = 0
  /\ status' \in [Key -> {"none", "done", "failed"}]
  /\ UNCHANGED encoders

Next ==
  \/ \E k \in Key : Ask(k) \/ Work(k) \/ Finish(k)
  \/ Vanish
  \/ Recover

Spec == Init /\ [][Next]_tasks
=============================================================================
