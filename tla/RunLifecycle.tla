--------------------------- MODULE RunLifecycle ---------------------------
(* What a multi-agent run promises its owner, whatever the coordinator, the   *)
(* approval endpoints, the cancel endpoint and the start-up recovery do:      *)
(* a closed run stays closed and leaves no task unfinished, a finished task   *)
(* is never taken up again, and the action that waits for an approval is      *)
(* applied once if the approval is granted and never otherwise.               *)
EXTENDS Naturals

CONSTANT Tasks

VARIABLES
  phase,   \* of the run
  stage,   \* of each task
  gate,    \* the approval
  acted    \* how often the approved action was applied

vars == <<phase, stage, gate, acted>>

TypeOK ==
  /\ phase \in {"none", "open", "waiting", "closed"}
  /\ stage \in [Tasks -> {"absent", "unfinished", "finished"}]
  /\ gate \in {"none", "pending", "granted", "refused", "withdrawn"}
  /\ acted \in Nat

Init ==
  /\ phase = "none"
  /\ stage = [t \in Tasks |-> "absent"]
  /\ gate = "none"
  /\ acted = 0

(* Tasks appear and finish; they never come back. *)
Forward ==
  /\ stage' \in [Tasks -> {"absent", "unfinished", "finished"}]
  /\ \A t \in Tasks :
       /\ stage[t] = "finished" => stage'[t] = "finished"
       /\ stage[t] = "unfinished" => stage'[t] # "absent"

NothingLeft == \A t \in Tasks : stage'[t] # "unfinished"

Start == phase = "none" /\ phase' = "open" /\ UNCHANGED <<stage, gate, acted>>

Advance == phase = "open" /\ Forward /\ UNCHANGED <<phase, gate, acted>>

Ask ==
  /\ phase = "open" /\ phase' = "waiting"
  /\ gate = "none" /\ gate' = "pending"
  /\ Forward
  /\ UNCHANGED acted

(* The run completes, fails, times out or is cancelled. *)
Close ==
  /\ phase = "open" /\ phase' = "closed"
  /\ Forward /\ NothingLeft
  /\ UNCHANGED <<gate, acted>>

(* The approval is granted, refused, or withdrawn with the run. *)
Resolve(answer) ==
  /\ phase = "waiting" /\ phase' = "closed"
  /\ gate' = answer
  /\ acted' = IF answer = "granted" THEN acted + 1 ELSE acted
  /\ Forward /\ NothingLeft

Next == Start \/ Advance \/ Ask \/ Close
          \/ \E answer \in {"granted", "refused", "withdrawn"} : Resolve(answer)

Spec == Init /\ [][Next]_vars

(* A closed run has no unfinished task. *)
ClosedIsFinished == phase = "closed" => \A t \in Tasks : stage[t] # "unfinished"

(* The action is applied once when the approval is granted, and only then. *)
ActedOnce == acted = IF gate = "granted" THEN 1 ELSE 0
=============================================================================
