------------------------- MODULE RunLifecycleProofs -------------------------
(* What the abstract specification of a run gives whoever implements it;      *)
(* AgentRunsProofs shows that AgentRuns does.                                 *)
EXTENDS RunLifecycle, TLAPS

(* The approval is asked for once, and open exactly while the run waits. *)
GateFollowsPhase ==
  /\ phase \in {"none", "open"} => gate = "none"
  /\ phase = "waiting" <=> gate = "pending"

LifecycleInv == TypeOK /\ GateFollowsPhase /\ ClosedIsFinished /\ ActedOnce

(* The initial state: no run, no task, no approval. *)
LEMMA InitHolds == Init => LifecycleInv
  BY DEF Init, LifecycleInv, TypeOK, GateFollowsPhase, ClosedIsFinished, ActedOnce

(* Every step keeps the invariant. *)
LEMMA StepHolds == LifecycleInv /\ [Next]_vars => LifecycleInv'
  <1> USE DEF LifecycleInv, TypeOK, GateFollowsPhase, ClosedIsFinished, ActedOnce
  <1> SUFFICES ASSUME LifecycleInv, [Next]_vars PROVE LifecycleInv'
    OBVIOUS
  <1>1. CASE Start
    BY <1>1 DEF Start
  <1>2. CASE Advance
    BY <1>2 DEF Advance, Forward
  <1>3. CASE Ask
    BY <1>3 DEF Ask, Forward
  <1>4. CASE Close
    BY <1>4 DEF Close, Forward, NothingLeft
  <1>5. ASSUME NEW answer \in {"granted", "refused", "withdrawn"}, Resolve(answer)
        PROVE  LifecycleInv'
    BY <1>5 DEF Resolve, Forward, NothingLeft
  <1>6. CASE UNCHANGED vars
    BY <1>6 DEF vars
  <1> QED
    BY <1>1, <1>2, <1>3, <1>4, <1>5, <1>6 DEF Next

(* A run that is closed has no task left unfinished (coordinator.py _fail_run,
   api/routes/agents.py cancel_run, repository.py recover_stale_runs). *)
THEOREM ClosedRunsAreFinished == Spec => []ClosedIsFinished
  <1>1. Spec => []LifecycleInv
    BY InitHolds, StepHolds, PTL DEF Spec
  <1>2. LifecycleInv => ClosedIsFinished
    BY DEF LifecycleInv
  <1> QED
    BY <1>1, <1>2, PTL

(* An approved action is applied once, a refused or withdrawn one never
   (agents/api.py resolve_approval). *)
THEOREM ApprovedActionsHappenOnce == Spec => []ActedOnce
  <1>1. Spec => []LifecycleInv
    BY InitHolds, StepHolds, PTL DEF Spec
  <1>2. LifecycleInv => ActedOnce
    BY DEF LifecycleInv
  <1> QED
    BY <1>1, <1>2, PTL

(* A closed run is closed for good: no step changes anything of it any more
   (agents/state_machine.py: no successors of a terminal status). *)
THEOREM ClosedIsFinal == Spec => [][phase # "closed"]_vars
  <1>1. [Next]_vars => [phase # "closed"]_vars
    BY DEF Next, Start, Advance, Ask, Close, Resolve, vars
  <1> QED
    BY <1>1, PTL DEF Spec
=============================================================================
