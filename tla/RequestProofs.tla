---------------------------- MODULE RequestProofs ----------------------------
(* Theorems about the parts of a request.  Specialists: for any plans,        *)
(* questions and limits, nothing is stored without an approval, and the calls *)
(* of tools stay within their limit, over retries, time-outs, resumptions and *)
(* their roll-backs.  ToolTurn: for any tools, calls and limits, the prompt   *)
(* answers every call in order, what is stored is what was shown and          *)
(* recorded, and the registry follows the configuration.  Planning: for any   *)
(* messages, tools and plans of the model, a write that is left to the        *)
(* specialists is planned, what is accepted is enabled, and of the plans by   *)
(* rule only one chain is too long.  TurnContext: for any passages, requests  *)
(* and settings, an answer cites what its prompt shows.  Indexing: for any    *)
(* uploads, settings and attempts, what is indexed is the whole document.     *)
EXTENDS Request, TLAPS, FiniteSetTheorems, WellFoundedInduction

-----------------------------------------------------------------------------
(* The pause                                                                  *)

Statuses == {"pending", "succeeded", "failed", "skipped", "awaiting_approval"}
MemoryTasks == {t \in Tasks : plan[t].agent = "memory"}

(* The run waits exactly while its approval is pending, and waits where it    *)
(* was saved.                                                                 *)
PauseAgrees ==
  /\ pc = "idle" => approval = "none" /\ refusals = <<>>
  /\ pc \in {"next", "working"} => approval \in {"none", "approved"}
  /\ pc = "waiting" => approval = "pending" /\ status = saved.status /\ spent = saved.spent

(* The task that asked was the memory agent's and had not been worked off; a  *)
(* resumption does not come back to it.                                       *)
Asked ==
  approval \in {"pending", "approved"} =>
    /\ saved.status \in [Tasks -> Statuses]
    /\ \E t \in MemoryTasks :
         /\ saved.status[t] = "awaiting_approval"
         /\ approval = "approved" => status[t] # "pending"

PauseInv ==
  /\ IsFiniteSet(Tasks)
  /\ status \in [Tasks -> Statuses]
  /\ pc = "working" => cur \in Tasks /\ status[cur] = "pending"
  /\ PauseAgrees
  /\ Asked
  /\ refusals \in Seq({"write", "nested", "cut"})
  /\ WritesAwaitApproval

LEMMA TwoMembers ==
  ASSUME NEW S, IsFiniteSet(S), NEW a \in S, NEW b \in S, a # b
  PROVE  Cardinality(S) > 1
<1>1. IsFiniteSet({a}) /\ Cardinality({a}) = 1
  BY FS_Singleton
<1>2. IsFiniteSet({a} \cup {b}) /\ Cardinality({a} \cup {b}) = 2
  <2>1. b \notin {a}
    OBVIOUS
  <2>2. /\ IsFiniteSet({a} \cup {b})
        /\ b \notin {a} => Cardinality({a} \cup {b}) = Cardinality({a}) + 1
    BY <1>1, FS_AddElement, Zenon
  <2> QED
    BY <1>1, <2>1, <2>2
<1>3. {a} \cup {b} \subseteq S
  OBVIOUS
<1>4. Cardinality({a} \cup {b}) <= Cardinality(S) /\ Cardinality(S) \in Nat
  BY <1>3, FS_Subset, FS_CardinalityType
<1> QED
  BY <1>2, <1>4

LEMMA PauseInit == Init => PauseInv
<1> SUFFICES ASSUME Init PROVE PauseInv
  OBVIOUS
<1>1. Tasks = {}
  BY DEF Init, Tasks
<1> QED
  BY <1>1, FS_EmptySet DEF Init, PauseInv, PauseAgrees, Asked, WritesAwaitApproval

(* Steps that leave plan, approval and what was saved alone, and at most      *)
(* work a pending task off, keep the invariant.                               *)
LEMMA WorkKeepsPause ==
  ASSUME PauseInv, approval \in {"none", "approved"},
         UNCHANGED <<plan, approval, stored, saved, refusals>>,
         status' \in [Tasks -> Statuses],
         \A t \in Tasks : status[t] # "pending" => status'[t] # "pending",
         pc' \in {"next", "working", "completed", "failed"},
         pc' = "working" => cur' \in Tasks /\ status'[cur'] = "pending"
  PROVE  PauseInv'
<1> USE DEF Tasks
<1>1. MemoryTasks' = MemoryTasks /\ Tasks' = Tasks
  BY DEF MemoryTasks
<1>2. Asked'
  BY <1>1 DEF PauseInv, Asked, MemoryTasks
<1>3. WritesAwaitApproval'
  BY <1>1 DEF PauseInv, WritesAwaitApproval
<1> QED
  BY <1>1, <1>2, <1>3 DEF PauseInv, PauseAgrees

LEMMA FailKeepsPause ==
  ASSUME PauseInv, pc = "working", NEW retryable \in BOOLEAN, Fail(retryable),
         UNCHANGED <<plan, approval, stored, saved, refusals>>
  PROVE  PauseInv'
<1>1. approval \in {"none", "approved"}
  BY DEF PauseInv, PauseAgrees
<1>2. CASE retryable /\ attempt < MaxRetries
  BY <1>1, <1>2, WorkKeepsPause DEF Fail, PauseInv
<1>3. CASE ~(retryable /\ attempt < MaxRetries)
  BY <1>1, <1>3, WorkKeepsPause DEF Fail, PauseInv, Goto, Statuses
<1> QED
  BY <1>2, <1>3

LEMMA SucceedKeepsPause ==
  ASSUME PauseInv, pc = "working", NEW facts, Succeed(facts),
         UNCHANGED <<plan, approval, stored, saved, refusals>>
  PROVE  PauseInv'
<1>1. approval \in {"none", "approved"}
  BY DEF PauseInv, PauseAgrees
<1> QED
  BY <1>1, WorkKeepsPause DEF Succeed, PauseInv, Goto, Statuses

LEMMA QuietKeepsPause ==
  ASSUME PauseInv, pc \in {"next", "working"}, pc' \in {"next", "completed", "failed"},
         UNCHANGED <<plan, status, approval, stored, saved, refusals>>
  PROVE  PauseInv'
<1>1. approval \in {"none", "approved"}
  BY DEF PauseInv, PauseAgrees
<1> QED
  BY <1>1, WorkKeepsPause DEF PauseInv

LEMMA RollBackKeepsPause ==
  ASSUME PauseInv, Resumed, NEW why \in {"nested", "cut"}, RollBack(why),
         why = "nested" => Cardinality(MemoryTasks) > 1
  PROVE  PauseInv'
<1>1. MemoryTasks' = MemoryTasks /\ Tasks' = Tasks
  BY DEF RollBack, turnVars, MemoryTasks, Tasks
<1>2. approval = "approved" /\ approval' = "pending" /\ stored = 1 /\ stored' = 0
  BY DEF RollBack, RolledBackWrite, Resumed, PauseInv, WritesAwaitApproval
<1>3. status' = saved.status /\ saved' = saved /\ pc' = "waiting" /\ spent' = saved.spent
  BY DEF RollBack
<1>4. PauseAgrees' /\ Asked'
  BY <1>1, <1>2, <1>3 DEF PauseInv, PauseAgrees, Asked
<1>5. refusals' \in Seq({"write", "nested", "cut"})
  BY DEF RollBack, PauseInv
<1>6. (\E i \in DOMAIN refusals' : refusals'[i] = "nested") => Cardinality(MemoryTasks') > 1
  <2> SUFFICES ASSUME NEW i \in DOMAIN refusals', refusals'[i] = "nested"
               PROVE  Cardinality(MemoryTasks) > 1
    BY <1>1
  <2>1. refusals' = Append(refusals, why) /\ refusals \in Seq({"write", "nested", "cut"})
    BY DEF RollBack, PauseInv
  <2>2. CASE i \in DOMAIN refusals
    <3>1. refusals[i] = "nested"
      BY <2>1, <2>2
    <3> QED
      BY <3>1, <2>2 DEF PauseInv, WritesAwaitApproval, MemoryTasks
  <2>3. CASE i \notin DOMAIN refusals
    BY <2>1, <2>3
  <2> QED
    BY <2>2, <2>3
<1>7. WritesAwaitApproval'
  BY <1>2, <1>6 DEF WritesAwaitApproval, MemoryTasks
<1> QED
  BY <1>1, <1>2, <1>3, <1>4, <1>5, <1>7 DEF PauseInv, Asked

(* A task that asks after an approval was granted is another than the one     *)
(* that asked before.                                                         *)
LEMMA NestedNeedsTwo ==
  ASSUME PauseInv, WantsWrite, Resumed
  PROVE  Cardinality(MemoryTasks) > 1
<1>1. cur \in MemoryTasks /\ status[cur] = "pending"
  BY DEF PauseInv, WantsWrite, Working, AtWork, Task, MemoryTasks
<1>2. PICK t \in MemoryTasks : status[t] # "pending"
  BY DEF PauseInv, Asked, Resumed
<1>3. IsFiniteSet(MemoryTasks)
  BY FS_Subset DEF PauseInv, MemoryTasks
<1> QED
  BY <1>1, <1>2, <1>3, TwoMembers

LEMMA BeginKeepsPause ==
  ASSUME PauseInv, NEW p \in Plans, NEW q \in Questions, Begin(p, q)
  PROVE  PauseInv'
<1>1. Tasks' = DOMAIN p /\ IsFiniteSet(DOMAIN p)
  <2>1. Tasks' = DOMAIN p
    BY DEF Begin, Tasks
  <2>2. Len(p) \in Nat /\ DOMAIN p = 1..Len(p)
    BY Configured
  <2>3. IsFiniteSet(1..Len(p))
    BY <2>2, FS_Interval
  <2> QED BY <2>1, <2>2, <2>3
<1>2. /\ approval = "none" /\ refusals = <<>>
      /\ UNCHANGED <<approval, stored, saved, refusals>>
  BY DEF Begin, approvalVars, PauseInv, PauseAgrees
<1>3. pc' = "next" /\ status' = [t \in DOMAIN p |-> "pending"]
  BY DEF Begin
<1>4. Asked' /\ PauseAgrees'
  BY <1>2, <1>3 DEF Asked, PauseAgrees
<1>5. WritesAwaitApproval'
  BY <1>2 DEF WritesAwaitApproval, PauseInv
<1> QED
  BY <1>1, <1>2, <1>3, <1>4, <1>5 DEF PauseInv, Statuses

LEMMA AskKeepsPause ==
  ASSUME PauseInv, AskApproval
  PROVE  PauseInv'
<1>1. /\ pc = "working" /\ cur \in MemoryTasks /\ status[cur] = "pending"
      /\ approval = "none" /\ stored = 0
  BY DEF AskApproval, WantsWrite, Working, AtWork, Task, MemoryTasks, Resumed, PauseInv, PauseAgrees,
         WritesAwaitApproval
<1>2. MemoryTasks' = MemoryTasks /\ Tasks' = Tasks
  BY DEF AskApproval, turnVars, MemoryTasks, Tasks
<1>3. /\ status' = [status EXCEPT ![cur] = "awaiting_approval"]
      /\ status' \in [Tasks -> Statuses] /\ status'[cur] = "awaiting_approval"
  BY <1>1 DEF AskApproval, PauseInv, MemoryTasks, Statuses
<1>4. saved'.status = status' /\ saved'.spent = spent /\ spent' = spent
  BY DEF AskApproval, toolVars
<1>5. Asked'
  BY <1>1, <1>2, <1>3, <1>4 DEF Asked, AskApproval
<1>6. PauseAgrees'
  <2>1. pc' = "waiting" /\ approval' = "pending"
    BY DEF AskApproval
  <2> QED
    BY <1>4, <2>1 DEF PauseAgrees
<1>7. WritesAwaitApproval'
  BY <1>1, <1>2 DEF AskApproval, WritesAwaitApproval, PauseInv, MemoryTasks
<1> QED
  BY <1>2, <1>3, <1>5, <1>6, <1>7 DEF PauseInv, AskApproval

LEMMA ApproveKeepsPause ==
  ASSUME PauseInv, Approve
  PROVE  PauseInv'
<1>1. approval = "pending" /\ stored = 0 /\ status = saved.status
  BY DEF Approve, PauseInv, PauseAgrees, WritesAwaitApproval
<1>2. MemoryTasks' = MemoryTasks /\ Tasks' = Tasks
  BY DEF Approve, turnVars, MemoryTasks, Tasks
<1>3. status' \in [Tasks -> Statuses]
  BY DEF Approve, PauseInv, Statuses
<1>4. \A t \in Tasks : saved.status[t] = "awaiting_approval" => status'[t] # "pending"
  BY <1>1 DEF Approve
<1>5. Asked'
  BY <1>1, <1>2, <1>4 DEF Approve, Asked, PauseInv, MemoryTasks
<1>6. WritesAwaitApproval'
  <2>1. approval' = "approved" /\ stored' = 1 /\ refusals' = refusals
    BY <1>1 DEF Approve
  <2> QED
    BY <1>2, <2>1 DEF WritesAwaitApproval, PauseInv, MemoryTasks
<1> QED
  BY <1>2, <1>3, <1>5, <1>6 DEF PauseInv, PauseAgrees, Approve, Goto

LEMMA ApplyFailsKeepsPause ==
  ASSUME PauseInv, ApplyFails
  PROVE  PauseInv'
<1>1. MemoryTasks' = MemoryTasks /\ Tasks' = Tasks
  BY DEF ApplyFails, turnVars, MemoryTasks, Tasks
<1>2. /\ UNCHANGED <<pc, status, cur, approval, stored, saved, spent>>
      /\ pc = "waiting" /\ refusals' = Append(refusals, "write")
  BY DEF ApplyFails, toolVars
<1>3. Asked' /\ PauseAgrees'
  BY <1>1, <1>2 DEF PauseInv, PauseAgrees, Asked
<1>4. refusals' \in Seq({"write", "nested", "cut"})
  BY <1>2 DEF PauseInv
<1>5. (\E i \in DOMAIN refusals' : refusals'[i] = "nested") => \E i \in DOMAIN refusals : refusals[i] = "nested"
  BY <1>2 DEF PauseInv
<1>6. WritesAwaitApproval'
  BY <1>1, <1>2, <1>5 DEF WritesAwaitApproval, PauseInv, MemoryTasks
<1> QED
  BY <1>1, <1>2, <1>3, <1>4, <1>6 DEF PauseInv

LEMMA RejectKeepsPause ==
  ASSUME PauseInv, Reject
  PROVE  PauseInv'
<1>1. MemoryTasks' = MemoryTasks /\ Tasks' = Tasks
  BY DEF Reject, turnVars, MemoryTasks, Tasks
<1>2. approval = "pending" /\ approval' = "rejected" /\ stored = 0 /\ UNCHANGED <<stored, saved, refusals>>
  BY DEF Reject, PauseInv, PauseAgrees, WritesAwaitApproval
<1>3. status' \in [Tasks -> Statuses] /\ pc' = "completed"
  BY DEF Reject, PauseInv, Statuses
<1>4. WritesAwaitApproval'
  BY <1>1, <1>2 DEF WritesAwaitApproval, PauseInv, MemoryTasks
<1> QED
  BY <1>1, <1>2, <1>3, <1>4 DEF PauseInv, PauseAgrees, Asked

LEMMA PauseNext ==
  ASSUME PauseInv, [Next]_vars
  PROVE  PauseInv'
<1> USE DEF turnVars, approvalVars, toolVars
<1>1. ASSUME NEW p \in Plans, NEW q \in Questions, Begin(p, q)
      PROVE  PauseInv'
  BY <1>1, BeginKeepsPause
<1>2. CASE PassOver
  BY <1>2, QuietKeepsPause DEF PassOver, Goto
<1>3. CASE Skip
  <2>1. approval \in {"none", "approved"} /\ status' \in [Tasks -> Statuses]
    BY <1>3 DEF Skip, PauseInv, PauseAgrees, Statuses
  <2> QED
    BY <1>3, <2>1, WorkKeepsPause DEF Skip, Goto, PauseInv
<1>4. CASE Dispatch
  <2>1. approval \in {"none", "approved"}
    BY <1>4 DEF Dispatch, PauseInv, PauseAgrees
  <2> QED
    BY <1>4, <2>1, WorkKeepsPause DEF Dispatch, Left, PauseInv
<1>5. CASE FromContext
  BY <1>5, SucceedKeepsPause DEF FromContext, Working, AtWork
<1>6. CASE NoContext
  BY <1>6, SucceedKeepsPause DEF NoContext, Working, AtWork
<1>7. ASSUME NEW S \in SUBSET Passages, FromSearch(S)
      PROVE  PauseInv'
  BY <1>7, SucceedKeepsPause DEF FromSearch, Searches, Working, AtWork
<1>8. CASE SearchFails
  BY <1>8, FailKeepsPause DEF SearchFails, Searches, Working, AtWork
<1>9. CASE MemoryRead
  BY <1>9, SucceedKeepsPause DEF MemoryRead, Working, AtWork
<1>10. CASE MemoryReadFails
  BY <1>10, FailKeepsPause DEF MemoryReadFails, Working, AtWork
<1>11. CASE AskApproval
  BY <1>11, AskKeepsPause
<1>12. CASE ToolsSucceed
  BY <1>12, SucceedKeepsPause DEF ToolsSucceed, Working, AtWork
<1>13. ASSUME NEW n \in 1..3, NEW r \in BOOLEAN, ToolFails(n, r)
       PROVE  PauseInv'
  BY <1>13, FailKeepsPause DEF ToolFails, Working, AtWork
<1>14. CASE NoTool
  BY <1>14, FailKeepsPause DEF NoTool, Working, AtWork
<1>15. ASSUME NEW kind, NEW last, Answers(kind, last)
       PROVE  PauseInv'
  BY <1>15, SucceedKeepsPause DEF Answers, Working, AtWork
<1>16. ASSUME NEW n \in 0..3, TimesOut(n)
       PROVE  PauseInv'
  <2> DEFINE retryable == ~Resumed /\ question.retryTimeouts
  <2>1. Fail(retryable) /\ pc = "working" /\ UNCHANGED <<plan, approval, stored, saved, refusals>>
    BY <1>16 DEF TimesOut, AtWork
  <2> QED
    BY <2>1, FailKeepsPause
<1>17. ASSUME NEW kind, NEW last, SynthesizeFallback(kind, last)
       PROVE  PauseInv'
  BY <1>17, QuietKeepsPause DEF SynthesizeFallback
<1>18. CASE Complete
  BY <1>18, QuietKeepsPause DEF Complete
<1>19. CASE FailRun
  BY <1>19, QuietKeepsPause DEF FailRun
<1>20. CASE Approve
  BY <1>20, ApproveKeepsPause
<1>21. CASE ApplyFails
  BY <1>21, ApplyFailsKeepsPause
<1>22. CASE NestedApproval
  BY <1>22, NestedNeedsTwo, RollBackKeepsPause DEF NestedApproval
<1>23. CASE ResumptionFails
  BY <1>23, RollBackKeepsPause DEF ResumptionFails
<1>24. CASE Reject
  BY <1>24, RejectKeepsPause
<1>25. CASE UNCHANGED vars
  BY <1>25 DEF vars, PauseInv, PauseAgrees, Asked, MemoryTasks, Tasks, WritesAwaitApproval
<1> QED
  BY <1>1, <1>2, <1>3, <1>4, <1>5, <1>6, <1>7, <1>8, <1>9, <1>10, <1>11, <1>12, <1>13, <1>14, <1>15,
     <1>16, <1>17, <1>18, <1>19, <1>20, <1>21, <1>22, <1>23, <1>24, <1>25 DEF Next

(* agents/api.py: a memory is stored when its approval is granted, once, and  *)
(* an answer that is rolled back takes it back; only a plan with a second     *)
(* task of the memory agent ever refuses a grant for asking again.            *)
THEOREM WritesAreApproved ==
  Spec => []WritesAwaitApproval
<1>1. Init => PauseInv
  BY PauseInit
<1>2. PauseInv /\ [Next]_vars => PauseInv'
  BY PauseNext
<1>3. PauseInv => WritesAwaitApproval
  BY DEF PauseInv
<1> QED
  BY <1>1, <1>2, <1>3, PTL DEF Spec

-----------------------------------------------------------------------------
(* The budget of tool calls                                                   *)

(* What is counted covers what was executed, now and where the run was saved. *)
Covered(made, given, counted) ==
  /\ made \in Nat /\ given \in Nat /\ counted \in Nat
  /\ made - given <= counted /\ counted <= MaxToolCalls

BudgetInv ==
  /\ Covered(executed, uncounted, spent)
  /\ approval \in {"pending", "approved"} =>
       Covered(saved.executed, saved.uncounted, saved.spent) /\ saved.executed <= executed
  /\ PauseAgrees

LEMMA PreferredType ==
  ASSUME NEW t \in ToolAgentTools
  PROVE  Preferred(t) \in Seq(ToolAgentTools)
<1>1. <<t>> \in Seq(ToolAgentTools) /\ <<>> \in Seq(ToolAgentTools)
  OBVIOUS
<1> QED
  BY <1>1, Zenon DEF Preferred

LEMMA SelectedFits ==
  ASSUME MaxToolCalls \in Nat, spent \in Nat, spent <= MaxToolCalls
  PROVE  Selected \in Seq(ToolAgentTools) /\ Len(Selected) <= MaxToolCalls - spent
<1> DEFINE wanted == Preferred("calculator") \o Preferred("current_datetime") \o Preferred("conversation_summary")
           k == IF Len(wanted) < Remaining THEN Len(wanted) ELSE Remaining
<1>1. wanted \in Seq(ToolAgentTools)
  <2> HIDE DEF wanted
  <2>1. /\ Preferred("calculator") \in Seq(ToolAgentTools)
        /\ Preferred("current_datetime") \in Seq(ToolAgentTools)
        /\ Preferred("conversation_summary") \in Seq(ToolAgentTools)
    BY PreferredType DEF ToolAgentTools
  <2>2. Preferred("calculator") \o Preferred("current_datetime") \in Seq(ToolAgentTools)
    BY <2>1
  <2> QED
    BY <2>1, <2>2 DEF wanted
<1>2. Selected = SubSeq(wanted, 1, k)
  BY DEF Selected
<1>3. Remaining \in Nat /\ Remaining <= MaxToolCalls - spent
  BY DEF Remaining
<1> HIDE DEF wanted
<1>4. k \in Nat /\ k <= Len(wanted) /\ k <= Remaining
  BY <1>1, <1>3
<1> HIDE DEF k
<1>5. SubSeq(wanted, 1, k) \in Seq(ToolAgentTools) /\ Len(SubSeq(wanted, 1, k)) = k
  BY <1>1, <1>4
<1> QED
  BY <1>2, <1>3, <1>4, <1>5

LEMMA CallsBounded ==
  ASSUME NEW n \in Nat
  PROVE  Calls(n) \in Nat /\ Calls(n) <= n
<1> DEFINE made == {i \in 1..n : Selected[i] # "calculator" \/ question.expression}
<1>1. IsFiniteSet(1..n) /\ Cardinality(1..n) = n
  BY FS_Interval
<1>2. made \subseteq 1..n
  OBVIOUS
<1>3. IsFiniteSet(made) /\ Cardinality(made) <= Cardinality(1..n) /\ Cardinality(made) \in Nat
  BY <1>1, <1>2, FS_Subset, FS_CardinalityType
<1> QED
  BY <1>1, <1>3 DEF Calls

LEMMA BudgetNext ==
  ASSUME MaxToolCalls \in Nat, BudgetInv, PauseAgrees', [Next]_vars
  PROVE  BudgetInv'
<1> USE DEF turnVars, approvalVars, toolVars
<1>1. CASE UNCHANGED <<executed, uncounted, spent, approval, saved>>
  BY <1>1 DEF BudgetInv, Covered
<1>2. ASSUME Working("tool"), NEW n \in Nat, n <= Len(Selected), spent' = spent + n,
             executed' = executed + Calls(n), UNCHANGED <<uncounted, approval, saved>>
      PROVE  BudgetInv'
  <2>1. n <= MaxToolCalls - spent
    BY <1>2, SelectedFits DEF BudgetInv, Covered
  <2>2. Calls(n) \in Nat /\ Calls(n) <= n
    BY <1>2, CallsBounded
  <2>3. \A c \in Nat : c <= n => Covered(executed + c, uncounted, spent + n)
    BY <1>2, <2>1 DEF BudgetInv, Covered
  <2>4. executed' >= executed
    BY <1>2, <2>2 DEF BudgetInv, Covered
  <2>5. Covered(executed', uncounted', spent')
    BY <1>2, <2>2, <2>3
  <2>6. approval' \in {"pending", "approved"} =>
          Covered(saved'.executed, saved'.uncounted, saved'.spent) /\ saved'.executed <= executed'
    <3> SUFFICES ASSUME approval \in {"pending", "approved"}
                 PROVE  Covered(saved.executed, saved.uncounted, saved.spent) /\ saved.executed <= executed'
      BY <1>2
    <3> QED
      BY <1>2, <2>2 DEF BudgetInv, Covered
  <2> QED
    BY <2>5, <2>6 DEF BudgetInv, Covered
<1>3. CASE ToolsSucceed
  <2>1. Len(Selected) \in Nat
    BY SelectedFits DEF BudgetInv, Covered
  <2> QED
    BY <1>2, <1>3, <2>1 DEF ToolsSucceed
<1>4. ASSUME NEW n \in 1..3, NEW r \in BOOLEAN, ToolFails(n, r)
      PROVE  BudgetInv'
  <2>1. n \in Nat /\ n <= Len(Selected)
    BY <1>4, SelectedFits DEF ToolFails, BudgetInv, Covered
  <2> QED
    BY <1>2, <1>4, <2>1 DEF ToolFails
<1>5. ASSUME NEW n \in 0..3, TimesOut(n)
      PROVE  BudgetInv'
  <2>1. Calls(n) \in Nat
    BY CallsBounded
  <2>2. /\ executed' = executed + Calls(n) /\ uncounted' = uncounted + Calls(n)
        /\ UNCHANGED <<spent, approval, saved>>
    BY <1>5 DEF TimesOut
  <2> QED
    BY <2>1, <2>2 DEF BudgetInv, Covered
<1>6. CASE AskApproval
  <2>1. /\ saved'.executed = executed /\ saved'.uncounted = uncounted /\ saved'.spent = spent
        /\ UNCHANGED <<executed, uncounted, spent>>
    BY <1>6 DEF AskApproval
  <2> QED
    BY <2>1 DEF BudgetInv, Covered
<1>7. CASE Approve
  BY <1>7 DEF Approve, SpentSoFar, BudgetInv, Covered, PauseAgrees
<1>8. ASSUME NEW why, Resumed, RollBack(why)
      PROVE  BudgetInv'
  <2>1. /\ spent' = saved.spent /\ uncounted' = saved.uncounted + (executed - saved.executed)
        /\ UNCHANGED <<executed, saved>>
    BY <1>8 DEF RollBack
  <2> QED
    BY <1>8, <2>1 DEF BudgetInv, Covered, Resumed
<1>9. CASE Reject
  BY <1>9 DEF Reject, BudgetInv, Covered
<1>10. CASE NestedApproval \/ ResumptionFails
  BY <1>8, <1>10 DEF NestedApproval, ResumptionFails
<1>11. CASE UNCHANGED vars
  BY <1>1, <1>11 DEF vars
<1>12. CASE PassOver \/ Skip \/ Dispatch \/ Complete \/ FailRun \/ ApplyFails
  BY <1>1, <1>12 DEF PassOver, Skip, Dispatch, Complete, FailRun, ApplyFails
<1>13. CASE \/ FromContext \/ NoContext \/ SearchFails \/ MemoryRead \/ MemoryReadFails \/ NoTool
            \/ \E S \in SUBSET Passages : FromSearch(S)
  BY <1>1, <1>13 DEF FromContext, NoContext, SearchFails, MemoryRead, MemoryReadFails, NoTool, FromSearch
<1>14. ASSUME NEW p \in Plans, NEW q \in Questions, Begin(p, q)
       PROVE  BudgetInv'
  BY <1>1, <1>14 DEF Begin
<1>15. ASSUME NEW kind, NEW last, Answers(kind, last) \/ SynthesizeFallback(kind, last)
       PROVE  BudgetInv'
  BY <1>1, <1>15 DEF Answers, SynthesizeFallback
<1> QED
  BY <1>3, <1>4, <1>5, <1>6, <1>7, <1>9, <1>10, <1>11, <1>12, <1>13, <1>14, <1>15 DEF Next

(* agents/budgets.py, specialists/tool_agent.py: no run makes more calls of   *)
(* tools than agent_max_tool_calls, except those of attempts that were given  *)
(* up before they were counted.                                               *)
THEOREM ToolCallsAreLimited ==
  Spec => []ToolCallsWithinBudget
<1>1. Init => PauseInv /\ BudgetInv
  BY PauseInit, Configured DEF Init, BudgetInv, Covered, PauseAgrees
<1>2. PauseInv /\ BudgetInv /\ [Next]_vars => (PauseInv /\ BudgetInv)'
  BY PauseNext, BudgetNext, Configured DEF PauseInv
<1>3. BudgetInv => ToolCallsWithinBudget
  BY DEF BudgetInv, Covered, ToolCallsWithinBudget
<1> QED
  BY <1>1, <1>2, <1>3, PTL DEF Spec

-----------------------------------------------------------------------------
(* What the answer is written from                                            *)

Findings == {f \in SUBSET Passages : \A p \in f : ~p.instructs}
Found == [shown : BOOLEAN, facts : Findings]

(* Before an approval is asked for, tasks are worked off one after the other; *)
(* what succeeded is shown, and what an answer was written from stays as it   *)
(* was then.                                                                  *)
InOrder ==
  /\ cur > 0
  /\ \A t \in Tasks : status[t] = "pending" <=> t >= cur
  /\ \A t \in Tasks : results[t].shown <=> status[t] = "succeeded"
  /\ answer.by \in Nat /\ answer.by <= cur
  /\ UsesFindingsOf(Earlier)

FindingsTyped ==
  /\ pc \in {"idle", "next", "working", "waiting", "completed", "failed"}
  /\ question \in Questions \cup {NoQuestion} /\ plan \in Plans \cup {<<>>}
  /\ cur \in Nat /\ attempt \in 0..MaxRetries
  /\ results \in [Tasks -> Found]
  /\ approval \in {"none", "pending", "approved", "rejected"}
  /\ approval \in {"pending", "approved"} => saved.results \in [Tasks -> Found]
  /\ answer.facts \in Findings
  /\ pc = "idle" => answer = Unanswered /\ attempt = 0

FindingsInv ==
  /\ FindingsTyped
  /\ approval = "none" /\ pc # "idle" => InOrder

LEMMA NothingFound == {} \in Findings
BY DEF Findings

LEMMA FactsAreFindings ==
  ASSUME NEW S \in SUBSET Passages
  PROVE  Facts(S) \in Findings
BY DEF Facts, Findings

LEMMA UnionOfFindings ==
  ASSUME FindingsTyped, NEW S \in SUBSET Tasks
  PROVE  UNION {results[t].facts : t \in S} \in Findings
<1>1. \A t \in S : results[t].facts \in Findings
  BY DEF FindingsTyped, Found
<1> QED
  BY <1>1 DEF Findings

LEMMA PlanLength ==
  ASSUME FindingsTyped
  PROVE  Len(plan) \in Nat /\ Tasks = 1..Len(plan)
<1>1. Len(<<>>) = 0 /\ DOMAIN <<>> = 1..0
  OBVIOUS
<1> QED
  BY <1>1, Configured DEF FindingsTyped, Tasks

(* A task that is worked off leaves the answer and the other tasks alone.     *)
LEMMA SettleKeepsOrder ==
  ASSUME FindingsTyped, InOrder, status \in [Tasks -> Statuses], cur \in Tasks,
         NEW how \in {"succeeded", "failed", "skipped"}, NEW shown \in BOOLEAN, NEW facts \in Findings,
         how = "succeeded" <=> shown,
         status' = [status EXCEPT ![cur] = how],
         results' = [results EXCEPT ![cur] = Result(shown, facts)],
         cur' = cur + 1, UNCHANGED <<plan, question, answer>>
  PROVE  InOrder'
<1>1. Len(plan) \in Nat /\ Tasks = 1..Len(plan) /\ Tasks' = Tasks /\ cur \in Nat
  <2>1. Len(plan) \in Nat /\ Tasks = 1..Len(plan)
    BY PlanLength
  <2> QED
    BY <2>1 DEF Tasks, FindingsTyped
<1>2. \A t \in Tasks : t # cur => status'[t] = status[t] /\ results'[t] = results[t]
  BY DEF FindingsTyped
<1>3. status'[cur] = how /\ results'[cur].shown = shown /\ status[cur] = "pending"
  BY <1>1 DEF FindingsTyped, Result, InOrder
<1>4. cur' > 0 /\ answer'.by \in Nat /\ answer'.by <= cur'
  BY <1>1 DEF InOrder
<1>5. \A t \in Tasks : status'[t] = "pending" <=> t >= cur'
  BY <1>1, <1>2, <1>3 DEF InOrder
<1>6. \A t \in Tasks : results'[t].shown <=> status'[t] = "succeeded"
  BY <1>2, <1>3 DEF InOrder
<1>7. \A t \in Tasks : t < answer.by => t # cur
  BY <1>1 DEF InOrder
<1>8. Earlier' = Earlier
  <2>1. ~(answer.by > Len(plan))
    BY <1>1 DEF InOrder
  <2>2. \A t \in Tasks : t < answer.by => status'[t] = status[t]
    BY <1>2, <1>7
  <2> QED
    BY <1>1, <2>1, <2>2 DEF Earlier
<1>9. UsesFindingsOf(Earlier)'
  <2>1. \A t \in answer.from : t \in Earlier
    BY DEF InOrder, UsesFindingsOf, Latest
  <2>2. \A t \in answer.from : t \in Tasks /\ t < answer.by
    BY <2>1 DEF Earlier
  <2>3. \A t \in answer.from : results'[t] = results[t]
    BY <1>2, <1>7, <2>2
  <2> HIDE DEF Earlier
  <2> QED
    BY <1>8, <2>3 DEF InOrder, UsesFindingsOf, Latest
<1> QED
  BY <1>1, <1>4, <1>5, <1>6, <1>9 DEF InOrder

LEMMA SucceedKeepsFindings ==
  ASSUME PauseInv, FindingsInv, pc = "working", NEW facts \in Findings, Succeed(facts),
         UNCHANGED <<turnVars, approval, saved, answer>>
  PROVE  FindingsInv'
<1>1. cur \in Tasks /\ status \in [Tasks -> Statuses]
  BY DEF PauseInv
<1>2. /\ status' = [status EXCEPT ![cur] = "succeeded"]
      /\ results' = [results EXCEPT ![cur] = Result(TRUE, facts)]
      /\ cur' = cur + 1 /\ attempt' = 0 /\ pc' = "next"
      /\ UNCHANGED <<plan, question, answer, approval, saved>> /\ Tasks' = Tasks
  BY DEF Succeed, Goto, turnVars, Tasks
<1>3. results' \in [Tasks -> Found]
  BY <1>2 DEF FindingsInv, FindingsTyped, Found, Result
<1>6. attempt' \in 0..MaxRetries /\ cur' \in Nat
  BY <1>2, Configured DEF FindingsInv, FindingsTyped
<1>4. FindingsTyped'
  BY <1>2, <1>3, <1>6 DEF FindingsInv, FindingsTyped
<1>5. approval = "none" => InOrder'
  BY <1>1, <1>2, SettleKeepsOrder DEF FindingsInv
<1> QED
  BY <1>2, <1>4, <1>5 DEF FindingsInv

LEMMA OrderStays ==
  ASSUME UNCHANGED <<plan, question, status, results, cur, answer>>, InOrder
  PROVE  InOrder'
<1>1. Tasks' = Tasks
  BY DEF Tasks
<1>2. Earlier' = Earlier
  BY <1>1 DEF Earlier
<1>3. \A S : UsesFindingsOf(S) => UsesFindingsOf(S)'
  BY DEF UsesFindingsOf, Latest
<1>4. UsesFindingsOf(Earlier)'
  BY <1>2, <1>3 DEF InOrder
<1> QED
  BY <1>1, <1>4 DEF InOrder

LEMMA FailKeepsFindings ==
  ASSUME PauseInv, FindingsInv, pc = "working", NEW retryable \in BOOLEAN, Fail(retryable),
         UNCHANGED <<turnVars, approval, saved, answer>>
  PROVE  FindingsInv'
<1>1. cur \in Tasks /\ status \in [Tasks -> Statuses]
  BY DEF PauseInv
<1>2. UNCHANGED <<plan, question, answer, approval, saved>> /\ Tasks' = Tasks
  BY DEF turnVars, Tasks
<1>3. CASE retryable /\ attempt < MaxRetries
  <2>1. UNCHANGED <<pc, status, results, cur>> /\ attempt' \in 0..MaxRetries
    BY <1>3, Configured DEF Fail, FindingsInv, FindingsTyped
  <2>2. FindingsTyped'
    BY <1>2, <2>1 DEF FindingsInv, FindingsTyped
  <2>3. InOrder => InOrder'
    BY <1>2, <2>1, OrderStays
  <2> QED
    BY <1>2, <2>1, <2>2, <2>3 DEF FindingsInv
<1>4. CASE ~(retryable /\ attempt < MaxRetries)
  <2>1. /\ status' = [status EXCEPT ![cur] = "failed"]
        /\ results' = [results EXCEPT ![cur] = Result(Resumed, {})]
        /\ cur' = cur + 1 /\ attempt' = 0 /\ pc' = "next"
    BY <1>4 DEF Fail, Goto
  <2>2. results' \in [Tasks -> Found]
    BY <2>1, NothingFound DEF FindingsInv, FindingsTyped, Found, Result, Resumed
  <2>5. attempt' \in 0..MaxRetries /\ cur' \in Nat
    BY <2>1, Configured DEF FindingsInv, FindingsTyped
  <2>3. FindingsTyped'
    BY <1>2, <2>1, <2>2, <2>5 DEF FindingsInv, FindingsTyped
  <2>4. ASSUME approval = "none"
        PROVE  InOrder'
    <3>1. Resumed = FALSE
      BY <2>4 DEF Resumed
    <3> QED
      BY <1>1, <1>2, <2>1, <2>4, <3>1, NothingFound, SettleKeepsOrder DEF FindingsInv
  <2> QED
    BY <1>2, <2>1, <2>3, <2>4 DEF FindingsInv
<1> QED
  BY <1>3, <1>4

(* Steps that move on, or end the run.                                        *)
LEMMA MoveKeepsFindings ==
  ASSUME FindingsInv, pc # "idle", pc' \in {"next", "working", "completed", "failed"},
         UNCHANGED <<turnVars, status, results, cur, attempt, approval, saved, answer>>
  PROVE  FindingsInv'
<1>1. UNCHANGED <<plan, question>> /\ Tasks' = Tasks
  BY DEF turnVars, Tasks
<1>2. FindingsTyped'
  BY <1>1 DEF FindingsInv, FindingsTyped
<1>3. InOrder => InOrder'
  <2>1. Earlier' = Earlier
    BY <1>1 DEF Earlier
  <2>2. UsesFindingsOf(Earlier) => UsesFindingsOf(Earlier)'
    BY <1>1, <2>1 DEF UsesFindingsOf, Latest
  <2> QED
    BY <1>1, <2>2 DEF InOrder
<1> QED
  BY <1>2, <1>3 DEF FindingsInv

LEMMA SkipKeepsFindings ==
  ASSUME PauseInv, FindingsInv, Skip
  PROVE  FindingsInv'
<1>1. /\ cur \in Tasks /\ status[cur] = "pending" /\ pc # "idle"
      /\ status' = [status EXCEPT ![cur] = "skipped"]
      /\ cur' = cur + 1 /\ attempt' = 0 /\ pc' = "next"
      /\ UNCHANGED <<plan, question, results, approval, saved, answer>> /\ Tasks' = Tasks
  BY DEF Skip, Left, Goto, turnVars, approvalVars, Tasks
<1>2. attempt' \in 0..MaxRetries /\ cur' \in Nat
  BY <1>1, Configured DEF FindingsInv, FindingsTyped
<1>3. FindingsTyped'
  BY <1>1, <1>2 DEF FindingsInv, FindingsTyped
<1>4. ASSUME approval = "none"
      PROVE  InOrder'
  <2>1. InOrder /\ FindingsTyped
    BY <1>1, <1>4 DEF FindingsInv
  <2> DEFINE facts == results[cur].facts
  <2>2. results[cur] \in Found /\ results[cur].shown = FALSE
    BY <1>1, <2>1 DEF FindingsTyped, InOrder, Found
  <2>3. results[cur] = Result(FALSE, facts) /\ facts \in Findings
    BY <2>2 DEF Found, Result
  <2>4. results' = [results EXCEPT ![cur] = Result(FALSE, facts)]
    BY <1>1, <2>1, <2>3 DEF FindingsTyped
  <2> HIDE DEF facts
  <2> QED
    BY <1>1, <2>1, <2>3, <2>4, SettleKeepsOrder DEF PauseInv
<1> QED
  BY <1>1, <1>3, <1>4 DEF FindingsInv

(* The material is what there is room for.                                    *)
LEMMA MaterialOf ==
  ASSUME FindingsTyped, NEW shown \in SUBSET Tasks, NEW last, Room(last)
  PROVE  /\ Material(shown, last) \subseteq Latest(shown) /\ Latest(shown) \subseteq Tasks
         /\ question.fits => Material(shown, last) = Latest(shown)
         /\ last \in Nat => \A t \in Material(shown, last), u \in Latest(shown) : u < t => u \in Material(shown, last)
<1>1. Len(plan) \in Nat /\ Tasks = 1..Len(plan)
  BY PlanLength
<1>2. Material(shown, last) \subseteq Latest(shown) /\ Latest(shown) \subseteq Tasks
  BY DEF Material, Latest
<1>3. ASSUME question.fits PROVE Material(shown, last) = Latest(shown)
  BY <1>1, <1>2, <1>3 DEF Room, Material
<1>4. ASSUME last \in Nat, NEW t \in Material(shown, last), NEW u \in Latest(shown), u < t
      PROVE  u \in Material(shown, last)
  <2>1. t \in Nat /\ u \in Nat /\ t <= last
    BY <1>1, <1>2, <1>4 DEF Material
  <2>2. u <= last
    BY <1>4, <2>1
  <2> QED
    BY <2>2 DEF Material
<1> QED
  BY <1>2, <1>3, <1>4

LEMMA AnswerKeepsFindings ==
  ASSUME PauseInv, FindingsInv, NEW kind, NEW last \in 0..Len(plan), Answers(kind, last)
  PROVE  FindingsInv'
<1>1. CASE answer' = answer
  BY <1>1, NothingFound, SucceedKeepsFindings DEF Answers, Working, AtWork, approvalVars
<1>2. CASE kind # "blank"
  <2> DEFINE view == Material(InView, last)
  <2>1. /\ cur \in Tasks /\ status \in [Tasks -> Statuses] /\ pc = "working" /\ Room(last)
        /\ status' = [status EXCEPT ![cur] = "succeeded"]
        /\ results' = [results EXCEPT ![cur] = Result(TRUE, {})]
        /\ cur' = cur + 1 /\ attempt' = 0 /\ pc' = "next"
        /\ UNCHANGED <<plan, question, approval, saved>> /\ Tasks' = Tasks
    BY DEF Answers, Working, AtWork, Succeed, Goto, turnVars, approvalVars, Tasks, PauseInv
  <2>2. /\ answer'.by = cur /\ answer'.from = view
        /\ answer'.facts = UNION {results[t].facts : t \in view}
    BY <1>2 DEF Answers, Written
  <2>0. Len(plan) \in Nat /\ Tasks = 1..Len(plan) /\ FindingsTyped
    BY PlanLength DEF FindingsInv
  <2>8. InView \subseteq Tasks /\ last \in Nat
    BY <2>0 DEF InView
  <2>3. /\ view \subseteq Latest(InView) /\ Latest(InView) \subseteq Tasks
        /\ question.fits => view = Latest(InView)
        /\ \A t \in view, u \in Latest(InView) : u < t => u \in view
    BY <2>0, <2>1, <2>8, MaterialOf
  <2> HIDE DEF view
  <2>4. answer'.facts \in Findings
    BY <2>0, <2>2, <2>3, UnionOfFindings
  <2>5. attempt' \in 0..MaxRetries /\ cur' \in Nat /\ results' \in [Tasks -> Found]
    BY <2>1, NothingFound, Configured DEF FindingsInv, FindingsTyped, Found, Result
  <2>6. FindingsTyped'
    BY <2>1, <2>4, <2>5 DEF FindingsInv, FindingsTyped
  <2>7. ASSUME approval = "none"
        PROVE  InOrder'
    <3>1. InOrder /\ FindingsTyped
      BY <2>1, <2>7 DEF FindingsInv
    <3>3. cur \in Nat /\ cur > 0 /\ ~(cur > Len(plan))
      BY <2>0, <2>1
    <3>4. \A t \in Tasks : t # cur => status'[t] = status[t] /\ results'[t] = results[t]
      BY <2>1, <3>1 DEF FindingsTyped
    <3>5. status'[cur] = "succeeded" /\ results'[cur].shown = TRUE /\ status[cur] = "pending"
      BY <2>1, <3>1 DEF FindingsTyped, Result, PauseInv
    <3>6. \A t \in Tasks : status'[t] = "pending" <=> t >= cur'
      BY <2>0, <2>1, <3>1, <3>3, <3>4, <3>5 DEF InOrder
    <3>7. \A t \in Tasks : results'[t].shown <=> status'[t] = "succeeded"
      BY <3>1, <3>4, <3>5 DEF InOrder
    <3>8. \A t \in Tasks : t \in InView <=> t < cur /\ status'[t] = "succeeded"
      <4> SUFFICES ASSUME NEW t \in Tasks PROVE t \in InView <=> t < cur /\ status'[t] = "succeeded"
        OBVIOUS
      <4>1. t \in InView <=> status[t] = "succeeded"
        BY <3>1 DEF InView, InOrder
      <4>2. CASE t < cur
        BY <2>0, <3>3, <3>4, <4>1, <4>2
      <4>3. CASE ~(t < cur)
        <5>1. status[t] = "pending"
          BY <2>0, <3>1, <3>3, <4>3 DEF InOrder
        <5> QED
          BY <4>1, <4>3, <5>1
      <4> QED
        BY <4>2, <4>3
    <3>9. Earlier' = InView
      BY <2>1, <2>2, <2>8, <3>3, <3>8 DEF Earlier
    <3>10. cur' > 0 /\ answer'.by \in Nat /\ answer'.by <= cur'
      BY <2>1, <2>2, <3>3
    <3>11. \A t \in view : t # cur /\ results'[t] = results[t]
      <4>1. cur \notin InView
        BY <2>1, <3>3, <3>8
      <4> QED
        BY <2>3, <3>4, <4>1 DEF Latest
    <3>12. UsesFindingsOf(Earlier)'
      <4>1. \A t \in view : results'[t].facts \subseteq answer'.facts
        BY <2>2, <3>11
      <4> QED
        BY <2>1, <2>2, <2>3, <3>9, <4>1 DEF UsesFindingsOf, Latest
    <3> QED
      BY <2>1, <3>6, <3>7, <3>10, <3>12 DEF InOrder
  <2> QED
    BY <2>1, <2>6, <2>7 DEF FindingsInv
<1> QED
  BY <1>1, <1>2 DEF Answers

LEMMA FallbackKeepsFindings ==
  ASSUME PauseInv, FindingsInv, NEW kind, NEW last \in 0..Len(plan), SynthesizeFallback(kind, last)
  PROVE  FindingsInv'
<1> DEFINE view == Material(Tasks, last)
<1>1. /\ pc = "next" /\ cur \notin Tasks /\ Room(last)
      /\ UNCHANGED <<pc, plan, question, status, results, cur, attempt, approval, saved>> /\ Tasks' = Tasks
  BY DEF SynthesizeFallback, turnVars, approvalVars, Tasks
<1>2. /\ answer'.by = cur /\ answer'.from = view
      /\ answer'.facts = UNION {results[t].facts : t \in view}
  BY DEF SynthesizeFallback, Written
<1>6. Len(plan) \in Nat /\ Tasks = 1..Len(plan) /\ FindingsTyped /\ last \in Nat
  BY PlanLength DEF FindingsInv
<1>7. /\ view \subseteq Latest(Tasks) /\ Latest(Tasks) \subseteq Tasks
      /\ question.fits => view = Latest(Tasks)
      /\ \A t \in view, u \in Latest(Tasks) : u < t => u \in view
  BY <1>1, <1>6, MaterialOf
<1> HIDE DEF view
<1>3. answer'.facts \in Findings
  BY <1>2, <1>6, <1>7, UnionOfFindings
<1>4. FindingsTyped'
  BY <1>1, <1>3 DEF FindingsInv, FindingsTyped
<1>5. ASSUME approval = "none"
      PROVE  InOrder'
  <2>1. InOrder /\ FindingsTyped
    BY <1>1, <1>5 DEF FindingsInv
  <2>2. cur \in Nat
    BY <2>1 DEF FindingsTyped
  <2>3. cur > Len(plan)
    BY <1>1, <1>6, <2>1, <2>2 DEF InOrder
  <2>4. \A t \in view : results[t].facts \subseteq answer'.facts
    BY <1>2
  <2>5. Earlier' = Tasks
    BY <1>1, <1>2, <1>6, <2>2, <2>3 DEF Earlier
  <2>6. UsesFindingsOf(Earlier)'
    BY <1>1, <1>2, <1>7, <2>4, <2>5 DEF UsesFindingsOf, Latest
  <2> QED
    BY <1>1, <1>2, <2>1, <2>2, <2>6 DEF InOrder
<1> QED
  BY <1>1, <1>4, <1>5 DEF FindingsInv

(* The pause, its answers, and the beginning are outside of the order. *)
LEMMA PauseKeepsFindings ==
  ASSUME PauseInv, FindingsInv,
         AskApproval \/ Approve \/ ApplyFails \/ NestedApproval \/ ResumptionFails \/ Reject
  PROVE  FindingsInv'
<1> USE DEF turnVars, approvalVars, toolVars
<1>1. UNCHANGED <<plan, question>> /\ Tasks' = Tasks
  BY DEF AskApproval, Approve, ApplyFails, NestedApproval, ResumptionFails, RollBack, Reject, Tasks
<1>2. 0 \in 0..MaxRetries /\ attempt \in 0..MaxRetries /\ cur \in Nat
  BY Configured DEF FindingsInv, FindingsTyped
<1>3. Unanswered.facts \in Findings
  BY NothingFound DEF Unanswered
<1>4. CASE AskApproval
  <2>1. /\ results' = results /\ saved'.results = results /\ approval' = "pending"
        /\ pc' = "waiting" /\ cur' = 0 /\ attempt' = 0 /\ answer' = Unanswered
    BY <1>4 DEF AskApproval
  <2> QED
    BY <1>1, <1>2, <1>3, <2>1 DEF FindingsInv, FindingsTyped
<1>5. CASE Approve
  <2>1. results' \in [Tasks -> Found]
    BY <1>5, NothingFound DEF Approve, Found, Result
  <2>2. /\ approval' = "approved" /\ approval = "pending" /\ saved' = saved /\ answer' = answer
        /\ pc' = "next" /\ cur' = 1 /\ attempt' = 0
    BY <1>5 DEF Approve, Goto, PauseInv, PauseAgrees
  <2> QED
    BY <1>1, <1>2, <2>1, <2>2 DEF FindingsInv, FindingsTyped
<1>6. CASE ApplyFails
  <2>1. approval = "pending" /\ UNCHANGED <<pc, results, cur, attempt, approval, saved, answer>>
    BY <1>6 DEF ApplyFails, PauseInv, PauseAgrees
  <2> QED
    BY <1>1, <2>1 DEF FindingsInv, FindingsTyped
<1>7. CASE NestedApproval \/ ResumptionFails
  <2>1. /\ results' = saved.results /\ saved' = saved /\ approval = "approved" /\ approval' = "pending"
        /\ pc' = "waiting" /\ cur' = 0 /\ attempt' = 0 /\ answer' = Unanswered
    BY <1>7 DEF NestedApproval, ResumptionFails, RollBack, Resumed
  <2> QED
    BY <1>1, <1>2, <1>3, <2>1 DEF FindingsInv, FindingsTyped
<1>8. CASE Reject
  <2>1. approval' = "rejected" /\ pc' = "completed" /\ UNCHANGED <<results, cur, attempt, saved, answer>>
    BY <1>8 DEF Reject
  <2> QED
    BY <1>1, <2>1 DEF FindingsInv, FindingsTyped
<1> QED
  BY <1>4, <1>5, <1>6, <1>7, <1>8

LEMMA BeginKeepsFindings ==
  ASSUME PauseInv, FindingsInv, NEW p \in Plans, NEW q \in Questions, Begin(p, q)
  PROVE  FindingsInv'
<1>1. Tasks' = DOMAIN p /\ DOMAIN p = 1..Len(p) /\ Len(p) \in Nat /\ plan' = p /\ question' = q
  BY Configured DEF Begin, Tasks
<1>2. /\ approval' = "none" /\ answer' = Unanswered /\ attempt' = attempt /\ attempt \in 0..MaxRetries
      /\ pc' = "next" /\ cur' = 1
  BY DEF Begin, approvalVars, PauseInv, PauseAgrees, FindingsInv, FindingsTyped
<1>3. /\ results' = [t \in DOMAIN p |-> Result(FALSE, {})]
      /\ status' = [t \in DOMAIN p |-> "pending"]
  BY DEF Begin
<1>4. results' \in [Tasks' -> Found]
  BY <1>1, <1>3, NothingFound DEF Found, Result
<1>5. answer'.by = 0 /\ answer'.from = {} /\ answer'.facts \in Findings
  BY <1>2, NothingFound DEF Unanswered
<1>6. FindingsTyped'
  BY <1>1, <1>2, <1>4, <1>5 DEF FindingsTyped
<1>7. InOrder'
  <2>1. \A t \in Tasks' : status'[t] = "pending" /\ t >= cur' /\ results'[t].shown = FALSE
    BY <1>1, <1>2, <1>3 DEF Result
  <2>2. \A t \in Tasks' : ~(t < answer'.by)
    BY <1>1, <1>5
  <2>3. UsesFindingsOf(Earlier)'
    BY <1>5, <2>2 DEF UsesFindingsOf, Earlier, Latest
  <2> QED
    BY <1>2, <1>5, <2>1, <2>3 DEF InOrder
<1> QED
  BY <1>6, <1>7 DEF FindingsInv

LEMMA FindingsNext ==
  ASSUME PauseInv, FindingsInv, [Next]_vars
  PROVE  FindingsInv'
<1> USE DEF approvalVars, toolVars
<1>1. question.context \subseteq Passages
  BY Configured DEF FindingsInv, FindingsTyped, NoQuestion
<1>2. ASSUME NEW p \in Plans, NEW q \in Questions, Begin(p, q)
      PROVE  FindingsInv'
  BY <1>2, BeginKeepsFindings
<1>3. CASE PassOver
  <2>1. approval # "none"
    BY <1>3 DEF PassOver, Left, FindingsInv, FindingsTyped, InOrder
  <2>2. /\ UNCHANGED <<plan, question, results, approval, saved, answer>> /\ Tasks' = Tasks
        /\ cur' = cur + 1 /\ attempt' = 0 /\ pc' = "next"
    BY <1>3 DEF PassOver, Goto, turnVars, Tasks
  <2>3. attempt' \in 0..MaxRetries /\ cur' \in Nat
    BY <2>2, Configured DEF FindingsInv, FindingsTyped
  <2> QED
    BY <2>1, <2>2, <2>3 DEF FindingsInv, FindingsTyped
<1>4. CASE Skip
  BY <1>4, SkipKeepsFindings
<1>5. CASE Dispatch \/ Complete \/ FailRun
  BY <1>5, MoveKeepsFindings DEF Dispatch, Complete, FailRun
<1>6. CASE FromContext
  BY <1>1, <1>6, FactsAreFindings, SucceedKeepsFindings DEF FromContext, Working, AtWork
<1>7. ASSUME NEW S \in SUBSET Passages, FromSearch(S)
      PROVE  FindingsInv'
  BY <1>7, FactsAreFindings, SucceedKeepsFindings DEF FromSearch, Searches, Working, AtWork
<1>8. CASE NoContext \/ MemoryRead \/ ToolsSucceed
  BY <1>8, NothingFound, SucceedKeepsFindings DEF NoContext, MemoryRead, ToolsSucceed, Working, AtWork
<1>9. CASE SearchFails \/ MemoryReadFails \/ NoTool
  BY <1>9, FailKeepsFindings DEF SearchFails, Searches, MemoryReadFails, NoTool, Working, AtWork
<1>10. ASSUME NEW n \in 1..3, NEW r \in BOOLEAN, ToolFails(n, r)
       PROVE  FindingsInv'
  BY <1>10, FailKeepsFindings DEF ToolFails, Working, AtWork
<1>11. ASSUME NEW n \in 0..3, TimesOut(n)
       PROVE  FindingsInv'
  BY <1>11, FailKeepsFindings DEF TimesOut, AtWork
<1>12. ASSUME NEW kind, NEW last \in 0..Len(plan), Answers(kind, last)
       PROVE  FindingsInv'
  BY <1>12, AnswerKeepsFindings
<1>13. ASSUME NEW kind, NEW last \in 0..Len(plan), SynthesizeFallback(kind, last)
       PROVE  FindingsInv'
  BY <1>13, FallbackKeepsFindings
<1>14. CASE AskApproval \/ Approve \/ ApplyFails \/ NestedApproval \/ ResumptionFails \/ Reject
  BY <1>14, PauseKeepsFindings
<1>15. CASE UNCHANGED vars
  <2>1. UNCHANGED <<pc, plan, question, status, results, cur, attempt, approval, saved, answer>> /\ Tasks' = Tasks
    BY <1>15 DEF vars, turnVars, Tasks
  <2>2. FindingsTyped'
    BY <2>1 DEF FindingsInv, FindingsTyped
  <2>3. Earlier' = Earlier
    BY <2>1 DEF Earlier
  <2>4. UsesFindingsOf(Earlier) => UsesFindingsOf(Earlier)'
    BY <2>1, <2>3 DEF UsesFindingsOf, Latest
  <2>5. InOrder => InOrder'
    BY <2>1, <2>4 DEF InOrder
  <2> QED
    BY <2>1, <2>2, <2>5 DEF FindingsInv
<1> QED
  BY <1>2, <1>3, <1>4, <1>5, <1>6, <1>7, <1>8, <1>9, <1>10, <1>11, <1>12, <1>13, <1>14, <1>15 DEF Next

(* specialists/knowledge.py, coordinator.py, agents/context.py: for every     *)
(* plan, question and limit, the answer of a run that did not pause is        *)
(* written from the last MaxResults of the earlier tasks that succeeded, from *)
(* all of them when request, context and results fit the budgets and from the *)
(* oldest without a gap when they do not; nothing a passage orders is ever a  *)
(* fact in it; and every variable has its type.                               *)
THEOREM AnswersUseFindings ==
  Spec => []AnswerUsesFindings
<1>1. Init => PauseInv /\ FindingsInv
  <2> SUFFICES ASSUME Init PROVE FindingsInv
    BY PauseInit
  <2>1. Tasks = {} /\ results = <<>>
    BY DEF Init, Tasks
  <2>2. results \in [Tasks -> Found]
    BY <2>1
  <2> QED
    BY <2>2, NothingFound, Configured DEF Init, FindingsInv, FindingsTyped, Unanswered
<1>2. PauseInv /\ FindingsInv /\ [Next]_vars => (PauseInv /\ FindingsInv)'
  BY PauseNext, FindingsNext
<1>3. PauseInv /\ FindingsInv => AnswerUsesFindings
  <2> SUFFICES ASSUME PauseInv, FindingsInv PROVE AnswerUsesFindings
    OBVIOUS
  <2>1. results \in [Tasks -> [shown : BOOLEAN, facts : SUBSET Passages]]
    BY DEF FindingsInv, FindingsTyped, Found, Findings
  <2>2. status \in [Tasks -> {"pending", "succeeded", "failed", "skipped", "awaiting_approval"}]
    BY DEF PauseInv, Statuses
  <2>3. \A i \in DOMAIN refusals : refusals[i] \in {"write", "nested", "cut"}
    BY DEF PauseInv
  <2>4. TypeOK
    BY <2>1, <2>2, <2>3 DEF FindingsInv, FindingsTyped, TypeOK
  <2>5. \A p \in answer.facts : ~p.instructs
    BY DEF FindingsInv, FindingsTyped, Findings
  <2> QED
    BY <2>4, <2>5 DEF AnswerUsesFindings, FindingsInv, InOrder
<1> QED
  BY <1>1, <1>2, <1>3, PTL DEF Spec

-----------------------------------------------------------------------------
(* ToolTurn: types                                                            *)

PromptMessage == [role : {"tool"}, call : Nat] \cup [role : {"assistant"}, calls : Seq(Nat)]
AdminRequest == [pc : {"idle", "commit", "refresh", "list"}, tool : Tools \cup {None},
                 saw : T!Config \cup {None}, new : T!Config \cup {None}]

\* What stands where in a prompt that one message follows.
LEMMA Appended ==
  ASSUME NEW S, NEW s \in Seq(S), NEW x \in S
  PROVE  /\ Append(s, x) \in Seq(S)
         /\ Len(Append(s, x)) = Len(s) + 1
         /\ \A i \in DOMAIN s : Append(s, x)[i] = s[i]
         /\ Append(s, x)[Len(s) + 1] = x
OBVIOUS

LEMMA TailOf ==
  ASSUME NEW S, NEW s \in Seq(S), s # <<>>
  PROVE  /\ Head(s) \in S /\ Head(s) = s[1]
         /\ Tail(s) \in Seq(S) /\ Len(Tail(s)) = Len(s) - 1
         /\ \A i \in DOMAIN Tail(s) : Tail(s)[i] = s[i + 1]
OBVIOUS

LEMMA RequestedType ==
  ASSUME NEW names, names \in T!Calls(Tools \cup {Ghost}), MaxCalls \in Nat, NEW n \in Nat
  PROVE  T!Requested(names, n) \in Seq(T!Call)
<1>1. PICK m \in 0..MaxCalls : names \in [1..m -> Tools \cup {Ghost}]
  BY DEF T!Calls
<1>2. \A i \in 1..m : [id |-> n + i, tool |-> names[i]] \in T!Call
  BY <1>1 DEF T!Call
<1>3. T!Requested(names, n) \in [1..m -> T!Call]
  BY <1>1, <1>2 DEF T!Requested
<1> QED BY <1>3

LEMMA CallType ==
  ASSUME NEW call \in T!Call
  PROVE  call.id \in Nat /\ T!ToolMessage(call) \in PromptMessage
BY DEF T!Call, T!ToolMessage, PromptMessage

LEMMA SeqOf1ToN ==
  ASSUME NEW S, NEW m \in Nat, NEW f \in [1..m -> S]
  PROVE  f \in Seq(S) /\ Len(f) = m
OBVIOUS

LEMMA PromptType ==
  ASSUME NEW calls \in Seq(T!Call), NEW authorized \in Seq(T!Call), NEW refused \in Seq(T!Call)
  PROVE  /\ T!ToolMessages(refused) \in Seq(PromptMessage)
         /\ T!AssistantMessage(authorized) \in PromptMessage
         /\ T!PromptAfter(calls, authorized, refused) \in Seq(PromptMessage)
<1>1. T!ToolMessages(refused) \in Seq(PromptMessage)
  <2>1. \A i \in 1..Len(refused) : T!ToolMessage(refused[i]) \in PromptMessage
    BY CallType
  <2>2. T!ToolMessages(refused) \in [1..Len(refused) -> PromptMessage]
    BY <2>1 DEF T!ToolMessages
  <2>3. Len(refused) \in Nat
    OBVIOUS
  <2> QED BY <2>2, <2>3, SeqOf1ToN, Zenon
<1>2. [i \in DOMAIN authorized |-> authorized[i].id] \in Seq(Nat)
  <2>1. \A i \in 1..Len(authorized) : authorized[i].id \in Nat
    BY CallType
  <2>2. [i \in DOMAIN authorized |-> authorized[i].id] \in [1..Len(authorized) -> Nat]
    BY <2>1
  <2> QED BY <2>2
<1>3. T!AssistantMessage(authorized) \in PromptMessage
  BY <1>2 DEF T!AssistantMessage, PromptMessage
<1>4. <<T!AssistantMessage(authorized)>> \in Seq(PromptMessage)
  BY <1>3
<1> QED BY <1>1, <1>3, <1>4 DEF T!PromptAfter

\* What working has to be, from its type.
LEMMA WorkingType ==
  ASSUME NEW w \in Seq(PromptMessage), NEW i \in DOMAIN w
  PROVE  \/ w[i].role = "tool" /\ w[i].call \in Nat
         \/ w[i].role = "assistant" /\ w[i].calls \in Seq(Nat)
BY DEF PromptMessage

\* The variables of the turn that have a type of their own.
TurnTypes ==
  /\ turnPc \in {"idle"} \cup T!Busy \cup T!Ended
  /\ turnMode \in {"stream", "send"} /\ turnSelected \subseteq Tools
  /\ turnIterations \in 0..MaxIterations /\ turnAsked \in Nat /\ turnLeft \in Nat /\ turnShown \in Nat
  /\ turnQueue \in Seq(T!Call) /\ turnRows \in Seq(T!Record) /\ turnSaved \in Seq(T!Record)
  /\ turnIds \in Seq(Nat) /\ turnWorking \in Seq(PromptMessage) /\ turnBroken \in BOOLEAN
  /\ turnMessage \in [status : {"pending", "complete", "failed", "cancelled"}, chunks : Nat,
                      grounded : BOOLEAN, ids : Seq(Nat)]
  /\ turnPc = "tool" => turnQueue # <<>>
  /\ turnPc \notin {"calls", "tool", "failing"} => turnQueue = <<>>

AdminTypes ==
  /\ turnConfig \in [Tools -> T!Config \cup {None}]
  /\ turnRegistry \in [Tools -> T!Config \cup {None}]
  /\ turnUpdates \in Nat /\ turnOverlapped \in BOOLEAN
  /\ turnAdmin \in [Admins -> AdminRequest]
  /\ \A a \in Admins : turnAdmin[a].pc # "idle" => turnAdmin[a].tool \in Tools

LEMMA TypesGiveTypeOK == TurnTypes /\ AdminTypes => T!TypeOK
BY WorkingType DEF TurnTypes, AdminTypes, T!TypeOK

LEMMA RecordUpdated ==
  ASSUME NEW rows \in Seq(T!Record), NEW i \in Nat, NEW how \in T!RecordStatus
  PROVE  /\ [rows EXCEPT ![i].status = how] \in Seq(T!Record)
         /\ Len([rows EXCEPT ![i].status = how]) = Len(rows)
         /\ \A j \in DOMAIN rows : /\ [rows EXCEPT ![i].status = how][j].call = rows[j].call
                                   /\ j # i => [rows EXCEPT ![i].status = how][j] = rows[j]
                                   /\ j = i => [rows EXCEPT ![i].status = how][j].status = how
<1> DEFINE new == [rows EXCEPT ![i].status = how]
<1>0. DOMAIN rows = 1..Len(rows) /\ Len(rows) \in Nat
  OBVIOUS
<1>1. /\ new = [j \in 1..Len(rows) |-> new[j]]
      /\ \A j \in 1..Len(rows) : new[j] = IF j = i THEN [rows[j] EXCEPT !.status = how] ELSE rows[j]
  <2>1. new = [j \in DOMAIN rows |-> IF j = i THEN [rows[j] EXCEPT !.status = how] ELSE rows[j]]
    BY Zenon
  <2> HIDE DEF new
  <2>2. new = [j \in 1..Len(rows) |-> IF j = i THEN [rows[j] EXCEPT !.status = how] ELSE rows[j]]
    BY <1>0, <2>1, Zenon
  <2> QED
    BY <2>2, Zenon
<1> HIDE DEF new
<1>2. ASSUME NEW j \in 1..Len(rows)
      PROVE  /\ new[j] \in T!Record /\ new[j].call = rows[j].call
             /\ j # i => new[j] = rows[j]
             /\ j = i => new[j].status = how
  <2>1. rows[j] \in T!Record
    OBVIOUS
  <2> QED BY <1>1, <2>1 DEF T!Record
<1>3. new \in [1..Len(rows) -> T!Record]
  BY <1>1, <1>2
<1>4. new \in Seq(T!Record) /\ Len(new) = Len(rows)
  BY <1>0, <1>3, SeqOf1ToN, Zenon
<1> QED BY <1>0, <1>2, <1>4 DEF new

(* The calls of an answer, those on the allow-list and the others.            *)
LEMMA GeneratedCalls ==
  ASSUME T!ToolConstants, TurnTypes,
         NEW allowed \in T!Calls(turnSelected), NEW others \in T!Calls((Tools \cup {Ghost}) \ turnSelected)
  PROVE  LET authorized == T!Requested(allowed, turnAsked)
             refused == T!Requested(others, turnAsked + Len(allowed))
         IN  authorized \in Seq(T!Call) /\ refused \in Seq(T!Call) /\ authorized \o refused \in Seq(T!Call)
<1>1. MaxCalls \in Nat
  BY DEF T!ToolConstants
<1>2. allowed \in T!Calls(Tools \cup {Ghost}) /\ others \in T!Calls(Tools \cup {Ghost})
  BY DEF T!Calls, TurnTypes
<1>3. turnAsked \in Nat /\ turnAsked + Len(allowed) \in Nat
  BY <1>1 DEF T!Calls, TurnTypes
<1> DEFINE authorized == T!Requested(allowed, turnAsked)
           refused == T!Requested(others, turnAsked + Len(allowed))
<1>4. authorized \in Seq(T!Call) /\ refused \in Seq(T!Call)
  BY <1>1, <1>2, <1>3, RequestedType
<1>5. authorized \o refused \in Seq(T!Call)
  <2> HIDE DEF authorized, refused
  <2> QED BY <1>4
<1> QED BY <1>4, <1>5

LEMMA TurnTypesStep ==
  ASSUME T!ToolConstants, TurnTypes, T!Loop \/ T!Execute \/ T!Close
  PROVE  TurnTypes'
<1> USE DEF T!Busy, T!Ended
<1>0. MaxIterations \in Nat /\ MaxCalls \in Nat /\ MaxChunks \in Nat
  BY DEF T!ToolConstants
<1>1. CASE T!Start
  BY <1>0, <1>1 DEF TurnTypes, T!Start, T!adminVars
<1>2. ASSUME NEW allowed \in T!Calls(turnSelected), NEW others \in T!Calls((Tools \cup {Ghost}) \ turnSelected),
             T!GenerateCalls(allowed, others)
      PROVE  TurnTypes'
  <2> DEFINE authorized == T!Requested(allowed, turnAsked)
             refused == T!Requested(others, turnAsked + Len(allowed))
  <2>1. Len(allowed) \in Nat /\ Len(others) \in Nat
    BY <1>0 DEF T!Calls
  <2>3. authorized \in Seq(T!Call) /\ refused \in Seq(T!Call)
    BY GeneratedCalls
  <2>4. T!PromptAfter(authorized \o refused, authorized, refused) \in Seq(PromptMessage)
    <3>1. authorized \o refused \in Seq(T!Call)
      BY <2>3
    <3> HIDE DEF authorized, refused
    <3> QED BY <2>3, <3>1, PromptType
  <2> QED BY <1>0, <1>2, <2>1, <2>3, <2>4, SMTT(30) DEF TurnTypes, T!GenerateCalls
<1>3. ASSUME NEW n \in 0..MaxChunks, T!GenerateText(n)
      PROVE  TurnTypes'
  <2>1. turnPc = "generate" /\ turnPc' \in {"synthesis", "pieces"} /\ turnIterations' \in 0..MaxIterations
    BY <1>0, <1>3 DEF TurnTypes, T!GenerateText
  <2>2. turnLeft' \in Nat
    BY <1>0, <1>3 DEF TurnTypes, T!GenerateText
  <2>3. UNCHANGED <<turnMode, turnSelected, turnAsked, turnQueue, turnWorking, turnRows, turnIds, turnShown,
                    turnBroken, turnMessage, turnSaved>>
    BY <1>3 DEF T!GenerateText
  <2> QED BY <2>1, <2>2, <2>3 DEF TurnTypes
<1>4. CASE T!LimitReached \/ T!ProviderFails \/ T!Delta \/ T!Spoken \/ T!NextRound
  <2>1. CASE T!LimitReached \/ T!ProviderFails
    BY <2>1, SMTT(30) DEF TurnTypes, T!LimitReached, T!ProviderFails
  <2>2. CASE T!Delta
    BY <2>2, SMTT(30) DEF TurnTypes, T!Delta
  <2>3. CASE T!Spoken
    BY <2>3, SMTT(30) DEF TurnTypes, T!Spoken
  <2>4. CASE T!NextRound
    BY <2>4, SMTT(30) DEF TurnTypes, T!NextRound
  <2> QED
    BY <1>4, <2>1, <2>2, <2>3, <2>4
<1>5. ASSUME turnQueue # <<>> PROVE
        /\ Head(turnQueue) \in T!Call /\ Head(turnQueue).id \in Nat /\ Tail(turnQueue) \in Seq(T!Call)
        /\ T!ToolMessage(Head(turnQueue)) \in PromptMessage
  <2>1. Head(turnQueue) \in T!Call /\ Tail(turnQueue) \in Seq(T!Call)
    BY <1>5, TailOf DEF TurnTypes
  <2> QED BY <2>1, CallType
<1>6. ASSUME NEW result \in {"denied", "failed"}, T!CallRefused(result)
      PROVE  TurnTypes'
  <2>1. [call |-> Head(turnQueue).id, status |-> result] \in T!Record
    BY <1>5, <1>6 DEF T!CallRefused, T!Record, T!RecordStatus
  <2> QED BY <1>5, <1>6, <2>1 DEF TurnTypes, T!CallRefused, T!Recorded, T!Answered
<1>7. CASE T!CallStarts
  <2>1. [call |-> Head(turnQueue).id, status |-> "running"] \in T!Record
    BY <1>5, <1>7 DEF TurnTypes, T!CallStarts, T!Record, T!RecordStatus
  <2> QED BY <1>5, <1>7, <2>1 DEF TurnTypes, T!CallStarts
<1>8. ASSUME NEW result \in {"succeeded", "failed"}, T!ToolEnds(result)
      PROVE  TurnTypes'
  <2>1. [turnRows EXCEPT ![Len(turnRows)].status = result] \in Seq(T!Record)
    <3>1. turnRows \in Seq(T!Record) /\ Len(turnRows) \in Nat
      BY DEF TurnTypes
    <3> QED BY <3>1, RecordUpdated DEF T!RecordStatus
  <2> QED BY <1>5, <1>8, <2>1 DEF TurnTypes, T!ToolEnds, T!Answered
<1>9. CASE T!ToolBreaksSession
  BY <1>9 DEF TurnTypes, T!ToolBreaksSession
<1>10. ASSUME NEW how \in T!Ended, T!Leave(how), turnSaved' \in Seq(T!Record),
              turnMessage' \in [status : {"pending", "complete", "failed", "cancelled"}, chunks : Nat,
                                grounded : BOOLEAN, ids : Seq(Nat)]
       PROVE  TurnTypes'
  <2>1. /\ turnPc' = how /\ UNCHANGED <<turnMode, turnLeft, turnShown>>
        /\ turnSelected' = {} /\ turnQueue' = <<>> /\ turnWorking' = <<>> /\ turnRows' = <<>>
        /\ turnIds' = <<>> /\ turnIterations' = 0 /\ turnAsked' = 0 /\ turnBroken' = FALSE
    BY <1>10 DEF T!Leave
  <2>2. <<>> \in Seq(T!Call) /\ <<>> \in Seq(T!Record) /\ <<>> \in Seq(Nat) /\ <<>> \in Seq(PromptMessage)
    OBVIOUS
  <2>3. /\ how \notin {"idle", "tool", "calls"} /\ turnMode' \in {"stream", "send"}
        /\ turnLeft' \in Nat /\ turnShown' \in Nat /\ turnIterations' \in 0..MaxIterations
    BY <1>0, <2>1 DEF TurnTypes
  <2> QED BY <1>10, <2>1, <2>2, <2>3 DEF TurnTypes
<1>11. ASSUME NEW result \in {"complete", "failed", "cancelled"}, NEW meta \in Seq(Nat), T!Store(result, meta)
       PROVE  /\ turnSaved' \in Seq(T!Record)
              /\ turnMessage' \in [status : {"pending", "complete", "failed", "cancelled"}, chunks : Nat,
                                   grounded : BOOLEAN, ids : Seq(Nat)]
  <2>1. turnShown \in Nat /\ turnRows \in Seq(T!Record)
    BY DEF TurnTypes
  <2>2. PICK grounded \in {FALSE, result = "complete"}, n \in T!Normalized(turnShown) :
          turnMessage' = [status |-> result, chunks |-> n, grounded |-> grounded, ids |-> meta]
    BY <1>11 DEF T!Store
  <2>3. grounded \in BOOLEAN
    BY Zenon
  <2>4. n \in Nat
    BY <2>1 DEF T!Normalized
  <2> QED BY <1>11, <2>1, <2>2, <2>3, <2>4 DEF T!Store
<1>18. turnIds \in Seq(Nat) /\ <<>> \in Seq(Nat)
  BY DEF TurnTypes
<1>12. CASE T!AnswerStored
  <2>1. T!Outcome \in {"complete", "failed"}
    BY DEF T!Outcome
  <2> HIDE DEF T!Outcome
  <2>2. T!Leave("answered") \/ T!Leave("failed")
    BY <1>12, <2>1 DEF T!AnswerStored
  <2>3. T!Store(T!Outcome, turnIds) \/ T!Store(T!Outcome, <<>>)
    BY <1>12 DEF T!AnswerStored
  <2>4. /\ turnSaved' \in Seq(T!Record)
        /\ turnMessage' \in [status : {"pending", "complete", "failed", "cancelled"}, chunks : Nat,
                             grounded : BOOLEAN, ids : Seq(Nat)]
    BY <1>11, <1>18, <2>1, <2>3
  <2> QED BY <1>10, <2>2, <2>4
<1>13. CASE T!FailureStored
  <2>1. \/ T!Leave("failed") /\ T!Store("failed", <<>>)
        \/ T!Leave("answered") /\ T!Store("complete", turnIds)
    BY <1>13 DEF T!FailureStored
  <2> QED BY <1>10, <1>11, <1>18, <2>1
<1>14. CASE T!Disconnect
  BY <1>10, <1>11, <1>14, <1>18 DEF T!Disconnect
<1>15. CASE T!Lost
  BY <1>10, <1>15 DEF T!Lost, TurnTypes
<1>16. CASE T!Loop
  BY <1>1, <1>2, <1>3, <1>4, <1>16 DEF T!Loop
<1>17. CASE T!Execute
  BY <1>6, <1>7, <1>8, <1>9, <1>17 DEF T!Execute
<1> QED BY <1>12, <1>13, <1>14, <1>15, <1>16, <1>17 DEF T!Close

-----------------------------------------------------------------------------
(* ToolTurn: the prompt                                                       *)

(* The answer to a call follows its message, or is still in the queue at the  *)
(* distance at which it will stand.                                           *)
Follows(w, q) ==
  \A i \in DOMAIN w : w[i].role = "assistant" =>
    \A k \in DOMAIN w[i].calls :
      \/ i + k \in DOMAIN w /\ w[i + k] = [role |-> "tool", call |-> w[i].calls[k]]
      \/ i + k - Len(w) \in DOMAIN q /\ q[i + k - Len(w)].id = w[i].calls[k]

AnswersFollow == Follows(turnWorking, turnQueue)

(* The head of the queue is answered behind all the messages.                 *)
LEMMA AnswerGoesBehind ==
  ASSUME NEW w \in Seq(PromptMessage), NEW q \in Seq(T!Call), q # <<>>, Follows(w, q)
  PROVE  Follows(Append(w, T!ToolMessage(Head(q))), Tail(q))
<1> DEFINE new == Append(w, T!ToolMessage(Head(q)))
<1>1. Head(q) \in T!Call /\ Head(q) = q[1] /\ Tail(q) \in Seq(T!Call) /\ Len(Tail(q)) = Len(q) - 1
      /\ \A i \in DOMAIN Tail(q) : Tail(q)[i] = q[i + 1]
  BY TailOf
<1>2. T!ToolMessage(Head(q)) \in PromptMessage
  BY <1>1, CallType
<1>3. /\ new \in Seq(PromptMessage) /\ Len(new) = Len(w) + 1
      /\ \A i \in DOMAIN w : new[i] = w[i]
      /\ new[Len(w) + 1] = T!ToolMessage(Head(q))
  BY <1>2, Appended
<1> HIDE DEF new
<1> SUFFICES ASSUME NEW i \in DOMAIN new, new[i].role = "assistant", NEW k \in DOMAIN new[i].calls
             PROVE  \/ i + k \in DOMAIN new /\ new[i + k] = [role |-> "tool", call |-> new[i].calls[k]]
                    \/ i + k - Len(new) \in DOMAIN Tail(q) /\ Tail(q)[i + k - Len(new)].id = new[i].calls[k]
  BY DEF Follows, new
<1>4. i \in DOMAIN w /\ new[i] = w[i]
  BY <1>3 DEF T!ToolMessage
<1>5. i \in Int /\ k \in Int /\ Len(w) \in Int /\ Len(q) \in Int
  BY <1>4, WorkingType
<1>6. CASE i + k \in DOMAIN w /\ w[i + k] = [role |-> "tool", call |-> w[i].calls[k]]
  BY <1>3, <1>4, <1>6
<1>7. CASE i + k - Len(w) \in DOMAIN q /\ q[i + k - Len(w)].id = w[i].calls[k]
  <2>1. CASE i + k - Len(w) = 1
    <3>1. i + k = Len(w) + 1
      BY <1>5, <2>1
    <3>2. Head(q).id = w[i].calls[k]
      BY <1>1, <1>7, <2>1
    <3> QED BY <1>3, <1>4, <1>5, <3>1, <3>2 DEF T!ToolMessage
  <2>2. CASE i + k - Len(w) # 1
    <3>1. i + k - Len(w) \in 1..Len(q)
      BY <1>7
    <3>2. i + k - Len(new) \in 1..(Len(q) - 1) /\ i + k - Len(new) + 1 = i + k - Len(w)
      <4>1. Len(new) = Len(w) + 1
        BY <1>3
      <4> QED BY <1>5, <2>2, <3>1, <4>1
    <3>3. i + k - Len(new) \in DOMAIN Tail(q)
      BY <1>1, <3>2
    <3> QED BY <1>1, <1>4, <1>7, <3>2, <3>3
  <2> QED BY <2>1, <2>2
<1> QED BY <1>4, <1>6, <1>7 DEF Follows

LEMMA Joined ==
  ASSUME NEW S, NEW s \in Seq(S), NEW t \in Seq(S)
  PROVE  /\ s \o t \in Seq(S) /\ DOMAIN (s \o t) = 1..(Len(s) + Len(t)) /\ DOMAIN s = 1..Len(s)
         /\ \A i \in DOMAIN s : i \in DOMAIN (s \o t) /\ (s \o t)[i] = s[i]
         /\ \A i \in DOMAIN (s \o t) : i \notin DOMAIN s => \E j \in DOMAIN t : (s \o t)[i] = t[j]
<1>1. \A i \in DOMAIN (s \o t) : i \notin DOMAIN s => i - Len(s) \in DOMAIN t /\ (s \o t)[i] = t[i - Len(s)]
  OBVIOUS
<1> QED BY <1>1

(* The message with the calls comes last, and the refused ones are answered   *)
(* before it.                                                                 *)
LEMMA CallsComeLast ==
  ASSUME NEW w \in Seq(PromptMessage), NEW calls \in Seq(T!Call),
         NEW authorized \in Seq(T!Call), NEW refused \in Seq(T!Call), Follows(w, <<>>)
  PROVE  Follows(w \o T!PromptAfter(calls, authorized, refused), authorized)
<1> DEFINE answers == T!ToolMessages(refused)
           base == w \o answers
           last == T!AssistantMessage(authorized)
<1>1. answers \in Seq(PromptMessage) /\ last \in PromptMessage
  BY PromptType
<1>2. \A i \in DOMAIN answers : answers[i].role = "tool"
  BY DEF T!ToolMessages, T!ToolMessage
<1>3. last.role = "assistant" /\ DOMAIN last.calls = DOMAIN authorized
      /\ \A k \in DOMAIN authorized : last.calls[k] = authorized[k].id
  BY DEF T!AssistantMessage
<1>4. w \o T!PromptAfter(calls, authorized, refused)
      = IF authorized = <<>> THEN base ELSE Append(base, last)
  <2>1. CASE authorized = <<>>
    <3>1. T!PromptAfter(calls, authorized, refused) = answers \o <<>>
      BY <2>1 DEF T!PromptAfter
    <3> HIDE DEF answers
    <3> QED BY <1>1, <2>1, <3>1
  <2>2. CASE authorized # <<>>
    <3>1. T!PromptAfter(calls, authorized, refused) = answers \o <<last>>
      BY <2>2 DEF T!PromptAfter
    <3> HIDE DEF answers, last
    <3> QED BY <1>1, <2>2, <3>1
  <2> QED BY <2>1, <2>2
<1> HIDE DEF answers, last
<1>5. /\ base \in Seq(PromptMessage)
      /\ \A i \in DOMAIN w : i \in DOMAIN base /\ base[i] = w[i]
      /\ \A i \in DOMAIN base : i \notin DOMAIN w => \E j \in DOMAIN answers : base[i] = answers[j]
  BY <1>1, Joined
<1> HIDE DEF base
<1>6. Follows(base, <<>>)
  <2> SUFFICES ASSUME NEW i \in DOMAIN base, base[i].role = "assistant", NEW k \in DOMAIN base[i].calls
               PROVE  i + k \in DOMAIN base /\ base[i + k] = [role |-> "tool", call |-> base[i].calls[k]]
    BY DEF Follows
  <2>1. i \in DOMAIN w /\ base[i] = w[i]
    BY <1>2, <1>5
  <2>2. i + k \in DOMAIN w /\ w[i + k] = [role |-> "tool", call |-> w[i].calls[k]]
    BY <2>1 DEF Follows
  <2> QED BY <1>5, <2>1, <2>2
<1>7. CASE authorized = <<>>
  BY <1>4, <1>6, <1>7
<1>8. CASE authorized # <<>>
  <2> DEFINE new == Append(base, last)
  <2>1. /\ new \in Seq(PromptMessage) /\ Len(new) = Len(base) + 1
        /\ \A i \in DOMAIN base : new[i] = base[i]
        /\ new[Len(base) + 1] = last
    BY <1>1, <1>5, Appended
  <2> HIDE DEF new
  <2>2. ASSUME NEW i \in DOMAIN new, new[i].role = "assistant", NEW k \in DOMAIN new[i].calls
        PROVE  \/ i + k \in DOMAIN new /\ new[i + k] = [role |-> "tool", call |-> new[i].calls[k]]
               \/ i + k - Len(new) \in DOMAIN authorized /\ authorized[i + k - Len(new)].id = new[i].calls[k]
    <3>1. CASE i = Len(new)
      BY <1>3, <2>1, <2>2, <3>1
    <3>2. CASE i # Len(new)
      <4>1. i \in DOMAIN base /\ new[i] = base[i]
        BY <1>5, <2>1, <3>2
      <4>2. i + k \in DOMAIN base /\ base[i + k] = [role |-> "tool", call |-> base[i].calls[k]]
        BY <1>6, <2>2, <4>1 DEF Follows
      <4> QED BY <1>5, <2>1, <4>1, <4>2
    <3> QED BY <3>1, <3>2
  <2>3. Follows(new, authorized)
    BY <2>2 DEF Follows
  <2> QED BY <1>4, <1>8, <2>3 DEF new
<1> QED BY <1>7, <1>8

LEMMA PromptStep ==
  ASSUME T!ToolConstants, TurnTypes, AnswersFollow, T!Loop \/ T!Execute \/ T!Close
  PROVE  AnswersFollow'
<1> USE DEF AnswersFollow
<1>1. ASSUME UNCHANGED <<turnWorking, turnQueue>> PROVE AnswersFollow'
  BY <1>1
<1>2. turnWorking \in Seq(PromptMessage) /\ turnQueue \in Seq(T!Call)
  BY DEF TurnTypes
<1>3. ASSUME NEW allowed \in T!Calls(turnSelected), NEW others \in T!Calls((Tools \cup {Ghost}) \ turnSelected),
             T!GenerateCalls(allowed, others)
      PROVE  AnswersFollow'
  <2> DEFINE authorized == T!Requested(allowed, turnAsked)
             refused == T!Requested(others, turnAsked + Len(allowed))
  <2>1. authorized \in Seq(T!Call) /\ refused \in Seq(T!Call) /\ authorized \o refused \in Seq(T!Call)
    BY GeneratedCalls
  <2>2. /\ turnQueue = <<>> /\ turnQueue' = authorized
        /\ turnWorking' = turnWorking \o T!PromptAfter(authorized \o refused, authorized, refused)
    BY <1>3 DEF T!GenerateCalls, TurnTypes
  <2> HIDE DEF authorized, refused
  <2> QED BY <1>2, <2>1, <2>2, CallsComeLast
<1>4. ASSUME turnQueue # <<>>, T!Answered(Head(turnQueue)) PROVE AnswersFollow'
  BY <1>2, <1>4, AnswerGoesBehind DEF T!Answered
<1>5. ASSUME turnWorking' = <<>> PROVE AnswersFollow'
  BY <1>5 DEF Follows
<1>6. CASE T!Loop
  <2>1. CASE T!Start \/ T!LimitReached \/ T!ProviderFails \/ T!Delta \/ T!Spoken \/ T!NextRound
    BY <1>1, <2>1 DEF T!Start, T!LimitReached, T!ProviderFails, T!Delta, T!Spoken, T!NextRound
  <2>2. ASSUME NEW n \in 0..MaxChunks, T!GenerateText(n) PROVE AnswersFollow'
    BY <1>1, <2>2 DEF T!GenerateText
  <2> QED BY <1>3, <1>6, <2>1, <2>2 DEF T!Loop
<1>7. CASE T!Execute
  <2>1. ASSUME NEW result, T!CallRefused(result) PROVE AnswersFollow'
    BY <1>4, <2>1 DEF T!CallRefused
  <2>2. ASSUME NEW result, T!ToolEnds(result) PROVE AnswersFollow'
    BY <1>4, <2>2 DEF T!ToolEnds, TurnTypes
  <2>3. CASE T!CallStarts \/ T!ToolBreaksSession
    BY <1>1, <2>3 DEF T!CallStarts, T!ToolBreaksSession
  <2> QED BY <1>7, <2>1, <2>2, <2>3 DEF T!Execute
<1>8. CASE T!Close
  <2>1. turnWorking' = <<>>
    BY <1>8 DEF T!Close, T!AnswerStored, T!FailureStored, T!Disconnect, T!Lost, T!Leave
  <2> QED BY <1>5, <2>1
<1> QED BY <1>6, <1>7, <1>8

LEMMA PromptIsComplete == TurnTypes /\ AdminTypes /\ AnswersFollow => T!CallsAnsweredInOrder
<1> SUFFICES ASSUME TurnTypes, AnswersFollow, turnPc \in {"generate", "synthesis"},
                    NEW i \in DOMAIN turnWorking, turnWorking[i].role = "assistant",
                    NEW k \in DOMAIN turnWorking[i].calls
             PROVE  /\ i + k \in DOMAIN turnWorking
                    /\ turnWorking[i + k] = [role |-> "tool", call |-> turnWorking[i].calls[k]]
  BY TypesGiveTypeOK DEF T!CallsAnsweredInOrder
<1>1. turnQueue = <<>>
  BY DEF TurnTypes
<1> QED BY <1>1 DEF AnswersFollow, Follows

-----------------------------------------------------------------------------
(* ToolTurn: what is stored                                                   *)

(* The ids of the turn name its records, in order; the record of the tool at  *)
(* work comes last and has no id yet, and stays so when the tool breaks the   *)
(* session.                                                                   *)
IdsNameRecords ==
  /\ turnBroken => turnPc = "failing"
  /\ turnPc = "tool" \/ turnBroken => Len(turnRows) = Len(turnIds) + 1
  /\ turnPc # "tool" /\ ~turnBroken => Len(turnRows) = Len(turnIds)
  /\ \A i \in 1..Len(turnIds) : turnIds[i] = turnRows[i].call /\ turnRows[i].status # "running"
  /\ turnPc = "tool" => turnRows[Len(turnRows)].call = Head(turnQueue).id

StoredFits ==
  /\ turnPc \notin {"answered", "failed", "cancelled"} => turnMessage.status = "pending" /\ turnSaved = <<>>
  /\ turnPc = "spoken" => turnLeft = 0
  /\ T!StoredIsShown

RecordsInv == IdsNameRecords /\ StoredFits

(* What is stored while no record is running, or with a tool that is.         *)
LEMMA StoreFits ==
  ASSUME TurnTypes, RecordsInv, turnPc \in T!Busy, NEW how \in {"answered", "failed", "cancelled"}, T!Leave(how),
         NEW result \in {"complete", "failed", "cancelled"}, NEW meta, T!Store(result, meta),
         result = "complete" =>
           /\ turnPc # "tool" /\ ~turnBroken /\ meta = turnIds
           /\ turnMode = "stream" => turnShown > 0 /\ turnLeft = 0,
         turnPc = "tool" \/ turnBroken => result = "cancelled"
  PROVE  RecordsInv'
<1> USE DEF TurnTypes, RecordsInv
<1>1. /\ turnPc' = how /\ UNCHANGED <<turnMode, turnLeft, turnShown>>
      /\ turnRows' = <<>> /\ turnIds' = <<>> /\ turnBroken' = FALSE
      /\ turnMessage'.status = result /\ turnMessage'.ids = meta /\ turnSaved' = turnRows
      /\ turnMessage'.grounded => result = "complete"
      /\ turnMessage'.chunks \in IF turnMessage'.grounded THEN T!Normalized(turnShown) ELSE {turnShown}
  <2>1. PICK grounded \in {FALSE, result = "complete"}, n \in T!Normalized(turnShown) :
          /\ ~grounded => n = turnShown
          /\ turnMessage' = [status |-> result, chunks |-> n, grounded |-> grounded, ids |-> meta]
    BY DEF T!Store
  <2> QED BY <2>1 DEF T!Leave, T!Store
<1>2. IdsNameRecords'
  BY <1>1 DEF IdsNameRecords
<1>3. ASSUME result = "complete" PROVE meta = [i \in DOMAIN turnRows |-> turnRows[i].call]
  <2>1. Len(turnIds) = Len(turnRows) /\ \A i \in 1..Len(turnIds) : turnIds[i] = turnRows[i].call
    BY <1>3 DEF IdsNameRecords
  <2>2. turnIds \in Seq(Nat) /\ turnRows \in Seq(T!Record)
    OBVIOUS
  <2>3. turnIds = [i \in 1..Len(turnIds) |-> turnIds[i]] /\ DOMAIN turnRows = 1..Len(turnRows)
    BY <2>2
  <2> HIDE DEF TurnTypes
  <2> QED BY <1>3, <2>1, <2>3
<1>4. ASSUME NEW i \in DOMAIN turnRows, turnRows[i].status = "running"
      PROVE  result = "cancelled" /\ i = Len(turnRows)
  <2>1. i \in Int /\ Len(turnIds) \in Int /\ i \in 1..Len(turnRows)
    OBVIOUS
  <2>2. i \notin 1..Len(turnIds)
    BY <1>4 DEF IdsNameRecords
  <2>3. turnPc = "tool" \/ turnBroken
    BY <2>1, <2>2 DEF IdsNameRecords
  <2> QED BY <2>1, <2>2, <2>3 DEF IdsNameRecords
<1>5. T!StoredIsShown'
  <2>1. turnMode' = "stream" =>
          /\ turnMessage'.chunks \in IF turnMessage'.grounded THEN T!Normalized(turnShown') ELSE {turnShown'}
          /\ turnMessage'.status = "complete" => turnShown' > 0 /\ turnLeft' = 0
    BY <1>1
  <2> QED BY <1>1, <1>3, <1>4, <2>1 DEF T!StoredIsShown
<1> QED BY <1>1, <1>2, <1>5 DEF StoredFits

LEMMA RecordsStep ==
  ASSUME T!ToolConstants, TurnTypes, RecordsInv, T!Loop \/ T!Execute \/ T!Close
  PROVE  RecordsInv'
<1> USE DEF T!Busy, T!Ended
<1>1. ASSUME UNCHANGED <<turnRows, turnIds, turnMode, turnMessage, turnSaved>>,
             turnPc \in T!Busy \cup {"idle"}, turnPc' \in T!Busy, turnBroken' = turnBroken,
             turnPc # "tool" /\ ~turnBroken /\ turnPc' # "tool", turnPc' = "spoken" => turnLeft' = 0
      PROVE  RecordsInv'
  BY <1>1 DEF RecordsInv, IdsNameRecords, StoredFits, T!StoredIsShown
<1>2. CASE T!Start
  <2>1. turnMessage.status = "pending" /\ turnSaved = <<>> /\ turnRows = turnRows
    BY <1>2 DEF T!Start, RecordsInv, StoredFits
  <2> QED BY <1>2, <2>1 DEF T!Start, RecordsInv, IdsNameRecords, StoredFits, T!StoredIsShown
<1>3. CASE T!Loop /\ ~T!Start
  <2>1. ASSUME NEW allowed, NEW others, T!GenerateCalls(allowed, others) PROVE RecordsInv'
    BY <1>1, <2>1 DEF T!GenerateCalls, RecordsInv, IdsNameRecords
  <2>2. ASSUME NEW n \in 0..MaxChunks, T!GenerateText(n) PROVE RecordsInv'
    BY <1>1, <2>2 DEF T!GenerateText, RecordsInv, IdsNameRecords
  <2>3. CASE T!LimitReached \/ T!ProviderFails \/ T!Delta \/ T!Spoken \/ T!NextRound
    BY <1>1, <2>3 DEF T!LimitReached, T!ProviderFails, T!Delta, T!Spoken, T!NextRound, RecordsInv, IdsNameRecords
  <2> QED BY <1>3, <2>1, <2>2, <2>3 DEF T!Loop
<1>4. ASSUME turnPc \in T!Busy, turnPc' \in T!Busy \ {"spoken"}, turnMessage' = turnMessage, turnSaved' = turnSaved
      PROVE  RecordsInv => StoredFits'
  BY <1>4 DEF RecordsInv, StoredFits, T!StoredIsShown
<1>5. turnRows \in Seq(T!Record) /\ turnIds \in Seq(Nat) /\ Len(turnRows) \in Int /\ Len(turnIds) \in Int
  BY DEF TurnTypes
<1>6. turnQueue # <<>> => Head(turnQueue) \in T!Call /\ Head(turnQueue).id \in Nat
  BY TailOf, CallType DEF TurnTypes
<1>7. ASSUME NEW result \in {"denied", "failed"}, T!CallRefused(result) PROVE RecordsInv'
  <2> DEFINE record == [call |-> Head(turnQueue).id, status |-> result]
  <2>1. record \in T!Record /\ turnQueue # <<>> /\ turnPc = "calls" /\ turnPc' = "calls" /\ ~turnBroken /\ ~turnBroken'
    BY <1>6, <1>7 DEF T!CallRefused, T!Record, T!RecordStatus, RecordsInv, IdsNameRecords
  <2>2. turnRows' = Append(turnRows, record) /\ turnIds' = Append(turnIds, record.call)
    BY <1>7 DEF T!CallRefused, T!Recorded
  <2>3. record.call \in Nat /\ record.status # "running"
    BY <1>6, <2>1
  <2> HIDE DEF record
  <2>4. Len(turnRows) = Len(turnIds)
    BY <2>1 DEF RecordsInv, IdsNameRecords
  <2>5. IdsNameRecords'
    BY <1>5, <2>1, <2>2, <2>3, <2>4 DEF RecordsInv, IdsNameRecords
  <2> QED BY <1>4, <1>7, <2>1, <2>5 DEF RecordsInv, T!CallRefused
<1>8. CASE T!CallStarts
  <2> DEFINE record == [call |-> Head(turnQueue).id, status |-> "running"]
  <2>1. record \in T!Record /\ turnQueue # <<>> /\ turnPc = "calls" /\ turnPc' = "tool" /\ ~turnBroken /\ ~turnBroken'
        /\ record.call = Head(turnQueue').id
    BY <1>6, <1>8 DEF T!CallStarts, T!Record, T!RecordStatus, RecordsInv, IdsNameRecords
  <2>2. turnRows' = Append(turnRows, record) /\ turnIds' = turnIds
    BY <1>8 DEF T!CallStarts
  <2> HIDE DEF record
  <2>3. Len(turnRows) = Len(turnIds)
    BY <2>1 DEF RecordsInv, IdsNameRecords
  <2>4. IdsNameRecords'
    BY <1>5, <2>1, <2>2, <2>3 DEF RecordsInv, IdsNameRecords
  <2> QED BY <1>4, <1>8, <2>1, <2>4 DEF RecordsInv, T!CallStarts
<1>9. ASSUME NEW result \in {"succeeded", "failed"}, T!ToolEnds(result) PROVE RecordsInv'
  <2>1. turnQueue # <<>> /\ turnPc = "tool" /\ turnPc' = "calls" /\ ~turnBroken /\ ~turnBroken'
    BY <1>9 DEF T!ToolEnds, TurnTypes, RecordsInv, IdsNameRecords
  <2> DEFINE new == [turnRows EXCEPT ![Len(turnRows)].status = result]
             last == Len(turnRows)
  <2>2. /\ Len(new) = Len(turnRows)
        /\ \A j \in DOMAIN turnRows : /\ new[j].call = turnRows[j].call
                                      /\ j # last => new[j] = turnRows[j]
                                      /\ j = last => new[j].status = result
    BY <1>5, RecordUpdated DEF T!RecordStatus
  <2>3. turnRows' = new /\ turnIds' = Append(turnIds, Head(turnQueue).id)
    BY <1>9 DEF T!ToolEnds
  <2> HIDE DEF new
  <2>4. last = Len(turnIds) + 1 /\ turnRows[last].call = Head(turnQueue).id
    BY <2>1 DEF RecordsInv, IdsNameRecords
  <2>5. ASSUME NEW i \in 1..Len(turnIds')
        PROVE  turnIds'[i] = turnRows'[i].call /\ turnRows'[i].status # "running"
    <3>1. Head(turnQueue).id \in Nat /\ Len(turnIds') = last /\ i \in 1..last /\ i \in DOMAIN turnRows
      BY <1>5, <1>6, <2>1, <2>3, <2>4
    <3>2. CASE i = last
      <4>1. turnIds'[i] = Head(turnQueue).id
        BY <1>5, <2>3, <2>4, <3>1, <3>2
      <4> QED BY <2>2, <2>3, <2>4, <3>1, <3>2, <4>1
    <3>3. CASE i # last
      <4>1. i \in 1..Len(turnIds) /\ turnIds'[i] = turnIds[i]
        BY <1>5, <2>3, <2>4, <3>1, <3>3
      <4> QED BY <2>2, <2>3, <3>1, <3>3, <4>1 DEF RecordsInv, IdsNameRecords
    <3> QED BY <3>2, <3>3
  <2>6. Len(turnRows') = Len(turnIds')
    BY <1>5, <1>6, <2>1, <2>2, <2>3, <2>4
  <2>7. IdsNameRecords'
    BY <2>1, <2>5, <2>6 DEF IdsNameRecords
  <2> QED BY <1>4, <1>9, <2>1, <2>7 DEF RecordsInv, T!ToolEnds
<1>10. CASE T!ToolBreaksSession
  BY <1>4, <1>10 DEF T!ToolBreaksSession, RecordsInv, IdsNameRecords
<1>11. CASE T!AnswerStored
  <2>1. turnPc = "spoken" /\ turnLeft = 0 /\ ~turnBroken
    BY <1>11 DEF T!AnswerStored, RecordsInv, StoredFits, IdsNameRecords
  <2>2. CASE T!Outcome = "complete"
    <3>1. T!Leave("answered") /\ T!Store("complete", turnIds)
      BY <1>11, <2>2 DEF T!AnswerStored
    <3>2. turnMode = "stream" => turnShown > 0
      BY <2>2 DEF T!Outcome, TurnTypes
    <3> QED BY <2>1, <3>1, <3>2, StoreFits
  <2>3. CASE T!Outcome # "complete"
    <3>1. T!Leave("failed") /\ T!Store("failed", <<>>)
      BY <1>11, <2>3 DEF T!AnswerStored, T!Outcome
    <3> QED BY <2>1, <3>1, StoreFits
  <2> QED BY <2>2, <2>3
<1>12. CASE T!FailureStored
  <2>1. turnPc = "failing" /\ ~turnBroken
    BY <1>12 DEF T!FailureStored
  <2>2. CASE turnMode = "stream"
    <3>1. T!Leave("failed") /\ T!Store("failed", <<>>)
      BY <1>12, <2>2 DEF T!FailureStored
    <3> QED BY <2>1, <3>1, StoreFits
  <2>3. CASE turnMode # "stream"
    <3>1. T!Leave("answered") /\ T!Store("complete", turnIds)
      BY <1>12, <2>3 DEF T!FailureStored
    <3> QED BY <2>1, <2>3, <3>1, StoreFits
  <2> QED BY <2>2, <2>3
<1>13. CASE T!Disconnect
  <2>1. turnPc \in T!Busy /\ T!Leave("cancelled") /\ T!Store("cancelled", <<>>)
    BY <1>13 DEF T!Disconnect
  <2> QED BY <2>1, StoreFits
<1>14. CASE T!Lost
  <2>1. /\ turnPc \in T!Busy /\ turnPc' = "lost" /\ UNCHANGED <<turnMessage, turnSaved>>
        /\ turnRows' = <<>> /\ turnIds' = <<>> /\ turnBroken' = FALSE
    BY <1>14 DEF T!Lost, T!Leave
  <2>2. turnMessage.status = "pending" /\ turnSaved = <<>>
    BY <2>1 DEF RecordsInv, StoredFits
  <2> QED BY <2>1, <2>2 DEF RecordsInv, IdsNameRecords, StoredFits, T!StoredIsShown
<1>15. CASE T!Execute
  BY <1>7, <1>8, <1>9, <1>10, <1>15 DEF T!Execute
<1> QED BY <1>2, <1>3, <1>11, <1>12, <1>13, <1>14, <1>15 DEF T!Close

-----------------------------------------------------------------------------
(* ToolTurn: the configuration of the tools                                   *)

LEMMA PatchedType ==
  ASSUME T!ToolConstants, NEW saw \in T!Config \cup {None}, NEW change \in Patches
  PROVE  T!Patched(saw, change[1], change[2]) \in T!Config
<1>1. change[1] \in {TRUE, FALSE, None} /\ change[2] \in {TRUE, FALSE, None}
  BY DEF T!ToolConstants
<1>2. (IF change[1] # None THEN change[1] ELSE saw = None \/ saw.enabled) \in BOOLEAN
  BY <1>1 DEF T!Config
<1>3. (IF change[2] # None \/ saw = None THEN change[2] ELSE saw.confirm) \in {TRUE, FALSE, None}
  BY <1>1 DEF T!Config
<1> QED BY <1>2, <1>3 DEF T!Patched, T!Config

LEMMA WrittenType ==
  ASSUME NEW row \in T!Config \cup {None}, NEW saw \in T!Config \cup {None}, NEW new \in T!Config \cup {None},
         new # None /\ saw # None => row # None
  PROVE  /\ T!Written(row, saw, new) \in T!Config \cup {None}
         /\ row = saw => T!Written(row, saw, new) = new
BY DEF T!Written, T!Column, T!Config

LEMMA AdminTypesStep ==
  ASSUME T!ToolConstants, AdminTypes, T!Administration
  PROVE  AdminTypes'
<1> USE DEF AdminTypes, T!SetAdmin
<1>1. ASSUME NEW a \in Admins, NEW t \in Tools, T!UpdateLoads(a, t) PROVE AdminTypes'
  <2>1. PICK change \in Patches :
           turnAdmin' = [turnAdmin EXCEPT ![a] = [pc |-> "commit", tool |-> t, saw |-> turnConfig[t],
                                                  new |-> T!Patched(turnConfig[t], change[1], change[2])]]
    BY <1>1 DEF T!UpdateLoads
  <2>2. T!Patched(turnConfig[t], change[1], change[2]) \in T!Config
    BY PatchedType
  <2> QED BY <1>1, <2>1, <2>2 DEF T!UpdateLoads, AdminRequest
<1>2. ASSUME NEW a \in Admins, NEW t \in Tools, T!ResetLoads(a, t) PROVE AdminTypes'
  BY <1>2 DEF T!ResetLoads, AdminRequest
<1>3. ASSUME NEW a \in Admins, T!UpdateCommits(a) PROVE AdminTypes'
  <2> DEFINE r == turnAdmin[a]
  <2>1. /\ r \in AdminRequest /\ r.pc = "commit" /\ r.tool \in Tools /\ T!AdminIdle \in AdminRequest
        /\ [r EXCEPT !.pc = "refresh"] \in AdminRequest /\ [r EXCEPT !.pc = "refresh"].tool = r.tool
    BY <1>3 DEF T!UpdateCommits, T!AdminIdle, AdminRequest
  <2>2. r.saw \in T!Config \cup {None} /\ r.new \in T!Config \cup {None}
    BY <2>1 DEF AdminRequest
  <2>3. CASE r.new # None /\ (r.saw = None) # (turnConfig[r.tool] = None)
    BY <1>3, <2>1, <2>3 DEF T!UpdateCommits, T!AdminIdle
  <2>4. CASE ~(r.new # None /\ (r.saw = None) # (turnConfig[r.tool] = None))
    <3>1. T!Written(turnConfig[r.tool], r.saw, r.new) \in T!Config \cup {None}
      BY <2>1, <2>2, <2>4, WrittenType
    <3> QED BY <1>3, <2>1, <2>4, <3>1 DEF T!UpdateCommits
  <2> QED BY <2>3, <2>4
<1>4. ASSUME NEW a \in Admins, T!UpdateRefreshes(a) PROVE AdminTypes'
  <2> DEFINE r == turnAdmin[a]
  <2>1. /\ r \in AdminRequest /\ r.tool \in Tools /\ T!AdminIdle \in AdminRequest
        /\ [r EXCEPT !.pc = "list"] \in AdminRequest /\ [r EXCEPT !.pc = "list"].tool = r.tool
        /\ r.new \in T!Config \cup {None}
    BY <1>4 DEF T!UpdateRefreshes, T!AdminIdle, AdminRequest
  <2> QED BY <1>4, <2>1 DEF T!UpdateRefreshes, T!AdminIdle
<1>5. CASE T!ListTools
  BY <1>5 DEF T!ListTools
<1> QED BY <1>1, <1>2, <1>3, <1>4, <1>5 DEF T!Administration

(* One request at a time: what it has loaded is current until it commits, what it wrote is in  *)
(* the database until its process has read it.                                                 *)
SerialUpdates ==
  ~turnOverlapped =>
    /\ \A a, b \in Admins : turnAdmin[a].pc # "idle" /\ turnAdmin[b].pc # "idle" => a = b
    /\ \A a \in Admins :
         /\ turnAdmin[a].pc = "commit" => turnRegistry = turnConfig /\ turnAdmin[a].saw = turnConfig[turnAdmin[a].tool]
         /\ turnAdmin[a].pc \in {"refresh", "list"} => turnAdmin[a].new = turnConfig[turnAdmin[a].tool]
         /\ turnAdmin[a].pc = "list" => turnRegistry = turnConfig
    /\ T!RegistryFollowsConfig

LEMMA AdminStep ==
  ASSUME T!ToolConstants, AdminTypes, SerialUpdates, T!Administration
  PROVE  SerialUpdates'
<1> USE DEF AdminTypes, T!SetAdmin, SerialUpdates, T!RegistryFollowsConfig
<1>1. ASSUME NEW a \in Admins, NEW r \in AdminRequest, turnAdmin[a].pc = "idle", r.pc = "commit",
             r.tool \in Tools, r.saw = turnConfig[r.tool],
             turnAdmin' = [turnAdmin EXCEPT ![a] = r], UNCHANGED <<turnConfig, turnRegistry>>,
             turnOverlapped' = (turnOverlapped \/ T!Others(a) # {})
      PROVE  SerialUpdates'
  <2> SUFFICES ASSUME ~turnOverlapped' PROVE SerialUpdates'
    OBVIOUS
  <2>1. ~turnOverlapped /\ \A b \in Admins : turnAdmin[b].pc = "idle"
    BY <1>1 DEF T!Others
  <2>2. turnRegistry = turnConfig
    BY <2>1
  <2>3. \A b \in Admins : turnAdmin'[b] = IF b = a THEN r ELSE turnAdmin[b]
    BY <1>1
  <2> QED BY <1>1, <2>1, <2>2, <2>3
<1>2. ASSUME NEW a \in Admins, NEW t \in Tools, T!UpdateLoads(a, t) PROVE SerialUpdates'
  <2>1. PICK change \in Patches :
           turnAdmin' = [turnAdmin EXCEPT ![a] = [pc |-> "commit", tool |-> t, saw |-> turnConfig[t],
                                                  new |-> T!Patched(turnConfig[t], change[1], change[2])]]
    BY <1>2 DEF T!UpdateLoads
  <2> DEFINE r == [pc |-> "commit", tool |-> t, saw |-> turnConfig[t],
                   new |-> T!Patched(turnConfig[t], change[1], change[2])]
  <2>2. r \in AdminRequest /\ r.pc = "commit" /\ r.tool = t /\ r.saw = turnConfig[t]
    BY PatchedType DEF AdminRequest
  <2>3. /\ turnAdmin[a].pc = "idle" /\ UNCHANGED <<turnConfig, turnRegistry>>
        /\ turnOverlapped' = (turnOverlapped \/ T!Others(a) # {})
    BY <1>2 DEF T!UpdateLoads
  <2> HIDE DEF r, SerialUpdates
  <2> QED BY <1>1, <2>1, <2>2, <2>3 DEF r
<1>3. ASSUME NEW a \in Admins, NEW t \in Tools, T!ResetLoads(a, t) PROVE SerialUpdates'
  <2> DEFINE r == [pc |-> "commit", tool |-> t, saw |-> turnConfig[t], new |-> None]
  <2>2. r \in AdminRequest /\ r.pc = "commit" /\ r.tool = t /\ r.saw = turnConfig[t]
    BY DEF AdminRequest
  <2>3. /\ turnAdmin[a].pc = "idle" /\ UNCHANGED <<turnConfig, turnRegistry>>
        /\ turnOverlapped' = (turnOverlapped \/ T!Others(a) # {})
        /\ turnAdmin' = [turnAdmin EXCEPT ![a] = r]
    BY <1>3 DEF T!ResetLoads
  <2> HIDE DEF r, SerialUpdates
  <2> QED BY <1>1, <2>2, <2>3
<1>4. ASSUME NEW a \in Admins, T!UpdateCommits(a), ~turnOverlapped' PROVE SerialUpdates'
  <2> DEFINE r == turnAdmin[a]
             next == [r EXCEPT !.pc = "refresh"]
  <2>1. /\ r \in AdminRequest /\ r.pc = "commit" /\ r.tool \in Tools /\ ~turnOverlapped
        /\ turnRegistry' = turnRegistry
    BY <1>4 DEF T!UpdateCommits
  <2>2. r.saw = turnConfig[r.tool] /\ turnConfig[r.tool] \in T!Config \cup {None} /\ r.new \in T!Config \cup {None}
    BY <2>1 DEF AdminRequest
  <2>3. T!Written(turnConfig[r.tool], r.saw, r.new) = r.new
    <3> DEFINE row == turnConfig[r.tool]
               saw == r.saw
               new == r.new
    <3>1. row = saw /\ saw \in T!Config \cup {None} /\ new \in T!Config \cup {None}
      BY <2>2
    <3> HIDE DEF row, saw, new
    <3>2. T!Written(row, saw, new) = new
      BY <3>1, WrittenType
    <3> QED BY <3>2 DEF row, saw, new
  <2>4. /\ turnConfig' = [turnConfig EXCEPT ![r.tool] = r.new]
        /\ turnAdmin' = [turnAdmin EXCEPT ![a] = next]
    BY <1>4, <2>2, <2>3 DEF T!UpdateCommits
  <2>5. next.pc = "refresh" /\ next.tool = r.tool /\ next.new = r.new
    BY <2>1 DEF AdminRequest
  <2>6. \A b \in Admins : b # a => turnAdmin[b].pc = "idle"
    BY <2>1
  <2>7. \A b \in Admins : turnAdmin'[b] = IF b = a THEN next ELSE turnAdmin[b]
    BY <2>4
  <2>8. turnConfig'[r.tool] = r.new
    BY <2>1, <2>4
  <2> HIDE DEF next
  <2> QED BY <2>1, <2>5, <2>6, <2>7, <2>8
<1>5. ASSUME NEW a \in Admins, T!UpdateRefreshes(a), ~turnOverlapped' PROVE SerialUpdates'
  <2> DEFINE r == turnAdmin[a]
             next == IF r.pc = "refresh" THEN [r EXCEPT !.pc = "list"] ELSE T!AdminIdle
  <2>1. /\ r \in AdminRequest /\ r.pc \in {"refresh", "list"} /\ r.tool \in Tools /\ ~turnOverlapped
        /\ turnConfig' = turnConfig
    BY <1>5 DEF T!UpdateRefreshes
  <2>2. r.new = turnConfig[r.tool]
    BY <2>1
  <2>3. turnRegistry' = turnConfig
    BY <1>5, <2>1, <2>2 DEF T!UpdateRefreshes
  <2>4. turnAdmin' = [turnAdmin EXCEPT ![a] = next]
    BY <1>5 DEF T!UpdateRefreshes
  <2>5. /\ next.pc \in {"list", "idle"}
        /\ next.pc = "list" => next.tool = r.tool /\ next.new = r.new
    BY <2>1 DEF AdminRequest, T!AdminIdle
  <2>6. \A b \in Admins : b # a => turnAdmin[b].pc = "idle"
    BY <2>1
  <2>7. \A b \in Admins : turnAdmin'[b] = IF b = a THEN next ELSE turnAdmin[b]
    BY <2>4
  <2> HIDE DEF next
  <2> QED BY <2>1, <2>2, <2>3, <2>5, <2>6, <2>7
<1>6. CASE T!ListTools
  <2>1. turnRegistry' = turnConfig /\ UNCHANGED <<turnConfig, turnAdmin>>
    BY <1>6 DEF T!ListTools
  <2>2. CASE \A a \in Admins : turnAdmin[a].pc = "idle"
    BY <2>1, <2>2
  <2>3. CASE turnOverlapped' = turnOverlapped
    BY <2>1, <2>3
  <2> QED BY <1>6, <2>2, <2>3 DEF T!ListTools
<1>7. turnOverlapped' => SerialUpdates'
  OBVIOUS
<1> QED BY <1>2, <1>3, <1>4, <1>5, <1>6, <1>7 DEF T!Administration

-----------------------------------------------------------------------------
(* ToolTurn: the theorems                                                     *)

LEMMA ToolInit ==
  ASSUME T!ToolConstants, T!Init
  PROVE  TurnTypes /\ AdminTypes /\ AnswersFollow /\ RecordsInv /\ SerialUpdates
<1> USE DEF T!Init
<1>1. <<>> \in Seq(T!Call) /\ <<>> \in Seq(T!Record) /\ <<>> \in Seq(Nat) /\ <<>> \in Seq(PromptMessage)
  OBVIOUS
<1>2. TurnTypes
  <2>1. 0 \in 0..MaxIterations
    BY DEF T!ToolConstants
  <2>2. turnMessage \in [status : {"pending", "complete", "failed", "cancelled"}, chunks : Nat,
                         grounded : BOOLEAN, ids : Seq(Nat)]
    BY <1>1
  <2> QED BY <1>1, <2>1, <2>2 DEF TurnTypes
<1>3. AdminTypes
  BY DEF AdminTypes, AdminRequest
<1>4. AnswersFollow
  BY DEF AnswersFollow, Follows
<1>5. RecordsInv
  BY DEF RecordsInv, IdsNameRecords, StoredFits, T!StoredIsShown
<1>6. SerialUpdates
  BY DEF SerialUpdates, T!RegistryFollowsConfig
<1> QED BY <1>2, <1>3, <1>4, <1>5, <1>6

ToolInv == TurnTypes /\ AdminTypes /\ AnswersFollow /\ RecordsInv /\ SerialUpdates

LEMMA ToolStep ==
  ASSUME T!ToolConstants, ToolInv, [T!Next]_(T!vars)
  PROVE  ToolInv'
<1> USE DEF ToolInv
<1>1. ASSUME UNCHANGED T!turnVars PROVE TurnTypes' /\ AnswersFollow' /\ RecordsInv'
  BY <1>1 DEF T!turnVars, TurnTypes, AnswersFollow, RecordsInv, IdsNameRecords, StoredFits, T!StoredIsShown
<1>2. ASSUME UNCHANGED T!adminVars PROVE AdminTypes' /\ SerialUpdates'
  BY <1>2 DEF T!adminVars, AdminTypes, SerialUpdates, T!RegistryFollowsConfig
<1>3. CASE T!Loop \/ T!Execute \/ T!Close
  <2>1. TurnTypes' /\ AnswersFollow' /\ RecordsInv'
    BY <1>3, TurnTypesStep, PromptStep, RecordsStep
  <2>2. CASE T!Loop
    BY <1>2, <2>1, <2>2 DEF T!Loop, T!Start, T!GenerateCalls, T!GenerateText, T!LimitReached, T!ProviderFails,
                            T!Delta, T!Spoken, T!NextRound
  <2>3. CASE T!Execute
    BY <1>2, <2>1, <2>3 DEF T!Execute, T!CallRefused, T!CallStarts, T!ToolEnds, T!ToolBreaksSession
  <2>4. CASE T!Close
    BY <1>2, <2>1, <2>4 DEF T!Close, T!AnswerStored, T!FailureStored, T!Disconnect, T!Lost, T!Leave
  <2> QED BY <1>3, <2>2, <2>3, <2>4
<1>4. CASE T!Administration
  <2>1. UNCHANGED T!turnVars
    BY <1>4 DEF T!Administration, T!UpdateLoads, T!ResetLoads, T!UpdateCommits, T!UpdateRefreshes, T!ListTools
  <2> QED BY <1>1, <1>4, <2>1, AdminTypesStep, AdminStep
<1>5. CASE UNCHANGED T!vars
  BY <1>1, <1>2, <1>5 DEF T!vars
<1> QED BY <1>3, <1>4, <1>5 DEF T!Next

LEMMA ToolInvHolds == T!Spec => []ToolInv
<1>1. T!Init => ToolInv
  BY ToolInit, ToolTurnConstants DEF ToolInv
<1>2. ToolInv /\ [T!Next]_(T!vars) => ToolInv'
  BY ToolStep, ToolTurnConstants
<1> QED BY <1>1, <1>2, PTL DEF T!Spec

(* However often the loop of agents/orchestrator.py asks the model again, and *)
(* whatever calls it asked for, the prompt it sends has after every assistant *)
(* message its calls' results, one each and in order: those of the executor,  *)
(* refused, failed and timed out ones included, in the order of the queue.    *)
THEOREM PromptsAreAnswered ==
  T!Spec => []CallsAnsweredInOrder
<1>1. ToolInv => CallsAnsweredInOrder
  BY PromptIsComplete DEF ToolInv, CallsAnsweredInOrder
<1> QED BY <1>1, ToolInvHolds, PTL

(* What services/chat.py commits at the end of a turn, be it answered, failed *)
(* or cancelled at any await, is the text the client was sent, except that    *)
(* normalize_grounded_answer may have taken parts out of an answer with       *)
(* citations, and the executions the executor recorded. A streamed answer is  *)
(* complete only if something was sent, to its end.                           *)
THEOREM StoredTurnIsShown ==
  T!Spec => []StoredIsShown
<1>1. ToolInv => StoredIsShown
  BY DEF ToolInv, RecordsInv, StoredFits, StoredIsShown
<1> QED BY <1>1, ToolInvHolds, PTL

(* Any number of administrators change the configuration of any number of     *)
(* tools: as long as their requests have not overlapped, the overrides in the *)
(* memory of the process are those of the database when none is in progress.  *)
THEOREM RegistryIsCurrent ==
  T!Spec => []RegistryFollowsConfig
<1>1. ToolInv => RegistryFollowsConfig
  BY DEF ToolInv, SerialUpdates, RegistryFollowsConfig, T!RegistryFollowsConfig
<1> QED BY <1>1, ToolInvHolds, PTL

-----------------------------------------------------------------------------
(* Planning: a write that is left to the specialists                          *)

\* The message asks for documents, a calculation or the time beside the memory.
Combined(needs) == "write" \in needs /\ ("knowledge" \in needs \/ P!UsesTool(needs))

\* What the message needs with the tools that are selected, it needs with none selected or fewer.
LEMMA NeedsGrow ==
  ASSUME NEW intent, Combined(P!Needs(TRUE, {}))
  PROVE  Combined(P!Needs(TRUE, intent))
BY DEF Combined, P!Needs, P!UsesTool, P!Has

LEMMA AtLeastTwo ==
  ASSUME NEW S, IsFiniteSet(S), NEW x \in S, NEW y \in S, x # y
  PROVE  Cardinality(S) >= 2 /\ ~(Cardinality(S) <= 1)
<1>1. IsFiniteSet({x, y}) /\ Cardinality({x, y}) = 2 /\ {x, y} \subseteq S
  <2>1. IsFiniteSet({x}) /\ Cardinality({x}) = 1 /\ y \notin {x} /\ {x, y} = {x} \cup {y}
    BY FS_Singleton
  <2> QED BY <2>1, FS_AddElement
<1>2. Cardinality(S) \in Nat /\ Cardinality({x, y}) <= Cardinality(S)
  BY <1>1, FS_CardinalityType, FS_Subset
<1> QED BY <1>1, <1>2

\* The cardinality that the instance speaks of.
LEMMA SameCardinality == \A S : P!Cardinality(S) = Cardinality(S)
BY DEF P!Cardinality, Cardinality

LEMMA SpecialistsOf ==
  ASSUME NEW needs
  PROVE  /\ IsFiniteSet(P!Specialists(needs)) /\ P!Specialists(needs) \subseteq {"knowledge", "tool", "memory"}
         /\ "knowledge" \in P!Specialists(needs) <=> "knowledge" \in needs
         /\ "tool" \in P!Specialists(needs) <=> P!UsesTool(needs) \/ "summary" \in needs
         /\ "memory" \in P!Specialists(needs) <=> P!UsesMemory(needs)
<1>1. IsFiniteSet({"knowledge", "tool", "memory"})
  <2>1. IsFiniteSet({}) 
    BY FS_EmptySet
  <2>2. IsFiniteSet({} \cup {"knowledge"})
    BY <2>1, FS_AddElement
  <2>3. IsFiniteSet(({} \cup {"knowledge"}) \cup {"tool"})
    BY <2>2, FS_AddElement
  <2>4. IsFiniteSet((({} \cup {"knowledge"}) \cup {"tool"}) \cup {"memory"})
    BY <2>3, FS_AddElement
  <2>5. (({} \cup {"knowledge"}) \cup {"tool"}) \cup {"memory"} = {"knowledge", "tool", "memory"}
    OBVIOUS
  <2> QED BY <2>4, <2>5
<1>2. P!Specialists(needs) \subseteq {"knowledge", "tool", "memory"}
  BY DEF P!Specialists
<1>3. IsFiniteSet(P!Specialists(needs))
  BY <1>1, <1>2, FS_Subset
<1> QED BY <1>2, <1>3 DEF P!Specialists, P!Has, P!UsesTool

\* The rules of the classifier find such a message in need of several agents.
LEMMA CombinedIsMulti ==
  ASSUME NEW intent, planTurn.says # {}, "greeting" \notin planTurn.says,
         Combined(P!Needs(TRUE, intent))
  PROVE  /\ P!Decisions(TRUE, intent) = {P!ClassifyDeterministic(TRUE, intent)}
         /\ P!ClassifyDeterministic(TRUE, intent).mode = "multi_agent"
         /\ P!ClassifyDeterministic(TRUE, intent).planning
         /\ "memory" \in P!ClassifyDeterministic(TRUE, intent).suggests
<1> DEFINE needs == P!Needs(TRUE, intent)
           combos == P!ComboCodes(needs)
           codes == P!CapabilityCodes(needs) \cup combos
           agents == P!Specialists(needs)
           multi == [mode |-> "multi_agent", codes |-> codes \cup {"multi_agent_required"},
                     suggests |-> agents \cup {"conversation"}, planning |-> TRUE,
                     approval |-> "write" \in needs]
<1>1. "memory" \in agents /\ ("knowledge" \in agents \/ "tool" \in agents) /\ IsFiniteSet(agents)
  BY SpecialistsOf DEF Combined, P!UsesMemory, P!Has
<1>2. P!Cardinality(agents) >= 2 /\ ~(P!Cardinality(agents) <= 1)
  BY <1>1, AtLeastTwo, SameCardinality
<1>3. combos # {}
  <2>1. CASE "knowledge" \in needs
    <3>1. "combo_knowledge_memory" \in combos
      BY <2>1 DEF P!ComboCodes, P!UsesMemory, P!Has, Combined
    <3> QED BY <3>1
  <2>2. CASE P!UsesTool(needs)
    <3>1. "combo_memory_tool" \in combos
      BY <2>2 DEF P!ComboCodes, P!UsesMemory, P!Has, Combined
    <3> QED BY <3>1
  <2> QED BY <2>1, <2>2 DEF Combined
<1>4. "ambiguous" \notin codes
  BY DEF P!CapabilityCodes, P!ComboCodes
<1>5. P!ClassifyDeterministic(TRUE, intent) = multi
  <2> HIDE DEF needs, combos, agents
  <2> QED BY <1>2, <1>3 DEF P!ClassifyDeterministic, needs, combos, agents
<1>6. "ambiguous" \notin multi.codes
  BY <1>4
<1>7. multi.mode = "multi_agent" /\ multi.planning /\ "memory" \in multi.suggests
  BY <1>1
<1> HIDE DEF multi
<1> QED BY <1>5, <1>6, <1>7 DEF P!Decisions

\* And only such a message is left to the specialists: the first classification selects no tool.
LEMMA LeftToSpecialists ==
  ASSUME NEW d \in P!Decisions(TRUE, {}), P!ShouldUseMultiAgent(d), P!WriteIntent(planTurn.says)
  PROVE  planTurn.says # {} /\ "greeting" \notin planTurn.says /\ Combined(P!Needs(TRUE, {}))
<1> DEFINE needs == P!Needs(TRUE, {})
           base == P!ClassifyDeterministic(TRUE, {})
           combos == P!ComboCodes(needs)
           agents == P!Specialists(needs)
<1>1. base.mode = "single_agent" /\ "ambiguous" \notin base.codes => FALSE
  BY DEF P!Decisions, P!ShouldUseMultiAgent
<1>2. planTurn.says # {} /\ "greeting" \notin planTurn.says
  BY <1>1 DEF P!ClassifyDeterministic, P!Single
<1>3. "write" \in needs /\ "summary" \notin needs
  BY DEF P!Needs
<1>4. SUFFICES ASSUME "knowledge" \notin needs, ~P!UsesTool(needs) PROVE FALSE
  BY <1>2, <1>3 DEF Combined
<1>5. agents = {"memory"}
  <2>1. agents \subseteq {"knowledge", "tool", "memory"} /\ "knowledge" \notin agents /\ "tool" \notin agents
    BY <1>3, <1>4, SpecialistsOf
  <2>2. "memory" \in agents
    BY <1>3, SpecialistsOf DEF P!UsesMemory, P!Has
  <2> HIDE DEF agents
  <2> QED BY <2>1, <2>2
<1>6. P!Cardinality(agents) <= 1 /\ ~(P!Cardinality(agents) >= 2)
  <2>1. Cardinality(agents) = 1
    BY <1>5, FS_Singleton
  <2>2. 1 <= 1 /\ ~(1 >= 2)
    OBVIOUS
  <2> QED BY <2>1, <2>2, SameCardinality, Zenon
<1>7. combos = {}
  <2> HIDE DEF needs
  <2> QED BY <1>4, <1>6 DEF P!ComboCodes
<1>8. base.mode = "single_agent" /\ "ambiguous" \notin base.codes
  <2>1. base = P!SimpleDecision(needs, P!CapabilityCodes(needs) \cup combos)
    BY <1>2, <1>6, <1>7 DEF P!ClassifyDeterministic
  <2>2. "ambiguous" \notin P!CapabilityCodes(needs) \cup combos
    BY <1>7 DEF P!CapabilityCodes
  <2>3. ASSUME NEW codes, "ambiguous" \notin codes
        PROVE  P!SimpleDecision(needs, codes).mode = "single_agent" /\ "ambiguous" \notin P!SimpleDecision(needs, codes).codes
    BY <2>3 DEF P!SimpleDecision, P!Single
  <2> HIDE DEF needs, combos, base
  <2> QED BY <2>1, <2>2, <2>3
<1> QED BY <1>1, <1>8

StepNames == {"read", "knowledge", "tool", "write", "answer"}

LEMMA OneStep ==
  ASSUME NEW S, NEW x \in S
  PROVE  /\ <<x>> \in Seq(S) /\ Len(<<x>>) = 1 /\ <<x>>[1] = x /\ Len(<<x>>) <= 1
         /\ <<>> \in Seq(S) /\ Len(<<>>) = 0 /\ Len(<<>>) <= 1
OBVIOUS

LEMMA Goes ==
  ASSUME NEW S, NEW s \in Seq(S), NEW t \in Seq(S)
  PROVE  s \o t \in Seq(S) /\ Len(s \o t) = Len(s) + Len(t) /\ (Len(s) >= 1 => (s \o t)[1] = s[1])
OBVIOUS

\* A plan by rule for a message in need of the memory begins with the memory agent.
LEMMA StepsStart ==
  ASSUME NEW a \in Seq(StepNames), NEW b \in Seq(StepNames), NEW w \in Seq(StepNames),
         Len(a) <= 1, Len(b) <= 1, Len(w) <= 1,
         ~(Len((<<"read">> \o a) \o b) <= 2) => w = <<>>
  PROVE  LET steps == (((<<"read">> \o a) \o b) \o w) \o <<"answer">>
         IN  1 \in DOMAIN steps /\ steps[1] = "read" /\ ~(Len(steps) > 4)
<1> DEFINE r == <<"read">> \o a
           s == r \o b
           u == s \o w
           v == u \o <<"answer">>
<1>0. /\ <<"read">> \in Seq(StepNames) /\ Len(<<"read">>) = 1 /\ <<"read">>[1] = "read"
      /\ <<"answer">> \in Seq(StepNames) /\ Len(<<"answer">>) = 1
  <2>1. "read" \in StepNames /\ "answer" \in StepNames
    BY DEF StepNames
  <2> QED BY <2>1, OneStep
<1>1. r \in Seq(StepNames) /\ Len(r) = 1 + Len(a) /\ r[1] = "read"
  <2> DEFINE first == <<"read">>
  <2>1. first \in Seq(StepNames) /\ Len(first) = 1 /\ first[1] = "read"
    BY <1>0
  <2> HIDE DEF first
  <2>2. /\ first \o a \in Seq(StepNames) /\ Len(first \o a) = Len(first) + Len(a)
        /\ Len(first) >= 1 => (first \o a)[1] = first[1]
    BY <2>1, Goes
  <2>3. Len(first \o a) = 1 + Len(a) /\ (first \o a)[1] = "read"
    BY <2>1, <2>2
  <2> QED BY <2>2, <2>3 DEF first
<1> HIDE DEF r
<1>2. s \in Seq(StepNames) /\ Len(s) = 1 + Len(a) + Len(b) /\ s[1] = "read"
  BY <1>1
<1>3. ~(Len(s) <= 2) => w = <<>>
  BY DEF r
<1> HIDE DEF s
<1>4. u \in Seq(StepNames) /\ Len(u) = 1 + Len(a) + Len(b) + Len(w) /\ u[1] = "read"
  BY <1>2
<1> HIDE DEF u
<1>5. v \in Seq(StepNames) /\ Len(v) = 2 + Len(a) + Len(b) + Len(w) /\ v[1] = "read"
  <2> DEFINE last == <<"answer">>
  <2>1. last \in Seq(StepNames) /\ Len(last) = 1
    BY <1>0
  <2> HIDE DEF last
  <2>2. u \o last \in Seq(StepNames) /\ Len(u \o last) = Len(u) + Len(last) /\ (u \o last)[1] = u[1]
    <3>1. Len(a) \in Nat /\ Len(b) \in Nat /\ Len(w) \in Nat
      OBVIOUS
    <3>2. Len(u) >= 1
      BY <1>4, <3>1
    <3>3. u \in Seq(StepNames) /\ last \in Seq(StepNames)
      BY <1>4, <2>1
    <3>4. u \o last \in Seq(StepNames) /\ Len(u \o last) = Len(u) + Len(last)
      BY <3>3, Goes
    <3>5. Len(u) >= 1 => (u \o last)[1] = u[1]
      BY <3>3, Goes
    <3> QED
      BY <3>2, <3>4, <3>5
  <2>3. Len(u \o last) = 2 + Len(a) + Len(b) + Len(w) /\ (u \o last)[1] = "read"
    <3> DEFINE i == Len(a)
               j == Len(b)
               k == Len(w)
               l == u \o last
    <3>1. i \in Nat /\ j \in Nat /\ k \in Nat
      OBVIOUS
    <3>2. Len(u) = 1 + i + j + k /\ Len(l) = Len(u) + 1 /\ l[1] = u[1] /\ u[1] = "read"
      BY <1>4, <2>1, <2>2
    <3> HIDE DEF i, j, k, l
    <3>3. Len(l) = 2 + i + j + k /\ l[1] = "read"
      BY <3>1, <3>2
    <3> QED
      BY <3>3 DEF i, j, k, l
  <2> QED BY <2>2, <2>3 DEF last
<1> HIDE DEF v
<1>6. 1 \in DOMAIN v /\ v[1] = "read" /\ ~(Len(v) > 4)
  <2>1. Len(w) = 0 \/ Len(a) + Len(b) <= 1
    BY <1>2, <1>3
  <2> QED BY <1>5, <2>1
<1> QED BY <1>6 DEF r, s, u, v

LEMMA MemoryIsPlanned ==
  ASSUME planTurn.memory, "memory" \in planDecision.suggests
  PROVE  /\ P!DeterministicPlan # P!NoPlan
         /\ \E t \in P!Tasks(P!DeterministicPlan) : t.agent = "memory"
<1> DEFINE wanted == {s \in P!Signals : s # "tool" \/ P!PlannedTools # {}}
           only(s) == IF s \in wanted THEN <<s>> ELSE <<>>
           reads == only("read") \o only("knowledge") \o only("tool")
           writes == "write" \in P!Signals /\ P!Writes(reads)
           write == IF writes THEN <<"write">> ELSE <<>>
           steps == reads \o write \o <<"answer">>
           made == [tasks |-> [i \in DOMAIN steps |-> P!PlannedTask(steps[i], i, steps)],
                    approval |-> writes, strategy |-> "deterministic"]
<1>1. "read" \in P!Signals
  BY DEF P!Signals, P!ReadSignal, P!Hinted
<1>2. only("read") = <<"read">>
  BY <1>1
<1>3. /\ only("knowledge") \in Seq(StepNames) /\ Len(only("knowledge")) <= 1
      /\ only("tool") \in Seq(StepNames) /\ Len(only("tool")) <= 1
  <2>1. \A s \in StepNames : <<s>> \in Seq(StepNames) /\ Len(<<s>>) <= 1 /\ <<>> \in Seq(StepNames) /\ Len(<<>>) <= 1
    BY OneStep
  <2>2. "knowledge" \in StepNames /\ "tool" \in StepNames
    BY DEF StepNames
  <2> HIDE DEF wanted
  <2> QED BY <2>1, <2>2, Zenon
<1>4. /\ write \in Seq(StepNames) /\ Len(write) <= 1
      /\ ~(Len(reads) <= 2) => write = <<>>
  <2>1. <<"write">> \in Seq(StepNames) /\ Len(<<"write">>) <= 1 /\ <<>> \in Seq(StepNames) /\ Len(<<>>) <= 1
    <3>1. "write" \in StepNames
      BY DEF StepNames
    <3> QED BY <3>1, OneStep
  <2> HIDE DEF reads
  <2> QED BY <2>1, Zenon DEF P!Writes
<1>5. 1 \in DOMAIN steps /\ steps[1] = "read" /\ ~(Len(steps) > 4)
  <2> DEFINE k == only("knowledge")
             t == only("tool")
  <2>1. k \in Seq(StepNames) /\ t \in Seq(StepNames) /\ Len(k) <= 1 /\ Len(t) <= 1 /\ reads = (<<"read">> \o k) \o t
    BY <1>2, <1>3
  <2> HIDE DEF k, t, reads, write
  <2> QED BY <1>4, <2>1, StepsStart
<1>6. P!DeterministicPlan = made
  <2> HIDE DEF steps
  <2>1. P!Signals # {} /\ ~(Len(steps) > 4)
    BY <1>1, <1>5
  <2> QED BY <2>1 DEF P!DeterministicPlan, steps
<1>7. made.tasks[1].agent = "memory" /\ 1 \in DOMAIN made.tasks /\ made.strategy # "none"
  <2> HIDE DEF steps, writes
  <2> QED BY <1>5 DEF P!PlannedTask, P!Task
<1> HIDE DEF made
<1> QED BY <1>6, <1>7 DEF P!NoPlan, P!Tasks, P!Range

-----------------------------------------------------------------------------
(* Planning: the invariant                                                    *)

IsPlan(p) == DOMAIN p = {"tasks", "approval", "strategy"}

\* The parts of TypeOK, and that tools are selected after the first classification.
PlanTypes ==
  /\ planPc \in {"idle", "asked", "prepared", "plan", "model", "review", "asking", "accepted", "rejected", "chat",
                "answered", "failed"}
  /\ planTurn \in P!Turn \cup {P!NoTurn}
  /\ planPc = "idle" => planTurn = P!NoTurn
  /\ planPc \in {"idle", "asked"} => planTools = {} /\ ~planDeferred
  /\ planTools \subseteq planTurn.offered \cap P!KnownTools
  /\ planAttempts \in 0..MaxReplans
  /\ IsPlan(planPlan)
  /\ planPc \in {"review", "asking", "accepted"} => planPlan.tasks # <<>>
  /\ planPc \in {"plan", "model", "review", "asking", "accepted", "rejected"} =>
       planDeferred /\ P!ShouldUseMultiAgent(planDecision)

RegistryTypes ==
  /\ planRegistry \in [off : SUBSET (P!Agents \ P!Required), tools : [P!Agents -> SUBSET P!KnownTools]]
  /\ \A a \in P!Agents : planRegistry.tools[a] \subseteq P!ClassTools[a]

LeftToWrite == planDeferred /\ ~planTurn.forced /\ planTurn.memory /\ P!WriteIntent(planTurn.says)

\* A write is left to the specialists for a message that the second classification finds in
\* need of several agents too, and its plan begins with the memory agent.
WritePlanned ==
  /\ planTurn.memory => planTurn.memoryFlag
  /\ LeftToWrite =>
       /\ planTurn.says # {} /\ "greeting" \notin planTurn.says /\ Combined(P!Needs(TRUE, {}))
       /\ planPc \notin {"chat", "model", "failed"}
       /\ planPc = "answered" => P!FoundNothing
       /\ planPc = "plan" => "memory" \in planDecision.suggests
       /\ planPc \in {"review", "asking", "accepted"} => \E t \in P!Tasks(planPlan) : t.agent = "memory"

\* What the safety model is asked about was allowed when it was checked.
PlanChecked ==
  planPc = "asking" => /\ P!Matches(planTurn.says, {"unusual"})
                       /\ \A t \in P!Tasks(planPlan) : P!Allows(planChecked, t)

LEMMA RuledPlans ==
  /\ IsPlan(P!NoPlan) /\ IsPlan(P!DeterministicPlan) /\ IsPlan(P!TemplatePlan) /\ IsPlan(P!FallbackPlan)
<1>1. IsPlan(P!NoPlan) /\ IsPlan(P!FallbackPlan)
  BY DEF IsPlan, P!NoPlan, P!FallbackPlan
<1>2. \A ts, asks : IsPlan([tasks |-> ts, approval |-> asks, strategy |-> "deterministic"])
  BY DEF IsPlan
<1>3. IsPlan(P!DeterministicPlan)
  BY <1>1, <1>2, Zenon DEF P!DeterministicPlan
<1>4. IsPlan(P!TemplatePlan)
  BY <1>1, <1>2, Zenon DEF P!TemplatePlan
<1> QED BY <1>1, <1>3, <1>4

LEMMA PlanTypesGiveTypeOK == PlanTypes /\ RegistryTypes => P!TypeOK
BY DEF PlanTypes, RegistryTypes, P!TypeOK

\* The plan that is validated has tasks, and its review leaves them as they are.
LEMMA ValidPlan ==
  ASSUME NEW p, P!ValidatePlan(p)
  PROVE  p.tasks # <<>>
BY DEF P!ValidatePlan

LEMMA AcceptedPlan ==
  ASSUME PlanTypes, NEW asks, P!Accept(asks)
  PROVE  planPc' = "accepted" /\ IsPlan(planPlan') /\ planPlan'.tasks = planPlan.tasks
<1>1. planPlan' = [planPlan EXCEPT !.approval = @ \/ asks \/ \E t \in P!Tasks(planPlan) : t.approval]
      /\ planPc' = "accepted"
  BY DEF P!Accept
<1> QED BY <1>1 DEF PlanTypes, IsPlan

LEMMA ReviewedPlan ==
  ASSUME PlanTypes, P!Review
  PROVE  /\ planPc = "review" /\ planPc' \in {"rejected", "asking", "accepted"}
         /\ IsPlan(planPlan') /\ planPlan'.tasks = planPlan.tasks
         /\ planPc' \in {"asking", "accepted"} => P!ReviewPasses
         /\ planPc' = "asking" => P!Matches(planTurn.says, {"unusual"})
         /\ planChecked' = planRegistry
         /\ UNCHANGED <<planTurn, planDeferred, planTools, planDecision, planAttempts, planRegistry, planUpdates>>
<1>1. CASE P!Matches(planTurn.says, {"unsafe"}) \/ ~P!ReviewPasses
  BY <1>1 DEF P!Review, PlanTypes
<1>2. CASE ~P!Matches(planTurn.says, {"unsafe"}) /\ P!ReviewPasses /\ P!Matches(planTurn.says, {"unusual"})
  BY <1>2 DEF P!Review, PlanTypes
<1>3. CASE ~P!Matches(planTurn.says, {"unsafe"}) /\ P!ReviewPasses /\ ~P!Matches(planTurn.says, {"unusual"})
  <2>1. P!Accept(FALSE)
    BY <1>3 DEF P!Review
  <2> QED BY <1>3, <2>1, AcceptedPlan DEF P!Review
<1> QED BY <1>1, <1>2, <1>3

LEMMA AskedPlan ==
  ASSUME PlanTypes, P!ModelReview
  PROVE  /\ planPc = "asking" /\ planPc' \in {"rejected", "accepted"}
         /\ IsPlan(planPlan') /\ planPlan'.tasks = planPlan.tasks
         /\ UNCHANGED <<planTurn, planDeferred, planTools, planDecision, planAttempts, planRegistry, planUpdates,
                        planChecked>>
<1>1. ASSUME NEW asks \in BOOLEAN, P!Accept(asks)
      PROVE  planPc' = "accepted" /\ IsPlan(planPlan') /\ planPlan'.tasks = planPlan.tasks
  BY <1>1, AcceptedPlan
<1> QED BY <1>1 DEF P!ModelReview, PlanTypes

LEMMA PlanningInit ==
  ASSUME P!PlannerConstants, P!Init
  PROVE  PlanTypes /\ RegistryTypes /\ WritePlanned /\ PlanChecked
<1>1. PlanTypes
  BY RuledPlans DEF P!Init, P!PlannerConstants, PlanTypes, P!NoTurn
<1>2. RegistryTypes
  <2>1. \A a \in P!Agents : P!ClassTools[a] \subseteq P!KnownTools
    BY DEF P!KnownTools
  <2>2. DOMAIN P!ClassTools = P!Agents /\ P!ClassTools = [a \in P!Agents |-> P!ClassTools[a]]
    BY DEF P!ClassTools
  <2>3. P!ClassTools \in [P!Agents -> SUBSET P!KnownTools]
    BY <2>1, <2>2
  <2> QED BY <2>3 DEF P!Init, RegistryTypes
<1>3. WritePlanned
  BY DEF P!Init, P!NoTurn, WritePlanned, LeftToWrite
<1> QED BY <1>1, <1>2, <1>3 DEF P!Init, PlanChecked

LEMMA RegistryStep ==
  ASSUME RegistryTypes, [P!Next]_(P!vars)
  PROVE  RegistryTypes'
<1>1. ASSUME NEW a \in P!Agents, NEW on \in BOOLEAN, NEW allowed, P!UpdateAgent(a, on, allowed)
      PROVE  RegistryTypes'
  <2>1. allowed \in SUBSET P!KnownTools
    BY <1>1 DEF P!UpdateAgent, P!KnownTools
  <2>2. (IF on THEN planRegistry.off \ {a} ELSE planRegistry.off \cup {a}) \in SUBSET (P!Agents \ P!Required)
    BY <1>1 DEF P!UpdateAgent, RegistryTypes
  <2>3. /\ planRegistry'.off = IF on THEN planRegistry.off \ {a} ELSE planRegistry.off \cup {a}
        /\ planRegistry'.tools = [planRegistry.tools EXCEPT ![a] = allowed]
        /\ planRegistry' = [off |-> planRegistry'.off, tools |-> planRegistry'.tools]
    BY <1>1 DEF P!UpdateAgent, RegistryTypes
  <2>4. planRegistry'.tools \in [P!Agents -> SUBSET P!KnownTools]
    BY <2>1, <2>3 DEF RegistryTypes
  <2>5. \A b \in P!Agents : planRegistry'.tools[b] \subseteq P!ClassTools[b]
    BY <1>1, <2>3 DEF RegistryTypes, P!UpdateAgent
  <2>6. planRegistry'.off \in SUBSET (P!Agents \ P!Required)
    BY <2>2, <2>3, Zenon
  <2> QED BY <2>3, <2>4, <2>5, <2>6, SMTT(30) DEF RegistryTypes
<1>2. CASE UNCHANGED planRegistry
  BY <1>2 DEF RegistryTypes
<1>3. {"conversation", "tool", "safety"} \subseteq P!Agents
  BY DEF P!Agents
<1> QED BY <1>1, <1>2, <1>3 DEF P!Next, P!vars, P!Ask, P!ClassifyEarly, P!AnswerAtOnce, P!ClassifyAgain,
                                P!PlanByRule, P!PlanByModel, P!PlannerFails, P!Review, P!ModelReview

LEMMA PlanTypesStep ==
  ASSUME P!PlannerConstants, PlanTypes, [P!Next]_(P!vars)
  PROVE  PlanTypes'
<1> USE DEF PlanTypes
<1>1. CASE P!Ask
  BY <1>1 DEF P!Ask, P!NoTurn
<1>2. CASE P!ClassifyEarly
  BY <1>2 DEF P!ClassifyEarly
<1>3. CASE P!ClassifyAgain
  <2>1. P!SelectedTools \subseteq planTurn.offered \cap P!KnownTools
    BY DEF P!SelectedTools
  <2>2. CASE planDeferred
    <3>1. PICK d : planDecision' = d /\ planPc' = IF P!ShouldUseMultiAgent(d) THEN "plan" ELSE "failed"
      BY <1>3, <2>2 DEF P!ClassifyAgain
    <3>2. planPc' = "plan" => P!ShouldUseMultiAgent(planDecision')
      BY <3>1
    <3> QED BY <1>3, <2>1, <2>2, <3>1, <3>2 DEF P!ClassifyAgain
  <2>3. CASE ~planDeferred
    BY <1>3, <2>1, <2>3 DEF P!ClassifyAgain
  <2> QED BY <2>2, <2>3
<1>4. CASE P!PlanByRule
  <2> DEFINE ruled == IF P!DeterministicPlan # P!NoPlan THEN P!DeterministicPlan ELSE P!TemplatePlan
  <2>1. IsPlan(ruled)
    BY RuledPlans
  <2> HIDE DEF ruled
  <2>2. \/ ruled = P!NoPlan /\ planPc' = "model" /\ UNCHANGED planPlan
        \/ planPlan' = ruled /\ planPc' = IF P!ValidatePlan(ruled) THEN "review" ELSE "rejected"
    BY <1>4 DEF P!PlanByRule, ruled
  <2> QED BY <1>4, <2>1, <2>2, ValidPlan DEF P!PlanByRule
<1>5. CASE P!PlanByModel
  <2>1. MaxReplans \in Nat /\ planPc = "model"
    BY <1>5 DEF P!PlannerConstants, P!PlanByModel
  <2>2. PICK p \in ModelPlans \cup {P!NoPlan} :
          IF p # P!NoPlan /\ P!ValidatePlan(p)
          THEN planPlan' = p /\ planPc' = "review" /\ UNCHANGED planAttempts
          ELSE IF planAttempts < MaxReplans
          THEN planAttempts' = planAttempts + 1 /\ UNCHANGED <<planPlan, planPc>>
          ELSE /\ planPlan' = P!FallbackPlan
               /\ planPc' = IF P!ValidatePlan(P!FallbackPlan) THEN "review" ELSE "rejected"
               /\ UNCHANGED planAttempts
    BY <1>5 DEF P!PlanByModel
  <2>3. IsPlan(p)
    BY RuledPlans DEF P!PlannerConstants, IsPlan
  <2>4. /\ IsPlan(planPlan') /\ planAttempts' \in 0..MaxReplans /\ planPc' \in {"model", "review", "rejected"}
        /\ planPc' = "review" => planPlan'.tasks # <<>>
    <3>1. CASE p # P!NoPlan /\ P!ValidatePlan(p)
      BY <2>2, <2>3, <3>1, ValidPlan
    <3>2. CASE ~(p # P!NoPlan /\ P!ValidatePlan(p)) /\ planAttempts < MaxReplans
      BY <2>1, <2>2, <3>2
    <3>3. CASE ~(p # P!NoPlan /\ P!ValidatePlan(p)) /\ ~(planAttempts < MaxReplans)
      BY <2>2, <3>3, ValidPlan, RuledPlans
    <3> QED BY <3>1, <3>2, <3>3
  <2>5. UNCHANGED <<planTurn, planDeferred, planTools, planDecision>>
    BY <1>5 DEF P!PlanByModel
  <2> QED BY <2>1, <2>4, <2>5
<1>6. CASE P!PlannerFails
  BY <1>6 DEF P!PlannerFails
<1>7. CASE P!Review
  BY <1>7, ReviewedPlan
<1>9. CASE P!ModelReview
  BY <1>9, AskedPlan
<1>10. CASE P!AnswerAtOnce
  BY <1>10 DEF P!AnswerAtOnce
<1>8. ASSUME UNCHANGED <<planPc, planTurn, planDeferred, planTools, planDecision, planPlan, planAttempts>>
      PROVE  PlanTypes'
  BY <1>8
<1> QED BY <1>1, <1>2, <1>3, <1>4, <1>5, <1>6, <1>7, <1>8, <1>9, <1>10 DEF P!Next, P!vars, P!UpdateAgent

LEMMA AllowedIsAllowed == P!ReviewPasses => \A t \in P!Tasks(planPlan) : P!Allows(planRegistry, t)
BY DEF P!ReviewPasses, P!Allows, P!EnabledAgents, P!EffectiveTools

LEMMA CheckedStep ==
  ASSUME PlanTypes, PlanChecked, [P!Next]_(P!vars)
  PROVE  PlanChecked'
<1>1. CASE P!Review
  <2>1. /\ planPc' = "asking" => P!Matches(planTurn.says, {"unusual"}) /\ P!ReviewPasses
        /\ planChecked' = planRegistry /\ UNCHANGED <<planTurn, planTools>> /\ P!Tasks(planPlan') = P!Tasks(planPlan)
    BY <1>1, ReviewedPlan DEF P!Tasks
  <2>2. ASSUME planPc' = "asking"
        PROVE  \A t \in P!Tasks(planPlan') : P!Allows(planChecked, t)'
    BY <2>1, <2>2, AllowedIsAllowed DEF P!Allows
  <2> QED BY <2>1, <2>2 DEF PlanChecked, P!Tasks
<1>2. ASSUME UNCHANGED <<planPc, planTurn, planTools, planPlan, planChecked>>
      PROVE  PlanChecked'
  BY <1>2 DEF PlanChecked, P!Allows, P!Tasks
<1>3. ASSUME planPc' # "asking"
      PROVE  PlanChecked'
  BY <1>3 DEF PlanChecked
<1>4. P!ModelReview => planPc' # "asking"
  BY AskedPlan
<1>5. P!PlanByRule \/ P!PlanByModel => planPc' # "asking"
  BY DEF P!PlanByRule, P!PlanByModel
<1>6. P!Ask \/ P!ClassifyEarly \/ P!AnswerAtOnce \/ P!ClassifyAgain \/ P!PlannerFails => planPc' # "asking"
  BY DEF P!Ask, P!ClassifyEarly, P!AnswerAtOnce, P!ClassifyAgain, P!PlannerFails
<1> QED BY <1>1, <1>2, <1>3, <1>4, <1>5, <1>6 DEF P!Next, P!vars, P!UpdateAgent

LEMMA TurnFlags == PlanTypes => planTurn.memory \in BOOLEAN /\ planTurn.memoryFlag \in BOOLEAN
<1>1. planTurn = P!NoTurn => planTurn.memory \in BOOLEAN /\ planTurn.memoryFlag \in BOOLEAN
  BY DEF P!NoTurn
<1>2. planTurn \in P!Turn => planTurn.memory \in BOOLEAN /\ planTurn.memoryFlag \in BOOLEAN
  BY DEF P!Turn
<1> QED BY <1>1, <1>2 DEF PlanTypes

LEMMA SameNeeds ==
  ASSUME UNCHANGED planTurn
  PROVE  Combined(P!Needs(TRUE, {}))' <=> Combined(P!Needs(TRUE, {}))
BY DEF Combined, P!Needs, P!UsesTool, P!Has, P!AsksTime, P!Matches, P!WriteIntent, P!MemoryIntent

LEMMA WriteStep ==
  ASSUME PlanTypes, WritePlanned, [P!Next]_(P!vars)
  PROVE  WritePlanned'
<1> USE DEF LeftToWrite
<1>1. CASE P!Ask
  <2>1. ~planDeferred' /\ (planTurn'.memory => planTurn'.memoryFlag)
    BY <1>1 DEF P!Ask, PlanTypes
  <2> QED BY <2>1 DEF WritePlanned
<1>2. CASE P!ClassifyEarly
  <2>1. PICK d \in IF planTurn.forced THEN {P!ForcedDecision} ELSE P!Decisions(planTurn.memoryFlag, {}) :
          planDecision' = d /\ planDeferred' = P!ShouldUseMultiAgent(d)
    BY <1>2 DEF P!ClassifyEarly
  <2>2. UNCHANGED <<planTurn, planTools, planPlan>> /\ planPc' = "prepared"
    BY <1>2 DEF P!ClassifyEarly
  <2>3. SUFFICES ASSUME LeftToWrite'
                 PROVE  planTurn.says # {} /\ "greeting" \notin planTurn.says /\ Combined(P!Needs(TRUE, {}))
    BY <2>2, SameNeeds DEF WritePlanned
  <2>4. planTurn.memoryFlag = TRUE /\ ~planTurn.forced /\ P!WriteIntent(planTurn.says)
    BY <2>2, <2>3, TurnFlags DEF WritePlanned
  <2>5. d \in P!Decisions(TRUE, {}) /\ P!ShouldUseMultiAgent(d)
    BY <2>1, <2>3, <2>4
  <2> QED BY <2>4, <2>5, LeftToSpecialists
<1>3. CASE P!ClassifyAgain
  <2>1. UNCHANGED <<planTurn, planDeferred, planPlan>>
    BY <1>3 DEF P!ClassifyAgain
  <2>2. SUFFICES ASSUME LeftToWrite' PROVE WritePlanned'
    BY <2>1 DEF WritePlanned
  <2>3. LeftToWrite
    BY <2>1, <2>2
  <2>4. planTurn.memory = TRUE /\ ~planTurn.forced /\ planDeferred /\ planTurn.says # {}
        /\ "greeting" \notin planTurn.says /\ Combined(P!Needs(TRUE, {}))
    BY <2>3, TurnFlags DEF WritePlanned
  <2>5. PICK d \in P!Decisions(TRUE, planTools') :
          planDecision' = d /\ planPc' = IF P!ShouldUseMultiAgent(d) THEN "plan" ELSE "failed"
    BY <1>3, <2>4 DEF P!ClassifyAgain
  <2>6. Combined(P!Needs(TRUE, planTools'))
    BY <2>4, NeedsGrow
  <2>7. P!ShouldUseMultiAgent(d) /\ "memory" \in d.suggests
    BY <2>4, <2>5, <2>6, CombinedIsMulti DEF P!ShouldUseMultiAgent
  <2>8. planPc' = "plan" /\ "memory" \in planDecision'.suggests
    BY <2>5, <2>7
  <2> QED BY <2>1, <2>3, <2>8, SameNeeds DEF WritePlanned
<1>4. CASE P!PlanByRule
  <2> DEFINE ruled == IF P!DeterministicPlan # P!NoPlan THEN P!DeterministicPlan ELSE P!TemplatePlan
  <2>1. UNCHANGED <<planTurn, planDeferred, planDecision>> /\ planPc = "plan"
    BY <1>4 DEF P!PlanByRule
  <2>2. SUFFICES ASSUME LeftToWrite' PROVE WritePlanned'
    BY <2>1 DEF WritePlanned
  <2>3. LeftToWrite
    BY <2>1, <2>2
  <2>4. planTurn.memory /\ "memory" \in planDecision.suggests
    BY <2>1, <2>3 DEF WritePlanned
  <2>5. ruled # P!NoPlan /\ \E t \in P!Tasks(ruled) : t.agent = "memory"
    BY <2>4, MemoryIsPlanned
  <2> HIDE DEF ruled
  <2>6. planPlan' = ruled /\ planPc' \in {"review", "rejected"}
    BY <1>4, <2>5 DEF P!PlanByRule, ruled
  <2>7. \E t \in P!Tasks(planPlan') : t.agent = "memory"
    BY <2>5, <2>6
  <2> QED BY <2>1, <2>3, <2>6, <2>7, SameNeeds DEF WritePlanned
<1>5. CASE P!PlanByModel \/ P!PlannerFails
  <2>1. planPc = "model" /\ UNCHANGED <<planTurn, planDeferred>>
    BY <1>5 DEF P!PlanByModel, P!PlannerFails
  <2> QED BY <2>1 DEF WritePlanned
<1>6. CASE P!Review \/ P!ModelReview
  <2>1. /\ UNCHANGED <<planTurn, planDeferred>> /\ planPc \in {"review", "asking"}
        /\ planPc' \in {"rejected", "asking", "accepted"} /\ P!Tasks(planPlan') = P!Tasks(planPlan)
    BY <1>6, ReviewedPlan, AskedPlan DEF P!Tasks
  <2> QED BY <2>1, SameNeeds DEF WritePlanned
<1>8. CASE P!AnswerAtOnce
  <2>1. /\ UNCHANGED <<planTurn, planDeferred>> /\ planPc' = "answered"
        /\ P!Commands \/ P!FoundNothing
    BY <1>8 DEF P!AnswerAtOnce
  <2>2. LeftToWrite => ~P!Commands
    BY DEF P!Commands, P!WriteIntent
  <2>3. P!FoundNothing' = P!FoundNothing
    BY <2>1 DEF P!FoundNothing
  <2> QED BY <2>1, <2>2, <2>3, SameNeeds DEF WritePlanned
<1>7. ASSUME UNCHANGED <<planPc, planTurn, planDeferred, planDecision, planPlan>> PROVE WritePlanned'
  BY <1>7, SameNeeds DEF WritePlanned, P!FoundNothing
<1> QED BY <1>1, <1>2, <1>3, <1>4, <1>5, <1>6, <1>7, <1>8 DEF P!Next, P!vars, P!UpdateAgent

PlanInv == PlanTypes /\ RegistryTypes /\ WritePlanned /\ PlanChecked

LEMMA PlanInvHolds == P!Spec => []PlanInv
<1>1. P!Init => PlanInv
  BY PlanningInit, PlanningConstants DEF PlanInv
<1>2. PlanInv /\ [P!Next]_(P!vars) => PlanInv'
  BY PlanTypesStep, RegistryStep, WriteStep, CheckedStep, PlanningConstants DEF PlanInv
<1> QED BY <1>1, <1>2, PTL DEF P!Spec

(* For any message that asks to remember, forget or change something: if the  *)
(* memory preparation of services/chat.py defers its write because a first    *)
(* classification wants several agents, the turn either ends because          *)
(* documents were searched and nothing was found, or the second               *)
(* classification, with the memory setting and the tools that then apply,     *)
(* wants several agents too, the deterministic planner has a plan for it, and *)
(* a plan that is accepted has a task for the memory agent.                   *)
THEOREM DeferredWritesArePlanned ==
  P!Spec => []DeferredWriteIsProposed
<1>1. PlanInv => DeferredWriteIsProposed
  BY PlanTypesGiveTypeOK DEF PlanInv, WritePlanned, LeftToWrite, DeferredWriteIsProposed, P!DeferredWriteIsProposed
<1> QED BY <1>1, PlanInvHolds, PTL

(* However often administrators switch agents off or take tools from them     *)
(* while the model is awaited: every agent and tool of a plan that the safety *)
(* review of agents/specialists/safety.py accepts was enabled when it was     *)
(* checked, and still is at the acceptance unless the request looks unusual,  *)
(* for then the safety model is awaited in between.                           *)
THEOREM AcceptedPlansAreEnabled ==
  P!Spec => AcceptedAsConfigured
<1>1. PlanInv /\ [P!Next]_(P!vars) => [P!AcceptsWhatIsAllowed]_(P!vars)
  <2> SUFFICES ASSUME PlanInv, P!Next, planPc # "accepted", planPc' = "accepted" PROVE P!AcceptsWhatIsAllowed
    BY DEF P!AcceptsWhatIsAllowed
  <2>1. P!Review \/ P!ModelReview
    BY DEF P!Next, P!Ask, P!ClassifyEarly, P!AnswerAtOnce, P!ClassifyAgain, P!PlanByRule, P!PlanByModel,
           P!PlannerFails, P!UpdateAgent
  <2>2. CASE P!Review
    <3>1. P!ReviewPasses /\ P!Tasks(planPlan') = P!Tasks(planPlan) /\ planChecked' = planRegistry
      BY <2>2, ReviewedPlan DEF PlanInv, P!Tasks
    <3> QED BY <3>1, AllowedIsAllowed DEF P!AcceptsWhatIsAllowed
  <2>3. CASE P!ModelReview
    <3>1. planPc = "asking" /\ P!Tasks(planPlan') = P!Tasks(planPlan) /\ planChecked' = planChecked
      BY <2>3, AskedPlan DEF PlanInv, P!Tasks
    <3> QED BY <3>1 DEF PlanInv, PlanChecked, P!AcceptsWhatIsAllowed
  <2> QED BY <2>1, <2>2, <2>3
<1> QED BY <1>1, PlanInvHolds, PTL DEF P!Spec, AcceptedAsConfigured, P!AcceptedAsConfigured

-----------------------------------------------------------------------------
(* Planning: plans by rule                                                    *)

LEMMA Extended ==
  ASSUME NEW S, NEW s \in Seq(S), NEW x \in S, NEW b \in BOOLEAN
  PROVE  LET t == s \o (IF b THEN <<x>> ELSE <<>>)
         IN  /\ t \in Seq(S) /\ Len(t) = Len(s) + (IF b THEN 1 ELSE 0)
             /\ \A i \in 1..Len(s) : t[i] = s[i]
             /\ b => t[Len(s) + 1] = x
<1>1. CASE b
  <2>1. s \o <<x>> = Append(s, x)
    OBVIOUS
  <2>2. /\ Append(s, x) \in Seq(S) /\ Len(Append(s, x)) = Len(s) + 1
        /\ \A i \in 1..Len(s) : Append(s, x)[i] = s[i]
        /\ Append(s, x)[Len(s) + 1] = x
    OBVIOUS
  <2> QED
    BY <1>1, <2>1, <2>2
<1>2. CASE ~b
  BY <1>2
<1> QED
  BY <1>1, <1>2

\* What a plan by rule is made of: reads of memory and documents, a tool, a write, the answer.
Ordered(steps) ==
  /\ steps \in Seq(StepNames) /\ Len(steps) \in 1..4
  /\ \A i \in DOMAIN steps : /\ steps[i] = "answer" <=> i = Len(steps)
                             /\ steps[i] = "write" => i = Len(steps) - 1
  /\ \A i, j \in DOMAIN steps : /\ steps[i] = "knowledge" /\ steps[j] = "tool" => i < j
                                /\ steps[i] = "tool" /\ steps[j] = "tool" => i = j

LEMMA StepsAreOrdered ==
  ASSUME NEW r \in BOOLEAN, NEW k \in BOOLEAN, NEW t \in BOOLEAN, NEW w \in BOOLEAN,
         NEW reads, NEW steps,
         reads = (IF r THEN <<"read">> ELSE <<>>) \o (IF k THEN <<"knowledge">> ELSE <<>>)
                   \o (IF t THEN <<"tool">> ELSE <<>>),
         w => Len(reads) <= 2,
         steps = reads \o (IF w THEN <<"write">> ELSE <<>>) \o <<"answer">>
  PROVE  Ordered(steps)
<1>0. {"read", "knowledge", "tool", "write", "answer"} \subseteq StepNames
  BY DEF StepNames
<1> DEFINE s1 == IF r THEN <<"read">> ELSE <<>>
           s2 == s1 \o (IF k THEN <<"knowledge">> ELSE <<>>)
           s3 == s2 \o (IF t THEN <<"tool">> ELSE <<>>)
           s4 == s3 \o (IF w THEN <<"write">> ELSE <<>>)
           s5 == s4 \o (IF TRUE THEN <<"answer">> ELSE <<>>)
<1>1. /\ s1 \in Seq(StepNames) /\ Len(s1) <= 1 /\ Len(s1) \in Nat
      /\ \A i \in 1..Len(s1) : s1[i] = "read"
  <2>1. CASE r
    <3>1. <<"read">> \in Seq(StepNames) /\ Len(<<"read">>) = 1 /\ <<"read">>[1] = "read"
      BY <1>0
    <3> QED
      BY <2>1, <3>1
  <2>2. CASE ~r
    BY <2>2
  <2> QED
    BY <2>1, <2>2
<1> HIDE DEF s1
<1>2. /\ s2 \in Seq(StepNames) /\ Len(s2) = Len(s1) + (IF k THEN 1 ELSE 0)
      /\ \A i \in 1..Len(s1) : s2[i] = s1[i]
      /\ k => s2[Len(s1) + 1] = "knowledge"
  BY <1>0, <1>1, Extended
<1> HIDE DEF s2
<1>2a. s2 \in Seq(StepNames) /\ "tool" \in StepNames
  BY <1>0, <1>2
<1>3. /\ s3 \in Seq(StepNames) /\ Len(s3) = Len(s2) + (IF t THEN 1 ELSE 0)
      /\ \A i \in 1..Len(s2) : s3[i] = s2[i]
      /\ t => s3[Len(s2) + 1] = "tool"
  BY <1>2a, Extended
<1>3a. s3 \in Seq(StepNames) /\ "write" \in StepNames
  BY <1>0, <1>3
<1>4. reads = s3
  BY DEF s1, s2
<1> HIDE DEF s3
<1>5. /\ s4 \in Seq(StepNames) /\ Len(s4) = Len(s3) + (IF w THEN 1 ELSE 0)
      /\ \A i \in 1..Len(s3) : s4[i] = s3[i]
      /\ w => s4[Len(s3) + 1] = "write"
  BY <1>3a, Extended
<1>6. s4 = reads \o (IF w THEN <<"write">> ELSE <<>>)
  BY <1>4
<1> HIDE DEF s4
<1>7. /\ s5 \in Seq(StepNames) /\ Len(s5) = Len(s4) + 1
      /\ \A i \in 1..Len(s4) : s5[i] = s4[i]
      /\ s5[Len(s4) + 1] = "answer"
  BY <1>0, <1>5, Extended
<1>8. steps = s5
  BY <1>6
<1> HIDE DEF s5
<1> DEFINE n1 == Len(s1)
           n2 == Len(s2)
           n3 == Len(s3)
           n4 == Len(s4)
           n5 == Len(s5)
<1>9. /\ n1 \in Nat /\ n2 \in Nat /\ n3 \in Nat /\ n4 \in Nat /\ n5 \in Nat /\ n1 <= 1
      /\ n2 = n1 + (IF k THEN 1 ELSE 0) /\ n3 = n2 + (IF t THEN 1 ELSE 0)
      /\ n4 = n3 + (IF w THEN 1 ELSE 0) /\ n5 = n4 + 1 /\ (w => n3 <= 2)
  <2>a. s2 \in Seq(StepNames) /\ s3 \in Seq(StepNames) /\ s4 \in Seq(StepNames) /\ s5 \in Seq(StepNames)
    BY <1>2, <1>3, <1>5, <1>7
  <2>1. n2 \in Nat /\ n3 \in Nat /\ n4 \in Nat /\ n5 \in Nat
    BY <2>a
  <2> QED
    BY <1>1, <1>2, <1>3, <1>4, <1>5, <1>7, <2>1
<1>10. /\ \A i \in 1..n1 : s5[i] = "read"
       /\ \A i \in 1..n2 : i > n1 => s5[i] = "knowledge"
       /\ \A i \in 1..n3 : i > n2 => s5[i] = "tool"
       /\ \A i \in 1..n4 : i > n3 => s5[i] = "write"
  <2>0. /\ \A i \in 1..n1 : s1[i] = "read" /\ s2[i] = s1[i]
        /\ \A i \in 1..n2 : s3[i] = s2[i]
        /\ \A i \in 1..n3 : s4[i] = s3[i]
        /\ \A i \in 1..n4 : s5[i] = s4[i]
        /\ k => s2[n1 + 1] = "knowledge"
        /\ t => s3[n2 + 1] = "tool"
        /\ w => s4[n3 + 1] = "write"
    BY <1>1, <1>2, <1>3, <1>5, <1>7
  <2> HIDE DEF n1, n2, n3, n4, n5
  <2>a. n1 <= n2 /\ n2 <= n3 /\ n3 <= n4 /\ n2 <= n1 + 1 /\ n3 <= n2 + 1 /\ n4 <= n3 + 1
    BY <1>9
  <2>1. ASSUME NEW i \in 1..n1 PROVE s5[i] = "read"
    <3>1. i \in 1..n2 /\ i \in 1..n3 /\ i \in 1..n4
      BY <1>9, <2>a
    <3> QED
      BY <2>0, <3>1
  <2>2. ASSUME NEW i \in 1..n2, i > n1 PROVE s5[i] = "knowledge"
    <3>1. i \in 1..n3 /\ i \in 1..n4 /\ i = n1 + 1 /\ k
      BY <1>9, <2>2, <2>a
    <3> QED
      BY <2>0, <3>1
  <2>3. ASSUME NEW i \in 1..n3, i > n2 PROVE s5[i] = "tool"
    <3>1. i \in 1..n4 /\ i = n2 + 1 /\ t
      BY <1>9, <2>3, <2>a
    <3> QED
      BY <2>0, <3>1
  <2>4. ASSUME NEW i \in 1..n4, i > n3 PROVE s5[i] = "write"
    <3>1. i = n3 + 1 /\ w
      BY <1>9, <2>4, <2>a
    <3> QED
      BY <2>0, <3>1
  <2> QED
    BY <2>1, <2>2, <2>3, <2>4
<1>11. s5 \in Seq(StepNames) /\ n5 = Len(s5) /\ DOMAIN s5 = 1..n5 /\ s5[n5] = "answer"
  BY <1>7
<1> HIDE DEF n1, n2, n3, n4, n5
<1>12. n5 \in 1..4 /\ n1 <= n2 /\ n2 <= n3 /\ n3 <= n4 /\ n4 <= n3 + 1
  BY <1>9
<1>13. ASSUME NEW i \in 1..n5
       PROVE  /\ s5[i] = "answer" <=> i = n5
              /\ s5[i] = "write" => i = n5 - 1
              /\ s5[i] = "knowledge" => i <= n2
              /\ s5[i] = "tool" => i > n2 /\ i <= n3
  <2>1. i \in Nat /\ i >= 1 /\ i <= n5
    BY <1>9
  <2>2. i <= n1 \/ (i > n1 /\ i <= n2) \/ (i > n2 /\ i <= n3) \/ (i > n3 /\ i <= n4) \/ i = n5
    BY <1>9, <1>12, <2>1
  <2>3. CASE i <= n1
    BY <1>9, <1>10, <1>12, <2>1, <2>3
  <2>4. CASE i > n1 /\ i <= n2
    BY <1>9, <1>10, <1>12, <2>1, <2>4
  <2>5. CASE i > n2 /\ i <= n3
    BY <1>9, <1>10, <1>12, <2>1, <2>5
  <2>6. CASE i > n3 /\ i <= n4
    BY <1>9, <1>10, <1>12, <2>1, <2>6
  <2>7. CASE i = n5
    BY <1>9, <1>11, <1>12, <2>1, <2>7
  <2> QED
    BY <2>2, <2>3, <2>4, <2>5, <2>6, <2>7
<1>14. \A i, j \in 1..n5 : /\ s5[i] = "knowledge" /\ s5[j] = "tool" => i < j
                           /\ s5[i] = "tool" /\ s5[j] = "tool" => i = j
  <2> TAKE i, j \in 1..n5
  <2>1. /\ s5[i] = "knowledge" => i <= n2
        /\ s5[i] = "tool" => i > n2 /\ i <= n3
        /\ s5[j] = "tool" => j > n2 /\ j <= n3
    BY <1>13
  <2> QED
    BY <1>9, <2>1
<1> QED
  BY <1>8, <1>11, <1>12, <1>13, <1>14 DEF Ordered

\* The chain that is too long is the only one with documents, a tool and a write.
LEMMA LongChain ==
  ASSUME NEW steps, Ordered(steps), NEW i \in DOMAIN steps, NEW j \in DOMAIN steps,
         NEW l \in DOMAIN steps, steps[i] = "knowledge", steps[j] = "tool", steps[l] = "write"
  PROVE  /\ Len(steps) = 4 /\ steps[1] = "knowledge" /\ steps[2] = "tool" /\ steps[3] = "write"
         /\ steps[4] = "answer"
<1>1. DOMAIN steps = 1..Len(steps) /\ Len(steps) \in 1..4
  BY DEF Ordered
<1>2. i < j /\ l = Len(steps) - 1 /\ i # l /\ j # l /\ i # Len(steps) /\ j # Len(steps)
  BY DEF Ordered
<1>3. Len(steps) = 4 /\ i = 1 /\ j = 2 /\ l = 3
  <2> DEFINE n == Len(steps)
  <2>1. n \in Nat /\ i \in Nat /\ j \in Nat /\ l \in Nat /\ i >= 1 /\ n <= 4 /\ j <= n
    BY <1>1
  <2>2. i < j /\ l = n - 1 /\ j # l /\ j # n
    BY <1>2
  <2> HIDE DEF n
  <2>3. n = 4 /\ i = 1 /\ j = 2 /\ l = 3
    BY <2>1, <2>2
  <2> QED
    BY <2>3 DEF n
<1> QED
  BY <1>1, <1>3 DEF Ordered

-----------------------------------------------------------------------------
(* Planning: depths                                                           *)

\* What depends on earlier tasks only, and on the first few, has depths.
LEMMA SameImage ==
  ASSUME NEW S, NEW f, NEW g, \A d \in S : f[d] = g[d]
  PROVE  {f[d] : d \in S} = {g[d] : d \in S}
OBVIOUS

LEMMA DepthsExist ==
  ASSUME NEW D, \A s \in 1..64 : D[s] \subseteq 1..(s - 1), \A s \in 5..64 : D[s] = {}
  PROVE  \E f : f = [s \in 1..64 |-> IF D[s] = {} THEN 0 ELSE 1 + P!Max({f[d] : d \in D[s]})]
<1> DEFINE f1 == [s \in 1..1 |-> 0]
           e2 == IF D[2] = {} THEN 0 ELSE 1 + P!Max({f1[d] : d \in D[2]})
           f2 == [s \in 1..2 |-> IF s = 1 THEN 0 ELSE e2]
           e3 == IF D[3] = {} THEN 0 ELSE 1 + P!Max({f2[d] : d \in D[3]})
           f3 == [s \in 1..3 |-> IF s = 1 THEN 0 ELSE IF s = 2 THEN e2 ELSE e3]
           e4 == IF D[4] = {} THEN 0 ELSE 1 + P!Max({f3[d] : d \in D[4]})
           f == [s \in 1..64 |-> IF s = 2 THEN e2 ELSE IF s = 3 THEN e3 ELSE IF s = 4 THEN e4 ELSE 0]
<1> HIDE DEF e2, e3, e4
<1>1. f[1] = 0 /\ f[2] = e2 /\ f[3] = e3 /\ f[4] = e4 /\ \A s \in 5..64 : f[s] = 0
  OBVIOUS
<1> HIDE DEF f
<1>2. D[1] = {} /\ D[2] \subseteq 1..1 /\ D[3] \subseteq 1..2 /\ D[4] \subseteq 1..3
  OBVIOUS
<1>3. {f[d] : d \in D[2]} = {f1[d] : d \in D[2]}
  <2>1. \A d \in D[2] : f[d] = f1[d]
    BY <1>1, <1>2
  <2> HIDE DEF f1, f2, f3
  <2> QED
    BY <2>1, SameImage
<1>4. {f[d] : d \in D[3]} = {f2[d] : d \in D[3]}
  <2>1. \A d \in D[3] : f[d] = f2[d]
    BY <1>1, <1>2
  <2> HIDE DEF f1, f2, f3
  <2> QED
    BY <2>1, SameImage
<1>5. {f[d] : d \in D[4]} = {f3[d] : d \in D[4]}
  <2>1. \A d \in D[4] : f[d] = f3[d]
    BY <1>1, <1>2
  <2> HIDE DEF f1, f2, f3
  <2> QED
    BY <2>1, SameImage
<1> DEFINE E(s) == IF D[s] = {} THEN 0 ELSE 1 + P!Max({f[d] : d \in D[s]})
<1>6. f[1] = E(1)
  BY <1>1, <1>2
<1>7. f[2] = E(2)
  BY <1>1, <1>3, Zenon DEF e2
<1>8. f[3] = E(3)
  BY <1>1, <1>4, Zenon DEF e3
<1>9. f[4] = E(4)
  BY <1>1, <1>5, Zenon DEF e4
<1>10. \A s \in 5..64 : f[s] = E(s)
  BY <1>1
<1>11. \A s \in 1..64 : f[s] = E(s)
  <2> HIDE DEF E
  <2>1. \A s \in 1..64 : s \in {1, 2, 3, 4} \/ s \in 5..64
    OBVIOUS
  <2> QED
    BY <1>6, <1>7, <1>8, <1>9, <1>10, <2>1
<1>12. f = [s \in 1..64 |-> f[s]]
  BY DEF f
<1>13. f = [s \in 1..64 |-> E(s)]
  <2> HIDE DEF E
  <2> QED
    BY <1>11, <1>12
<1> DEFINE F(g) == [s \in 1..64 |-> IF D[s] = {} THEN 0 ELSE 1 + P!Max({g[d] : d \in D[s]})]
<1>14. f = F(f)
  BY <1>13
<1>15. \E g : g = F(g)
  <2> HIDE DEF F
  <2> QED
    BY <1>14, Zenon
<1> QED
  BY <1>15

\* What the task with a number depends on.
Above(p, s) == UNION {t.deps : t \in {u \in P!Tasks(p) : u.seq = s}}

LEMMA DepthsAre ==
  ASSUME NEW p, \A s \in 1..64 : Above(p, s) \subseteq 1..(s - 1), \A s \in 5..64 : Above(p, s) = {}
  PROVE  LET f == P!DepthBySequence(p)
         IN  \A s \in 1..64 : f[s] = IF Above(p, s) = {} THEN 0
                                     ELSE 1 + P!Max({f[d] : d \in Above(p, s)})
<1> DEFINE D == [s \in 1..64 |-> Above(p, s)]
<1>1. \E f : f = [s \in 1..64 |-> IF D[s] = {} THEN 0 ELSE 1 + P!Max({f[d] : d \in D[s]})]
  <2>1. (\A s \in 1..64 : D[s] \subseteq 1..(s - 1)) /\ \A s \in 5..64 : D[s] = {}
    OBVIOUS
  <2> HIDE DEF D
  <2> QED
    BY <2>1, DepthsExist
<1>2. PICK f : f = [s \in 1..64 |-> IF Above(p, s) = {} THEN 0
                                    ELSE 1 + P!Max({f[d] : d \in Above(p, s)})]
  <2>1. PICK f : f = [s \in 1..64 |-> IF D[s] = {} THEN 0 ELSE 1 + P!Max({f[d] : d \in D[s]})]
    BY <1>1
  <2>2. \A s \in 1..64 : D[s] = Above(p, s)
    OBVIOUS
  <2> HIDE DEF D
  <2>3. f = [s \in 1..64 |-> IF Above(p, s) = {} THEN 0 ELSE 1 + P!Max({f[d] : d \in Above(p, s)})]
    BY <2>1, <2>2
  <2> DEFINE F(g) == [s \in 1..64 |-> IF Above(p, s) = {} THEN 0
                                      ELSE 1 + P!Max({g[d] : d \in Above(p, s)})]
  <2>4. f = F(f)
    BY <2>3
  <2>5. \E g : g = F(g)
    <3> HIDE DEF F
    <3> QED
      BY <2>4, Zenon
  <2> QED
    BY <2>5
<1>3. P!DepthBySequence(p) = CHOOSE g : g = [s \in 1..64 |-> IF Above(p, s) = {} THEN 0
                                               ELSE 1 + P!Max({g[d] : d \in Above(p, s)})]
  BY Zenon DEF P!DepthBySequence, Above
<1> DEFINE F(g) == [s \in 1..64 |-> IF Above(p, s) = {} THEN 0
                                    ELSE 1 + P!Max({g[d] : d \in Above(p, s)})]
<1>4. LET g == P!DepthBySequence(p) IN g = F(g)
  <2>1. f = F(f)
    BY <1>2
  <2>2. P!DepthBySequence(p) = CHOOSE g : g = F(g)
    BY <1>3, Zenon
  <2> HIDE DEF F
  <2> QED
    BY <2>1, <2>2, Zenon
<1> QED
  BY <1>4

LEMMA MaxSmall ==
  ASSUME NEW n \in {0, 1}, NEW S, S # {}, S \subseteq 0..n
  PROVE  P!Max(S) \in 0..n
<1>1. \E x \in S : \A y \in S : x >= y
  <2>1. CASE 1 \in S
    BY <2>1
  <2>2. CASE 1 \notin S
    <3>1. \A y \in S : y = 0
      <4>1. \A y \in 0..n : y = 0 \/ y = 1
        OBVIOUS
      <4> QED
        BY <2>2, <4>1
    <3>2. 0 \in S
      BY <3>1
    <3> QED
      BY <3>1, <3>2
  <2> QED
    BY <2>1, <2>2
<1>2. P!Max(S) \in S
  BY <1>1 DEF P!Max
<1> QED
  BY <1>2

-----------------------------------------------------------------------------
(* Planning: the plan by rule is valid, or the long chain                     *)

Made(steps) == [i \in DOMAIN steps |-> P!PlannedTask(steps[i], i, steps)]

LEMMA PlanByRuleShape ==
  \E steps : /\ Ordered(steps)
             /\ P!Signals # {} => /\ P!DeterministicPlan # P!NoPlan
                                  /\ P!DeterministicPlan.tasks = Made(steps)
<1> DEFINE wanted == {s \in P!Signals : s # "tool" \/ P!PlannedTools # {}}
           only(s) == IF s \in wanted THEN <<s>> ELSE <<>>
           reads == only("read") \o only("knowledge") \o only("tool")
           writes == "write" \in P!Signals /\ P!Writes(reads)
           steps == reads \o (IF writes THEN <<"write">> ELSE <<>>) \o <<"answer">>
           made == [tasks |-> [i \in DOMAIN steps |-> P!PlannedTask(steps[i], i, steps)],
                    approval |-> writes, strategy |-> "deterministic"]
<1>1. Ordered(steps)
  <2> DEFINE r == "read" \in wanted
             k == "knowledge" \in wanted
             t == "tool" \in wanted
  <2>1. r \in BOOLEAN /\ k \in BOOLEAN /\ t \in BOOLEAN /\ writes \in BOOLEAN
    <3> HIDE DEF wanted, reads
    <3> QED
      OBVIOUS
  <2>1a. reads = (IF r THEN <<"read">> ELSE <<>>) \o (IF k THEN <<"knowledge">> ELSE <<>>)
                   \o (IF t THEN <<"tool">> ELSE <<>>)
    <3> HIDE DEF wanted
    <3> QED
      OBVIOUS
  <2>2. writes => Len(reads) <= 2
    <3> HIDE DEF reads
    <3> QED
      BY DEF P!Writes
  <2> DEFINE all == steps
  <2>3. all = reads \o (IF writes THEN <<"write">> ELSE <<>>) \o <<"answer">>
    OBVIOUS
  <2> HIDE DEF all, r, k, t, writes, reads
  <2>4. Ordered(all)
    BY <2>1, <2>1a, <2>2, <2>3, StepsAreOrdered
  <2> QED
    BY <2>4 DEF all
<1>2. P!Signals # {} => P!DeterministicPlan = made
  <2>1. ~(Len(steps) > 4)
    <3> HIDE DEF steps
    <3> QED
      BY <1>1 DEF Ordered
  <2> QED
    BY <2>1, Zenon DEF P!DeterministicPlan
<1>3. made.tasks = Made(steps) /\ made # P!NoPlan
  <2> HIDE DEF steps, writes
  <2>1. made.tasks = Made(steps) /\ made.strategy = "deterministic"
    BY DEF Made
  <2> QED
    BY <2>1 DEF P!NoPlan
<1> HIDE DEF steps, made
<1> QED
  BY <1>1, <1>2, <1>3

\* The plans for older reason codes begin with documents, a signal of the other planner.
LEMMA NoTemplateWithoutRule ==
  ASSUME P!DeterministicPlan = P!NoPlan
  PROVE  P!TemplatePlan = P!NoPlan
<1>1. P!Signals = {}
  BY PlanByRuleShape
<1>2. ~P!KnowledgeSignal
  BY <1>1 DEF P!Signals
<1>3. ~("knowledge" \in planDecision.suggests \/ planTurn.docs = "some")
  BY <1>2 DEF P!KnowledgeSignal, P!Hinted
<1>4. P!TemplateSteps = <<>>
  BY <1>3, Zenon DEF P!TemplateSteps
<1> QED
  BY <1>4, Zenon DEF P!TemplatePlan

LEMMA TaskOf ==
  ASSUME NEW step \in StepNames, NEW i, NEW steps
  PROVE  LET t == P!PlannedTask(step, i, steps)
         IN  /\ t.seq = i /\ t.deps = P!Dependencies(step, i, steps)
             /\ t.tools = IF step = "tool" THEN P!PlannedTools ELSE {}
             /\ t.agent = CASE step = "knowledge" -> "knowledge"
                           [] step = "tool" -> "tool"
                           [] step = "answer" -> "conversation"
                           [] OTHER -> "memory"
<1> DEFINE deps == P!Dependencies(step, i, steps)
<1>1. P!PlannedTask(step, i, steps) =
        CASE step = "read"      -> P!Task(i, "memory", "retrieve_memories", deps, {}, FALSE)
          [] step = "knowledge" -> P!Task(i, "knowledge", "retrieve", deps, {}, FALSE)
          [] step = "tool"      -> P!Task(i, "tool", "compute", deps, P!PlannedTools, FALSE)
          [] step = "write"     -> P!Task(i, "memory", "propose_write", deps, {}, TRUE)
          [] step = "answer"    -> P!Task(i, "conversation", "synthesize", deps, {}, FALSE)
  BY DEF P!PlannedTask
<1> HIDE DEF deps
<1>2. /\ step = "read" => P!PlannedTask(step, i, steps) = P!Task(i, "memory", "retrieve_memories", deps, {}, FALSE)
      /\ step = "knowledge" => P!PlannedTask(step, i, steps) = P!Task(i, "knowledge", "retrieve", deps, {}, FALSE)
      /\ step = "tool" => P!PlannedTask(step, i, steps) = P!Task(i, "tool", "compute", deps, P!PlannedTools, FALSE)
      /\ step = "write" => P!PlannedTask(step, i, steps) = P!Task(i, "memory", "propose_write", deps, {}, TRUE)
      /\ step = "answer" => P!PlannedTask(step, i, steps) = P!Task(i, "conversation", "synthesize", deps, {}, FALSE)
  BY <1>1
<1>3. step \in {"read", "knowledge", "tool", "write", "answer"}
  BY DEF StepNames
<1> QED
  BY <1>2, <1>3 DEF P!Task, deps

\* What a step of a plan by rule depends on comes before it.
LEMMA DependsOnEarlier ==
  ASSUME NEW steps, Ordered(steps), NEW i \in DOMAIN steps
  PROVE  /\ i \in 1..4 /\ P!Dependencies(steps[i], i, steps) \subseteq 1..(i - 1)
         /\ 1..(i - 1) \subseteq DOMAIN steps
         /\ steps[i] \in {"read", "knowledge"} => P!Dependencies(steps[i], i, steps) = {}
         /\ steps[i] = "tool" => P!Dependencies(steps[i], i, steps) = {j \in DOMAIN steps : steps[j] = "knowledge"}
<1>1. DOMAIN steps = 1..Len(steps) /\ Len(steps) \in 1..4
  BY DEF Ordered
<1>2. i \in 1..4 /\ 1..(i - 1) \subseteq DOMAIN steps
  BY <1>1
<1>3. steps[i] \in {"write", "answer"} => P!Dependencies(steps[i], i, steps) = 1..(i - 1)
  BY Zenon DEF P!Dependencies
<1>4. steps[i] = "tool" => P!Dependencies(steps[i], i, steps) = {j \in DOMAIN steps : steps[j] = "knowledge"}
  BY DEF P!Dependencies
<1>5. steps[i] \in {"read", "knowledge"} => P!Dependencies(steps[i], i, steps) = {}
  BY DEF P!Dependencies
<1>6. steps[i] = "tool" => \A j \in DOMAIN steps : steps[j] = "knowledge" => j \in 1..(i - 1)
  <2>1. \A j \in DOMAIN steps : steps[i] = "tool" /\ steps[j] = "knowledge" => j < i
    BY DEF Ordered
  <2> QED
    BY <1>1, <1>2, <2>1
<1>7. steps[i] \in {"write", "answer", "tool", "read", "knowledge"}
  BY DEF Ordered, StepNames
<1> QED
  BY <1>2, <1>3, <1>4, <1>5, <1>6, <1>7

\* The tasks of a plan made of steps, and what each depends on.
LEMMA MadeOf ==
  ASSUME NEW steps, Ordered(steps), NEW p, p.tasks = Made(steps)
  PROVE  /\ DOMAIN p.tasks = DOMAIN steps /\ Len(p.tasks) = Len(steps) /\ p.tasks # <<>>
         /\ \A i \in DOMAIN steps : p.tasks[i] = P!PlannedTask(steps[i], i, steps)
         /\ \A t \in P!Tasks(p) : \E i \in DOMAIN steps : t = P!PlannedTask(steps[i], i, steps)
         /\ {t.seq : t \in P!Tasks(p)} = DOMAIN steps
         /\ \A s : Above(p, s) = IF s \in DOMAIN steps THEN P!Dependencies(steps[s], s, steps) ELSE {}
<1> DEFINE task(i) == P!PlannedTask(steps[i], i, steps)
           n == Len(steps)
<1>1. DOMAIN steps = 1..n /\ n \in 1..4 /\ \A i \in DOMAIN steps : steps[i] \in StepNames
  BY DEF Ordered
<1>2. \A i \in DOMAIN steps : task(i).seq = i /\ task(i).deps = P!Dependencies(steps[i], i, steps)
  BY <1>1, TaskOf
<1> HIDE DEF task, n
<1>3. p.tasks = [i \in 1..n |-> task(i)]
  BY <1>1 DEF Made, task
<1> DEFINE seq == p.tasks
<1>4. seq = [i \in 1..n |-> task(i)]
  BY <1>3
<1> HIDE DEF seq
<1>5. DOMAIN seq = 1..n /\ Len(seq) = n /\ seq # <<>> /\ \A i \in 1..n : seq[i] = task(i)
  BY <1>1, <1>4
<1>6. P!Tasks(p) = {task(i) : i \in DOMAIN steps}
  <2>1. P!Tasks(p) = {seq[i] : i \in DOMAIN seq}
    BY DEF P!Tasks, P!Range, seq
  <2> QED
    BY <1>1, <1>5, <2>1
<1>7. {t.seq : t \in P!Tasks(p)} = DOMAIN steps
  <2>1. ASSUME NEW i \in DOMAIN steps PROVE i \in {t.seq : t \in P!Tasks(p)}
    BY <1>2, <1>6
  <2>2. ASSUME NEW t \in P!Tasks(p) PROVE t.seq \in DOMAIN steps
    BY <1>2, <1>6
  <2> QED
    BY <2>1, <2>2
<1>8. ASSUME NEW s
      PROVE  Above(p, s) = IF s \in DOMAIN steps THEN P!Dependencies(steps[s], s, steps) ELSE {}
  <2>1. CASE s \in DOMAIN steps
    <3>1. {u \in P!Tasks(p) : u.seq = s} = {task(s)}
      BY <1>2, <1>6, <2>1
    <3>2. UNION {t.deps : t \in {task(s)}} = task(s).deps
      OBVIOUS
    <3> QED
      BY <1>2, <2>1, <3>1, <3>2 DEF Above
  <2>2. CASE s \notin DOMAIN steps
    <3>1. {u \in P!Tasks(p) : u.seq = s} = {}
      BY <1>2, <1>6, <2>2
    <3>2. UNION {t.deps : t \in {}} = {}
      OBVIOUS
    <3> QED
      BY <2>2, <3>1, <3>2 DEF Above
  <2> QED
    BY <2>1, <2>2
<1> QED
  BY <1>1, <1>5, <1>6, <1>7, <1>8 DEF task, n, seq

Long(steps) == /\ Len(steps) = 4 /\ steps[1] = "knowledge" /\ steps[2] = "tool" /\ steps[3] = "write"
               /\ steps[4] = "answer"

\* Every task but those of the long chain is at most two below the first.
LEMMA ShallowOrLong ==
  ASSUME NEW steps, Ordered(steps), ~Long(steps), NEW p, p.tasks = Made(steps),
         NEW i \in DOMAIN steps
  PROVE  P!DepthBySequence(p)[i] \in 0..2
<1> DEFINE f == P!DepthBySequence(p)
           D(s) == P!Dependencies(steps[s], s, steps)
<1>1. \A s \in DOMAIN steps : s \in 1..4 /\ Above(p, s) = D(s) /\ D(s) \subseteq 1..(s - 1) /\ 1..(s - 1) \subseteq DOMAIN steps
  BY MadeOf, DependsOnEarlier
<1>2. \A s \in 1..64 : s \notin DOMAIN steps => Above(p, s) = {}
  BY MadeOf
<1>3. \A s \in 1..64 : f[s] = IF Above(p, s) = {} THEN 0 ELSE 1 + P!Max({f[d] : d \in Above(p, s)})
  <2>1. \A s \in 1..64 : Above(p, s) \subseteq 1..(s - 1)
    BY <1>1, <1>2
  <2>2. \A s \in 5..64 : Above(p, s) = {}
    <3>1. ASSUME NEW s \in 5..64 PROVE s \in 1..64 /\ s \notin 1..4
      OBVIOUS
    <3> QED
      BY <1>1, <1>2, <3>1
  <2> QED
    BY <2>1, <2>2, DepthsAre
<1> HIDE DEF f, D
<1>4. \A s \in DOMAIN steps : f[s] = IF D(s) = {} THEN 0 ELSE 1 + P!Max({f[d] : d \in D(s)})
  <2>1. \A s \in DOMAIN steps : s \in 1..64
    BY <1>1
  <2> QED
    BY <1>1, <1>3, <2>1
<1>5. ASSUME NEW n \in {0, 1}, NEW s \in DOMAIN steps, \A d \in D(s) : f[d] \in 0..n
      PROVE  f[s] \in 0..(n + 1)
  <2>1. CASE D(s) = {}
    <3>1. f[s] = 0
      BY <1>4, <2>1
    <3>2. 0 \in 0..(n + 1)
      OBVIOUS
    <3> QED
      BY <3>1, <3>2
  <2>2. CASE D(s) # {}
    <3> DEFINE S == {f[d] : d \in D(s)}
    <3>1. S # {} /\ S \subseteq 0..n
      BY <1>5, <2>2
    <3>2. f[s] = 1 + P!Max(S)
      BY <1>4, <2>2
    <3> HIDE DEF S
    <3>3. P!Max(S) \in 0..n
      BY <3>1, MaxSmall
    <3> QED
      BY <3>2, <3>3
  <2> QED
    BY <2>1, <2>2
<1>6. \A s \in DOMAIN steps : steps[s] \in {"read", "knowledge"} => f[s] = 0
  <2>1. \A s \in DOMAIN steps : steps[s] \in {"read", "knowledge"} => D(s) = {}
    BY DependsOnEarlier DEF D
  <2> QED
    BY <1>4, <2>1
<1>7. \A s \in DOMAIN steps : steps[s] = "tool" => f[s] \in 0..1
  <2> SUFFICES ASSUME NEW s \in DOMAIN steps, steps[s] = "tool" PROVE f[s] \in 0..1
    OBVIOUS
  <2>1. D(s) = {j \in DOMAIN steps : steps[j] = "knowledge"}
    BY DependsOnEarlier DEF D
  <2>2. \A d \in D(s) : f[d] \in 0..0
    BY <1>6, <2>1
  <2>3. f[s] \in 0..(0 + 1)
    BY <1>5, <2>2
  <2> QED
    BY <2>3
<1>8. (\A j \in DOMAIN steps : steps[j] # "knowledge") => \A s \in DOMAIN steps : steps[s] = "tool" => f[s] = 0
  <2> SUFFICES ASSUME \A j \in DOMAIN steps : steps[j] # "knowledge",
                      NEW s \in DOMAIN steps, steps[s] = "tool"
               PROVE  f[s] = 0
    OBVIOUS
  <2>1. D(s) = {}
    BY DependsOnEarlier DEF D
  <2> QED
    BY <1>4, <2>1
<1>9. \A s \in DOMAIN steps : steps[s] \in {"read", "knowledge", "tool", "write", "answer"}
  BY DEF Ordered, StepNames
<1>10. \A s \in DOMAIN steps : steps[s] = "write" => f[s] \in 0..1
  <2> SUFFICES ASSUME NEW s \in DOMAIN steps, steps[s] = "write" PROVE f[s] \in 0..1
    OBVIOUS
  <2>1. \A d \in D(s) : d \in DOMAIN steps /\ d \in 1..(s - 1)
    BY <1>1
  <2>2. \A d \in D(s) : steps[d] \notin {"write", "answer"}
    <3>1. \A d \in DOMAIN steps : /\ steps[d] = "answer" => d = Len(steps)
                                  /\ steps[d] = "write" => d = Len(steps) - 1
      BY DEF Ordered
    <3>2. DOMAIN steps = 1..Len(steps) /\ Len(steps) \in Nat
      BY DEF Ordered
    <3> SUFFICES ASSUME NEW d \in D(s) PROVE d # Len(steps) /\ d # Len(steps) - 1
      BY <2>1, <3>1
    <3> DEFINE n == Len(steps)
    <3>3. n \in Nat /\ s = n - 1 /\ d \in 1..(s - 1)
      BY <2>1, <3>1, <3>2
    <3> HIDE DEF n
    <3>4. d # n /\ d # n - 1
      BY <3>3
    <3> QED
      BY <3>4 DEF n
  <2>3. \/ \A j \in DOMAIN steps : steps[j] # "knowledge"
        \/ \A j \in DOMAIN steps : steps[j] # "tool"
    BY LongChain DEF Long
  <2>4. \A d \in D(s) : f[d] = 0
    BY <1>6, <1>8, <1>9, <2>1, <2>2, <2>3
  <2>5. \A d \in D(s) : f[d] \in 0..0
    BY <2>4
  <2>6. f[s] \in 0..(0 + 1)
    BY <1>5, <2>5
  <2> QED
    BY <2>6
<1>11. \A s \in DOMAIN steps : steps[s] # "answer" => f[s] \in 0..1
  BY <1>6, <1>7, <1>9, <1>10
<1>12. \A s \in DOMAIN steps : steps[s] = "answer" => f[s] \in 0..2
  <2> SUFFICES ASSUME NEW s \in DOMAIN steps, steps[s] = "answer" PROVE f[s] \in 0..2
    OBVIOUS
  <2>1. s = Len(steps) /\ \A d \in DOMAIN steps : steps[d] = "answer" => d = Len(steps)
    BY DEF Ordered
  <2>2. \A d \in D(s) : d \in DOMAIN steps /\ d # s
    BY <1>1
  <2>3. \A d \in D(s) : f[d] \in 0..1
    BY <1>11, <2>1, <2>2
  <2>4. f[s] \in 0..(1 + 1)
    BY <1>5, <2>3
  <2> QED
    BY <2>4
<1>13. f[i] \in 0..2
  <2>1. 0..1 \subseteq 0..2
    OBVIOUS
  <2> QED
    BY <1>11, <1>12, <2>1
<1> QED
  BY <1>13 DEF f

\* Nobody has switched an agent off or taken a tool from it.
Untouched == planRegistry.off = {} /\ planRegistry.tools = P!ClassTools

LEMMA ToolsOfStep ==
  ASSUME Untouched, NEW steps, Ordered(steps), NEW i \in DOMAIN steps
  PROVE  LET t == P!PlannedTask(steps[i], i, steps)
         IN  /\ t.agent \in P!EnabledAgents
             /\ t.tools \subseteq P!EffectiveTools(t.agent) \cap planTools
             /\ t.tools # {} => steps[i] = "tool" /\ t.tools \subseteq {"calculator", "current_datetime"}
<1> DEFINE t == P!PlannedTask(steps[i], i, steps)
<1>1. steps[i] \in StepNames
  BY DEF Ordered
<1>2. /\ t.tools = IF steps[i] = "tool" THEN P!PlannedTools ELSE {}
      /\ t.agent = CASE steps[i] = "knowledge" -> "knowledge"
                    [] steps[i] = "tool" -> "tool"
                    [] steps[i] = "answer" -> "conversation"
                    [] OTHER -> "memory"
  BY <1>1, TaskOf
<1> HIDE DEF t
<1>3. t.agent \in {"knowledge", "tool", "conversation", "memory"} /\ (steps[i] = "tool" => t.agent = "tool")
  BY <1>2
<1>4. t.agent \in P!EnabledAgents
  BY <1>3 DEF P!EnabledAgents, P!Agents, Untouched
<1>5. P!PlannedTools \subseteq {"calculator", "current_datetime"} \cap planTools
  BY DEF P!PlannedTools
<1>6. {"calculator", "current_datetime"} \subseteq P!EffectiveTools("tool")
  BY DEF P!EffectiveTools, P!ClassTools, P!Agents, Untouched
<1>7. t.tools \subseteq P!EffectiveTools(t.agent) \cap planTools
  BY <1>2, <1>3, <1>5, <1>6
<1>8. t.tools # {} => steps[i] = "tool" /\ t.tools \subseteq {"calculator", "current_datetime"}
  BY <1>2, <1>5
<1> QED
  BY <1>4, <1>7, <1>8 DEF t

LEMMA FewCalls ==
  ASSUME NEW j, NEW S, S \subseteq {j} \X {"calculator", "current_datetime"}
  PROVE  P!Cardinality(S) \in Nat /\ P!Cardinality(S) <= 2
<1> DEFINE two == {<<j, "calculator">>, <<j, "current_datetime">>}
<1>1. IsFiniteSet(two) /\ Cardinality(two) <= 2
  <2>1. IsFiniteSet({<<j, "calculator">>}) /\ Cardinality({<<j, "calculator">>}) = 1
    BY FS_Singleton
  <2>2. two = {<<j, "calculator">>} \cup {<<j, "current_datetime">>}
    OBVIOUS
  <2>3. /\ IsFiniteSet({<<j, "calculator">>} \cup {<<j, "current_datetime">>})
        /\ \/ Cardinality({<<j, "calculator">>} \cup {<<j, "current_datetime">>}) = 1
           \/ Cardinality({<<j, "calculator">>} \cup {<<j, "current_datetime">>}) = 1 + 1
    BY <2>1, FS_AddElement
  <2> QED
    BY <2>2, <2>3
<1>2. S \subseteq two
  OBVIOUS
<1> HIDE DEF two
<1>3. IsFiniteSet(S) /\ Cardinality(S) <= Cardinality(two)
  BY <1>1, <1>2, FS_Subset
<1>4. Cardinality(S) \in Nat /\ Cardinality(two) \in Nat
  BY <1>1, <1>3, FS_CardinalityType
<1> QED
  BY <1>1, <1>3, <1>4, SameCardinality

LEMMA RuleIsValidOrLong ==
  ASSUME MaxTasks \in Nat, MaxTasks >= 4, MaxDepth \in Nat, MaxDepth >= 2,
         MaxPlannedCalls \in Nat, MaxPlannedCalls >= 2,
         Untouched, NEW steps, Ordered(steps), NEW p, p.tasks = Made(steps), ~Long(steps)
  PROVE  P!ValidatePlan(p)
<1>1. /\ DOMAIN p.tasks = DOMAIN steps /\ Len(p.tasks) = Len(steps) /\ p.tasks # <<>>
      /\ \A t \in P!Tasks(p) : \E i \in DOMAIN steps : t = P!PlannedTask(steps[i], i, steps)
      /\ {t.seq : t \in P!Tasks(p)} = DOMAIN steps
  BY MadeOf
<1>2. Len(steps) \in 1..4 /\ DOMAIN steps = 1..Len(steps) /\ \A i \in DOMAIN steps : steps[i] \in StepNames
  BY DEF Ordered
<1>3. P!Cardinality({t.seq : t \in P!Tasks(p)}) = Len(p.tasks)
  <2> DEFINE n == Len(steps)
  <2>1. n \in Nat /\ 1 \in Int /\ n \in Int /\ n >= 1
    BY <1>2
  <2> HIDE DEF n
  <2>2. Cardinality(1..n) = IF 1 > n THEN 0 ELSE n - 1 + 1
    BY <2>1, FS_Interval
  <2>3. Cardinality(1..n) = n
    BY <2>1, <2>2
  <2> QED
    BY <1>1, <1>2, <2>3, SameCardinality DEF n
<1>4. ASSUME NEW t \in P!Tasks(p)
      PROVE  P!TaskIsValid(t, p) /\ P!DepthBySequence(p)[t.seq] <= MaxDepth
  <2>1. PICK i \in DOMAIN steps : t = P!PlannedTask(steps[i], i, steps)
    BY <1>1
  <2>2. t.seq = i /\ t.deps = P!Dependencies(steps[i], i, steps)
    BY <1>2, <2>1, TaskOf
  <2>3. \A d \in t.deps : d < t.seq /\ d \in {u.seq : u \in P!Tasks(p)}
    <3>1. t.deps \subseteq 1..(i - 1) /\ 1..(i - 1) \subseteq DOMAIN steps /\ i \in 1..4
      BY <2>2, DependsOnEarlier
    <3>2. \A d \in 1..(i - 1) : d < i
      BY <3>1
    <3> QED
      BY <1>1, <2>2, <3>1, <3>2
  <2>4. t.agent \in P!EnabledAgents /\ t.tools \subseteq P!EffectiveTools(t.agent) \cap planTools
    BY <2>1, ToolsOfStep
  <2>5. P!DepthBySequence(p)[t.seq] \in 0..2
    BY <2>2, ShallowOrLong
  <2>6. \A x \in 0..2 : x <= MaxDepth
    OBVIOUS
  <2> QED
    BY <2>3, <2>4, <2>5, <2>6 DEF P!TaskIsValid
<1>5. P!Cardinality(UNION {{t.seq} \X t.tools : t \in P!Tasks(p)}) <= MaxPlannedCalls
  <2> DEFINE calls == UNION {{t.seq} \X t.tools : t \in P!Tasks(p)}
  <2>1. \E j : calls \subseteq {j} \X {"calculator", "current_datetime"}
    <3>1. ASSUME NEW t \in P!Tasks(p), t.tools # {}
          PROVE  /\ t.seq \in DOMAIN steps /\ steps[t.seq] = "tool"
                 /\ t.tools \subseteq {"calculator", "current_datetime"}
      <4>1. PICK i \in DOMAIN steps : t = P!PlannedTask(steps[i], i, steps)
        BY <1>1
      <4>2. t.seq = i
        BY <1>2, <4>1, TaskOf
      <4>3. steps[i] = "tool" /\ t.tools \subseteq {"calculator", "current_datetime"}
        BY <3>1, <4>1, ToolsOfStep
      <4> QED
        BY <4>2, <4>3
    <3>2. \A i, j \in DOMAIN steps : steps[i] = "tool" /\ steps[j] = "tool" => i = j
      BY DEF Ordered
    <3>3. CASE \E j \in DOMAIN steps : steps[j] = "tool"
      <4>1. PICK j \in DOMAIN steps : steps[j] = "tool"
        BY <3>3
      <4>2. \A t \in P!Tasks(p) : t.tools # {} => t.seq = j
        BY <3>1, <3>2, <4>1
      <4>3. calls \subseteq {j} \X {"calculator", "current_datetime"}
        BY <3>1, <4>2
      <4> QED
        BY <4>3
    <3>4. CASE \A j \in DOMAIN steps : steps[j] # "tool"
      <4>1. \A t \in P!Tasks(p) : t.tools = {}
        BY <3>1, <3>4
      <4>2. calls \subseteq {0} \X {"calculator", "current_datetime"}
        BY <4>1
      <4> QED
        BY <4>2
    <3> QED
      BY <3>3, <3>4
  <2> HIDE DEF calls
  <2>2. P!Cardinality(calls) \in Nat /\ P!Cardinality(calls) <= 2
    BY <2>1, FewCalls
  <2>3. P!Cardinality(calls) <= MaxPlannedCalls
    BY <2>2
  <2> QED
    BY <2>3 DEF calls
<1>6. "conversation" \in P!EnabledAgents
  BY DEF P!EnabledAgents, P!Agents, Untouched
<1>7. Len(p.tasks) <= MaxTasks
  <2>1. \A n \in 1..4 : n <= MaxTasks
    OBVIOUS
  <2> QED
    BY <1>1, <1>2, <2>1
<1> QED
  BY <1>1, <1>3, <1>4, <1>5, <1>6, <1>7 DEF P!ValidatePlan

\* The agents of the plan that is rejected.
LongPlan(p) ==
  [i \in DOMAIN p.tasks |-> p.tasks[i].agent] = <<"knowledge", "tool", "memory", "conversation">>

LEMMA LongIsLong ==
  ASSUME NEW steps, Ordered(steps), Long(steps), NEW p, p.tasks = Made(steps)
  PROVE  LongPlan(p)
<1>1. DOMAIN steps = 1..4
  BY DEF Ordered, Long
<1>2. DOMAIN p.tasks = 1..4 /\ \A i \in 1..4 : p.tasks[i] = P!PlannedTask(steps[i], i, steps)
  BY <1>1, MadeOf
<1>3. /\ p.tasks[1].agent = "knowledge" /\ p.tasks[2].agent = "tool"
      /\ p.tasks[3].agent = "memory" /\ p.tasks[4].agent = "conversation"
  <2>1. /\ steps[1] = "knowledge" /\ steps[2] = "tool" /\ steps[3] = "write" /\ steps[4] = "answer"
    BY DEF Long
  <2>2. {1, 2, 3, 4} \subseteq 1..4
    OBVIOUS
  <2> QED
    BY <1>2, <2>1, <2>2 DEF P!PlannedTask, P!Task
<1>4. \A i \in 1..4 : p.tasks[i].agent = <<"knowledge", "tool", "memory", "conversation">>[i]
  <2>1. \A i \in 1..4 : i \in {1, 2, 3, 4}
    OBVIOUS
  <2> QED
    BY <1>3, <2>1
<1> QED
  BY <1>2, <1>4 DEF LongPlan

-----------------------------------------------------------------------------
(* Planning: what is rejected                                                 *)

\* Unless administrators change something, the review passes what was validated, and a plan by
\* rule is rejected for its length only.
RuleInv ==
  /\ planUpdates \in Nat
  /\ planUpdates = 0 => Untouched
  /\ planPc \in {"idle", "asked", "prepared", "plan", "model", "chat", "answered", "failed"} => planPlan = P!NoPlan
  /\ planPc = "review" /\ planUpdates = 0 => P!ReviewPasses
  /\ planPc = "rejected" /\ planPlan.strategy = "deterministic" /\ planUpdates = 0
       /\ ~P!Matches(planTurn.says, {"unsafe", "unusual"}) => LongPlan(planPlan)

PlanLimits == /\ MaxTasks \in Nat /\ MaxTasks >= 4 /\ MaxDepth \in Nat /\ MaxDepth >= 2
              /\ MaxPlannedCalls \in Nat /\ MaxPlannedCalls >= 2

LEMMA ValidPasses ==
  ASSUME NEW p, P!ValidatePlan(p)
  PROVE  /\ \A t \in P!Tasks(p) : t.agent \in P!EnabledAgents /\ t.tools \subseteq P!EffectiveTools(t.agent) \cap planTools
         /\ Len(p.tasks) <= MaxTasks
BY DEF P!ValidatePlan, P!TaskIsValid

LEMMA PassesNext ==
  ASSUME NEW p, P!ValidatePlan(p), planPlan' = p, UNCHANGED <<planRegistry, planTools>>
  PROVE  P!ReviewPasses'
<1>1. P!Tasks(planPlan') = P!Tasks(p) /\ P!EnabledAgents' = P!EnabledAgents
      /\ \A a : P!EffectiveTools(a)' = P!EffectiveTools(a)
  BY DEF P!Tasks, P!EnabledAgents, P!EffectiveTools
<1> QED
  BY <1>1, ValidPasses DEF P!ReviewPasses, P!Tasks, P!EnabledAgents, P!EffectiveTools

LEMMA RuleStep ==
  ASSUME PlanLimits, PlanTypes, PlanChecked, RuleInv, [P!Next]_(P!vars)
  PROVE  RuleInv'
<1>1. CASE P!Ask \/ P!ClassifyEarly \/ P!AnswerAtOnce \/ P!ClassifyAgain
  <2>1. /\ UNCHANGED <<planPlan, planRegistry, planUpdates>>
        /\ planPc \in {"idle", "asked", "prepared"}
        /\ planPc' \in {"asked", "prepared", "answered", "plan", "chat", "failed"}
    BY <1>1 DEF P!Ask, P!ClassifyEarly, P!AnswerAtOnce, P!ClassifyAgain
  <2> QED
    BY <2>1 DEF RuleInv, Untouched
<1>2. CASE P!PlanByRule
  <2> DEFINE ruled == IF P!DeterministicPlan # P!NoPlan THEN P!DeterministicPlan ELSE P!TemplatePlan
  <2>1. /\ planPc = "plan" /\ UNCHANGED <<planTurn, planTools, planDecision, planRegistry, planUpdates>>
    BY <1>2 DEF P!PlanByRule
  <2>2. planPlan = P!NoPlan
    BY <2>1 DEF RuleInv
  <2>3. ASSUME planUpdates = 0, ruled # P!NoPlan, ~P!ValidatePlan(ruled)
        PROVE  LongPlan(ruled)
    <3>1. PICK steps : /\ Ordered(steps)
                       /\ P!Signals # {} => /\ P!DeterministicPlan # P!NoPlan
                                            /\ P!DeterministicPlan.tasks = Made(steps)
      BY PlanByRuleShape
    <3>2. P!DeterministicPlan # P!NoPlan
      BY <2>3, NoTemplateWithoutRule
    <3>3. P!Signals # {}
      BY <3>2, Zenon DEF P!DeterministicPlan
    <3>4. ruled.tasks = Made(steps)
      BY <3>1, <3>2, <3>3
    <3>5. Untouched
      BY <2>3 DEF RuleInv
    <3> HIDE DEF ruled
    <3>6. Long(steps)
      BY <2>3, <3>1, <3>4, <3>5, RuleIsValidOrLong DEF PlanLimits
    <3> QED
      BY <3>1, <3>4, <3>6, LongIsLong
  <2>4. \/ ruled = P!NoPlan /\ planPc' = "model" /\ UNCHANGED planPlan
        \/ ruled # P!NoPlan /\ planPlan' = ruled /\ planPc' = IF P!ValidatePlan(ruled) THEN "review" ELSE "rejected"
    BY <1>2 DEF P!PlanByRule
  <2> HIDE DEF ruled
  <2>5. CASE ruled = P!NoPlan /\ planPc' = "model" /\ UNCHANGED planPlan
    BY <2>1, <2>2, <2>5 DEF RuleInv, Untouched
  <2>6. CASE ruled # P!NoPlan /\ planPlan' = ruled /\ P!ValidatePlan(ruled) /\ planPc' = "review"
    <3>1. P!ReviewPasses'
      BY <2>1, <2>6, PassesNext
    <3> QED
      BY <2>1, <2>6, <3>1 DEF RuleInv, Untouched
  <2>7. CASE ruled # P!NoPlan /\ planPlan' = ruled /\ ~P!ValidatePlan(ruled) /\ planPc' = "rejected"
    <3>1. planUpdates' = 0 => LongPlan(planPlan')
      BY <2>1, <2>3, <2>7
    <3> QED
      BY <2>1, <2>7, <3>1 DEF RuleInv, Untouched, LongPlan
  <2> QED
    BY <2>4, <2>5, <2>6, <2>7
<1>3. CASE P!PlanByModel
  <2>1. /\ planPc = "model" /\ UNCHANGED <<planTurn, planTools, planRegistry, planUpdates>> /\ planPlan = P!NoPlan
    BY <1>3 DEF P!PlanByModel, RuleInv
  <2>2. PICK p \in ModelPlans \cup {P!NoPlan} :
          IF p # P!NoPlan /\ P!ValidatePlan(p)
          THEN planPlan' = p /\ planPc' = "review" /\ UNCHANGED planAttempts
          ELSE IF planAttempts < MaxReplans
          THEN planAttempts' = planAttempts + 1 /\ UNCHANGED <<planPlan, planPc>>
          ELSE /\ planPlan' = P!FallbackPlan
               /\ planPc' = IF P!ValidatePlan(P!FallbackPlan) THEN "review" ELSE "rejected"
               /\ UNCHANGED planAttempts
    BY <1>3 DEF P!PlanByModel
  <2>3. CASE \E q : P!ValidatePlan(q) /\ planPlan' = q /\ planPc' = "review"
    <3>1. P!ReviewPasses'
      BY <2>1, <2>3, PassesNext
    <3> QED
      BY <2>1, <2>3, <3>1 DEF RuleInv, Untouched
  <2>4. CASE UNCHANGED <<planPlan, planPc>>
    BY <2>1, <2>4 DEF RuleInv, Untouched
  <2>5. CASE planPlan' = P!FallbackPlan /\ planPc' = "rejected"
    <3>1. planPlan'.strategy = "fallback"
      BY <2>5 DEF P!FallbackPlan
    <3> QED
      BY <2>1, <2>5, <3>1 DEF RuleInv, Untouched
  <2> QED
    BY <2>2, <2>3, <2>4, <2>5
<1>4. CASE P!PlannerFails
  <2>1. /\ planPc' = "rejected" /\ UNCHANGED <<planTurn, planPlan, planRegistry, planUpdates>>
        /\ planPlan = P!NoPlan
    BY <1>4 DEF P!PlannerFails, RuleInv
  <2>2. planPlan'.strategy = "none"
    BY <2>1 DEF P!NoPlan
  <2> QED
    BY <2>1, <2>2 DEF RuleInv, Untouched
<1>5. CASE P!Review
  <2>1. /\ planPc = "review" /\ planPc' \in {"rejected", "asking", "accepted"}
        /\ UNCHANGED <<planTurn, planRegistry, planUpdates>>
    BY <1>5, ReviewedPlan
  <2>2. ASSUME planUpdates = 0, ~P!Matches(planTurn.says, {"unsafe", "unusual"})
        PROVE  planPc' = "accepted"
    <3>1. P!ReviewPasses /\ ~P!Matches(planTurn.says, {"unsafe"}) /\ ~P!Matches(planTurn.says, {"unusual"})
      BY <2>1, <2>2 DEF RuleInv, P!Matches
    <3> QED
      BY <1>5, <3>1 DEF P!Review, P!Accept
  <2> QED
    BY <2>1, <2>2 DEF RuleInv, Untouched
<1>9. CASE P!ModelReview
  <2>1. /\ planPc = "asking" /\ planPc' \in {"rejected", "accepted"}
        /\ UNCHANGED <<planTurn, planRegistry, planUpdates>>
    BY <1>9, AskedPlan
  <2>2. P!Matches(planTurn.says, {"unsafe", "unusual"})
    BY <2>1 DEF PlanChecked, P!Matches
  <2>3. P!Matches(planTurn'.says, {"unsafe", "unusual"})
    BY <2>1, <2>2
  <2> QED
    BY <2>1, <2>2 DEF RuleInv, Untouched, P!Matches
<1>6. CASE \E a \in P!Agents, on \in BOOLEAN : \E allowed : P!UpdateAgent(a, on, allowed)
  <2>1. planUpdates' = planUpdates + 1 /\ UNCHANGED <<planPc, planPlan>>
    BY <1>6 DEF P!UpdateAgent
  <2>2. planUpdates' \in Nat /\ planUpdates' # 0
    BY <2>1 DEF RuleInv
  <2> QED
    BY <2>1, <2>2 DEF RuleInv
<1>7. CASE UNCHANGED P!vars
  BY <1>7 DEF P!vars, RuleInv, Untouched, P!ReviewPasses, P!Tasks, P!EnabledAgents, P!EffectiveTools
<1>8. {"conversation", "tool", "safety"} \subseteq P!Agents
  BY DEF P!Agents
<1> QED
  BY <1>1, <1>2, <1>3, <1>4, <1>5, <1>6, <1>7, <1>8, <1>9 DEF P!Next

(* With the limits of core/config.py or larger ones (four tasks, a depth of   *)
(* two, two calls), for any message and any tools: the plans of the           *)
(* deterministic planner pass the validation of agents/registry.py and the    *)
(* review of agents/specialists/safety.py as long as no administrator changes *)
(* an agent and the message is neither unsafe nor unusual, but for one:       *)
(* documents, a tool that waits for them, a write that waits for both, and    *)
(* the answer.                                                                *)
THEOREM OnlyTheLongChainFails ==
  ASSUME PlanLimits
  PROVE  P!Spec => []OnlyTheLongChainIsRejected
<1>1. P!Init => RuleInv
  BY DEF P!Init, RuleInv, Untouched
<1>2. PlanInv /\ RuleInv /\ [P!Next]_(P!vars) => RuleInv'
  BY RuleStep DEF PlanInv
<1>3. RuleInv => OnlyTheLongChainIsRejected
  BY DEF RuleInv, LongPlan, OnlyTheLongChainIsRejected, P!OnlyTheLongChainIsRejected
<1> QED
  BY <1>1, <1>2, <1>3, PlanInvHolds, PTL DEF P!Spec


-----------------------------------------------------------------------------
(* Recursive functions over an interval                                       *)

Lower == OpToRel(<, Nat)

LEMMA LowerIsLess == Lower = {ss \in Nat \X Nat : ss[1] < ss[2]}
BY DEF Lower, OpToRel

LEMMA LowerWellFounded == IsWellFoundedOn(Lower, Nat)
BY NatLessThanWellFounded DEF Lower

LEMMA Lowest ==
  ASSUME NEW S, S \subseteq Nat, S # {}
  PROVE  \E x \in S : \A y \in S : x =< y
<1>1. PICK x \in S : \A y \in S : <<y, x>> \notin Lower
  BY LowerWellFounded, WFMin
<1>2. \A y \in S : x =< y
  <2> TAKE y \in S
  <2>1. y \in Nat /\ x \in Nat
    OBVIOUS
  <2>2. y < x => <<y, x>> \in Lower
    <3> DEFINE p == <<y, x>>
    <3>1. p \in Nat \X Nat /\ p[1] = y /\ p[2] = x
      BY <2>1
    <3>2. p \in Lower <=> p[1] < p[2]
      BY <3>1, LowerIsLess, Zenon
    <3> QED
      BY <3>1, <3>2
  <2> QED
    BY <1>1, <2>1, <2>2
<1> QED
  BY <1>2

LEMMA Upwards ==
  ASSUME NEW n \in Nat, NEW S, 0 \in S, \A k \in 1..n : k - 1 \in S => k \in S
  PROVE  \A k \in 0..n : k \in S
<1> DEFINE Out == {k \in 0..n : k \notin S}
<1>1. ASSUME Out # {} PROVE FALSE
  <2>1. PICK x \in Out : \A y \in Out : x =< y
    <3>1. Out \subseteq Nat
      OBVIOUS
    <3> HIDE DEF Out
    <3> QED
      BY <1>1, <3>1, Lowest
  <2>2. x \in 1..n /\ x \notin S
    OBVIOUS
  <2>3. x - 1 \in 0..n /\ ~(x =< x - 1)
    BY <2>2
  <2>4. x - 1 \in S
    BY <2>1, <2>3
  <2> QED
    BY <2>2, <2>4
<1> QED
  BY <1>1

Runs(n, V, c, step) == \E f \in [0..n -> V] : f[0] = c /\ \A k \in 1..n : f[k] = step[k][f[k - 1]]

LEMMA Recursion ==
  ASSUME NEW n \in Nat, NEW V, NEW c \in V, NEW step \in [1..n -> [V -> V]]
  PROVE  Runs(n, V, c, step)
<1> DEFINE Upto(m) == \E f \in [0..m -> V] : f[0] = c /\ \A k \in 1..m : f[k] = step[k][f[k - 1]]
           S == {m \in 0..n : Upto(m)}
<1>1. Upto(0)
  <2> DEFINE f == [k \in 0..0 |-> c]
  <2>1. f \in [0..0 -> V] /\ f[0] = c /\ \A k \in 1..0 : f[k] = step[k][f[k - 1]]
    OBVIOUS
  <2> HIDE DEF f
  <2> QED
    BY <2>1
<1>2. ASSUME NEW m \in 1..n, Upto(m - 1) PROVE Upto(m)
  <2>1. PICK f \in [0..(m - 1) -> V] : f[0] = c /\ \A k \in 1..(m - 1) : f[k] = step[k][f[k - 1]]
    BY <1>2
  <2> DEFINE g == [k \in 0..m |-> IF k = m THEN step[m][f[m - 1]] ELSE f[k]]
  <2>2. step[m][f[m - 1]] \in V
    OBVIOUS
  <2>3. \A k \in 0..m : k # m => k \in 0..(m - 1)
    OBVIOUS
  <2>4. g \in [0..m -> V]
    BY <2>2, <2>3
  <2>5. g[0] = c /\ g[m] = step[m][f[m - 1]] /\ \A k \in 0..(m - 1) : g[k] = f[k]
    BY <2>1
  <2> HIDE DEF g
  <2>6. ASSUME NEW k \in 1..m PROVE g[k] = step[k][g[k - 1]]
    <3>1. k - 1 \in 0..(m - 1) /\ (k # m => k \in 1..(m - 1) /\ k \in 0..(m - 1))
      OBVIOUS
    <3> QED
      BY <2>1, <2>5, <3>1
  <2> QED
    BY <2>4, <2>5, <2>6
<1> HIDE DEF Upto
<1>3. 0 \in S /\ \A k \in 1..n : k - 1 \in S => k \in S
  BY <1>1, <1>2
<1> HIDE DEF S
<1>4. n \in S
  <2>1. \A k \in 0..n : k \in S
    BY <1>3, Upwards
  <2> QED
    BY <2>1
<1> QED
  BY <1>4 DEF S, Upto, Runs

-----------------------------------------------------------------------------
(* TurnContext: lengths                                                       *)

LEMMA LeadingIs ==
  ASSUME NEW s \in Seq(Nat)
  PROVE  /\ C!Leading(s, 0) = 0
         /\ \A k \in 1..Len(s) : C!Leading(s, k) = C!Leading(s, k - 1) + s[k]
<1> DEFINE n == Len(s)
           G(g) == [i \in 0..n |-> IF i = 0 THEN 0 ELSE g[i - 1] + s[i]]
           F == CHOOSE g : g = G(g)
           step == [k \in 1..n |-> [v \in Nat |-> v + s[k]]]
<1>1. n \in Nat /\ \A k \in 1..n : s[k] \in Nat
  OBVIOUS
<1>2. \A k : C!Leading(s, k) = F[k]
  BY Zenon DEF C!Leading
<1>3. step \in [1..n -> [Nat -> Nat]] /\ \A k \in 1..n : \A v \in Nat : step[k][v] = v + s[k]
  BY <1>1
<1> HIDE DEF n, step
<1>4. PICK f \in [0..n -> Nat] : f[0] = 0 /\ \A k \in 1..n : f[k] = step[k][f[k - 1]]
  <2>1. Runs(n, Nat, 0, step)
    BY <1>1, <1>3, Recursion
  <2> QED
    BY <2>1 DEF Runs
<1>5. ASSUME NEW k \in 0..n PROVE f[k] = IF k = 0 THEN 0 ELSE f[k - 1] + s[k]
  <2>1. CASE k = 0
    BY <1>4, <2>1
  <2>2. CASE k # 0
    <3>1. k \in 1..n /\ k - 1 \in 0..n
      BY <1>1, <2>2
    <3>2. f[k - 1] \in Nat
      BY <3>1
    <3> QED
      BY <1>3, <1>4, <2>2, <3>1, <3>2
  <2> QED
    BY <2>1, <2>2
<1>6. f = G(f)
  <2>1. f = [k \in 0..n |-> f[k]]
    OBVIOUS
  <2> QED
    BY <1>5, <2>1
<1>7. F = G(F)
  <2> HIDE DEF G
  <2> QED
    BY <1>6, Zenon
<1> HIDE DEF F
<1>8. F[0] = 0 /\ \A k \in 1..n : F[k] = F[k - 1] + s[k]
  <2>1. \A k \in 0..n : F[k] = IF k = 0 THEN 0 ELSE F[k - 1] + s[k]
    BY <1>7
  <2>2. 0 \in 0..n /\ \A k \in 1..n : k \in 0..n /\ k # 0
    BY <1>1
  <2> QED
    BY <2>1, <2>2
<1> QED
  BY <1>2, <1>8 DEF n

LEMMA LeadingNat ==
  ASSUME NEW s \in Seq(Nat)
  PROVE  \A k \in 0..Len(s) : C!Leading(s, k) \in Nat
<1> DEFINE n == Len(s)
           S == {k \in 0..n : C!Leading(s, k) \in Nat}
<1>1. n \in Nat /\ \A k \in 1..n : s[k] \in Nat
  OBVIOUS
<1>2. C!Leading(s, 0) = 0 /\ \A k \in 1..n : C!Leading(s, k) = C!Leading(s, k - 1) + s[k]
  BY LeadingIs
<1> HIDE DEF n
<1>3. 0 \in S /\ \A k \in 1..n : k - 1 \in S => k \in S
  <2>1. 0 \in S
    BY <1>1, <1>2
  <2>2. ASSUME NEW k \in 1..n, k - 1 \in S PROVE k \in S
    <3>1. k \in 0..n /\ C!Leading(s, k - 1) \in Nat /\ s[k] \in Nat
      BY <1>1, <2>2
    <3>2. C!Leading(s, k) = C!Leading(s, k - 1) + s[k]
      BY <1>2
    <3> QED
      BY <3>1, <3>2
  <2> QED
    BY <2>1, <2>2
<1> HIDE DEF S
<1>4. \A k \in 0..n : k \in S
  BY <1>1, <1>3, Upwards
<1> QED
  BY <1>4 DEF S, n

LEMMA LeadingGrows ==
  ASSUME NEW s \in Seq(Nat), NEW i \in 0..Len(s), NEW j \in 0..Len(s), i <= j
  PROVE  C!Leading(s, i) <= C!Leading(s, j)
<1> DEFINE n == Len(s)
           L(k) == C!Leading(s, k)
           S == {k \in 0..n : i <= k => L(i) <= L(k)}
<1>1. n \in Nat /\ \A k \in 1..n : s[k] \in Nat
  OBVIOUS
<1>2. L(0) = 0 /\ \A k \in 1..n : L(k) = L(k - 1) + s[k]
  BY LeadingIs
<1>3. \A k \in 0..n : L(k) \in Nat
  BY LeadingNat
<1>4. i \in 0..n /\ j \in 0..n
  OBVIOUS
<1> HIDE DEF n, L
<1>5. 0 \in S
  BY <1>1, <1>3, <1>4
<1>6. ASSUME NEW k \in 1..n, k - 1 \in S PROVE k \in S
  <2>1. k - 1 \in 0..n /\ k \in 0..n /\ L(k) = L(k - 1) + s[k] /\ s[k] \in Nat
    BY <1>1, <1>2
  <2>2. L(k) \in Nat /\ L(k - 1) \in Nat /\ L(i) \in Nat
    BY <1>3, <1>4, <2>1
  <2>3. i <= k => i = k \/ i <= k - 1
    BY <1>4
  <2> QED
    BY <1>6, <2>1, <2>2, <2>3
<1> HIDE DEF S
<1>7. j \in S
  <2>1. \A k \in 0..n : k \in S
    BY <1>1, <1>5, <1>6, Upwards
  <2> QED
    BY <1>4, <2>1
<1> QED
  BY <1>7 DEF S, L

\* Sequences that begin alike are as long there.
LEMMA LeadingAgrees ==
  ASSUME NEW s \in Seq(Nat), NEW t \in Seq(Nat), NEW m \in Nat, m <= Len(s), m <= Len(t),
         \A k \in 1..m : s[k] = t[k]
  PROVE  \A k \in 0..m : C!Leading(s, k) = C!Leading(t, k)
<1> DEFINE S == {k \in 0..m : C!Leading(s, k) = C!Leading(t, k)}
<1>1. 1..m \subseteq 1..Len(s) /\ 1..m \subseteq 1..Len(t)
  <2>1. Len(s) \in Nat /\ Len(t) \in Nat
    OBVIOUS
  <2> QED
    BY <2>1
<1>2. /\ C!Leading(s, 0) = 0 /\ \A k \in 1..m : C!Leading(s, k) = C!Leading(s, k - 1) + s[k]
  BY <1>1, LeadingIs
<1>3. /\ C!Leading(t, 0) = 0 /\ \A k \in 1..m : C!Leading(t, k) = C!Leading(t, k - 1) + t[k]
  BY <1>1, LeadingIs
<1>4. 0 \in S /\ \A k \in 1..m : k - 1 \in S => k \in S
  BY <1>2, <1>3
<1> HIDE DEF S
<1>5. \A k \in 0..m : k \in S
  BY <1>4, Upwards
<1> QED
  BY <1>5 DEF S

\* What the last k messages, none empty, come to.
LEMMA TrailingGrows ==
  ASSUME NEW s \in C!History, NEW i \in 0..Len(s), NEW j \in 0..Len(s), i <= j
  PROVE  /\ C!Trailing(s, i) \in Nat /\ C!Trailing(s, j) \in Nat
         /\ C!Trailing(s, i) <= C!Trailing(s, j)
         /\ j > 0 => C!Trailing(s, j) > 0
<1> DEFINE n == Len(s)
           L(k) == C!Leading(s, k)
<1>1. s \in Seq(Nat) /\ n \in Nat /\ \A k \in 1..n : s[k] \in Nat /\ s[k] > 0
  <2>1. s \in Seq(Nat \ {0})
    BY DEF C!History
  <2>2. s \in Seq(Nat) /\ n \in Nat /\ \A k \in 1..n : s[k] \in Nat \ {0}
    BY <2>1
  <2> QED
    BY <2>2
<1>2. /\ n - i \in 0..n /\ n - j \in 0..n /\ n - j <= n - i /\ n - i <= n /\ n \in 0..n
      /\ j > 0 => n - j <= n - 1 /\ n \in 1..n /\ n - 1 \in 0..n
  BY <1>1
<1>3. L(n - i) \in Nat /\ L(n - j) \in Nat /\ L(n) \in Nat /\ (j > 0 => L(n - 1) \in Nat)
  BY <1>1, <1>2, LeadingNat
<1>4. L(n - j) <= L(n - i) /\ L(n - i) <= L(n) /\ (j > 0 => L(n - j) <= L(n - 1))
  BY <1>1, <1>2, LeadingGrows
<1>5. j > 0 => L(n) = L(n - 1) + s[n] /\ s[n] \in Nat /\ s[n] > 0
  BY <1>1, <1>2, LeadingIs
<1>6. C!Trailing(s, i) = L(n) - L(n - i) /\ C!Trailing(s, j) = L(n) - L(n - j)
  BY DEF C!Trailing, C!Total
<1> DEFINE a == L(n - i)
           b == L(n - j)
           c == L(n)
           d == L(n - 1)
<1> HIDE DEF n, L
<1>7. a \in Nat /\ b \in Nat /\ c \in Nat /\ b <= a /\ a <= c
  BY <1>3, <1>4
<1>8. j > 0 => d \in Nat /\ b <= d /\ \E x \in Nat : x > 0 /\ c = d + x
  BY <1>3, <1>4, <1>5
<1>9. C!Trailing(s, i) = c - a /\ C!Trailing(s, j) = c - b
  BY <1>6
<1> HIDE DEF a, b, c, d
<1> QED
  BY <1>7, <1>8, <1>9

-----------------------------------------------------------------------------
(* TurnContext: the history taken back                                        *)

\* The last l messages fit, or the newest is taken all the same.
FitsBack(s, l, max, one) == C!Trailing(s, l) <= max \/ (one /\ l = 1)

LEMMA TakesBack ==
  ASSUME NEW s \in C!History, NEW last \in 0..Len(s), NEW max \in Nat, NEW one \in BOOLEAN
  PROVE  LET c == C!TakeBack(s, last, max, one)
         IN  /\ c \in 0..last
             /\ \A l \in 1..c : FitsBack(s, l, max, one)
             /\ c < last => ~FitsBack(s, c + 1, max, one)
<1> DEFINE Stops(v, k) == v < k - 1 \/ (C!Trailing(s, k) > max /\ ~(one /\ k = 1))
           G(g) == [k \in 0..last |-> IF k = 0 THEN 0 ELSE IF Stops(g[k - 1], k) THEN g[k - 1] ELSE k]
           F == CHOOSE g : g = G(g)
           step == [k \in 1..last |-> [v \in 0..last |-> IF Stops(v, k) THEN v ELSE k]]
<1>1. last \in Nat /\ 0..last \subseteq 0..Len(s)
  BY DEF C!History
<1>2. C!TakeBack(s, last, max, one) = F[last]
  BY Zenon DEF C!TakeBack
<1>3. ASSUME NEW k \in 1..last
      PROVE  C!Trailing(s, k) > max /\ ~(one /\ k = 1) <=> ~FitsBack(s, k, max, one)
  <2>1. k \in 0..Len(s) /\ k <= k
    BY <1>1
  <2>2. C!Trailing(s, k) \in Nat
    BY <2>1, TrailingGrows
  <2> QED
    BY <2>2 DEF FitsBack
<1> HIDE DEF Stops
<1>4. step \in [1..last -> [0..last -> 0..last]] /\ 0 \in 0..last
      /\ \A k \in 1..last : \A v \in 0..last : step[k][v] = IF Stops(v, k) THEN v ELSE k
  BY <1>1
<1> HIDE DEF step
<1>5. PICK f \in [0..last -> 0..last] : f[0] = 0 /\ \A k \in 1..last : f[k] = step[k][f[k - 1]]
  <2>1. Runs(last, 0..last, 0, step)
    BY <1>1, <1>4, Recursion
  <2> QED
    BY <2>1 DEF Runs
<1>6. ASSUME NEW k \in 0..last PROVE f[k] = IF k = 0 THEN 0 ELSE IF Stops(f[k - 1], k) THEN f[k - 1] ELSE k
  <2>1. CASE k = 0
    BY <1>5, <2>1
  <2>2. CASE k # 0
    <3>1. k \in 1..last /\ k - 1 \in 0..last
      BY <1>1, <2>2
    <3>2. f[k - 1] \in 0..last
      BY <3>1
    <3> QED
      BY <1>4, <1>5, <2>2, <3>1, <3>2
  <2> QED
    BY <2>1, <2>2
<1>7. f = G(f)
  <2>1. f = [k \in 0..last |-> f[k]]
    OBVIOUS
  <2> QED
    BY <1>6, <2>1
<1>8. F = G(F)
  <2> HIDE DEF G
  <2> QED
    BY <1>7, Zenon
<1> HIDE DEF F
<1>9. F[0] = 0 /\ \A k \in 1..last : F[k] = IF Stops(F[k - 1], k) THEN F[k - 1] ELSE k
  <2>1. \A k \in 0..last : F[k] = IF k = 0 THEN 0 ELSE IF Stops(F[k - 1], k) THEN F[k - 1] ELSE k
    BY <1>8
  <2>2. 0 \in 0..last /\ \A k \in 1..last : k \in 0..last /\ k # 0
    BY <1>1
  <2> QED
    BY <2>1, <2>2
<1> DEFINE Fits(l) == FitsBack(s, l, max, one)
           Good(k) == F[k] \in 0..k /\ (\A l \in 1..F[k] : Fits(l)) /\ (F[k] < k => ~Fits(F[k] + 1))
           S == {k \in 0..last : Good(k)}
<1>10. \A k \in 1..last, v \in Nat : Stops(v, k) <=> v < k - 1 \/ ~Fits(k)
  BY <1>3 DEF Stops
<1> HIDE DEF Fits, G
<1>11. Good(0)
  BY <1>9
<1>12. ASSUME NEW k \in 1..last, Good(k - 1) PROVE Good(k)
  <2> DEFINE v == F[k - 1]
  <2>1. v \in 0..(k - 1) /\ (\A l \in 1..v : Fits(l)) /\ (v < k - 1 => ~Fits(v + 1)) /\ v \in Nat
    BY <1>12
  <2>2. F[k] = IF Stops(v, k) THEN v ELSE k
    BY <1>9
  <2> HIDE DEF v
  <2>3. CASE v < k - 1
    <3>1. F[k] = v
      BY <1>10, <2>1, <2>2, <2>3
    <3> QED
      BY <2>1, <2>3, <3>1
  <2>4. CASE v = k - 1 /\ ~Fits(k)
    <3>1. F[k] = v /\ v + 1 = k
      BY <1>10, <2>1, <2>2, <2>4
    <3> QED
      BY <2>1, <2>4, <3>1
  <2>5. CASE v = k - 1 /\ Fits(k)
    <3>1. F[k] = k
      BY <1>10, <2>1, <2>2, <2>5
    <3>2. \A l \in 1..k : l \in 1..v \/ l = k
      BY <2>1, <2>5
    <3>3. \A l \in 1..F[k] : Fits(l)
      BY <2>1, <2>5, <3>1, <3>2
    <3>4. F[k] \in 0..k /\ ~(F[k] < k)
      BY <3>1
    <3> QED
      BY <3>3, <3>4
  <2> QED
    BY <2>1, <2>3, <2>4, <2>5
<1> HIDE DEF Good
<1>13. 0 \in S /\ \A k \in 1..last : k - 1 \in S => k \in S
  BY <1>1, <1>11, <1>12
<1> HIDE DEF S
<1>14. last \in S
  <2>1. \A k \in 0..last : k \in S
    BY <1>1, <1>13, Upwards
  <2> QED
    BY <1>1, <2>1
<1> QED
  BY <1>2, <1>14 DEF S, Good, Fits

-----------------------------------------------------------------------------
(* TurnContext: the passages chosen                                           *)

LEMMA SizesOf ==
  ASSUME C!ContextConstants, NEW t \in Seq(Indexed)
  PROVE  /\ C!Sizes(t) \in Seq(Nat) /\ Len(C!Sizes(t)) = Len(t)
         /\ \A i \in 1..Len(t) : C!Sizes(t)[i] = t[i].size
<1> DEFINE n == Len(t)
           z == [i \in 1..n |-> t[i].size]
<1>1. n \in Nat /\ DOMAIN t = 1..n /\ \A i \in 1..n : t[i].size \in Nat
  BY DEF C!ContextConstants
<1>2. C!Sizes(t) = z
  BY <1>1 DEF C!Sizes
<1> HIDE DEF n
<1>3. z \in Seq(Nat) /\ Len(z) = n /\ \A i \in 1..n : z[i] = t[i].size
  BY <1>1
<1> QED
  BY <1>2, <1>3 DEF n

LEMMA SizeNat ==
  ASSUME C!ContextConstants, NEW t \in Seq(Indexed)
  PROVE  C!Size(t) \in Nat
<1>1. C!Sizes(t) \in Seq(Nat)
  BY SizesOf
<1>2. Len(C!Sizes(t)) \in 0..Len(C!Sizes(t))
  BY <1>1
<1> QED
  BY <1>1, <1>2, LeadingNat DEF C!Size, C!Total

LEMMA SizeAppend ==
  ASSUME C!ContextConstants, NEW t \in Seq(Indexed), NEW p \in Indexed
  PROVE  C!Size(Append(t, p)) = C!Size(t) + p.size
<1> DEFINE u == Append(t, p)
           n == Len(t)
           a == C!Sizes(t)
           b == C!Sizes(u)
<1>1. n \in Nat /\ u \in Seq(Indexed) /\ Len(u) = n + 1 /\ u[n + 1] = p /\ \A i \in 1..n : u[i] = t[i]
  OBVIOUS
<1> HIDE DEF u
<1>2. a \in Seq(Nat) /\ Len(a) = n /\ \A i \in 1..n : a[i] = t[i].size
  BY SizesOf
<1>3. b \in Seq(Nat) /\ Len(b) = n + 1 /\ \A i \in 1..(n + 1) : b[i] = u[i].size
  BY <1>1, SizesOf
<1> HIDE DEF n, a, b
<1>4. b[n + 1] = p.size /\ \A i \in 1..n : a[i] = b[i]
  <2>1. n + 1 \in 1..(n + 1) /\ \A i \in 1..n : i \in 1..(n + 1)
    BY <1>1
  <2>2. b[n + 1] = p.size
    BY <1>1, <1>3, <2>1
  <2>3. ASSUME NEW i \in 1..n PROVE a[i] = b[i]
    <3>1. a[i] = t[i].size /\ u[i] = t[i]
      BY <1>1, <1>2
    <3>2. b[i] = u[i].size
      BY <1>3, <2>1
    <3> QED
      BY <3>1, <3>2
  <2> QED
    BY <2>2, <2>3
<1>5. C!Leading(a, n) = C!Leading(b, n)
  <2>1. n <= Len(a) /\ n <= Len(b) /\ n \in 0..n
    BY <1>1, <1>2, <1>3
  <2> QED
    BY <1>1, <1>2, <1>3, <1>4, <2>1, LeadingAgrees
<1>6. C!Leading(b, n + 1) = C!Leading(b, n) + p.size
  <2>1. n + 1 \in 1..Len(b) /\ (n + 1) - 1 = n
    BY <1>1, <1>3
  <2>2. C!Leading(b, n + 1) = C!Leading(b, (n + 1) - 1) + b[n + 1]
    BY <1>3, <2>1, LeadingIs
  <2> QED
    BY <1>4, <2>1, <2>2
<1>7. C!Size(t) = C!Leading(a, n) /\ C!Size(u) = C!Leading(b, n + 1)
  BY <1>2, <1>3 DEF C!Size, C!Total, a, b
<1> QED
  BY <1>5, <1>6, <1>7 DEF u

\* Passages taken of the first k of s, no two of which nearly repeat each other.
TakenOf(t, s, k) == t \in Seq(Indexed) /\ \A a \in DOMAIN t : \E m \in 1..k : t[a] = s[m]
Different(t) == \A a, b \in DOMAIN t : a < b => ~C!NearDuplicate(t[b], t[a])

LEMMA NothingTaken ==
  ASSUME NEW s
  PROVE  TakenOf(<<>>, s, 0) /\ Different(<<>>)
<1>1. <<>> \in Seq(Indexed) /\ DOMAIN <<>> = {}
  OBVIOUS
<1> DEFINE t == <<>>
<1>2. t \in Seq(Indexed) /\ DOMAIN t = {}
  BY <1>1
<1> HIDE DEF t
<1>3. TakenOf(t, s, 0) /\ Different(t)
  BY <1>2 DEF TakenOf, Different
<1> QED
  BY <1>3 DEF t

LEMMA TakeOne ==
  ASSUME NEW s \in Seq(Indexed), NEW k \in 1..Len(s), NEW t, TakenOf(t, s, k - 1)
  PROVE  /\ TakenOf(t, s, k) /\ TakenOf(Append(t, s[k]), s, k)
         /\ (Different(t) /\ \A a \in DOMAIN t : ~C!NearDuplicate(s[k], t[a])) => Different(Append(t, s[k]))
<1> DEFINE n == Len(t)
           u == Append(t, s[k])
<1>1. t \in Seq(Indexed) /\ n \in Nat /\ DOMAIN t = 1..n /\ s[k] \in Indexed
  BY DEF TakenOf
<1>2. u \in Seq(Indexed) /\ DOMAIN u = 1..(n + 1) /\ u[n + 1] = s[k] /\ \A i \in 1..n : u[i] = t[i]
  BY <1>1
<1> HIDE DEF u, n
<1>3. 1..(k - 1) \subseteq 1..k /\ k \in 1..k
  OBVIOUS
<1>4. TakenOf(t, s, k)
  BY <1>3 DEF TakenOf
<1>5. \A i \in 1..(n + 1) : i = n + 1 \/ i \in 1..n
  BY <1>1
<1>6. TakenOf(u, s, k)
  BY <1>1, <1>2, <1>3, <1>4, <1>5 DEF TakenOf
<1>7. ASSUME Different(t), \A a \in DOMAIN t : ~C!NearDuplicate(s[k], t[a])
      PROVE  Different(u)
  <2> SUFFICES ASSUME NEW a \in 1..(n + 1), NEW b \in 1..(n + 1), a < b
               PROVE  ~C!NearDuplicate(u[b], u[a])
    BY <1>2 DEF Different
  <2>1. a \in 1..n
    BY <1>1
  <2>2. CASE b = n + 1
    BY <1>1, <1>2, <1>7, <2>1, <2>2
  <2>3. CASE b \in 1..n
    BY <1>1, <1>2, <1>7, <2>1, <2>3 DEF Different
  <2> QED
    BY <1>5, <2>2, <2>3
<1> QED
  BY <1>4, <1>6, <1>7 DEF u

LEMMA DedupeBy ==
  ASSUME NEW s \in Seq(Indexed)
  PROVE  \E F : /\ C!Dedupe(s) = F[Len(s)] /\ F[0] = <<>>
                /\ \A k \in 1..Len(s) :
                     F[k] = IF \E j \in DOMAIN F[k - 1] : C!NearDuplicate(s[k], F[k - 1][j]) THEN F[k - 1]
                            ELSE Append(F[k - 1], s[k])
<1> DEFINE n == Len(s)
           V == Seq(Indexed)
           Next1(v, k) == IF \E j \in DOMAIN v : C!NearDuplicate(s[k], v[j]) THEN v ELSE Append(v, s[k])
           G(g) == [i \in 0..n |-> IF i = 0 THEN <<>> ELSE Next1(g[i - 1], i)]
           F == CHOOSE g : g = G(g)
           step == [k \in 1..n |-> [v \in V |-> Next1(v, k)]]
<1>1. n \in Nat /\ <<>> \in V /\ \A k \in 1..n : s[k] \in Indexed
  OBVIOUS
<1>2. C!Dedupe(s) = F[n]
  BY Zenon DEF C!Dedupe
<1>3. \A k \in 1..n : \A v \in V : Next1(v, k) \in V
  <2> SUFFICES ASSUME NEW k \in 1..n, NEW v \in V PROVE Next1(v, k) \in V
    OBVIOUS
  <2>1. Append(v, s[k]) \in V
    BY <1>1
  <2> QED
    BY <2>1
<1> HIDE DEF n, V, Next1
<1>4. step \in [1..n -> [V -> V]] /\ \A k \in 1..n : \A v \in V : step[k][v] = Next1(v, k)
  BY <1>3
<1> HIDE DEF step
<1>5. PICK f \in [0..n -> V] : f[0] = <<>> /\ \A k \in 1..n : f[k] = step[k][f[k - 1]]
  <2>1. Runs(n, V, <<>>, step)
    BY <1>1, <1>4, Recursion
  <2> QED
    BY <2>1 DEF Runs
<1>6. ASSUME NEW k \in 0..n PROVE f[k] = IF k = 0 THEN <<>> ELSE Next1(f[k - 1], k)
  <2>1. CASE k = 0
    BY <1>5, <2>1
  <2>2. CASE k # 0
    <3>1. k \in 1..n /\ k - 1 \in 0..n
      BY <1>1, <2>2
    <3>2. f[k - 1] \in V
      BY <3>1
    <3> QED
      BY <1>4, <1>5, <2>2, <3>1, <3>2
  <2> QED
    BY <2>1, <2>2
<1>7. f = G(f)
  <2>1. f = [k \in 0..n |-> f[k]]
    OBVIOUS
  <2> QED
    BY <1>6, <2>1
<1>8. F = G(F)
  <2> HIDE DEF G
  <2> QED
    BY <1>7, Zenon
<1> HIDE DEF F
<1>9. F[0] = <<>> /\ \A k \in 1..n : F[k] = Next1(F[k - 1], k)
  <2>1. \A k \in 0..n : F[k] = IF k = 0 THEN <<>> ELSE Next1(F[k - 1], k)
    BY <1>8
  <2>2. 0 \in 0..n /\ \A k \in 1..n : k \in 0..n /\ k # 0
    BY <1>1
  <2> QED
    BY <2>1, <2>2
<1> HIDE DEF G
<1> QED
  BY <1>2, <1>9 DEF n, Next1

LEMMA FittingBy ==
  ASSUME NEW s \in Seq(Indexed), NEW max
  PROVE  \E F : /\ C!Fitting(s, max) = F[Len(s)] /\ F[0] = <<>>
                /\ \A k \in 1..Len(s) :
                     F[k] = IF C!Size(F[k - 1]) + s[k].size > max THEN F[k - 1]
                            ELSE Append(F[k - 1], s[k])
<1> DEFINE n == Len(s)
           V == Seq(Indexed)
           Next1(v, k) == IF C!Size(v) + s[k].size > max THEN v ELSE Append(v, s[k])
           G(g) == [i \in 0..n |-> IF i = 0 THEN <<>> ELSE Next1(g[i - 1], i)]
           F == CHOOSE g : g = G(g)
           step == [k \in 1..n |-> [v \in V |-> Next1(v, k)]]
<1>1. n \in Nat /\ <<>> \in V /\ \A k \in 1..n : s[k] \in Indexed
  OBVIOUS
<1>2. C!Fitting(s, max) = F[n]
  BY Zenon DEF C!Fitting
<1>3. \A k \in 1..n : \A v \in V : Next1(v, k) \in V
  <2> SUFFICES ASSUME NEW k \in 1..n, NEW v \in V PROVE Next1(v, k) \in V
    OBVIOUS
  <2>1. Append(v, s[k]) \in V
    BY <1>1
  <2> QED
    BY <2>1
<1> HIDE DEF n, V, Next1
<1>4. step \in [1..n -> [V -> V]] /\ \A k \in 1..n : \A v \in V : step[k][v] = Next1(v, k)
  BY <1>3
<1> HIDE DEF step
<1>5. PICK f \in [0..n -> V] : f[0] = <<>> /\ \A k \in 1..n : f[k] = step[k][f[k - 1]]
  <2>1. Runs(n, V, <<>>, step)
    BY <1>1, <1>4, Recursion
  <2> QED
    BY <2>1 DEF Runs
<1>6. ASSUME NEW k \in 0..n PROVE f[k] = IF k = 0 THEN <<>> ELSE Next1(f[k - 1], k)
  <2>1. CASE k = 0
    BY <1>5, <2>1
  <2>2. CASE k # 0
    <3>1. k \in 1..n /\ k - 1 \in 0..n
      BY <1>1, <2>2
    <3>2. f[k - 1] \in V
      BY <3>1
    <3> QED
      BY <1>4, <1>5, <2>2, <3>1, <3>2
  <2> QED
    BY <2>1, <2>2
<1>7. f = G(f)
  <2>1. f = [k \in 0..n |-> f[k]]
    OBVIOUS
  <2> QED
    BY <1>6, <2>1
<1>8. F = G(F)
  <2> HIDE DEF G
  <2> QED
    BY <1>7, Zenon
<1> HIDE DEF F
<1>9. F[0] = <<>> /\ \A k \in 1..n : F[k] = Next1(F[k - 1], k)
  <2>1. \A k \in 0..n : F[k] = IF k = 0 THEN <<>> ELSE Next1(F[k - 1], k)
    BY <1>8
  <2>2. 0 \in 0..n /\ \A k \in 1..n : k \in 0..n /\ k # 0
    BY <1>1
  <2> QED
    BY <2>1, <2>2
<1> HIDE DEF G
<1> QED
  BY <1>2, <1>9 DEF n, Next1

LEMMA Deduped ==
  ASSUME NEW s \in Seq(Indexed)
  PROVE  TakenOf(C!Dedupe(s), s, Len(s)) /\ Different(C!Dedupe(s))
<1> DEFINE n == Len(s)
<1>1. n \in Nat
  OBVIOUS
<1>2. PICK F : /\ C!Dedupe(s) = F[n] /\ F[0] = <<>>
               /\ \A k \in 1..n :
                    F[k] = IF \E j \in DOMAIN F[k - 1] : C!NearDuplicate(s[k], F[k - 1][j]) THEN F[k - 1]
                           ELSE Append(F[k - 1], s[k])
  BY DedupeBy
<1> DEFINE S == {k \in 0..n : TakenOf(F[k], s, k) /\ Different(F[k])}
<1>3. 0 \in S
  BY <1>1, <1>2, NothingTaken
<1>4. ASSUME NEW k \in 1..n, k - 1 \in S PROVE k \in S
  <2>1. TakenOf(F[k - 1], s, k - 1) /\ Different(F[k - 1]) /\ k \in 0..n
    BY <1>4
  <2>2. CASE \E j \in DOMAIN F[k - 1] : C!NearDuplicate(s[k], F[k - 1][j])
    BY <1>2, <2>1, <2>2, TakeOne
  <2>3. CASE ~\E j \in DOMAIN F[k - 1] : C!NearDuplicate(s[k], F[k - 1][j])
    BY <1>2, <2>1, <2>3, TakeOne
  <2> QED
    BY <2>2, <2>3
<1> HIDE DEF S, n
<1>5. n \in S
  <2>1. \A k \in 0..n : k \in S
    BY <1>1, <1>3, <1>4, Upwards
  <2> QED
    BY <1>1, <2>1
<1> QED
  BY <1>2, <1>5 DEF S, n

LEMMA DedupedOnce ==
  ASSUME NEW s \in Seq(Indexed), Different(s)
  PROVE  C!Dedupe(s) = s
<1> DEFINE n == Len(s)
<1>1. n \in Nat /\ DOMAIN s = 1..n /\ \A k \in 1..n : s[k] \in Indexed
  OBVIOUS
<1>2. PICK F : /\ C!Dedupe(s) = F[n] /\ F[0] = <<>>
               /\ \A k \in 1..n :
                    F[k] = IF \E j \in DOMAIN F[k - 1] : C!NearDuplicate(s[k], F[k - 1][j]) THEN F[k - 1]
                           ELSE Append(F[k - 1], s[k])
  BY DedupeBy
<1> DEFINE Begins(t, k) == t \in Seq(Indexed) /\ Len(t) = k /\ \A j \in 1..k : t[j] = s[j]
           S == {k \in 0..n : Begins(F[k], k)}
<1> HIDE DEF n
<1>3. 0 \in S
  <2>1. F[0] \in Seq(Indexed) /\ Len(F[0]) = 0
    BY <1>2
  <2>2. 0 \in 0..n /\ \A j \in 1..0 : F[0][j] = s[j]
    BY <1>1
  <2> QED
    BY <2>1, <2>2
<1>4. ASSUME NEW k \in 1..n, k - 1 \in S PROVE k \in S
  <2> DEFINE t == F[k - 1]
             u == Append(t, s[k])
  <2>1. t \in Seq(Indexed) /\ Len(t) = k - 1 /\ \A j \in 1..(k - 1) : t[j] = s[j]
    BY <1>4
  <2>2. DOMAIN t = 1..(k - 1)
    BY <2>1
  <2>3. \A j \in 1..(k - 1) : ~C!NearDuplicate(s[k], s[j])
    <3>1. \A j \in 1..(k - 1) : j \in 1..n /\ j < k
      BY <1>1
    <3> QED
      BY <1>1, <3>1 DEF Different
  <2>4. F[k] = u
    <3>1. ~\E j \in DOMAIN t : C!NearDuplicate(s[k], t[j])
      BY <2>1, <2>2, <2>3
    <3> QED
      BY <1>2, <3>1
  <2> HIDE DEF t
  <2>5. u \in Seq(Indexed) /\ Len(u) = k /\ \A j \in 1..k : u[j] = s[j]
    <3>1. u \in Seq(Indexed) /\ Len(u) = (k - 1) + 1 /\ u[(k - 1) + 1] = s[k] /\ \A j \in 1..(k - 1) : u[j] = t[j]
      BY <1>1, <2>1
    <3>2. (k - 1) + 1 = k /\ \A j \in 1..k : j = k \/ j \in 1..(k - 1)
      OBVIOUS
    <3> HIDE DEF u
    <3> QED
      BY <2>1, <3>1, <3>2
  <2> HIDE DEF u
  <2>6. Begins(F[k], k) /\ k \in 0..n
    BY <2>4, <2>5
  <2> QED
    BY <2>6
<1> HIDE DEF S
<1>5. n \in S
  <2>1. \A k \in 0..n : k \in S
    BY <1>1, <1>3, <1>4, Upwards
  <2> QED
    BY <1>1, <2>1
<1> DEFINE d == C!Dedupe(s)
<1>6. d \in Seq(Indexed) /\ Len(d) = n /\ \A j \in 1..n : d[j] = s[j]
  BY <1>2, <1>5 DEF S
<1> HIDE DEF d
<1>7. d = s
  <2>1. d = [j \in 1..n |-> d[j]] /\ s = [j \in 1..n |-> s[j]]
    BY <1>1, <1>6
  <2> QED
    BY <1>6, <2>1
<1> QED
  BY <1>7 DEF d

LEMMA Fitted ==
  ASSUME C!ContextConstants, NEW s \in Seq(Indexed), Different(s), NEW max \in Nat
  PROVE  LET t == C!Fitting(s, max)
         IN  TakenOf(t, s, Len(s)) /\ Different(t) /\ C!Size(t) <= max
<1> DEFINE n == Len(s)
<1>1. n \in Nat /\ DOMAIN s = 1..n /\ \A k \in 1..n : s[k] \in Indexed
  OBVIOUS
<1>2. PICK F : /\ C!Fitting(s, max) = F[n] /\ F[0] = <<>>
               /\ \A k \in 1..n :
                    F[k] = IF C!Size(F[k - 1]) + s[k].size > max THEN F[k - 1]
                           ELSE Append(F[k - 1], s[k])
  BY FittingBy
<1> DEFINE S == {k \in 0..n : TakenOf(F[k], s, k) /\ Different(F[k]) /\ C!Size(F[k]) <= max}
<1>3. 0 \in S
  <2>1. C!Size(<<>>) = 0
    <3>1. C!Sizes(<<>>) \in Seq(Nat) /\ Len(C!Sizes(<<>>)) = 0
      <4>1. <<>> \in Seq(Indexed) /\ Len(<<>>) = 0
        OBVIOUS
      <4> QED
        BY <4>1, SizesOf
    <3> QED
      BY <3>1, LeadingIs DEF C!Size, C!Total
  <2> QED
    BY <1>1, <1>2, <2>1, NothingTaken
<1>4. ASSUME NEW k \in 1..n, k - 1 \in S PROVE k \in S
  <2> DEFINE t == F[k - 1]
  <2>1. TakenOf(t, s, k - 1) /\ Different(t) /\ C!Size(t) <= max /\ k \in 0..n
    BY <1>4
  <2>2. F[k] = IF C!Size(t) + s[k].size > max THEN t ELSE Append(t, s[k])
    BY <1>2
  <2> HIDE DEF t
  <2>3. TakenOf(t, s, k) /\ TakenOf(Append(t, s[k]), s, k)
    BY <2>1, TakeOne
  <2>4. CASE C!Size(t) + s[k].size > max
    <3>1. F[k] = t
      BY <2>2, <2>4
    <3> QED
      BY <2>1, <2>3, <3>1
  <2>5. CASE ~(C!Size(t) + s[k].size > max)
    <3>1. F[k] = Append(t, s[k])
      BY <2>2, <2>5
    <3>2. \A a \in DOMAIN t : ~C!NearDuplicate(s[k], t[a])
      <4> TAKE a \in DOMAIN t
      <4>1. PICK m \in 1..(k - 1) : t[a] = s[m]
        BY <2>1 DEF TakenOf
      <4>2. m \in 1..n /\ m < k
        BY <1>1
      <4> QED
        BY <1>1, <4>1, <4>2 DEF Different
    <3>3. Different(Append(t, s[k]))
      BY <2>1, <3>2, TakeOne
    <3>4. C!Size(Append(t, s[k])) <= max
      <4>1. t \in Seq(Indexed) /\ s[k] \in Indexed
        BY <1>1, <2>1 DEF TakenOf
      <4>2. C!Size(Append(t, s[k])) = C!Size(t) + s[k].size
        BY <4>1, SizeAppend
      <4>3. C!Size(t) \in Nat /\ s[k].size \in Nat
        BY <4>1, SizeNat DEF C!ContextConstants
      <4> QED
        BY <2>5, <4>2, <4>3
    <3> QED
      BY <2>1, <2>3, <3>1, <3>3, <3>4
  <2> QED
    BY <2>4, <2>5
<1> HIDE DEF S, n
<1>5. n \in S
  <2>1. \A k \in 0..n : k \in S
    BY <1>1, <1>3, <1>4, Upwards
  <2> QED
    BY <1>1, <2>1
<1> QED
  BY <1>2, <1>5 DEF S, n

\* What is shown and cited of the passages found.
LEMMA SelectedPassages ==
  ASSUME C!ContextConstants, NEW s \in Seq(Indexed), NEW max \in Nat
  PROVE  LET t == C!SelectContext(s, max)
         IN  /\ t \in Seq(Indexed) /\ \A a \in DOMAIN t : \E m \in DOMAIN s : t[a] = s[m]
             /\ C!Size(t) \in Nat /\ C!Size(t) <= max /\ C!Dedupe(t) = t
<1> DEFINE d == C!Dedupe(s)
           t == C!Fitting(d, max)
<1>1. TakenOf(d, s, Len(s)) /\ Different(d)
  BY Deduped
<1>2. d \in Seq(Indexed)
  BY <1>1 DEF TakenOf
<1> HIDE DEF d
<1>3. TakenOf(t, d, Len(d)) /\ Different(t) /\ C!Size(t) <= max
  BY <1>1, <1>2, Fitted
<1>4. t \in Seq(Indexed)
  BY <1>3 DEF TakenOf
<1> HIDE DEF t
<1>5. DOMAIN s = 1..Len(s) /\ DOMAIN d = 1..Len(d)
  BY <1>2
<1>6. ASSUME NEW a \in DOMAIN t PROVE \E m \in DOMAIN s : t[a] = s[m]
  <2>1. PICK n \in 1..Len(d) : t[a] = d[n]
    BY <1>3 DEF TakenOf
  <2>2. PICK m \in 1..Len(s) : d[n] = s[m]
    BY <1>1, <1>5, <2>1 DEF TakenOf
  <2> QED
    BY <1>5, <2>1, <2>2
<1>7. C!Size(t) \in Nat /\ C!Dedupe(t) = t
  BY <1>3, <1>4, SizeNat, DedupedOnce
<1> QED
  BY <1>3, <1>4, <1>6, <1>7 DEF C!SelectContext, d, t

LEMMA MemoryFits ==
  ASSUME NEW s \in Seq(Nat), NEW max \in Nat
  PROVE  C!MemoryBlock(s, max) \in Nat /\ C!MemoryBlock(s, max) <= max
<1> DEFINE fits == {k \in 1..Len(s) : C!Leading(s, k) <= max}
           most == CHOOSE k \in fits : \A l \in fits : l <= k
<1>1. C!MemoryBlock(s, max) = IF s = <<>> THEN 0 ELSE IF fits = {} THEN max ELSE C!Leading(s, most)
  BY DEF C!MemoryBlock
<1>2. ASSUME fits # {} PROVE most \in fits
  <2> DEFINE n == Len(s)
             above == {n - k : k \in fits}
  <2>1. n \in Nat /\ fits \subseteq 1..n
    OBVIOUS
  <2> HIDE DEF fits, n
  <2>2. above \subseteq Nat /\ above # {}
    <3>1. \A k \in fits : n - k \in Nat
      BY <2>1
    <3>2. PICK k \in fits : TRUE
      BY <1>2
    <3>3. n - k \in above
      OBVIOUS
    <3> QED
      BY <3>1, <3>3
  <2>3. PICK x \in above : \A y \in above : x =< y
    <3> HIDE DEF above
    <3> QED
      BY <2>2, Lowest
  <2>4. PICK k \in fits : x = n - k
    OBVIOUS
  <2>5. \A l \in fits : l <= k
    <3> TAKE l \in fits
    <3>1. n - k =< n - l /\ k \in 1..n /\ l \in 1..n
      BY <2>1, <2>3, <2>4
    <3> QED
      BY <2>1, <3>1
  <2> QED
    BY <2>5
<1>3. fits # {} => C!Leading(s, most) \in Nat /\ C!Leading(s, most) <= max
  <2>1. \A k \in fits : k \in 0..Len(s) /\ C!Leading(s, k) <= max
    OBVIOUS
  <2> HIDE DEF fits, most
  <2> QED
    BY <1>2, <2>1, LeadingNat
<1> HIDE DEF fits, most
<1> QED
  BY <1>1, <1>3

\* A block that is not cut short shows every passage whole.
LEMMA WholeBlock ==
  ASSUME C!ContextConstants, NEW rag \in Seq(Indexed), NEW size \in Nat
  PROVE  /\ C!Cut(rag, size).size \in Nat /\ C!Cut(rag, size).size <= size /\ C!Cut(rag, size).size <= C!Size(rag)
         /\ C!Size(rag) <= size => C!Cut(rag, size).whole = Len(rag) /\ C!Cut(rag, size).size = C!Size(rag)
<1> DEFINE n == Len(rag)
           whole == {k \in 0..n : C!Leading(C!Sizes(rag), k) <= size}
           most == CHOOSE k \in whole : \A l \in whole : l <= k
<1>1. C!Cut(rag, size) = [passages |-> rag, whole |-> most,
                         size |-> IF C!Size(rag) < size THEN C!Size(rag) ELSE size]
  BY DEF C!Cut
<1>2. C!Size(rag) \in Nat
  BY SizeNat
<1>3. ASSUME C!Size(rag) <= size PROVE most = n
  <2>1. n \in Nat
    OBVIOUS
  <2>2. C!Leading(C!Sizes(rag), n) = C!Size(rag)
    BY SizesOf DEF C!Size, C!Total
  <2> HIDE DEF n
  <2>3. n \in whole /\ whole \subseteq 0..n
    BY <1>3, <2>1, <2>2
  <2> HIDE DEF whole
  <2>4. \A l \in whole : l <= n
    BY <2>1, <2>3
  <2>5. most \in whole /\ \A l \in whole : l <= most
    BY <2>3, <2>4
  <2> HIDE DEF most
  <2> QED
    BY <2>1, <2>3, <2>5
<1> HIDE DEF n, most
<1>4. /\ C!Cut(rag, size).whole = most
      /\ C!Cut(rag, size).size = IF C!Size(rag) < size THEN C!Size(rag) ELSE size
  BY <1>1
<1> QED
  BY <1>2, <1>3, <1>4 DEF n

-----------------------------------------------------------------------------
(* TurnContext: the prompt                                                    *)

ContextLimits == [messages : Nat, history : Nat, context : Nat, rag : Nat, memory : Nat]

\* What the prompt's blocks come to beside the history.
Used(p) == p.summary + p.ragSize + p.memory + ctxAsk.current

\* The blocks: within the limit, the context block whole when there is room for all.
LEMMA BlocksFit ==
  ASSUME C!ContextConstants, ctxAsk \in C!Ask, ctxLimits \in ContextLimits,
         NEW rag \in Seq(Indexed), C!Size(rag) <= ctxLimits.rag,
         NEW memory \in Nat, memory <= ctxLimits.memory
  PROVE  LET p == C!Built(rag, memory)
         IN  /\ p.rag = rag /\ p.memory = memory /\ p.summary \in Nat /\ p.ragSize \in Nat
             /\ C!RoomForAll => p.whole = Len(rag)
             /\ Used(p) <= ctxLimits.context \/ ctxAsk.current + memory > ctxLimits.context
             /\ p.history = C!TakeBack(ctxAsk.history, C!Recent(ctxAsk.history),
                                       C!Rest(ctxLimits.context, Used(p)), FALSE)
<1> DEFINE current == ctxAsk.current
           context == ctxLimits.context
           size == C!Size(rag)
           trimmed == C!Recent(ctxAsk.history) < Len(ctxAsk.history)
           summary == IF trimmed THEN ctxAsk.summary ELSE 0
           over == C!Reserved(current, size, memory, summary) > context
           kept == IF over THEN 0 ELSE summary
           room == IF over THEN C!Rest(context, current + memory) ELSE size
           cut == C!Cut(rag, room)
           left == C!Rest(context, C!Reserved(current, cut.size, memory, kept))
           p == C!Built(rag, memory)
<1>1. p = [rag |-> rag, whole |-> cut.whole, ragSize |-> cut.size, summary |-> kept, memory |-> memory,
           history |-> C!TakeBack(ctxAsk.history, C!Recent(ctxAsk.history), left, FALSE)]
  BY DEF C!Built
<1>2. /\ p.rag = rag /\ p.whole = cut.whole /\ p.ragSize = cut.size /\ p.summary = kept /\ p.memory = memory
      /\ p.history = C!TakeBack(ctxAsk.history, C!Recent(ctxAsk.history), left, FALSE)
  <2> HIDE DEF p, cut, kept, left
  <2> QED
    BY <1>1
<1>3. current \in Nat /\ ctxAsk.summary \in Nat /\ context \in Nat /\ ctxLimits.rag \in Nat /\ ctxLimits.memory \in Nat
  BY DEF C!Ask, ContextLimits
<1>4. size \in Nat
  BY SizeNat
<1> HIDE DEF p, trimmed, size, current, context
<1>5. summary \in Nat
  BY <1>3
<1> HIDE DEF summary
<1>6. kept \in Nat /\ room \in Nat
  BY <1>3, <1>4, <1>5 DEF C!Rest
<1>7. over <=> current + size + memory + summary > context
  BY DEF C!Reserved
<1>8. over => kept = 0 /\ room = IF current + memory < context THEN context - (current + memory) ELSE 0
  BY DEF C!Rest
<1>9. ~over => kept = summary /\ room = size
  OBVIOUS
<1> HIDE DEF over, kept, room
<1>10. cut.size \in Nat /\ cut.size <= room /\ (size <= room => cut.whole = Len(rag) /\ cut.size = size)
  BY <1>6, WholeBlock DEF size
<1>11. C!RoomForAll => current + ctxLimits.rag + ctxLimits.memory <= context
  BY DEF C!RoomForAll, current, context
<1>12. size <= ctxLimits.rag
  BY DEF size
<1>13. left = C!Rest(context, Used(p)) /\ Used(p) = kept + cut.size + memory + current
  <2>1. Used(p) = kept + cut.size + memory + current
    BY <1>2 DEF Used, current
  <2>2. C!Reserved(current, cut.size, memory, kept) = Used(p)
    BY <1>3, <1>6, <1>10, <2>1 DEF C!Reserved
  <2> QED
    BY <2>1, <2>2
<1> DEFINE shown == cut.size
<1> HIDE DEF left, cut
<1>14. shown \in Nat /\ shown <= room /\ (size <= room => shown = size)
  BY <1>10
<1>15. Used(p) = kept + shown + memory + current
  BY <1>13
<1> HIDE DEF shown
<1>16. Used(p) <= context \/ current + memory > context
  BY <1>3, <1>4, <1>5, <1>6, <1>7, <1>8, <1>9, <1>14, <1>15
<1>17. C!RoomForAll => size <= room
  <2> DEFINE ragMax == ctxLimits.rag
             memoryMax == ctxLimits.memory
  <2>1. ragMax \in Nat /\ memoryMax \in Nat /\ memory <= memoryMax /\ size <= ragMax
    BY <1>3, <1>12
  <2>2. C!RoomForAll => current + ragMax + memoryMax <= context
    BY <1>11
  <2> HIDE DEF ragMax, memoryMax
  <2> QED
    BY <1>3, <1>4, <1>6, <1>8, <1>9, <2>1, <2>2
<1>18. C!RoomForAll => p.whole = Len(rag)
  BY <1>2, <1>10, <1>17
<1> QED
  BY <1>2, <1>6, <1>10, <1>13, <1>16, <1>18 DEF p, current, context

HistoryFitsIn(p, k) ==
  /\ k <= ctxLimits.messages
  /\ C!Trailing(ctxAsk.history, k) <= ctxLimits.history \/ k = 1
  /\ Used(p) + C!Trailing(ctxAsk.history, k) <= ctxLimits.context

\* The history: the longest recent part that fits beside the blocks.
LEMMA LongestHistory ==
  ASSUME ctxAsk \in C!Ask, ctxLimits \in ContextLimits, NEW p, Used(p) \in Nat,
         p.history = C!TakeBack(ctxAsk.history, C!Recent(ctxAsk.history),
                                C!Rest(ctxLimits.context, Used(p)), FALSE)
  PROVE  /\ p.history > 0 => HistoryFitsIn(p, p.history)
         /\ \A k \in 1..Len(ctxAsk.history) : HistoryFitsIn(p, k) => k <= p.history
<1> DEFINE s == ctxAsk.history
           n == Len(s)
           used == Used(p)
           context == ctxLimits.context
           messages == ctxLimits.messages
           max == ctxLimits.history
           most == IF n < messages THEN n ELSE messages
           recent == C!Recent(s)
           left == C!Rest(context, used)
           h == p.history
           Back(k) == C!Trailing(s, k)
<1>1. s \in C!History /\ context \in Nat /\ messages \in Nat /\ max \in Nat /\ used \in Nat
  BY DEF C!Ask, ContextLimits
<1>2. n \in Nat
  BY <1>1 DEF C!History
<1>3. left = IF used < context THEN context - used ELSE 0
  BY DEF C!Rest
<1>4. recent = C!TakeBack(s, most, max, TRUE) /\ h = C!TakeBack(s, recent, left, FALSE)
  BY DEF C!Recent
<1>5. \A i \in 0..n : Back(i) \in Nat /\ (i > 0 => Back(i) > 0) /\ \A j \in 0..n : i <= j => Back(i) <= Back(j)
  <2> SUFFICES ASSUME NEW i \in 0..n
               PROVE Back(i) \in Nat /\ (i > 0 => Back(i) > 0) /\ \A j \in 0..n : i <= j => Back(i) <= Back(j)
    OBVIOUS
  <2>1. Back(i) \in Nat /\ (i > 0 => Back(i) > 0)
    <3>1. i <= i
      BY <1>2
    <3> QED
      BY <1>1, <3>1, TrailingGrows
  <2>2. \A j \in 0..n : i <= j => Back(i) <= Back(j)
    BY <1>1, TrailingGrows
  <2> QED
    BY <2>1, <2>2
<1> HIDE DEF s, used, context, messages, max, h, left, recent
<1>6. left \in Nat /\ most \in 0..n /\ most <= messages /\ (most < n => most = messages)
  BY <1>1, <1>2, <1>3
<1> HIDE DEF n, most
<1>7. /\ recent \in 0..most
      /\ \A l \in 1..recent : FitsBack(s, l, max, TRUE)
      /\ recent < most => ~FitsBack(s, recent + 1, max, TRUE)
  BY <1>1, <1>4, <1>6, TakesBack DEF n
<1>8. recent \in 0..n
  BY <1>2, <1>6, <1>7
<1>9. /\ h \in 0..recent
      /\ \A l \in 1..h : FitsBack(s, l, left, FALSE)
      /\ h < recent => ~FitsBack(s, h + 1, left, FALSE)
  BY <1>1, <1>4, <1>6, <1>8, TakesBack DEF n
<1>10. /\ \A l \in 1..recent : Back(l) <= max \/ l = 1
       /\ recent < most => ~(Back(recent + 1) <= max) /\ recent + 1 # 1
       /\ \A l \in 1..h : Back(l) <= left
       /\ h < recent => ~(Back(h + 1) <= left)
  BY <1>7, <1>9 DEF FitsBack
<1> HIDE DEF Back
<1>11. ASSUME NEW k \in 1..n
       PROVE  HistoryFitsIn(p, k) <=> k <= messages /\ (Back(k) <= max \/ k = 1) /\ used + Back(k) <= context
  BY DEF HistoryFitsIn, Back, s, used, messages, max, context
<1>12. ASSUME h > 0 PROVE HistoryFitsIn(p, h)
  <2>1. h \in 1..n /\ h \in 1..h /\ h \in 1..recent /\ h <= messages /\ h \in 0..n
    BY <1>1, <1>2, <1>6, <1>7, <1>8, <1>9, <1>12
  <2>2. Back(h) \in Nat /\ Back(h) > 0 /\ Back(h) <= left
    BY <1>5, <1>10, <1>12, <2>1
  <2>3. used + Back(h) <= context
    BY <1>1, <1>3, <2>2
  <2> QED
    BY <1>10, <1>11, <2>1, <2>3
<1>13. ASSUME NEW k \in 1..n, HistoryFitsIn(p, k) PROVE k <= h
  <2>1. k <= messages /\ (Back(k) <= max \/ k = 1) /\ used + Back(k) <= context
    BY <1>11, <1>13
  <2>2. k \in 0..n /\ k > 0 /\ k \in Nat
    BY <1>2
  <2>3. Back(k) \in Nat /\ Back(k) > 0
    BY <1>5, <2>2
  <2>4. k <= most
    BY <1>1, <1>2, <1>6, <2>1, <2>2
  <2>5. k <= recent
    <3> SUFFICES ASSUME ~(k <= recent) PROVE FALSE
      OBVIOUS
    <3>1. recent < most /\ recent + 1 <= k /\ recent + 1 \in 0..n /\ (k # 1 \/ recent + 1 = 1)
      BY <1>2, <1>8, <1>6, <2>2, <2>4
    <3>2. recent < most
      BY <1>2, <1>8, <1>6, <2>2, <2>4
    <3>3. recent + 1 <= k /\ recent + 1 \in 0..n /\ k # 1
      BY <1>10, <3>1, <3>2
    <3>4. Back(recent + 1) <= Back(k) /\ Back(recent + 1) \in Nat
      BY <1>5, <2>2, <3>3
    <3> QED
      BY <1>1, <1>10, <2>1, <2>3, <3>2, <3>3, <3>4
  <2>6. Back(k) <= left
    BY <1>1, <1>3, <2>1, <2>3
  <2>7. SUFFICES ASSUME ~(k <= h) PROVE FALSE
    OBVIOUS
  <2>8. h < recent /\ h + 1 <= k /\ h + 1 \in 0..n
    BY <1>2, <1>8, <1>9, <2>2, <2>5, <2>7
  <2>9. Back(h + 1) <= Back(k) /\ Back(h + 1) \in Nat
    BY <1>5, <2>2, <2>8
  <2> QED
    BY <1>6, <1>10, <2>3, <2>6, <2>8, <2>9
<1> QED
  BY <1>12, <1>13 DEF h, n, s

-----------------------------------------------------------------------------
(* TurnContext: the invariant                                                 *)

ContextTypes ==
  /\ ctxPc \in {"idle", "scope", "embedding", "found", "notFound", "error", "noContext", "prompted", "answered"}
  /\ ctxAsk \in Asks \cup {C!NoAsk} /\ ctxLimits \in Limits \cup {C!NoLimits}
  /\ ctxEligible \subseteq Documents
  /\ ctxFound \in Seq(Indexed) /\ ctxCited \in Seq(Indexed)
  /\ ctxMarkers \subseteq 1..Len(ctxCited)

\* A document the request may be answered from: selected, and there when the search ran.
Usable(d) == d \in ctxEligible /\ (ctxAsk.scope = "some" => d \in ctxAsk.docs)

\* No document is withdrawn after the search, and what the search found is usable.
FoundIsUsable ==
  /\ ctxPc \in {"idle", "scope", "embedding", "notFound", "error"} => ctxFound = <<>>
  /\ \A i \in DOMAIN ctxFound : Usable(ctxFound[i].doc)

\* Nothing is cited before the prompt is built, and only passages that stand in it under their number.
CitedIsShown ==
  /\ ctxPc \notin {"prompted", "answered"} => ctxCited = <<>>
  /\ \A n \in 1..Len(ctxCited) :
       /\ ctxCited[n] = ctxPrompt.rag[n]
       /\ Usable(ctxCited[n].doc)
       /\ C!RoomForAll => n <= ctxPrompt.whole

PromptFits ==
  ctxPc = "prompted" /\ ctxAsk.kind = "chat" =>
    /\ Used(ctxPrompt) <= ctxLimits.context \/ ctxAsk.current + ctxPrompt.memory > ctxLimits.context
    /\ ctxPrompt.history > 0 => HistoryFitsIn(ctxPrompt, ctxPrompt.history)
    /\ \A k \in 1..Len(ctxAsk.history) : HistoryFitsIn(ctxPrompt, k) => k <= ctxPrompt.history

ContextInv == ContextTypes /\ FoundIsUsable /\ CitedIsShown /\ PromptFits

LEMMA ContextOf ==
  ASSUME C!ContextConstants, ContextTypes
  PROVE  ctxAsk \in C!Ask /\ ctxLimits \in ContextLimits
<1>1. C!NoAsk \in C!Ask
  <2>1. <<>> \in Seq(Nat \ {0}) /\ <<>> \in Seq(Nat)
    OBVIOUS
  <2> QED
    BY <2>1 DEF C!NoAsk, C!Ask, C!History
<1>2. C!NoLimits \in ContextLimits
  BY DEF C!NoLimits, ContextLimits
<1>3. ctxAsk \in Asks => ctxAsk \in C!Ask
  BY DEF C!ContextConstants
<1>4. ctxLimits \in Limits => ctxLimits \in ContextLimits
  BY DEF C!ContextConstants, ContextLimits
<1> QED
  BY <1>1, <1>2, <1>3, <1>4 DEF ContextTypes

LEMMA ContextInit ==
  C!Init => ContextInv
<1> SUFFICES ASSUME C!Init PROVE ContextInv
  OBVIOUS
<1>1. <<>> \in Seq(Indexed) /\ Len(<<>>) = 0 /\ DOMAIN <<>> = {} /\ \A n \in 1..0 : FALSE
  OBVIOUS
<1>2. ctxPc = "idle" /\ ctxFound = <<>> /\ ctxCited = <<>> /\ ctxMarkers = {}
  BY DEF C!Init
<1>3. ContextTypes
  BY <1>1, <1>2 DEF C!Init, ContextTypes
<1>4. FoundIsUsable /\ CitedIsShown /\ PromptFits
  BY <1>1, <1>2 DEF FoundIsUsable, CitedIsShown, PromptFits
<1> QED
  BY <1>3, <1>4 DEF ContextInv

\* The passages selected are usable, within their limit and cited once each.
LEMMA SelectedIsUsable ==
  ASSUME C!ContextConstants, ContextInv
  PROVE  /\ C!Selected \in Seq(Indexed) /\ C!Size(C!Selected) <= ctxLimits.rag
         /\ C!Dedupe(C!Selected) = C!Selected
         /\ \A n \in 1..Len(C!Selected) : Usable(C!Selected[n].doc)
<1> DEFINE t == C!SelectContext(ctxFound, ctxLimits.rag)
<1>1. ctxFound \in Seq(Indexed) /\ ctxLimits.rag \in Nat
  BY ContextOf DEF ContextInv, ContextTypes, ContextLimits
<1>2. /\ t \in Seq(Indexed) /\ \A a \in DOMAIN t : \E m \in DOMAIN ctxFound : t[a] = ctxFound[m]
      /\ C!Size(t) <= ctxLimits.rag /\ C!Dedupe(t) = t
  BY <1>1, SelectedPassages
<1> HIDE DEF t
<1>3. DOMAIN t = 1..Len(t)
  BY <1>2
<1>4. \A n \in 1..Len(t) : Usable(t[n].doc)
  BY <1>2, <1>3 DEF ContextInv, FoundIsUsable
<1>5. C!Selected = t
  BY DEF C!Selected, t
<1> QED
  BY <1>2, <1>4, <1>5

\* A step before the prompt is built, and after: what a prompt is made of stays.
LEMMA BeforeThePrompt ==
  ASSUME ctxCited = <<>>, ctxCited' = ctxCited, ctxPc' # "prompted"
  PROVE  CitedIsShown' /\ PromptFits'
<1>1. Len(ctxCited') = 0 /\ \A n \in 1..0 : FALSE
  OBVIOUS
<1> QED
  BY <1>1 DEF CitedIsShown, PromptFits

LEMMA ContextStep ==
  ASSUME C!ContextConstants, ContextInv, [C!Next]_(C!vars)
  PROVE  ContextInv'
<1> USE DEF ContextInv
<1>a. <<>> \in Seq(Indexed) /\ Len(<<>>) = 0 /\ DOMAIN <<>> = {} /\ \A n \in 1..0 : FALSE
  OBVIOUS
<1>b. ctxPc \notin {"prompted", "answered"} => ctxCited = <<>>
  BY DEF CitedIsShown
<1>1. ASSUME NEW a \in Asks, NEW settings \in Limits, C!Send(a, settings) PROVE ContextInv'
  <2>1. ctxPc = "idle" /\ ctxPc' = "scope" /\ ctxCited' = ctxCited /\ ctxFound' = ctxFound /\ ctxFound = <<>>
    BY <1>1 DEF C!Send, FoundIsUsable
  <2>2. ContextTypes'
    BY <1>1 DEF C!Send, ContextTypes
  <2>3. FoundIsUsable'
    BY <1>a, <2>1 DEF FoundIsUsable
  <2> QED
    BY <1>b, <2>1, <2>2, <2>3, BeforeThePrompt
<1>2. ASSUME NEW d \in Documents, C!Withdraw(d) PROVE ContextInv'
  <2>1. /\ ctxPc \in {"scope", "embedding"} /\ ctxPc' = ctxPc /\ ctxCited' = ctxCited
        /\ ctxFound' = ctxFound /\ ctxFound = <<>>
    BY <1>2 DEF C!Withdraw, FoundIsUsable
  <2>2. ContextTypes'
    BY <1>2 DEF C!Withdraw, ContextTypes
  <2>3. FoundIsUsable'
    BY <1>a, <2>1 DEF FoundIsUsable
  <2> QED
    BY <1>b, <2>1, <2>2, <2>3, BeforeThePrompt
<1>3. ASSUME C!NoRetrieval \/ C!CheckScope \/ C!EmbeddingFails PROVE ContextInv'
  <2>1. /\ ctxPc \in {"scope", "embedding"} /\ ctxPc' \in {"found", "notFound", "embedding", "error"}
        /\ UNCHANGED <<ctxAsk, ctxLimits, ctxEligible, ctxFound, ctxPrompt, ctxCited, ctxMarkers>>
        /\ ctxFound = <<>>
    BY <1>3 DEF C!NoRetrieval, C!CheckScope, C!EmbeddingFails, FoundIsUsable
  <2>2. ContextTypes'
    BY <2>1 DEF ContextTypes
  <2>3. FoundIsUsable'
    BY <1>a, <2>1 DEF FoundIsUsable
  <2> QED
    BY <1>b, <2>1, <2>2, <2>3, BeforeThePrompt
<1>4. ASSUME NEW rows \in C!Rows, C!Search(rows) PROVE ContextInv'
  <2>1. /\ ctxPc = "embedding" /\ ctxPc' = "found" /\ ctxFound' = rows
        /\ \A i \in DOMAIN rows : rows[i].doc \in C!Searched
        /\ UNCHANGED <<ctxAsk, ctxLimits, ctxEligible, ctxPrompt, ctxCited, ctxMarkers>>
    BY <1>4 DEF C!Search
  <2>2. rows \in Seq(Indexed)
    <3>1. PICK n \in 0..TopK : rows \in [1..n -> Indexed]
      BY DEF C!Rows
    <3>2. n \in Nat
      OBVIOUS
    <3> QED
      BY <3>1, <3>2
  <2>3. ContextTypes'
    BY <2>1, <2>2 DEF ContextTypes
  <2>4. \A i \in DOMAIN rows : Usable(rows[i].doc)
    BY <2>1 DEF C!Searched, Usable, ContextTypes
  <2>5. FoundIsUsable'
    BY <2>1, <2>4 DEF FoundIsUsable, Usable
  <2> QED
    BY <1>b, <2>1, <2>3, <2>5, BeforeThePrompt
<1>5. ASSUME C!NoContext PROVE ContextInv'
  <2>1. /\ ctxPc = "found" /\ ctxPc' = "noContext"
        /\ UNCHANGED <<ctxAsk, ctxLimits, ctxEligible, ctxFound, ctxPrompt, ctxCited, ctxMarkers>>
    BY <1>5 DEF C!NoContext
  <2>2. ContextTypes'
    BY <2>1 DEF ContextTypes
  <2>3. FoundIsUsable'
    BY <2>1 DEF FoundIsUsable, Usable
  <2> QED
    BY <1>b, <2>1, <2>2, <2>3, BeforeThePrompt
<1>6. ASSUME C!BuildChat PROVE ContextInv'
  <2> DEFINE t == C!Selected
             memory == C!MemoryBlock(ctxAsk.memories, ctxLimits.memory)
             p == C!Built(t, memory)
  <2>1. /\ ctxPc = "found" /\ ctxPc' = "prompted" /\ ctxPrompt' = p /\ ctxCited' = C!Dedupe(t)
        /\ UNCHANGED <<ctxAsk, ctxLimits, ctxEligible, ctxFound, ctxMarkers>>
    BY <1>6 DEF C!BuildChat
  <2>2. /\ t \in Seq(Indexed) /\ C!Size(t) <= ctxLimits.rag /\ ctxCited' = t
        /\ \A n \in 1..Len(t) : Usable(t[n].doc)
    BY <2>1, SelectedIsUsable
  <2>3. ctxAsk \in C!Ask /\ ctxLimits \in ContextLimits
    BY ContextOf
  <2>4. memory \in Nat /\ memory <= ctxLimits.memory
    BY <2>3, MemoryFits DEF C!Ask, ContextLimits
  <2> HIDE DEF t, memory
  <2>5. /\ p.rag = t /\ p.memory = memory /\ p.summary \in Nat /\ p.ragSize \in Nat
        /\ C!RoomForAll => p.whole = Len(t)
        /\ Used(p) <= ctxLimits.context \/ ctxAsk.current + memory > ctxLimits.context
        /\ p.history = C!TakeBack(ctxAsk.history, C!Recent(ctxAsk.history),
                                  C!Rest(ctxLimits.context, Used(p)), FALSE)
    BY <2>2, <2>3, <2>4, BlocksFit
  <2> HIDE DEF p
  <2>6. Used(p) \in Nat
    <3>1. ctxAsk.current \in Nat
      BY <2>3 DEF C!Ask
    <3> QED
      BY <2>4, <2>5, <3>1 DEF Used
  <2>7. /\ p.history > 0 => HistoryFitsIn(p, p.history)
        /\ \A k \in 1..Len(ctxAsk.history) : HistoryFitsIn(p, k) => k <= p.history
    BY <2>3, <2>5, <2>6, LongestHistory
  <2>8. ctxMarkers = {} 
    BY <1>a, <1>b, <2>1 DEF ContextTypes
  <2>9. ContextTypes'
    BY <2>1, <2>2, <2>8 DEF ContextTypes
  <2>10. FoundIsUsable'
    BY <2>1 DEF FoundIsUsable, Usable
  <2>11. CitedIsShown'
    <3>1. \A n \in 1..Len(t) : C!RoomForAll => n <= p.whole
      <4>1. Len(t) \in Nat
        BY <2>2
      <4> QED
        BY <2>5, <4>1
    <3> QED
      BY <2>1, <2>2, <2>5, <3>1 DEF CitedIsShown, Usable, C!RoomForAll
  <2>12. PromptFits'
    <3>1. ctxAsk' = ctxAsk /\ ctxLimits' = ctxLimits /\ ctxPrompt' = p
      BY <2>1
    <3>2. /\ Used(p) <= ctxLimits.context \/ ctxAsk.current + p.memory > ctxLimits.context
          /\ p.history > 0 => HistoryFitsIn(p, p.history)
          /\ \A k \in 1..Len(ctxAsk.history) : HistoryFitsIn(p, k) => k <= p.history
      BY <2>5, <2>7
    <3> QED
      BY <3>1, <3>2 DEF PromptFits, Used, HistoryFitsIn, C!Trailing, C!Total, C!Leading
  <2> QED
    BY <2>9, <2>10, <2>11, <2>12
<1>7. ASSUME C!BuildRag PROVE ContextInv'
  <2> DEFINE t == C!Selected
  <2>1. /\ ctxPc = "found" /\ ctxPc' = "prompted" /\ ctxCited' = t /\ ctxAsk.kind = "rag"
        /\ ctxPrompt'.rag = t /\ ctxPrompt'.whole = Len(t)
        /\ UNCHANGED <<ctxAsk, ctxLimits, ctxEligible, ctxFound, ctxMarkers>>
    BY <1>7 DEF C!BuildRag, C!NoPrompt
  <2>2. t \in Seq(Indexed) /\ \A n \in 1..Len(t) : Usable(t[n].doc)
    BY SelectedIsUsable
  <2> HIDE DEF t
  <2>3. ctxMarkers = {}
    BY <1>a, <1>b, <2>1 DEF ContextTypes
  <2>4. ContextTypes'
    BY <2>1, <2>2, <2>3 DEF ContextTypes
  <2>5. FoundIsUsable'
    BY <2>1 DEF FoundIsUsable, Usable
  <2>6. CitedIsShown'
    <3>1. \A n \in 1..Len(t) : n <= Len(t)
      <4>1. Len(t) \in Nat
        BY <2>2
      <4> QED
        BY <4>1
    <3> QED
      BY <2>1, <2>2, <3>1 DEF CitedIsShown, Usable
  <2>7. PromptFits'
    BY <2>1 DEF PromptFits
  <2> QED
    BY <2>4, <2>5, <2>6, <2>7
<1>8. ASSUME NEW written \in {{}, 1..(TopK + 1)}, C!Answer(written) PROVE ContextInv'
  <2>1. /\ ctxPc = "prompted" /\ ctxPc' = "answered" /\ ctxMarkers' \subseteq 1..Len(ctxCited)
        /\ UNCHANGED <<ctxAsk, ctxLimits, ctxEligible, ctxFound, ctxPrompt, ctxCited>>
    BY <1>8 DEF C!Answer, C!ValidMarkers
  <2>2. ContextTypes'
    BY <2>1 DEF ContextTypes
  <2>3. FoundIsUsable'
    BY <2>1 DEF FoundIsUsable, Usable
  <2>4. CitedIsShown'
    BY <2>1 DEF CitedIsShown, Usable, C!RoomForAll
  <2> QED
    BY <2>1, <2>2, <2>3, <2>4 DEF PromptFits
<1>9. CASE UNCHANGED C!vars
  <2>1. /\ UNCHANGED <<ctxPc, ctxAsk, ctxLimits, ctxEligible, ctxFound>>
        /\ UNCHANGED <<ctxPrompt, ctxCited, ctxMarkers>>
    BY <1>9 DEF C!vars
  <2>2. ContextTypes' /\ FoundIsUsable'
    BY <2>1 DEF ContextTypes, FoundIsUsable, Usable
  <2>3. CitedIsShown'
    BY <2>1 DEF CitedIsShown, Usable, C!RoomForAll
  <2>4. PromptFits'
    BY <2>1 DEF PromptFits, Used, HistoryFitsIn, C!Trailing, C!Total, C!Leading
  <2> QED
    BY <2>2, <2>3, <2>4
<1> QED
  BY <1>1, <1>2, <1>3, <1>4, <1>5, <1>6, <1>7, <1>8, <1>9 DEF C!Next

LEMMA ContextMatches ==
  ASSUME C!ContextConstants, ContextInv
  PROVE  PromptMatchesCitations
<1>1. C!TypeOK
  <2>1. C!Range(ctxFound) \subseteq Indexed /\ C!Range(ctxCited) \subseteq Indexed
    <3>1. /\ ctxFound \in Seq(Indexed) /\ ctxCited \in Seq(Indexed)
      BY DEF ContextInv, ContextTypes
    <3>2. \A i \in DOMAIN ctxFound : ctxFound[i] \in Indexed
      BY <3>1
    <3>3. \A i \in DOMAIN ctxCited : ctxCited[i] \in Indexed
      BY <3>1
    <3> QED
      BY <3>2, <3>3 DEF C!Range
  <2>2. ContextTypes
    BY DEF ContextInv
  <2>3. C!Range(ctxFound) \cup C!Range(ctxCited) \subseteq Indexed
    BY <2>1
  <2> QED
    BY <2>2, <2>3 DEF C!TypeOK, ContextTypes
<1>2. \A n \in 1..Len(ctxCited) :
        /\ ctxCited[n] = ctxPrompt.rag[n]
        /\ ctxCited[n].doc \in ctxEligible
        /\ ctxAsk.scope = "some" => ctxCited[n].doc \in ctxAsk.docs
        /\ C!RoomForAll => n <= ctxPrompt.whole
  BY DEF ContextInv, CitedIsShown, Usable
<1>3. \A k : C!HistoryFits(k) <=> HistoryFitsIn(ctxPrompt, k)
  BY DEF C!HistoryFits, HistoryFitsIn, Used
<1>4. ContextInv => PromptFits
  BY DEF ContextInv
<1>5. ctxPc = "prompted" /\ ctxAsk.kind = "chat" =>
        /\ \/ ctxPrompt.summary + ctxPrompt.ragSize + ctxPrompt.memory + ctxAsk.current <= ctxLimits.context
           \/ ctxAsk.current + ctxPrompt.memory > ctxLimits.context
        /\ ctxPrompt.history > 0 => C!HistoryFits(ctxPrompt.history)
        /\ \A k \in 1..Len(ctxAsk.history) : C!HistoryFits(k) => k <= ctxPrompt.history
  BY <1>3, <1>4 DEF PromptFits, Used
<1> QED
  BY <1>1, <1>2, <1>5 DEF PromptMatchesCitations, C!PromptMatchesCitations

\* Of a turn or a query: a number in the answer stands for the passage that the prompt shows whole
\* under it, from a document the request selected and the search still found; the prompt keeps to the
\* limit unless the message and its memories alone exceed it, and its history is the longest recent
\* part that fits, for every length of the blocks and every settings.
THEOREM ContextIsCitedAsShown ==
  C!Spec => []PromptMatchesCitations
<1>1. C!Init => ContextInv
  BY ContextInit
<1>2. ContextInv /\ [C!Next]_(C!vars) => ContextInv'
  BY ContextStep, TurnContextConstants
<1>3. ContextInv => PromptMatchesCitations
  BY ContextMatches, TurnContextConstants
<1> QED
  BY <1>1, <1>2, <1>3, PTL DEF C!Spec

-----------------------------------------------------------------------------
(* Indexing: texts                                                            *)

\* A text that begins and ends with a character.
Ink(s) == s \in Seq(Nat) /\ Len(s) > 0 /\ s[1] # 0 /\ s[Len(s)] # 0

\* The characters of a text come in the order of the document.
Ascending(s) == \A j, k \in DOMAIN s : j < k /\ s[j] # 0 /\ s[k] # 0 => s[j] < s[k]

\* The last of some characters does not come after that of others.
EndsBy(S, U) == \A x \in S : \E y \in U : x <= y

LEMMA HasMin ==
  ASSUME NEW S, S \subseteq Nat, S # {}
  PROVE  I!Min(S) \in S /\ \A y \in S : I!Min(S) <= y
<1>1. \E x \in S : \A y \in S : x =< y
  BY Lowest
<1> QED
  BY <1>1 DEF I!Min

LEMMA HasMax ==
  ASSUME NEW n \in Nat, NEW S, S \subseteq 0..n, S # {}
  PROVE  I!Max(S) \in S /\ \A y \in S : I!Max(S) >= y
<1> DEFINE bounds == {b \in Nat : \A y \in S : y =< b}
<1>1. n \in bounds /\ bounds \subseteq Nat
  OBVIOUS
<1> HIDE DEF bounds
<1>2. PICK x \in bounds : \A y \in bounds : x =< y
  BY <1>1, Lowest
<1> USE DEF bounds
<1>3. \A y \in S : x >= y
  BY <1>2
<1>4. x \in S
  <2> SUFFICES ASSUME x \notin S PROVE FALSE
    OBVIOUS
  <2>1. PICK z \in S : TRUE
    OBVIOUS
  <2>2. x > z /\ x \in Nat /\ z \in Nat
    BY <1>3
  <2>3. x - 1 \in bounds
    BY <1>3, <2>2
  <2> QED
    BY <1>2, <2>2, <2>3
<1> QED
  BY <1>3, <1>4 DEF I!Max

LEMMA CharactersOf ==
  ASSUME NEW s \in Seq(Nat), NEW c
  PROVE  c \in I!Characters(s) <=> c # 0 /\ \E i \in 1..Len(s) : s[i] = c
<1>1. DOMAIN s = 1..Len(s)
  OBVIOUS
<1> QED
  BY <1>1, Zenon DEF I!Characters, I!Range

LEMMA CharactersAreNat ==
  ASSUME NEW s \in Seq(Nat)
  PROVE  I!Characters(s) \subseteq Nat
BY CharactersOf

LEMMA RangeBounded ==
  ASSUME NEW s \in Seq(Nat)
  PROVE  \E n \in Nat : I!Range(s) \subseteq 0..n
<1> DEFINE S == {k \in 0..Len(s) : \E n \in Nat : \A i \in 1..k : s[i] <= n}
<1>1. Len(s) \in Nat /\ \A i \in 1..Len(s) : s[i] \in Nat
  OBVIOUS
<1>2. 0 \in S
  BY <1>1
<1>3. ASSUME NEW k \in 1..Len(s), k - 1 \in S PROVE k \in S
  <2>1. PICK n \in Nat : \A i \in 1..(k - 1) : s[i] <= n
    BY <1>3
  <2>2. \A i \in 1..k : s[i] <= n + s[k]
    BY <1>1, <2>1
  <2>3. n + s[k] \in Nat
    BY <1>1
  <2>4. \E m \in Nat : \A i \in 1..k : s[i] <= m
    BY <2>2, <2>3
  <2>5. k \in 0..Len(s)
    BY <1>1
  <2> QED
    BY <2>4, <2>5
<1> HIDE DEF S
<1>4. Len(s) \in S
  <2>1. \A k \in 0..Len(s) : k \in S
    BY <1>1, <1>2, <1>3, Upwards
  <2> QED
    BY <1>1, <2>1
<1>5. PICK n \in Nat : \A i \in 1..Len(s) : s[i] <= n
  BY <1>4 DEF S
<1>6. I!Range(s) \subseteq 0..n
  BY <1>1, <1>5 DEF I!Range
<1> QED
  BY <1>6

LEMMA Section ==
  ASSUME NEW s \in Seq(Nat), NEW a \in Nat, NEW b \in Nat, 1 <= a, b <= Len(s), a <= b + 1
  PROVE  /\ SubSeq(s, a, b) \in Seq(Nat)
         /\ Len(SubSeq(s, a, b)) = b - a + 1
         /\ \A i \in 1..(b - a + 1) : SubSeq(s, a, b)[i] = s[a + i - 1]
OBVIOUS

LEMMA SectionKeeps ==
  ASSUME NEW s \in Seq(Nat), NEW a \in Nat, NEW b \in Nat, 1 <= a, b <= Len(s), a <= b + 1
  PROVE  /\ Ascending(s) => Ascending(SubSeq(s, a, b))
         /\ \A n \in Nat : I!GapsWithin(s, n) => I!GapsWithin(SubSeq(s, a, b), n)
<1> DEFINE t == SubSeq(s, a, b)
<1>1. t \in Seq(Nat) /\ Len(t) = b - a + 1 /\ \A i \in 1..(b - a + 1) : t[i] = s[a + i - 1]
  BY Section
<1>2. DOMAIN t = 1..(b - a + 1) /\ DOMAIN s = 1..Len(s) /\ Len(s) \in Nat
  BY <1>1
<1> HIDE DEF t
<1>3. Ascending(s) => Ascending(t)
  <2> SUFFICES ASSUME Ascending(s), NEW j \in 1..(b - a + 1), NEW k \in 1..(b - a + 1), j < k,
                      t[j] # 0, t[k] # 0
               PROVE  t[j] < t[k]
    BY <1>2 DEF Ascending
  <2>1. a + j - 1 \in 1..Len(s) /\ a + k - 1 \in 1..Len(s) /\ a + j - 1 < a + k - 1
    BY <1>2
  <2> QED
    BY <1>1, <1>2, <2>1 DEF Ascending
<1>4. ASSUME NEW n \in Nat, I!GapsWithin(s, n), NEW i \in 1..(b - a + 1), i + n \in 1..(b - a + 1)
      PROVE  \E j \in i..(i + n) : t[j] # 0
  <2>1. a + i - 1 \in 1..Len(s) /\ a + i - 1 + n \in 1..Len(s)
    BY <1>2, <1>4
  <2>2. PICK j \in (a + i - 1)..(a + i - 1 + n) : s[j] # 0
    BY <1>2, <1>4, <2>1 DEF I!GapsWithin
  <2>3. j - a + 1 \in i..(i + n) /\ j - a + 1 \in 1..(b - a + 1) /\ a + (j - a + 1) - 1 = j
    BY <1>4
  <2>4. t[j - a + 1] # 0
    BY <1>1, <2>2, <2>3
  <2> QED
    BY <2>3, <2>4
<1>5. \A n \in Nat : I!GapsWithin(s, n) => I!GapsWithin(t, n)
  BY <1>2, <1>4 DEF I!GapsWithin
<1> QED
  BY <1>3, <1>5 DEF t

LEMMA StripIs ==
  ASSUME NEW s \in Seq(Nat), ~I!Blank(s)
  PROVE  \E a, b \in 1..Len(s) :
           /\ a <= b /\ I!Strip(s) = SubSeq(s, a, b) /\ s[a] # 0 /\ s[b] # 0
           /\ \A i \in 1..Len(s) : s[i] # 0 => a <= i /\ i <= b
<1> DEFINE inked == {i \in DOMAIN s : s[i] # 0}
           a == I!Min(inked)
           b == I!Max(inked)
<1>1. DOMAIN s = 1..Len(s) /\ Len(s) \in Nat
  OBVIOUS
<1>2. inked # {} /\ inked \subseteq 0..Len(s) /\ inked \subseteq Nat
  BY <1>1 DEF I!Blank
<1>3. I!Strip(s) = SubSeq(s, a, b)
  BY DEF I!Strip
<1> HIDE DEF a, b
<1>4. a \in inked /\ \A y \in inked : a <= y
  <2> HIDE DEF inked
  <2> QED
    BY <1>2, HasMin DEF a
<1>5. b \in inked /\ \A y \in inked : b >= y
  <2> HIDE DEF inked
  <2> QED
    BY <1>1, <1>2, HasMax DEF b
<1>6. a \in 1..Len(s) /\ b \in 1..Len(s) /\ a <= b /\ s[a] # 0 /\ s[b] # 0
  BY <1>1, <1>4, <1>5
<1>7. \A i \in 1..Len(s) : s[i] # 0 => a <= i /\ i <= b
  BY <1>1, <1>4, <1>5
<1> QED
  BY <1>3, <1>6, <1>7

LEMMA StripBlank ==
  ASSUME NEW s \in Seq(Nat), I!Blank(s)
  PROVE  I!Strip(s) = <<>> /\ I!Characters(s) = {}
<1>1. \A i \in 1..Len(s) : s[i] = 0
  BY DEF I!Blank
<1>2. I!Characters(s) = {}
  BY <1>1, CharactersOf
<1> QED
  BY <1>2 DEF I!Strip

LEMMA StripInk ==
  ASSUME NEW s \in Seq(Nat), ~I!Blank(s)
  PROVE  /\ Ink(I!Strip(s))
         /\ Len(I!Strip(s)) <= Len(s)
         /\ I!Characters(I!Strip(s)) = I!Characters(s)
         /\ Ascending(s) => Ascending(I!Strip(s))
         /\ \A n \in Nat : I!GapsWithin(s, n) => I!GapsWithin(I!Strip(s), n)
<1>1. PICK a, b \in 1..Len(s) :
        /\ a <= b /\ I!Strip(s) = SubSeq(s, a, b) /\ s[a] # 0 /\ s[b] # 0
        /\ \A i \in 1..Len(s) : s[i] # 0 => a <= i /\ i <= b
  BY StripIs
<1> DEFINE t == I!Strip(s)
<1>2. Len(s) \in Nat /\ a \in Nat /\ b \in Nat /\ 1 <= a /\ b <= Len(s) /\ a <= b + 1
  BY <1>1
<1>3. t \in Seq(Nat) /\ Len(t) = b - a + 1 /\ \A i \in 1..(b - a + 1) : t[i] = s[a + i - 1]
  <2>1. /\ SubSeq(s, a, b) \in Seq(Nat) /\ Len(SubSeq(s, a, b)) = b - a + 1
        /\ \A i \in 1..(b - a + 1) : SubSeq(s, a, b)[i] = s[a + i - 1]
    BY <1>2, Section
  <2> QED
    BY <1>1, <2>1
<1>4. /\ Ascending(s) => Ascending(t)
      /\ \A n \in Nat : I!GapsWithin(s, n) => I!GapsWithin(t, n)
  <2>1. /\ Ascending(s) => Ascending(SubSeq(s, a, b))
        /\ \A n \in Nat : I!GapsWithin(s, n) => I!GapsWithin(SubSeq(s, a, b), n)
    BY <1>2, SectionKeeps
  <2> QED
    BY <1>1, <2>1
<1> HIDE DEF t
<1>5. Ink(t) /\ Len(t) <= Len(s)
  <2>1. 1 \in 1..(b - a + 1) /\ a + 1 - 1 = a
    BY <1>1, <1>2
  <2>2. b - a + 1 \in 1..(b - a + 1) /\ a + (b - a + 1) - 1 = b
    BY <1>1, <1>2
  <2>3. t[1] # 0 /\ t[Len(t)] # 0
    BY <1>1, <1>3, <2>1, <2>2
  <2> QED
    BY <1>2, <1>3, <2>1, <2>3 DEF Ink
<1>6. ASSUME NEW c \in I!Characters(t) PROVE c \in I!Characters(s)
  <2>1. c # 0 /\ \E i \in 1..Len(t) : t[i] = c
    BY <1>3, CharactersOf
  <2>2. PICK i \in 1..(b - a + 1) : s[a + i - 1] = c
    BY <1>3, <2>1
  <2>3. a + i - 1 \in 1..Len(s)
    BY <1>2
  <2> QED
    BY <2>1, <2>2, <2>3, CharactersOf
<1>7. ASSUME NEW c \in I!Characters(s) PROVE c \in I!Characters(t)
  <2>1. c # 0 /\ \E i \in 1..Len(s) : s[i] = c
    BY CharactersOf
  <2>2. PICK i \in 1..Len(s) : s[i] = c
    BY <2>1
  <2>3. i - a + 1 \in 1..(b - a + 1) /\ a + (i - a + 1) - 1 = i
    BY <1>1, <1>2, <2>1, <2>2
  <2>4. t[i - a + 1] = c
    BY <1>3, <2>2, <2>3
  <2> QED
    BY <1>3, <2>1, <2>3, <2>4, CharactersOf
<1> QED
  BY <1>4, <1>5, <1>6, <1>7 DEF t

LEMMA Padded ==
  ASSUME NEW s \in Seq(Nat), NEW t \in Seq(Nat), NEW z \in Seq(Nat), \A i \in 1..Len(z) : z[i] = 0
  PROVE  /\ s \o z \o t \in Seq(Nat)
         /\ Len(s \o z \o t) = Len(s) + Len(z) + Len(t)
         /\ \A i \in 1..Len(s) : (s \o z \o t)[i] = s[i]
         /\ \A i \in 1..Len(z) : (s \o z \o t)[Len(s) + i] = 0
         /\ \A i \in 1..Len(t) : (s \o z \o t)[Len(s) + Len(z) + i] = t[i]
<1> DEFINE u == s \o z
<1>1. u \in Seq(Nat) /\ Len(u) = Len(s) + Len(z)
  OBVIOUS
<1>2. (\A i \in 1..Len(s) : u[i] = s[i]) /\ \A i \in 1..Len(z) : u[Len(s) + i] = 0
  OBVIOUS
<1>3. \A i \in 1..Len(s) : i \in 1..Len(u)
  BY <1>1
<1>4. \A i \in 1..Len(z) : Len(s) + i \in 1..Len(u)
  BY <1>1
<1> HIDE DEF u
<1>5. /\ u \o t \in Seq(Nat) /\ Len(u \o t) = Len(u) + Len(t)
      /\ \A i \in 1..Len(u) : (u \o t)[i] = u[i]
      /\ \A i \in 1..Len(t) : (u \o t)[Len(u) + i] = t[i]
  <2> u \in Seq(Nat)
    BY <1>1
  <2>1. u \o t \in Seq(Nat) /\ Len(u \o t) = Len(u) + Len(t)
    OBVIOUS
  <2>2. \A i \in 1..Len(u) : (u \o t)[i] = u[i]
    OBVIOUS
  <2>3. \A i \in 1..Len(t) : (u \o t)[Len(u) + i] = t[i]
    OBVIOUS
  <2> QED
    BY <2>1, <2>2, <2>3
<1> QED
  BY <1>1, <1>2, <1>3, <1>4, <1>5 DEF u

LEMMA PaddedPlaces ==
  ASSUME NEW a \in Nat, NEW b \in Nat, NEW d \in Nat, NEW i \in 1..(a + b + d)
  PROVE  \/ i \in 1..a
         \/ \E j \in 1..b : i = a + j
         \/ \E j \in 1..d : i = a + b + j
<1>1. CASE i <= a
  BY <1>1
<1>2. CASE a < i /\ i <= a + b
  <2>1. i - a \in 1..b /\ i = a + (i - a)
    BY <1>2
  <2> QED
    BY <2>1
<1>3. CASE a + b < i
  <2>1. i - (a + b) \in 1..d /\ i = a + b + (i - (a + b))
    BY <1>3
  <2> QED
    BY <2>1
<1> QED
  BY <1>1, <1>2, <1>3

LEMMA PaddedCharacters ==
  ASSUME NEW s \in Seq(Nat), NEW t \in Seq(Nat), NEW z \in Seq(Nat), \A i \in 1..Len(z) : z[i] = 0
  PROVE  I!Characters(s \o z \o t) = I!Characters(s) \cup I!Characters(t)
<1> DEFINE c == s \o z \o t
           ls == Len(s)
           lz == Len(z)
           lt == Len(t)
<1>1. /\ c \in Seq(Nat) /\ Len(c) = ls + lz + lt
      /\ \A i \in 1..ls : c[i] = s[i]
      /\ \A i \in 1..lz : c[ls + i] = 0
      /\ \A i \in 1..lt : c[ls + lz + i] = t[i]
  BY Padded
<1>2. ls \in Nat /\ lz \in Nat /\ lt \in Nat
  OBVIOUS
<1>6. /\ \A y : y \in I!Characters(s) <=> y # 0 /\ \E i \in 1..ls : s[i] = y
      /\ \A y : y \in I!Characters(t) <=> y # 0 /\ \E i \in 1..lt : t[i] = y
  BY CharactersOf
<1> HIDE DEF c, ls, lz, lt
<1>7. \A y : y \in I!Characters(c) <=> y # 0 /\ \E i \in 1..(ls + lz + lt) : c[i] = y
  BY <1>1, CharactersOf
<1>3. ASSUME NEW x \in I!Characters(c) PROVE x \in I!Characters(s) \cup I!Characters(t)
  <2>1. PICK i \in 1..(ls + lz + lt) : c[i] = x /\ x # 0
    BY <1>7
  <2>2. \/ i \in 1..ls
        \/ \E j \in 1..lz : i = ls + j
        \/ \E j \in 1..lt : i = ls + lz + j
    BY <1>2, PaddedPlaces
  <2>3. ASSUME i \in 1..ls PROVE x \in I!Characters(s)
    BY <1>1, <1>6, <2>1, <2>3
  <2>4. ASSUME NEW j \in 1..lz, i = ls + j PROVE FALSE
    BY <1>1, <2>1, <2>4
  <2>5. ASSUME NEW j \in 1..lt, i = ls + lz + j PROVE x \in I!Characters(t)
    BY <1>1, <1>6, <2>1, <2>5
  <2> QED
    BY <2>2, <2>3, <2>4, <2>5
<1>4. ASSUME NEW x \in I!Characters(s) PROVE x \in I!Characters(c)
  <2>1. PICK i \in 1..ls : s[i] = x /\ x # 0
    BY <1>6
  <2>2. i \in 1..(ls + lz + lt)
    BY <1>1, <1>2
  <2> QED
    BY <1>1, <1>6, <1>7, <2>1, <2>2
<1>5. ASSUME NEW x \in I!Characters(t) PROVE x \in I!Characters(c)
  <2>1. PICK i \in 1..lt : t[i] = x /\ x # 0
    BY <1>6
  <2>2. ls + lz + i \in 1..(ls + lz + lt)
    BY <1>1, <1>2
  <2> QED
    BY <1>1, <1>6, <1>7, <2>1, <2>2
<1> QED
  BY <1>3, <1>4, <1>5 DEF c

\* White space of at most n between two texts makes no longer run than those they have.
LEMMA PaddedGaps ==
  ASSUME NEW s \in Seq(Nat), NEW t \in Seq(Nat), NEW z \in Seq(Nat), \A i \in 1..Len(z) : z[i] = 0,
         NEW n \in Nat, Len(z) <= n, I!GapsWithin(s, n), I!GapsWithin(t, n),
         Len(s) > 0, s[Len(s)] # 0, Len(t) > 0, t[1] # 0
  PROVE  I!GapsWithin(s \o z \o t, n)
<1> DEFINE c == s \o z \o t
           ls == Len(s)
           lz == Len(z)
           lt == Len(t)
<1>1. /\ c \in Seq(Nat) /\ Len(c) = ls + lz + lt
      /\ \A i \in 1..ls : c[i] = s[i]
      /\ \A i \in 1..lt : c[ls + lz + i] = t[i]
  BY Padded
<1>2. ls \in Nat /\ lz \in Nat /\ lt \in Nat /\ ls > 0 /\ lt > 0 /\ lz <= n
  OBVIOUS
<1>3. DOMAIN c = 1..(ls + lz + lt) /\ DOMAIN s = 1..ls /\ DOMAIN t = 1..lt
  BY <1>1
<1> HIDE DEF c
<1>4. c[ls] # 0 /\ c[ls + lz + 1] # 0
  <2>1. c[ls] = s[ls] /\ c[ls + lz + 1] = t[1]
    <3>1. s[ls] # 0 /\ t[1] # 0
      OBVIOUS
    <3> HIDE DEF ls, lz, lt
    <3>2. ls \in 1..ls /\ 1 \in 1..lt
      BY <1>2
    <3> QED
      BY <1>1, <3>2
  <2> QED
    BY <2>1
<1>5. ASSUME NEW i \in 1..(ls + lz + lt), i + n \in 1..(ls + lz + lt)
      PROVE  \E j \in i..(i + n) : c[j] # 0
  <2>1. CASE i + n <= ls
    <3>1. i \in 1..ls /\ i + n \in 1..ls
      BY <1>2, <2>1
    <3>2. PICK j \in i..(i + n) : s[j] # 0
      BY <1>3, <3>1 DEF I!GapsWithin
    <3>3. j \in 1..ls
      BY <3>1
    <3> QED
      BY <1>1, <3>2, <3>3
  <2>2. CASE i <= ls /\ ls < i + n
    <3>1. ls \in i..(i + n)
      BY <1>2, <2>2
    <3> QED
      BY <1>4, <3>1
  <2>3. CASE ls < i /\ i <= ls + lz + 1
    <3>1. ls + lz + 1 \in i..(i + n)
      BY <1>2, <2>3
    <3> QED
      BY <1>4, <3>1
  <2>4. CASE ls + lz + 1 < i
    <3> DEFINE k == i - (ls + lz)
    <3>1. k \in 1..lt /\ k + n \in 1..lt
      BY <1>2, <1>5, <2>4
    <3>2. PICK j \in k..(k + n) : t[j] # 0
      BY <1>3, <3>1 DEF I!GapsWithin
    <3>3. j \in 1..lt /\ ls + lz + j \in i..(i + n)
      BY <1>2, <3>1
    <3> QED
      BY <1>1, <3>2, <3>3
  <2> HIDE DEF ls, lz, lt
  <2> QED
    BY <1>2, <2>1, <2>2, <2>3, <2>4
<1>6. I!GapsWithin(c, n)
  BY <1>3, <1>5 DEF I!GapsWithin
<1> QED
  BY <1>6 DEF c

LEMMA PaddedAscending ==
  ASSUME NEW s \in Seq(Nat), NEW t \in Seq(Nat), NEW z \in Seq(Nat), \A i \in 1..Len(z) : z[i] = 0,
         Ascending(s), Ascending(t), I!Before(I!Characters(s), I!Characters(t))
  PROVE  Ascending(s \o z \o t)
<1> DEFINE c == s \o z \o t
           ls == Len(s)
           lz == Len(z)
           lt == Len(t)
<1>1. /\ c \in Seq(Nat) /\ Len(c) = ls + lz + lt
      /\ \A i \in 1..ls : c[i] = s[i]
      /\ \A i \in 1..lz : c[ls + i] = 0
      /\ \A i \in 1..lt : c[ls + lz + i] = t[i]
  BY Padded
<1>2. ls \in Nat /\ lz \in Nat /\ lt \in Nat
  OBVIOUS
<1>3. DOMAIN c = 1..(ls + lz + lt) /\ DOMAIN s = 1..ls /\ DOMAIN t = 1..lt
  BY <1>1
<1>4. \A i \in 1..ls, j \in 1..lt : s[i] # 0 /\ t[j] # 0 => s[i] < t[j]
  BY CharactersOf DEF I!Before
<1> HIDE DEF c, ls, lz, lt
<1>5. ASSUME NEW j \in 1..(ls + lz + lt), NEW k \in 1..(ls + lz + lt), j < k, c[j] # 0, c[k] # 0
      PROVE  c[j] < c[k]
  <2>1. j \in 1..ls \/ \E i \in 1..lt : j = ls + lz + i
    <3>1. \/ j \in 1..ls
          \/ \E i \in 1..lz : j = ls + i
          \/ \E i \in 1..lt : j = ls + lz + i
      BY <1>2, PaddedPlaces
    <3> QED
      BY <1>1, <1>5, <3>1
  <2>2. k \in 1..ls \/ \E i \in 1..lt : k = ls + lz + i
    <3>1. \/ k \in 1..ls
          \/ \E i \in 1..lz : k = ls + i
          \/ \E i \in 1..lt : k = ls + lz + i
      BY <1>2, PaddedPlaces
    <3> QED
      BY <1>1, <1>5, <3>1
  <2>3. CASE j \in 1..ls /\ k \in 1..ls
    BY <1>1, <1>3, <1>5, <2>3 DEF Ascending
  <2>4. CASE j \in 1..ls /\ \E i \in 1..lt : k = ls + lz + i
    BY <1>1, <1>4, <1>5, <2>4
  <2>5. ASSUME NEW i \in 1..lt, j = ls + lz + i, NEW m \in 1..lt, k = ls + lz + m PROVE c[j] < c[k]
    <3>1. i < m
      BY <1>2, <1>5, <2>5
    <3>2. c[j] = t[i] /\ c[k] = t[m]
      BY <1>1, <2>5
    <3> QED
      BY <1>3, <1>5, <3>1, <3>2 DEF Ascending
  <2>6. ASSUME NEW i \in 1..lt, j = ls + lz + i, k \in 1..ls PROVE FALSE
    BY <1>2, <1>5, <2>6
  <2> QED
    BY <2>1, <2>2, <2>3, <2>4, <2>5, <2>6
<1>6. Ascending(c)
  BY <1>3, <1>5 DEF Ascending
<1> QED
  BY <1>6 DEF c

LEMMA InkHasCharacters ==
  ASSUME NEW s, Ink(s)
  PROVE  /\ I!Characters(s) # {} /\ I!Characters(s) \subseteq Nat
         /\ s[1] \in I!Characters(s) /\ s[Len(s)] \in I!Characters(s) /\ ~I!Blank(s)
<1>1. s \in Seq(Nat) /\ Len(s) \in Nat /\ 1 \in 1..Len(s) /\ Len(s) \in 1..Len(s) /\ DOMAIN s = 1..Len(s)
  BY DEF Ink
<1>2. s[1] \in I!Characters(s) /\ s[Len(s)] \in I!Characters(s)
  BY <1>1, CharactersOf DEF Ink
<1>3. ~I!Blank(s)
  BY <1>1 DEF Ink, I!Blank
<1> QED
  BY <1>1, <1>2, <1>3, CharactersAreNat

-----------------------------------------------------------------------------
(* Indexing: several texts                                                    *)

Texts == Seq(Seq(Nat))

LEMMA AllOfNone == I!AllOf(<<>>) = {}
BY DEF I!AllOf

LEMMA AllOfHas ==
  ASSUME NEW q, NEW x
  PROVE  x \in I!AllOf(q) <=> \E i \in DOMAIN q : x \in I!Characters(q[i])
BY Zenon DEF I!AllOf

LEMMA OneText ==
  ASSUME NEW s \in Seq(Nat)
  PROVE  <<s>> \in Texts /\ Len(<<s>>) = 1 /\ DOMAIN <<s>> = 1..1 /\ <<s>>[1] = s /\ I!AllOf(<<s>>) = I!Characters(s)
<1>1. <<s>> \in Texts /\ Len(<<s>>) = 1 /\ DOMAIN <<s>> = 1..1 /\ <<s>>[1] = s
  BY DEF Texts
<1>2. \A i \in DOMAIN <<s>> : <<s>>[i] = s
  BY <1>1
<1>3. 1 \in DOMAIN <<s>>
  BY <1>1
<1>4. \A x : x \in I!AllOf(<<s>>) <=> x \in I!Characters(s)
  BY <1>2, <1>3, AllOfHas
<1> QED
  BY <1>1, <1>4

LEMMA TwoTexts ==
  ASSUME NEW p \in Texts, NEW q \in Texts
  PROVE  /\ p \o q \in Texts /\ Len(p \o q) = Len(p) + Len(q)
         /\ \A i \in 1..Len(p) : (p \o q)[i] = p[i]
         /\ \A i \in 1..Len(q) : (p \o q)[Len(p) + i] = q[i]
         /\ \A i \in 1..Len(p \o q) : i \in 1..Len(p) \/ \E j \in 1..Len(q) : i = Len(p) + j
<1>1. p \o q \in Texts /\ Len(p \o q) = Len(p) + Len(q) /\ Len(p) \in Nat /\ Len(q) \in Nat
  BY DEF Texts
<1>2. (\A i \in 1..Len(p) : (p \o q)[i] = p[i]) /\ \A i \in 1..Len(q) : (p \o q)[Len(p) + i] = q[i]
  BY DEF Texts
<1>3. ASSUME NEW i \in 1..(Len(p) + Len(q)), i \notin 1..Len(p) PROVE \E j \in 1..Len(q) : i = Len(p) + j
  <2>1. i - Len(p) \in 1..Len(q) /\ i = Len(p) + (i - Len(p))
    BY <1>1, <1>3
  <2> QED
    BY <2>1
<1> QED
  BY <1>1, <1>2, <1>3

LEMMA AllOfTwo ==
  ASSUME NEW p \in Texts, NEW q \in Texts
  PROVE  I!AllOf(p \o q) = I!AllOf(p) \cup I!AllOf(q)
<1> DEFINE r == p \o q
<1>1. /\ r \in Texts /\ Len(r) = Len(p) + Len(q)
      /\ \A i \in 1..Len(p) : r[i] = p[i]
      /\ \A i \in 1..Len(q) : r[Len(p) + i] = q[i]
      /\ \A i \in 1..Len(r) : i \in 1..Len(p) \/ \E j \in 1..Len(q) : i = Len(p) + j
  BY TwoTexts
<1>2. /\ DOMAIN r = 1..Len(r) /\ DOMAIN p = 1..Len(p) /\ DOMAIN q = 1..Len(q)
      /\ Len(p) \in Nat /\ Len(q) \in Nat
  BY <1>1 DEF Texts
<1> HIDE DEF r
<1>3. ASSUME NEW x \in I!AllOf(r) PROVE x \in I!AllOf(p) \cup I!AllOf(q)
  <2>1. PICK i \in 1..Len(r) : x \in I!Characters(r[i])
    BY <1>2, AllOfHas
  <2> QED
    BY <1>1, <1>2, <2>1, AllOfHas
<1>4. ASSUME NEW x \in I!AllOf(p) PROVE x \in I!AllOf(r)
  <2>1. PICK i \in 1..Len(p) : x \in I!Characters(p[i])
    BY <1>2, AllOfHas
  <2>2. i \in 1..Len(r)
    BY <1>1, <1>2
  <2> QED
    BY <1>1, <1>2, <2>1, <2>2, AllOfHas
<1>5. ASSUME NEW x \in I!AllOf(q) PROVE x \in I!AllOf(r)
  <2>1. PICK i \in 1..Len(q) : x \in I!Characters(q[i])
    BY <1>2, AllOfHas
  <2>2. Len(p) + i \in 1..Len(r)
    BY <1>1, <1>2
  <2> QED
    BY <1>1, <1>2, <2>1, <2>2, AllOfHas
<1> QED
  BY <1>3, <1>4, <1>5 DEF r

LEMMA AppendIsTwo ==
  ASSUME NEW p \in Texts, NEW s \in Seq(Nat)
  PROVE  Append(p, s) = p \o <<s>>
BY DEF Texts

-----------------------------------------------------------------------------
(* Indexing: segments                                                         *)

IndexSettings == [size : Nat \ {0}, overlap : Nat, min : Nat \ {0}, chunks : Nat, text : Nat, batch : Nat \ {0},
                  input : Nat]
Sized == idxSettings \in IndexSettings /\ idxSettings.overlap < idxSettings.size

Gap == idxSettings.overlap + 2 - idxSettings.min
IsRegular == I!Regular(idxSettings, idxFile.blocks)
Spaced(s) == IsRegular => I!GapsWithin(s, Gap)

\* The last character is one of a block that is not longer, without the white space around it.
EndsBlock(s) ==
  \E i \in DOMAIN idxFile.blocks : \E x \in I!Characters(idxFile.blocks[i]) :
    /\ x \in I!Characters(s) /\ \A y \in I!Characters(s) : y <= x
    /\ Len(I!Strip(idxFile.blocks[i])) <= Len(s)

Segment(s) == Ink(s) /\ Ascending(s) /\ Spaced(s) /\ EndsBlock(s)
SegmentList(q) ==
  /\ q \in Texts
  /\ \A i \in DOMAIN q : Segment(q[i])
  /\ \A i, j \in DOMAIN q : i < j => I!Before(I!Characters(q[i]), I!Characters(q[j]))

LEMMA StripType ==
  ASSUME NEW s \in Seq(Nat)
  PROVE  I!Strip(s) \in Seq(Nat)
<1>1. CASE I!Blank(s)
  <2>1. I!Strip(s) = <<>>
    BY <1>1, StripBlank
  <2> QED
    BY <2>1
<1>2. CASE ~I!Blank(s)
  BY <1>2, StripInk DEF Ink
<1> QED
  BY <1>1, <1>2

LEMMA JoinType ==
  ASSUME NEW s \in Seq(Nat), NEW t \in Seq(Nat)
  PROVE  I!Join(s, t) \in Seq(Nat)
BY DEF I!Join

LEMMA RegularGap ==
  ASSUME Sized, IsRegular
  PROVE  /\ Gap \in Nat /\ Gap >= 2 /\ idxSettings.min <= idxSettings.overlap
         /\ idxSettings.overlap + 2 <= idxSettings.size
         /\ \A i \in DOMAIN idxFile.blocks : I!GapsWithin(I!Strip(idxFile.blocks[i]), Gap)
<1>1. idxSettings.overlap \in Nat /\ idxSettings.min \in Nat
  BY DEF Sized, IndexSettings
<1>2. idxSettings.min <= idxSettings.overlap /\ idxSettings.overlap + 2 <= idxSettings.size
  BY DEF IsRegular, I!Regular
<1> QED
  BY <1>1, <1>2 DEF Gap, IsRegular, I!Regular

LEMMA BlockIs ==
  ASSUME idxFile.blocks \in I!Contents, NEW i \in DOMAIN idxFile.blocks
  PROVE  idxFile.blocks[i] \in Seq(Nat) /\ Ascending(idxFile.blocks[i])
<1> DEFINE b == idxFile.blocks
<1>1. b \in Seq(Seq(Nat)) /\ \A m \in DOMAIN b : \A j, k \in DOMAIN b[m] :
        j < k /\ b[m][j] # 0 /\ b[m][k] # 0 => b[m][j] < b[m][k]
  BY Zenon DEF I!Contents
<1>2. b[i] \in Seq(Nat)
  BY <1>1
<1> QED
  BY <1>1, <1>2 DEF Ascending

LEMMA BlockSegment ==
  ASSUME Sized, idxFile.blocks \in I!Contents, NEW i \in DOMAIN idxFile.blocks, ~I!Blank(idxFile.blocks[i])
  PROVE  Segment(I!Strip(idxFile.blocks[i]))
<1> DEFINE b == idxFile.blocks[i]
           s == I!Strip(b)
<1>1. b \in Seq(Nat) /\ Ascending(b)
  BY BlockIs
<1>2. Ink(s) /\ Ascending(s) /\ I!Characters(s) = I!Characters(b)
  <2> HIDE DEF b
  <2> QED
    BY <1>1, StripInk DEF b
<1>3. Spaced(s)
  BY RegularGap DEF Spaced
<1>4. EndsBlock(s)
  <2> HIDE DEF s
  <2>1. s[Len(s)] \in I!Characters(s) /\ s \in Seq(Nat) /\ Len(s) \in 1..Len(s) /\ DOMAIN s = 1..Len(s) /\ s[Len(s)] # 0
    BY <1>2, InkHasCharacters DEF Ink
  <2>2. ASSUME NEW y \in I!Characters(s) PROVE y <= s[Len(s)]
    <3>1. PICK j \in 1..Len(s) : s[j] = y /\ y # 0
      BY <2>1, CharactersOf
    <3>2. CASE j = Len(s)
      BY <2>1, <3>1, <3>2
    <3>3. CASE j # Len(s)
      <4>0. Len(s) \in Nat
        BY <2>1
      <4>1. j < Len(s)
        BY <3>3, <4>0
      <4>2. s[j] < s[Len(s)]
        BY <1>2, <2>1, <3>1, <4>1 DEF Ascending
      <4> QED
        BY <2>1, <3>1, <4>2
    <3> QED
      BY <3>2, <3>3
  <2>3. Len(I!Strip(idxFile.blocks[i])) <= Len(s)
    BY <2>1 DEF s
  <2> QED
    BY <1>2, <2>1, <2>2, <2>3 DEF EndsBlock
<1> QED
  BY <1>2, <1>3, <1>4 DEF Segment

LEMMA JoinIs ==
  ASSUME NEW s, Ink(s), NEW t, Ink(t)
  PROVE  /\ I!Join(s, t) = s \o <<0, 0>> \o t
         /\ Ink(I!Join(s, t)) /\ Len(I!Join(s, t)) = Len(s) + 2 + Len(t)
         /\ I!Characters(I!Join(s, t)) = I!Characters(s) \cup I!Characters(t)
<1> DEFINE z == <<0, 0>>
           c == s \o z \o t
<1>1. s \in Seq(Nat) /\ t \in Seq(Nat) /\ s # <<>> /\ Len(s) \in Nat /\ Len(t) \in Nat /\ Len(s) > 0 /\ Len(t) > 0
  BY DEF Ink
<1>2. z \in Seq(Nat) /\ Len(z) = 2 /\ \A i \in 1..Len(z) : z[i] = 0
  OBVIOUS
<1> HIDE DEF z
<1>3. /\ c \in Seq(Nat) /\ Len(c) = Len(s) + 2 + Len(t)
      /\ \A i \in 1..Len(s) : c[i] = s[i]
      /\ \A i \in 1..Len(t) : c[Len(s) + 2 + i] = t[i]
  <2>1. /\ c \in Seq(Nat) /\ Len(c) = Len(s) + Len(z) + Len(t)
        /\ \A i \in 1..Len(s) : c[i] = s[i]
        /\ \A i \in 1..Len(t) : c[Len(s) + Len(z) + i] = t[i]
    <3>1. s \in Seq(Nat) /\ t \in Seq(Nat) /\ z \in Seq(Nat) /\ \A i \in 1..Len(z) : z[i] = 0
      BY <1>1, <1>2
    <3> QED
      BY <3>1, Padded
  <2> QED
    BY <1>1, <1>2, <2>1
<1>4. I!Characters(c) = I!Characters(s) \cup I!Characters(t)
  BY <1>1, <1>2, PaddedCharacters
<1> HIDE DEF c
<1>5. Ink(c)
  <2>1. 1 \in 1..Len(s) /\ Len(t) \in 1..Len(t) /\ Len(c) = Len(s) + 2 + Len(t) /\ Len(c) > 0
    BY <1>1, <1>3
  <2>2. c[1] = s[1] /\ c[Len(c)] = t[Len(t)]
    BY <1>3, <2>1
  <2> QED
    BY <1>3, <2>1, <2>2 DEF Ink
<1>6. I!Join(s, t) = c
  BY <1>1 DEF I!Join, c, z
<1> QED
  BY <1>3, <1>4, <1>5, <1>6 DEF c, z

LEMMA JoinSpaced ==
  ASSUME Sized, NEW s, Ink(s), Spaced(s), NEW t, Ink(t), Spaced(t)
  PROVE  Spaced(I!Join(s, t))
<1> DEFINE z == <<0, 0>>
<1>1. s \in Seq(Nat) /\ t \in Seq(Nat) /\ Len(s) > 0 /\ s[Len(s)] # 0 /\ Len(t) > 0 /\ t[1] # 0 /\ s # <<>>
  BY DEF Ink
<1>2. z \in Seq(Nat) /\ Len(z) = 2 /\ \A i \in 1..Len(z) : z[i] = 0
  OBVIOUS
<1>3. I!Join(s, t) = s \o z \o t
  BY <1>1 DEF I!Join
<1> HIDE DEF z
<1>4. ASSUME IsRegular PROVE I!GapsWithin(s \o z \o t, Gap)
  <2>1. Gap \in Nat /\ Len(z) <= Gap /\ I!GapsWithin(s, Gap) /\ I!GapsWithin(t, Gap)
    BY <1>2, <1>4, RegularGap DEF Spaced
  <2> QED
    BY <1>1, <1>2, <2>1, PaddedGaps
<1> QED
  BY <1>3, <1>4 DEF Spaced

LEMMA JoinEnds ==
  ASSUME idxFile.blocks \in I!Contents, NEW s, Ink(s), NEW t, Ink(t), EndsBlock(t),
         I!Before(I!Characters(s), I!Characters(t))
  PROVE  EndsBlock(I!Join(s, t))
<1> DEFINE c == I!Join(s, t)
<1>1. s \in Seq(Nat) /\ t \in Seq(Nat)
  BY DEF Ink
<1>2. Ink(c) /\ Len(c) = Len(s) + 2 + Len(t) /\ I!Characters(c) = I!Characters(s) \cup I!Characters(t)
  BY JoinIs
<1> HIDE DEF c
<1>3. PICK i \in DOMAIN idxFile.blocks : \E x \in I!Characters(idxFile.blocks[i]) :
        /\ x \in I!Characters(t) /\ \A y \in I!Characters(t) : y <= x
        /\ Len(I!Strip(idxFile.blocks[i])) <= Len(t)
  BY DEF EndsBlock
<1>4. PICK x \in I!Characters(idxFile.blocks[i]) :
        /\ x \in I!Characters(t) /\ \A y \in I!Characters(t) : y <= x
        /\ Len(I!Strip(idxFile.blocks[i])) <= Len(t)
  BY <1>3
<1>5. I!Characters(s) \subseteq Nat /\ I!Characters(t) \subseteq Nat
  BY <1>1, CharactersAreNat
<1>6. \A y \in I!Characters(s) : y < x
  BY <1>4 DEF I!Before
<1>7. \A y \in I!Characters(c) : y <= x
  BY <1>2, <1>4, <1>5, <1>6
<1> DEFINE l == Len(I!Strip(idxFile.blocks[i]))
<1>8. l <= Len(c)
  <2>1. Len(s) \in Nat /\ Len(t) \in Nat
    BY <1>1
  <2>2. l \in Nat
    BY BlockIs, StripType
  <2> QED
    BY <1>2, <1>4, <2>1, <2>2
<1> QED
  BY <1>2, <1>4, <1>7, <1>8 DEF EndsBlock, c

LEMMA JoinSegments ==
  ASSUME Sized, idxFile.blocks \in I!Contents, NEW s, Segment(s), NEW t, Segment(t), I!Before(I!Characters(s), I!Characters(t))
  PROVE  Segment(I!Join(s, t))
<1> DEFINE z == <<0, 0>>
           c == I!Join(s, t)
<1>1. s \in Seq(Nat) /\ t \in Seq(Nat) /\ s # <<>> /\ Ink(s) /\ Ink(t) /\ Spaced(s) /\ Spaced(t)
      /\ Ascending(s) /\ Ascending(t)
  BY DEF Ink, Segment
<1>2. z \in Seq(Nat) /\ \A i \in 1..Len(z) : z[i] = 0
  OBVIOUS
<1>3. c = s \o z \o t
  BY <1>1 DEF I!Join
<1> HIDE DEF z
<1>4. Ascending(c)
  BY <1>1, <1>2, <1>3, PaddedAscending
<1>5. Ink(c) /\ Len(c) = Len(s) + 2 + Len(t) /\ I!Characters(c) = I!Characters(s) \cup I!Characters(t)
  BY <1>1, JoinIs
<1>6. Spaced(c)
  BY <1>1, JoinSpaced
<1> HIDE DEF c
<1>7. EndsBlock(c)
  <2>1. EndsBlock(t)
    BY DEF Segment
  <2> QED
    BY <1>1, <2>1, JoinEnds DEF c
<1> QED
  BY <1>4, <1>5, <1>6, <1>7 DEF Segment, c

\* The blocks one by one, the blank ones left out.
LEMMA StrippedBy ==
  ASSUME NEW b \in Texts
  PROVE  \E F \in [0..Len(b) -> Texts] :
           /\ I!Stripped(b) = F[Len(b)] /\ F[0] = <<>>
           /\ \A k \in 1..Len(b) : F[k] = IF I!Blank(b[k]) THEN F[k - 1] ELSE Append(F[k - 1], I!Strip(b[k]))
<1> DEFINE n == Len(b)
           V == Texts
           Next1(v, k) == IF I!Blank(b[k]) THEN v ELSE Append(v, I!Strip(b[k]))
           G(g) == [i \in 0..n |-> IF i = 0 THEN <<>> ELSE Next1(g[i - 1], i)]
           F == CHOOSE g : g = G(g)
           step == [k \in 1..n |-> [v \in V |-> Next1(v, k)]]
<1>1. n \in Nat /\ <<>> \in V /\ \A k \in 1..n : b[k] \in Seq(Nat)
  BY DEF Texts
<1>2. I!Stripped(b) = F[n]
  BY Zenon DEF I!Stripped
<1>3. \A k \in 1..n : \A v \in V : Next1(v, k) \in V
  <2> SUFFICES ASSUME NEW k \in 1..n, NEW v \in V PROVE Next1(v, k) \in V
    OBVIOUS
  <2>1. I!Strip(b[k]) \in Seq(Nat)
    BY <1>1, StripType
  <2>2. Append(v, I!Strip(b[k])) \in V
    BY <2>1 DEF Texts
  <2> QED
    BY <2>2
<1> HIDE DEF n, V, Next1
<1>4. step \in [1..n -> [V -> V]] /\ \A k \in 1..n : \A v \in V : step[k][v] = Next1(v, k)
  BY <1>3
<1> HIDE DEF step
<1>5. PICK f \in [0..n -> V] : f[0] = <<>> /\ \A k \in 1..n : f[k] = step[k][f[k - 1]]
  <2>1. Runs(n, V, <<>>, step)
    BY <1>1, <1>4, Recursion
  <2> QED
    BY <2>1 DEF Runs
<1>6. ASSUME NEW k \in 0..n PROVE f[k] = IF k = 0 THEN <<>> ELSE Next1(f[k - 1], k)
  <2>1. CASE k = 0
    BY <1>5, <2>1
  <2>2. CASE k # 0
    <3>1. k \in 1..n /\ k - 1 \in 0..n
      BY <1>1, <2>2
    <3>2. f[k - 1] \in V
      BY <3>1
    <3> QED
      BY <1>4, <1>5, <2>2, <3>1, <3>2
  <2> QED
    BY <2>1, <2>2
<1>7. f = G(f)
  <2>1. f = [k \in 0..n |-> f[k]]
    OBVIOUS
  <2> QED
    BY <1>6, <2>1
<1>8. F = G(F)
  <2> HIDE DEF G
  <2> QED
    BY <1>7, Zenon
<1> HIDE DEF F
<1>9. F[0] = <<>> /\ \A k \in 1..n : F[k] = Next1(F[k - 1], k)
  <2>1. \A k \in 0..n : F[k] = IF k = 0 THEN <<>> ELSE Next1(F[k - 1], k)
    BY <1>8
  <2>2. 0 \in 0..n /\ \A k \in 1..n : k \in 0..n /\ k # 0
    BY <1>1
  <2> QED
    BY <2>1, <2>2
<1>10. F \in [0..n -> V]
  <2> DEFINE S == {k \in 0..n : F[k] \in V}
  <2>1. 0 \in S
    BY <1>1, <1>9
  <2>2. ASSUME NEW k \in 1..n, k - 1 \in S PROVE k \in S
    <3>1. F[k] \in V
      BY <1>3, <1>9, <2>2
    <3>2. k \in 0..n
      BY <1>1
    <3> QED
      BY <3>1, <3>2
  <2> HIDE DEF S
  <2>3. \A k \in 0..n : k \in S
    BY <1>1, <2>1, <2>2, Upwards
  <2>4. \A k \in 0..n : F[k] \in V
    BY <2>3 DEF S
  <2>5. F = [k \in 0..n |-> F[k]]
    BY <1>8
  <2> QED
    BY <2>4, <2>5
<1> HIDE DEF G
<1> QED
  BY <1>2, <1>9, <1>10 DEF n, V, Next1

\* The parts one by one.
LEMMA JoinedBy ==
  ASSUME NEW q \in Texts
  PROVE  \E F \in [0..Len(q) -> Seq(Nat)] :
           /\ I!Joined(q) = F[Len(q)] /\ F[0] = <<>>
           /\ \A k \in 1..Len(q) : F[k] = I!Join(F[k - 1], q[k])
<1> DEFINE n == Len(q)
           V == Seq(Nat)
           Next1(v, k) == I!Join(v, q[k])
           G(g) == [i \in 0..n |-> IF i = 0 THEN <<>> ELSE Next1(g[i - 1], i)]
           F == CHOOSE g : g = G(g)
           step == [k \in 1..n |-> [v \in V |-> Next1(v, k)]]
<1>1. n \in Nat /\ <<>> \in V /\ \A k \in 1..n : q[k] \in Seq(Nat)
  BY DEF Texts
<1>2. I!Joined(q) = F[n]
  BY Zenon DEF I!Joined
<1>3. \A k \in 1..n : \A v \in V : Next1(v, k) \in V
  <2> SUFFICES ASSUME NEW k \in 1..n, NEW v \in V PROVE Next1(v, k) \in V
    OBVIOUS
  <2> QED
    BY <1>1, JoinType
<1> HIDE DEF n, V, Next1
<1>4. step \in [1..n -> [V -> V]] /\ \A k \in 1..n : \A v \in V : step[k][v] = Next1(v, k)
  BY <1>3
<1> HIDE DEF step
<1>5. PICK f \in [0..n -> V] : f[0] = <<>> /\ \A k \in 1..n : f[k] = step[k][f[k - 1]]
  <2>1. Runs(n, V, <<>>, step)
    BY <1>1, <1>4, Recursion
  <2> QED
    BY <2>1 DEF Runs
<1>6. ASSUME NEW k \in 0..n PROVE f[k] = IF k = 0 THEN <<>> ELSE Next1(f[k - 1], k)
  <2>1. CASE k = 0
    BY <1>5, <2>1
  <2>2. CASE k # 0
    <3>1. k \in 1..n /\ k - 1 \in 0..n
      BY <1>1, <2>2
    <3>2. f[k - 1] \in V
      BY <3>1
    <3> QED
      BY <1>4, <1>5, <2>2, <3>1, <3>2
  <2> QED
    BY <2>1, <2>2
<1>7. f = G(f)
  <2>1. f = [k \in 0..n |-> f[k]]
    OBVIOUS
  <2> QED
    BY <1>6, <2>1
<1>8. F = G(F)
  <2> HIDE DEF G
  <2> QED
    BY <1>7, Zenon
<1> HIDE DEF F
<1>9. F[0] = <<>> /\ \A k \in 1..n : F[k] = Next1(F[k - 1], k)
  <2>1. \A k \in 0..n : F[k] = IF k = 0 THEN <<>> ELSE Next1(F[k - 1], k)
    BY <1>8
  <2>2. 0 \in 0..n /\ \A k \in 1..n : k \in 0..n /\ k # 0
    BY <1>1
  <2> QED
    BY <2>1, <2>2
<1>10. F \in [0..n -> V]
  <2> DEFINE S == {k \in 0..n : F[k] \in V}
  <2>1. 0 \in S
    BY <1>1, <1>9
  <2>2. ASSUME NEW k \in 1..n, k - 1 \in S PROVE k \in S
    <3>1. F[k] \in V
      BY <1>3, <1>9, <2>2
    <3>2. k \in 0..n
      BY <1>1
    <3> QED
      BY <3>1, <3>2
  <2> HIDE DEF S
  <2>3. \A k \in 0..n : k \in S
    BY <1>1, <2>1, <2>2, Upwards
  <2>4. \A k \in 0..n : F[k] \in V
    BY <2>3 DEF S
  <2>5. F = [k \in 0..n |-> F[k]]
    BY <1>8
  <2> QED
    BY <2>4, <2>5
<1> HIDE DEF G
<1> QED
  BY <1>2, <1>9, <1>10 DEF n, V, Next1

LEMMA SegmentListTwo ==
  ASSUME NEW p, SegmentList(p), NEW q, SegmentList(q), I!Before(I!AllOf(p), I!AllOf(q))
  PROVE  SegmentList(p \o q)
<1> DEFINE r == p \o q
<1>1. p \in Texts /\ q \in Texts
  BY DEF SegmentList
<1>2. /\ r \in Texts /\ Len(r) = Len(p) + Len(q)
      /\ \A i \in 1..Len(p) : r[i] = p[i]
      /\ \A i \in 1..Len(q) : r[Len(p) + i] = q[i]
      /\ \A i \in 1..Len(r) : i \in 1..Len(p) \/ \E j \in 1..Len(q) : i = Len(p) + j
  BY <1>1, TwoTexts
<1>3. /\ DOMAIN r = 1..Len(r) /\ DOMAIN p = 1..Len(p) /\ DOMAIN q = 1..Len(q)
      /\ Len(p) \in Nat /\ Len(q) \in Nat
  BY <1>1, <1>2 DEF Texts
<1> HIDE DEF r
<1>4. ASSUME NEW i \in 1..Len(r) PROVE Segment(r[i])
  BY <1>2, <1>3 DEF SegmentList
<1>5. ASSUME NEW i \in 1..Len(r), NEW j \in 1..Len(r), i < j
      PROVE  I!Before(I!Characters(r[i]), I!Characters(r[j]))
  <2>1. CASE i \in 1..Len(p) /\ j \in 1..Len(p)
    BY <1>2, <1>3, <1>5, <2>1 DEF SegmentList
  <2>2. ASSUME i \in 1..Len(p), NEW l \in 1..Len(q), j = Len(p) + l
        PROVE  I!Before(I!Characters(r[i]), I!Characters(r[j]))
    <3>1. r[i] = p[i] /\ r[j] = q[l]
      BY <1>2, <2>2
    <3>2. I!Characters(p[i]) \subseteq I!AllOf(p) /\ I!Characters(q[l]) \subseteq I!AllOf(q)
      BY <1>3, <2>2, AllOfHas
    <3> QED
      BY <3>1, <3>2 DEF I!Before
  <2>3. ASSUME NEW k \in 1..Len(q), i = Len(p) + k, NEW l \in 1..Len(q), j = Len(p) + l
        PROVE  I!Before(I!Characters(r[i]), I!Characters(r[j]))
    <3>1. r[i] = q[k] /\ r[j] = q[l]
      BY <1>2, <2>3
    <3>2. k < l
      BY <1>3, <1>5, <2>3
    <3> QED
      BY <1>3, <3>1, <3>2 DEF SegmentList
  <2>4. ASSUME NEW k \in 1..Len(q), i = Len(p) + k, j \in 1..Len(p) PROVE FALSE
    BY <1>3, <1>5, <2>4
  <2> QED
    BY <1>2, <2>1, <2>2, <2>3, <2>4
<1>6. SegmentList(r)
  BY <1>2, <1>3, <1>4, <1>5 DEF SegmentList
<1> QED
  BY <1>6 DEF r

LEMMA OneSegment ==
  ASSUME NEW s, Segment(s)
  PROVE  SegmentList(<<s>>) /\ I!AllOf(<<s>>) = I!Characters(s)
<1>1. s \in Seq(Nat)
  BY DEF Segment, Ink
<1>2. <<s>> \in Texts /\ DOMAIN <<s>> = 1..1 /\ <<s>>[1] = s /\ I!AllOf(<<s>>) = I!Characters(s)
  BY <1>1, OneText
<1>3. \A i \in DOMAIN <<s>> : <<s>>[i] = s
  BY <1>2
<1>4. \A i, j \in DOMAIN <<s>> : ~(i < j)
  BY <1>2
<1> QED
  BY <1>2, <1>3, <1>4 DEF SegmentList

LEMMA NoSegments == SegmentList(<<>>)
BY DEF SegmentList, Texts

LEMMA BlocksInOrder ==
  ASSUME idxFile.blocks \in I!Contents
  PROVE  /\ idxFile.blocks \in Texts /\ DOMAIN idxFile.blocks = 1..Len(idxFile.blocks) /\ Len(idxFile.blocks) \in Nat
         /\ \A i, j \in DOMAIN idxFile.blocks : i < j =>
              I!Before(I!Characters(idxFile.blocks[i]), I!Characters(idxFile.blocks[j]))
<1> DEFINE b == idxFile.blocks
<1>1. b \in Seq(Seq(Nat)) /\ \A i, j \in DOMAIN b : i < j => I!Before(I!Characters(b[i]), I!Characters(b[j]))
  BY Zenon DEF I!Contents
<1> HIDE DEF b
<1>2. DOMAIN b = 1..Len(b) /\ Len(b) \in Nat
  BY <1>1
<1> QED
  BY <1>1, <1>2 DEF b, Texts

\* The paragraphs, pages or blocks of a file, and what is in them.
LEMMA StrippedSegments ==
  ASSUME Sized, idxFile.blocks \in I!Contents
  PROVE  SegmentList(I!Stripped(idxFile.blocks)) /\ I!AllOf(I!Stripped(idxFile.blocks)) = I!AllOf(idxFile.blocks)
<1> DEFINE b == idxFile.blocks
           n == Len(b)
<1>1. /\ b \in Texts /\ DOMAIN b = 1..n /\ n \in Nat
      /\ \A i, j \in DOMAIN b : i < j => I!Before(I!Characters(b[i]), I!Characters(b[j]))
  BY BlocksInOrder
<1>2. PICK F \in [0..Len(b) -> Texts] :
        /\ I!Stripped(b) = F[Len(b)] /\ F[0] = <<>>
        /\ \A k \in 1..Len(b) : F[k] = IF I!Blank(b[k]) THEN F[k - 1] ELSE Append(F[k - 1], I!Strip(b[k]))
  <2> HIDE DEF b
  <2> QED
    BY <1>1, StrippedBy
<1> DEFINE Upto(k) == SegmentList(F[k]) /\ \A x : x \in I!AllOf(F[k]) <=> \E i \in 1..k : x \in I!Characters(b[i])
           S == {k \in 0..n : Upto(k)}
<1>3. \A i \in DOMAIN b : ~I!Blank(b[i]) => Segment(I!Strip(b[i]))
  BY BlockSegment
<1>4. \A i \in 1..n : b[i] \in Seq(Nat)
  BY <1>1, BlockIs
<1> HIDE DEF b, n
<1>5. Upto(0)
  <2>1. \A x : ~\E i \in 1..0 : x \in I!Characters(b[i])
    OBVIOUS
  <2> QED
    BY <1>2, <2>1, NoSegments, AllOfNone
<1>6. ASSUME NEW k \in 1..n, Upto(k - 1) PROVE Upto(k)
  <2>1. k - 1 \in 0..n /\ k \in DOMAIN b /\ b[k] \in Seq(Nat) /\ k \in 1..k /\ k \in 0..n
    BY <1>1, <1>4
  <2>2. \A x : (\E i \in 1..k : x \in I!Characters(b[i])) <=>
               (\E i \in 1..(k - 1) : x \in I!Characters(b[i])) \/ x \in I!Characters(b[k])
    <3>1. \A i \in 1..k : i \in 1..(k - 1) \/ i = k
      BY <2>1
    <3>2. \A i \in 1..(k - 1) : i \in 1..k
      BY <2>1
    <3> QED
      BY <2>1, <3>1, <3>2
  <2>3. CASE I!Blank(b[k])
    <3>1. I!Characters(b[k]) = {}
      BY <2>1, <2>3, StripBlank
    <3>2. F[k] = F[k - 1]
      BY <1>2, <2>3 DEF n
    <3> QED
      BY <1>6, <2>2, <3>1, <3>2
  <2>4. CASE ~I!Blank(b[k])
    <3> DEFINE s == I!Strip(b[k])
               p == F[k - 1]
    <3>1. Segment(s) /\ I!Characters(s) = I!Characters(b[k]) /\ s \in Seq(Nat)
      BY <1>3, <2>1, <2>4, StripInk, StripType
    <3>2. F[k] = Append(p, s) /\ p \in Texts
      <4>1. F[k] = Append(p, s)
        BY <1>2, <2>4 DEF n
      <4>2. p \in Texts
        BY <1>6 DEF SegmentList
      <4> QED
        BY <4>1, <4>2
    <3> HIDE DEF s
    <3>3. F[k] = p \o <<s>>
      BY <3>1, <3>2, AppendIsTwo
    <3>4. SegmentList(<<s>>) /\ I!AllOf(<<s>>) = I!Characters(s) /\ <<s>> \in Texts
      BY <3>1, OneSegment, OneText
    <3>5. I!Before(I!AllOf(p), I!AllOf(<<s>>))
      <4>1. ASSUME NEW x \in I!AllOf(p), NEW y \in I!Characters(b[k]) PROVE x < y
        <5>1. PICK i \in 1..(k - 1) : x \in I!Characters(b[i])
          BY <1>6
        <5>2. i \in DOMAIN b /\ i < k
          BY <1>1, <2>1
        <5> QED
          BY <1>1, <2>1, <5>1, <5>2 DEF I!Before
      <4> QED
        BY <3>1, <3>4, <4>1 DEF I!Before
    <3>6. SegmentList(F[k])
      BY <1>6, <3>3, <3>4, <3>5, SegmentListTwo
    <3>7. I!AllOf(F[k]) = I!AllOf(p) \cup I!Characters(b[k])
      BY <3>1, <3>2, <3>3, <3>4, AllOfTwo
    <3> QED
      BY <1>6, <2>2, <3>6, <3>7
  <2> QED
    BY <2>3, <2>4
<1> HIDE DEF Upto
<1>7. n \in S
  <2>1. 0 \in S
    BY <1>1, <1>5
  <2>2. \A k \in 1..n : k - 1 \in S => k \in S
    BY <1>1, <1>6
  <2> HIDE DEF S
  <2>3. \A k \in 0..n : k \in S
    BY <1>1, <2>1, <2>2, Upwards
  <2> QED
    BY <1>1, <2>3
<1>8. Upto(n)
  BY <1>7
<1>9. SegmentList(F[n]) /\ I!AllOf(F[n]) = I!AllOf(b)
  <2>1. SegmentList(F[n]) /\ \A x : x \in I!AllOf(F[n]) <=> \E i \in 1..n : x \in I!Characters(b[i])
    BY <1>8 DEF Upto
  <2>2. \A x : x \in I!AllOf(F[n]) <=> x \in I!AllOf(b)
    BY <1>1, <2>1, AllOfHas
  <2> QED
    BY <2>1, <2>2
<1> QED
  BY <1>2, <1>9 DEF b, n

LEMMA JoinedSegments ==
  ASSUME Sized, idxFile.blocks \in I!Contents, NEW q, SegmentList(q), q # <<>>
  PROVE  Segment(I!Joined(q)) /\ I!Characters(I!Joined(q)) = I!AllOf(q)
<1> DEFINE n == Len(q)
<1>1. q \in Texts /\ DOMAIN q = 1..n /\ n \in Nat /\ n > 0
  BY DEF SegmentList, Texts
<1>2. PICK F \in [0..Len(q) -> Seq(Nat)] :
        /\ I!Joined(q) = F[Len(q)] /\ F[0] = <<>>
        /\ \A k \in 1..Len(q) : F[k] = I!Join(F[k - 1], q[k])
  BY <1>1, JoinedBy
<1> DEFINE Upto(k) == Segment(F[k]) /\ \A x : x \in I!Characters(F[k]) <=> \E i \in 1..k : x \in I!Characters(q[i])
           S == {k \in 0..n : k = 0 \/ Upto(k)}
<1> HIDE DEF n
<1>3. Upto(1)
  <2>1. F[1] = I!Join(<<>>, q[1])
    <3>1. 1 \in 1..n /\ 1 - 1 = 0
      BY <1>1
    <3> QED
      BY <1>2, <3>1 DEF n
  <2>2. F[1] = q[1]
    BY <2>1 DEF I!Join
  <2>3. Segment(q[1])
    BY <1>1 DEF SegmentList
  <2>4. \A i \in 1..1 : i = 1
    OBVIOUS
  <2> QED
    BY <2>2, <2>3, <2>4
<1>4. ASSUME NEW k \in 2..n, Upto(k - 1) PROVE Upto(k)
  <2>1. k - 1 \in 1..n /\ k \in 1..n /\ k \in DOMAIN q
    BY <1>1
  <2> DEFINE p == F[k - 1]
             s == q[k]
  <2>2. F[k] = I!Join(p, s)
    BY <1>2, <2>1 DEF n
  <2>3. Segment(p) /\ Segment(s)
    BY <1>4, <2>1 DEF SegmentList
  <2>4. I!Before(I!Characters(p), I!Characters(s))
    <3>1. ASSUME NEW x \in I!Characters(p), NEW y \in I!Characters(s) PROVE x < y
      <4>1. PICK i \in 1..(k - 1) : x \in I!Characters(q[i])
        BY <1>4
      <4>2. i \in DOMAIN q /\ i < k
        BY <1>1, <2>1
      <4> QED
        BY <2>1, <4>1, <4>2 DEF SegmentList, I!Before
    <3> QED
      BY <3>1 DEF I!Before
  <2>5. \A x : (\E i \in 1..k : x \in I!Characters(q[i])) <=>
               (\E i \in 1..(k - 1) : x \in I!Characters(q[i])) \/ x \in I!Characters(s)
    <3>1. \A i \in 1..k : i \in 1..(k - 1) \/ i = k
      BY <2>1
    <3>2. k \in 1..k /\ \A i \in 1..(k - 1) : i \in 1..k
      BY <2>1
    <3> QED
      BY <3>1, <3>2
  <2> HIDE DEF p, s
  <2>6. Segment(F[k])
    BY <2>2, <2>3, <2>4, JoinSegments
  <2>7. I!Characters(F[k]) = I!Characters(p) \cup I!Characters(s)
    BY <2>2, <2>3, JoinIs DEF Segment
  <2> QED
    BY <1>4, <2>5, <2>6, <2>7 DEF p
<1> HIDE DEF Upto
<1>5. n \in S
  <2>1. 0 \in S
    BY <1>1
  <2>2. ASSUME NEW k \in 1..n, k - 1 \in S PROVE k \in S
    <3>1. CASE k = 1
      BY <1>1, <1>3, <3>1
    <3>2. CASE k # 1
      <4>1. k \in 2..n /\ k - 1 # 0 /\ k \in 0..n
        BY <1>1, <3>2
      <4>2. Upto(k - 1)
        BY <2>2, <4>1
      <4>3. Upto(k)
        BY <1>4, <4>1, <4>2
      <4> QED
        BY <4>1, <4>3
    <3> QED
      BY <3>1, <3>2
  <2> HIDE DEF S
  <2>3. \A k \in 0..n : k \in S
    BY <1>1, <2>1, <2>2, Upwards
  <2> QED
    BY <1>1, <2>3
<1>6. Upto(n)
  BY <1>1, <1>5
<1>7. Segment(F[n]) /\ \A x : x \in I!Characters(F[n]) <=> x \in I!AllOf(q)
  BY <1>1, <1>6, AllOfHas DEF Upto
<1> QED
  BY <1>2, <1>7 DEF n

LEMMA SegmentsAre ==
  ASSUME Sized, idxFile.blocks \in I!Contents
  PROVE  SegmentList(I!Segments(idxFile)) /\ I!AllOf(I!Segments(idxFile)) = I!AllOf(idxFile.blocks)
<1> DEFINE parts == I!Stripped(idxFile.blocks)
<1>1. SegmentList(parts) /\ I!AllOf(parts) = I!AllOf(idxFile.blocks)
  BY StrippedSegments
<1>2. I!Segments(idxFile) = IF idxFile.type = "text/plain" /\ parts # <<>> THEN <<I!Joined(parts)>> ELSE parts
  BY DEF I!Segments
<1> HIDE DEF parts
<1>3. CASE idxFile.type = "text/plain" /\ parts # <<>>
  <2>1. Segment(I!Joined(parts)) /\ I!Characters(I!Joined(parts)) = I!AllOf(parts)
    BY <1>1, <1>3, JoinedSegments
  <2>2. SegmentList(<<I!Joined(parts)>>) /\ I!AllOf(<<I!Joined(parts)>>) = I!Characters(I!Joined(parts))
    BY <2>1, OneSegment
  <2> QED
    BY <1>1, <1>2, <1>3, <2>1, <2>2
<1>4. CASE ~(idxFile.type = "text/plain" /\ parts # <<>>)
  BY <1>1, <1>2, <1>4
<1> QED
  BY <1>3, <1>4

-----------------------------------------------------------------------------
(* Indexing: the pieces of a long paragraph                                   *)

RawText(s) == Ink(s) /\ Len(s) <= idxSettings.size /\ Spaced(s)

Progress == [pieces : Texts, start : Nat \ {0}]

LEMMA MinOfTwo ==
  ASSUME NEW a \in Int, NEW b \in Int
  PROVE  I!Min({a, b}) = IF a <= b THEN a ELSE b
BY DEF I!Min

LEMMA MaxOfTwo ==
  ASSUME NEW a \in Int, NEW b \in Int
  PROVE  I!Max({a, b}) = IF a >= b THEN a ELSE b
BY DEF I!Max

\* Where a piece ends, and where the next one starts.
LEMMA SplitIs ==
  ASSUME Sized, NEW p \in Seq(Nat), NEW v \in Progress, v.start <= Len(p)
  PROVE  \E end, next \in Nat :
           /\ v.start <= end /\ end <= Len(p) /\ end <= v.start + idxSettings.size - 1
           /\ end = Len(p) \/ end = v.start + idxSettings.size - 1
           /\ v.start < next /\ next <= end + 1 /\ end < next + idxSettings.overlap
           /\ I!Split(p, v) =
                [pieces |-> IF I!Strip(SubSeq(p, v.start, end)) = <<>> THEN v.pieces
                            ELSE Append(v.pieces, I!Strip(SubSeq(p, v.start, end))),
                 start |-> next]
<1> DEFINE size == idxSettings.size
           overlap == idxSettings.overlap
           n == Len(p)
           start == v.start
           end == I!Min({start + size - 1, n})
           next == IF end = n THEN end + 1 ELSE I!NextStart(start, end)
<1>1. size \in Nat /\ size > 0 /\ overlap \in Nat /\ overlap < size /\ n \in Nat /\ start \in Nat /\ start > 0
      /\ start <= n
  BY DEF Sized, IndexSettings, Progress
<1>2. I!Split(p, v) = [pieces |-> IF I!Strip(SubSeq(p, start, end)) = <<>> THEN v.pieces
                                  ELSE Append(v.pieces, I!Strip(SubSeq(p, start, end))),
                       start |-> next]
  <2>1. ~(start > n)
    BY <1>1
  <2> QED
    BY <2>1, Zenon DEF I!Split
<1>3. I!NextStart(start, end) = I!Max({end - overlap + 1, start + 1})
  BY Zenon DEF I!NextStart
<1> HIDE DEF size, overlap, n, start
<1>4. end = IF start + size - 1 <= n THEN start + size - 1 ELSE n
  BY <1>1, MinOfTwo
<1> HIDE DEF end
<1>5. end \in Nat /\ start <= end /\ end <= n /\ end <= start + size - 1 /\ (end = n \/ end = start + size - 1)
  BY <1>1, <1>4
<1>6. next \in Nat /\ start < next /\ next <= end + 1 /\ end < next + overlap
  <2>1. CASE end = n
    BY <1>1, <1>5, <2>1
  <2>2. CASE end # n
    <3>1. next = IF end - overlap + 1 >= start + 1 THEN end - overlap + 1 ELSE start + 1
      BY <1>1, <1>3, <1>5, <2>2, MaxOfTwo
    <3> HIDE DEF next
    <3> QED
      BY <1>1, <1>5, <3>1
  <2> QED
    BY <2>1, <2>2
<1> HIDE DEF next
<1> QED
  BY <1>2, <1>5, <1>6 DEF size, overlap, n, start

LEMMA SplitType ==
  ASSUME Sized, NEW p \in Seq(Nat), NEW v \in Progress
  PROVE  I!Split(p, v) \in Progress
<1>1. CASE v.start > Len(p)
  <2>1. I!Split(p, v) = v
    BY <1>1, Zenon DEF I!Split
  <2> QED
    BY <2>1
<1>2. CASE ~(v.start > Len(p))
  <2>1. v.start \in Nat /\ v.start > 0 /\ Len(p) \in Nat /\ v.start <= Len(p) /\ v.pieces \in Texts
    BY <1>2 DEF Progress
  <2>2. PICK end, next \in Nat :
           /\ v.start <= end /\ end <= Len(p) /\ v.start < next
           /\ I!Split(p, v) =
                [pieces |-> IF I!Strip(SubSeq(p, v.start, end)) = <<>> THEN v.pieces
                            ELSE Append(v.pieces, I!Strip(SubSeq(p, v.start, end))),
                 start |-> next]
    BY <2>1, SplitIs
  <2> DEFINE s == I!Strip(SubSeq(p, v.start, end))
  <2>3. s \in Seq(Nat)
    <3>1. SubSeq(p, v.start, end) \in Seq(Nat)
      BY <2>1, <2>2, Section
    <3> QED
      BY <3>1, StripType
  <2> HIDE DEF s
  <2>4. Append(v.pieces, s) \in Texts
    BY <2>1, <2>3 DEF Texts
  <2>5. next \in Nat \ {0}
    BY <2>1, <2>2
  <2> QED
    BY <2>1, <2>2, <2>4, <2>5 DEF Progress, s
<1> QED
  BY <1>1, <1>2

LEMMA SectionCharacters ==
  ASSUME NEW p \in Seq(Nat), NEW a \in Nat, NEW e \in Nat, 1 <= a, a <= e, e <= Len(p), NEW x
  PROVE  x \in I!Characters(SubSeq(p, a, e)) <=> x # 0 /\ \E m \in a..e : p[m] = x
<1> DEFINE w == SubSeq(p, a, e)
<1>1. w \in Seq(Nat) /\ Len(w) = e - a + 1 /\ \A i \in 1..(e - a + 1) : w[i] = p[a + i - 1]
  <2>1. a <= e + 1
    OBVIOUS
  <2> QED
    BY <2>1, Section
<1> HIDE DEF w
<1>2. x \in I!Characters(w) <=> x # 0 /\ \E i \in 1..(e - a + 1) : w[i] = x
  BY <1>1, CharactersOf
<1>3. ASSUME NEW i \in 1..(e - a + 1), w[i] = x PROVE \E m \in a..e : p[m] = x
  <2>1. a + i - 1 \in a..e /\ p[a + i - 1] = x
    BY <1>1, <1>3
  <2> QED
    BY <2>1
<1>4. ASSUME NEW m \in a..e, p[m] = x PROVE \E i \in 1..(e - a + 1) : w[i] = x
  <2>1. m - a + 1 \in 1..(e - a + 1) /\ a + (m - a + 1) - 1 = m
    OBVIOUS
  <2>2. w[m - a + 1] = x
    BY <1>1, <1>4, <2>1
  <2> QED
    BY <2>1, <2>2
<1> QED
  BY <1>2, <1>3, <1>4 DEF w

\* A piece of a paragraph that is longer than a chunk.
LEMMA PieceIs ==
  ASSUME Sized, NEW p, Segment(p), NEW a \in Nat, NEW e \in Nat, 1 <= a, a <= e, e <= Len(p),
         e <= a + idxSettings.size - 1, NEW s, s = I!Strip(SubSeq(p, a, e))
  PROVE  /\ s \in Seq(Nat)
         /\ s # <<>> => RawText(s)
         /\ \A x : x \in I!Characters(s) <=> x # 0 /\ \E m \in a..e : p[m] = x
<1> DEFINE w == SubSeq(p, a, e)
<1>0. s = I!Strip(w)
  OBVIOUS
<1>1. p \in Seq(Nat) /\ Spaced(p)
  BY DEF Segment, Ink
<1>2. w \in Seq(Nat) /\ Len(w) = e - a + 1
  BY <1>1, Section
<1>3. \A x : x \in I!Characters(w) <=> x # 0 /\ \E m \in a..e : p[m] = x
  BY <1>1, SectionCharacters
<1>4. Spaced(w)
  <2>1. ASSUME IsRegular PROVE I!GapsWithin(w, Gap)
    <3>1. Gap \in Nat /\ I!GapsWithin(p, Gap)
      BY <1>1, <2>1, RegularGap DEF Spaced
    <3> QED
      BY <1>1, <3>1, SectionKeeps
  <2> QED
    BY <2>1 DEF Spaced
<1>5. idxSettings.size \in Nat
  BY DEF Sized, IndexSettings
<1> HIDE DEF w
<1>6. CASE I!Blank(w)
  <2>1. s = <<>> /\ I!Characters(w) = {}
    BY <1>0, <1>2, <1>6, StripBlank
  <2>2. I!Characters(s) = {}
    <3>1. <<>> \in Seq(Nat) /\ 1..Len(<<>>) = {}
      OBVIOUS
    <3>2. \A x : x \notin I!Characters(<<>>)
      BY <3>1, CharactersOf
    <3> QED
      BY <2>1, <3>2
  <2> QED
    BY <1>0, <1>2, <1>3, <2>1, <2>2, StripType
<1>7. CASE ~I!Blank(w)
  <2>1. Ink(s) /\ Len(s) <= Len(w) /\ I!Characters(s) = I!Characters(w)
        /\ \A n \in Nat : I!GapsWithin(w, n) => I!GapsWithin(s, n)
    BY <1>0, <1>2, <1>7, StripInk
  <2>2. Spaced(s)
    BY <1>4, <2>1, RegularGap DEF Spaced
  <2>3. Len(s) <= idxSettings.size
    <3>1. Len(s) \in Nat
      BY <2>1 DEF Ink
    <3> QED
      BY <1>2, <1>5, <2>1, <3>1
  <2>4. RawText(s) /\ s \in Seq(Nat)
    BY <2>1, <2>2, <2>3 DEF RawText, Ink
  <2> QED
    BY <1>3, <2>1, <2>4
<1> QED
  BY <1>6, <1>7

LEMMA FirstPiece ==
  ASSUME Sized, IsRegular, NEW p, Segment(p), Len(p) > idxSettings.size
  PROVE  Len(I!Strip(SubSeq(p, 1, idxSettings.size))) >= idxSettings.min
<1> DEFINE size == idxSettings.size
           min == idxSettings.min
           w == SubSeq(p, 1, size)
<1>1. p \in Seq(Nat) /\ Spaced(p) /\ p[1] # 0 /\ Len(p) \in Nat /\ DOMAIN p = 1..Len(p)
  BY DEF Segment, Ink
<1>2. size \in Nat /\ size > 0 /\ min \in Nat /\ min > 0 /\ Gap \in Nat /\ size - Gap >= min
  <2>1. size \in Nat /\ size > 0 /\ min \in Nat /\ min > 0 /\ idxSettings.overlap \in Nat
    BY DEF Sized, IndexSettings
  <2>2. idxSettings.overlap + 2 <= size /\ Gap \in Nat
    BY RegularGap
  <2> QED
    BY <2>1, <2>2 DEF Gap
<1>3. Len(p) > size
  OBVIOUS
<1> HIDE DEF size, min
<1>4. w \in Seq(Nat) /\ Len(w) = size - 1 + 1 /\ \A i \in 1..(size - 1 + 1) : w[i] = p[1 + i - 1]
  BY <1>1, <1>2, <1>3, Section
<1>5. Len(w) = size /\ \A i \in 1..size : w[i] = p[i]
  BY <1>2, <1>4
<1> HIDE DEF w
<1>6. I!GapsWithin(p, Gap)
  BY <1>1 DEF Spaced
<1>7. PICK j \in (size - Gap)..size : p[j] # 0
  <2>1. size - Gap \in DOMAIN p /\ (size - Gap) + Gap \in DOMAIN p /\ (size - Gap) + Gap = size
    BY <1>1, <1>2, <1>3
  <2>2. \E j \in (size - Gap)..((size - Gap) + Gap) : p[j] # 0
    BY <1>6, <2>1 DEF I!GapsWithin
  <2> QED
    BY <2>1, <2>2
<1>8. j \in 1..size /\ w[j] # 0 /\ w[1] # 0 /\ 1 \in 1..size /\ DOMAIN w = 1..size
  BY <1>1, <1>2, <1>4, <1>5, <1>7
<1>9. ~I!Blank(w)
  BY <1>8 DEF I!Blank
<1>10. PICK a, b \in 1..Len(w) :
           /\ a <= b /\ I!Strip(w) = SubSeq(w, a, b)
           /\ \A i \in 1..Len(w) : w[i] # 0 => a <= i /\ i <= b
  BY <1>4, <1>9, StripIs
<1>11. a = 1 /\ j <= b /\ b <= size /\ b \in Nat
  <2>1. a <= 1 /\ j <= b
    BY <1>5, <1>8, <1>10
  <2> QED
    BY <1>5, <1>10, <2>1
<1>12. Len(I!Strip(w)) = b - 1 + 1
  <2>1. Len(SubSeq(w, 1, b)) = b - 1 + 1
    BY <1>4, <1>5, <1>11, Section
  <2> QED
    BY <1>10, <1>11, <2>1
<1>13. Len(I!Strip(w)) >= min
  BY <1>2, <1>7, <1>11, <1>12
<1> QED
  BY <1>13 DEF w, size, min

\* The rounds of the loop.
LEMMA PiecesBy ==
  ASSUME Sized, NEW p \in Seq(Nat)
  PROVE  \E F \in [0..Len(p) -> Progress] :
           /\ I!Pieces(p) = F[Len(p)].pieces /\ F[0] = [pieces |-> <<>>, start |-> 1]
           /\ \A k \in 1..Len(p) : F[k] = I!Split(p, F[k - 1])
<1> DEFINE n == Len(p)
           V == Progress
           Next1(v, k) == I!Split(p, v)
           G(g) == [i \in 0..n |-> IF i = 0 THEN [pieces |-> <<>>, start |-> 1] ELSE Next1(g[i - 1], i)]
           F == CHOOSE g : g = G(g)
           step == [k \in 1..n |-> [v \in V |-> Next1(v, k)]]
<1>1. n \in Nat /\ [pieces |-> <<>>, start |-> 1] \in V /\ <<>> \in Texts
  BY DEF Texts, Progress
<1>2. I!Pieces(p) = F[n].pieces
  BY Zenon DEF I!Pieces
<1>3. \A k \in 1..n : \A v \in V : Next1(v, k) \in V
  <2> SUFFICES ASSUME NEW k \in 1..n, NEW v \in V PROVE Next1(v, k) \in V
    OBVIOUS
  <2> QED
    BY SplitType
<1> HIDE DEF n, V, Next1
<1>4. step \in [1..n -> [V -> V]] /\ \A k \in 1..n : \A v \in V : step[k][v] = Next1(v, k)
  BY <1>3
<1> HIDE DEF step
<1>5. PICK f \in [0..n -> V] : f[0] = [pieces |-> <<>>, start |-> 1] /\ \A k \in 1..n : f[k] = step[k][f[k - 1]]
  <2>1. Runs(n, V, [pieces |-> <<>>, start |-> 1], step)
    BY <1>1, <1>4, Recursion
  <2> QED
    BY <2>1 DEF Runs
<1>6. ASSUME NEW k \in 0..n PROVE f[k] = IF k = 0 THEN [pieces |-> <<>>, start |-> 1] ELSE Next1(f[k - 1], k)
  <2>1. CASE k = 0
    BY <1>5, <2>1
  <2>2. CASE k # 0
    <3>1. k \in 1..n /\ k - 1 \in 0..n
      BY <1>1, <2>2
    <3>2. f[k - 1] \in V
      BY <3>1
    <3> QED
      BY <1>4, <1>5, <2>2, <3>1, <3>2
  <2> QED
    BY <2>1, <2>2
<1>7. f = G(f)
  <2>1. f = [k \in 0..n |-> f[k]]
    OBVIOUS
  <2> QED
    BY <1>6, <2>1
<1>8. F = G(F)
  <2> HIDE DEF G
  <2> QED
    BY <1>7, Zenon
<1> HIDE DEF F
<1>9. F[0] = [pieces |-> <<>>, start |-> 1] /\ \A k \in 1..n : F[k] = Next1(F[k - 1], k)
  <2>1. \A k \in 0..n : F[k] = IF k = 0 THEN [pieces |-> <<>>, start |-> 1] ELSE Next1(F[k - 1], k)
    BY <1>8
  <2>2. 0 \in 0..n /\ \A k \in 1..n : k \in 0..n /\ k # 0
    BY <1>1
  <2> QED
    BY <2>1, <2>2
<1>10. F \in [0..n -> V]
  <2> DEFINE S == {k \in 0..n : F[k] \in V}
  <2>1. 0 \in S
    BY <1>1, <1>9
  <2>2. ASSUME NEW k \in 1..n, k - 1 \in S PROVE k \in S
    <3>1. F[k] \in V
      BY <1>3, <1>9, <2>2
    <3>2. k \in 0..n
      BY <1>1
    <3> QED
      BY <3>1, <3>2
  <2> HIDE DEF S
  <2>3. \A k \in 0..n : k \in S
    BY <1>1, <2>1, <2>2, Upwards
  <2>4. \A k \in 0..n : F[k] \in V
    BY <2>3 DEF S
  <2>5. F = [k \in 0..n |-> F[k]]
    BY <1>8
  <2> QED
    BY <2>4, <2>5
<1> HIDE DEF G
<1> QED
  BY <1>2, <1>9, <1>10 DEF n, V, Next1

\* The pieces before a start: what is before it is in them, and nothing further on than the overlap.
PiecesUpTo(v, p) ==
  /\ v \in Progress
  /\ \A i \in DOMAIN v.pieces : RawText(v.pieces[i])
  /\ \A i, j \in DOMAIN v.pieces : i < j => EndsBy(I!Characters(v.pieces[i]), I!Characters(v.pieces[j]))
  /\ \A x \in I!AllOf(v.pieces) : \E m \in 1..Len(p) : p[m] = x /\ m < v.start + idxSettings.overlap
  /\ \A m \in 1..Len(p) : m < v.start /\ p[m] # 0 => p[m] \in I!AllOf(v.pieces)
  /\ IsRegular => IF v.pieces = <<>> THEN v.start = 1 ELSE Len(v.pieces[1]) >= idxSettings.min

LEMMA SplitKeeps ==
  ASSUME Sized, NEW p, Segment(p), Len(p) > idxSettings.size, NEW v, PiecesUpTo(v, p), v.start <= Len(p)
  PROVE  PiecesUpTo(I!Split(p, v), p) /\ I!Split(p, v).start > v.start
<1> DEFINE size == idxSettings.size
           overlap == idxSettings.overlap
           min == idxSettings.min
           start == v.start
           old == v.pieces
           u == I!Split(p, v)
           n == Len(p)
<1>1. /\ size \in Nat /\ size > 0 /\ overlap \in Nat /\ overlap < size /\ min \in Nat /\ min > 0
      /\ start \in Nat /\ start > 0 /\ start <= n /\ old \in Texts /\ v \in Progress
  <2>1. size \in Nat /\ size > 0 /\ overlap \in Nat /\ overlap < size /\ min \in Nat /\ min > 0
    BY DEF Sized, IndexSettings
  <2>2. v \in Progress
    BY DEF PiecesUpTo
  <2>3. start \in Nat /\ start > 0 /\ old \in Texts
    BY <2>2 DEF Progress
  <2> QED
    BY <2>1, <2>2, <2>3
<1>2. p \in Seq(Nat) /\ Ascending(p) /\ n \in Nat /\ DOMAIN p = 1..n
  <2>1. p \in Seq(Nat) /\ Ascending(p)
    BY DEF Segment, Ink
  <2> QED
    BY <2>1
<1>3. PICK end, next \in Nat :
           /\ v.start <= end /\ end <= Len(p) /\ end <= v.start + idxSettings.size - 1
           /\ end = Len(p) \/ end = v.start + idxSettings.size - 1
           /\ v.start < next /\ next <= end + 1 /\ end < next + idxSettings.overlap
           /\ I!Split(p, v) =
                [pieces |-> IF I!Strip(SubSeq(p, v.start, end)) = <<>> THEN v.pieces
                            ELSE Append(v.pieces, I!Strip(SubSeq(p, v.start, end))),
                 start |-> next]
  BY <1>1, <1>2, SplitIs
<1> DEFINE s == I!Strip(SubSeq(p, start, end))
           new == u.pieces
<1>4. /\ start <= end /\ end <= n /\ end <= start + size - 1 /\ (end = n \/ end = start + size - 1)
      /\ start < next /\ next <= end + 1 /\ end < next + overlap /\ end \in Nat /\ next \in Nat
  BY <1>3
<1>5. u = [pieces |-> IF s = <<>> THEN old ELSE Append(old, s), start |-> next]
  BY <1>3
<1>6. new = (IF s = <<>> THEN old ELSE Append(old, s)) /\ u.start = next /\ u.start > v.start
  BY <1>4, <1>5
<1>7. /\ s \in Seq(Nat) /\ (s # <<>> => RawText(s))
      /\ \A x : x \in I!Characters(s) <=> x # 0 /\ \E m \in start..end : p[m] = x
  <2>1. v.start \in Nat /\ 1 <= v.start /\ end <= v.start + idxSettings.size - 1
    BY <1>1, <1>4
  <2> QED
    BY <1>4, <2>1, PieceIs
<1>8. IsRegular /\ start = 1 => Len(s) >= min
  <2> SUFFICES ASSUME IsRegular, start = 1 PROVE Len(s) >= min
    OBVIOUS
  <2>1. end = size
    <3>1. n > size
      OBVIOUS
    <3> HIDE DEF n, size, start
    <3> QED
      BY <1>1, <1>2, <1>4, <3>1
  <2>2. s = I!Strip(SubSeq(p, 1, idxSettings.size))
    BY <2>1
  <2>3. Len(I!Strip(SubSeq(p, 1, idxSettings.size))) >= idxSettings.min
    BY FirstPiece
  <2> QED
    BY <2>2, <2>3
<1> HIDE DEF s, u, new
<1>9. new \in Texts /\ \A x : x \in I!AllOf(new) <=> x \in I!AllOf(old) \/ x \in I!Characters(s)
  <2>1. CASE s = <<>>
    <3>1. new = old
      BY <1>6, <2>1
    <3>2. \A m \in start..end : p[m] = 0
      <4>1. \A x : x \notin I!Characters(s)
        <5>1. <<>> \in Seq(Nat) /\ \A x : ~\E i \in 1..Len(<<>>) : <<>>[i] = x
          OBVIOUS
        <5> QED
          BY <2>1, <5>1, CharactersOf
      <4> QED
        BY <1>7, <4>1
    <3>3. \A x : x \notin I!Characters(s)
      BY <1>7, <3>2
    <3> QED
      BY <1>1, <3>1, <3>3
  <2>2. CASE s # <<>>
    <3>1. new = old \o <<s>>
      BY <1>1, <1>6, <1>7, <2>2, AppendIsTwo
    <3>2. <<s>> \in Texts /\ I!AllOf(<<s>>) = I!Characters(s)
      BY <1>7, OneText
    <3>3. new \in Texts /\ I!AllOf(new) = I!AllOf(old) \cup I!AllOf(<<s>>)
      BY <1>1, <3>1, <3>2, TwoTexts, AllOfTwo
    <3> QED
      BY <3>2, <3>3
  <2> QED
    BY <2>1, <2>2
<1>10. Len(old) \in Nat /\ DOMAIN old = 1..Len(old)
  BY <1>1 DEF Texts
<1>11. \/ s = <<>> /\ new = old
       \/ /\ s # <<>> /\ DOMAIN new = 1..(Len(old) + 1) /\ new[Len(old) + 1] = s
          /\ \A i \in 1..Len(old) : new[i] = old[i]
  <2>1. CASE s = <<>>
    BY <1>6, <2>1
  <2>2. CASE s # <<>>
    <3>1. new = Append(old, s)
      BY <1>6, <2>2
    <3>2. DOMAIN new = 1..(Len(old) + 1) /\ new[Len(old) + 1] = s /\ \A i \in 1..Len(old) : new[i] = old[i]
      BY <1>1, <1>7, <3>1 DEF Texts
    <3> QED
      BY <2>2, <3>2
  <2> QED
    BY <2>1, <2>2
<1>12. u \in Progress
  <2>1. next \in Nat \ {0}
    BY <1>1, <1>4
  <2>2. u = [pieces |-> new, start |-> next]
    BY <1>5, <1>6
  <2> QED
    BY <1>9, <2>1, <2>2 DEF Progress
<1>13. \A i \in DOMAIN new : RawText(new[i])
  <2>1. \A i \in 1..Len(old) : RawText(old[i])
    BY <1>10 DEF PiecesUpTo
  <2>2. \A i \in 1..(Len(old) + 1) : i \in 1..Len(old) \/ i = Len(old) + 1
    BY <1>10
  <2> QED
    BY <1>7, <1>10, <1>11, <2>1, <2>2
<1>14. \A x \in I!AllOf(old) : \E m \in 1..n : p[m] = x /\ m < start + overlap
  BY DEF PiecesUpTo
<1>15. s # <<>> => EndsBy(I!AllOf(old), I!Characters(s))
  <2> SUFFICES ASSUME s # <<>>, NEW x \in I!AllOf(old) PROVE \E y \in I!Characters(s) : x <= y
    BY DEF EndsBy
  <2>1. PICK m \in 1..n : p[m] = x /\ m < start + overlap
    BY <1>14
  <2>2. x \in Nat /\ x # 0
    <3>1. x \in Nat
      BY <1>2, <2>1
    <3>2. PICK i \in DOMAIN old : x \in I!Characters(old[i])
      BY AllOfHas
    <3>3. x # 0
      BY <3>2 DEF I!Characters
    <3> QED
      BY <3>1, <3>3
  <2>3. CASE m >= start
    <3>1. m \in start..end
      <4> HIDE DEF n, start, overlap, size
      <4> QED
        BY <1>1, <1>2, <1>4, <2>1, <2>3
    <3>2. x \in I!Characters(s)
      BY <1>7, <2>1, <2>2, <3>1
    <3> QED
      BY <2>2, <3>2
  <2>4. CASE m < start
    <3>1. PICK y : y \in I!Characters(s)
      BY <1>7, InkHasCharacters DEF RawText
    <3>2. PICK k \in start..end : p[k] = y /\ y # 0
      BY <1>7, <3>1
    <3>3. k \in 1..n /\ m < k
      <4> HIDE DEF n, start, overlap, size
      <4> QED
        BY <1>1, <1>2, <1>4, <2>4
    <3>4. p[m] < p[k] /\ p[k] \in Nat
      BY <1>2, <2>1, <2>2, <3>2, <3>3 DEF Ascending
    <3>5. x <= y
      BY <2>1, <2>2, <3>2, <3>4
    <3> QED
      BY <3>1, <3>5
  <2> QED
    BY <1>1, <2>1, <2>3, <2>4
<1>16. ASSUME NEW i \in DOMAIN new, NEW j \in DOMAIN new, i < j
       PROVE  EndsBy(I!Characters(new[i]), I!Characters(new[j]))
  <2>1. \A k, l \in 1..Len(old) : k < l => EndsBy(I!Characters(old[k]), I!Characters(old[l]))
    BY <1>10 DEF PiecesUpTo
  <2>2. CASE s = <<>>
    BY <1>10, <1>11, <1>16, <2>1, <2>2
  <2>3. CASE s # <<>>
    <3>1. i \in 1..Len(old) /\ (j \in 1..Len(old) \/ j = Len(old) + 1)
      BY <1>10, <1>11, <1>16, <2>3
    <3>2. CASE j \in 1..Len(old)
      BY <1>11, <1>16, <2>1, <2>3, <3>1, <3>2
    <3>3. CASE j = Len(old) + 1
      <4>1. new[i] = old[i] /\ new[j] = s
        BY <1>11, <2>3, <3>1, <3>3
      <4>2. I!Characters(old[i]) \subseteq I!AllOf(old)
        BY <1>10, <3>1, AllOfHas
      <4> QED
        BY <1>15, <2>3, <4>1, <4>2 DEF EndsBy
    <3> QED
      BY <3>1, <3>2, <3>3
  <2> QED
    BY <2>2, <2>3
<1>17. ASSUME NEW x \in I!AllOf(new) PROVE \E m \in 1..n : p[m] = x /\ m < next + overlap
  <2>1. CASE x \in I!AllOf(old)
    <3>1. PICK m \in 1..n : p[m] = x /\ m < start + overlap
      BY <1>14, <2>1
    <3>2. m < next + overlap
      <4> HIDE DEF n, start, overlap, size
      <4> QED
        BY <1>1, <1>4, <3>1
    <3> QED
      BY <3>1, <3>2
  <2>2. CASE x \in I!Characters(s)
    <3>1. PICK m \in start..end : p[m] = x
      BY <1>7, <2>2
    <3>2. m \in 1..n /\ m < next + overlap
      <4> HIDE DEF n, start, overlap, size
      <4> QED
        BY <1>1, <1>2, <1>4, <3>1
    <3> QED
      BY <3>1, <3>2
  <2> QED
    BY <1>9, <2>1, <2>2
<1>18. ASSUME NEW m \in 1..n, m < next, p[m] # 0 PROVE p[m] \in I!AllOf(new)
  <2>1. CASE m < start
    <3>1. p[m] \in I!AllOf(old)
      BY <1>18, <2>1 DEF PiecesUpTo
    <3> QED
      BY <1>9, <3>1
  <2>2. CASE ~(m < start)
    <3>1. m \in start..end
      <4> HIDE DEF n, start, overlap, size
      <4> QED
        BY <1>1, <1>2, <1>4, <1>18, <2>2
    <3>2. p[m] \in I!Characters(s)
      BY <1>7, <1>18, <3>1
    <3> QED
      BY <1>9, <3>2
  <2> QED
    BY <2>1, <2>2
<1>19. IsRegular => IF new = <<>> THEN next = 1 ELSE Len(new[1]) >= min
  <2> SUFFICES ASSUME IsRegular PROVE IF new = <<>> THEN next = 1 ELSE Len(new[1]) >= min
    OBVIOUS
  <2>1. IF old = <<>> THEN start = 1 ELSE Len(old[1]) >= min
    BY DEF PiecesUpTo
  <2>2. CASE old = <<>>
    <3>1. Len(s) >= min /\ Len(old) = 0
      BY <1>8, <2>1, <2>2
    <3>2. s # <<>>
      BY <1>1, <3>1
    <3>3. new[1] = s /\ new # <<>>
      <4>1. DOMAIN new = 1..1 /\ new[1] = s
        BY <1>11, <3>1, <3>2
      <4> QED
        BY <4>1
    <3> QED
      BY <3>1, <3>3
  <2>3. CASE old # <<>>
    <3>1. 1 \in 1..Len(old)
      BY <1>1, <2>3 DEF Texts
    <3>2. 1 \in DOMAIN new /\ new[1] = old[1]
      BY <1>10, <1>11, <3>1
    <3>3. new # <<>>
      BY <3>2
    <3> QED
      BY <2>1, <2>3, <3>2, <3>3
  <2> QED
    BY <2>2, <2>3
<1>20. PiecesUpTo(u, p)
  BY <1>6, <1>12, <1>13, <1>16, <1>17, <1>18, <1>19 DEF PiecesUpTo, new
<1> QED
  BY <1>6, <1>20 DEF u

LEMMA PiecesAre ==
  ASSUME Sized, NEW p, Segment(p), Len(p) > idxSettings.size
  PROVE  /\ I!Pieces(p) \in Texts
         /\ \A i \in DOMAIN I!Pieces(p) : RawText(I!Pieces(p)[i])
         /\ \A i, j \in DOMAIN I!Pieces(p) : i < j =>
              EndsBy(I!Characters(I!Pieces(p)[i]), I!Characters(I!Pieces(p)[j]))
         /\ I!AllOf(I!Pieces(p)) = I!Characters(p)
         /\ IsRegular => I!Pieces(p) # <<>> /\ Len(I!Pieces(p)[1]) >= idxSettings.min
<1> DEFINE n == Len(p)
<1>1. p \in Seq(Nat) /\ n \in Nat /\ DOMAIN p = 1..n /\ n > 0
  BY DEF Segment, Ink
<1>2. PICK F \in [0..Len(p) -> Progress] :
        /\ I!Pieces(p) = F[Len(p)].pieces /\ F[0] = [pieces |-> <<>>, start |-> 1]
        /\ \A k \in 1..Len(p) : F[k] = I!Split(p, F[k - 1])
  BY <1>1, PiecesBy
<1> DEFINE Upto(k) == PiecesUpTo(F[k], p) /\ (F[k].start > k \/ F[k].start > n)
           S == {k \in 0..n : Upto(k)}
<1>3. Upto(0)
  <2> DEFINE v == [pieces |-> <<>>, start |-> 1]
  <2>1. v \in Progress /\ v.pieces = <<>> /\ v.start = 1 /\ DOMAIN v.pieces = {}
    BY DEF Progress, Texts
  <2>2. I!AllOf(v.pieces) = {}
    BY <2>1, AllOfNone
  <2>3. \A m \in 1..Len(p) : ~(m < v.start)
    BY <1>1, <2>1
  <2>4. PiecesUpTo(v, p)
    <3> HIDE DEF v
    <3> QED
      BY <2>1, <2>2, <2>3 DEF PiecesUpTo
  <2> QED
    BY <1>2, <2>4
<1>4. ASSUME NEW k \in 1..n, Upto(k - 1) PROVE Upto(k)
  <2> DEFINE v == F[k - 1]
  <2>1. F[k] = I!Split(p, v) /\ PiecesUpTo(v, p) /\ (v.start > k - 1 \/ v.start > n)
    BY <1>2, <1>4
  <2>2. v.start \in Nat
    BY <2>1 DEF PiecesUpTo, Progress
  <2> HIDE DEF v
  <2>3. CASE v.start > n
    <3>1. I!Split(p, v) = v
      BY <2>3, Zenon DEF I!Split
    <3> QED
      BY <2>1, <2>3, <3>1
  <2>4. CASE ~(v.start > n)
    <3>1. v.start <= Len(p)
      BY <1>1, <2>2, <2>4
    <3>2. PiecesUpTo(F[k], p) /\ F[k].start > v.start
      BY <2>1, <3>1, SplitKeeps
    <3>3. F[k].start \in Nat
      BY <3>2 DEF PiecesUpTo, Progress
    <3>4. F[k].start > k
      BY <2>1, <2>2, <2>4, <3>2, <3>3
    <3> QED
      BY <3>2, <3>4
  <2> QED
    BY <2>3, <2>4
<1> HIDE DEF Upto, n
<1>5. Upto(n)
  <2>1. 0 \in S
    BY <1>1, <1>3
  <2>2. \A k \in 1..n : k - 1 \in S => k \in S
    BY <1>1, <1>4
  <2> HIDE DEF S
  <2>3. \A k \in 0..n : k \in S
    BY <1>1, <2>1, <2>2, Upwards
  <2>4. n \in S
    BY <1>1, <2>3
  <2> QED
    BY <2>4 DEF S
<1> DEFINE v == F[n]
<1>6. PiecesUpTo(v, p) /\ v.start > n /\ I!Pieces(p) = v.pieces
  BY <1>2, <1>5 DEF Upto, n
<1> HIDE DEF v
<1>7. I!AllOf(v.pieces) = I!Characters(p)
  <2>1. v.start \in Nat /\ v.pieces \in Texts
    BY <1>6 DEF PiecesUpTo, Progress
  <2>2. ASSUME NEW x \in I!AllOf(v.pieces) PROVE x \in I!Characters(p)
    <3>1. \E m \in 1..Len(p) : p[m] = x
      BY <1>6 DEF PiecesUpTo
    <3>2. PICK i \in DOMAIN v.pieces : x \in I!Characters(v.pieces[i])
      BY AllOfHas
    <3>3. x # 0
      BY <3>2 DEF I!Characters
    <3> QED
      BY <1>1, <3>1, <3>3, CharactersOf
  <2>3. ASSUME NEW x \in I!Characters(p) PROVE x \in I!AllOf(v.pieces)
    <3>1. PICK m \in 1..n : p[m] = x /\ x # 0
      BY <1>1, CharactersOf DEF n
    <3>2. m < v.start
      BY <1>1, <1>6, <2>1
    <3> QED
      BY <1>6, <3>1, <3>2 DEF PiecesUpTo, n
  <2> QED
    BY <2>2, <2>3
<1>8. IsRegular => v.pieces # <<>> /\ Len(v.pieces[1]) >= idxSettings.min
  <2>1. v.start # 1
    BY <1>1, <1>6
  <2> QED
    BY <1>6, <2>1 DEF PiecesUpTo
<1>9. v.pieces \in Texts
  BY <1>6 DEF PiecesUpTo, Progress
<1> QED
  BY <1>6, <1>7, <1>8, <1>9 DEF PiecesUpTo

-----------------------------------------------------------------------------
(* Indexing: the chunks before their overlap                                  *)

\* All of a text comes before the texts after it, and it ends with a block that is not longer.
Whole(q, k) ==
  EndsBlock(q[k]) /\ \A l \in DOMAIN q : k < l => I!Before(I!Characters(q[k]), I!Characters(q[l]))

\* Short texts are whole, up to the first that is long enough.
RawList(q) ==
  /\ q \in Texts
  /\ \A i \in DOMAIN q : RawText(q[i])
  /\ \A i, j \in DOMAIN q : i < j => EndsBy(I!Characters(q[i]), I!Characters(q[j]))
  /\ IsRegular => \A k \in DOMAIN q : Whole(q, k) \/ \E j \in 1..k : Len(q[j]) >= idxSettings.min

LEMMA RawListTwo ==
  ASSUME NEW p, RawList(p), NEW q, RawList(q), I!Before(I!AllOf(p), I!AllOf(q))
  PROVE  RawList(p \o q)
<1> DEFINE r == p \o q
<1>1. p \in Texts /\ q \in Texts
  BY DEF RawList
<1>2. /\ r \in Texts /\ Len(r) = Len(p) + Len(q)
      /\ \A i \in 1..Len(p) : r[i] = p[i]
      /\ \A i \in 1..Len(q) : r[Len(p) + i] = q[i]
      /\ \A i \in 1..Len(r) : i \in 1..Len(p) \/ \E j \in 1..Len(q) : i = Len(p) + j
  BY <1>1, TwoTexts
<1>3. /\ DOMAIN r = 1..Len(r) /\ DOMAIN p = 1..Len(p) /\ DOMAIN q = 1..Len(q)
      /\ Len(p) \in Nat /\ Len(q) \in Nat
  BY <1>1, <1>2 DEF Texts
<1> HIDE DEF r
<1>4. ASSUME NEW i \in 1..Len(r) PROVE RawText(r[i])
  BY <1>2, <1>3 DEF RawList
<1>5. ASSUME NEW i \in 1..Len(p), NEW j \in 1..Len(q)
      PROVE  I!Before(I!Characters(p[i]), I!Characters(q[j]))
  <2>1. I!Characters(p[i]) \subseteq I!AllOf(p) /\ I!Characters(q[j]) \subseteq I!AllOf(q)
    BY <1>3, AllOfHas
  <2> QED
    BY <2>1 DEF I!Before
<1>6. ASSUME NEW i \in 1..Len(r), NEW j \in 1..Len(r), i < j
      PROVE  EndsBy(I!Characters(r[i]), I!Characters(r[j]))
  <2>1. CASE i \in 1..Len(p) /\ j \in 1..Len(p)
    BY <1>2, <1>3, <1>6, <2>1 DEF RawList
  <2>2. ASSUME i \in 1..Len(p), NEW l \in 1..Len(q), j = Len(p) + l
        PROVE  EndsBy(I!Characters(r[i]), I!Characters(r[j]))
    <3>1. r[i] = p[i] /\ r[j] = q[l]
      BY <1>2, <2>2
    <3>2. Ink(p[i]) /\ Ink(q[l])
      BY <1>3, <2>2 DEF RawList, RawText
    <3>3. /\ I!Characters(q[l]) # {} /\ I!Characters(q[l]) \subseteq Nat /\ I!Characters(p[i]) \subseteq Nat
          /\ I!Before(I!Characters(p[i]), I!Characters(q[l]))
      BY <1>5, <2>2, <3>2, InkHasCharacters
    <3> QED
      BY <3>1, <3>3 DEF I!Before, EndsBy
  <2>3. ASSUME NEW k \in 1..Len(q), i = Len(p) + k, NEW l \in 1..Len(q), j = Len(p) + l
        PROVE  EndsBy(I!Characters(r[i]), I!Characters(r[j]))
    <3>1. r[i] = q[k] /\ r[j] = q[l]
      BY <1>2, <2>3
    <3>2. k < l
      BY <1>3, <1>6, <2>3
    <3> QED
      BY <1>3, <3>1, <3>2 DEF RawList
  <2>4. ASSUME NEW k \in 1..Len(q), i = Len(p) + k, j \in 1..Len(p) PROVE FALSE
    BY <1>3, <1>6, <2>4
  <2> QED
    BY <1>2, <2>1, <2>2, <2>3, <2>4
<1>7. ASSUME IsRegular, NEW k \in 1..Len(r) PROVE Whole(r, k) \/ \E j \in 1..k : Len(r[j]) >= idxSettings.min
  <2>1. CASE k \in 1..Len(p)
    <3>1. r[k] = p[k] /\ k \in DOMAIN p
      BY <1>2, <1>3, <2>1
    <3>2. CASE Whole(p, k)
      <4>1. ASSUME NEW l \in 1..Len(r), k < l PROVE I!Before(I!Characters(r[k]), I!Characters(r[l]))
        <5>1. CASE l \in 1..Len(p)
          BY <1>2, <1>3, <3>1, <3>2, <4>1, <5>1 DEF Whole
        <5>2. ASSUME NEW m \in 1..Len(q), l = Len(p) + m
              PROVE  I!Before(I!Characters(r[k]), I!Characters(r[l]))
          BY <1>2, <1>5, <2>1, <3>1, <5>2
        <5> QED
          BY <1>2, <5>1, <5>2
      <4> QED
        BY <1>3, <3>1, <3>2, <4>1 DEF Whole
    <3>3. CASE \E j \in 1..k : Len(p[j]) >= idxSettings.min
      <4>1. PICK j \in 1..k : Len(p[j]) >= idxSettings.min
        BY <3>3
      <4>2. j \in 1..Len(p)
        BY <1>3, <2>1
      <4> QED
        BY <1>2, <4>1, <4>2
    <3> QED
      BY <1>7, <3>1, <3>2, <3>3 DEF RawList
  <2>2. ASSUME NEW m \in 1..Len(q), k = Len(p) + m
        PROVE  Whole(r, k) \/ \E j \in 1..k : Len(r[j]) >= idxSettings.min
    <3>1. r[k] = q[m] /\ m \in DOMAIN q
      BY <1>2, <1>3, <2>2
    <3>2. CASE Whole(q, m)
      <4>1. ASSUME NEW l \in 1..Len(r), k < l PROVE I!Before(I!Characters(r[k]), I!Characters(r[l]))
        <5>1. l \notin 1..Len(p)
          BY <1>3, <2>2, <4>1
        <5>2. PICK i \in 1..Len(q) : l = Len(p) + i
          BY <1>2, <5>1
        <5>3. m < i /\ r[l] = q[i]
          BY <1>2, <1>3, <2>2, <4>1, <5>2
        <5> QED
          BY <1>3, <3>1, <3>2, <5>3 DEF Whole
      <4> QED
        BY <1>3, <3>1, <3>2, <4>1 DEF Whole
    <3>3. CASE \E j \in 1..m : Len(q[j]) >= idxSettings.min
      <4>1. PICK j \in 1..m : Len(q[j]) >= idxSettings.min
        BY <3>3
      <4>2. j \in 1..Len(q) /\ Len(p) + j \in 1..k
        BY <1>3, <2>2
      <4> QED
        BY <1>2, <4>1, <4>2
    <3> QED
      BY <1>7, <3>1, <3>2, <3>3 DEF RawList
  <2> QED
    BY <1>2, <2>1, <2>2
<1>8. RawList(r)
  BY <1>2, <1>3, <1>4, <1>6, <1>7 DEF RawList
<1> QED
  BY <1>8 DEF r

LEMMA OneRaw ==
  ASSUME NEW s, RawText(s), EndsBlock(s)
  PROVE  RawList(<<s>>) /\ I!AllOf(<<s>>) = I!Characters(s) /\ <<s>> \in Texts
<1>1. s \in Seq(Nat)
  BY DEF RawText, Ink
<1>2. <<s>> \in Texts /\ DOMAIN <<s>> = 1..1 /\ <<s>>[1] = s /\ I!AllOf(<<s>>) = I!Characters(s)
  BY <1>1, OneText
<1> DEFINE q == <<s>>
<1> HIDE DEF q
<1>3. q \in Texts /\ DOMAIN q = 1..1 /\ \A i \in DOMAIN q : q[i] = s
  BY <1>2 DEF q
<1>4. \A i, j \in DOMAIN q : ~(i < j)
  BY <1>3
<1>5. \A k \in DOMAIN q : Whole(q, k)
  BY <1>3, <1>4 DEF Whole
<1>6. RawList(q)
  BY <1>3, <1>4, <1>5 DEF RawList
<1> QED
  BY <1>2, <1>6 DEF q

LEMMA NoRaw == RawList(<<>>)
BY DEF RawList, Texts

LEMMA PiecesRaw ==
  ASSUME Sized, NEW p, Segment(p), Len(p) > idxSettings.size
  PROVE  RawList(I!Pieces(p)) /\ I!AllOf(I!Pieces(p)) = I!Characters(p) /\ I!Pieces(p) \in Texts
<1> DEFINE q == I!Pieces(p)
<1>1. /\ q \in Texts /\ \A i \in DOMAIN q : RawText(q[i])
      /\ \A i, j \in DOMAIN q : i < j => EndsBy(I!Characters(q[i]), I!Characters(q[j]))
      /\ I!AllOf(q) = I!Characters(p)
      /\ IsRegular => q # <<>> /\ Len(q[1]) >= idxSettings.min
  BY PiecesAre
<1> HIDE DEF q
<1>2. IsRegular => \A k \in DOMAIN q : \E j \in 1..k : Len(q[j]) >= idxSettings.min
  <2> SUFFICES ASSUME IsRegular, NEW k \in DOMAIN q PROVE \E j \in 1..k : Len(q[j]) >= idxSettings.min
    OBVIOUS
  <2>1. 1 \in 1..k
    BY <1>1 DEF Texts
  <2> QED
    BY <1>1, <2>1
<1>3. RawList(q)
  BY <1>1, <1>2 DEF RawList
<1> QED
  BY <1>1, <1>3 DEF q

-----------------------------------------------------------------------------
(* Indexing: paragraphs are gathered                                          *)

Gathering == [raw : Texts, buffer : Seq(Nat)]

\* What is gathered, and what of it is still in the buffer.
Gathered(g) ==
  /\ g \in Gathering /\ RawList(g.raw)
  /\ g.buffer # <<>> => RawText(g.buffer) /\ EndsBlock(g.buffer)
  /\ I!Before(I!AllOf(g.raw), I!Characters(g.buffer))

LEMMA NoCharacters == I!Characters(<<>>) = {}
<1>1. <<>> \in Seq(Nat) /\ \A x : ~\E i \in 1..Len(<<>>) : <<>>[i] = x
  OBVIOUS
<1>2. \A x : x \notin I!Characters(<<>>)
  BY <1>1, CharactersOf
<1> QED
  BY <1>2

LEMMA FlushedIs ==
  ASSUME NEW g, Gathered(g)
  PROVE  /\ RawList(I!Flushed(g)) /\ I!Flushed(g) \in Texts
         /\ I!AllOf(I!Flushed(g)) = I!AllOf(g.raw) \cup I!Characters(g.buffer)
<1>1. g.raw \in Texts /\ g.buffer \in Seq(Nat) /\ RawList(g.raw)
  BY DEF Gathered, Gathering
<1>2. CASE g.buffer = <<>>
  <2>1. I!Flushed(g) = g.raw
    BY <1>2 DEF I!Flushed
  <2> QED
    BY <1>1, <1>2, <2>1, NoCharacters
<1>3. CASE g.buffer # <<>>
  <2>1. I!Flushed(g) = g.raw \o <<g.buffer>>
    BY <1>1, <1>3, AppendIsTwo DEF I!Flushed
  <2>2. RawList(<<g.buffer>>) /\ I!AllOf(<<g.buffer>>) = I!Characters(g.buffer) /\ <<g.buffer>> \in Texts
    BY <1>3, OneRaw DEF Gathered
  <2>3. I!Before(I!AllOf(g.raw), I!AllOf(<<g.buffer>>))
    BY <2>2 DEF Gathered
  <2>4. RawList(I!Flushed(g))
    BY <1>1, <2>1, <2>2, <2>3, RawListTwo
  <2>5. I!AllOf(I!Flushed(g)) = I!AllOf(g.raw) \cup I!Characters(g.buffer)
    BY <1>1, <2>1, <2>2, AllOfTwo
  <2> QED
    BY <2>4, <2>5 DEF RawList
<1> QED
  BY <1>2, <1>3

LEMMA FlushedType ==
  ASSUME NEW g \in Gathering
  PROVE  I!Flushed(g) \in Texts
BY DEF Gathering, Texts, I!Flushed

LEMMA GatherType ==
  ASSUME Sized, NEW g \in Gathering, NEW s \in Seq(Nat), I!Pieces(s) \in Texts
  PROVE  I!Gather(g, s) \in Gathering
<1> DEFINE c == I!Join(g.buffer, s)
<1>1. I!Gather(g, s) =
        IF Len(s) > idxSettings.size THEN [raw |-> I!Flushed(g) \o I!Pieces(s), buffer |-> <<>>]
        ELSE IF Len(c) <= idxSettings.size THEN [g EXCEPT !.buffer = c]
        ELSE [raw |-> I!Flushed(g), buffer |-> s]
  BY Zenon DEF I!Gather
<1>2. c \in Seq(Nat) /\ I!Flushed(g) \in Texts
  BY JoinType, FlushedType DEF Gathering
<1>3. I!Flushed(g) \o I!Pieces(s) \in Texts
  BY <1>2, TwoTexts
<1> HIDE DEF c
<1>4. [g EXCEPT !.buffer = c] \in Gathering
  BY <1>2 DEF Gathering
<1>5. [raw |-> I!Flushed(g) \o I!Pieces(s), buffer |-> <<>>] \in Gathering
  BY <1>3 DEF Gathering
<1>6. [raw |-> I!Flushed(g), buffer |-> s] \in Gathering
  BY <1>2 DEF Gathering
<1> QED
  BY <1>1, <1>4, <1>5, <1>6

LEMMA GatherKeeps ==
  ASSUME Sized, idxFile.blocks \in I!Contents, NEW g, Gathered(g), NEW s, Segment(s),
         I!Before(I!AllOf(g.raw) \cup I!Characters(g.buffer), I!Characters(s))
  PROVE  /\ Gathered(I!Gather(g, s))
         /\ I!AllOf(I!Gather(g, s).raw) \cup I!Characters(I!Gather(g, s).buffer)
              = I!AllOf(g.raw) \cup I!Characters(g.buffer) \cup I!Characters(s)
<1> DEFINE c == I!Join(g.buffer, s)
           size == idxSettings.size
           fl == I!Flushed(g)
           u == I!Gather(g, s)
<1>1. u = IF Len(s) > size THEN [raw |-> fl \o I!Pieces(s), buffer |-> <<>>]
          ELSE IF Len(c) <= size THEN [g EXCEPT !.buffer = c]
          ELSE [raw |-> fl, buffer |-> s]
  BY Zenon DEF I!Gather
<1>2. /\ g.raw \in Texts /\ g.buffer \in Seq(Nat) /\ RawList(g.raw) /\ s \in Seq(Nat) /\ Len(s) \in Nat
      /\ Ink(s) /\ Spaced(s) /\ EndsBlock(s) /\ size \in Nat
  BY DEF Gathered, Gathering, Segment, Ink, Sized, IndexSettings
<1>3. RawList(fl) /\ fl \in Texts /\ I!AllOf(fl) = I!AllOf(g.raw) \cup I!Characters(g.buffer)
  BY FlushedIs
<1>4. I!Before(I!AllOf(fl), I!Characters(s))
  BY <1>3
<1> HIDE DEF c, fl, u
<1>5. CASE Len(s) > size
  <2> DEFINE q == I!Pieces(s)
  <2>1. RawList(q) /\ I!AllOf(q) = I!Characters(s) /\ q \in Texts
    BY <1>5, PiecesRaw
  <2> HIDE DEF q
  <2>2. u.raw = fl \o q /\ u.buffer = <<>> /\ u = [raw |-> fl \o q, buffer |-> <<>>]
    BY <1>1, <1>5 DEF q
  <2>3. RawList(fl \o q) /\ I!AllOf(fl \o q) = I!AllOf(fl) \cup I!AllOf(q) /\ fl \o q \in Texts
    BY <1>3, <1>4, <2>1, RawListTwo, AllOfTwo, TwoTexts
  <2>4. Gathered(u)
    <3>1. u \in Gathering
      <4> <<>> \in Seq(Nat)
        OBVIOUS
      <4> QED
        BY <2>2, <2>3 DEF Gathering
    <3>2. I!Before(I!AllOf(u.raw), I!Characters(u.buffer))
      BY <2>2, NoCharacters DEF I!Before
    <3> QED
      BY <2>2, <2>3, <3>1, <3>2 DEF Gathered
  <2>5. I!AllOf(u.raw) \cup I!Characters(u.buffer) = I!AllOf(g.raw) \cup I!Characters(g.buffer) \cup I!Characters(s)
    BY <1>3, <2>1, <2>2, <2>3, NoCharacters
  <2> QED
    BY <2>4, <2>5 DEF u
<1>6. CASE ~(Len(s) > size) /\ Len(c) <= size
  <2>1. /\ Ink(c) /\ Spaced(c) /\ EndsBlock(c) /\ c # <<>>
        /\ I!Characters(c) = I!Characters(g.buffer) \cup I!Characters(s)
    <3>1. CASE g.buffer = <<>>
      <4>1. c = s
        BY <3>1 DEF c, I!Join
      <4> QED
        BY <1>2, <3>1, <4>1, NoCharacters DEF Ink
    <3>2. CASE g.buffer # <<>>
      <4>1. Ink(g.buffer) /\ Spaced(g.buffer)
        BY <3>2 DEF Gathered, RawText
      <4>2. Ink(c) /\ I!Characters(c) = I!Characters(g.buffer) \cup I!Characters(s)
        BY <1>2, <4>1, JoinIs DEF c
      <4>3. Spaced(c)
        BY <1>2, <4>1, JoinSpaced DEF c
      <4>4. I!Before(I!Characters(g.buffer), I!Characters(s))
        BY DEF I!Before
      <4>5. EndsBlock(c)
        BY <1>2, <4>1, <4>4, JoinEnds DEF c
      <4> QED
        BY <4>2, <4>3, <4>5 DEF Ink
    <3> QED
      BY <3>1, <3>2
  <2>2. u.raw = g.raw /\ u.buffer = c /\ u \in Gathering
    <3>1. u = [g EXCEPT !.buffer = c]
      BY <1>1, <1>6
    <3>2. g \in Gathering /\ c \in Seq(Nat)
      BY <2>1 DEF Gathered, Ink
    <3> QED
      BY <3>1, <3>2 DEF Gathering
  <2>3. RawText(c)
    BY <1>6, <2>1 DEF RawText
  <2>4. I!Before(I!AllOf(g.raw), I!Characters(c))
    BY <2>1 DEF I!Before, Gathered
  <2>5. Gathered(u)
    BY <1>2, <2>1, <2>2, <2>3, <2>4 DEF Gathered
  <2>6. I!AllOf(u.raw) \cup I!Characters(u.buffer) = I!AllOf(g.raw) \cup I!Characters(g.buffer) \cup I!Characters(s)
    BY <2>1, <2>2
  <2> QED
    BY <2>5, <2>6 DEF u
<1>7. CASE ~(Len(s) > size) /\ ~(Len(c) <= size)
  <2>1. u = [raw |-> fl, buffer |-> s]
    BY <1>1, <1>7
  <2>2. u \in Gathering /\ u.raw = fl /\ u.buffer = s
    BY <1>2, <1>3, <2>1 DEF Gathering
  <2>3. RawText(s)
    BY <1>2, <1>7 DEF RawText
  <2>4. Gathered(u)
    BY <1>2, <1>3, <1>4, <2>2, <2>3 DEF Gathered
  <2>5. I!AllOf(u.raw) \cup I!Characters(u.buffer) = I!AllOf(g.raw) \cup I!Characters(g.buffer) \cup I!Characters(s)
    BY <1>3, <2>2
  <2> QED
    BY <2>4, <2>5 DEF u
<1> QED
  BY <1>5, <1>6, <1>7

LEMMA PiecesType ==
  ASSUME Sized, NEW p \in Seq(Nat)
  PROVE  I!Pieces(p) \in Texts
<1>1. PICK F \in [0..Len(p) -> Progress] : I!Pieces(p) = F[Len(p)].pieces
  BY PiecesBy
<1>2. Len(p) \in 0..Len(p)
  OBVIOUS
<1>3. F[Len(p)] \in Progress
  BY <1>2
<1> QED
  BY <1>1, <1>3 DEF Progress

\* The paragraphs one by one.
LEMMA RawChunksBy ==
  ASSUME Sized, NEW q \in Texts
  PROVE  \E F \in [0..Len(q) -> Gathering] :
           /\ I!RawChunks(q) = I!Flushed(F[Len(q)]) /\ F[0] = [raw |-> <<>>, buffer |-> <<>>]
           /\ \A k \in 1..Len(q) : F[k] = I!Gather(F[k - 1], q[k])
<1> DEFINE n == Len(q)
           V == Gathering
           Next1(v, k) == I!Gather(v, q[k])
           G(g) == [i \in 0..n |-> IF i = 0 THEN [raw |-> <<>>, buffer |-> <<>>] ELSE Next1(g[i - 1], i)]
           F == CHOOSE g : g = G(g)
           step == [k \in 1..n |-> [v \in V |-> Next1(v, k)]]
<1>1. n \in Nat /\ [raw |-> <<>>, buffer |-> <<>>] \in V /\ <<>> \in Texts /\ <<>> \in Seq(Nat) /\ \A k \in 1..n : q[k] \in Seq(Nat)
  BY DEF Texts, Gathering
<1>2. I!RawChunks(q) = I!Flushed(F[n])
  BY Zenon DEF I!RawChunks
<1>3. \A k \in 1..n : \A v \in V : Next1(v, k) \in V
  <2> SUFFICES ASSUME NEW k \in 1..n, NEW v \in V PROVE Next1(v, k) \in V
    OBVIOUS
  <2>1. I!Pieces(q[k]) \in Texts
    BY <1>1, PiecesType
  <2> QED
    BY <1>1, <2>1, GatherType
<1> HIDE DEF n, V, Next1
<1>4. step \in [1..n -> [V -> V]] /\ \A k \in 1..n : \A v \in V : step[k][v] = Next1(v, k)
  BY <1>3
<1> HIDE DEF step
<1>5. PICK f \in [0..n -> V] : f[0] = [raw |-> <<>>, buffer |-> <<>>] /\ \A k \in 1..n : f[k] = step[k][f[k - 1]]
  <2>1. Runs(n, V, [raw |-> <<>>, buffer |-> <<>>], step)
    BY <1>1, <1>4, Recursion
  <2> QED
    BY <2>1 DEF Runs
<1>6. ASSUME NEW k \in 0..n PROVE f[k] = IF k = 0 THEN [raw |-> <<>>, buffer |-> <<>>] ELSE Next1(f[k - 1], k)
  <2>1. CASE k = 0
    BY <1>5, <2>1
  <2>2. CASE k # 0
    <3>1. k \in 1..n /\ k - 1 \in 0..n
      BY <1>1, <2>2
    <3>2. f[k - 1] \in V
      BY <3>1
    <3> QED
      BY <1>4, <1>5, <2>2, <3>1, <3>2
  <2> QED
    BY <2>1, <2>2
<1>7. f = G(f)
  <2>1. f = [k \in 0..n |-> f[k]]
    OBVIOUS
  <2> QED
    BY <1>6, <2>1
<1>8. F = G(F)
  <2> HIDE DEF G
  <2> QED
    BY <1>7, Zenon
<1> HIDE DEF F
<1>9. F[0] = [raw |-> <<>>, buffer |-> <<>>] /\ \A k \in 1..n : F[k] = Next1(F[k - 1], k)
  <2>1. \A k \in 0..n : F[k] = IF k = 0 THEN [raw |-> <<>>, buffer |-> <<>>] ELSE Next1(F[k - 1], k)
    BY <1>8
  <2>2. 0 \in 0..n /\ \A k \in 1..n : k \in 0..n /\ k # 0
    BY <1>1
  <2> QED
    BY <2>1, <2>2
<1>10. F \in [0..n -> V]
  <2> DEFINE S == {k \in 0..n : F[k] \in V}
  <2>1. 0 \in S
    BY <1>1, <1>9
  <2>2. ASSUME NEW k \in 1..n, k - 1 \in S PROVE k \in S
    <3>1. F[k] \in V
      BY <1>3, <1>9, <2>2
    <3>2. k \in 0..n
      BY <1>1
    <3> QED
      BY <3>1, <3>2
  <2> HIDE DEF S
  <2>3. \A k \in 0..n : k \in S
    BY <1>1, <2>1, <2>2, Upwards
  <2>4. \A k \in 0..n : F[k] \in V
    BY <2>3 DEF S
  <2>5. F = [k \in 0..n |-> F[k]]
    BY <1>8
  <2> QED
    BY <2>4, <2>5
<1> HIDE DEF G
<1> QED
  BY <1>2, <1>9, <1>10 DEF n, V, Next1

LEMMA RawChunksAre ==
  ASSUME Sized, idxFile.blocks \in I!Contents, NEW q, SegmentList(q)
  PROVE  RawList(I!RawChunks(q)) /\ I!AllOf(I!RawChunks(q)) = I!AllOf(q)
<1> DEFINE n == Len(q)
<1>1. q \in Texts /\ DOMAIN q = 1..n /\ n \in Nat
  BY DEF SegmentList, Texts
<1>2. PICK F \in [0..Len(q) -> Gathering] :
        /\ I!RawChunks(q) = I!Flushed(F[Len(q)]) /\ F[0] = [raw |-> <<>>, buffer |-> <<>>]
        /\ \A k \in 1..Len(q) : F[k] = I!Gather(F[k - 1], q[k])
  BY <1>1, RawChunksBy
<1> DEFINE Of(g) == I!AllOf(g.raw) \cup I!Characters(g.buffer)
           Upto(k) == Gathered(F[k]) /\ \A x : x \in Of(F[k]) <=> \E i \in 1..k : x \in I!Characters(q[i])
           S == {k \in 0..n : Upto(k)}
<1> HIDE DEF n
<1>3. Upto(0)
  <2> DEFINE v == [raw |-> <<>>, buffer |-> <<>>]
  <2>1. v \in Gathering /\ v.raw = <<>> /\ v.buffer = <<>>
    BY DEF Gathering, Texts
  <2>2. F[0] = v
    BY <1>2
  <2> HIDE DEF v
  <2>3. Of(v) = {} /\ I!Before(I!AllOf(v.raw), I!Characters(v.buffer))
    BY <2>1, AllOfNone, NoCharacters DEF I!Before
  <2>4. Gathered(v)
    BY <2>1, <2>3, NoRaw DEF Gathered
  <2>5. \A x : ~\E i \in 1..0 : x \in I!Characters(q[i])
    OBVIOUS
  <2> QED
    BY <2>2, <2>3, <2>4, <2>5
<1>4. ASSUME NEW k \in 1..n, Upto(k - 1) PROVE Upto(k)
  <2> DEFINE p == F[k - 1]
             s == q[k]
  <2>1. k \in DOMAIN q /\ k \in 1..k
    BY <1>1
  <2>2. F[k] = I!Gather(p, s)
    BY <1>2 DEF n
  <2>3. Gathered(p) /\ Segment(s)
    BY <1>4, <2>1 DEF SegmentList
  <2>4. I!Before(Of(p), I!Characters(s))
    <3>1. ASSUME NEW x \in Of(p), NEW y \in I!Characters(s) PROVE x < y
      <4>1. PICK i \in 1..(k - 1) : x \in I!Characters(q[i])
        BY <1>4
      <4>2. i \in DOMAIN q /\ i < k
        BY <1>1
      <4> QED
        BY <2>1, <4>1, <4>2 DEF SegmentList, I!Before
    <3> HIDE DEF Of
    <3> QED
      BY <3>1 DEF I!Before
  <2>5. \A x : (\E i \in 1..k : x \in I!Characters(q[i])) <=>
               (\E i \in 1..(k - 1) : x \in I!Characters(q[i])) \/ x \in I!Characters(s)
    <3>1. \A i \in 1..k : i \in 1..(k - 1) \/ i = k
      BY <1>1
    <3>2. \A i \in 1..(k - 1) : i \in 1..k
      BY <1>1
    <3> QED
      BY <2>1, <3>1, <3>2
  <2> HIDE DEF p, s
  <2>6. Gathered(F[k]) /\ Of(F[k]) = Of(p) \cup I!Characters(s)
    BY <2>2, <2>3, <2>4, GatherKeeps
  <2> HIDE DEF Of
  <2> QED
    BY <1>4, <2>5, <2>6 DEF p
<1> HIDE DEF Upto
<1>5. Upto(n)
  <2>1. 0 \in S
    BY <1>1, <1>3
  <2>2. \A k \in 1..n : k - 1 \in S => k \in S
    BY <1>1, <1>4
  <2> HIDE DEF S
  <2>3. \A k \in 0..n : k \in S
    BY <1>1, <2>1, <2>2, Upwards
  <2>4. n \in S
    BY <1>1, <2>3
  <2> QED
    BY <2>4 DEF S
<1>6. Gathered(F[n]) /\ \A x : x \in Of(F[n]) <=> x \in I!AllOf(q)
  BY <1>1, <1>5, AllOfHas DEF Upto
<1>7. RawList(I!Flushed(F[n])) /\ I!AllOf(I!Flushed(F[n])) = Of(F[n])
  BY <1>6, FlushedIs
<1> HIDE DEF Of
<1>8. I!AllOf(I!Flushed(F[n])) = I!AllOf(q)
  BY <1>6, <1>7
<1> QED
  BY <1>2, <1>7, <1>8 DEF n

-----------------------------------------------------------------------------
(* Indexing: the overlap                                                      *)

Kept(s) == Ink(s) /\ Len(s) <= idxSettings.size + idxSettings.overlap /\ Spaced(s)

LEMMA SuffixIs ==
  ASSUME Sized, NEW s, Ink(s), idxSettings.overlap > 0
  PROVE  \E a \in 1..Len(s) :
           /\ I!Suffix(s) = SubSeq(s, a, Len(s))
           /\ a = IF Len(s) > idxSettings.overlap THEN Len(s) - idxSettings.overlap + 1 ELSE 1
<1> DEFINE overlap == idxSettings.overlap
           n == Len(s)
           a == I!Max({n - overlap, 0}) + 1
<1>1. overlap \in Nat /\ n \in Nat /\ n > 0 /\ overlap > 0
  BY DEF Sized, IndexSettings, Ink
<1>2. I!Suffix(s) = SubSeq(s, a, n)
  BY DEF I!Suffix
<1>3. I!Max({n - overlap, 0}) = IF n - overlap >= 0 THEN n - overlap ELSE 0
  <2> HIDE DEF n, overlap
  <2> QED
    BY <1>1, MaxOfTwo
<1>4. a \in 1..n /\ a = IF n > overlap THEN n - overlap + 1 ELSE 1
  <2> HIDE DEF n, overlap
  <2> QED
    BY <1>1, <1>3
<1> HIDE DEF a
<1> QED
  BY <1>2, <1>4

\* The end of the chunk before, a separator and the chunk.
LEMMA MergedParts ==
  ASSUME Sized, NEW s, Kept(s), NEW t, RawText(t), idxSettings.overlap > 0, NEW u, u = I!Suffix(s) \o << 0 >> \o t
  PROVE  /\ u \in Seq(Nat) /\ ~I!Blank(u) /\ Spaced(u)
         /\ Len(u) <= idxSettings.overlap + 1 + Len(t)
         /\ I!Characters(t) \subseteq I!Characters(u)
         /\ I!Characters(u) \subseteq I!Characters(s) \cup I!Characters(t)
         /\ IsRegular /\ Len(s) >= idxSettings.min => Len(I!Strip(u)) >= idxSettings.min
<1> DEFINE overlap == idxSettings.overlap
           min == idxSettings.min
           n == Len(s)
           z == <<0>>
           v == I!Suffix(s)
           l == Len(v)
           k == Len(t)
<1>1. /\ overlap \in Nat /\ overlap > 0 /\ min \in Nat /\ min > 0 /\ n \in Nat /\ n > 0 /\ k \in Nat /\ k > 0
      /\ s \in Seq(Nat) /\ t \in Seq(Nat) /\ Ink(s) /\ Ink(t) /\ Spaced(s) /\ Spaced(t)
      /\ s[1] # 0 /\ s[n] # 0 /\ t[1] # 0 /\ t[k] # 0
  <2>1. overlap \in Nat /\ overlap > 0 /\ min \in Nat /\ min > 0
    BY DEF Sized, IndexSettings
  <2>2. Ink(s) /\ Ink(t) /\ Spaced(s) /\ Spaced(t)
    BY DEF Kept, RawText
  <2>3. n \in Nat /\ n > 0 /\ s \in Seq(Nat) /\ s[1] # 0 /\ s[n] # 0
    BY <2>2 DEF Ink
  <2>4. k \in Nat /\ k > 0 /\ t \in Seq(Nat) /\ t[1] # 0 /\ t[k] # 0
    BY <2>2 DEF Ink
  <2> QED
    BY <2>1, <2>2, <2>3, <2>4
<1>2. z \in Seq(Nat) /\ Len(z) = 1 /\ \A i \in 1..Len(z) : z[i] = 0
  OBVIOUS
<1>3. PICK a \in 1..n : v = SubSeq(s, a, n) /\ a = IF n > overlap THEN n - overlap + 1 ELSE 1
  BY <1>1, SuffixIs
<1>4. u = v \o z \o t /\ Len(s) = n /\ Len(t) = k /\ Len(v) = l
  OBVIOUS
<1> HIDE DEF z, v, n, k, l, overlap, min
<1>5. a \in Nat /\ 1 <= a /\ a <= n /\ a <= n + 1
  BY <1>1, <1>3
<1>17. \A g \in Nat : I!GapsWithin(s, g) => I!GapsWithin(SubSeq(s, a, n), g)
  <2>1. n \in Nat /\ n <= Len(s)
    BY <1>1, <1>4
  <2> QED
    BY <1>1, <1>5, <2>1, SectionKeeps
<1>6. v \in Seq(Nat) /\ l = n - a + 1 /\ \A i \in 1..(n - a + 1) : v[i] = s[a + i - 1]
  <2>1. /\ SubSeq(s, a, n) \in Seq(Nat) /\ Len(SubSeq(s, a, n)) = n - a + 1
        /\ \A i \in 1..(n - a + 1) : SubSeq(s, a, n)[i] = s[a + i - 1]
    <3>1. n \in Nat /\ n <= Len(s) /\ s \in Seq(Nat)
      BY <1>1, <1>4
    <3> QED
      BY <1>5, <3>1, Section
  <2>2. v = SubSeq(s, a, n)
    BY <1>3
  <2>3. v \in Seq(Nat) /\ Len(v) = n - a + 1
    BY <2>1, <2>2, Zenon
  <2>4. \A i \in 1..(n - a + 1) : v[i] = s[a + i - 1]
    BY <2>1, <2>2, Zenon
  <2> QED
    BY <1>4, <2>3, <2>4, Zenon
<1>7. l \in Nat /\ l > 0 /\ l <= overlap /\ (n > overlap => l = overlap) /\ (n <= overlap => l = n /\ a = 1)
  <2> QED
    BY <1>1, <1>3, <1>5, <1>6
<1>8. v[l] # 0 /\ (a = 1 => v[1] # 0)
  <2>1. l \in 1..(n - a + 1) /\ a + l - 1 = n /\ 1 \in 1..(n - a + 1)
    <3> QED
      BY <1>1, <1>5, <1>6, <1>7
  <2>2. v[l] = s[n]
    BY <1>6, <2>1
  <2>3. v[1] = s[a + 1 - 1] /\ a + 1 - 1 = a
    <3>1. a + 1 - 1 = a
      BY <1>5
    <3> QED
      BY <1>6, <2>1, <3>1
  <2> QED
    BY <1>1, <2>2, <2>3
<1>9. /\ u \in Seq(Nat) /\ Len(u) = l + 1 + k
      /\ \A i \in 1..l : u[i] = v[i]
      /\ \A i \in 1..k : u[l + 1 + i] = t[i]
  <2>1. /\ v \o z \o t \in Seq(Nat) /\ Len(v \o z \o t) = Len(v) + Len(z) + Len(t)
        /\ \A i \in 1..Len(v) : (v \o z \o t)[i] = v[i]
        /\ \A i \in 1..Len(t) : (v \o z \o t)[Len(v) + Len(z) + i] = t[i]
    <3>1. v \in Seq(Nat) /\ z \in Seq(Nat) /\ t \in Seq(Nat) /\ \A i \in 1..Len(z) : z[i] = 0
      BY <1>1, <1>2, <1>6
    <3> QED
      BY <3>1, Padded
  <2> QED
    BY <1>2, <1>4, <2>1
<1>10. I!Characters(u) = I!Characters(v) \cup I!Characters(t)
  <2>1. v \in Seq(Nat) /\ z \in Seq(Nat) /\ t \in Seq(Nat) /\ \A i \in 1..Len(z) : z[i] = 0
    BY <1>1, <1>2, <1>6
  <2>2. I!Characters(v \o z \o t) = I!Characters(v) \cup I!Characters(t)
    BY <2>1, PaddedCharacters
  <2> QED
    BY <1>4, <2>2
<1>11. I!Characters(v) \subseteq I!Characters(s)
  <2> SUFFICES ASSUME NEW x \in I!Characters(v) PROVE x \in I!Characters(s)
    OBVIOUS
  <2>1. PICK i \in 1..l : v[i] = x /\ x # 0
    BY <1>4, <1>6, CharactersOf
  <2>2. s[a + i - 1] = x
    BY <1>6, <2>1
  <2>3. a + i - 1 \in 1..n
    <3> QED
      BY <1>1, <1>5, <1>6
  <2> QED
    BY <1>1, <1>4, <2>1, <2>2, <2>3, CharactersOf
<1>12. Spaced(u)
  <2>1. ASSUME IsRegular PROVE I!GapsWithin(u, Gap)
    <3>1. Gap \in Nat /\ Gap >= 2 /\ I!GapsWithin(s, Gap) /\ I!GapsWithin(t, Gap)
      BY <1>1, <2>1, RegularGap DEF Spaced
    <3>2. I!GapsWithin(v, Gap)
      <4>1. I!GapsWithin(SubSeq(s, a, n), Gap)
        BY <1>17, <3>1
      <4> QED
        BY <1>3, <4>1
    <3>3. Len(z) <= Gap /\ Len(v) > 0 /\ v[Len(v)] # 0 /\ Len(t) > 0 /\ t[1] # 0
      BY <1>1, <1>2, <1>4, <1>7, <1>8, <3>1
    <3>4. v \in Seq(Nat) /\ z \in Seq(Nat) /\ t \in Seq(Nat) /\ \A i \in 1..Len(z) : z[i] = 0
      BY <1>1, <1>2, <1>6
    <3>5. I!GapsWithin(v \o z \o t, Gap)
      BY <3>1, <3>2, <3>3, <3>4, PaddedGaps
    <3> QED
      BY <1>4, <3>5
  <2> QED
    BY <2>1 DEF Spaced
<1>13. u[l + 1 + k] # 0 /\ l + 1 + k \in DOMAIN u
  <2>1. k \in 1..k
    BY <1>1
  <2>2. u[l + 1 + k] = t[k]
    BY <1>9, <2>1
  <2>3. DOMAIN u = 1..(l + 1 + k) /\ l + 1 + k \in 1..(l + 1 + k)
    BY <1>1, <1>7, <1>9
  <2> QED
    BY <1>1, <2>2, <2>3
<1>14. ~I!Blank(u)
  BY <1>13 DEF I!Blank
<1>15. ASSUME IsRegular, n >= min PROVE Len(I!Strip(u)) >= min
  <2>1. PICK b, e \in 1..Len(u) :
           /\ b <= e /\ I!Strip(u) = SubSeq(u, b, e)
           /\ \A i \in 1..Len(u) : u[i] # 0 => b <= i /\ i <= e
    BY <1>9, <1>14, StripIs
  <2>2. e = l + 1 + k /\ b \in Nat /\ 1 <= b /\ b <= e
    <3>1. l + 1 + k \in 1..Len(u)
      BY <1>1, <1>7, <1>9
    <3>2. l + 1 + k <= e
      BY <1>13, <2>1, <3>1
    <3>3. e \in Nat /\ e <= Len(u) /\ b \in Nat /\ 1 <= b
      BY <1>9, <2>1
    <3> QED
      BY <1>1, <1>7, <1>9, <2>1, <3>2, <3>3
  <2>3. Len(I!Strip(u)) = e - b + 1
    <3>1. Len(SubSeq(u, b, e)) = e - b + 1
      <4>1. b \in Nat /\ e \in Nat /\ 1 <= b /\ e <= Len(u) /\ b <= e + 1
        BY <1>9, <2>1, <2>2
      <4> QED
        BY <1>9, <4>1, Section
    <3> QED
      BY <2>1, <3>1
  <2>4. \A i \in 1..l : v[i] # 0 => b <= i
    <3> SUFFICES ASSUME NEW i \in 1..l, v[i] # 0 PROVE b <= i
      OBVIOUS
    <3>1. i \in 1..Len(u)
      BY <1>1, <1>7, <1>9
    <3>2. u[i] # 0
      BY <1>9
    <3> QED
      BY <2>1, <3>1, <3>2
  <2>5. b <= l
    BY <1>7, <1>8, <2>4
  <2>6. Gap \in Nat /\ Gap = overlap + 2 - min /\ I!GapsWithin(v, Gap) /\ min <= overlap
    <3>1. Gap \in Nat /\ I!GapsWithin(s, Gap) /\ min <= overlap
      BY <1>1, <1>15, RegularGap DEF Spaced, min, overlap
    <3>2. I!GapsWithin(SubSeq(s, a, n), Gap)
      BY <1>17, <3>1
    <3> QED
      BY <1>3, <3>1, <3>2 DEF Gap, overlap, min
  <2>7. CASE n <= overlap
    <3>1. b <= 1
      BY <1>7, <1>8, <2>4, <2>7
    <3>2. e - b + 1 >= min
      BY <1>1, <1>7, <1>15, <2>2, <2>7, <3>1
    <3> QED
      BY <2>3, <3>2
  <2>8. CASE n > overlap /\ min <= 2
    <3>1. e - b + 1 >= min
      BY <1>1, <1>7, <2>2, <2>5, <2>8
    <3> QED
      BY <2>3, <3>1
  <2>9. CASE n > overlap /\ min > 2
    <3>1. l = overlap
      BY <1>7, <2>9
    <3>2. DOMAIN v = 1..l
      BY <1>4, <1>6
    <3>3. 1 \in 1..l /\ 1 + Gap \in 1..l
      BY <1>1, <1>7, <2>6, <2>9, <3>1
    <3>4. PICK j \in 1..(1 + Gap) : v[j] # 0
      BY <2>6, <3>2, <3>3 DEF I!GapsWithin
    <3>5. b <= j
      <4>1. j \in 1..l
        BY <1>7, <2>6, <3>3
      <4> QED
        BY <2>4, <3>4, <4>1
    <3>6. e - b + 1 >= min
      BY <1>1, <1>7, <2>2, <2>6, <3>1, <3>4, <3>5
    <3> QED
      BY <2>3, <3>6
  <2> QED
    BY <1>1, <2>7, <2>8, <2>9
<1>16. Len(u) <= overlap + 1 + k
  BY <1>1, <1>7, <1>9
<1> QED
  BY <1>4, <1>9, <1>10, <1>11, <1>12, <1>14, <1>15, <1>16 DEF min, overlap

LEMMA MergedIs ==
  ASSUME Sized, NEW s, s = <<>> \/ Kept(s), NEW t, RawText(t), NEW m, m = I!Merged(s, t)
  PROVE  /\ s = <<>> => m = t
         /\ Kept(m)
         /\ I!Characters(t) \subseteq I!Characters(m)
         /\ I!Characters(m) \subseteq I!Characters(s) \cup I!Characters(t)
         /\ IsRegular /\ s # <<>> /\ Len(s) >= idxSettings.min => Len(m) >= idxSettings.min
<1> DEFINE u == I!Suffix(s) \o <<0>> \o t
           w == I!Strip(u)
           limit == idxSettings.size + idxSettings.overlap
<1>1. m = IF s = <<>> \/ idxSettings.overlap = 0 \/ Len(w) > limit THEN t ELSE w
  BY Zenon DEF I!Merged
<1>2. /\ idxSettings.size \in Nat /\ idxSettings.overlap \in Nat /\ idxSettings.min \in Nat /\ limit \in Nat
      /\ idxSettings.overlap < idxSettings.size
  BY DEF Sized, IndexSettings
<1>3. Kept(t) /\ Len(t) \in Nat
  BY <1>2 DEF Kept, RawText, Ink
<1>4. ASSUME IsRegular PROVE idxSettings.min <= idxSettings.overlap /\ idxSettings.overlap > 0
  <2>1. idxSettings.min <= idxSettings.overlap
    BY <1>4, RegularGap
  <2>2. idxSettings.min > 0
    BY DEF Sized, IndexSettings
  <2> QED
    BY <1>2, <2>1, <2>2
<1>5. CASE s = <<>> \/ idxSettings.overlap = 0
  <2>1. m = t
    BY <1>1, <1>5
  <2>2. IsRegular => s = <<>>
    BY <1>4, <1>5
  <2> QED
    BY <1>3, <2>1, <2>2
<1>6. CASE ~(s = <<>> \/ idxSettings.overlap = 0)
  <2>1. Kept(s) /\ idxSettings.overlap > 0 /\ s # <<>>
    BY <1>2, <1>6
  <2>2. /\ u \in Seq(Nat) /\ ~I!Blank(u) /\ Spaced(u)
        /\ Len(u) <= idxSettings.overlap + 1 + Len(t)
        /\ I!Characters(t) \subseteq I!Characters(u)
        /\ I!Characters(u) \subseteq I!Characters(s) \cup I!Characters(t)
        /\ IsRegular /\ Len(s) >= idxSettings.min => Len(I!Strip(u)) >= idxSettings.min
    BY <2>1, MergedParts
  <2> HIDE DEF u
  <2>3. /\ Ink(w) /\ Len(w) <= Len(u) /\ I!Characters(w) = I!Characters(u)
        /\ \A n \in Nat : I!GapsWithin(u, n) => I!GapsWithin(w, n)
    BY <2>2, StripInk
  <2>4. Spaced(w)
    BY <2>2, <2>3, RegularGap DEF Spaced
  <2>5. IsRegular /\ Len(s) >= idxSettings.min => Len(w) >= idxSettings.min
    BY <2>2
  <2> HIDE DEF w
  <2>6. Len(w) \in Nat /\ Len(u) \in Nat
    BY <2>2, <2>3 DEF Ink
  <2>7. CASE Len(w) > limit
    <3>1. m = t
      BY <1>1, <2>7
    <3>2. Len(t) >= idxSettings.size
      BY <1>2, <1>3, <2>2, <2>3, <2>6, <2>7
    <3>3. IsRegular => Len(t) >= idxSettings.min
      BY <1>2, <1>3, <1>4, <3>2
    <3> QED
      BY <1>3, <1>6, <3>1, <3>3
  <2>8. CASE ~(Len(w) > limit)
    <3>1. m = w
      BY <1>1, <1>6, <2>8
    <3>2. Kept(w)
      BY <1>2, <2>3, <2>4, <2>6, <2>8 DEF Kept
    <3> QED
      BY <1>6, <2>2, <2>3, <2>5, <3>1, <3>2
  <2> QED
    BY <2>7, <2>8
<1> QED
  BY <1>5, <1>6

LEMMA MergedType ==
  ASSUME NEW s \in Seq(Nat), NEW t \in Seq(Nat), Sized
  PROVE  I!Merged(s, t) \in Seq(Nat)
<1> DEFINE u == I!Suffix(s) \o <<0>> \o t
<1>1. I!Suffix(s) \in Seq(Nat)
  <2> DEFINE a == I!Max({Len(s) - idxSettings.overlap, 0}) + 1
  <2>1. I!Suffix(s) = SubSeq(s, a, Len(s))
    BY DEF I!Suffix
  <2>2. Len(s) \in Nat /\ idxSettings.overlap \in Nat
    BY DEF Sized, IndexSettings
  <2>3. a \in Nat /\ 1 <= a /\ a <= Len(s) + 1
    <3>1. I!Max({Len(s) - idxSettings.overlap, 0})
            = IF Len(s) - idxSettings.overlap >= 0 THEN Len(s) - idxSettings.overlap ELSE 0
      BY <2>2, MaxOfTwo
    <3> QED
      BY <2>2, <3>1
  <2> HIDE DEF a
  <2>4. SubSeq(s, a, Len(s)) \in Seq(Nat)
    BY <2>2, <2>3, Section
  <2> QED
    BY <2>1, <2>4
<1>2. u \in Seq(Nat)
  <2> DEFINE v == I!Suffix(s)
  <2> HIDE DEF v
  <2>1. v \in Seq(Nat)
    BY <1>1 DEF v
  <2>2. v \o <<0>> \o t \in Seq(Nat)
    BY <2>1
  <2> QED
    BY <2>2 DEF v
<1> HIDE DEF u
<1>3. I!Strip(u) \in Seq(Nat)
  BY <1>2, StripType
<1>4. I!Merged(s, t) \in {t, I!Strip(u)}
  BY Zenon DEF I!Merged, u
<1> QED
  BY <1>3, <1>4

\* The chunks one by one.
LEMMA OverlappedBy ==
  ASSUME Sized, NEW q \in Texts
  PROVE  \E F \in [0..Len(q) -> Texts] :
           /\ I!Overlapped(q) = F[Len(q)] /\ F[0] = <<>>
           /\ \A k \in 1..Len(q) : F[k] = I!Keep(F[k - 1], q[k])
<1> DEFINE n == Len(q)
           V == Texts
           Next1(v, k) == I!Keep(v, q[k])
           G(g) == [i \in 0..n |-> IF i = 0 THEN <<>> ELSE Next1(g[i - 1], i)]
           F == CHOOSE g : g = G(g)
           step == [k \in 1..n |-> [v \in V |-> Next1(v, k)]]
<1>1. n \in Nat /\ <<>> \in V /\ \A k \in 1..n : q[k] \in Seq(Nat)
  BY DEF Texts
<1>2. I!Overlapped(q) = F[n]
  BY Zenon DEF I!Overlapped
<1>3. \A k \in 1..n : \A v \in V : Next1(v, k) \in V
  <2> SUFFICES ASSUME NEW k \in 1..n, NEW v \in V PROVE Next1(v, k) \in V
    OBVIOUS
  <2>1. v \in Seq(Seq(Nat)) /\ q[k] \in Seq(Nat)
    BY <1>1 DEF Texts
  <2> DEFINE last == IF v = <<>> THEN <<>> ELSE v[Len(v)]
             m == I!Merged(last, q[k])
  <2>2. last \in Seq(Nat)
    BY <2>1
  <2> HIDE DEF last
  <2>3. m \in Seq(Nat)
    BY <2>1, <2>2, MergedType
  <2> HIDE DEF m
  <2>4. Append(v, m) \in Texts
    BY <2>1, <2>3 DEF Texts
  <2>5. I!Keep(v, q[k]) \in {v, Append(v, m)}
    BY Zenon DEF I!Keep, m, last
  <2> QED
    BY <2>4, <2>5
<1> HIDE DEF n, V, Next1
<1>4. step \in [1..n -> [V -> V]] /\ \A k \in 1..n : \A v \in V : step[k][v] = Next1(v, k)
  BY <1>3
<1> HIDE DEF step
<1>5. PICK f \in [0..n -> V] : f[0] = <<>> /\ \A k \in 1..n : f[k] = step[k][f[k - 1]]
  <2>1. Runs(n, V, <<>>, step)
    BY <1>1, <1>4, Recursion
  <2> QED
    BY <2>1 DEF Runs
<1>6. ASSUME NEW k \in 0..n PROVE f[k] = IF k = 0 THEN <<>> ELSE Next1(f[k - 1], k)
  <2>1. CASE k = 0
    BY <1>5, <2>1
  <2>2. CASE k # 0
    <3>1. k \in 1..n /\ k - 1 \in 0..n
      BY <1>1, <2>2
    <3>2. f[k - 1] \in V
      BY <3>1
    <3> QED
      BY <1>4, <1>5, <2>2, <3>1, <3>2
  <2> QED
    BY <2>1, <2>2
<1>7. f = G(f)
  <2>1. f = [k \in 0..n |-> f[k]]
    OBVIOUS
  <2> QED
    BY <1>6, <2>1
<1>8. F = G(F)
  <2> HIDE DEF G
  <2> QED
    BY <1>7, Zenon
<1> HIDE DEF F
<1>9. F[0] = <<>> /\ \A k \in 1..n : F[k] = Next1(F[k - 1], k)
  <2>1. \A k \in 0..n : F[k] = IF k = 0 THEN <<>> ELSE Next1(F[k - 1], k)
    BY <1>8
  <2>2. 0 \in 0..n /\ \A k \in 1..n : k \in 0..n /\ k # 0
    BY <1>1
  <2> QED
    BY <2>1, <2>2
<1>10. F \in [0..n -> V]
  <2> DEFINE S == {k \in 0..n : F[k] \in V}
  <2>1. 0 \in S
    BY <1>1, <1>9
  <2>2. ASSUME NEW k \in 1..n, k - 1 \in S PROVE k \in S
    <3>1. F[k] \in V
      BY <1>3, <1>9, <2>2
    <3>2. k \in 0..n
      BY <1>1
    <3> QED
      BY <3>1, <3>2
  <2> HIDE DEF S
  <2>3. \A k \in 0..n : k \in S
    BY <1>1, <2>1, <2>2, Upwards
  <2>4. \A k \in 0..n : F[k] \in V
    BY <2>3 DEF S
  <2>5. F = [k \in 0..n |-> F[k]]
    BY <1>8
  <2> QED
    BY <2>4, <2>5
<1> HIDE DEF G
<1> QED
  BY <1>2, <1>9, <1>10 DEF n, V, Next1

\* The chunks of the first k texts: once one is kept, every one after it is.
KeptUpTo(c, q, k) ==
  /\ c \in Texts
  /\ \A i \in DOMAIN c : Kept(c[i]) /\ Len(c[i]) >= idxSettings.min
  /\ \A i, j \in DOMAIN c : i < j => EndsBy(I!Characters(c[i]), I!Characters(c[j]))
  /\ \A i \in DOMAIN c, l \in DOMAIN q : k < l => EndsBy(I!Characters(c[i]), I!Characters(q[l]))
  /\ IsRegular =>
       IF c = <<>> THEN \A j \in 1..k : Len(q[j]) < idxSettings.min
       ELSE \E m \in 1..k :
              /\ \A j \in 1..(m - 1) : Len(q[j]) < idxSettings.min
              /\ \A x : x \in I!AllOf(c) <=> \E j \in m..k : x \in I!Characters(q[j])

LEMMA KeepKeeps ==
  ASSUME Sized, NEW q, RawList(q), NEW k \in DOMAIN q, NEW c, KeptUpTo(c, q, k - 1)
  PROVE  KeptUpTo(I!Keep(c, q[k]), q, k)
<1> DEFINE min == idxSettings.min
           n == Len(c)
           s == IF c = <<>> THEN <<>> ELSE c[n]
           t == q[k]
           m == I!Merged(s, t)
           d == I!Keep(c, t)
<1>1. d = IF Len(m) < min THEN c ELSE Append(c, m)
  BY Zenon DEF I!Keep
<1>2. /\ c \in Texts /\ q \in Texts /\ n \in Nat /\ DOMAIN c = 1..n /\ Len(q) \in Nat /\ DOMAIN q = 1..Len(q)
      /\ k \in 1..Len(q) /\ k \in Nat /\ min \in Nat /\ RawText(t) /\ (c # <<>> => n \in 1..n)
  <2>1. c \in Texts /\ q \in Texts /\ k \in DOMAIN q /\ RawText(t)
    BY DEF KeptUpTo, RawList
  <2>2. min \in Nat
    BY DEF Sized, IndexSettings
  <2>3. n \in Nat /\ DOMAIN c = 1..n /\ (c # <<>> => n \in 1..n)
    BY <2>1 DEF Texts
  <2>4. Len(q) \in Nat /\ DOMAIN q = 1..Len(q)
    BY <2>1 DEF Texts
  <2>5. k \in 1..Len(q) /\ k \in Nat
    BY <2>1, <2>4
  <2> QED
    BY <2>1, <2>2, <2>3, <2>4, <2>5
<1>3. s = <<>> \/ Kept(s)
  BY <1>2 DEF KeptUpTo
<1>4. c # <<>> => s = c[n] /\ s # <<>> /\ Len(s) >= min
  <2> SUFFICES ASSUME c # <<>> PROVE s = c[n] /\ s # <<>> /\ Len(s) >= min
    OBVIOUS
  <2>1. s = c[n] /\ Kept(c[n]) /\ Len(c[n]) >= min
    BY <1>2 DEF KeptUpTo
  <2>2. c[n] # <<>>
    BY <2>1 DEF Kept, Ink
  <2> QED
    BY <2>1, <2>2
<1>5. c = <<>> => s = <<>>
  OBVIOUS
<1> HIDE DEF s
<1>6. /\ s = <<>> => m = t
      /\ Kept(m)
      /\ I!Characters(t) \subseteq I!Characters(m)
      /\ I!Characters(m) \subseteq I!Characters(s) \cup I!Characters(t)
      /\ IsRegular /\ s # <<>> /\ Len(s) >= min => Len(m) >= min
  BY <1>2, <1>3, MergedIs
<1> HIDE DEF m, d, n, min
<1>7. \A j \in 1..k : j \in 1..(k - 1) \/ j = k
  BY <1>2
<1>8. CASE Len(m) < min
  <2>1. d = c
    BY <1>1, <1>8
  <2>2. Len(m) \in Nat
    BY <1>6 DEF Kept, Ink
  <2>3. IsRegular => c = <<>> /\ m = t
    BY <1>2, <1>4, <1>5, <1>6, <1>8, <2>2
  <2>4. IsRegular => \A j \in 1..k : Len(q[j]) < min
    BY <1>7, <1>8, <2>3 DEF KeptUpTo, min
  <2>5. \A i \in DOMAIN c, l \in DOMAIN q : k < l => EndsBy(I!Characters(c[i]), I!Characters(q[l]))
    <3>1. \A l \in DOMAIN q : k < l => k - 1 < l
      BY <1>2
    <3> QED
      BY <3>1 DEF KeptUpTo
  <2>6. KeptUpTo(c, q, k)
    BY <2>3, <2>4, <2>5 DEF KeptUpTo, min
  <2> QED
    BY <2>1, <2>6 DEF d
<1>9. CASE ~(Len(m) < min)
  <2>1. d = Append(c, m) /\ m \in Seq(Nat) /\ Len(m) >= min /\ Ink(m)
    <3>1. Len(m) \in Nat /\ m \in Seq(Nat)
      BY <1>6 DEF Kept, Ink
    <3> QED
      BY <1>1, <1>2, <1>6, <1>9, <3>1 DEF Kept
  <2>2. d \in Texts /\ DOMAIN d = 1..(n + 1) /\ d[n + 1] = m /\ (\A i \in 1..n : d[i] = c[i]) /\ d # <<>>
    <3>1. c \in Seq(Seq(Nat)) /\ Len(c) = n /\ m \in Seq(Nat)
      BY <1>2, <2>1 DEF Texts, n
    <3>2. /\ Append(c, m) \in Seq(Seq(Nat)) /\ DOMAIN Append(c, m) = 1..(n + 1) /\ Append(c, m)[n + 1] = m
          /\ \A i \in 1..n : Append(c, m)[i] = c[i]
      BY <3>1
    <3>3. n + 1 \in 1..(n + 1)
      BY <1>2
    <3>4. Append(c, m) # <<>>
      BY <3>2, <3>3
    <3> QED
      BY <2>1, <3>2, <3>4 DEF Texts
  <2>3. \A i \in 1..(n + 1) : i \in 1..n \/ i = n + 1
    BY <1>2
  <2>4. I!AllOf(d) = I!AllOf(c) \cup I!Characters(m)
    <3>1. <<m>> \in Texts /\ I!AllOf(<<m>>) = I!Characters(m)
      BY <2>1, OneText
    <3>2. d = c \o <<m>>
      BY <1>2, <2>1, AppendIsTwo
    <3> QED
      BY <1>2, <3>1, <3>2, AllOfTwo
  <2>5. I!Characters(s) \subseteq I!AllOf(c)
    <3>1. CASE c = <<>>
      BY <1>5, <3>1, NoCharacters
    <3>2. CASE c # <<>>
      BY <1>2, <1>4, <3>2, AllOfHas
    <3> QED
      BY <3>1, <3>2
  <2>6. \A i \in DOMAIN d : Kept(d[i]) /\ Len(d[i]) >= min
    BY <1>2, <1>6, <2>1, <2>2, <2>3 DEF KeptUpTo, min
  <2>7. ASSUME NEW i \in DOMAIN d, NEW j \in DOMAIN d, i < j
        PROVE  EndsBy(I!Characters(d[i]), I!Characters(d[j]))
    <3>1. i \in 1..n
      BY <1>2, <2>2, <2>7
    <3>2. CASE j \in 1..n
      BY <1>2, <2>2, <2>7, <3>1, <3>2 DEF KeptUpTo
    <3>3. CASE j = n + 1
      <4>1. k - 1 < k
        BY <1>2
      <4>2. EndsBy(I!Characters(c[i]), I!Characters(t))
        BY <1>2, <3>1, <4>1 DEF KeptUpTo
      <4> QED
        BY <1>6, <2>2, <3>1, <3>3, <4>2 DEF EndsBy
    <3> QED
      BY <2>2, <2>3, <3>2, <3>3
  <2>8. ASSUME NEW i \in DOMAIN d, NEW l \in DOMAIN q, k < l
        PROVE  EndsBy(I!Characters(d[i]), I!Characters(q[l]))
    <3>1. \A j \in DOMAIN c : EndsBy(I!Characters(c[j]), I!Characters(q[l]))
      <4>1. k - 1 < l
        BY <1>2, <2>8
      <4> QED
        BY <4>1 DEF KeptUpTo
    <3>2. CASE i \in 1..n
      BY <1>2, <2>2, <3>1, <3>2
    <3>3. CASE i = n + 1
      <4>1. EndsBy(I!Characters(t), I!Characters(q[l]))
        BY <2>8 DEF RawList
      <4>2. EndsBy(I!Characters(s), I!Characters(q[l]))
        <5>1. CASE c = <<>>
          BY <1>5, <5>1, NoCharacters DEF EndsBy
        <5>2. CASE c # <<>>
          BY <1>2, <1>4, <3>1, <5>2
        <5> QED
          BY <5>1, <5>2
      <4>3. EndsBy(I!Characters(m), I!Characters(q[l]))
        BY <1>6, <4>1, <4>2 DEF EndsBy
      <4> QED
        BY <2>2, <3>3, <4>3
    <3> QED
      BY <2>2, <2>3, <3>2, <3>3
  <2>9. ASSUME IsRegular
        PROVE  \E h \in 1..k : /\ \A j \in 1..(h - 1) : Len(q[j]) < min
                               /\ \A x : x \in I!AllOf(d) <=> \E j \in h..k : x \in I!Characters(q[j])
    <3>1. \A x : x \in I!AllOf(d) <=> x \in I!AllOf(c) \/ x \in I!Characters(t)
      BY <1>6, <2>4, <2>5
    <3>2. CASE c = <<>>
      <4>1. \A j \in 1..(k - 1) : Len(q[j]) < min
        BY <2>9, <3>2 DEF KeptUpTo, min
      <4>2. \A j \in k..k : j = k
        BY <1>2
      <4>3. k \in k..k /\ k \in 1..k
        BY <1>2
      <4>4. \A x : x \in I!AllOf(d) <=> \E j \in k..k : x \in I!Characters(q[j])
        BY <3>1, <3>2, <4>2, <4>3, AllOfNone
      <4> QED
        BY <4>1, <4>3, <4>4
    <3>3. CASE c # <<>>
      <4>1. PICK h \in 1..(k - 1) :
              /\ \A j \in 1..(h - 1) : Len(q[j]) < min
              /\ \A x : x \in I!AllOf(c) <=> \E j \in h..(k - 1) : x \in I!Characters(q[j])
        BY <2>9, <3>3 DEF KeptUpTo, min
      <4>2. \A j \in h..k : j \in h..(k - 1) \/ j = k
        BY <1>2
      <4>3. h \in 1..k /\ k \in h..k /\ \A j \in h..(k - 1) : j \in h..k
        BY <1>2
      <4>4. \A x : x \in I!AllOf(d) <=> \E j \in h..k : x \in I!Characters(q[j])
        BY <3>1, <4>1, <4>2, <4>3
      <4> QED
        BY <4>1, <4>3, <4>4
    <3> QED
      BY <3>2, <3>3
  <2>10. KeptUpTo(d, q, k)
    BY <2>2, <2>6, <2>7, <2>8, <2>9 DEF KeptUpTo, min
  <2> QED
    BY <2>10 DEF d
<1> QED
  BY <1>8, <1>9

LEMMA OverlappedAre ==
  ASSUME Sized, NEW q, RawList(q)
  PROVE  KeptUpTo(I!Overlapped(q), q, Len(q))
<1> DEFINE n == Len(q)
<1>1. q \in Texts /\ DOMAIN q = 1..n /\ n \in Nat
  BY DEF RawList, Texts
<1>2. PICK F \in [0..Len(q) -> Texts] :
        /\ I!Overlapped(q) = F[Len(q)] /\ F[0] = <<>>
        /\ \A k \in 1..Len(q) : F[k] = I!Keep(F[k - 1], q[k])
  BY <1>1, OverlappedBy
<1> DEFINE S == {k \in 0..n : KeptUpTo(F[k], q, k)}
<1>3. KeptUpTo(F[0], q, 0)
  <2>1. DOMAIN F[0] = {} /\ F[0] = <<>> /\ F[0] \in Texts
    BY <1>2 DEF Texts
  <2>2. 1..0 = {}
    OBVIOUS
  <2> QED
    BY <2>1, <2>2 DEF KeptUpTo
<1>4. ASSUME NEW k \in 1..n, KeptUpTo(F[k - 1], q, k - 1) PROVE KeptUpTo(F[k], q, k)
  <2>1. F[k] = I!Keep(F[k - 1], q[k])
    BY <1>2
  <2>2. k \in DOMAIN q
    BY <1>1
  <2> QED
    BY <1>4, <2>1, <2>2, KeepKeeps
<1> HIDE DEF n
<1>5. n \in S
  <2>1. 0 \in S
    BY <1>1, <1>3
  <2>2. \A k \in 1..n : k - 1 \in S => k \in S
    BY <1>1, <1>4
  <2> HIDE DEF S
  <2>3. \A k \in 0..n : k \in S
    BY <1>1, <2>1, <2>2, Upwards
  <2> QED
    BY <1>1, <2>3
<1> QED
  BY <1>2, <1>5 DEF n

-----------------------------------------------------------------------------
(* Indexing: the chunks cover the document                                    *)

LEMMA MaxIs ==
  ASSUME NEW S, S \subseteq Nat, NEW x \in S, \A y \in S : y <= x
  PROVE  I!Max(S) = x
<1>1. S \subseteq 0..x /\ x \in Nat
  OBVIOUS
<1>2. I!Max(S) \in S /\ \A y \in S : I!Max(S) >= y
  BY <1>1, HasMax
<1> DEFINE m == I!Max(S)
<1> HIDE DEF m
<1>3. m \in Nat /\ m <= x /\ m >= x
  BY <1>2 DEF m
<1>4. m = x
  BY <1>1, <1>3
<1> QED
  BY <1>4 DEF m

LEMMA EndsInOrder ==
  ASSUME NEW s, Ink(s), NEW t, Ink(t), EndsBy(I!Characters(s), I!Characters(t))
  PROVE  I!Max(I!Range(s)) <= I!Max(I!Range(t))
<1>1. s \in Seq(Nat) /\ t \in Seq(Nat) /\ I!Range(s) \subseteq Nat /\ I!Range(t) \subseteq Nat
  BY DEF Ink, I!Range
<1>2. s[1] \in I!Range(s) /\ t[1] \in I!Range(t)
  BY DEF Ink, I!Range
<1>3. PICK n \in Nat : I!Range(s) \subseteq 0..n
  BY <1>1, RangeBounded
<1>4. PICK m \in Nat : I!Range(t) \subseteq 0..m
  BY <1>1, RangeBounded
<1> DEFINE a == I!Max(I!Range(s))
           b == I!Max(I!Range(t))
<1>5. a \in I!Range(s)
  BY <1>2, <1>3, HasMax
<1>6. b \in I!Range(t) /\ \A y \in I!Range(t) : b >= y
  BY <1>2, <1>4, HasMax
<1> HIDE DEF a, b
<1>7. a \in Nat /\ b \in Nat
  BY <1>1, <1>5, <1>6
<1>8. ASSUME a = 0 PROVE a <= b
  BY <1>7, <1>8
<1>9. ASSUME a # 0 PROVE a <= b
  <2>1. a \in I!Characters(s)
    BY <1>5, <1>9 DEF I!Characters
  <2>2. PICK y \in I!Characters(t) : a <= y
    BY <2>1 DEF EndsBy
  <2>3. y \in I!Range(t) /\ y \in Nat
    BY <1>1 DEF I!Characters
  <2> QED
    BY <1>6, <1>7, <2>2, <2>3
<1>10. a <= b
  BY <1>8, <1>9
<1> QED
  BY <1>10 DEF a, b

\* What the property says of the chunks of a document.
ChunksFit(c, with) ==
  LET covered == I!AllOf(c)
      lost    == I!AllOf(idxFile.blocks) \ covered
  IN /\ c \in Texts
     /\ \A i \in DOMAIN c :
          /\ Len(c[i]) <= with.size + with.overlap
          /\ i > 1 => I!Max(I!Range(c[i - 1])) <= I!Max(I!Range(c[i]))
     /\ I!Regular(with, idxFile.blocks) /\ c # <<>> =>
          /\ I!Before(lost, covered)
          /\ lost # {} => \E i \in DOMAIN idxFile.blocks :
                            I!Max(lost) \in I!Range(idxFile.blocks[i]) /\ Len(I!Strip(idxFile.blocks[i])) < with.min

LEMMA OverlappedFit ==
  ASSUME Sized, idxFile.blocks \in I!Contents, NEW q, RawList(q), I!AllOf(q) = I!AllOf(idxFile.blocks)
  PROVE  ChunksFit(I!Overlapped(q), idxSettings)
<1> DEFINE c == I!Overlapped(q)
           min == idxSettings.min
           n == Len(q)
           covered == I!AllOf(c)
           lost == I!AllOf(idxFile.blocks) \ covered
<1>1. KeptUpTo(c, q, n)
  BY OverlappedAre
<1>2. q \in Texts /\ DOMAIN q = 1..n /\ n \in Nat /\ c \in Texts /\ DOMAIN c = 1..Len(c) /\ min \in Nat
  BY <1>1 DEF RawList, Texts, KeptUpTo, Sized, IndexSettings
<1> HIDE DEF c, n
<1>3. ASSUME NEW i \in DOMAIN c
      PROVE  /\ Len(c[i]) <= idxSettings.size + idxSettings.overlap
             /\ i > 1 => I!Max(I!Range(c[i - 1])) <= I!Max(I!Range(c[i]))
  <2>1. Len(c[i]) <= idxSettings.size + idxSettings.overlap
    BY <1>1 DEF KeptUpTo, Kept
  <2>2. ASSUME i > 1 PROVE I!Max(I!Range(c[i - 1])) <= I!Max(I!Range(c[i]))
    <3>1. i - 1 \in DOMAIN c /\ i - 1 < i
      BY <1>2, <2>2
    <3>2. Ink(c[i - 1]) /\ Ink(c[i]) /\ EndsBy(I!Characters(c[i - 1]), I!Characters(c[i]))
      BY <1>1, <3>1 DEF KeptUpTo, Kept
    <3> QED
      BY <3>2, EndsInOrder
  <2> QED
    BY <2>1, <2>2
<1>4. ASSUME IsRegular, c # <<>>
      PROVE  /\ I!Before(lost, covered)
             /\ lost # {} => \E i \in DOMAIN idxFile.blocks :
                               I!Max(lost) \in I!Range(idxFile.blocks[i]) /\ Len(I!Strip(idxFile.blocks[i])) < min
  <2>1. PICK h \in 1..n :
          /\ \A j \in 1..(h - 1) : Len(q[j]) < min
          /\ \A x : x \in covered <=> \E j \in h..n : x \in I!Characters(q[j])
    BY <1>1, <1>4 DEF KeptUpTo
  <2>2. ASSUME NEW j \in 1..(h - 1) PROVE Whole(q, j)
    <3>1. j \in DOMAIN q /\ \A i \in 1..j : i \in 1..(h - 1)
      BY <1>2
    <3>2. \A i \in 1..j : ~(Len(q[i]) >= min)
      <4> SUFFICES ASSUME NEW i \in 1..j PROVE ~(Len(q[i]) >= min)
        OBVIOUS
      <4>1. i \in DOMAIN q
        BY <1>2
      <4>2. Len(q[i]) \in Nat
        BY <4>1 DEF RawList, RawText, Ink
      <4>3. Len(q[i]) < min
        BY <2>1, <3>1
      <4> QED
        BY <1>2, <4>2, <4>3
    <3> QED
      BY <1>4, <3>1, <3>2 DEF RawList
  <2>3. ASSUME NEW x \in lost PROVE \E j \in 1..(h - 1) : x \in I!Characters(q[j])
    <3>1. PICK j \in 1..n : x \in I!Characters(q[j])
      BY <1>2, AllOfHas
    <3>2. j \notin h..n
      BY <2>1, <3>1
    <3>3. j \in 1..(h - 1)
      BY <1>2, <3>2
    <3> QED
      BY <3>1, <3>3
  <2>4. \A i \in 1..n : I!Characters(q[i]) \subseteq Nat
    BY <1>2, CharactersAreNat DEF Texts
  <2>5. ASSUME NEW x, NEW j \in 1..(h - 1), x \in I!Characters(q[j]), NEW y \in covered PROVE x < y
    <3>1. PICK l \in h..n : y \in I!Characters(q[l])
      BY <2>1
    <3>2. l \in DOMAIN q /\ j < l
      BY <1>2
    <3> QED
      BY <2>2, <2>5, <3>1, <3>2 DEF Whole, I!Before
  <2>6. I!Before(lost, covered)
    BY <2>3, <2>5 DEF I!Before
  <2>7. ASSUME lost # {}
        PROVE  \E i \in DOMAIN idxFile.blocks :
                 I!Max(lost) \in I!Range(idxFile.blocks[i]) /\ Len(I!Strip(idxFile.blocks[i])) < min
    <3> DEFINE e == h - 1
    <3>1. e \in 1..(h - 1) /\ e \in 1..n /\ e \in DOMAIN q
      <4>1. PICK x \in lost : TRUE
        BY <2>7
      <4>2. PICK j \in 1..(h - 1) : x \in I!Characters(q[j])
        BY <2>3, <4>1
      <4> QED
        BY <1>2, <4>2
    <3>2. EndsBlock(q[e]) /\ \A l \in DOMAIN q : e < l => I!Before(I!Characters(q[e]), I!Characters(q[l]))
      BY <2>2, <3>1 DEF Whole
    <3>3. Len(q[e]) < min /\ Len(q[e]) \in Nat
      <4>1. Len(q[e]) < min
        BY <2>1, <3>1
      <4>2. Len(q[e]) \in Nat
        BY <3>1 DEF RawList, RawText, Ink
      <4> QED
        BY <4>1, <4>2
    <3> HIDE DEF e
    <3>4. PICK i \in DOMAIN idxFile.blocks : \E x \in I!Characters(idxFile.blocks[i]) :
            /\ x \in I!Characters(q[e]) /\ \A y \in I!Characters(q[e]) : y <= x
            /\ Len(I!Strip(idxFile.blocks[i])) <= Len(q[e])
      BY <3>2 DEF EndsBlock
    <3>5. PICK x \in I!Characters(idxFile.blocks[i]) :
            /\ x \in I!Characters(q[e]) /\ \A y \in I!Characters(q[e]) : y <= x
            /\ Len(I!Strip(idxFile.blocks[i])) <= Len(q[e])
      BY <3>4
    <3>6. x \in Nat
      BY <2>4, <3>1, <3>5
    <3>7. x \in lost
      <4>1. x \in I!AllOf(idxFile.blocks)
        BY <3>5, AllOfHas
      <4>2. x \notin covered
        <5> SUFFICES ASSUME x \in covered PROVE FALSE
          OBVIOUS
        <5>1. x < x
          BY <2>5, <3>1, <3>5
        <5> QED
          BY <3>6, <5>1
      <4> QED
        BY <4>1, <4>2
    <3>8. ASSUME NEW y \in lost PROVE y <= x /\ y \in Nat
      <4>1. PICK j \in 1..(h - 1) : y \in I!Characters(q[j])
        BY <2>3
      <4>2. j \in 1..n /\ (j = e \/ j < e)
        BY <1>2, <3>1 DEF e
      <4>3. y \in Nat
        BY <2>4, <4>1, <4>2
      <4>4. CASE j = e
        BY <3>5, <4>1, <4>3, <4>4
      <4>5. CASE j < e
        <5>1. y < x
          BY <2>2, <3>1, <3>5, <4>1, <4>5 DEF Whole, I!Before
        <5> QED
          BY <3>6, <4>3, <5>1
      <4> QED
        BY <4>2, <4>3, <4>4, <4>5
    <3>9. I!Max(lost) = x
      <4> HIDE DEF lost
      <4>1. lost \subseteq Nat /\ \A y \in lost : y <= x
        BY <3>8
      <4> QED
        BY <3>7, <4>1, MaxIs
    <3>10. Len(I!Strip(idxFile.blocks[i])) < min
      <4>1. Len(I!Strip(idxFile.blocks[i])) \in Nat
        BY BlockIs, StripType
      <4> QED
        BY <1>2, <3>3, <3>5, <4>1
    <3>11. x \in I!Range(idxFile.blocks[i])
      BY <3>5 DEF I!Characters
    <3> QED
      BY <3>9, <3>10, <3>11
  <2> QED
    BY <2>6, <2>7
<1> HIDE DEF lost, covered
<1>5. ChunksFit(c, idxSettings)
  BY <1>2, <1>3, <1>4 DEF ChunksFit, IsRegular, lost, covered
<1> QED
  BY <1>5 DEF c

-----------------------------------------------------------------------------
(* Indexing: the job                                                          *)

\* How far the job is, and what it has got by then.
JobData ==
  /\ idxAttempts \in 0..MaxAttempts
  /\ idxPc \in {"idle", "refused", "stored", "extract", "chunk", "embed", "indexed", "failed", "cancelled"}
  /\ idxFile.blocks \in I!Contents
  /\ idxPc = "idle" => idxIndex = I!NoIndex
  /\ idxPc \in {"extract", "chunk", "embed"} => idxSettings \in Settings
  /\ idxPc = "chunk" => idxSegments = I!Segments(idxFile)
  /\ idxPc \in {"extract", "chunk"} => idxVectors = <<>>
  /\ idxChunks \in Texts /\ idxVectors \in Texts /\ Len(idxVectors) <= Len(idxChunks)
  /\ idxLegacy => idxPc \in {"embed", "failed"}
  /\ idxLegacy /\ idxPc = "embed" => Len(idxVectors) < Len(idxChunks)

VectorOf(text, with) == SubSeq(text, 1, I!Min({Len(text), with.input}))

\* What waits for its vectors is fit to be indexed.
ChunksReady ==
  idxPc = "embed" =>
    /\ ChunksFit(idxChunks, idxSettings) /\ idxChunks # <<>>
    /\ \A i \in DOMAIN idxVectors : idxVectors[i] = VectorOf(idxChunks[i], idxSettings)

RowTexts == [i \in DOMAIN idxIndex.rows |-> idxIndex.rows[i].content]

IndexFits ==
  idxIndex # I!NoIndex =>
    /\ ChunksFit(RowTexts, idxIndex.settings) /\ RowTexts # <<>>
    /\ \A i \in DOMAIN idxIndex.rows :
         idxIndex.rows[i].vector = VectorOf(idxIndex.rows[i].content, idxIndex.settings)

IndexInv == JobData /\ ChunksReady /\ IndexFits

LEMMA VectorType ==
  ASSUME Sized, NEW text \in Seq(Nat)
  PROVE  VectorOf(text, idxSettings) \in Seq(Nat)
<1> DEFINE n == I!Min({Len(text), idxSettings.input})
<1>1. Len(text) \in Nat /\ idxSettings.input \in Nat
  BY DEF Sized, IndexSettings
<1>2. n \in Nat /\ n <= Len(text)
  <2>1. n = IF Len(text) <= idxSettings.input THEN Len(text) ELSE idxSettings.input
    BY <1>1, MinOfTwo
  <2> HIDE DEF n
  <2> QED
    BY <1>1, <2>1
<1> HIDE DEF n
<1>3. SubSeq(text, 1, n) \in Seq(Nat)
  <2>1. 1 <= n + 1
    BY <1>2
  <2> QED
    BY <1>2, <2>1, Section
<1> QED
  BY <1>3 DEF VectorOf, n

LEMMA IndexInit ==
  ASSUME I!IndexConstants, I!Init
  PROVE  IndexInv
<1>1. idxFile.blocks \in I!Contents
  <2>1. <<>> \in Seq(Seq(Nat)) /\ DOMAIN <<>> = {}
    OBVIOUS
  <2>2. <<>> \in I!Contents
    BY <2>1, Zenon DEF I!Contents
  <2> QED
    BY <2>2 DEF I!Init, I!NoFile
<1>2. JobData
  BY <1>1 DEF I!Init, JobData, Texts, I!IndexConstants
<1> QED
  BY <1>2 DEF I!Init, IndexInv, ChunksReady, IndexFits

\* Steps that leave the file, the chunks and the index alone.
LEMMA IndexStays ==
  ASSUME IndexFits, UNCHANGED <<idxFile, idxIndex>>
  PROVE  IndexFits'
BY DEF IndexFits, RowTexts, ChunksFit, VectorOf, I!NoIndex

LEMMA SettingsFit ==
  ASSUME I!IndexConstants, idxSettings \in Settings
  PROVE  Sized
BY DEF I!IndexConstants, Sized, IndexSettings

LEMMA IndexStep ==
  ASSUME I!IndexConstants, IndexInv, [I!Next]_(I!vars)
  PROVE  IndexInv'
<1> USE DEF IndexInv
<1>1. ASSUME NEW u \in Uploads, I!Upload(u) PROVE IndexInv'
  <2>1. /\ idxPc = "idle" /\ idxPc' \in {"stored", "refused"} /\ (idxFile' = idxFile \/ idxFile'.blocks = u.blocks)
        /\ idxIndex = I!NoIndex /\ UNCHANGED <<idxSettings, idxSegments, idxChunks, idxVectors, idxLegacy, idxIndex, idxAttempts>>
    BY <1>1 DEF I!Upload, JobData
  <2>2. idxFile'.blocks \in I!Contents
    BY <2>1 DEF JobData, I!IndexConstants
  <2>3. JobData'
    BY <2>1, <2>2 DEF JobData, I!NoIndex, I!Contents, I!Before, I!Characters, I!Range, I!Segments
  <2>4. IndexFits' /\ ChunksReady'
    BY <2>1 DEF IndexFits, ChunksReady, I!NoIndex
  <2> QED
    BY <2>3, <2>4
<1>2. ASSUME NEW s \in Settings, I!Begin(s) PROVE IndexInv'
  <2>1. JobData'
    BY <1>2 DEF I!Begin, JobData, I!IndexConstants, Texts
  <2>2. ChunksReady' /\ UNCHANGED <<idxFile, idxIndex>>
    BY <1>2 DEF I!Begin, ChunksReady
  <2> QED
    BY <2>1, <2>2, IndexStays
<1>3. ASSUME I!Extract PROVE IndexInv'
  <2>1. /\ idxPc = "extract" /\ idxPc' \in {"failed", "chunk"}
        /\ UNCHANGED <<idxFile, idxSettings, idxChunks, idxVectors, idxLegacy, idxIndex, idxAttempts>>
    BY <1>3 DEF I!Extract
  <2>2. idxPc' = "chunk" => idxSegments' = I!Segments(idxFile)
    BY <1>3 DEF I!Extract
  <2>3. idxPc' = "chunk" => idxSegments' = I!Segments(idxFile)'
    BY <2>1, <2>2
  <2>4. JobData'
    BY <2>1, <2>3 DEF JobData
  <2>5. ChunksReady'
    BY <2>1 DEF ChunksReady
  <2> QED
    BY <2>1, <2>4, <2>5, IndexStays
<1>4. ASSUME I!Chunk PROVE IndexInv'
  <2> DEFINE q == I!RawChunks(idxSegments)
  <2>1. /\ idxPc = "chunk" /\ idxPc' \in {"failed", "embed"} /\ idxChunks' = I!Overlapped(q)
        /\ idxPc' = "embed" => Len(idxChunks') \in 1..idxSettings.chunks
        /\ UNCHANGED <<idxFile, idxSettings, idxSegments, idxVectors, idxLegacy, idxIndex, idxAttempts>>
    BY <1>4 DEF I!Chunk
  <2>2. Sized /\ idxFile.blocks \in I!Contents /\ idxSegments = I!Segments(idxFile) /\ idxVectors = <<>> /\ ~idxLegacy
    BY <2>1, SettingsFit DEF JobData
  <2>3. SegmentList(idxSegments) /\ I!AllOf(idxSegments) = I!AllOf(idxFile.blocks)
    BY <2>2, SegmentsAre
  <2>4. RawList(q) /\ I!AllOf(q) = I!AllOf(idxSegments)
    BY <2>2, <2>3, RawChunksAre
  <2> HIDE DEF q
  <2>5. ChunksFit(I!Overlapped(q), idxSettings)
    BY <2>2, <2>3, <2>4, OverlappedFit
  <2>6. idxChunks' \in Texts
    BY <2>1, <2>5 DEF ChunksFit
  <2>7. JobData'
    <3>1. idxVectors' \in Texts /\ Len(idxVectors') = 0 /\ Len(idxChunks') \in Nat
      BY <2>1, <2>2, <2>6 DEF Texts
    <3> QED
      BY <2>1, <2>2, <2>6, <3>1 DEF JobData
  <2>8. ChunksReady'
    <3>1. ChunksFit(idxChunks, idxSettings)'
      BY <2>1, <2>5 DEF ChunksFit
    <3>2. idxPc' = "embed" => idxChunks' # <<>>
      <4> SUFFICES ASSUME idxPc' = "embed", idxChunks' = <<>> PROVE FALSE
        OBVIOUS
      <4>1. Len(idxChunks') = 0 /\ Len(idxChunks') \in 1..idxSettings.chunks
        BY <2>1
      <4> QED
        BY <4>1
    <3>3. DOMAIN idxVectors' = {}
      BY <2>1, <2>2
    <3> QED
      BY <3>1, <3>2, <3>3 DEF ChunksReady
  <2> QED
    BY <2>1, <2>7, <2>8, IndexStays
<1>5. ASSUME idxPc = "embed", UNCHANGED <<idxPc, idxFile, idxSettings, idxSegments, idxChunks, idxIndex, idxAttempts>>,
             idxVectors' \in Texts, Len(idxVectors') <= Len(idxChunks), idxLegacy' => Len(idxVectors') < Len(idxChunks),
             \A i \in DOMAIN idxVectors' : idxVectors'[i] = VectorOf(idxChunks[i], idxSettings)
      PROVE  IndexInv'
  <2>1. JobData'
    BY <1>5 DEF JobData
  <2>2. ChunksReady'
    <3>1. ChunksFit(idxChunks, idxSettings)'
      BY <1>5 DEF ChunksReady, ChunksFit
    <3> QED
      BY <1>5, <3>1 DEF ChunksReady, VectorOf
  <2> QED
    BY <1>5, <2>1, <2>2, IndexStays
<1>a. ASSUME idxPc = "embed"
      PROVE  /\ Sized /\ Len(idxVectors) \in Nat /\ Len(idxChunks) \in Nat /\ Len(idxVectors) <= Len(idxChunks)
             /\ DOMAIN idxVectors = 1..Len(idxVectors) /\ DOMAIN idxChunks = 1..Len(idxChunks)
             /\ \A i \in 1..Len(idxChunks) : idxChunks[i] \in Seq(Nat) /\ VectorOf(idxChunks[i], idxSettings) \in Seq(Nat)
             /\ \A i \in 1..Len(idxVectors) : idxVectors[i] = VectorOf(idxChunks[i], idxSettings)
  <2>1. Sized
    BY <1>a, SettingsFit DEF JobData
  <2>2. \A i \in 1..Len(idxChunks) : idxChunks[i] \in Seq(Nat)
    BY DEF JobData, Texts
  <2> QED
    BY <1>a, <2>1, <2>2, VectorType DEF JobData, ChunksReady, Texts
<1>6. ASSUME I!EmbedBatch PROVE IndexInv'
  <2> DEFINE k == I!BatchEnd
  <2>1. /\ idxPc = "embed" /\ ~idxLegacy
        /\ idxVectors' = [i \in 1..k |-> IF i <= Len(idxVectors) THEN idxVectors[i] ELSE I!Input(idxChunks[i])]
        /\ UNCHANGED <<idxPc, idxFile, idxSettings, idxSegments, idxChunks, idxLegacy, idxIndex, idxAttempts>>
    BY <1>6 DEF I!EmbedBatch
  <2>2. k \in Nat /\ k <= Len(idxChunks)
    <3> DEFINE n == Len(idxVectors)
               m == Len(idxChunks)
               b == idxSettings.batch
    <3>1. n \in Nat /\ m \in Nat /\ b \in Nat
      BY <1>a, <2>1 DEF Sized, IndexSettings
    <3>2. k = I!Min({n + b, m})
      BY DEF I!BatchEnd
    <3> HIDE DEF k, n, m, b
    <3>3. I!Min({n + b, m}) = IF n + b <= m THEN n + b ELSE m
      BY <3>1, MinOfTwo
    <3>4. k \in Nat /\ k <= m
      BY <3>1, <3>2, <3>3
    <3> QED
      BY <3>4 DEF m
  <2> HIDE DEF k
  <2>3. \A i \in 1..k : idxVectors'[i] = VectorOf(idxChunks[i], idxSettings) /\ idxVectors'[i] \in Seq(Nat)
    <3> SUFFICES ASSUME NEW i \in 1..k
                 PROVE  idxVectors'[i] = VectorOf(idxChunks[i], idxSettings) /\ idxVectors'[i] \in Seq(Nat)
      OBVIOUS
    <3>1. i \in 1..Len(idxChunks) /\ (i <= Len(idxVectors) => i \in 1..Len(idxVectors))
      BY <1>a, <2>1, <2>2
    <3>2. idxVectors'[i] = IF i <= Len(idxVectors) THEN idxVectors[i] ELSE I!Input(idxChunks[i])
      BY <2>1
    <3>3. I!Input(idxChunks[i]) = VectorOf(idxChunks[i], idxSettings)
      BY DEF I!Input, VectorOf
    <3> QED
      BY <1>a, <2>1, <3>1, <3>2, <3>3
  <2>4. DOMAIN idxVectors' = 1..k
    BY <2>1
  <2>5. idxVectors' \in Texts /\ Len(idxVectors') = k
    <3>1. idxVectors' = [i \in 1..k |-> idxVectors'[i]]
      BY <2>1
    <3>2. idxVectors' \in [1..k -> Seq(Nat)]
      BY <2>3, <3>1
    <3> QED
      BY <2>2, <2>4, <3>2, SeqOf1ToN DEF Texts
  <2> QED
    BY <1>5, <2>1, <2>2, <2>3, <2>4, <2>5
<1>7. ASSUME I!FallBack PROVE IndexInv'
  <2>1. /\ idxPc = "embed" /\ Len(idxVectors) < Len(idxChunks)
        /\ UNCHANGED <<idxPc, idxFile, idxSettings, idxSegments, idxChunks, idxVectors, idxIndex, idxAttempts>>
    BY <1>7 DEF I!FallBack
  <2>2. idxVectors \in Texts
    BY DEF JobData
  <2> QED
    BY <1>5, <1>a, <2>1, <2>2
<1>8. ASSUME I!EmbedOne PROVE IndexInv'
  <2> DEFINE n == Len(idxVectors)
  <2>1. /\ idxPc = "embed" /\ idxLegacy /\ n < Len(idxChunks) /\ idxVectors \in Texts
        /\ idxVectors' = Append(idxVectors, VectorOf(idxChunks[n + 1], idxSettings))
        /\ UNCHANGED <<idxPc, idxFile, idxSettings, idxSegments, idxChunks, idxIndex, idxAttempts>>
    BY <1>8 DEF I!EmbedOne, I!Input, VectorOf, JobData
  <2>2. idxLegacy' => Len(idxVectors') < Len(idxChunks)
    BY <1>8 DEF I!EmbedOne
  <2>3. n \in Nat /\ n + 1 \in 1..Len(idxChunks) /\ \A i \in 1..(n + 1) : i \in 1..n \/ i = n + 1
    BY <1>a, <2>1
  <2>4. VectorOf(idxChunks[n + 1], idxSettings) \in Seq(Nat)
    BY <1>a, <2>1, <2>3
  <2> DEFINE v == VectorOf(idxChunks[n + 1], idxSettings)
  <2> HIDE DEF v
  <2>5. /\ Append(idxVectors, v) \in Texts /\ DOMAIN Append(idxVectors, v) = 1..(n + 1) /\ Len(Append(idxVectors, v)) = n + 1
        /\ Append(idxVectors, v)[n + 1] = v /\ \A i \in 1..n : Append(idxVectors, v)[i] = idxVectors[i]
    BY <2>1, <2>4 DEF Texts, v
  <2>6. idxVectors' = Append(idxVectors, v)
    BY <2>1 DEF v
  <2> HIDE DEF n
  <2>7. \A i \in DOMAIN idxVectors' : idxVectors'[i] = VectorOf(idxChunks[i], idxSettings)
    <3>1. \A i \in 1..n : idxVectors[i] = VectorOf(idxChunks[i], idxSettings)
      BY <1>a, <2>1 DEF n
    <3>2. v = VectorOf(idxChunks[n + 1], idxSettings)
      BY DEF v
    <3> QED
      BY <2>3, <2>5, <2>6, <3>1, <3>2
  <2>8. idxVectors' \in Texts /\ Len(idxVectors') <= Len(idxChunks)
    BY <1>a, <2>1, <2>3, <2>5, <2>6
  <2> QED
    BY <1>5, <2>1, <2>2, <2>7, <2>8
<1>9. ASSUME I!EmbeddingFails \/ I!Cancelled PROVE IndexInv'
  <2>1. /\ idxPc' \in {"failed", "cancelled"} /\ (idxLegacy' => idxPc' = "failed")
        /\ UNCHANGED <<idxFile, idxSettings, idxSegments, idxChunks, idxVectors, idxLegacy, idxIndex, idxAttempts>>
    BY <1>9 DEF I!EmbeddingFails, I!Cancelled
  <2>2. JobData'
    BY <2>1 DEF JobData
  <2>3. ChunksReady'
    BY <2>1 DEF ChunksReady
  <2> QED
    BY <2>1, <2>2, <2>3, IndexStays
<1>10. ASSUME I!Finalize PROVE IndexInv'
  <2>1. /\ idxPc = "embed" /\ idxPc' = "indexed" /\ Len(idxVectors) = Len(idxChunks) /\ ~idxLegacy
        /\ idxIndex' = [rows |-> [i \in DOMAIN idxChunks |-> [content |-> idxChunks[i], vector |-> idxVectors[i]]],
                        settings |-> idxSettings]
        /\ UNCHANGED <<idxFile, idxSettings, idxSegments, idxChunks, idxVectors, idxLegacy, idxAttempts>>
    BY <1>10 DEF I!Finalize
  <2>2. JobData'
    BY <2>1 DEF JobData
  <2>3. ChunksReady'
    BY <2>1 DEF ChunksReady
  <2>4. /\ idxIndex'.settings = idxSettings /\ DOMAIN idxIndex'.rows = DOMAIN idxChunks
        /\ \A i \in DOMAIN idxChunks : idxIndex'.rows[i].content = idxChunks[i] /\ idxIndex'.rows[i].vector = idxVectors[i]
    BY <2>1
  <2>5. RowTexts' = idxChunks
    <3>1. RowTexts' = [i \in DOMAIN idxChunks |-> idxChunks[i]]
      BY <2>4 DEF RowTexts
    <3>2. idxChunks \in Texts
      BY DEF JobData
    <3> QED
      BY <3>1, <3>2 DEF Texts
  <2>6. ChunksFit(idxChunks, idxSettings) /\ idxChunks # <<>>
    BY <2>1 DEF ChunksReady
  <2>7. ChunksFit(RowTexts, idxIndex.settings)'
    <3>1. ChunksFit(RowTexts', idxIndex'.settings)
      BY <2>4, <2>5, <2>6
    <3> HIDE DEF IndexInv
    <3> QED
      BY <2>1, <3>1 DEF ChunksFit
  <2>8. \A i \in DOMAIN idxChunks : idxVectors[i] = VectorOf(idxChunks[i], idxSettings)
    BY <1>a, <2>1
  <2>9. IndexFits'
    <3>1. ASSUME NEW i \in DOMAIN idxIndex'.rows
          PROVE  idxIndex'.rows[i].vector = VectorOf(idxIndex'.rows[i].content, idxIndex'.settings)
      BY <2>4, <2>8
    <3>2. RowTexts' # <<>>
      BY <2>5, <2>6
    <3> HIDE DEF IndexInv
    <3> QED
      BY <2>7, <3>1, <3>2 DEF IndexFits, VectorOf
  <2> QED
    BY <2>2, <2>3, <2>9
<1>11. ASSUME UNCHANGED I!vars PROVE IndexInv'
  <2>1. /\ idxPc' = idxPc /\ idxFile' = idxFile /\ idxSettings' = idxSettings /\ idxSegments' = idxSegments
        /\ idxChunks' = idxChunks /\ idxVectors' = idxVectors /\ idxLegacy' = idxLegacy /\ idxIndex' = idxIndex
        /\ idxAttempts' = idxAttempts
    BY <1>11 DEF I!vars
  <2>2. idxPc = "chunk" => idxSegments' = I!Segments(idxFile)'
    BY <2>1 DEF JobData
  <2>3. JobData'
    BY <2>1, <2>2 DEF JobData, I!NoIndex
  <2>4. ChunksReady'
    BY <2>1 DEF ChunksReady, ChunksFit, VectorOf
  <2> QED
    BY <2>1, <2>3, <2>4, IndexStays
<1> QED
  BY <1>1, <1>2, <1>3, <1>4, <1>6, <1>7, <1>8, <1>9, <1>10, <1>11 DEF I!Next

LEMMA IndexCovers ==
  ASSUME IndexInv
  PROVE  IndexCoversDocument
<1>1. I!TypeOK
  BY DEF IndexInv, JobData, I!TypeOK
<1>2. IndexFits
  BY DEF IndexInv
<1> QED
  BY <1>1, <1>2 DEF IndexCoversDocument, I!IndexCoversDocument, IndexFits, RowTexts, ChunksFit, VectorOf

\* Of a document: an index is whole, whatever is uploaded and with whatever settings, over attempts
\* that fail, are cancelled or are repeated with other settings: each chunk has the vector of its own
\* text and the chunks are in order; if the text is regular, together they hold all of it but leading
\* blocks shorter than the smallest chunk.
THEOREM IndexedDocumentsAreWhole ==
  I!Spec => []IndexCoversDocument
<1>1. I!Init => IndexInv
  BY IndexInit, IndexingConstants
<1>2. IndexInv /\ [I!Next]_(I!vars) => IndexInv'
  BY IndexStep, IndexingConstants
<1>3. IndexInv => IndexCoversDocument
  BY IndexCovers
<1> QED
  BY <1>1, <1>2, <1>3, PTL DEF I!Spec
=============================================================================
