------------------------- MODULE AgentServerProofs -------------------------
(***************************************************************************)
(* Theorems about one conversation of the agent-server, for every set of   *)
(* requests and every bound: its types, that an action held for the        *)
(* operator runs only in a run that a client's request started, which      *)
(* answered and which vetoed actions a restart can bring to run again, and *)
(* that no action runs twice in one life of the server.                    *)
(***************************************************************************)
EXTENDS AgentServer, TLAPS

\* The log and the branch are left alone.
Quiet == UNCHANGED <<nRaised, finishes, runs, rejected, failed, branchVars>>

\* The steps that do not leave them alone.
Logs ==
  \/ EmitAction \/ ExecBatch \/ EmitOrphans \/ Crash
  \/ \E r \in Reqs : RejectCommit(r) \/ Interrupt(r)

\* The log only grows.
LogGrows ==
  /\ nRaised <= nRaised'
  /\ Settled \subseteq Settled'
  /\ vetoed \subseteq vetoed'

\* A step that runs no tool leaves the set of executed actions alone, ...
LEMMA ExecutedSame == UNCHANGED runs => UNCHANGED executed
BY DEF executed

\* ... and a batch adds those it runs.
LEMMA ExecutedGrows == TypeOK /\ ExecBatch => executed' = executed \cup Ran
<1> SUFFICES ASSUME TypeOK, ExecBatch PROVE executed' = executed \cup Ran
  OBVIOUS
<1>1. runs' = [a \in Actions |-> IF a \in Ran THEN runs[a] + 1 ELSE runs[a]]
  BY DEF ExecBatch
<1>2. runs \in [Actions -> Nat] /\ nRaised \in 0..MaxActions
  BY DEF TypeOK, LogOK
<1>3. Ran \subseteq Actions
  BY <1>2, ServerAssumption
     DEF Ran, UpToFinish, Pending, Raised, Actions, ServerAssumption
<1>4. \A a \in Actions : runs'[a] > 0 <=> a \in Ran \/ runs[a] > 0
  BY <1>1, <1>2
<1> QED
  BY <1>3, <1>4 DEF executed
-----------------------------------------------------------------------------
\* Every step of the server saves the base state or is inside a with-block.
LEMMA NextSaves == Next => Save
BY DEF Next, ServerStep, HandlerStep

\* Few steps touch the log; the others only hold or let go what is open.
LEMMA NextLogs ==
  Next => /\ Quiet \/ Logs
          /\ gated' \in {gated, gated \cup Pending}
          /\ resumed' \in {resumed, resumed \cup Pending}
          /\ Decide \/ gated' = gated
<1> DEFINE Sorted == /\ Quiet \/ Logs
                     /\ gated' \in {gated, gated \cup Pending}
                     /\ resumed' \in {resumed, resumed \cup Pending}
                     /\ Decide \/ gated' = gated
<1>1. ASSUME Next PROVE Sorted
  <2> USE <1>1 DEF Quiet, Logs, logVars, branchVars
  <2>1. ASSUME NEW p \in Policies, Create(p) PROVE Sorted
    BY <2>1 DEF Create, StartRun
  <2>2. ASSUME NEW r \in Reqs, Run(r) PROVE Sorted
    BY <2>2 DEF Run, StartRun
  <2>3. ASSUME NEW r \in Reqs, SendBegin(r) PROVE Sorted
    BY <2>3 DEF SendBegin
  <2>4. ASSUME NEW r \in Reqs, SendAppend(r) PROVE Sorted
    BY <2>4 DEF SendAppend
  <2>5. ASSUME NEW r \in Reqs, SendRun(r) PROVE Sorted
    BY <2>5 DEF SendRun, StartRun
  <2>6. ASSUME NEW r \in Reqs, SendArm(r) PROVE Sorted
    BY <2>6 DEF SendArm
  <2>7. ASSUME NEW r \in Reqs, RejectRead(r) PROVE Sorted
    BY <2>7 DEF RejectRead
  <2>8. ASSUME NEW r \in Reqs, RejectCommit(r) PROVE Sorted
    BY <2>8 DEF RejectCommit
  <2>9. ASSUME NEW r \in Reqs, NEW p \in Policies, SetPolicy(r, p)
         PROVE  Sorted
    BY <2>9 DEF SetPolicy
  <2>10. ASSUME NEW r \in Reqs, PauseBegin(r) PROVE Sorted
    BY <2>10 DEF PauseBegin
  <2>11. ASSUME NEW r \in Reqs, PauseCommit(r) PROVE Sorted
    BY <2>11 DEF PauseCommit
  <2>12. ASSUME NEW r \in Reqs, Interrupt(r) PROVE Sorted
    BY <2>12 DEF Interrupt
  <2>13. ASSUME RunTask PROVE Sorted
    <3> USE DEF Untouched
    <3>1. CASE ArunStart
      BY <3>1 DEF ArunStart
    <3>2. CASE ArunStartFails
      BY <3>2 DEF ArunStartFails
    <3>3. CASE LoopBreak
      BY <3>3 DEF LoopBreak
    <3>4. CASE LoopStuck
      BY <3>4 DEF LoopStuck
    <3>5. CASE LoopStep
      BY <3>5 DEF LoopStep
    <3>6. CASE LlmError
      BY <3>6 DEF LlmError
    <3>7. CASE LlmAnswer
      BY <3>7 DEF LlmAnswer, EndStep
    <3>8. CASE LlmToolCalls
      BY <3>8 DEF LlmToolCalls
    <3>9. CASE EmitAction
      BY <3>9 DEF EmitAction
    <3>10. CASE Decide
      BY <3>10 DEF Decide, HoldBatch, EndStep
    <3>11. CASE ExecBatch
      BY <3>11 DEF ExecBatch
    <3>12. CASE Flush
      BY <3>12 DEF Flush, EndStep
    <3>13. CASE TailEnds
      BY <3>13 DEF TailEnds
    <3>14. CASE Rearm
      BY <3>14 DEF Rearm, StartRun
    <3>15. CASE EmitOrphans
      BY <3>15 DEF EmitOrphans
    <3>16. CASE TakeRerun
      BY <3>16 DEF TakeRerun
    <3> QED
      BY <2>13, <3>1, <3>2, <3>3, <3>4, <3>5, <3>6, <3>7, <3>8, <3>9, <3>10,
         <3>11, <3>12, <3>13, <3>14, <3>15, <3>16 DEF RunTask
  <2>14. ASSUME Crash PROVE Sorted
    BY <2>14 DEF Crash
  <2> QED
    BY <2>1, <2>2, <2>3, <2>4, <2>5, <2>6, <2>7, <2>8, <2>9, <2>10, <2>11,
       <2>12, <2>13, <2>14 DEF Next, Request, HandlerStep, ServerStep
<1> QED
  BY <1>1

\* Only a restart begins another life.
LEMMA NextLives == Next /\ ~Crash => crashes' = crashes
BY DEF Next, Request, HandlerStep, ServerStep, RunTask, Create, Run, SendBegin,
   SendAppend, SendRun, SendArm, RejectRead, RejectCommit, SetPolicy,
   PauseBegin, PauseCommit, Interrupt, ArunStart, ArunStartFails, LoopBreak,
   LoopStuck, LoopStep, LlmError, LlmAnswer, LlmToolCalls, EmitAction, Decide,
   ExecBatch, Flush, EmitOrphans, TailEnds, TakeRerun, Rearm, Untouched, life

\* What was saved stays within the types as long as the log only grows.
LEMMA SavedTypes ==
  ASSUME TypeOK, RunOK', LogOK', FlagsOK', LogGrows, Save
  PROVE  SavedOK'
<1> USE DEF TypeOK, SavedOK, LogGrows
<1>1. CASE task' \in InStep
  <2>1. saved' = saved
    BY <1>1 DEF Save
  <2>2. 0..nRaised \subseteq 0..nRaised'
    BY DEF LogOK
  <2> QED
    BY <2>1, <2>2
<1>2. CASE task' \notin InStep
  <2>1. saved' = BaseState'
    BY <1>2 DEF Save
  <2>2. nRaised' \in 0..nRaised'
    BY DEF LogOK
  <2> QED
    BY <2>1, <2>2 DEF BaseState, RunOK, LogOK, FlagsOK
<1> QED
  BY <1>1, <1>2

\* The log keeps its types, and grows.
LEMMA LogTypes ==
  ASSUME TypeOK, Next
  PROVE  LogOK' /\ LogGrows
<1> USE DEF TypeOK, LogOK, LogGrows, Raised
<1>1. /\ gated' \subseteq Raised
      /\ resumed' \subseteq Raised
  BY NextLogs DEF Pending
<1>2. CASE Quiet
  <2>1. UNCHANGED <<nRaised, finishes, runs, executed, rejected, failed,
                    stranded, torn, marked, vetoed, exposed>>
    BY <1>2, ExecutedSame DEF Quiet, branchVars
  <2> QED
    BY <1>1, <2>1 DEF Settled
<1>3. CASE EmitAction
  <2>1. nRaised' = nRaised + 1 /\ nRaised' \in 0..MaxActions
    BY <1>3, ServerAssumption DEF EmitAction, ServerAssumption
  <2>2. 1..nRaised \subseteq 1..nRaised' /\ nRaised + 1 \in 1..nRaised'
    BY <2>1
  <2>3. UNCHANGED <<runs, executed, rejected, failed, stranded, torn, exposed>>
    BY <1>3, ExecutedSame DEF EmitAction
  <2>4. finishes' \subseteq 1..nRaised'
    BY <1>3, <2>2 DEF EmitAction
  <2>5. /\ marked' \subseteq vetoed'
        /\ vetoed' \subseteq 1..nRaised'
        /\ vetoed \subseteq vetoed'
    <3>1. PICK blocked \in SUBSET {nRaised + 1} :
            marked' = marked \cup blocked /\ vetoed' = vetoed \cup blocked
      BY <1>3 DEF EmitAction
    <3> QED
      BY <2>2, <3>1
  <2> QED
    BY <1>1, <2>1, <2>2, <2>3, <2>4, <2>5 DEF Settled
<1>4. CASE ExecBatch
  <2>1. /\ UNCHANGED <<nRaised, finishes, failed, stranded, vetoed, exposed>>
        /\ executed' = executed \cup Ran
        /\ rejected' = rejected \cup Vetoed
        /\ torn' \subseteq torn
        /\ marked' \subseteq marked
        /\ runs' \in [Actions -> Nat]
    BY <1>4, ExecutedGrows DEF ExecBatch
  <2>2. Ran \subseteq Raised /\ Vetoed \subseteq Raised
    BY DEF Ran, Vetoed, UpToFinish, Pending
  <2> QED
    BY <1>1, <2>1, <2>2 DEF Settled
<1>5. CASE Crash
  <2>1. /\ UNCHANGED <<nRaised, finishes, runs, executed, rejected, vetoed>>
        /\ failed' = failed \cup Interrupted
        /\ stranded' \subseteq stranded \cup Raised
        /\ torn' \subseteq Settled
        /\ marked' = saved.marked
        /\ exposed' \subseteq exposed \cup vetoed
    BY <1>5, ExecutedSame DEF Crash
  <2>2. Interrupted \subseteq Raised
    BY DEF Interrupted, Unmatched
  <2> QED
    BY <1>1, <2>1, <2>2 DEF Settled, SavedOK
<1>6. ASSUME NEW r \in Reqs, RejectCommit(r) PROVE LogOK' /\ LogGrows
  <2>1. /\ UNCHANGED <<nRaised, finishes, runs, executed, failed, stranded,
                       marked, vetoed, exposed>>
        /\ rejected' = rejected \cup snap[r]
        /\ torn' \subseteq torn
    BY <1>6, ExecutedSame DEF RejectCommit
  <2>2. rejected' \subseteq Raised
    BY <2>1 DEF HandlerOK
  <2>3. Settled \subseteq Settled'
    BY <2>1 DEF Settled
  <2> QED
    BY <1>1, <2>1, <2>2, <2>3
<1>7. ASSUME NEW r \in Reqs, Interrupt(r) PROVE LogOK' /\ LogGrows
  <2>1. /\ UNCHANGED <<nRaised, finishes, runs, executed, rejected, failed,
                       stranded, torn, vetoed, exposed>>
        /\ marked' \subseteq marked
    BY <1>7, ExecutedSame DEF Interrupt
  <2> QED
    BY <1>1, <2>1 DEF Settled
<1>8. CASE EmitOrphans
  <2>1. /\ UNCHANGED <<nRaised, finishes, runs, executed, rejected, stranded,
                       marked, vetoed, exposed>>
        /\ failed' = failed \cup Pending
        /\ torn' \subseteq torn
    BY <1>8, ExecutedSame DEF EmitOrphans
  <2> QED
    BY <1>1, <2>1 DEF Settled, Pending
<1> QED
  BY <1>2, <1>3, <1>4, <1>5, <1>6, <1>7, <1>8, NextLogs DEF Logs
-----------------------------------------------------------------------------
\* Every step of the server keeps the types.
LEMMA TypesKept == TypeOK /\ [Next]_serverVars => TypeOK'
<1> DEFINE RestOK == RunOK /\ FlagsOK /\ HandlerOK
<1>1. ASSUME TypeOK, Next PROVE RestOK'
  <2>0. LogOK' /\ LogGrows
    BY <1>1, LogTypes
  <2>16. Raised \subseteq Raised'
    BY <1>1, <2>0 DEF LogGrows, TypeOK, LogOK, Raised
  <2> USE <1>1, <2>16 DEF TypeOK, RunOK, FlagsOK, HandlerOK, Answered,
          handlerVars, tails, life, Statuses, TaskPcs, HandlerPcs
  <2>1. ASSUME NEW p \in Policies, Create(p) PROVE RestOK'
    BY <2>1 DEF Create, StartRun
  <2>2. ASSUME NEW r \in Reqs, Run(r) PROVE RestOK'
    BY <2>2 DEF Run, StartRun
  <2>3. ASSUME NEW r \in Reqs, SendBegin(r) PROVE RestOK'
    BY <2>3 DEF SendBegin
  <2>4. ASSUME NEW r \in Reqs, SendAppend(r) PROVE RestOK'
    BY <2>4 DEF SendAppend
  <2>5. ASSUME NEW r \in Reqs, SendRun(r) PROVE RestOK'
    BY <2>5 DEF SendRun, StartRun
  <2>6. ASSUME NEW r \in Reqs, SendArm(r) PROVE RestOK'
    BY <2>6 DEF SendArm
  <2>7. ASSUME NEW r \in Reqs, RejectRead(r) PROVE RestOK'
    BY <2>7 DEF RejectRead, Pending
  <2>8. ASSUME NEW r \in Reqs, RejectCommit(r) PROVE RestOK'
    BY <2>8 DEF RejectCommit, StatusOnReject
  <2>9. ASSUME NEW r \in Reqs, NEW p \in Policies, SetPolicy(r, p)
         PROVE  RestOK'
    BY <2>9 DEF SetPolicy
  <2>10. ASSUME NEW r \in Reqs, PauseBegin(r) PROVE RestOK'
    BY <2>10 DEF PauseBegin, StopIntent
  <2>11. ASSUME NEW r \in Reqs, PauseCommit(r) PROVE RestOK'
    BY <2>11 DEF PauseCommit, PauseEffect
  <2>12. ASSUME NEW r \in Reqs, Interrupt(r) PROVE RestOK'
    BY <2>12 DEF Interrupt, StopIntent, PauseEffect
  <2>13. ASSUME RunTask PROVE RestOK'
    <3> USE DEF Untouched
    <3>1. CASE ArunStart
      BY <3>1 DEF ArunStart
    <3>2. CASE ArunStartFails
      BY <3>2 DEF ArunStartFails
    <3>3. CASE LoopBreak
      BY <3>3 DEF LoopBreak
    <3>4. CASE LoopStuck
      BY <3>4 DEF LoopStuck
    <3>5. CASE LoopStep
      BY <3>5 DEF LoopStep
    <3>6. CASE LlmError
      BY <3>6 DEF LlmError
    <3>7. CASE LlmAnswer
      BY <3>7 DEF LlmAnswer, EndStep
    <3>8. CASE LlmToolCalls
      BY <3>8 DEF LlmToolCalls
    <3>9. CASE EmitAction
      BY <3>9 DEF EmitAction
    <3>10. CASE Decide
      BY <3>10 DEF Decide, HoldBatch, EndStep
    <3>11. CASE ExecBatch
      BY <3>11 DEF ExecBatch, Ran, Vetoed, UpToFinish
    <3>12. CASE Flush
      BY <3>12 DEF Flush, EndStep
    <3>13. CASE TailEnds
      <4>1. RunOK'
        BY <3>13 DEF TailEnds
      <4>2. FlagsOK'
        BY <3>13 DEF TailEnds
      <4>3. HandlerOK'
        BY <3>13 DEF TailEnds
      <4> QED
        BY <4>1, <4>2, <4>3
    <3>14. CASE Rearm
      <4>1. RunOK'
        BY <3>14 DEF Rearm, StartRun
      <4>2. FlagsOK'
        BY <3>14 DEF Rearm, StartRun
      <4>3. HandlerOK'
        BY <3>14 DEF Rearm, StartRun
      <4> QED
        BY <4>1, <4>2, <4>3
    <3>15. CASE EmitOrphans
      BY <3>15 DEF EmitOrphans
    <3>16. CASE TakeRerun
      <4>1. RunOK'
        BY <3>16 DEF TakeRerun
      <4>2. FlagsOK'
        BY <3>16 DEF TakeRerun
      <4>3. HandlerOK'
        BY <3>16 DEF TakeRerun
      <4> QED
        BY <4>1, <4>2, <4>3
    <3> QED
      BY <2>13, <3>1, <3>2, <3>3, <3>4, <3>5, <3>6, <3>7, <3>8, <3>9, <3>10,
         <3>11, <3>12, <3>13, <3>14, <3>15, <3>16 DEF RunTask
  <2>14. ASSUME Crash PROVE RestOK'
    <3>1. RunOK'
      BY <2>14, ServerAssumption DEF Crash, SavedOK, ServerAssumption
    <3>2. FlagsOK'
      BY <2>14 DEF Crash, SavedOK
    <3>3. HandlerOK'
      BY <2>14 DEF Crash, SavedOK
    <3> QED
      BY <3>1, <3>2, <3>3
  <2> QED
    BY <2>1, <2>2, <2>3, <2>4, <2>5, <2>6, <2>7, <2>8, <2>9, <2>10, <2>11,
       <2>12, <2>13, <2>14 DEF Next, Request, HandlerStep, ServerStep
<1> SUFFICES ASSUME TypeOK, [Next]_serverVars PROVE TypeOK'
  OBVIOUS
<1>2. CASE Next
  BY <1>1, <1>2, LogTypes, NextSaves, SavedTypes DEF TypeOK
<1>3. CASE UNCHANGED serverVars
  BY <1>3, ExecutedSame DEF serverVars, logVars, branchVars, handlerVars,
     tails, life, TypeOK, RunOK, LogOK, FlagsOK, HandlerOK, SavedOK, Settled,
     Raised
<1> QED
  BY <1>2, <1>3

\* A server that starts has the types.
LEMMA TypesAtInit == Init => TypeOK
<1> DEFINE RestOK == RunOK /\ FlagsOK /\ HandlerOK
<1> SUFFICES ASSUME Init PROVE TypeOK
  OBVIOUS
<1>1. RestOK
  <2>1. RunOK
    BY ServerAssumption DEF Init, RunOK, ServerAssumption, Statuses, TaskPcs
  <2>2. FlagsOK
    BY DEF Init, FlagsOK
  <2>3. HandlerOK
    BY DEF Init, HandlerOK, HandlerPcs
  <2> QED
    BY <2>1, <2>2, <2>3
<1>2. LogOK
  BY ServerAssumption DEF Init, LogOK, Settled, executed, ServerAssumption
<1>3. SavedOK
  BY <1>1, <1>2 DEF Init, SavedOK, BaseState, RunOK, FlagsOK, LogOK
<1> QED
  BY <1>1, <1>2, <1>3 DEF TypeOK

\* The run task, the event log, the handlers and the saved base state keep the
\* values their code gives them, for every number of requests, actions,
\* iterations and restarts.
THEOREM TypeCorrect == Spec => []TypeOK
BY TypesAtInit, TypesKept, PTL DEF Spec
-----------------------------------------------------------------------------
\* A run executes everything that is open when an iteration begins, so what is
\* open under a run task must already have been let go; what is open while a
\* batch is being emitted is that batch, which nobody has held or answered yet.
OpenIsLetGo ==
  /\ task \in {"start", "top", "exec", "flush"} =>
       Pending \cap gated \subseteq resumed
  /\ task = "llm" => Pending = {}
  /\ task = "emit" => Pending \cap gated = {} /\ torn \subseteq stranded

GateInv == GatedHeld /\ OpenIsLetGo

\* A server that starts holds nothing.
LEMMA GateAtInit == Init => GateInv
BY DEF Init, GateInv, GatedHeld, OpenIsLetGo, Pending, Raised, Settled,
   executed

\* Every step of the server keeps the gate.
LEMMA GateKept == TypeOK /\ GateInv /\ [Next]_serverVars => GateInv'
<1> USE DEF GateInv, GatedHeld, OpenIsLetGo, Pending, Raised, Settled
<1> SUFFICES ASSUME TypeOK, GateInv, [Next]_serverVars PROVE GateInv'
  OBVIOUS
<1> USE ExecutedSame DEF logVars, branchVars, handlerVars, Answered, LockFree,
        TypeOK, LogOK, HandlerOK
<1>1. ASSUME NEW p \in Policies, Create(p) PROVE GateInv'
  BY <1>1 DEF Create, StartRun
<1>2. ASSUME NEW r \in Reqs, Run(r) PROVE GateInv'
  BY <1>2 DEF Run, StartRun
<1>3. ASSUME NEW r \in Reqs, SendBegin(r) PROVE GateInv'
  BY <1>3 DEF SendBegin
<1>4. ASSUME NEW r \in Reqs, SendAppend(r) PROVE GateInv'
  BY <1>4 DEF SendAppend
<1>5. ASSUME NEW r \in Reqs, SendRun(r) PROVE GateInv'
  BY <1>5 DEF SendRun, StartRun
<1>6. ASSUME NEW r \in Reqs, SendArm(r) PROVE GateInv'
  BY <1>6 DEF SendArm
<1>7. ASSUME NEW r \in Reqs, RejectRead(r) PROVE GateInv'
  BY <1>7 DEF RejectRead
<1>8. ASSUME NEW r \in Reqs, RejectCommit(r) PROVE GateInv'
  BY <1>8 DEF RejectCommit, StatusOnReject
<1>9. ASSUME NEW r \in Reqs, NEW p \in Policies, SetPolicy(r, p)
       PROVE  GateInv'
  BY <1>9 DEF SetPolicy
<1>10. ASSUME NEW r \in Reqs, PauseBegin(r) PROVE GateInv'
  BY <1>10 DEF PauseBegin, StopIntent
<1>11. ASSUME NEW r \in Reqs, PauseCommit(r) PROVE GateInv'
  BY <1>11 DEF PauseCommit, PauseEffect
<1>12. ASSUME NEW r \in Reqs, Interrupt(r) PROVE GateInv'
  BY <1>12 DEF Interrupt, StopIntent, PauseEffect
<1>13. ASSUME RunTask PROVE GateInv'
  <2> USE DEF Untouched
  <2>1. CASE ArunStart
    BY <2>1 DEF ArunStart
  <2>2. CASE ArunStartFails
    BY <2>2 DEF ArunStartFails
  <2>3. CASE LoopBreak
    BY <2>3 DEF LoopBreak
  <2>4. CASE LoopStuck
    BY <2>4 DEF LoopStuck
  <2>5. CASE LoopStep
    BY <2>5 DEF LoopStep
  <2>6. CASE LlmError
    BY <2>6 DEF LlmError
  <2>7. CASE LlmAnswer
    BY <2>7 DEF LlmAnswer, EndStep
  <2>8. CASE LlmToolCalls
    BY <2>8 DEF LlmToolCalls
  <2>9. CASE EmitAction
    BY <2>9 DEF EmitAction
  <2>10. CASE Decide
    BY <2>10 DEF Decide, HoldBatch, EndStep
  <2>11. CASE ExecBatch
    BY <2>11, ExecutedGrows DEF ExecBatch, Ran, Vetoed, UpToFinish
  <2>12. CASE Flush
    BY <2>12 DEF Flush, EndStep
  <2>13. CASE TailEnds
    BY <2>13 DEF TailEnds
  <2>14. CASE Rearm
    BY <2>14 DEF Rearm, StartRun
  <2>15. CASE EmitOrphans
    BY <2>15 DEF EmitOrphans
  <2>16. CASE TakeRerun
    BY <2>16 DEF TakeRerun
  <2> QED
    BY <1>13, <2>1, <2>2, <2>3, <2>4, <2>5, <2>6, <2>7, <2>8, <2>9, <2>10,
       <2>11, <2>12, <2>13, <2>14, <2>15, <2>16 DEF RunTask
<1>14. ASSUME Crash PROVE GateInv'
  BY <1>14 DEF Crash, Interrupted
<1>15. CASE UNCHANGED serverVars
  BY <1>15 DEF serverVars
<1> QED
  BY <1>1, <1>2, <1>3, <1>4, <1>5, <1>6, <1>7, <1>8, <1>9, <1>10, <1>11,
     <1>12, <1>13, <1>14, <1>15 DEF Next, Request, HandlerStep, ServerStep

\* The gate's invariant is inductive over the whole server, restarts included.
LEMMA HeldInductive == Spec => []GateInv
BY GateAtInit, GateKept, TypeCorrect, PTL DEF Spec

\* An action held for the operator runs only in a run that was started for a
\* client, after the action had been raised: neither the end of its own batch,
\* nor a change of policy, nor a restart of the server lets it go.
THEOREM HeldUntilReleased == Spec => []GatedHeld
BY HeldInductive, PTL DEF GateInv
-----------------------------------------------------------------------------
\* Where the server is between two iterations, everything is saved.
AtRest == task \notin InStep => saved = BaseState

\* A step ends in an iteration or saves what it changed.
LEMMA RestKept == AtRest /\ [Next]_serverVars => AtRest'
<1>1. Next => AtRest'
  BY NextSaves DEF Save, AtRest
<1>2. AtRest /\ UNCHANGED serverVars => AtRest'
  BY ExecutedSame DEF AtRest, serverVars, logVars, branchVars, BaseState,
     Settled
<1> QED
  BY <1>1, <1>2

\* The loop enters an iteration at its top, and the LLM call from there; what a
\* reject handler reads is open.
LEMMA NextTask ==
  TypeOK /\ Next =>
    /\ task' \in InStep => task \in InStep \cup {"top"}
    /\ task' = "llm" => task \in {"top", "llm"}
    /\ \A r \in Reqs : snap'[r] \subseteq snap[r] \cup Pending
<1> DEFINE Entered == /\ task' \in InStep => task \in InStep \cup {"top"}
                      /\ task' = "llm" => task \in {"top", "llm"}
                      /\ \A q \in Reqs : snap'[q] \subseteq snap[q] \cup Pending
<1>1. ASSUME TypeOK, Next PROVE Entered
  <2> USE <1>1 DEF InStep, handlerVars, tails, life, TypeOK, HandlerOK
  <2>1. ASSUME NEW p \in Policies, Create(p) PROVE Entered
    BY <2>1 DEF Create, StartRun
  <2>2. ASSUME NEW r \in Reqs, Run(r) PROVE Entered
    BY <2>2 DEF Run, StartRun
  <2>3. ASSUME NEW r \in Reqs, SendBegin(r) PROVE Entered
    BY <2>3 DEF SendBegin
  <2>4. ASSUME NEW r \in Reqs, SendAppend(r) PROVE Entered
    BY <2>4 DEF SendAppend
  <2>5. ASSUME NEW r \in Reqs, SendRun(r) PROVE Entered
    BY <2>5 DEF SendRun, StartRun
  <2>6. ASSUME NEW r \in Reqs, SendArm(r) PROVE Entered
    BY <2>6 DEF SendArm
  <2>7. ASSUME NEW r \in Reqs, RejectRead(r) PROVE Entered
    BY <2>7 DEF RejectRead
  <2>8. ASSUME NEW r \in Reqs, RejectCommit(r) PROVE Entered
    BY <2>8 DEF RejectCommit
  <2>9. ASSUME NEW r \in Reqs, NEW p \in Policies, SetPolicy(r, p)
         PROVE  Entered
    BY <2>9 DEF SetPolicy
  <2>10. ASSUME NEW r \in Reqs, PauseBegin(r) PROVE Entered
    BY <2>10 DEF PauseBegin, StopIntent
  <2>11. ASSUME NEW r \in Reqs, PauseCommit(r) PROVE Entered
    BY <2>11 DEF PauseCommit, PauseEffect
  <2>12. ASSUME NEW r \in Reqs, Interrupt(r) PROVE Entered
    BY <2>12 DEF Interrupt, StopIntent, PauseEffect
  <2>13. ASSUME RunTask PROVE Entered
    <3> USE DEF Untouched
    <3>1. CASE ArunStart
      BY <3>1 DEF ArunStart
    <3>2. CASE ArunStartFails
      BY <3>2 DEF ArunStartFails
    <3>3. CASE LoopBreak
      BY <3>3 DEF LoopBreak
    <3>4. CASE LoopStuck
      BY <3>4 DEF LoopStuck
    <3>5. CASE LoopStep
      BY <3>5 DEF LoopStep
    <3>6. CASE LlmError
      BY <3>6 DEF LlmError
    <3>7. CASE LlmAnswer
      BY <3>7 DEF LlmAnswer, EndStep
    <3>8. CASE LlmToolCalls
      BY <3>8 DEF LlmToolCalls
    <3>9. CASE EmitAction
      BY <3>9 DEF EmitAction
    <3>10. CASE Decide
      BY <3>10 DEF Decide, HoldBatch, EndStep
    <3>11. CASE ExecBatch
      BY <3>11 DEF ExecBatch
    <3>12. CASE Flush
      BY <3>12 DEF Flush, EndStep
    <3>13. CASE TailEnds
      BY <3>13 DEF TailEnds
    <3>14. CASE Rearm
      BY <3>14 DEF Rearm, StartRun
    <3>15. CASE EmitOrphans
      BY <3>15 DEF EmitOrphans
    <3>16. CASE TakeRerun
      BY <3>16 DEF TakeRerun
    <3> QED
      BY <2>13, <3>1, <3>2, <3>3, <3>4, <3>5, <3>6, <3>7, <3>8, <3>9, <3>10,
         <3>11, <3>12, <3>13, <3>14, <3>15, <3>16 DEF RunTask
  <2>14. ASSUME Crash PROVE Entered
    BY <2>14 DEF Crash
  <2> QED
    BY <2>1, <2>2, <2>3, <2>4, <2>5, <2>6, <2>7, <2>8, <2>9, <2>10, <2>11,
       <2>12, <2>13, <2>14 DEF Next, Request, HandlerStep, ServerStep
<1> QED
  BY <1>1
-----------------------------------------------------------------------------
\* While the agent works, the conversation is not waiting for confirmation.
WaitingAtRest == task \in InStep => status # "waiting"

\* A server that would come back waiting would have something to confirm.
SavedMeansPending ==
  saved.status = "waiting" =>
    ((1..saved.raised) \ stranded) \ saved.settled # {}

WaitingInv == WaitingMeansPending /\ WaitingAtRest /\ SavedMeansPending

\* Every step of the server leaves a waiting conversation, and the one that a
\* restart would bring back, with something to confirm.
LEMMA WaitingKept ==
  TypeOK /\ TypeOK' /\ WaitingInv /\ [Next]_serverVars => WaitingInv'
<1> DEFINE Live == WaitingMeansPending /\ WaitingAtRest
<1>1. TypeOK /\ WaitingInv /\ [Next]_serverVars => Live'
  <2> SUFFICES ASSUME TypeOK, WaitingInv, [Next]_serverVars PROVE Live'
    OBVIOUS
  <2> USE ExecutedSame DEF WaitingInv, WaitingMeansPending, WaitingAtRest,
          Pending, Raised, Settled, logVars, branchVars, handlerVars, Answered,
          InStep, LockFree, TypeOK, LogOK, HandlerOK
  <2>1. ASSUME NEW p \in Policies, Create(p) PROVE Live'
    BY <2>1 DEF Create, StartRun
  <2>2. ASSUME NEW r \in Reqs, Run(r) PROVE Live'
    BY <2>2 DEF Run, StartRun
  <2>3. ASSUME NEW r \in Reqs, SendBegin(r) PROVE Live'
    BY <2>3 DEF SendBegin
  <2>4. ASSUME NEW r \in Reqs, SendAppend(r) PROVE Live'
    BY <2>4 DEF SendAppend
  <2>5. ASSUME NEW r \in Reqs, SendRun(r) PROVE Live'
    BY <2>5 DEF SendRun, StartRun
  <2>6. ASSUME NEW r \in Reqs, SendArm(r) PROVE Live'
    BY <2>6 DEF SendArm
  <2>7. ASSUME NEW r \in Reqs, RejectRead(r) PROVE Live'
    BY <2>7 DEF RejectRead
  <2>8. ASSUME NEW r \in Reqs, RejectCommit(r) PROVE Live'
    BY <2>8 DEF RejectCommit, StatusOnReject
  <2>9. ASSUME NEW r \in Reqs, NEW p \in Policies, SetPolicy(r, p)
         PROVE  Live'
    BY <2>9 DEF SetPolicy
  <2>10. ASSUME NEW r \in Reqs, PauseBegin(r) PROVE Live'
    BY <2>10 DEF PauseBegin, StopIntent
  <2>11. ASSUME NEW r \in Reqs, PauseCommit(r) PROVE Live'
    BY <2>11 DEF PauseCommit, PauseEffect
  <2>12. ASSUME NEW r \in Reqs, Interrupt(r) PROVE Live'
    BY <2>12 DEF Interrupt, StopIntent, PauseEffect
  <2>13. ASSUME RunTask PROVE Live'
    <3> USE DEF Untouched
    <3>1. CASE ArunStart
      BY <3>1 DEF ArunStart
    <3>2. CASE ArunStartFails
      BY <3>2 DEF ArunStartFails
    <3>3. CASE LoopBreak
      BY <3>3 DEF LoopBreak
    <3>4. CASE LoopStuck
      BY <3>4 DEF LoopStuck
    <3>5. CASE LoopStep
      BY <3>5 DEF LoopStep
    <3>6. CASE LlmError
      BY <3>6 DEF LlmError
    <3>7. CASE LlmAnswer
      BY <3>7 DEF LlmAnswer, EndStep
    <3>8. CASE LlmToolCalls
      BY <3>8 DEF LlmToolCalls
    <3>9. CASE EmitAction
      BY <3>9 DEF EmitAction
    <3>10. CASE Decide
      <4>1. WaitingMeansPending'
        BY <3>10 DEF Decide, HoldBatch, EndStep, RequiresConfirmation
      <4>2. WaitingAtRest'
        BY <3>10 DEF Decide, HoldBatch, EndStep, RequiresConfirmation
      <4> QED
        BY <4>1, <4>2
    <3>11. CASE ExecBatch
      BY <3>11, ExecutedGrows DEF ExecBatch, Ran, Vetoed, UpToFinish
    <3>12. CASE Flush
      BY <3>12 DEF Flush, EndStep
    <3>13. CASE TailEnds
      BY <3>13 DEF TailEnds
    <3>14. CASE Rearm
      BY <3>14 DEF Rearm, StartRun
    <3>15. CASE EmitOrphans
      BY <3>15 DEF EmitOrphans
    <3>16. CASE TakeRerun
      BY <3>16 DEF TakeRerun
    <3> QED
      BY <2>13, <3>1, <3>2, <3>3, <3>4, <3>5, <3>6, <3>7, <3>8, <3>9, <3>10,
         <3>11, <3>12, <3>13, <3>14, <3>15, <3>16 DEF RunTask
  <2>14. ASSUME Crash PROVE Live'
    <3> USE DEF SavedMeansPending, SavedOK
    <3>1. WaitingAtRest'
      BY <2>14 DEF Crash
    <3>2. ASSUME status' = "waiting" PROVE Pending' # {}
      <4>1. saved.status = "waiting"
        BY <2>14, <3>2 DEF Crash
      <4>2. failed' = failed /\ UNCHANGED <<nRaised, executed, rejected>>
        BY <2>14, <4>1 DEF Crash, Interrupted
      <4>3. /\ stranded' = stranded \cup ((1..nRaised) \ (1..saved.raised))
            /\ torn' = Settled \ saved.settled
        BY <2>14 DEF Crash
      <4>4. PICK a \in ((1..saved.raised) \ stranded) \ saved.settled : TRUE
        BY <4>1
      <4>5. a \in 1..nRaised /\ a \notin stranded'
        BY <4>3, <4>4
      <4> QED
        BY <4>2, <4>3, <4>4, <4>5
    <3> QED
      BY <3>1, <3>2
  <2>15. CASE UNCHANGED serverVars
    BY <2>15 DEF serverVars
  <2> QED
    BY <2>1, <2>2, <2>3, <2>4, <2>5, <2>6, <2>7, <2>8, <2>9, <2>10, <2>11,
       <2>12, <2>13, <2>14, <2>15 DEF Next, Request, HandlerStep, ServerStep
<1>2. TypeOK /\ LogOK' /\ WaitingInv /\ Next /\ Live' => SavedMeansPending'
  <2> SUFFICES ASSUME TypeOK, LogOK', WaitingInv, Next, Live'
               PROVE  SavedMeansPending'
    OBVIOUS
  <2>1. CASE task' \in InStep
    <3>1. saved' = saved
      BY <2>1, NextSaves DEF Save
    <3>2. stranded' = stranded
      BY <2>1, NextLogs DEF Quiet, Logs, branchVars, EmitAction, ExecBatch,
         RejectCommit, Interrupt, EmitOrphans, Crash, InStep
    <3> QED
      BY <3>1, <3>2 DEF WaitingInv, SavedMeansPending
  <2>2. CASE task' \notin InStep
    <3>1. saved' = BaseState'
      BY <2>2, NextSaves DEF Save
    <3> QED
      BY <3>1 DEF BaseState, SavedMeansPending, WaitingMeansPending, Pending,
         Raised
  <2> QED
    BY <2>1, <2>2
<1>3. UNCHANGED serverVars /\ WaitingInv => SavedMeansPending'
  BY DEF serverVars, logVars, branchVars, WaitingInv, SavedMeansPending
<1> QED
  BY <1>1, <1>2, <1>3 DEF WaitingInv, TypeOK

\* A conversation that waits for confirmation has an open action that the next
\* run takes up: reject_pending_actions, interrupts and restarts that close the
\* last one, or lose it, also leave the waiting status.
THEOREM WaitingHasCard == Spec => []WaitingMeansPending
<1>1. Init => WaitingInv
  BY DEF Init, WaitingInv, WaitingMeansPending, WaitingAtRest,
     SavedMeansPending, BaseState, InStep
<1> QED
  BY <1>1, WaitingKept, TypeCorrect, PTL DEF Spec, WaitingInv
-----------------------------------------------------------------------------
\* The vetoed actions that a cancellation has taken the mark off and not yet
\* closed.
Window == IF task = "cancelled" THEN Pending \cap vetoed ELSE {}

\* What no run may undo when t are the answered actions whose answer the branch
\* lacks, s those that are off it, m the marks and x the actions that a restart
\* in the window of a cancellation has left without one: an error is never
\* lost, and an action that was rejected, or blocked and not answered, is still
\* marked or is one of x.
SafeWith(t, s, m, x) ==
  /\ failed \cap t = {}
  /\ (rejected \cap t) \ executed \subseteq m \cup s \cup x
  /\ (vetoed \ s) \ (Settled \ t) \subseteq m \cup x

\* What torn and stranded would be if the server restarted now.
Lost == Settled \ saved.settled
CutOff == stranded \cup (Raised \ (1..saved.raised))

SafeNow == SafeWith(torn, stranded, marked, exposed \cup Window)
SafeIfCut == SafeWith(Lost, CutOff, saved.marked, exposed \cup Window)
ReadFromBranch == \A r \in Reqs : snap[r] \cap stranded = {}

\* Inside an iteration the marks it has not saved are those of its own actions,
\* and during the LLM call the iteration has answered nothing yet.
StepKeeps ==
  /\ task \in InStep => marked \cap (1..saved.raised) \subseteq saved.marked
  /\ task = "llm" => Settled \ torn \subseteq saved.settled

\* A cancelled conversation exists.
Cancellable == task = "cancelled" => status # "absent"

RestartInv ==
  /\ SafeNow /\ SafeIfCut
  /\ ReadFromBranch /\ StepKeeps /\ Cancellable
  /\ VetoHolds

\* The window opens when the loop is cancelled and closes with the errors or
\* with a restart.
LEMMA WindowOnly ==
  ASSUME Cancellable, Next
  PROVE  /\ task = "cancelled" => task' = "cancelled" \/ EmitOrphans \/ Crash
         /\ task' = "cancelled" => \/ task = "cancelled"
                                   \/ \E r \in Reqs : Interrupt(r)
         /\ Cancellable'
<1> DEFINE Stays == status' = status \/ status' # "absent"
           Started == task = "none" /\ task' = "start"
<1>1. CASE RunTask
  <2>1. EmitOrphans \/ (task # "cancelled" /\ task' # "cancelled")
    BY <1>1 DEF RunTask, ArunStart, ArunStartFails, LoopBreak, LoopStuck,
       LoopStep, LlmError, LlmAnswer, LlmToolCalls, EmitAction, Decide,
       HoldBatch, ExecBatch, Flush, TailEnds, TakeRerun, Rearm, EndStep,
       StartRun, CanRun, LoopFree
  <2>2. EmitOrphans => task' # "cancelled"
    BY DEF EmitOrphans
  <2> QED
    BY <2>1, <2>2 DEF Cancellable
<1>2. ASSUME NEW r \in Reqs, HandlerStep(r)
      PROVE  Stays /\ (task' = task \/ Started)
  BY <1>2 DEF HandlerStep, SendAppend, SendRun, SendArm, RejectCommit,
     StatusOnReject, PauseCommit, PauseEffect, StartRun, CanRun
<1>3. ASSUME NEW r \in Reqs, Request(r), ~Interrupt(r)
      PROVE  Stays /\ (task' = task \/ Started)
  BY <1>3 DEF Request, Run, SendBegin, RejectRead, PauseBegin, SetPolicy,
     StartRun, CanRun
<1>4. ASSUME NEW r \in Reqs, Interrupt(r)
      PROVE  task # "cancelled" /\ Cancellable'
  BY <1>4 DEF Interrupt, LoopFree, Arrive, Cancellable
<1>5. ASSUME NEW p \in Policies, Create(p)
      PROVE  task # "cancelled" /\ task' = "start"
  BY <1>5 DEF Create, StartRun, Cancellable
<1>6. CASE Crash
  BY <1>6 DEF Crash, Cancellable
<1> QED
  BY <1>1, <1>2, <1>3, <1>4, <1>5, <1>6 DEF Next, ServerStep, Cancellable

\* The parts of the invariant that do not look at what is saved.
LEMMA SafeStep ==
  ASSUME TypeOK, AtRest, RestartInv, Next
  PROVE  SafeNow' /\ ReadFromBranch' /\ VetoHolds'
<1> USE DEF RestartInv, SafeNow, SafeWith, ReadFromBranch, VetoHolds, TypeOK
<1>1. ASSUME UNCHANGED stranded PROVE ReadFromBranch'
  BY <1>1, NextTask DEF Pending
<1>2. CASE Quiet /\ ~EmitOrphans /\ ~Crash
  <2>1. UNCHANGED <<executed, Settled, Pending, rejected, failed, stranded,
                    torn, marked, vetoed, exposed>>
    BY <1>2, ExecutedSame DEF Quiet, branchVars, Settled, Pending, Raised
  <2>2. Window \subseteq Window'
    BY <1>2, <2>1, WindowOnly DEF Window
  <2> QED
    BY <1>1, <2>1, <2>2
<1>3. CASE EmitAction
  <2>1. UNCHANGED <<executed, rejected, failed, stranded, torn, exposed>>
    BY <1>3, ExecutedSame DEF EmitAction
  <2>2. PICK blocked \in SUBSET {nRaised + 1} :
          marked' = marked \cup blocked /\ vetoed' = vetoed \cup blocked
    BY <1>3 DEF EmitAction
  <2>3. nRaised + 1 \notin Raised /\ Window = {}
    BY <1>3 DEF Raised, LogOK, EmitAction, Window
  <2> QED
    BY <1>1, <2>1, <2>2, <2>3 DEF Settled, LogOK
<1>4. CASE ExecBatch
  <2>1. /\ UNCHANGED <<failed, stranded, vetoed, exposed>>
        /\ executed' = executed \cup Ran
        /\ rejected' = rejected \cup Vetoed
        /\ torn' = torn \ (Ran \cup Vetoed)
        /\ marked' = marked \ Vetoed
        /\ Window = {}
    BY <1>4, ExecutedGrows DEF ExecBatch, Window
  <2>2. Ran \cap vetoed \subseteq exposed
    BY <2>1 DEF Ran, UpToFinish, Pending
  <2> QED
    BY <1>1, <2>1, <2>2 DEF Settled
<1>5. CASE Crash
  <2>1. /\ UNCHANGED <<executed, rejected, vetoed>>
        /\ failed' = failed \cup Interrupted
        /\ stranded' = CutOff
        /\ torn' = Lost
        /\ marked' = saved.marked
        /\ snap' = [r \in Reqs |-> {}]
        /\ exposed \subseteq exposed'
    BY <1>5, ExecutedSame DEF Crash, Lost, CutOff
  <2>2. Interrupted \cap Settled = {}
    BY DEF Interrupted, Unmatched
  <2>3. exposed \cup Window \subseteq marked' \cup exposed'
    <3>1. CASE task = "cancelled"
      <4>1. marked' = marked
        BY <2>1, <3>1 DEF AtRest, BaseState, InStep
      <4> QED
        BY <1>5, <3>1, <4>1 DEF Crash, Window
    <3>2. CASE task # "cancelled"
      BY <2>1, <3>2 DEF Window
    <3> QED
      BY <3>1, <3>2
  <2>4. /\ failed \cap Lost = {}
        /\ (rejected \cap Lost) \ executed
             \subseteq marked' \cup CutOff \cup exposed'
        /\ (vetoed \ CutOff) \ (Settled \ Lost) \subseteq marked' \cup exposed'
    BY <2>1, <2>3 DEF SafeIfCut
  <2> QED
    BY <2>1, <2>2, <2>4 DEF Settled, Lost
<1>6. ASSUME NEW r \in Reqs, RejectCommit(r)
      PROVE  SafeNow' /\ ReadFromBranch' /\ VetoHolds'
  <2>1. /\ UNCHANGED <<executed, failed, stranded, marked, vetoed, exposed>>
        /\ rejected' = rejected \cup snap[r]
        /\ torn' = torn \ snap[r]
    BY <1>6, ExecutedSame DEF RejectCommit
  <2>2. Window \ snap[r] \subseteq Window'
    BY <1>6, <2>1 DEF RejectCommit, Window, Pending, Settled, Raised
  <2> QED
    BY <1>1, <2>1, <2>2 DEF Settled
<1>7. ASSUME NEW r \in Reqs, Interrupt(r)
      PROVE  SafeNow' /\ ReadFromBranch' /\ VetoHolds'
  <2>1. UNCHANGED <<executed, Settled, Pending, rejected, failed, stranded,
                    torn, vetoed, exposed>>
    BY <1>7, ExecutedSame DEF Interrupt, Settled, Pending, Raised
  <2>2. Window = {}
    BY <1>7 DEF Interrupt, LoopFree, Window
  <2>3. marked \subseteq marked' \cup Window'
    <3>1. CASE task' = "cancelled"
      BY <1>7, <2>1, <3>1 DEF Interrupt, Window, Vetoed, UpToFinish, LogOK
    <3>2. CASE task' # "cancelled"
      BY <1>7, <3>2 DEF Interrupt
    <3> QED
      BY <3>1, <3>2
  <2> QED
    BY <1>1, <2>1, <2>2, <2>3
<1>8. CASE EmitOrphans
  <2>1. /\ UNCHANGED <<executed, rejected, stranded, marked, vetoed, exposed>>
        /\ failed' = failed \cup Pending
        /\ torn' = torn \ Pending
    BY <1>8, ExecutedSame DEF EmitOrphans
  <2>2. (vetoed \ stranded) \ (Settled \ torn) \subseteq Pending
    BY DEF Pending, LogOK
  <2>3. Window \subseteq Pending
    BY DEF Window
  <2> QED
    BY <1>1, <2>1, <2>2, <2>3 DEF Settled
<1> QED
  BY <1>2, <1>3, <1>4, <1>5, <1>6, <1>7, <1>8, NextLogs DEF Logs

\* The parts that do, inside an iteration, where nothing is saved.
LEMMA SafeInStep ==
  ASSUME TypeOK, GateInv, RestartInv, AtRest, Next, task' \in InStep
  PROVE  SafeIfCut' /\ StepKeeps'
<1> USE DEF RestartInv, SafeIfCut, SafeWith, StepKeeps, TypeOK
<1>0. saved' = saved
  BY NextSaves DEF Save
<1>1. /\ task \in InStep \cup {"top"}
      /\ task' = "llm" => task \in {"top", "llm"}
  BY NextTask
<1>9. Window = {} /\ Window' = {}
  BY <1>1 DEF Window, InStep
<1>2. CASE Quiet
  <2>1. /\ UNCHANGED <<executed, rejected, failed, torn, marked, vetoed,
                       exposed>>
        /\ Settled' = Settled /\ Lost' = Lost /\ CutOff' = CutOff
    BY <1>0, <1>2, ExecutedSame DEF Quiet, branchVars, Settled, Lost, CutOff,
       Raised
  <2>2. task = "top" => saved.marked = marked /\ saved.settled = Settled \ torn
    BY DEF AtRest, BaseState, InStep
  <2> QED
    BY <1>0, <1>1, <1>9, <2>1, <2>2 DEF InStep
<1>3. CASE EmitAction
  <2>1. /\ UNCHANGED <<executed, rejected, failed, stranded, torn, exposed>>
        /\ task = "emit" /\ task' = "emit"
        /\ nRaised' = nRaised + 1
    BY <1>3, ExecutedSame DEF EmitAction
  <2>2. PICK blocked \in SUBSET {nRaised + 1} :
          marked' = marked \cup blocked /\ vetoed' = vetoed \cup blocked
    BY <1>3 DEF EmitAction
  <2>3. nRaised + 1 \notin 1..saved.raised /\ nRaised \in Nat
    BY DEF LogOK, SavedOK
  <2>4. Settled' = Settled /\ Lost' = Lost
    BY <1>0, <2>1 DEF Settled, Lost
  <2>5. CutOff' = CutOff \cup {nRaised + 1}
    <3>1. 1..nRaised' = (1..nRaised) \cup {nRaised + 1}
      BY <2>1, <2>3
    <3> QED
      BY <1>0, <2>1, <2>3, <3>1 DEF CutOff, Raised
  <2>6. StepKeeps'
    BY <1>0, <2>1, <2>2, <2>3 DEF InStep
  <2>7. SafeIfCut'
    BY <1>0, <1>9, <2>1, <2>2, <2>4, <2>5
  <2> QED
    BY <2>6, <2>7
<1>4. CASE ExecBatch
  <2>1. /\ UNCHANGED <<nRaised, failed, stranded, vetoed, exposed>>
        /\ task = "exec" /\ task' = "flush"
        /\ executed' = executed \cup Ran
        /\ rejected' = rejected \cup Vetoed
        /\ marked' = marked \ Vetoed
    BY <1>4, ExecutedGrows DEF ExecBatch
  <2>2. CutOff' = CutOff
    BY <1>0, <2>1 DEF CutOff, Raised
  <2>3. Vetoed \subseteq saved.marked \cup CutOff
    BY <2>1 DEF Vetoed, UpToFinish, Pending, CutOff, InStep
  <2>4. Lost' = Lost \cup ((Ran \cup Vetoed) \ saved.settled)
    BY <1>0, <2>1 DEF Lost, Settled
  <2>5. Settled' \ Lost' = Settled \ Lost
    BY <1>0, <2>1 DEF Lost, Settled, SavedOK
  <2>6. failed \subseteq saved.settled
    BY DEF Lost, Settled
  <2>7. SafeIfCut'
    BY <1>0, <1>9, <2>1, <2>2, <2>3, <2>4, <2>5, <2>6
  <2> QED
    BY <1>0, <2>1, <2>7 DEF InStep
<1>5. ~Crash /\ ~EmitOrphans
  BY DEF Crash, EmitOrphans, InStep
<1>6. ASSUME NEW r \in Reqs, RejectCommit(r) PROVE SafeIfCut' /\ StepKeeps'
  <2>1. /\ UNCHANGED <<nRaised, executed, failed, stranded, marked, vetoed,
                       exposed, task>>
        /\ rejected' = rejected \cup snap[r]
        /\ torn' = torn \ snap[r]
    BY <1>6, ExecutedSame DEF RejectCommit
  <2>2. task = "llm"
    BY <1>6, <2>1 DEF RejectCommit, LockFree, InStep
  <2>3. snap[r] \subseteq saved.settled
    BY <2>2 DEF GateInv, OpenIsLetGo, Pending, ReadFromBranch, HandlerOK
  <2>4. Lost' = Lost /\ CutOff' = CutOff /\ Settled' \ Lost' = Settled \ Lost
    BY <1>0, <2>1, <2>3 DEF Lost, CutOff, Settled, Raised, SavedOK
  <2>5. SafeIfCut'
    BY <1>0, <1>9, <2>1, <2>3, <2>4 DEF Lost
  <2>6. StepKeeps'
    BY <1>0, <2>1, <2>2, <2>3 DEF Settled, InStep
  <2> QED
    BY <2>5, <2>6
<1>7. ASSUME NEW r \in Reqs, Interrupt(r) PROVE FALSE
  BY <1>7, <1>1 DEF Interrupt, InStep
<1> QED
  BY <1>2, <1>3, <1>4, <1>5, <1>6, <1>7, NextLogs DEF Logs

\* Every step of the server keeps the branch safe, and the one it would come
\* back with.
LEMMA RestartKept ==
  /\ TypeOK /\ TypeOK' /\ GateInv /\ AtRest /\ RestartInv /\ [Next]_serverVars
  => RestartInv'
<1>1. ASSUME TypeOK, TypeOK', GateInv, AtRest, RestartInv, Next
      PROVE  RestartInv'
  <2>1. SafeNow' /\ ReadFromBranch' /\ VetoHolds' /\ Cancellable'
    BY <1>1, SafeStep, WindowOnly DEF RestartInv
  <2>2. CASE task' \in InStep
    BY <1>1, <2>1, <2>2, SafeInStep DEF RestartInv
  <2>3. CASE task' \notin InStep
    <3>1. saved' = BaseState'
      BY <1>1, <2>3, NextSaves DEF Save
    <3>2. Lost' = torn' /\ CutOff' = stranded' /\ saved'.marked = marked'
      BY <1>1, <3>1 DEF BaseState, Lost, CutOff, Raised, TypeOK, LogOK
    <3>3. SafeIfCut'
      BY <2>1, <3>2 DEF SafeNow, SafeIfCut, SafeWith
    <3>4. StepKeeps'
      BY <2>3 DEF StepKeeps, InStep
    <3> QED
      BY <2>1, <3>3, <3>4 DEF RestartInv
  <2> QED
    BY <2>2, <2>3
<1>2. RestartInv /\ UNCHANGED serverVars => RestartInv'
  BY ExecutedSame DEF serverVars, logVars, branchVars, handlerVars, RestartInv,
     SafeNow, SafeIfCut, SafeWith, ReadFromBranch, StepKeeps, Cancellable,
     VetoHolds, Lost, CutOff, Window, Pending, Settled, Raised
<1> QED
  BY <1>1, <1>2

\* Wherever the server is cut, what it comes back with is safe.
LEMMA RestartInductive == Spec => []RestartInv
<1>1. Init => RestartInv /\ AtRest
  BY DEF Init, RestartInv, SafeNow, SafeIfCut, SafeWith, ReadFromBranch,
     StepKeeps, Cancellable, VetoHolds, Window, Pending, Raised, InStep,
     Settled, executed, AtRest
<1> QED
  BY <1>1, RestartKept, RestKept, TypeCorrect, HeldInductive, PTL DEF Spec

\* What a pre_tool_use hook has blocked runs only if a restart fell into the
\* window of a cancellation, which takes the mark off before it closes the
\* action.  Everywhere else the mark is saved with the head of the branch, so
\* they are lost together or not at all.
THEOREM VetoStands == Spec => []VetoHolds
BY RestartInductive, PTL DEF RestartInv
-----------------------------------------------------------------------------
\* What the server runs has no answer or has lost it in a restart, and a step
\* that is no restart takes no answer away.
RunsOnce ==
  \A a \in Actions :
    Runs(a) /\ a \in Settled => a \in torn \cap (executed \cup exposed)

AnswersStay == crashes' = crashes =>
                 (Pending \cap Settled)' \subseteq Pending \cap Settled

\* Every step of the server respects the answers there are.
LEMMA AnswersKept == TypeOK /\ RestartInv /\ Next => RunsOnce /\ AnswersStay
<1>1. ASSUME TypeOK, RestartInv, Next PROVE RunsOnce
  <2> USE <1>1
  <2>1. CASE ExecBatch
    <3>1. runs' = [a \in Actions |-> IF a \in Ran THEN runs[a] + 1 ELSE runs[a]]
      BY <2>1 DEF ExecBatch
    <3>2. Ran \subseteq Pending \ marked /\ Window = {}
      BY <2>1 DEF Ran, UpToFinish, ExecBatch, Window
    <3>3. Ran \cap Settled \subseteq torn \ stranded
      BY <3>2 DEF Pending
    <3>4. Ran \cap Settled \subseteq torn \cap (executed \cup exposed)
      BY <3>2, <3>3 DEF RestartInv, SafeNow, SafeWith, Settled
    <3>5. \A a \in Actions : Runs(a) => a \in Ran
      BY <3>1 DEF Runs, TypeOK, LogOK
    <3> QED
      BY <3>4, <3>5 DEF RunsOnce
  <2>2. CASE ~ExecBatch
    <3>1. runs' = runs
      BY <2>2, NextLogs DEF Quiet, Logs, EmitAction, EmitOrphans, Crash,
         RejectCommit, Interrupt
    <3> QED
      BY <3>1 DEF RunsOnce, Runs, TypeOK, LogOK
  <2> QED
    BY <2>1, <2>2
<1>2. ASSUME TypeOK, Next PROVE AnswersStay
  <2> USE <1>2 DEF TypeOK, LogOK, AnswersStay
  <2>1. CASE Crash
    BY <2>1 DEF Crash, RunOK
  <2>2. CASE ~Crash
    <3>1. stranded' = stranded /\ torn' \subseteq torn
      BY <2>2, NextLogs DEF Quiet, branchVars, Logs, EmitAction, ExecBatch,
         EmitOrphans, RejectCommit, Interrupt
    <3> QED
      BY <3>1 DEF Pending, Settled
  <2> QED
    BY <2>1, <2>2
<1> QED
  BY <1>1, <1>2

\* An answered action runs only if a restart has cut its answer off the branch,
\* and then only what had run already or what the window of a cancellation has
\* exposed; and only a restart loses an answer.
THEOREM AnsweredStaysAnswered == Spec => NeverRunAgain
<1>1. TypeOK /\ RestartInv /\ [Next]_serverVars
      => [RunsOnce /\ AnswersStay]_serverVars
  BY AnswersKept
<1> QED
  BY <1>1, TypeCorrect, RestartInductive, PTL
     DEF Spec, NeverRunAgain, RunsOnce, AnswersStay
-----------------------------------------------------------------------------
\* The server implements the abstract gate: every step of a handler, of the run
\* loop or of a restart raises an action, holds, releases or settles some,
\* loses answers with a life of the server, or leaves the gate alone.
THEOREM GateRefined == Spec => GateSpec
<1>1. Init => Gate!Init
  BY DEF Init, Gate!Init, Raised, Settled, executed
<1>2. ASSUME TypeOK, GateInv, Next
      PROVE  [Gate!Next]_(Gate!gateVars)
  <2> USE <1>2 DEF TypeOK, LogOK
  <2> DEFINE Ans == Settled \ torn
  <2>1. UNCHANGED <<nRaised, gated, resumed, runs, Ans, crashes>>
          => UNCHANGED Gate!gateVars
    BY DEF Gate!gateVars, Raised
  <2>2. ASSUME NEW B \in SUBSET Raised,
               UNCHANGED <<nRaised, gated, resumed, runs, crashes>>,
               Ans' = Ans \cup B
        PROVE  Gate!Next
    <3>1. runs' = [a \in Actions |-> IF a \in {} THEN runs[a] + 1 ELSE runs[a]]
      BY <2>2
    <3>2. {} \in SUBSET Gate!Open /\ {} \cap gated \subseteq resumed
      OBVIOUS
    <3>3. Ans' = Ans \cup {} \cup B
      BY <2>2
    <3>4. Gate!Settle
      BY <2>2, <3>1, <3>2, <3>3 DEF Gate!Settle, Raised
    <3> QED
      BY <3>4 DEF Gate!Next
  <2>3. CASE EmitAction
    <3>1. /\ nRaised + 1 \in Actions \ Raised
          /\ Raised' = Raised \cup {nRaised + 1}
      BY <2>3, ServerAssumption DEF EmitAction, Raised, Actions,
         ServerAssumption
    <3>2. UNCHANGED <<gated, resumed, runs, Ans, crashes>>
      BY <2>3, ExecutedSame DEF EmitAction, Untouched, life, Settled
    <3>3. Gate!Raise
      BY <3>1, <3>2 DEF Gate!Raise
    <3> QED
      BY <3>3 DEF Gate!Next
  <2>4. CASE ExecBatch
    <3>1. /\ UNCHANGED <<nRaised, gated, resumed, failed, crashes>>
          /\ runs' = [a \in Actions |->
                        IF a \in Ran THEN runs[a] + 1 ELSE runs[a]]
          /\ executed' = executed \cup Ran
          /\ rejected' = rejected \cup Vetoed
          /\ torn' = torn \ (Ran \cup Vetoed)
      BY <2>4, ExecutedGrows DEF ExecBatch, Untouched, life
    <3>2. Ran \subseteq Pending /\ Vetoed \subseteq Pending
      BY DEF Ran, Vetoed, UpToFinish
    <3>3. Ran \in SUBSET Gate!Open /\ Vetoed \in SUBSET Raised
      BY <3>2 DEF Pending, Gate!Open
    <3>4. Ran \cap gated \subseteq resumed
      BY <2>4, <3>2 DEF ExecBatch, GateInv, OpenIsLetGo
    <3>5. Ans' = Ans \cup Ran \cup Vetoed
      BY <3>1 DEF Settled
    <3>6. Gate!Settle
      BY <3>1, <3>3, <3>4, <3>5 DEF Gate!Settle, Raised
    <3> QED
      BY <3>6 DEF Gate!Next
  <2>5. CASE Crash
    <3>1. UNCHANGED <<nRaised, gated, resumed, runs>> /\ crashes' = crashes + 1
      BY <2>5 DEF Crash
    <3>2. Ans' \in SUBSET Raised
      BY LogTypes, <3>1 DEF Settled, Raised
    <3>3. Gate!Restart
      BY <3>1, <3>2 DEF Gate!Restart, Raised
    <3> QED
      BY <3>3 DEF Gate!Next
  <2>6. ASSUME NEW r \in Reqs, RejectCommit(r) PROVE Gate!Next
    <3>1. /\ UNCHANGED <<nRaised, gated, resumed, runs, executed, failed,
                         crashes>>
          /\ rejected' = rejected \cup snap[r]
          /\ torn' = torn \ snap[r]
      BY <2>6, ExecutedSame DEF RejectCommit, life
    <3>2. snap[r] \in SUBSET Raised
      BY DEF HandlerOK
    <3>3. Ans' = Ans \cup snap[r]
      BY <3>1 DEF Settled
    <3> QED
      BY <2>2, <3>1, <3>2, <3>3
  <2>7. ASSUME NEW r \in Reqs, Interrupt(r)
        PROVE  UNCHANGED Gate!gateVars
    <3>1. UNCHANGED <<nRaised, gated, resumed, runs, executed, rejected, failed,
                      torn, crashes>>
      BY <2>7, ExecutedSame DEF Interrupt, life
    <3>2. Ans' = Ans
      BY <3>1 DEF Settled
    <3> QED
      BY <2>1, <3>1, <3>2
  <2>8. CASE EmitOrphans
    <3>1. /\ UNCHANGED <<nRaised, gated, resumed, runs, executed, rejected,
                         crashes>>
          /\ failed' = failed \cup Pending
          /\ torn' = torn \ Pending
      BY <2>8, ExecutedSame DEF EmitOrphans, Untouched, life
    <3>2. Pending \in SUBSET Raised
      BY DEF Pending
    <3>3. Ans' = Ans \cup Pending
      BY <3>1 DEF Settled
    <3> QED
      BY <2>2, <3>1, <3>2, <3>3
  <2>9. CASE Quiet /\ ~Crash
    <3>1. UNCHANGED <<nRaised, runs, Ans>>
      BY <2>9, ExecutedSame DEF Quiet, branchVars, Settled
    <3>2. crashes' = crashes
      BY <2>9, NextLives
    <3>3. Pending \in SUBSET Gate!Open
      BY DEF Pending, Gate!Open
    <3>4. gated' \in {gated, gated \cup Pending}
          /\ resumed' \in {resumed, resumed \cup Pending}
      BY NextLogs
    <3>5. gated' = gated \/ resumed' = resumed
      <4>1. Decide => resumed' = resumed
        BY DEF Decide, Untouched
      <4> QED
        BY <4>1, NextLogs
    <3>6. CASE gated' = gated /\ resumed' = resumed
      BY <2>1, <3>1, <3>2, <3>6
    <3>7. CASE gated' # gated
      <4>1. Gate!Hold
        BY <3>1, <3>2, <3>3, <3>4, <3>5, <3>7 DEF Gate!Hold, Raised
      <4> QED
        BY <4>1 DEF Gate!Next
    <3>8. CASE resumed' # resumed
      <4>1. Gate!Release
        BY <3>1, <3>2, <3>3, <3>4, <3>5, <3>8 DEF Gate!Release, Raised
      <4> QED
        BY <4>1 DEF Gate!Next
    <3> QED
      BY <3>6, <3>7, <3>8
  <2> QED
    BY <2>3, <2>4, <2>5, <2>6, <2>7, <2>8, <2>9, NextLogs DEF Logs
<1>3. UNCHANGED serverVars => UNCHANGED Gate!gateVars
  BY ExecutedSame DEF serverVars, logVars, branchVars, life, Gate!gateVars,
     Raised, Settled
<1>4. TypeOK /\ GateInv /\ [Next]_serverVars => [Gate!Next]_(Gate!gateVars)
  BY <1>2, <1>3
<1> QED
  BY <1>1, <1>4, TypeCorrect, HeldInductive, PTL DEF Spec, GateSpec, Gate!Spec
-----------------------------------------------------------------------------
\* An action without an answer has run at most as often as the server was
\* restarted, one with an answer at most once more.
LivesInv ==
  /\ runs \in [Actions -> Nat]
  /\ crashes \in Nat
  /\ \A a \in Actions :
       /\ runs[a] <= 1 + crashes
       /\ a \notin Settled \ torn => runs[a] <= crashes

\* Every step of the abstract gate keeps that count.
LEMMA LivesKept == LivesInv /\ [Gate!Next]_(Gate!gateVars) => LivesInv'
<1> DEFINE Ans == Settled \ torn
<1> SUFFICES ASSUME LivesInv, [Gate!Next]_(Gate!gateVars) PROVE LivesInv'
  OBVIOUS
<1>1. CASE Gate!Settle
  <2>1. PICK S \in SUBSET Gate!Open, B \in SUBSET Raised :
          /\ runs' = [a \in Actions |->
                        IF a \in S THEN runs[a] + 1 ELSE runs[a]]
          /\ Ans' = Ans \cup S \cup B
    BY <1>1 DEF Gate!Settle
  <2>2. crashes' = crashes /\ S \cap Ans = {}
    BY <1>1, <2>1 DEF Gate!Settle, Gate!Open
  <2> HIDE DEF Ans
  <2>3. ASSUME NEW a \in Actions
        PROVE  /\ runs'[a] <= 1 + crashes'
               /\ a \notin Ans' => runs'[a] <= crashes'
    BY <2>1, <2>2, <2>3 DEF LivesInv, Ans
  <2> QED
    BY <2>1, <2>2, <2>3 DEF LivesInv, Ans
<1>2. CASE Gate!Restart
  <2>1. runs' = runs /\ crashes' = crashes + 1
    BY <1>2 DEF Gate!Restart
  <2> QED
    BY <2>1 DEF LivesInv
<1>3. CASE UNCHANGED <<runs, Ans, crashes>>
  BY <1>3 DEF LivesInv
<1> QED
  BY <1>1, <1>2, <1>3 DEF Gate!Next, Gate!Raise, Gate!Hold, Gate!Release,
     Gate!gateVars

\* No action runs twice in one life of the server: each run but the first
\* needs a restart that lost the answer of the one before.
THEOREM RunOnceALife == Spec => []Gate!OnceALife
<1>1. Init => LivesInv
  BY DEF Init, LivesInv, Settled, executed
<1>2. LivesInv => Gate!OnceALife
  BY DEF LivesInv, Gate!OnceALife
<1> QED
  BY <1>1, <1>2, LivesKept, GateRefined, PTL DEF Spec, GateSpec, Gate!Spec
=============================================================================
