---------------------------- MODULE AgentServer ----------------------------
(***************************************************************************)
(* One conversation of the pinned agent-server 1.41.0, as the GUI meets it *)
(* over HTTP: the run task of EventService (event_service.py), the run     *)
(* loop and the confirmation gate of LocalConversation and Agent           *)
(* (local_conversation.py, agent.py), and the request handlers the GUI     *)
(* calls.  Each member of Reqs is one HTTP request, handled once.          *)
(*                                                                         *)
(* The event log is kept as what the authorization plane reads from it:    *)
(* action ids are 1..nRaised in log order; runs counts how often the tool  *)
(* of an action ran, with an observation or the error it ended in,         *)
(* rejected are the actions with a UserRejectObservation, and failed those *)
(* that got an error instead of running.                                   *)
(*                                                                         *)
(* Events are on disk as soon as they are appended, the base state (status,*)
(* policy, the head of the active branch, the marks of the hooks) only when*)
(* the with-block of the state ends, which for the run loop is the end of  *)
(* an iteration.  A restart takes up the base state that was saved, so the *)
(* events of an iteration it cut short are in the log and off the branch.  *)
(***************************************************************************)
EXTENDS Naturals, FiniteSets

CONSTANTS
  Reqs,          \* requests a client may issue, each at most once
  MaxActions,    \* bound: actions raised in a behaviour
  MaxBatch,      \* bound: tool calls in one LLM reply
  MaxIter,       \* max_iteration_per_run
  MaxCrashes,    \* bound: server restarts
  HookInstalled, \* a pre_tool_use hook is configured
  Policies,      \* confirmation policies
  NoConfirm      \* those that confirm nothing; the rest confirm UNKNOWN

ASSUME ServerAssumption ==
  /\ MaxActions \in Nat
  /\ MaxBatch \in Nat
  /\ MaxIter \in Nat \ {0}
  /\ MaxCrashes \in Nat
  /\ HookInstalled \in BOOLEAN
  /\ NoConfirm \subseteq Policies

VARIABLES
  status,   \* ConversationState.execution_status
  task,     \* where _run_task is; "none" when there is no run task
  iter,     \* iteration counter of the current arun()
  policy,   \* ConversationState.confirmation_policy
  stored,   \* EventService.stored.confirmation_policy
  nRaised,  \* number of ActionEvents in the log
  finishes, \* those whose tool is FinishTool
  gated,    \* those raised in a batch that required confirmation
  runs,     \* how often the tool of each action ran
  rejected, \* those with a UserRejectObservation
  failed,   \* those with an AgentErrorEvent in place of a run
  stranded, \* actions in the log that are not on the active branch
  torn,     \* answered actions whose answer is not on the active branch
  marked,   \* ConversationState.blocked_actions
  vetoed,   \* actions a hook has ever blocked (history)
  exposed,  \* those a restart has left open without a mark (history)
  resumed,  \* those open when a run was started for a client (history)
  unread,   \* a user message was appended since the last LLM call began
  rerun,    \* EventService._rerun_requested
  ended,    \* run tasks that have ended and still publish the final state
  owed,     \* those that have taken a re-run request and not honoured it
  fresh,    \* sends that saw no pause or interrupt since they began
  snap,     \* pending actions a reject handler has read
  hnd,      \* progress of each request handler
  saved,    \* base_state.json
  crashes

branchVars == <<stranded, torn, marked, vetoed, exposed>>
logVars == <<nRaised, finishes, gated, runs, rejected, failed, branchVars>>
tails == <<ended, owed>>
handlerVars == <<rerun, tails, fresh, snap, hnd>>
life == <<stored, crashes>>
serverVars == <<status, task, iter, policy, logVars, resumed, unread,
                handlerVars, saved, life>>

Statuses == {"absent", "idle", "running", "waiting", "paused", "finished",
             "error", "stuck"}
TaskPcs == {"none", "start", "top", "llm", "emit", "exec", "flush",
            "cancelled", "tail"}
HandlerPcs == {"new", "begun", "appended", "refused", "snapped", "pausing",
               "done"}
Actions == 1..MaxActions
Raised == 1..nRaised

executed == {a \in Actions : runs[a] > 0}
Settled == executed \cup rejected \cup failed

\* ConversationState.get_unmatched_actions over the log.
Unmatched == Raised \ Settled

\* Mutant: an AgentErrorEvent does not answer its action.
PendingDespiteError ==
  (Raised \ stranded) \ ((executed \cup rejected) \ torn)

\* The same over the active branch, which is what the run loop acts on.
Pending == (Raised \ stranded) \ (Settled \ torn)

\* Mutant: the lock is kept while the conversation waits for confirmation.
LockKeptWhileWaiting ==
  task \notin {"emit", "exec", "flush"} /\ status # "waiting"

\* The run loop holds the state lock while it emits and executes a batch and
\* releases it between iterations and during the LLM call.
LockFree == task \notin {"emit", "exec", "flush"}

\* A cancelled arun() gives up the lock and asks for it again without giving up
\* the event loop: worker threads may act meanwhile, coroutines may not.
LoopFree == task # "cancelled"

\* A with-block of the state is open, so no assignment is saved: neither the
\* loop's own nor those of a handler that is let in during the LLM call.
InStep == {"llm", "emit", "exec", "flush"}

BaseState ==
  [status |-> status, raised |-> nRaised, settled |-> Settled \ torn,
   marked |-> marked, unread |-> unread]

\* Mutant: every assignment is saved at once, but for the head.
SaveFields ==
  saved' = IF task' \in InStep
           THEN [saved EXCEPT !.status = status', !.marked = marked']
           ELSE BaseState'

Save == saved' = IF task' \in InStep THEN saved ELSE BaseState'
-----------------------------------------------------------------------------
Init ==
  /\ status = "absent"
  /\ task = "none"
  /\ iter = 0
  /\ policy \in NoConfirm
  /\ stored = policy
  /\ nRaised = 0
  /\ finishes = {}
  /\ gated = {}
  /\ runs = [a \in Actions |-> 0]
  /\ rejected = {}
  /\ failed = {}
  /\ stranded = {}
  /\ torn = {}
  /\ marked = {}
  /\ vetoed = {}
  /\ exposed = {}
  /\ resumed = {}
  /\ unread = FALSE
  /\ rerun = FALSE
  /\ ended = 0
  /\ owed = 0
  /\ fresh = {}
  /\ snap = [r \in Reqs |-> {}]
  /\ hnd = [r \in Reqs |-> "new"]
  /\ saved = BaseState
  /\ crashes = 0

\* A run task is created.  The loop executes whatever is pending, so a client
\* that starts a run lets every pending action go.
StartRun ==
  /\ task' = "start"
  /\ iter' = 0
  /\ resumed' = resumed \cup Pending

\* POST /conversations.  The server appends the initial message and runs it,
\* whatever the run field of the message says, before it answers.
Create(p) ==
  /\ status = "absent"
  /\ status' = "idle"
  /\ policy' = p
  /\ stored' = p
  /\ unread' = TRUE
  /\ StartRun
  /\ UNCHANGED <<logVars, handlerVars, crashes>>
-----------------------------------------------------------------------------
(***************************************************************************)
(* Request handlers.                                                       *)
(***************************************************************************)
Arrive(r) == hnd[r] = "new" /\ status # "absent"
Answered(r) == hnd' = [hnd EXCEPT ![r] = "done"]

\* EventService.run() refuses while the status is running, and while a run
\* task exists, the one that is only publishing its last events included.
CanRun == status # "running" /\ task = "none"

\* POST /run, and POST /respond_to_confirmation with accept = true, which
\* runs and takes a refusal for success.
Run(r) ==
  /\ Arrive(r)
  /\ LockFree /\ LoopFree
  /\ Answered(r)
  /\ \/ CanRun /\ StartRun
     \/ ~CanRun /\ UNCHANGED <<task, iter, resumed>>
  /\ UNCHANGED <<status, policy, logVars, unread, rerun, fresh, tails, snap,
                 life>>

\* POST /events with run = true.  The handler remembers the interrupt
\* generation, appends the message, and only then asks for a run.
SendBegin(r) ==
  /\ Arrive(r)
  /\ LoopFree
  /\ hnd' = [hnd EXCEPT ![r] = "begun"]
  /\ fresh' = fresh \cup {r}
  /\ UNCHANGED <<status, task, iter, policy, logVars, resumed, unread, rerun,
                 tails, snap, life>>

SendAppend(r) ==
  /\ hnd[r] = "begun"
  /\ LockFree
  /\ hnd' = [hnd EXCEPT ![r] = "appended"]
  /\ status' = IF status \in {"finished", "stuck"} THEN "idle" ELSE status
  /\ unread' = TRUE
  /\ UNCHANGED <<task, iter, policy, logVars, resumed, rerun, fresh, tails,
                 snap, life>>

\* An interrupt or pause since the handler began cancels its run.  A run that
\* is refused for the status leaves the handler with an exception to handle;
\* one refused for the task arms the re-run at once.
SendRun(r) ==
  /\ hnd[r] = "appended"
  /\ LockFree /\ LoopFree
  /\ hnd' = [hnd EXCEPT ![r] =
               IF r \in fresh /\ status = "running" THEN "refused" ELSE "done"]
  /\ \/ r \in fresh /\ CanRun /\ StartRun
     \/ (r \notin fresh \/ ~CanRun) /\ UNCHANGED <<task, iter, resumed>>
  /\ rerun' = (rerun \/ (r \in fresh /\ status # "running" /\ task # "none"))
  /\ UNCHANGED <<status, policy, logVars, unread, fresh, tails, snap, life>>

SendArm(r) ==
  /\ hnd[r] = "refused"
  /\ LoopFree
  /\ Answered(r)
  /\ rerun' = TRUE
  /\ UNCHANGED <<status, task, iter, policy, logVars, resumed, unread, fresh,
                 tails, snap, life>>

\* reject_pending_actions reads the unmatched actions before it takes the
\* state lock.
RejectRead(r) ==
  /\ Arrive(r)
  /\ hnd' = [hnd EXCEPT ![r] = "snapped"]
  /\ snap' = [snap EXCEPT ![r] = Pending]
  /\ UNCHANGED <<status, task, iter, policy, logVars, resumed, unread, rerun,
                 fresh, tails, life>>

\* Mutant: rejecting does not end the waiting.
StillWaiting == status

StatusOnReject == IF status = "waiting" THEN "idle" ELSE status

RejectCommit(r) ==
  /\ hnd[r] = "snapped"
  /\ LockFree
  /\ Answered(r)
  /\ status' = StatusOnReject
  /\ rejected' = rejected \cup snap[r]
  /\ torn' = torn \ snap[r]
  /\ snap' = [snap EXCEPT ![r] = {}]
  /\ UNCHANGED <<task, iter, policy, nRaised, finishes, gated, runs, failed,
                 stranded, marked, vetoed, exposed, resumed, unread, rerun,
                 fresh, tails, life>>

SetPolicy(r, p) ==
  /\ Arrive(r)
  /\ LockFree
  /\ Answered(r)
  /\ policy' = p
  /\ UNCHANGED <<status, task, iter, logVars, resumed, unread, rerun, fresh,
                 tails, snap, life>>

\* An explicit pause or interrupt outranks every run that was asked for before.
StopIntent == rerun' = FALSE /\ owed' = 0 /\ fresh' = {}

\* LocalConversation.pause: only an idle or running conversation is paused.
PauseEffect ==
  status' = IF status \in {"idle", "running"} THEN "paused" ELSE status

\* POST /pause states its intent at once and then waits for the state lock.
PauseBegin(r) ==
  /\ Arrive(r)
  /\ LoopFree
  /\ hnd' = [hnd EXCEPT ![r] = "pausing"]
  /\ StopIntent
  /\ UNCHANGED <<status, task, iter, policy, logVars, resumed, unread, ended,
                 snap, life>>

PauseCommit(r) ==
  /\ hnd[r] = "pausing"
  /\ LockFree \/ status = "paused"
  /\ Answered(r)
  /\ PauseEffect
  /\ UNCHANGED <<task, iter, policy, logVars, resumed, unread, rerun, fresh,
                 tails, snap, life>>

\* The calls after a FinishTool are discarded without an event.
UpToFinish(S) == {a \in S : \A f \in S \cap finishes : a <= f}

\* _ActionBatch.aprepare takes the marks off the calls it will not run.
Vetoed == UpToFinish(Pending) \cap marked

\* POST /interrupt.  Inside the loop the task is cancelled, which ends the
\* with-block of the step: what the step did to the base state is saved, the
\* marks aprepare took off included.  Before the loop the task ends and nothing
\* else changes; with no arun() to cancel the request falls back to pause.
Interrupt(r) ==
  /\ Arrive(r)
  /\ LoopFree
  /\ Answered(r)
  /\ StopIntent
  /\ \/ /\ task \in {"llm", "exec"}
        /\ task' = "cancelled"
        /\ marked' = marked \ Vetoed
        /\ UNCHANGED status
     \/ /\ task = "start"
        /\ task' = "tail"
        /\ UNCHANGED <<status, marked>>
     \/ /\ task \in {"none", "start", "tail"}
        /\ PauseEffect
        /\ UNCHANGED <<task, marked>>
  /\ UNCHANGED <<iter, policy, nRaised, finishes, gated, runs, rejected, failed,
                 stranded, torn, vetoed, exposed, resumed, unread, ended, snap,
                 life>>
-----------------------------------------------------------------------------
(***************************************************************************)
(* The run task: LocalConversation.arun, Agent.astep and the tail of       *)
(* EventService.run.                                                       *)
(***************************************************************************)
Untouched == UNCHANGED <<policy, handlerVars, life, resumed>>

ArunStart ==
  /\ task = "start"
  /\ task' = "top"
  /\ status' = IF status \in {"idle", "paused", "error", "stuck"}
               THEN "running" ELSE status
  /\ UNCHANGED <<iter, logVars, unread>> /\ Untouched

\* The agent failed to initialise; the backstop of EventService marks it.
ArunStartFails ==
  /\ task = "start"
  /\ task' = "tail"
  /\ status' = "error"
  /\ UNCHANGED <<iter, logVars, unread>> /\ Untouched

LoopBreak ==
  /\ task = "top"
  /\ status \in {"paused", "stuck", "finished"}
  /\ task' = "tail"
  /\ UNCHANGED <<status, iter, logVars, unread>> /\ Untouched

LoopStuck ==
  /\ task = "top"
  /\ status \notin {"paused", "stuck", "finished"}
  /\ status' = "stuck"
  /\ UNCHANGED <<task, iter, logVars, unread>> /\ Untouched

\* Implicit confirmation: whatever is pending at the top of an iteration is
\* executed; only a conversation with nothing pending asks the LLM.
LoopStep ==
  /\ task = "top"
  /\ status \notin {"paused", "stuck", "finished"}
  /\ status' = IF status = "waiting" THEN "running" ELSE status
  /\ \/ Pending # {} /\ task' = "exec" /\ UNCHANGED unread
     \/ Pending = {} /\ task' = "llm" /\ unread' = FALSE
  /\ UNCHANGED <<iter, logVars>> /\ Untouched

\* Mutant: the iteration is not counted.
EndStepUncounted(s) ==
  /\ UNCHANGED iter
  /\ status' = s
  /\ task' = "top"

\* The end of an iteration that leaves the status at s.  The GUI sets no budget
\* and no stop hook, so an iteration ends a run only at the limit.
EndStep(s) ==
  /\ iter' = iter + 1
  /\ \/ /\ iter + 1 < MaxIter
        /\ status' = s
        /\ task' = "top"
     \/ /\ iter + 1 >= MaxIter
        /\ status' = IF s = "finished" THEN s ELSE "error"
        /\ task' = "tail"

LlmError ==
  /\ task = "llm"
  /\ status' = "error"
  /\ task' = "tail"
  /\ UNCHANGED <<iter, logVars, unread>> /\ Untouched

\* A text answer finishes the conversation; anything else that is not a tool
\* call (no content, a condensation, a corrective message) only continues.
LlmAnswer ==
  /\ task = "llm"
  /\ \E s \in {"finished", status} : EndStep(s)
  /\ UNCHANGED <<logVars, unread>> /\ Untouched

LlmToolCalls ==
  /\ task = "llm"
  /\ task' = "emit"
  /\ UNCHANGED <<status, iter, logVars, unread>> /\ Untouched

\* One ActionEvent of the batch; a malformed call leaves none.  The hooks are
\* run before the event is appended and may mark the action as blocked.
EmitAction ==
  /\ task = "emit"
  /\ nRaised < MaxActions
  /\ Cardinality(Pending) < MaxBatch
  /\ nRaised' = nRaised + 1
  /\ finishes' \in {finishes, finishes \cup {nRaised + 1}}
  /\ \E blocked \in {{}} \cup (IF HookInstalled THEN {{nRaised + 1}} ELSE {}) :
       /\ marked' = marked \cup blocked
       /\ vetoed' = vetoed \cup blocked
  /\ UNCHANGED <<status, task, iter, gated, runs, rejected, failed, stranded,
                 torn, exposed, unread>>
  /\ Untouched

\* Agent._requires_user_confirmation: no analyzer is registered, so every risk
\* is UNKNOWN.  A batch that is a single FinishAction or ThinkAction is never
\* confirmed; whether its action thinks matters nowhere else.
RequiresConfirmation(thinks) ==
  /\ Pending # {}
  /\ ~(Cardinality(Pending) = 1 /\ (thinks \/ Pending \subseteq finishes))
  /\ policy \notin NoConfirm

\* Mutant: the loop does not break when the step left it waiting.
HoldAndGoOn(thinks) ==
  /\ RequiresConfirmation(thinks)
  /\ status' = "waiting"
  /\ task' = "top"
  /\ gated' = gated \cup Pending
  /\ iter' = iter + 1

HoldBatch(thinks) ==
  /\ RequiresConfirmation(thinks)
  /\ status' = "waiting"
  /\ task' = "tail"
  /\ gated' = gated \cup Pending
  /\ iter' = iter + 1

\* Once the batch is complete it is held, executed or, if every call of it was
\* malformed, over.
Decide ==
  /\ task = "emit"
  /\ \E thinks \in BOOLEAN :
       \/ HoldBatch(thinks)
       \/ /\ ~RequiresConfirmation(thinks) /\ Pending # {}
          /\ task' = "exec"
          /\ UNCHANGED <<status, gated, iter>>
       \/ /\ Pending = {}
          /\ EndStep(status)
          /\ UNCHANGED gated
  /\ UNCHANGED <<nRaised, finishes, runs, rejected, failed, branchVars,
                 unread>>
  /\ Untouched

Ran == UpToFinish(Pending) \ marked

\* Every call of the batch returns an event, a blocked one its rejection; what
\* the batch did to the base state is saved when the iteration ends.
ExecBatch ==
  /\ task = "exec"
  /\ task' = "flush"
  /\ runs' = [a \in Actions |-> IF a \in Ran THEN runs[a] + 1 ELSE runs[a]]
  /\ rejected' = rejected \cup Vetoed
  /\ torn' = torn \ (Ran \cup Vetoed)
  /\ marked' = marked \ Vetoed
  /\ status' = IF Ran \cap finishes # {} THEN "finished" ELSE status
  /\ UNCHANGED <<iter, nRaised, finishes, gated, failed, stranded, vetoed,
                 exposed, unread>>
  /\ Untouched

Flush ==
  /\ task = "flush"
  /\ EndStep(status)
  /\ UNCHANGED <<logVars, unread>> /\ Untouched

\* The second with-block of a cancelled arun(): every action that is open then
\* gets an error.
EmitOrphans ==
  /\ task = "cancelled"
  /\ task' = "tail"
  /\ status' = "paused"
  /\ failed' = failed \cup Pending
  /\ torn' = torn \ Pending
  /\ UNCHANGED <<iter, nRaised, finishes, gated, runs, rejected, stranded,
                 marked, vetoed, exposed, unread>>
  /\ Untouched

\* The task clears itself and publishes the final state, ...
TailEnds ==
  /\ task = "tail"
  /\ task' = "none"
  /\ iter' = 0
  /\ ended' = ended + 1
  /\ UNCHANGED <<status, policy, logVars, resumed, unread, rerun, owed, fresh,
                 snap, hnd, life>>

\* ... and only then takes the re-run request, whichever run it was made for.
TakeRerun ==
  /\ ended > 0
  /\ LoopFree
  /\ ended' = ended - 1
  /\ rerun' = FALSE
  /\ owed' = IF rerun THEN owed + 1 ELSE owed
  /\ UNCHANGED <<status, task, iter, policy, logVars, resumed, unread, fresh,
                 snap, hnd, life>>

\* Mutant: the end of a run task restarts it without being asked.
RearmUnasked ==
  /\ LockFree
  /\ owed' = owed - 1
  /\ UNCHANGED <<status, task, iter, policy, logVars, resumed, unread, rerun,
                 ended, fresh, snap, hnd, life>>

\* It honours the request only in an idle conversation; if another client has
\* started a run meanwhile, the request is armed again for that run.
Rearm ==
  /\ owed > 0
  /\ LockFree /\ LoopFree
  /\ owed' = owed - 1
  /\ \/ status = "idle" /\ CanRun /\ StartRun /\ UNCHANGED rerun
     \/ status = "idle" /\ ~CanRun /\ rerun' = TRUE
        /\ UNCHANGED <<task, iter, resumed>>
     \/ status # "idle" /\ UNCHANGED <<task, iter, resumed, rerun>>
  /\ UNCHANGED <<status, policy, logVars, unread, ended, fresh, snap, hnd,
                 life>>

\* A restart: handlers die and the base state comes back as it was saved, but
\* for the policy, which is the one the conversation was created with.  If the
\* conversation was running, the first action the whole log leaves open gets an
\* error, appended to the branch that came back.
Interrupted ==
  IF saved.status = "running"
  THEN {a \in Unmatched : \A b \in Unmatched : a <= b} ELSE {}

Crash ==
  /\ crashes < MaxCrashes
  /\ status # "absent"
  /\ crashes' = crashes + 1
  /\ task' = "none"
  /\ iter' = 0
  /\ rerun' = FALSE
  /\ ended' = 0
  /\ owed' = 0
  /\ fresh' = {}
  /\ snap' = [r \in Reqs |-> {}]
  /\ hnd' = [r \in Reqs |-> IF hnd[r] = "new" THEN "new" ELSE "done"]
  /\ status' = IF saved.status = "running" THEN "error" ELSE saved.status
  /\ policy' = stored
  /\ unread' = saved.unread
  /\ marked' = saved.marked
  /\ stranded' = stranded \cup (Raised \ (1..saved.raised))
  /\ torn' = Settled \ saved.settled
  /\ failed' = failed \cup Interrupted
  /\ exposed' = IF task = "cancelled"
                THEN exposed \cup ((Pending \cap vetoed) \ marked) ELSE exposed
  /\ UNCHANGED <<nRaised, finishes, gated, runs, rejected, vetoed, resumed,
                 stored>>
-----------------------------------------------------------------------------
RunTask ==
  \/ ArunStart \/ ArunStartFails \/ LoopBreak \/ LoopStuck \/ LoopStep
  \/ LlmError \/ LlmAnswer \/ LlmToolCalls \/ EmitAction \/ Decide \/ ExecBatch
  \/ Flush \/ EmitOrphans \/ TailEnds \/ TakeRerun \/ Rearm

ServerStep == RunTask /\ Save

\* Steps a handler takes on its own once its request has arrived.
HandlerStep(r) ==
  /\ \/ SendAppend(r) \/ SendRun(r) \/ SendArm(r) \/ RejectCommit(r)
     \/ PauseCommit(r)
  /\ Save

Request(r) ==
  \/ Run(r) \/ SendBegin(r) \/ RejectRead(r) \/ PauseBegin(r) \/ Interrupt(r)
  \/ \E p \in Policies : SetPolicy(r, p)

Next ==
  \/ (\E p \in Policies : Create(p)) /\ Save
  \/ \E r \in Reqs : (Request(r) /\ Save) \/ HandlerStep(r)
  \/ ServerStep
  \/ Crash /\ Save

Spec == Init /\ [][Next]_serverVars

\* The event loop and the worker threads run; no client and no crash is owed.
FairSpec ==
  /\ Spec
  /\ WF_serverVars(ServerStep)
  /\ \A r \in Reqs : WF_serverVars(HandlerStep(r))
-----------------------------------------------------------------------------
RunOK ==
  /\ status \in Statuses
  /\ task \in TaskPcs
  /\ iter \in Nat
  /\ policy \in Policies
  /\ stored \in Policies
  /\ crashes \in 0..MaxCrashes

LogOK ==
  /\ nRaised \in 0..MaxActions
  /\ finishes \subseteq Raised
  /\ gated \subseteq Raised
  /\ runs \in [Actions -> Nat]
  /\ executed \subseteq Raised
  /\ rejected \subseteq Raised
  /\ failed \subseteq Raised
  /\ stranded \subseteq Raised
  /\ torn \subseteq Settled
  /\ marked \subseteq vetoed
  /\ vetoed \subseteq Raised
  /\ exposed \subseteq vetoed
  /\ resumed \subseteq Raised

SavedOK ==
  saved \in [status : Statuses, raised : 0..nRaised, settled : SUBSET Settled,
             marked : SUBSET vetoed, unread : BOOLEAN]

FlagsOK == unread \in BOOLEAN /\ rerun \in BOOLEAN

HandlerOK ==
  /\ ended \in Nat
  /\ owed \in Nat
  /\ fresh \subseteq Reqs
  /\ snap \in [Reqs -> SUBSET Raised]
  /\ hnd \in [Reqs -> HandlerPcs]

\* The run task, the log and the handlers have the values their code gives them.
TypeOK == RunOK /\ LogOK /\ SavedOK /\ FlagsOK /\ HandlerOK

\* An action that was made to wait for the operator runs only after a client
\* request that started a run found it open, whatever became of the policy,
\* the status, the re-run flag or the server in between.
GatedHeld == executed \cap gated \subseteq resumed

\* A conversation that waits for confirmation has something to confirm that
\* the next run will take up, also after a restart that lost the events of the
\* iteration it interrupted.
WaitingMeansPending == status = "waiting" => Pending # {}

Runs(a) == runs'[a] > runs[a]

\* An answered action runs only if a restart has cut its answer off the branch,
\* and then only if that answer was its own execution (it runs a second time)
\* or if a later restart fell into the window of VetoHolds.  What the operator
\* rejected or an error closed does not run, and no step but a restart makes an
\* answered action pending.
NeverRunAgain ==
  [][/\ \A a \in Actions :
          Runs(a) /\ a \in Settled => a \in torn \cap (executed \cup exposed)
     /\ crashes' = crashes =>
          (Pending \cap Settled)' \subseteq Pending \cap Settled]_serverVars

\* What a hook has blocked runs only if a restart fell between the two
\* with-blocks of a cancellation, after the mark was saved away and before the
\* action got its error.  Wherever else a restart cuts, the mark comes back
\* with the action.
VetoHolds == executed \cap vetoed \subseteq exposed

\* Every run ends: by finishing, by waiting for the operator, by stopping, or
\* at the iteration limit.
RunEnds == task # "none" ~> task = "none"

\* Every request is answered, although a handler may have to wait for a lock
\* that the run loop holds through a whole batch.
RequestsAnswered ==
  \A r \in Reqs : hnd[r] \notin {"new", "done"} ~> hnd[r] = "done"

\* A restart that interrupts a batch tells the agent of it: at least one of the
\* interrupted actions has an answer on the branch the agent goes on with.
InterruptedSurfaced ==
  [][crashes' # crashes /\ task = "exec" =>
       Pending \cap (failed' \ (torn' \cup stranded')) # {}]_serverVars

Gate == INSTANCE AuthorizationGate WITH
          raised <- Raised, held <- gated, released <- resumed, runs <- runs,
          answered <- Settled \ torn, lives <- crashes

\* The server keeps the promise of the abstract gate.
GateSpec == Gate!Spec
=============================================================================
