# OH-GUI: the authorization plane and what it stands on, in TLA+

OH-GUI is an operator's front end for an OpenHands agent-server, pinned at
version 1.41.0 and kept under `review/_sdk_src`. The operator starts a run, sees
the tool calls the agent asks for on authorization cards, approves or rejects
them, turns a trust dial, steers by follow-up messages, pauses, stops, and reviews
what the agent changed. What has to be right is *which action runs, who let it
go, what it may run beside, and what is left after a crash*, while many things
move at once: the server's run task, its request handlers, the threads of the
tools, other server processes on the same storage, the operator's requests on the
wire, and the polls that bring the state back to the screen.

Paths are relative to `src/`. `agent_server/` and `sdk/` stand for the two
vendored packages under `review/_sdk_src/1.41.0/`, `gui/` for `apps/gui/src/`.

## 1. Inventory

| Component | State it keeps | Operations | Here |
|---|---|---|---|
| Run task and request handlers (`agent_server/event_service.py`, routers, `conversation_service.py`) | `_run_task`, `_rerun_requested`, the interrupt generation | create, run, send, confirm, reject, policy, pause, interrupt, the tail of a run, restart | `AgentServer` |
| Run loop and confirmation gate (`sdk/conversation/impl/local_conversation.py`, `sdk/conversation/state.py`, `sdk/agent/agent.py`, `sdk/agent/response_dispatch.py`) | execution status, policy, event log, active branch, marks of the hooks, iteration | `arun`, `astep`, the gate, hooks, batch execution, finish truncation, cancellation, deferred saves | `AgentServer` |
| The promise of the authorization plane (`docs/specs/04-authorization.md`) | raised, held, released, answered, how often each action ran | raise, hold, release, settle, restart | `AuthorizationGate` |
| Tool executor and resource locks (`sdk/agent/parallel_executor.py`, `sdk/conversation/resource_lock_manager.py`, `fifo_lock.py`) | the pool, the cancellation token, the lock table with its counts, a queue per lock | execute a batch, lock, time out, release, cancel | `ToolBatch`, `ToolExclusion` |
| Lease, event log and ownership (`agent_server/conversation_lease.py`, `event_service.py`, `conversation_service.py`, `sdk/conversation/event_store.py`) | the lease file, the event files, `base_state.json`; per process a generation, an index, a status | claim, renew, guarded append, recover, close, release, delete | `Ownership` |
| Run surface (`gui/features/run/useConversation.ts`, `RunView.tsx`, `gui/api/agentServer.ts`) | conversation id, status, events, error, isStarting, isSending, dial | start, send, approve, reject, dial, pause, stop, poll | `RunSurface` |
| Pending-action scans (`sdk/conversation/state.py`, `useConversation.ts`), event page, reliability posture (`gui/features/model-profiles/reliability.ts`) | the event log; the page the hook holds | append, read a page, scan, classify | `EventPage` |
| Git endpoints (`sdk/git`, `agent_server/git_router.py`) | none; they read the repository | list changes, diff a file | `ChangeReview` |
| Change review (`gui/features/change-review`) | list, rows, requests | open, refresh, expand, leave, diff a file | `ChangeReview`, `LineDiff` |
| Audit log (`gui/features/audit-log`) | append-only entries, session | record, end session, export | `RunSurface`: what is recorded when |
| Trust dial (`gui/features/first-run/trust-dial.ts`) | none | map a stop to a policy, predict a pause | `RunSurface`: the mapping |
| Authorization card and viewport floor (`gui/features/authorization`) | reason text, viewport | approve, reject, enable | `RunSurface`: the buttons |
| Everything else | | | not modelled, section 6 |

How they interact. The GUI reaches the server only by HTTP requests, which
nothing orders. On the server a request is a coroutine of the event loop; the
run task is another, and its loop holds the conversation's state lock for a
whole iteration except during the LLM call. Inside an iteration the calls of a
batch run on threads, kept apart by resource locks. Events go to disk one file
each, at once; the base state goes to disk when the `with` block of the state
ends; both behind a lease that says which process owns the conversation. The GUI
learns by polling: a refresh reads the event page and the conversation by
separate requests and applies both together. The audit log is written by the
click, before the request leaves.

What is hard, with its place in the code, is the `hazards` list of
`PROJECT.json`. In short: an approval *is* a run request and names no action;
the run loop executes whatever is unmatched when it starts ("implicit
confirmation"), so every request that can start a run can let an action go; the
LLM call is made without the lock; a handler may read before it locks; the tail
of a run task still refuses runs, and a re-run flag bridges that gap; restarts,
interrupts and finish truncation leave unmatched actions behind, and a restart
also loses the newest part of the branch but not of the log; a lock's object is
deleted and remade under its users; an interrupted tool runs on beside the next
batch; a lease may run out under a live owner; answers and polls overtake one
another.

## 2. The modules

```
AuthorizationGate   what is promised of an action       ToolExclusion
      ^ refines                                               ^ refines
AgentServer                                              ToolBatch
      ^ extends
RunSurface          EventPage    Ownership    ChangeReview    LineDiff
```

An `MC` module per checked module declares its model values and symmetry. The
theorems about a module `M` are in `MProofs`, which extends it; there is one for
each of the seven modules with a specification that is checked. `RunSurfaceProofs`
extends `AgentServerProofs` as well, since the surface runs the server's actions.
`DataLemmas` has what several of them need about numbers and finite sets.

### AgentServer

One conversation on the server. The state is that of the code: `status`
(`execution_status`), `task` (where `_run_task` is: `start` created but not yet
in `arun()`, `top` of the loop, `llm`, `emit`ting a batch, `exec`uting it,
`flush` the end of the iteration, `cancelled` between the two `with` blocks of an
interrupted `arun()`, `tail` publishing the last events), `iter`, `policy` and the
`stored` one that a restart applies, the event log as the sets of action ids that
were raised, held (`gated`), rejected and failed and how often each action ran
(`runs`), `rerun` and `owed` for `_rerun_requested` before and after an ended task
(`ended` counts those that still publish) has taken it, and for each request the
progress of its handler. History variables: `resumed` (the actions that were
pending when a run was started), `vetoed` (those a hook has blocked), `exposed`
(those a restart has left open without their mark) and `unread` (a message no LLM
call has seen).

Log and branch. Events are files, written at once. `saved` is `base_state.json`,
with the status, the policy, the head of the active branch and the hooks' marks;
it follows the state except while the run loop is inside its `with` block
(`InStep`). So a restart finds a log that is longer than the branch: `stranded`
are actions that are off it, `torn` are actions whose answer is off it. `Pending`
is what the active branch leaves open, which is what the loop, the gate and the
reject handler act on; `Unmatched` is what the whole log leaves open, which is what
the recovery and the GUI's cards look at.

| Action | Code |
|---|---|
| `Create` | `_start_conversation`: persists, appends the initial message and runs it, in that order; the server calls `send_message(message, True)` whatever the request's `run` says. One step, since no client knows the id before the answer |
| `Run` | `POST /run`, and `respond_to_confirmation(accept=true)`, both of which are `EventService.run()` |
| `SendBegin`, `SendAppend`, `SendRun`, `SendArm` | `send_message(run=true)`: the interrupt generation, the append under the lock, the run, and the handling of a refusal, between which anything may happen |
| `RejectRead`, `RejectCommit` | `reject_pending_actions`: the read is before the lock |
| `SetPolicy`, `PauseBegin`, `PauseCommit` | the handlers of that name; a pause cancels requested runs first and touches the status later |
| `Interrupt`, `EmitOrphans` | an interrupt and what it makes of `arun()`: the cancellation ends the `with` block of the iteration, which saves what `aprepare` did to the marks; only the next `with` block gives the open actions their errors |
| `ArunStart`, `ArunStartFails` | the head of `arun()` and the backstop of the run task |
| `LoopBreak`, `LoopStuck`, `LoopStep` | the top of an iteration; implicit confirmation is `Pending # {}` in `LoopStep` |
| `LlmError`, `LlmAnswer`, `LlmToolCalls`, `EmitAction`, `Decide`, `ExecBatch`, `Flush` | one `astep()`: the reply, its ActionEvents with the hooks that may mark them, `_requires_user_confirmation`, the batch with finish truncation and blocked calls, and the end of the iteration |
| `TailEnds`, `TakeRerun`, `Rearm` | the `finally` of `_run_and_publish`: the task is cleared, the state published, the re-run flag taken, the status asked for, and only then a run started |
| `Crash` | a server restart and `EventService.start()`: `saved` comes back, the policy is the stored one again, a running conversation becomes an error, and the first action the log leaves open gets an error event |
| `Save` | conjoined to every step: the autosave, deferred while the loop is in a step |

Abstractions. An action is a number; whether it is a `ThinkAction` is a choice
made where the gate asks. The GUI registers no security analyzer, so every risk
is `UNKNOWN` and a policy is either one that confirms (`"risky"`) or one that
does not (`"never"`). The execution of a batch is one step here (`ToolBatch` takes
it apart); the emission of a batch is one step per call, all under the lock.
Between the two `with` blocks of a cancellation no coroutine runs (`LoopFree`), but
worker threads and a restart may come in between. Left out, because the GUI never
sets them: ACP agents, the goal loop, stop hooks, budgets, critics, condensers
other than by an iteration that changes nothing.

### AuthorizationGate

The promise, without statuses, tasks or requests: a held action is executed only
after a release, an action that has an answer is not executed, and only a restart
takes an answer back. It is not promised that an action runs once: `runs` counts,
and an action whose observation a restart cut off the branch is open again and
runs again, as in the code. What is left is `OnceALife`: no action runs more often
than the server was started. `AgentServer` implements the gate under
`raised <- Raised`, `held <- gated`, `released <- resumed`, `runs <- runs`,
`answered <- Settled \ torn`, `lives <- crashes`, so a second execution is a step
of the gate and no stutter.

### ToolBatch and ToolExclusion

`ParallelToolExecutor.aexecute_batch` with its pool, the `ResourceLockManager`
and the `FIFOLock`s it hands out. A step of a thread is what it does under one
mutex. `table` and `refs` are `_locks` and `_refcounts`; lock objects have names
of their own, since the manager deletes the object of a key that nobody refers to.
`Start`, `Collect`, `Cancel`, `Abandon` and `Drained` are the batch: one call, or
one worker, runs on the loop's default pool and is left behind when the task is
cancelled; a pool of its own is waited for. `Begin` looks at the token; `GetLock`,
`Ask`, `Notified`, `TimedOut`, `Undo`, `Finish` and `Leave` are one call, from
`_get_lock` to the `finally` of `lock()`. The keys of a call are in `need`; they
are locked in sorted order. `ToolExclusion` is the promise: a call runs at most
once, and never beside one it shares a resource with. Left out: `execute_batch`,
which the server does not use, and reentrance, which no caller has.

### Ownership

Any number of server processes and one conversation on shared storage. `lease`,
`files` and `base` (status and leaf of `base_state.json`) are on disk; each process
has its service (`svc`), its `_lease_generation`, the log it has indexed, and in
memory a status and a leaf, which is `dirty` until it is saved. `Claim`, `Load`,
`Commit`, `Recover`, `AnswerFirst` and `Settle` are `start()`: the lease, the
directory, the save that `set_confirmation_policy` makes before there is a write
guard, the stale status, the error for the first open action of the whole log, and
the leaf it moved. A refused write in there is `FailedStart`. `Renew` is the
renewal loop, `Tick` the time that eats a lease. `BeginRun`, `Act`, `Answer`,
`EndIteration` and `EndRun` are the writes of a run, each of them refused when the
lease is no longer the process's own; what a run finds to execute is read from the
branch of its leaf (`Pending`), and the leaf is saved at the end of an iteration.
`Close`, `Drain`, `Release` are an eviction or shutdown; `Remove` a deletion;
`Die` a kill (a restarted process has a new owner id, so it is another process).
`LateWrite` is an emission that was left on the executor when the service closed:
no guard checks the event any more, nor the save of the base state that follows.
`Faults` says which behaviours have one and which have a deletion. `append()` names
its file by its index after `Sync`, which counts the files of the directory and
reads up to the first gap, so two histories would collide or leave a gap.

### RunSurface

Extends `AgentServer` by the browser. A request is a member of `Reqs`; `net`
says where it is (`sent`, `answered`, `refused`, `reading` the refresh that
follows it, `closed`). `Arrival` and `Handled` wrap the server's own actions, so
the composition adds no behaviour to the server. A click (`ClickStart`,
`ClickSend`, `TurnDial`, `ClickApprove`, `ClickReject`, `ClickPause`,
`ClickStop`) has the guard of its control in `RunView`; `Created`, `Started`,
`Stopped`, `Refresh`, `Refused` and `Fail` are the continuations of the hook's
callbacks; `PollBegin`, `ReadPage`, `ReadInfo` and `Apply` are a refresh, whose
second read may fail alone. `approved` and `turnedDown` are the audit entries.
`CreateAnother` is a second creation after the first answer was lost: the first
conversation runs on in the server, unreachable, and the model follows the new one.

`Fail` is any failure the hook sees as a rejected promise, before or after the
server handled the request. Left out: the elapsed timer, the event count, the
model profile, the read-only viewport, the text of the composer. Server restarts
are explored in `AgentServer` alone. The page holds the whole log here; its
limit is the subject of `EventPage`.

### EventPage

The log as a sequence of events with the fields the scans look at: an
observation or a rejection names its action, an error only its tool call, whose
name the LLM may use again. `Scan` is the loop of `get_unmatched_actions` as a
recursive function over the reversed log; `PendingActionsFromEvents` is the
hook's own loop, with the tests the hook applies to the objects of the wire
(`IsActionEvent`, `IsActionObservation`, `IsAgentError`); `OpenAt` is what both
ought to find, stated without a loop. `FirstPage` is what `/events/search` returns
to `refresh()`: the oldest events. `Outcome` and `Abandoned` are the reliability
posture over the same page: it collects the answers into sets and forgets where
they stood. A malformed call is an event whose action is `None`, which the wire
omits; it gets its error in the same step of the agent, and `CutShort` is a restart
between the two.

### ChangeReview

The repository (`commits`, `upstream`, `work`), the two endpoints, and the panel.
`Write`, `Delete`, `Commit` and `Push` are the agent. A request reads the revisions,
then the status, and chooses the base (`DisplayBase`, which is
`_get_display_base_ref`), then makes the two reads of its answer (`ReadBase`,
`ReadWork`): the tracked changes and the untracked files, or the original and the
file. The agent may work between any two, and an answer remembers whether it did,
and whether every read succeeded (`quiet`). A diff shows what the conversions leave
of a file: `Stripped` is what `run_git_command` makes of what git prints,
`Rejoined` the lines of the file joined again, and a side that is missing, cannot
be read or is not UTF-8 is the empty text. Both are constants, so the proofs hold
for whatever they do. `Load` (by `Open` or `Refresh`),
`ShowChanges`, `ShowFailure`, `Toggle`, `TakeDiff` and `Leave` are the panel: rows
live while the list is loaded and names their path, and a row that is unmounted
loses its request. A path that is deleted in a commit and written again untracked
is listed twice, as deleted and as added, under one React key; the model has the
two entries and follows one row. Left out: an explicit ref, commit listings,
renames, file sizes, repositories without commits, and failures of the reads that
choose the base.

### LineDiff

`diffLines` and `toHunks` as steps: the table of common subsequences, the walk,
the rest of either file, and the marking and cutting of hunks with their counts of
skipped lines.

## 3. What the runs show

Bounds are in the `.cfg` files and named in the modules.

| Run | Bounds | Shows |
|---|---|---|
| `AgentServer_run` | 2 requests of any kind, 3 actions, batches of 2, 2 iterations per run, 1 restart anywhere, a hook that may block (2.9 million states) | `TypeOK`, `GatedHeld`, `WaitingMeansPending`, `VetoHolds`, `NeverRunAgain`, the refinement `GateSpec` |
| `AgentServer_ends` | the same with 2 actions and no hook, fair | `RunEnds`, `RequestsAnswered` |
| `RunSurface_safety` | Start and one more click of any kind, 1 poll, no failure, 1 action, 1 iteration per run (6.4 million states) | `DialHolds`, `NeedsOperator` |
| `RunSurface_view` | Start (repeated after a failure), approve; 1 poll, 1 failure at any point, 1 iteration, fair | `SurfaceTypeOK`, `OneConversation`, `BusyHasRequest`, `ViewConverges` |
| `EventPage_scans` | logs of 6 events over 3 actions and 2 tool-call names, pages of 4 | `ScanFindsOpen`, `CardsStopAtPage`, `StaleHidesNothing`, `PostureAgreesWithCards`, `AbandonedHasCard`, `AnsweredForGood` |
| `ToolBatch_locks` | 3 calls that need nothing, one or both of 2 resources, 2 workers, any split into batches, any timeouts, interrupts; fair, deadlock checked | `TypeOK`, `TableExact`, `NoCircle`, `FirstComeFirstServed`, the refinement `ExclusionSpec`, `BatchEnds` |
| `Ownership_lease` | 2 processes on one host or two, a lease of 1 tick, 3 claims, 3 files, 1 action open at a time, late writes or deletions, a death; fair | `TypeOK`, `Fenced`, `OneHistory`, `AnsweredOnce`, `DeadOwnerReplaced` |
| `LineDiff_hunks` | every two files of up to 5 lines over 2 contents, 1 line of context | `Rebuilds`, `Shortest`, `SkipsAddUp`, `HunksShowChanges` |
| `ChangeReview_panel` | 1 file, 2 contents (one of blanks only, one with blanks before its text), 3 layouts of the repository, 2 overlapping loads, 1 step of the agent, failures; fair | `TypeOK`, `DiffOnce`, `DiffAfterRefresh`, `DiffLinesUp`, `PanelSettles` |

Deadlock is checked in `ToolBatch`, where calls wait for one another; its only end
is `Quiet`, every call over and no batch under way. Elsewhere requests, actions and
faults are bounded, so every behaviour stops, and it says nothing.

Why the bounds are enough to be worth running. The races of the server are
between the run task, a handler in its middle (send, reject, pause) and one more
request, and two requests have all of them; those of the surface are between
Start, whose conversation already runs, one more click, a poll and a failure. Two
actions in a batch are needed for finish truncation, partial blocking and the
first-only error of a restart; a third for a batch after a leftover. Two
iterations are hold-and-release or execute-and-ask-again; with one, as in the runs
of the surface, a run still holds, and the run that a click starts counts from
zero. A page of 4 in a log of 6
separates the log that fits from the one that does not, with an answer beyond the
page. Three calls on two workers have an owner, a waiter and a newcomer at one
lock, and a call left behind beside a batch; overlapping sets of two keys are the
smallest circle. Three claims are an owner, the one that takes over, and a third
after a release has reset the generation; three files are an action and two answers
to it, or two actions and the answer to one. Of the layouts of a repository
`ChangeReview_panel` leaves out the one without an origin (`"worktree"`), which
behaves as `"feature"` before its first push. A content of blanks only shows the
same as no file, and one that git's output strips shows two different texts, which
are the two ways for a diff to differ from the list. Two line contents are enough
for ties in the walk, and five lines for two hunks that touch, merge or stay apart
with one line of context. For the
invariants, the action properties and the refinements of the passing runs the
bounds do not matter: all of them are proved (section 4).

Fairness, always weak, and never of a click, a crash, a fault, a timeout, an
interrupt, a new batch or the agent's own work:

* `AgentServer`: the run task and the begun handlers take their steps, since
  coroutines and worker threads get to run, and a lock that is free for good is
  taken. What the LLM replies is a choice with no fairness on any outcome.
* `RunSurface`: in addition requests arrive, answers return, the poll timer fires.
* `ToolBatch`: threads are scheduled, the event loop runs, and tools return (a tool
  that does not return blocks its batch in the code, too).
* `Ownership`: time passes, clients keep asking the living processes for the
  conversation, and a start or close that has begun goes on. Renewal is not
  obliged to happen in time.
* `ChangeReview`: requests are handled and their answers taken.

The runs that end in a counterexample each compare one sentence of a document
or comment with the code; `PROJECT.json` quotes both.

| Run | What the trace shows |
|---|---|
| `RunSurface_release` | The server already runs the goal when Start asks for a run; if an action waits by then, that request lets it go. A follow-up sent to a waiting conversation does the same, and so does the approval of another card |
| `AgentServer_crash` | The recovery is there so that "the interrupted tool call should be surfaced back to the agent". A batch raised and interrupted within one iteration is off the branch that comes back, and so no action the agent sees has an answer |
| `ChangeReview_deleted` | The row of a deleted file asks for its diff and is refused, since the endpoint wants a working copy |

Because of the first, `NeedsOperator` and `GatedHeld` say what the code does
guarantee: a held action runs only after *some* request of the operator that
starts a run found it open. No dial move, pause, stop, rejection, failure, re-run
on the server's own account or restart lets it go by itself.

Met while modelling, and in the models, but without a run of their own, because no
sentence of the repository promises otherwise or the promise is one of display:

* A message that arrives during the last LLM call of a run is not read until
  somebody starts another run.
* A rejection that read its actions before a run executed them records an action
  that ran as rejected as well (`RejectCommit`).
* A restart while a batch executes, after a tool has run and before the head of the
  branch is saved, leaves the action open: the next run executes it a second time.
  `NeverRunAgain` says that this is the only answer a restart can take back with
  that effect, and `OnceALife` how often it can happen.
* An interrupted batch saves that its marks are taken off before its actions get
  their errors. A restart between the two gives one open action its error and leaves
  another, that a hook had blocked, open without its mark; the next run executes it
  (`exposed`). `VetoHolds` and `NeverRunAgain` name the window.
* Every restart loses every move of the dial: `start()` applies the policy the
  conversation was created with, which the policy handler does not change.
* A process that dies with an answer on disk and the old leaf in `base_state.json`
  leaves the answer off the branch: the next owner's run finds the action open,
  executes it and answers it again (`strays`, the exception of `AnsweredOnce`).
* A malformed call whose error a restart has kept from the log is reported by the
  posture as abandoned, although it has no card: the test for a null action meets
  an absent one (`lost`).
* The diff of a listed change may have equal sides: an added file of blanks, a
  change of blanks at either end or of the mode, a file that is not UTF-8.
* Two dial moves may be applied in the other order; the dial then shows a policy
  that is not in force, and nothing reads the policy back.
* An approval during the tail of a run is swallowed as success; the card stays.
* One approval lets a whole batch go; the audit log has an entry for one of it.
* An action beyond the first hundred events has no card, since the page is the
  oldest one.
* The token of an interrupt is looked at before a call waits for its locks, not
  after: a call that waited through an interrupt runs.
* A message, a policy change or a pause handled during the LLM call is saved with
  the iteration; a restart before its end takes it back, though the client has its
  answer.
* After a restart the GUI's scan, which reads the whole log, shows cards for
  actions that are off the branch and that no approval can run.
* A live owner whose lease ran out keeps its service open, shows a stale log and
  never claims again until it is closed; `DeadOwnerReplaced` names the exception.
* A write that an executor still holds when its conversation is closed may land
  after the conversation was deleted and made again, at its old index; the new
  directory then has a gap or two events of one index (section 4, `OneFault`).
* An empty change list is shown both for a clean repository and for a directory
  that is none; and the panel's text says "compared against the last commit" where
  the server compares with the upstream or the merge base.

## 4. What is proved

Every safety and action property of a passing run is the conclusion of a theorem,
and so are both refinements. The theorems are about every value of the constants;
each proof uses the assumption its module declares and no other: bounds are
naturals (`MaxIter`, `Ttl`, `Workers` and `PageLimit` positive, since zero is no
configuration of the code), identifiers of two kinds differ, and the calls, keys
and processes whose number matters are finitely many.

One pattern runs through them. A property is seldom inductive, so each module has an
invariant that is a conjunction of named parts; a lemma for each kind of step shows
that it keeps them; a theorem takes the property out of it.

**`AgentServerProofs`**, for every set of requests, every set of policies, with
and without a hook, any number of restarts.

* `TypeCorrect`: `TypeOK` is inductive by itself. The conjuncts that need care are
  `owed \in Nat`, which holds because `Rearm` is guarded by `owed > 0`, and
  `SavedOK`, which bounds an old snapshot by a log that has grown since: lemmas
  `LogTypes` (the log only grows) and `SavedTypes`.
* `HeldUntilReleased`: `GatedHeld` is not inductive, since `ExecBatch` executes
  what is pending without looking at `resumed`. The strengthening `GateInv` adds
  `OpenIsLetGo`: whatever is pending and held was released when the run task is
  before or at the top of an iteration or executes; nothing is pending while it
  asks the LLM; and nothing pending is held yet while it emits. `StartRun`
  establishes the first, and holding a batch leaves the loop (`task = "tail"`).
* `WaitingHasCard`: from `WaitingInv`, which adds that the conversation is not
  waiting while the task asks the LLM, emits or executes, and the same claim about
  the snapshot a restart would bring back. `SavedAtRest` (between two iterations
  everything is saved) makes the two one where the loop is at rest.
* `VetoStands` and `AnsweredStaysAnswered`: the two that a restart could break, from
  `RestartInv`. `SafeWith(t, s, m, x)` says of a branch (its torn answers, stranded
  actions and marks, and the exposed actions) that no error is off it, and that an
  action which was rejected without running, or blocked and not answered, still has
  its mark or is exposed. The invariant claims it both of the live branch and of the
  branch a restart *now* would produce (`Lost`, `CutOff`), counts as exposed what
  stands in the window of a cancellation (`Window`), and `StepKeeps` says what an
  unfinished iteration may have changed since the snapshot. Lemmas `WindowOnly`
  (who opens the window and who closes it), `NextTask`, `SafeStep`, `SafeInStep` and
  `RestartInductive`.
* `GateRefined`: with `TypeOK` and `GateInv`, each server step is one step of
  `AuthorizationGate` or a stutter. Raising is `EmitAction`, holding is `Decide`,
  releasing is whatever starts a run, settling is `ExecBatch`, a rejection or the
  errors of an interrupt, and losing answers is a restart and nothing else.
* `RunOnceALife` (`Gate!OnceALife`): from `GateRefined` alone, since `LivesInv` (an
  open action has run at most as often as the server was restarted, an answered one
  once more) is inductive for the gate.

**`RunSurfaceProofs`**, for every number of requests, polls and failures and for any
order in which the wire delivers them. The invariant is `SurfaceInv`: the server's
`GateInv`, and `Screen`, which relates three places. `HandlersAsked` and `RerunAsked`
say that what the server does for a request is what its click asked for, and that
a re-run is owed to a message only; `NothingAsked`, `Born`, `OneStart` and `OneSend`
tie `conv`, `isStarting`, `isSending` and the dial to the one request that is under
way. `TaskSeen`, `HandlerSeen` and `ArrivalSeen` abstract the server's twenty-odd
actions to what the surface sees of them.

* `SurfaceTypes` (`SurfaceTypeOK`), `FirstRunUnderDial` (`DialHolds`), `StartsOne`
  (`OneConversation`) and `BusyFormsEnd` (`BusyHasRequest`) follow from `Screen`.
  `DialHolds` needs `OneStart` to say that no request to set a policy exists while a
  start is under way, which in turn needs that none could be made without a
  conversation.
* `OnlyOperatorReleases` (`NeedsOperator`, an action property) needs both halves:
  `OpenIsLetGo` for what may execute, and `RerunAsked` and `HandlersAsked` for who
  may have changed `resumed`.
* `PromisesStand` (`GatedHeld`, `WaitingMeansPending`, `VetoHolds`) and
  `NoRetryRunsAgain` (`NeverRunAgain`) carry the server's results up: they hold
  under the surface too, with retries, overtaking and any number of failures, and
  after a conversation was lost and another created (`CreateAnother`, which
  `AgentServer` does not have). `ServerInv` is what the server's theorems rest on;
  the server's lemmas keep it in every step but that one.
* `ServerUnderneath` (`Spec` of the server, and with it `GateSpec`): as long as no
  creation fails, every step of the surface is a step of `AgentServer` or a stutter,
  so whatever holds of the server holds of what the operator drives. The hypothesis
  `CreationsArrive` is what keeps a second conversation out: by `Reachable` one
  that exists was adopted or its id is on the way, and the form is locked in both
  cases. When the answer to a creation is lost there are two conversations, and
  the surface is not one server.

**`ToolBatchProofs`**, for every finite set of calls and keys, every assignment of
keys to calls, every number of workers and every split into batches. The invariant
`IInv` is `TypeOK`, where a call stands (`Staged`), that it has its keys from the
lowest up (`InOrder`), who stands in a queue (`Queues`), that the owner of a lock
object holds a key whose lock it is (`OwnersHold`), that no object serves two keys
(`Apart`), and `TableExact`.

* `LocksAccounted` (`TableExact`): the count of a key is the number of calls that
  refer to it, and its object exists just as long. This is what makes deleting and
  remaking the object of a key safe, and it is not inductive without `Apart`.
* `LocksExclude` (`ExclusionSpec`): a call that runs holds all its keys (`Staged`), a
  key that is held names its owner in the object of its table entry, and an object
  has one owner; so two calls that run share no key. Beginning to run and
  getting a result are the steps of `ToolExclusion`; all others stutter.
* `NoCircleForms` (`NoCircle`): in a set of calls that wait on one another, the one
  that wants the greatest key, and those before it in its queue, have no owner in the
  set to wait for, since an owner that waits wants a greater key (`OwnerWantsMore`).
* `FirstComeHolds` (`FirstComeFirstServed`), an action property about any two calls
  that want one lock object: whoever comes later stays behind the one that waits
  until that one has its turn, or gives up. The head alone may take the lock
  (`WaitsInLine`), and removing one from the queue, its head or any other, keeps the
  order of the rest (`Serving`, `Quitting`).

**`OwnershipProofs`**, for every finite set of processes, on one host or on two, every
term of a lease and any number of claims, events and deaths.

* `LastClaimWrites` (`Fenced`), from `Leased`: a lease belongs to the process that
  claimed last, and a service that is closed has no generation to own one with.
  This holds with every fault.
* `TypesHold` holds with every fault, too: `Sync` may count files it cannot read,
  so an index may have holes, and what is written stays within `MaxEvents`.
* `OneAnswer` (`AnsweredOnce`), `NothingUnread` and `HistoryIsOne` (`OneHistory`) need
  the hypothesis `OneFault`: a behaviour has late writes or deletions, not both. It
  cannot be dropped. With both, a write left behind by `Release`, then `Remove`,
  then `LateWrite` leaves a file with an index of the log that is gone; the scan
  stops at the gap, and whoever opens the conversation reads nothing beyond it.
  `Faults` in `Ownership_lease` lists the two cases for that reason.
* The heart of `IInv` is `Numbered` (no gap, no index twice), `Kept` (stale owners
  have read the beginning) and `Seen`, which says of the owner with `Knows` that its
  index lacks nothing but notes that were written late, and that every answer is on
  the branch of its leaf or was off it when the conversation was loaded (`strays`).
  So a run of the owner finds no answered action open but for those.
  `LastClaimWrites` makes the guard of an append enough to know that what `Sync` read
  is everything (`SyncReadsAll`).
* `NothingUnread` is what recovery relies on: whoever holds the lease and has opened
  the conversation has every action and every answer of the directory in its index.

**`EventPageProofs`**, for logs and pages of any length and any actions and tool-call
names. The invariant `PageInv` says that the page is a prefix of the log, that an
action is asked for once, that an observation or rejection follows its action, and
that an error follows its malformed call.

* `ScanIsRight` (`ScanFindsOpen`): the backward scan, a recursive function, finds
  exactly the actions that are open by the loop-free definition.
* `CardsOpen` says the same of the hook's loop, by `VisitsAgree`: the tests of its
  loop and those of the server's tell the same events apart.
* `CardsDifferBeyond` (`CardsStopAtPage`): with both, an action of which cards and
  server disagree was raised, or answered, beyond the page.
* `StalePageHidesNothing` (`StaleHidesNothing`), `PostureFitsCards`
  (`PostureAgreesWithCards`) and `AbandonedKeepCards` (`AbandonedHasCard`) compare
  two logs by that definition (`CardIsOpen`, `OnPage`, `PrefixKeeps`). The last needs
  `ErrorFollows`: a malformed call has its error behind it, unless it is the newest
  event or a restart has kept the error from the log.
* `AnswersStand` (`AnsweredForGood`), an action property: `EmitKeeps` shows that an
  event leaves what is answered answered, also when a tool-call name comes again.

**`LineDiffProofs`**, for files of any length over any lines and any number of lines of
context. The invariant `DiffInv` follows the phases: `Walking` and `Rebuilds` (the
difference so far is both files so far), `Counting` (lines kept and the table's entry
for the rest add up), `Opened`, `Placed` and `Showing` (where the open hunk may start,
where the closed ones stand, what they show).

* `HoldsBothFiles` (`Rebuilds`); `NoShorter` (`Shortest`): no common subsequence is
  longer than the lines kept. `TableCounts` and `TableBounds` say what the table is;
  ties in the walk do not matter.
* `HunksInPlace` (`SkipsAddUp`): the counts of skipped lines put every hunk where it
  is in the difference. `ShowsEveryChange` (`HunksShowChanges`): the hunks show every
  change with its context, and nothing else.

**`ChangeReviewProofs`**, for every set of files, contents, loads, every layout and any
number of steps of the agent between a request's reads. The invariant `ReviewInv` is
the branch (`History`), what a request has read (`Reading`), the rows (`Screen`), and
three claims about answers and rows that were read while the agent did nothing: what
was read in the present state is true of it (`FreshRows`, `FreshLists`), and what was
read in one state agrees (`Agree`). The last is about states that are gone; it is
inductive because the agent's step makes `now` new, so that a list and a row of an
old state were both there before.

* `TypesHold`, `AsksOnce` (`DiffOnce`), `DiffIsRecent` (`DiffAfterRefresh`).
* `DiffFitsList` (`DiffLinesUp`): of a list and a diff read in one state, the original
  is what the conversion leaves of the file in the very commit the list was compared
  with, and the statuses of the row are those of that commit against the file shown
  (`ChangeFits`), a path that is listed twice included. Nothing is assumed of the
  conversions, so that is all a row can promise: its sides may be equal.

Induction over data. The library's induction theorems are not usable with the
provers at hand, and several results need one. `NatMin` and `NatMax` in `DataLemmas` say
that a set of numbers has a least and, if finite, a greatest element; the
proofs then take the least counterexample. That is also how the scan and the table,
which are recursive functions, are known to be what their equations say: a closed
form, or a table for every smaller number of entries, satisfies the equation
(`ScanGathers`, `TableExists`), and two functions that satisfy it agree, since they
would differ at a greatest or least place first.

Model-checked only: the temporal properties under fairness (`RunEnds`,
`RequestsAnswered`, `ViewConverges`, `BatchEnds`, `DeadOwnerReplaced`, `PanelSettles`),
which the prover does not reach. They have bounded instances behind them, and no
more. The three runs that end in a counterexample are instances, too.

## 5. Plan

The modules, their runs and the theorems of section 4 are done, in the order of
section 2. Left, by what it would say:

1. What a conversation goes on to do whose id was lost: `CreateAnother` forgets it, so
   nothing is said of it beyond the step that loses it.
2. A refinement between `Ownership` and the log of `AgentServer`: that the file
   history a new owner reads is a branch a restart of the server can come back with.
3. If they turn out to hold more than their code: the dial's display predicate, the
   session end of the audit log.

## 6. Not modelled, and why

* Plugins panel (`gui/features/plugins`): one load state; its only race, loads that
  overtake one another, is that of the list in `ChangeReview`, without rows.
* Fail-closed middleware (`services/middleware`): one await and a case analysis of
  its outcome; no policy plane is installed, so every request is denied, and
  nothing is kept between two requests.
* The rest of the audit log: one writer that appends to an array, and an export of
  it. The rest of the trust dial and the viewport floor: predicates of one value.
* Model profiles, first-run wizard, lens: a stored table, a step index with its
  clamp, a stored preference; each with a single writer.
* Blast radius, agent account, untrusted content, grouping and wording of event
  rows: functions of one event, or of the log, for display only.
* Shell, navigation, theme: layout; that leaving a surface unmounts its panel is
  `Leave` in `ChangeReview`.
* Scripts, benchmark harness, end-to-end tests, agent plugin: build-time checks over
  text, measurements, tests and prompts.
* The remainder of the SDK: the tools, workspaces, LLM clients, settings, skills, ACP
  agents, the goal loop and the remote client are vendored for reference. The
  product reaches them only through the steps above (an LLM reply, a tool that
  returns or raises, a hook that blocks), or not at all. That is most of the
  repository's lines, and why the models stand for a small part of them.
