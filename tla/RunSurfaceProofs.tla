-------------------------- MODULE RunSurfaceProofs --------------------------
(***************************************************************************)
(* Theorems about the run surface against one conversation, for every      *)
(* number of requests, polls, faults and actions: the types, that the      *)
(* first run is made under the policy the dial shows, that Start drives    *)
(* one conversation, that a disabled form has a request under way, and     *)
(* that nothing but an approval or a follow-up lets a held action go.      *)
(***************************************************************************)
EXTENDS RunSurface, AgentServerProofs

\* The request of start() that is under way: POST /conversations, then /run.
Starting(r) ==
  /\ op[r] \in {"create", "run"}
  /\ net[r] \in {"sent", "answered", "refused"}

\* Before a conversation is adopted nothing but creations was asked for, and
\* nothing was read: the server has no handler under way for this client.
NothingAsked ==
  ~conv => /\ gStatus = "null"
           /\ \A r \in Reqs : op[r] \in {"none", "create"}
           /\ \A j \in Polls : net[j] = "free"
           /\ ~rerun /\ owed = 0

\* What a handler is doing is what its request asked for.
HandlersAsked ==
  \A r \in Reqs :
    /\ op[r] \in {"none", "create"} => hnd[r] = "new"
    /\ hnd[r] \in {"begun", "appended", "refused"} => op[r] = "send"
    /\ hnd[r] = "snapped" => op[r] = "reject"
    /\ hnd[r] = "pausing" => op[r] = "pause"
    /\ hnd[r] # "snapped" => snap[r] = {}

\* A re-run is owed only to a message.
RerunAsked == rerun \/ owed > 0 => \E r \in Reqs : op[r] = "send"

\* Each request is issued once; start() reads nothing back but the answer to
\* its creation.
IssuedOnce ==
  \A r \in Reqs :
    /\ net[r] = "free" <=> op[r] = "none"
    /\ op[r] = "create" /\ net[r] = "answered" => info[r] \in Statuses
    /\ op[r] \in {"create", "run"} => net[r] # "reading"
    /\ op[r] = "create" => net[r] # "refused"

\* A conversation is absent until the first creation has been handled.
Born ==
  /\ status = "absent" => nRaised = 0 /\ task = "none" /\ ~conv
  /\ \A r \in Reqs : Starting(r) /\ (op[r] = "create" => net[r] # "sent")
                       => status # "absent"

\* Start is disabled exactly while its one request is under way; the creation
\* carries what the dial shows, which nothing moves in the meantime.
OneStart ==
  /\ isStarting <=> \E r \in Reqs : Starting(r)
  /\ \A r, s \in Reqs : Starting(r) /\ Starting(s) => r = s
  /\ \A r \in Reqs :
       Starting(r) => /\ conv <=> op[r] = "run"
                      /\ arg[r] = dial
                      /\ ~(op[r] = "create" /\ net[r] = "sent") => policy = dial
  /\ isStarting => \A r \in Reqs : op[r] # "policy"

OneSend == isSending => \E r \in Reqs : op[r] = "send" /\ net[r] # "closed"

Screen ==
  /\ SurfaceTypeOK /\ NothingAsked /\ HandlersAsked /\ RerunAsked
  /\ IssuedOnce /\ Born /\ OneStart /\ OneSend

SurfaceInv == Screen /\ GateInv
-----------------------------------------------------------------------------
(***************************************************************************)
(* What the surface sees of a step of the server.                          *)
(***************************************************************************)
\* The run task answers nothing, and re-runs only what was asked for.
LEMMA TaskSeen ==
  ASSUME TypeOK, RunTask
  PROVE  /\ UNCHANGED <<policy, hnd, snap>>
         /\ rerun' \/ owed' > 0 => rerun \/ owed > 0
         /\ status # "absent" => status' # "absent"
         /\ task = "none" => UNCHANGED nRaised
         /\ task = "none" /\ status = "absent" =>
              task' = "none" /\ status' = "absent"
         /\ resumed' = resumed \/ owed > 0
<1> USE DEF Untouched, handlerVars, tails, TypeOK, FlagsOK, HandlerOK
<1>1. CASE ArunStart
  BY <1>1 DEF ArunStart
<1>2. CASE ArunStartFails
  BY <1>2 DEF ArunStartFails
<1>3. CASE LoopBreak
  BY <1>3 DEF LoopBreak
<1>4. CASE LoopStuck
  BY <1>4 DEF LoopStuck
<1>5. CASE LoopStep
  BY <1>5 DEF LoopStep
<1>6. CASE LlmError
  BY <1>6 DEF LlmError
<1>7. CASE LlmAnswer
  BY <1>7 DEF LlmAnswer, EndStep
<1>8. CASE LlmToolCalls
  BY <1>8 DEF LlmToolCalls
<1>9. CASE EmitAction
  BY <1>9 DEF EmitAction
<1>10. CASE Decide
  BY <1>10 DEF Decide, HoldBatch, EndStep
<1>11. CASE ExecBatch
  BY <1>11 DEF ExecBatch
<1>12. CASE Flush
  BY <1>12 DEF Flush, EndStep
<1>13. CASE TailEnds
  BY <1>13 DEF TailEnds, logVars
<1>14. CASE Rearm
  BY <1>14 DEF Rearm, StartRun, logVars
<1>15. CASE EmitOrphans
  BY <1>15 DEF EmitOrphans
<1>16. CASE TakeRerun
  BY <1>16 DEF TakeRerun, logVars
<1> QED
  BY <1>1, <1>2, <1>3, <1>4, <1>5, <1>6, <1>7, <1>8, <1>9, <1>10, <1>11,
     <1>12, <1>13, <1>14, <1>15, <1>16 DEF RunTask

\* A handler goes on with what its request asked for; only one that runs a
\* message owes a re-run or lets actions go.
LEMMA HandlerSeen ==
  ASSUME TypeOK, NEW r \in Reqs, HandlerStep(r)
  PROVE  /\ hnd[r] \in {"begun", "appended", "refused", "snapped", "pausing"}
         /\ hnd'[r] \in {"appended", "refused", "done"}
         /\ hnd'[r] # "done" => hnd[r] \in {"begun", "appended"}
         /\ \A q \in Reqs \ {r} : hnd'[q] = hnd[q] /\ snap'[q] = snap[q]
         /\ snap'[r] = IF hnd[r] = "snapped" THEN {} ELSE snap[r]
         /\ UNCHANGED <<policy, nRaised>>
         /\ status # "absent" => status' # "absent"
         /\ \/ ~(rerun' \/ owed' > 0)
            \/ rerun \/ owed > 0 \/ hnd[r] \in {"appended", "refused"}
         /\ resumed' = resumed \/ hnd[r] = "appended"
<1> USE DEF Answered, logVars, tails, TypeOK, FlagsOK, HandlerOK, HandlerStep
<1>1. CASE SendAppend(r)
  BY <1>1 DEF SendAppend
<1>2. CASE SendRun(r)
  BY <1>2 DEF SendRun, StartRun
<1>3. CASE SendArm(r)
  BY <1>3 DEF SendArm
<1>4. CASE RejectCommit(r)
  BY <1>4 DEF RejectCommit, StatusOnReject
<1>5. CASE PauseCommit(r)
  BY <1>5 DEF PauseCommit, PauseEffect
<1> QED
  BY <1>1, <1>2, <1>3, <1>4, <1>5


\* A step of the surface is a step of the server, or none of it, or the
\* creation of a conversation after one whose id was lost.
LEMMA SurfaceSteps ==
  ASSUME SurfaceTypeOK, SurfaceNext
  PROVE  \/ [Next]_serverVars
         \/ \E r \in Reqs : CreateAnother(arg[r]) /\ Save /\ op[r] = "create"
                            /\ net[r] = "sent"
<1> DEFINE Goal == \/ [Next]_serverVars
                   \/ \E r \in Reqs : /\ CreateAnother(arg[r]) /\ Save
                                      /\ op[r] = "create" /\ net[r] = "sent"
<1>1. ASSUME NEW r \in Reqs, Click(r) PROVE UNCHANGED serverVars
  BY <1>1 DEF Click, ClickStart, ClickSend, ClickApprove, ClickReject,
     ClickPause, ClickStop, Issue
<1>2. ASSUME NEW r \in Reqs, Arrival(r) PROVE Goal
  <2>1. arg[r] \in Policies
    BY DEF SurfaceTypeOK
  <2> QED
    BY <1>2, <2>1 DEF Arrival, Next, Request
<1>3. ASSUME NEW r \in Reqs, Handled(r) PROVE Next
  BY <1>3 DEF Handled, Next
<1>4. ASSUME NEW r \in Reqs, Receive(r) PROVE UNCHANGED serverVars
  BY <1>4 DEF Receive, Created, Started, Stopped, Refresh, Refused
<1>5. ASSUME NEW p \in Policies, TurnDial(p) PROVE UNCHANGED serverVars
  BY <1>5 DEF TurnDial, Issue
<1>6. ASSUME NEW j \in Jobs, Read(j) \/ Fail(j) PROVE UNCHANGED serverVars
  BY <1>6 DEF Read, Fail, ReadPage, ReadInfo, Apply
<1>7. ASSUME NEW j \in Polls, PollBegin(j) PROVE UNCHANGED serverVars
  BY <1>7 DEF PollBegin
<1>8. ServerAlone => Next
  BY DEF ServerAlone, Next
<1> QED
  BY <1>1, <1>2, <1>3, <1>4, <1>5, <1>6, <1>7, <1>8 DEF SurfaceNext

\* The types and the gate of the server stand under the surface, which may
\* put another conversation in the place of one it has lost.
LEMMA ServerStands ==
  ASSUME SurfaceInv, [SurfaceNext]_vars
  PROVE  TypeOK' /\ GateInv'
<1> USE DEF SurfaceInv, Screen, SurfaceTypeOK
<1>1. CASE [Next]_serverVars
  BY <1>1, TypesKept, GateKept
<1>2. ASSUME NEW r \in Reqs, CreateAnother(arg[r]), Save, op[r] = "create",
             net[r] = "sent"
      PROVE  TypeOK' /\ GateInv'
  <2>1. /\ nRaised' = 0 /\ Settled' = {} /\ Raised' = {} /\ gated' = {}
        /\ executed' = {} /\ rejected' = {} /\ failed' = {}
        /\ runs' \in [Actions -> Nat]
    BY <1>2 DEF CreateAnother, Settled, Raised, executed
  <2>2. /\ RunOK' /\ FlagsOK'
    BY <1>2 DEF CreateAnother, TypeOK, RunOK, FlagsOK, Statuses, TaskPcs
  <2>3. LogOK'
    BY <1>2, <2>1, ServerAssumption DEF CreateAnother, LogOK, ServerAssumption
  <2>4. SavedOK'
    <3>1. saved' = BaseState'
      BY <1>2 DEF CreateAnother, Save, InStep
    <3> QED
      BY <2>1, <2>2, <2>3, <3>1 DEF SavedOK, BaseState, RunOK, FlagsOK, LogOK
  <2>5. HandlerOK'
    <3>1. \A q \in Reqs : snap[q] = {}
      <4>1. ~conv
        BY <1>2 DEF OneStart, Starting
      <4> QED
        BY <4>1 DEF NothingAsked, HandlersAsked
    <3> QED
      BY <1>2, <3>1 DEF CreateAnother, TypeOK, HandlerOK
  <2>6. GateInv'
    BY <1>2, <2>1 DEF CreateAnother, GateInv, GatedHeld, OpenIsLetGo, Pending
  <2> QED
    BY <2>2, <2>3, <2>4, <2>5, <2>6 DEF TypeOK
<1>3. CASE UNCHANGED vars
  BY <1>3, TypesKept, GateKept DEF vars
<1> QED
  BY <1>1, <1>2, <1>3, SurfaceSteps
-----------------------------------------------------------------------------
(***************************************************************************)
(* The server's side of a request keeps what the screen relies on.         *)
(***************************************************************************)
\* A request that arrives is new; no arrival owes a re-run, and only one that
\* asks for it sets the policy.
LEMMA ArrivalSeen ==
  ASSUME TypeOK, NEW r \in Reqs, Arrival(r), op[r] # "create"
  PROVE  /\ hnd[r] = "new" /\ status # "absent" /\ status' # "absent"
         /\ \A q \in Reqs \ {r} : hnd'[q] = hnd[q] /\ snap'[q] = snap[q]
         /\ \/ hnd'[r] = "done" /\ snap'[r] = snap[r]
            \/ hnd'[r] = "begun" /\ snap'[r] = snap[r] /\ op[r] = "send"
            \/ hnd'[r] = "snapped" /\ op[r] = "reject"
            \/ hnd'[r] = "pausing" /\ snap'[r] = snap[r] /\ op[r] = "pause"
         /\ rerun' \/ owed' > 0 => rerun \/ owed > 0
         /\ policy' = policy \/ op[r] = "policy"
<1> USE DEF Arrival, Arrive, Answered, tails, TypeOK, FlagsOK, HandlerOK
<1>1. CASE Run(r)
  BY <1>1 DEF Run
<1>2. CASE op[r] = "policy" /\ SetPolicy(r, arg[r])
  BY <1>2 DEF SetPolicy
<1>3. CASE Interrupt(r)
  BY <1>3 DEF Interrupt, StopIntent, PauseEffect
<1>4. CASE op[r] = "send" /\ SendBegin(r)
  BY <1>4 DEF SendBegin
<1>5. CASE op[r] = "reject" /\ RejectRead(r)
  BY <1>5 DEF RejectRead
<1>6. CASE op[r] = "pause" /\ PauseBegin(r)
  BY <1>6 DEF PauseBegin, StopIntent
<1> QED
  BY <1>1, <1>2, <1>3, <1>4, <1>5, <1>6

\* The request arrives.
LEMMA ArrivalKeeps ==
  ASSUME Screen, TypeOK', NEW r \in Reqs, Arrival(r)
  PROVE  Screen'
<1> USE DEF Screen
<1>1. /\ UNCHANGED <<conv, gStatus, gPending, gError, isStarting, isSending,
                     dial, approved, turnedDown, op, arg, page, faults>>
      /\ info' = IF op[r] = "create" THEN [info EXCEPT ![r] = status'] ELSE info
      /\ net[r] = "sent" /\ op[r] # "none"
  BY DEF Arrival, RestOfGui, viewVars, auditVars, IssuedOnce
<1>2. /\ r \in Jobs /\ net \in [Jobs -> NetPcs]
  BY DEF SurfaceTypeOK, Jobs
<1>3. /\ \A j \in Jobs \ {r} : net'[j] = net[j]
      /\ net'[r] \in {"sent", "answered", "refused"}
      /\ net'[r] = "refused" => op[r] = "run"
      /\ net' \in [Jobs -> NetPcs]
  BY <1>2 DEF Arrival, Answer, NetPcs
<1>4. SurfaceTypeOK'
  <2>1. info' \in [Jobs -> Statuses \cup {"unread", "null"}]
    BY <1>1 DEF SurfaceTypeOK, TypeOK, RunOK
  <2> QED
    BY <1>1, <1>3, <2>1 DEF SurfaceTypeOK
<1>5. IssuedOnce'
  <2>1. /\ \A q \in Reqs \ {r} : info'[q] = info[q]
        /\ op[r] = "create" => info'[r] \in Statuses
    BY <1>1, <1>2 DEF SurfaceTypeOK, TypeOK, RunOK
  <2> QED
    BY <1>1, <1>3, <2>1 DEF IssuedOnce, Jobs
<1>6. \A q \in Reqs : Starting(q)' <=> Starting(q)
  BY <1>1, <1>3 DEF Starting, Jobs
<1>7. OneSend'
  BY <1>1, <1>3 DEF OneSend, Jobs
<1> DEFINE Rest == NothingAsked' /\ HandlersAsked' /\ RerunAsked' /\ Born'
                   /\ OneStart'
<1>8. CASE op[r] = "create"
  <2>1. /\ ~conv /\ arg[r] = dial
        /\ net' = [net EXCEPT ![r] = "answered"]
        /\ status' = "idle" /\ policy' = arg[r]
        /\ UNCHANGED <<rerun, owed, fresh, snap, hnd>>
    BY <1>1, <1>8 DEF Arrival, Answer, Create, CreateAnother, OneStart,
       Starting, handlerVars, tails
  <2>2. NothingAsked' /\ HandlersAsked' /\ RerunAsked'
    BY <1>1, <1>3, <2>1, SurfaceAssumption DEF NothingAsked, HandlersAsked,
       RerunAsked, Jobs, SurfaceAssumption
  <2>3. Born'
    BY <2>1 DEF Born
  <2>4. OneStart'
    BY <1>1, <1>6, <2>1 DEF OneStart, Starting
  <2> QED
    BY <1>4, <1>5, <1>7, <2>2, <2>3, <2>4
<1>9. CASE op[r] # "create"
  <2>1. conv
    BY <1>1, <1>9 DEF NothingAsked
  <2>2. status # "absent" /\ status' # "absent"
    BY <1>1, <1>9, <2>1, ArrivalSeen DEF Born, SurfaceTypeOK
  <2>3. NothingAsked' /\ HandlersAsked' /\ RerunAsked'
    BY <1>1, <1>9, <2>1, ArrivalSeen DEF NothingAsked, HandlersAsked,
       RerunAsked, SurfaceTypeOK
  <2>4. Born'
    BY <2>2 DEF Born
  <2>5. OneStart'
    <3>1. op[r] = "policy" => ~isStarting
      BY DEF OneStart
    <3>2. op[r] # "policy" => policy' = policy
      BY <1>9, ArrivalSeen DEF SurfaceTypeOK
    <3>3. \A q \in Reqs : Starting(q) => op[q] # "create"
      BY <2>1 DEF OneStart, Starting
    <3> QED
      BY <1>1, <1>6, <3>1, <3>2, <3>3 DEF OneStart
  <2> QED
    BY <1>4, <1>5, <1>7, <2>3, <2>4, <2>5
<1> QED
  BY <1>8, <1>9

\* The handler goes on, and answers when it ends.
LEMMA HandledKeeps ==
  ASSUME Screen, TypeOK', NEW r \in Reqs, Handled(r)
  PROVE  Screen'
<1> USE DEF Screen
<1>1. UNCHANGED <<conv, gStatus, gPending, gError, isStarting, isSending, dial,
                  approved, turnedDown, op, arg, page, info, faults>>
  BY DEF Handled, RestOfGui, viewVars, auditVars
<1>2. HandlerStep(r) /\ TypeOK
  BY DEF Handled, SurfaceTypeOK
<1>3. op[r] \in {"send", "reject", "pause"} /\ conv
  BY <1>2, HandlerSeen DEF HandlersAsked, NothingAsked
<1>4. /\ \A j \in Jobs \ {r} : net'[j] = net[j]
      /\ net'[r] = net[r] \/ (net[r] = "sent" /\ net'[r] = "answered")
      /\ net' \in [Jobs -> NetPcs]
  BY DEF Handled, SurfaceTypeOK, Jobs, NetPcs
<1>5. SurfaceTypeOK'
  BY <1>1, <1>4 DEF SurfaceTypeOK
<1>6. IssuedOnce' /\ OneSend'
  BY <1>1, <1>3, <1>4 DEF IssuedOnce, OneSend, Jobs
<1>7. \A q \in Reqs : Starting(q)' <=> Starting(q)
  BY <1>1, <1>3, <1>4 DEF Starting, Jobs
<1>8. NothingAsked' /\ HandlersAsked' /\ RerunAsked'
  BY <1>1, <1>2, <1>3, HandlerSeen DEF NothingAsked, HandlersAsked, RerunAsked
<1>9. Born'
  BY <1>2, <1>3, HandlerSeen DEF Born
<1>10. OneStart'
  <2>1. policy' = policy
    BY <1>2, HandlerSeen
  <2>2. \A q \in Reqs : Starting(q) => op[q] # "create"
    BY <1>3 DEF OneStart
  <2> QED
    BY <1>1, <1>7, <2>1, <2>2 DEF OneStart
<1> QED
  BY <1>5, <1>6, <1>8, <1>9, <1>10

\* The run task goes on.
LEMMA AloneKeeps ==
  ASSUME Screen, TypeOK', ServerAlone
  PROVE  Screen'
<1> USE DEF Screen
<1>1. UNCHANGED <<conv, gStatus, gPending, gError, isStarting, isSending, dial,
                  approved, turnedDown, op, arg, net, page, info, faults>>
  BY DEF ServerAlone, guiVars, viewVars, auditVars, readVars
<1>2. RunTask /\ TypeOK
  BY DEF ServerAlone, ServerStep, SurfaceTypeOK
<1>3. SurfaceTypeOK'
  BY <1>1 DEF SurfaceTypeOK
<1>4. NothingAsked' /\ HandlersAsked' /\ RerunAsked'
  BY <1>1, <1>2, TaskSeen DEF NothingAsked, HandlersAsked, RerunAsked, TypeOK,
     HandlerOK
<1>5. \A q \in Reqs : Starting(q)' <=> Starting(q)
  BY <1>1 DEF Starting
<1>6. Born'
  BY <1>1, <1>2, <1>5, TaskSeen DEF Born
<1>7. OneStart'
  BY <1>1, <1>2, <1>5, TaskSeen DEF OneStart
<1>8. IssuedOnce' /\ OneSend'
  BY <1>1 DEF IssuedOnce, OneSend
<1> QED
  BY <1>3, <1>4, <1>6, <1>7, <1>8
-----------------------------------------------------------------------------
(***************************************************************************)
(* So does the browser's side.                                             *)
(***************************************************************************)
\* A click issues a request that was never issued before.
LEMMA IssueKeeps ==
  ASSUME Screen, NEW r \in Reqs, NEW p \in Policies,
         NEW o \in AllControls \cup {"create"}, Issue(r, o, p)
  PROVE  /\ op[r] = "none" /\ hnd[r] = "new"
         /\ IssuedOnce' /\ HandlersAsked' /\ RerunAsked'
         /\ op' \in [Reqs -> {"none", "create", "run"} \cup AllControls]
         /\ arg' \in [Reqs -> Policies]
         /\ net' \in [Jobs -> NetPcs]
         /\ \A q \in Reqs \ {r} : Starting(q)' <=> Starting(q)
         /\ op'[r] = o /\ arg'[r] = p /\ net'[r] = "sent"
         /\ \A q \in Reqs \ {r} : op'[q] = op[q] /\ arg'[q] = arg[q]
         /\ \A j \in Jobs \ {r} : net'[j] = net[j]
<1> USE DEF Screen, Issue, SurfaceTypeOK, Jobs, NetPcs, IssuedOnce
<1>1. op[r] = "none" /\ hnd[r] = "new"
  BY DEF HandlersAsked
<1>2. /\ op' \in [Reqs -> {"none", "create", "run"} \cup AllControls]
      /\ arg' \in [Reqs -> Policies]
      /\ net' \in [Jobs -> NetPcs]
  OBVIOUS
<1>3. IssuedOnce'
  BY DEF AllControls, readVars
<1>4. UNCHANGED <<hnd, snap, rerun, owed>>
  BY DEF serverVars, handlerVars, tails
<1>5. HandlersAsked' /\ RerunAsked'
  BY <1>1, <1>4 DEF HandlersAsked, RerunAsked, AllControls
<1> QED
  BY <1>1, <1>2, <1>3, <1>5 DEF Starting

\* The clicks and the dial.
LEMMA ClickKeeps ==
  ASSUME Screen, NEW r \in Reqs, Click(r)
  PROVE  Screen'
<1> USE DEF Screen
<1>0. dial \in Policies /\ DefaultStop \in Policies
  BY SurfaceAssumption DEF SurfaceTypeOK, SurfaceAssumption
<1>1. CASE ClickStart(r)
  <2>1. /\ Issue(r, "create", dial) /\ isStarting' = TRUE
        /\ ~isStarting /\ ~conv
        /\ UNCHANGED <<serverVars, conv, gStatus, gPending, page, info, faults,
                       isSending, dial, approved, turnedDown>>
    BY <1>1 DEF ClickStart, CanStart, Issue, auditVars, readVars
  <2>5. TypeOK'
    BY <2>1, TypesKept DEF SurfaceTypeOK
  <2>2. SurfaceTypeOK'
    <3>1. /\ op' \in [Reqs -> {"none", "create", "run"} \cup AllControls]
          /\ arg' \in [Reqs -> Policies]
          /\ net' \in [Jobs -> NetPcs]
      BY <1>0, <2>1, IssueKeeps
    <3>2. gError' = FALSE
      BY <2>1 DEF Issue
    <3> QED
      BY <2>1, <2>5, <3>1, <3>2 DEF SurfaceTypeOK
  <2>3. NothingAsked' /\ OneSend'
    BY <1>0, <2>1, IssueKeeps, SurfaceAssumption DEF NothingAsked, OneSend,
       serverVars, handlerVars, tails, SurfaceAssumption, Jobs
  <2>4. Born' /\ OneStart'
    BY <1>0, <2>1, IssueKeeps DEF Born, OneStart, NothingAsked, Starting,
       serverVars, logVars
  <2> QED
    BY <1>0, <2>1, <2>2, <2>3, <2>4, IssueKeeps
<1>2. ASSUME NEW o \in AllControls \ {"start"}, Issue(r, o, DefaultStop),
             o # "policy" \/ ~isStarting, conv, isStarting' = isStarting,
             isSending' \in BOOLEAN,
             isSending' = isSending \/ o = "send",
             dial' = dial, approved' \subseteq Actions,
             turnedDown' \subseteq Actions
      PROVE  Screen'
  <2>1. UNCHANGED <<serverVars, conv, gStatus, gPending, page, info, faults>>
    BY <1>2 DEF Issue, readVars
  <2>2. SurfaceTypeOK'
    BY <1>0, <1>2, <2>1, IssueKeeps, TypesKept DEF SurfaceTypeOK, Issue
  <2>3. NothingAsked' /\ OneSend'
    <3>1. /\ op[r] = "none" /\ op'[r] = o /\ net'[r] = "sent"
          /\ \A q \in Reqs \ {r} : op'[q] = op[q] /\ net'[q] = net[q]
      BY <1>0, <1>2, IssueKeeps DEF Jobs
    <3> QED
      BY <1>2, <2>1, <3>1 DEF NothingAsked, OneSend
  <2>4. ~Starting(r) /\ ~Starting(r)'
    BY <1>0, <1>2, IssueKeeps DEF Starting, AllControls
  <2>5. Born'
    BY <1>0, <1>2, <2>1, <2>4, IssueKeeps DEF Born, Starting, serverVars,
       logVars
  <2>6. OneStart'
    BY <1>0, <1>2, <2>1, <2>4, IssueKeeps DEF OneStart, Starting, serverVars
  <2> QED
    BY <1>0, <1>2, <2>2, <2>3, <2>5, <2>6, IssueKeeps
<1>3. CASE ClickSend(r) \/ ClickPause(r) \/ ClickStop(r)
  BY <1>2, <1>3 DEF ClickSend, ClickPause, ClickStop, auditVars, AllControls,
     SurfaceTypeOK
<1>4. ASSUME NEW a \in Actions, ClickApprove(r, a) \/ ClickReject(r, a)
      PROVE  Screen'
  <2>1. conv
    BY <1>4 DEF ClickApprove, ClickReject, Cards, NothingAsked
  <2> QED
    BY <1>2, <1>4, <2>1 DEF ClickApprove, ClickReject, AllControls,
       SurfaceTypeOK
<1> QED
  BY <1>1, <1>3, <1>4 DEF Click

\* Turning the dial sends a request in a conversation and none before it.
LEMMA DialKeeps ==
  ASSUME Screen, NEW p \in Policies, TurnDial(p)
  PROVE  Screen'
<1> USE DEF Screen
<1>1. /\ ~isStarting /\ dial' = p
      /\ UNCHANGED <<serverVars, conv, gStatus, gPending, page, info, faults,
                     isStarting, isSending, approved, turnedDown>>
  BY DEF TurnDial, DialEnabled, Issue, viewVars, readVars
<1>2. TypeOK'
  BY <1>1, TypesKept DEF SurfaceTypeOK
<1>3. \A q \in Reqs : ~Starting(q)
  BY <1>1 DEF OneStart
<1>4. CASE UNCHANGED <<gError, op, arg, net>>
  <2>1. SurfaceTypeOK'
    BY <1>1, <1>2, <1>4 DEF SurfaceTypeOK
  <2>2. /\ NothingAsked' /\ HandlersAsked' /\ RerunAsked' /\ IssuedOnce'
        /\ OneSend'
    BY <1>1, <1>4 DEF NothingAsked, HandlersAsked, RerunAsked, IssuedOnce,
       OneSend, serverVars, handlerVars, tails
  <2>3. \A q \in Reqs : ~Starting(q)'
    BY <1>3, <1>4 DEF Starting
  <2>4. Born' /\ OneStart'
    BY <1>1, <1>3, <2>3 DEF Born, OneStart, serverVars, logVars
  <2> QED
    BY <2>1, <2>2, <2>4
<1>5. ASSUME NEW r \in Reqs, conv, Issue(r, "policy", p) PROVE Screen'
  <2>1. /\ op' \in [Reqs -> {"none", "create", "run"} \cup AllControls]
        /\ arg' \in [Reqs -> Policies]
        /\ net' \in [Jobs -> NetPcs]
        /\ IssuedOnce' /\ HandlersAsked' /\ RerunAsked'
        /\ op[r] = "none" /\ op'[r] = "policy"
        /\ \A q \in Reqs \ {r} : op'[q] = op[q] /\ net'[q] = net[q]
    <3>1. "policy" \in AllControls \cup {"create"}
      BY DEF AllControls
    <3> QED
      BY <1>5, <3>1, IssueKeeps DEF Jobs
  <2>2. gError' = FALSE
    BY <1>5 DEF Issue
  <2>3. SurfaceTypeOK'
    BY <1>1, <1>2, <2>1, <2>2 DEF SurfaceTypeOK
  <2>4. NothingAsked' /\ OneSend'
    BY <1>1, <1>5, <2>1 DEF NothingAsked, OneSend
  <2>5. \A q \in Reqs : ~Starting(q)'
    BY <1>3, <2>1 DEF Starting
  <2>6. Born' /\ OneStart'
    BY <1>1, <2>5 DEF Born, OneStart, serverVars, logVars
  <2> QED
    BY <2>1, <2>3, <2>4, <2>6
<1> QED
  BY <1>4, <1>5 DEF TurnDial, viewVars

\* The answers that end well.
LEMMA AnswerKeeps ==
  ASSUME Screen, NEW r \in Reqs,
         Created(r) \/ Started(r) \/ Stopped(r) \/ Refresh(r)
  PROVE  Screen'
<1> USE DEF Screen
<1>1. /\ UNCHANGED <<serverVars, gPending, gError, isSending, dial, approved,
                     turnedDown, arg, page, faults>>
      /\ net[r] = "answered" /\ op[r] # "none"
  BY DEF Created, Started, Stopped, Refresh, auditVars, readVars, viewVars,
     IssuedOnce
<1>2. TypeOK' /\ r \in Jobs
  BY <1>1, TypesKept DEF SurfaceTypeOK, Jobs
<1>3. /\ net' \in [Jobs -> NetPcs]
      /\ \A j \in Jobs \ {r} : net'[j] = net[j]
      /\ \A q \in Reqs \ {r} : Starting(q)' <=> Starting(q)
      /\ \A q \in Reqs \ {r} : op'[q] = op[q]
  BY <1>2 DEF Created, Started, Stopped, Refresh, SurfaceTypeOK, NetPcs, Jobs,
     Starting
<1>4. CASE Created(r)
  <2>1. /\ op[r] = "create" /\ op'[r] = "run" /\ net'[r] = "sent" /\ conv'
        /\ gStatus' = info[r] /\ gStatus' \in Statuses
        /\ isStarting' = isStarting
        /\ op' \in [Reqs -> {"none", "create", "run"} \cup AllControls]
        /\ info' = [info EXCEPT ![r] = "unread"]
    BY <1>4, <1>2 DEF Created, SurfaceTypeOK, IssuedOnce
  <2>2. /\ Starting(r) /\ Starting(r)' /\ ~conv /\ policy = dial
        /\ status # "absent"
    BY <1>1, <2>1 DEF Starting, OneStart, Born
  <2>3. SurfaceTypeOK'
    <3>1. info' \in [Jobs -> Statuses \cup {"unread", "null"}]
      BY <2>1 DEF SurfaceTypeOK
    <3> QED
      BY <1>1, <1>2, <1>3, <2>1, <3>1 DEF SurfaceTypeOK, Statuses
  <2>4. /\ NothingAsked' /\ HandlersAsked' /\ RerunAsked' /\ IssuedOnce'
        /\ OneSend'
    BY <1>1, <1>3, <2>1 DEF NothingAsked, HandlersAsked, RerunAsked,
       IssuedOnce, OneSend, serverVars, handlerVars, tails, Jobs
  <2>5. Born'
    BY <1>1, <2>2 DEF Born, serverVars
  <2>6. OneStart'
    <3>1. arg[r] = dial /\ isStarting
      BY <2>2 DEF OneStart
    <3>2. \A q \in Reqs : Starting(q)' <=> q = r
      BY <1>3, <2>2 DEF OneStart
    <3>3. \A q \in Reqs : op'[q] # "policy"
      BY <1>3, <2>1, <3>1 DEF OneStart
    <3> QED
      BY <1>1, <2>1, <2>2, <3>1, <3>2, <3>3 DEF OneStart, serverVars
  <2> QED
    BY <2>3, <2>4, <2>5, <2>6
<1>5. CASE ~Created(r)
  <2>1. /\ op' = op /\ conv' = conv /\ op[r] # "create"
        /\ gStatus' \in {gStatus, "running", "paused"}
        /\ net'[r] \in {"closed", "reading"}
        /\ net'[r] = "reading" => op[r] \in {"send", "policy", "approve",
                                             "reject"}
        /\ op[r] = "send" => net'[r] = "reading"
        /\ isStarting' = (isStarting /\ op[r] # "run")
        /\ info' = info
    BY <1>2, <1>5 DEF Started, Stopped, Refresh, SurfaceTypeOK, readVars
  <2>2. conv
    BY <1>1, <2>1 DEF NothingAsked
  <2>3. SurfaceTypeOK'
    BY <1>1, <1>2, <1>3, <2>1 DEF SurfaceTypeOK, Statuses
  <2>4. /\ NothingAsked' /\ HandlersAsked' /\ RerunAsked' /\ IssuedOnce'
        /\ OneSend'
    BY <1>1, <1>3, <2>1, <2>2 DEF NothingAsked, HandlersAsked, RerunAsked,
       IssuedOnce, OneSend, serverVars, handlerVars, tails, Jobs
  <2>5. ~Starting(r)' /\ (Starting(r) <=> op[r] = "run")
    BY <1>1, <2>1 DEF Starting
  <2>6. Born'
    BY <1>1, <2>2 DEF Born, serverVars
  <2>7. OneStart'
    <3>1. CASE op[r] = "run"
      <4>1. \A q \in Reqs : ~Starting(q)'
        BY <1>3, <2>5, <3>1 DEF OneStart
      <4>2. ~isStarting'
        BY <2>1, <3>1
      <4> QED
        BY <4>1, <4>2 DEF OneStart
    <3>2. CASE op[r] # "run"
      <4>1. \A q \in Reqs : Starting(q)' <=> Starting(q)
        BY <1>3, <2>5, <3>2
      <4>2. (isStarting' <=> isStarting) /\ UNCHANGED policy
        BY <1>1, <2>1, <3>2 DEF serverVars
      <4>3. \A q \in Reqs : Starting(q) => op[q] # "create"
        BY <2>2 DEF OneStart
      <4> QED
        BY <1>1, <2>1, <4>1, <4>2, <4>3 DEF OneStart
    <3> QED
      BY <3>1, <3>2
  <2> QED
    BY <2>3, <2>4, <2>6, <2>7
<1> QED
  BY <1>4, <1>5

\* A request that fails, wherever it was, is given up by its callback.
LEMMA GiveUpKeeps ==
  ASSUME Screen, NEW j \in Jobs,
         net[j] \in {"sent", "answered", "refused", "reading"}, GiveUp(j),
         UNCHANGED serverVars, faults' \in 0..MaxFaults
  PROVE  Screen'
<1> USE DEF Screen
<1>0. Reqs \cap Polls = {}
  BY SurfaceAssumption DEF SurfaceAssumption
<1>1. /\ UNCHANGED <<conv, gStatus, gPending, dial, approved, turnedDown, op,
                     arg>>
      /\ net' \in [Jobs -> NetPcs]
      /\ \A k \in Jobs \ {j} : net'[k] = net[k]
      /\ net'[j] = IF j \in Polls THEN "free" ELSE "closed"
      /\ page' \in [Jobs -> SUBSET SUBSET Actions]
      /\ info' \in [Jobs -> Statuses \cup {"unread", "null"}]
      /\ \A k \in Jobs \ {j} : info'[k] = info[k]
      /\ gError' = TRUE
  BY DEF GiveUp, auditVars, SurfaceTypeOK, NetPcs
<1>2. TypeOK'
  BY TypesKept DEF SurfaceTypeOK
<1>3. /\ isStarting' = StartingAfter(j) /\ isStarting' \in BOOLEAN
      /\ isSending' = SendingAfter(j) /\ isSending' \in BOOLEAN
  BY DEF GiveUp, StartingAfter, SendingAfter
<1>4. SurfaceTypeOK'
  BY <1>1, <1>2, <1>3 DEF SurfaceTypeOK
<1>5. NothingAsked' /\ HandlersAsked' /\ RerunAsked' /\ IssuedOnce'
  BY <1>0, <1>1 DEF NothingAsked, HandlersAsked, RerunAsked, IssuedOnce,
     serverVars, handlerVars, tails, Jobs
<1>6. OneSend'
  BY <1>0, <1>1, <1>3 DEF OneSend, SendingAfter, Jobs
<1>7. Born'
  BY <1>0, <1>1 DEF Born, Starting, serverVars, logVars, Jobs
<1>8. OneStart'
  <2>1. CASE j \in Reqs /\ op[j] \in {"create", "run"}
    <3>1. Starting(j) /\ ~Starting(j)'
      BY <1>0, <1>1, <2>1 DEF Starting, IssuedOnce
    <3>2. \A q \in Reqs \ {j} : Starting(q)' => Starting(q)
      BY <1>1 DEF Starting, Jobs
    <3>3. \A q \in Reqs : ~Starting(q)'
      BY <2>1, <3>1, <3>2 DEF OneStart
    <3>4. ~isStarting'
      BY <1>3, <2>1 DEF StartingAfter
    <3> QED
      BY <3>3, <3>4 DEF OneStart
  <2>2. CASE ~(j \in Reqs /\ op[j] \in {"create", "run"})
    <3>1. \A q \in Reqs : Starting(q)' <=> Starting(q)
      BY <1>1, <2>2 DEF Starting, Jobs
    <3>2. (isStarting' <=> isStarting) /\ UNCHANGED policy
      BY <1>3, <2>2 DEF StartingAfter, serverVars
    <3>3. \A q \in Reqs : op[q] = "create" /\ Starting(q) =>
                            (net'[q] = net[q])
      BY <1>1, <2>2 DEF Jobs
    <3> QED
      BY <1>1, <3>1, <3>2, <3>3 DEF OneStart
  <2> QED
    BY <2>1, <2>2
<1> QED
  BY <1>4, <1>5, <1>6, <1>7, <1>8

\* The poll timer and the refreshes.
LEMMA ReadKeeps ==
  ASSUME Screen, NEW j \in Jobs,
         Read(j) \/ (j \in Polls /\ PollBegin(j))
  PROVE  Screen'
<1> USE DEF Screen
<1>0. Reqs \cap Polls = {} /\ MaxFaults \in Nat
  BY SurfaceAssumption DEF SurfaceAssumption
<1>1. /\ UNCHANGED <<serverVars, conv, isStarting, dial, approved, turnedDown,
                     op, arg>>
      /\ net' \in [Jobs -> NetPcs]
      /\ \A k \in Jobs \ {j} : net'[k] = net[k]
      /\ j \in Reqs => net[j] = "reading" /\ net'[j] \in {"reading", "closed"}
      /\ \A k \in Jobs \ {j} : info'[k] = info[k]
  BY <1>0 DEF Read, ReadPage, ReadInfo, Apply, PollBegin, viewVars, auditVars,
     readVars, SurfaceTypeOK, NetPcs
<1>2. TypeOK' /\ conv
  BY <1>0, <1>1, TypesKept DEF SurfaceTypeOK, NothingAsked, IssuedOnce, Read,
     ReadPage, ReadInfo, Apply, PollBegin, Polling, Jobs
<1>3. Unmatched \subseteq Actions
  BY ServerAssumption DEF Unmatched, Raised, Actions, ServerAssumption,
     SurfaceTypeOK, TypeOK, LogOK
<1>4. SurfaceTypeOK'
  <2>1. CASE ReadPage(j) \/ (j \in Polls /\ PollBegin(j))
    <3>1. UNCHANGED <<gStatus, gPending, gError, isSending, info, faults>>
      BY <2>1 DEF ReadPage, PollBegin, viewVars, readVars
    <3>2. page' \in [Jobs -> SUBSET SUBSET Actions]
      BY <1>3, <2>1 DEF ReadPage, PollBegin, readVars, SurfaceTypeOK
    <3> QED
      BY <1>1, <1>2, <3>1, <3>2 DEF SurfaceTypeOK
  <2>2. CASE ReadInfo(j)
    <3>1. /\ info' \in [Jobs -> Statuses \cup {"unread", "null"}]
          /\ faults' \in 0..MaxFaults
          /\ UNCHANGED <<gStatus, gPending, gError, isSending, page>>
      BY <1>0, <2>2 DEF ReadInfo, viewVars, SurfaceTypeOK, TypeOK, RunOK
    <3> QED
      BY <1>1, <1>2, <3>1 DEF SurfaceTypeOK
  <2>3. CASE Apply(j)
    <3>1. /\ gPending' \subseteq Actions
          /\ page' \in [Jobs -> SUBSET SUBSET Actions]
          /\ info' \in [Jobs -> Statuses \cup {"unread", "null"}]
          /\ UNCHANGED faults
          /\ gError' \in BOOLEAN /\ isSending' \in BOOLEAN
      BY <2>3 DEF Apply, SendingAfter, SurfaceTypeOK
    <3>2. gStatus' \in Statuses \cup {"null"} /\ gStatus' # "null"
      BY <1>2, <2>3 DEF Apply, StatusRead, SurfaceTypeOK, Statuses
    <3> QED
      BY <1>1, <1>2, <3>1, <3>2 DEF SurfaceTypeOK
  <2> QED
    BY <2>1, <2>2, <2>3 DEF Read
<1>5. NothingAsked' /\ HandlersAsked' /\ RerunAsked' /\ IssuedOnce'
  BY <1>0, <1>1, <1>2 DEF NothingAsked, HandlersAsked, RerunAsked, IssuedOnce,
     serverVars, handlerVars, tails, Jobs
<1>6. OneSend'
  <2>1. isSending' = isSending \/ isSending' = SendingAfter(j)
    BY DEF Read, ReadPage, ReadInfo, Apply, PollBegin, viewVars
  <2>2. UNCHANGED net \/ isSending' = SendingAfter(j) \/ j \in Polls
    BY DEF Read, ReadPage, ReadInfo, Apply, PollBegin
  <2> QED
    BY <1>0, <1>1, <2>1, <2>2 DEF OneSend, SendingAfter, Jobs
<1>7. \A q \in Reqs : Starting(q)' <=> Starting(q)
  BY <1>0, <1>1 DEF Starting, IssuedOnce, Jobs
<1>8. Born' /\ OneStart'
  <2>1. \A q \in Reqs : Starting(q) => q # j
    BY <1>1 DEF Starting, IssuedOnce
  <2> QED
    BY <1>1, <1>7, <2>1 DEF Born, OneStart, serverVars, logVars, Jobs
<1> QED
  BY <1>4, <1>5, <1>6, <1>8
-----------------------------------------------------------------------------
\* The invariant of the surface is inductive.
LEMMA SurfaceInductive == SurfaceSpec => []SurfaceInv
<1>1. SurfaceInit => SurfaceInv
  <2> SUFFICES ASSUME SurfaceInit PROVE SurfaceInv
    OBVIOUS
  <2> USE DEF SurfaceInit
  <2>1. TypeOK /\ GateInv
    BY TypesAtInit, GateAtInit
  <2>2. SurfaceTypeOK
    <3>1. DefaultStop \in Policies /\ 0 \in 0..MaxFaults
      BY SurfaceAssumption DEF SurfaceAssumption
    <3>2. /\ op \in [Reqs -> {"none", "create", "run"} \cup AllControls]
          /\ arg \in [Reqs -> Policies]
          /\ net \in [Jobs -> NetPcs]
      BY <3>1 DEF NetPcs
    <3>3. /\ page \in [Jobs -> SUBSET SUBSET Actions]
          /\ info \in [Jobs -> Statuses \cup {"unread", "null"}]
      OBVIOUS
    <3> QED
      BY <2>1, <3>1, <3>2, <3>3 DEF SurfaceTypeOK
  <2>3. /\ NothingAsked /\ HandlersAsked /\ RerunAsked /\ IssuedOnce /\ Born
        /\ OneStart /\ OneSend
    BY DEF Init, NothingAsked, HandlersAsked, RerunAsked, IssuedOnce, Born,
       OneStart, OneSend, Starting, Jobs
  <2> QED
    BY <2>1, <2>2, <2>3 DEF SurfaceInv, Screen
<1>2. ASSUME SurfaceInv, SurfaceNext PROVE Screen'
  <2>1. Screen /\ TypeOK'
    BY <1>2, ServerStands DEF SurfaceInv
  <2>2. ASSUME NEW r \in Reqs,
               Click(r) \/ Arrival(r) \/ Handled(r) \/ Receive(r)
        PROVE  Screen'
    <3>1. CASE Refused(r)
      BY <2>1, <3>1, GiveUpKeeps DEF Refused, Screen, SurfaceTypeOK, Jobs
    <3> QED
      BY <2>1, <2>2, <3>1, ClickKeeps, ArrivalKeeps, HandledKeeps, AnswerKeeps
         DEF Receive
  <2>3. ASSUME NEW j \in Jobs, Fail(j) PROVE Screen'
    <3>1. faults' \in 0..MaxFaults
      BY <2>1, <2>3, SurfaceAssumption DEF Fail, Screen, SurfaceTypeOK,
         SurfaceAssumption
    <3> QED
      BY <2>1, <2>3, <3>1, GiveUpKeeps DEF Fail
  <2>4. ASSUME NEW j \in Jobs, Read(j) \/ (j \in Polls /\ PollBegin(j))
        PROVE  Screen'
    BY <2>1, <2>4, ReadKeeps
  <2>5. Polls \subseteq Jobs
    BY DEF Jobs
  <2> QED
    BY <1>2, <2>1, <2>2, <2>3, <2>4, <2>5, DialKeeps, AloneKeeps
       DEF SurfaceNext
<1>3. SurfaceInv /\ UNCHANGED vars => Screen'
  <2> SUFFICES ASSUME SurfaceInv, UNCHANGED vars PROVE Screen'
    OBVIOUS
  <2>1. TypeOK'
    BY TypesKept DEF SurfaceInv, Screen, SurfaceTypeOK, vars
  <2> QED
    BY <2>1 DEF SurfaceInv, Screen, vars, serverVars, logVars, handlerVars,
       tails, guiVars, viewVars, auditVars, readVars, SurfaceTypeOK,
       NothingAsked, HandlersAsked, RerunAsked, IssuedOnce, Born, OneStart,
       OneSend, Starting
<1>4. SurfaceInv /\ [SurfaceNext]_vars => SurfaceInv'
  BY <1>2, <1>3, ServerStands DEF SurfaceInv
<1> QED
  BY <1>1, <1>4, PTL DEF SurfaceSpec

\* The hook's state, the audit log, the requests and the server keep the values
\* their code gives them, whatever overtakes what and whatever fails.
THEOREM SurfaceTypes == SurfaceSpec => []SurfaceTypeOK
BY SurfaceInductive, PTL DEF SurfaceInv, Screen

\* The first run of a conversation is made under the policy the dial shows: the
\* dial is locked while the one request of start() is under way, and nothing
\* that sets a policy can have been asked for before a conversation is adopted.
THEOREM FirstRunUnderDial == SurfaceSpec => []DialHolds
<1>1. SurfaceInv => DialHolds
  BY DEF SurfaceInv, Screen, OneStart, DialHolds, Starting
<1> QED
  BY <1>1, SurfaceInductive, PTL

\* Start drives one conversation: at most one creation is under way, and once
\* it is adopted none is, although a failed start may be tried again.
THEOREM StartsOne == SurfaceSpec => []OneConversation
<1>1. SurfaceInv => OneConversation
  BY DEF SurfaceInv, Screen, OneStart, OneConversation, Starting
<1> QED
  BY <1>1, SurfaceInductive, PTL

\* A form that is disabled has a request under way whose end, good or bad,
\* enables it again.
THEOREM BusyFormsEnd == SurfaceSpec => []BusyHasRequest
<1>1. SurfaceInv => BusyHasRequest
  <2> SUFFICES ASSUME SurfaceInv PROVE BusyHasRequest
    OBVIOUS
  <2>1. isStarting => \E r \in Reqs : /\ op[r] \in {"create", "run"}
                                     /\ net[r] \notin {"reading", "closed"}
    BY DEF SurfaceInv, Screen, OneStart, Starting
  <2> QED
    BY <2>1 DEF SurfaceInv, Screen, OneSend, BusyHasRequest
<1> QED
  BY <1>1, SurfaceInductive, PTL

\* Nothing runs in a step that leaves the counts alone, ...
LEMMA StillRuns ==
  ASSUME TypeOK, UNCHANGED runs
  PROVE  /\ \A a \in Actions : ~Runs(a)
         /\ \A a \in gated : ~Runs(a)
<1>1. gated \subseteq Actions /\ runs \in [Actions -> Nat]
  BY ServerAssumption DEF TypeOK, LogOK, Raised, Actions, ServerAssumption
<1> QED
  BY <1>1 DEF Runs

\* ... and nothing has run in a conversation that was just created.
LEMMA StartsFresh ==
  ASSUME TypeOK, runs' = [a \in Actions |-> 0]
  PROVE  /\ \A a \in Actions : ~Runs(a)
         /\ \A a \in gated : ~Runs(a)
<1>1. gated \subseteq Actions /\ runs \in [Actions -> Nat]
  BY ServerAssumption DEF TypeOK, LogOK, Raised, Actions, ServerAssumption
<1> QED
  BY <1>1 DEF Runs

\* A held action runs only once it was let go, and once the run of Start is
\* under way only an approval or a follow-up message lets one go: a re-run is
\* owed only to a message, and every other handler leaves the actions held.
THEOREM OnlyOperatorReleases == SurfaceSpec => NeedsOperator
<1> DEFINE LetGo == \A a \in gated : Runs(a) => a \in resumed
           Asked == \E r \in Reqs : \/ op[r] \in {"send", "approve"}
                                   \/ (op[r] = "run" /\ hnd[r] = "new")
           Kept == (resumed' \ resumed) \cap gated = {}
<1>1. ASSUME SurfaceInv, SurfaceNext PROVE LetGo
  <2>1. SurfaceTypeOK /\ GateInv'
    BY <1>1, ServerStands DEF SurfaceInv, Screen
  <2>2. CASE Next
    <3>1. CASE ExecBatch
      <4>1. /\ UNCHANGED <<gated, resumed>>
            /\ executed' = executed \cup Ran
            /\ runs' = [a \in Actions |->
                          IF a \in Ran THEN runs[a] + 1 ELSE runs[a]]
        BY <2>1, <3>1, ExecutedGrows DEF ExecBatch, Untouched, SurfaceTypeOK
      <4>2. \A a \in gated : Runs(a) => a \in executed'
        BY <2>1, <4>1, ServerAssumption DEF Runs, SurfaceTypeOK, TypeOK, LogOK,
           Raised, Actions, ServerAssumption
      <4> QED
        BY <2>1, <4>1, <4>2 DEF GateInv, GatedHeld
    <3>2. CASE ~ExecBatch
      <4>1. runs' = runs
        BY <2>2, <3>2, NextLogs DEF Quiet, Logs, EmitAction, EmitOrphans,
           Crash, RejectCommit, Interrupt
      <4> QED
        BY <2>1, <4>1, StillRuns DEF SurfaceTypeOK
    <3> QED
      BY <3>1, <3>2
  <2>3. ASSUME NEW r \in Reqs, CreateAnother(arg[r]) PROVE LetGo
    <3>1. runs' = [a \in Actions |-> 0]
      BY <2>3 DEF CreateAnother
    <3> QED
      BY <2>1, <3>1, StartsFresh DEF SurfaceTypeOK
  <2>4. CASE UNCHANGED serverVars
    <3>1. runs' = runs
      BY <2>4 DEF serverVars, logVars
    <3> QED
      BY <2>1, <3>1, StillRuns DEF SurfaceTypeOK
  <2> QED
    BY <1>1, <2>1, <2>2, <2>3, <2>4, SurfaceSteps
<1>2. ASSUME SurfaceInv, SurfaceNext PROVE Kept \/ Asked
  <2> USE <1>2 DEF SurfaceInv, Screen
  <2>0. TypeOK
    BY DEF SurfaceTypeOK
  <2>1. ASSUME UNCHANGED serverVars PROVE Kept
    BY <2>1 DEF serverVars
  <2>2. ASSUME NEW r \in Reqs, Arrival(r) PROVE Kept \/ Asked
    <3>1. CASE op[r] = "create"
      <4>1. CreateAnother(arg[r]) \/ Create(arg[r])
        BY <2>2, <3>1 DEF Arrival
      <4>2. CreateAnother(arg[r]) => Kept
        BY DEF CreateAnother
      <4>3. Create(arg[r]) => Kept
        BY DEF Create, StartRun, Born, Pending, Raised
      <4> QED
        BY <4>1, <4>2, <4>3
    <3>2. CASE op[r] = "run" \/ op[r] = "approve"
      BY <2>0, <2>2, <3>2, ArrivalSeen
    <3>3. CASE op[r] \notin {"create", "run", "approve"}
      <4>1. resumed' = resumed
        BY <2>2, <3>3 DEF Arrival, SetPolicy, Interrupt, SendBegin, RejectRead,
           PauseBegin
      <4> QED
        BY <4>1
    <3> QED
      BY <3>1, <3>2, <3>3
  <2>3. ASSUME NEW r \in Reqs, Handled(r) PROVE Kept \/ Asked
    <3>1. resumed' = resumed \/ op[r] = "send"
      BY <2>0, <2>3, HandlerSeen DEF Handled, HandlersAsked
    <3> QED
      BY <3>1
  <2>4. CASE ServerAlone
    <3>1. resumed' = resumed \/ \E r \in Reqs : op[r] = "send"
      BY <2>0, <2>4, TaskSeen DEF ServerAlone, ServerStep, RerunAsked
    <3> QED
      BY <3>1
  <2>5. ASSUME NEW r \in Reqs, Click(r) \/ Receive(r)
        PROVE  UNCHANGED serverVars
    BY <2>5 DEF Click, ClickStart, ClickSend, ClickApprove, ClickReject,
       ClickPause, ClickStop, Issue, Receive, Created, Started, Stopped,
       Refresh, Refused
  <2>6. ASSUME NEW p \in Policies, TurnDial(p) PROVE UNCHANGED serverVars
    BY <2>6 DEF TurnDial, Issue
  <2>7. ASSUME NEW j \in Jobs, Read(j) \/ Fail(j) \/ PollBegin(j)
        PROVE  UNCHANGED serverVars
    BY <2>7 DEF Read, Fail, ReadPage, ReadInfo, Apply, PollBegin
  <2>8. Polls \subseteq Jobs
    BY DEF Jobs
  <2> QED
    BY <2>1, <2>2, <2>3, <2>4, <2>5, <2>6, <2>7, <2>8 DEF SurfaceNext
<1>3. SurfaceInv /\ [SurfaceNext]_vars =>
        [LetGo /\ ((resumed' \ resumed) \cap gated # {} => Asked)]_vars
  BY <1>1, <1>2
<1> QED
  BY <1>3, SurfaceInductive, PTL DEF SurfaceSpec, NeedsOperator
-----------------------------------------------------------------------------
(***************************************************************************)
(* The server under the surface.                                           *)
(***************************************************************************)
\* What the server's own theorems rest on.
ServerInv == AtRest /\ WaitingInv /\ RestartInv

\* The surface leaves it to the server, and a conversation that is created after
\* one that was lost starts with nothing to answer for.
LEMMA PromisesKept ==
  ASSUME SurfaceInv, ServerInv, [SurfaceNext]_vars
  PROVE  ServerInv'
<1>0. TypeOK /\ TypeOK' /\ GateInv /\ SurfaceTypeOK
  BY ServerStands DEF SurfaceInv, Screen, SurfaceTypeOK
<1>1. CASE [Next]_serverVars
  BY <1>0, <1>1, RestKept, WaitingKept, RestartKept DEF ServerInv
<1>2. ASSUME NEW r \in Reqs, CreateAnother(arg[r]), Save, op[r] = "create",
             net[r] = "sent"
      PROVE  ServerInv'
  <2>1. /\ status' = "idle" /\ task' = "start"
        /\ Raised' = {} /\ Settled' = {} /\ executed' = {}
        /\ failed' = {} /\ rejected' = {}
        /\ stranded' = {} /\ torn' = {} /\ marked' = {} /\ vetoed' = {}
        /\ exposed' = {}
    BY <1>2 DEF CreateAnother, Settled, Raised, executed
  <2>2. saved' = BaseState'
    BY <1>2, <2>1 DEF Save, InStep
  <2>3. saved'.status = "idle"
    BY <2>1, <2>2 DEF BaseState
  <2>4. AtRest' /\ WaitingInv'
    BY <2>1, <2>2, <2>3 DEF AtRest, WaitingInv, WaitingMeansPending,
       WaitingAtRest, SavedMeansPending
  <2>5. VetoHolds' /\ StepKeeps' /\ ReadFromBranch' /\ Cancellable'
    BY <2>1 DEF VetoHolds, StepKeeps, InStep, ReadFromBranch, Cancellable
  <2>6. SafeNow' /\ SafeIfCut'
    BY <2>1 DEF SafeNow, SafeIfCut, SafeWith
  <2> QED
    BY <2>4, <2>5, <2>6 DEF ServerInv, RestartInv
<1>3. CASE UNCHANGED vars
  BY <1>1, <1>3 DEF vars
<1> QED
  BY <1>0, <1>1, <1>2, <1>3, SurfaceSteps

\* They hold from the start.
LEMMA PromisesInductive == SurfaceSpec => []ServerInv
<1>1. SurfaceInit => ServerInv
  BY DEF SurfaceInit, Init, ServerInv, AtRest, WaitingInv, WaitingMeansPending,
     WaitingAtRest, SavedMeansPending, BaseState, RestartInv, SafeNow,
     SafeIfCut, SafeWith, ReadFromBranch, StepKeeps, Cancellable, VetoHolds,
     Window, Pending, Raised, InStep, Settled, executed
<1>2. SurfaceInv /\ ServerInv /\ [SurfaceNext]_vars => ServerInv'
  BY PromisesKept
<1> QED
  BY <1>1, <1>2, SurfaceInductive, PTL DEF SurfaceSpec

\* Whatever the operator clicks and the network fails, a held action runs only
\* once it was let go, a conversation that waits has something to confirm, and
\* what a hook has blocked runs only if a restart has fallen into the window of
\* a cancellation.
THEOREM PromisesStand ==
  SurfaceSpec => [](GatedHeld /\ WaitingMeansPending /\ VetoHolds)
<1>1. SurfaceInv /\ ServerInv => GatedHeld /\ WaitingMeansPending /\ VetoHolds
  BY DEF SurfaceInv, GateInv, ServerInv, WaitingInv, RestartInv
<1> QED
  BY <1>1, SurfaceInductive, PromisesInductive, PTL

\* No retry, no second card and no repeated approval runs an action that was
\* answered: only a restart that lost its answer lets it run.
THEOREM NoRetryRunsAgain == SurfaceSpec => NeverRunAgain
<1>1. ASSUME SurfaceInv, ServerInv, [SurfaceNext]_vars
      PROVE  [RunsOnce /\ AnswersStay]_serverVars
  <2>0. TypeOK /\ SurfaceTypeOK /\ RestartInv
    BY <1>1 DEF SurfaceInv, Screen, SurfaceTypeOK, ServerInv
  <2>1. CASE [Next]_serverVars
    BY <2>0, <2>1, AnswersKept
  <2>2. ASSUME NEW r \in Reqs, CreateAnother(arg[r])
        PROVE  RunsOnce /\ AnswersStay
    <3>1. /\ runs' = [a \in Actions |-> 0] /\ Raised' = {}
          /\ executed' = {} /\ rejected' = {} /\ failed' = {}
      BY <2>2 DEF CreateAnother, Raised, executed
    <3> QED
      BY <2>0, <3>1, StartsFresh DEF RunsOnce, AnswersStay, Pending
  <2>3. CASE UNCHANGED vars
    BY <2>3 DEF vars
  <2> QED
    BY <1>1, <2>0, <2>1, <2>2, <2>3, SurfaceSteps
<1>2. SurfaceInv /\ ServerInv /\ [SurfaceNext]_vars =>
        [RunsOnce /\ AnswersStay]_serverVars
  BY <1>1
<1> QED
  BY <1>2, SurfaceInductive, PromisesInductive, PTL
     DEF SurfaceSpec, NeverRunAgain, RunsOnce, AnswersStay
-----------------------------------------------------------------------------
\* No creation has failed: each is under way or was adopted.
CreationsArrive == \A r \in Reqs : op[r] = "create" => net[r] # "closed"

\* A conversation that exists was adopted, or its id is on the way to the hook.
Reachable ==
  status # "absent" =>
    conv \/ \E r \in Reqs : op[r] = "create" /\ net[r] = "answered"

\* As long as no creation fails, the conversation is reachable, ...
LEMMA ReachableKept ==
  ASSUME SurfaceInv, Reachable, [SurfaceNext]_vars, CreationsArrive'
  PROVE  Reachable'
<1> USE DEF Reachable
<1>0. /\ SurfaceTypeOK /\ TypeOK /\ NothingAsked /\ HandlersAsked /\ Born
      /\ IssuedOnce
  BY DEF SurfaceInv, Screen, SurfaceTypeOK
<1>1. ASSUME NEW r \in Reqs, Click(r) PROVE Reachable'
  <2>1. op[r] = "none" /\ UNCHANGED <<status, conv>>
        /\ \A q \in Reqs \ {r} : op'[q] = op[q] /\ net'[q] = net[q]
    BY <1>0, <1>1 DEF Click, ClickStart, ClickSend, ClickApprove, ClickReject,
       ClickPause, ClickStop, Issue, serverVars, SurfaceTypeOK, IssuedOnce, Jobs
  <2> QED
    BY <2>1
<1>2. ASSUME NEW p \in Policies, TurnDial(p) PROVE Reachable'
  <2>1. (conv /\ conv' = conv) \/ UNCHANGED <<status, conv, op, net>>
    BY <1>0, <1>2 DEF TurnDial, Issue, serverVars
  <2> QED
    BY <2>1
<1>3. ASSUME NEW r \in Reqs, Arrival(r) PROVE Reachable'
  <2>1. CASE op[r] = "create"
    BY <1>0, <1>3, <2>1 DEF Arrival, Answer, RestOfGui, SurfaceTypeOK, Jobs
  <2>2. CASE op[r] # "create"
    <3>1. status # "absent"
      BY <1>0, <1>3, <2>2, ArrivalSeen
    <3>2. UNCHANGED <<conv, op>> /\ \A q \in Reqs \ {r} : net'[q] = net[q]
      BY <1>0, <1>3 DEF Arrival, Answer, RestOfGui, SurfaceTypeOK, Jobs
    <3> QED
      BY <2>2, <3>1, <3>2
  <2> QED
    BY <2>1, <2>2
<1>4. ASSUME NEW r \in Reqs, Handled(r) PROVE Reachable'
  <2>1. op[r] # "create" /\ op[r] # "none"
    BY <1>0, <1>4, HandlerSeen DEF Handled, HandlersAsked
  <2>2. conv
    BY <1>0, <2>1 DEF NothingAsked
  <2> QED
    BY <1>4, <2>2 DEF Handled, RestOfGui
<1>5. CASE ServerAlone
  <2>1. status = "absent" => status' = "absent"
    BY <1>0, <1>5, TaskSeen DEF ServerAlone, ServerStep, Born
  <2> QED
    BY <1>5, <2>1 DEF ServerAlone, guiVars
<1>6. ASSUME NEW r \in Reqs, Receive(r) PROVE Reachable'
  <2>1. CASE Created(r)
    BY <2>1 DEF Created
  <2>2. CASE ~Created(r)
    <3>1. /\ UNCHANGED <<status, conv, op>> /\ op[r] # "create"
          /\ \A q \in Reqs \ {r} : net'[q] = net[q]
      BY <1>0, <1>6, <2>2 DEF Receive, Started, Stopped, Refresh, Refused,
         GiveUp, serverVars, SurfaceTypeOK, IssuedOnce, Jobs
    <3> QED
      BY <3>1
  <2> QED
    BY <2>1, <2>2
<1>7. ASSUME NEW j \in Jobs, Read(j) \/ (j \in Polls /\ PollBegin(j))
      PROVE  Reachable'
  <2>1. /\ UNCHANGED <<status, conv, op>> /\ net[j] # "answered"
        /\ \A q \in Reqs \ {j} : net'[q] = net[q]
    BY <1>0, <1>7 DEF Read, ReadPage, ReadInfo, Apply, PollBegin, serverVars,
       SurfaceTypeOK, Jobs
  <2> QED
    BY <2>1
<1>8. ASSUME NEW j \in Jobs, Fail(j) PROVE Reachable'
  <2>1. /\ UNCHANGED <<status, conv, op>>
        /\ \A q \in Reqs \ {j} : net'[q] = net[q]
        /\ j \in Reqs => net'[j] = "closed"
    BY <1>0, <1>8, SurfaceAssumption DEF Fail, GiveUp, serverVars,
       SurfaceTypeOK, Jobs, SurfaceAssumption
  <2>2. j \in Reqs => op[j] # "create"
    BY <2>1 DEF CreationsArrive
  <2> QED
    BY <2>1, <2>2
<1>9. CASE UNCHANGED vars
  BY <1>9 DEF vars, serverVars, guiVars
<1>10. Polls \subseteq Jobs
  BY DEF Jobs
<1> QED
  BY <1>1, <1>2, <1>3, <1>4, <1>5, <1>6, <1>7, <1>8, <1>9, <1>10
     DEF SurfaceNext

\* ... so that no step of the surface puts another in its place: what the
\* operator drives is the server, and it keeps the promise of the gate.
THEOREM ServerUnderneath == SurfaceSpec /\ []CreationsArrive => Spec /\ GateSpec
<1>1. SurfaceInit => Init /\ Reachable
  BY DEF SurfaceInit, Init, Reachable
<1>2. SurfaceInv /\ Reachable /\ [SurfaceNext]_vars => [Next]_serverVars
  <2> SUFFICES ASSUME SurfaceInv, Reachable, [SurfaceNext]_vars
               PROVE  [Next]_serverVars
    OBVIOUS
  <2>1. ASSUME NEW r \in Reqs, CreateAnother(arg[r]), op[r] = "create",
               net[r] = "sent"
        PROVE  FALSE
    <3>1. status # "absent" /\ ~conv
      BY <2>1 DEF CreateAnother, SurfaceInv, Screen, OneStart, Starting
    <3>2. PICK q \in Reqs : op[q] = "create" /\ net[q] = "answered"
      BY <3>1 DEF Reachable
    <3> QED
      BY <2>1, <3>2 DEF SurfaceInv, Screen, OneStart, Starting
  <2>2. CASE UNCHANGED vars
    BY <2>2 DEF vars
  <2> QED
    BY <2>1, <2>2, SurfaceSteps DEF SurfaceInv, Screen
<1>3. SurfaceInv /\ Reachable /\ [SurfaceNext]_vars /\ CreationsArrive'
      => Reachable'
  BY ReachableKept
<1>4. SurfaceSpec /\ []CreationsArrive => Spec
  BY <1>1, <1>2, <1>3, SurfaceInductive, PTL DEF SurfaceSpec, Spec
<1> QED
  BY <1>4, GateRefined
=============================================================================
