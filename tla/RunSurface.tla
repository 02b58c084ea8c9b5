----------------------------- MODULE RunSurface -----------------------------
(***************************************************************************)
(* The run surface of the GUI against one conversation of the agent-server *)
(* (AgentServer): the hook useConversation with its poll loop, the         *)
(* controls RunView wires to it, and the authorization audit log.          *)
(*                                                                         *)
(* A click issues an HTTP request, named by a member of Reqs.  The request *)
(* travels, is handled by the server's actions, and its answer travels     *)
(* back; requests may overtake one another, and may fail.  A refresh reads *)
(* the event page and the conversation by two requests of their own.       *)
(***************************************************************************)
EXTENDS AgentServer

CONSTANTS
  Polls,       \* polls that can be under way at once
  Controls,    \* the controls the operator uses in a behaviour
  DefaultStop, \* the policy of the dial's default stop
  MaxFaults    \* bound: failed requests

AllControls == {"start", "send", "approve", "reject", "policy", "pause", "stop"}

ASSUME SurfaceAssumption ==
  /\ Controls \subseteq AllControls
  /\ DefaultStop \in Policies
  /\ MaxFaults \in Nat
  /\ Reqs \cap Polls = {}

VARIABLES
  conv,       \* conversationId is not null
  gStatus,    \* the hook's status; "null" before the first answer
  gPending,   \* pendingActionsFromEvents of the hook's events
  gError,     \* error is not null
  isStarting,
  isSending,
  dial,       \* RunView's trustStop, as the policy it maps to
  approved,   \* actions with an approval entry in the audit log
  turnedDown, \* actions with a rejection entry
  op,         \* what each request asks for; "none" while it is not issued
  arg,        \* the policy it carries
  net,        \* where it is
  page,       \* per refresh: at most one event page, as its unmatched actions
  info,       \* per refresh or creation: the execution_status read
  faults

viewVars == <<gStatus, gPending, gError, isStarting, isSending>>
auditVars == <<approved, turnedDown, dial>>
readVars == <<page, info>>
guiVars == <<conv, viewVars, auditVars, op, arg, net, readVars, faults>>
vars == <<serverVars, guiVars>>

Jobs == Reqs \cup Polls
NetPcs == {"free", "sent", "answered", "refused", "reading", "closed"}

SurfaceInit ==
  /\ Init
  /\ conv = FALSE
  /\ gStatus = "null"
  /\ gPending = {}
  /\ gError = FALSE
  /\ isStarting = FALSE
  /\ isSending = FALSE
  /\ dial = DefaultStop
  /\ approved = {}
  /\ turnedDown = {}
  /\ op = [r \in Reqs |-> "none"]
  /\ arg = [r \in Reqs |-> DefaultStop]
  /\ net = [j \in Jobs |-> "free"]
  /\ page = [j \in Jobs |-> {}]
  /\ info = [j \in Jobs |-> "unread"]
  /\ faults = 0
-----------------------------------------------------------------------------
(***************************************************************************)
(* The operator.  A click clears the error and issues one request.         *)
(***************************************************************************)
Issue(r, o, p) ==
  /\ net[r] = "free"
  /\ net' = [net EXCEPT ![r] = "sent"]
  /\ op' = [op EXCEPT ![r] = o]
  /\ arg' = [arg EXCEPT ![r] = p]
  /\ gError' = FALSE
  /\ UNCHANGED <<serverVars, conv, gStatus, gPending, readVars, faults>>

\* Mutant: Start stays enabled while the conversation is being created.
CanStartTwice == ~conv

CanStart == ~isStarting /\ ~conv

ClickStart(r) ==
  /\ "start" \in Controls
  /\ CanStart
  /\ Issue(r, "create", dial)
  /\ isStarting' = TRUE
  /\ UNCHANGED <<isSending, auditVars>>

ClickSend(r) ==
  /\ "send" \in Controls
  /\ conv /\ ~isSending
  /\ Issue(r, "send", DefaultStop)
  /\ isSending' = TRUE
  /\ UNCHANGED <<isStarting, auditVars>>

\* Mutant: the dial is never locked.
DialUnlocked == TRUE

DialEnabled == ~isStarting

\* The dial moves at once; a request goes out only when there is a
\* conversation to apply it to.
TurnDial(p) ==
  /\ "policy" \in Controls
  /\ DialEnabled
  /\ dial' = p
  /\ \/ /\ ~conv
        /\ UNCHANGED <<serverVars, conv, viewVars, op, arg, net,
                       readVars, faults>>
     \/ /\ conv
        /\ \E r \in Reqs : Issue(r, "policy", p)
        /\ UNCHANGED <<isStarting, isSending>>
  /\ UNCHANGED <<approved, turnedDown>>

Cards == IF gStatus = "waiting" THEN gPending ELSE {}

\* The audit entry names the card; the request names no action.
ClickApprove(r, a) ==
  /\ "approve" \in Controls
  /\ a \in Cards
  /\ Issue(r, "approve", DefaultStop)
  /\ approved' = approved \cup {a}
  /\ UNCHANGED <<isStarting, isSending, dial, turnedDown>>

ClickReject(r, a) ==
  /\ "reject" \in Controls
  /\ a \in Cards
  /\ Issue(r, "reject", DefaultStop)
  /\ turnedDown' = turnedDown \cup {a}
  /\ UNCHANGED <<isStarting, isSending, dial, approved>>

ClickPause(r) ==
  /\ "pause" \in Controls
  /\ conv
  /\ Issue(r, "pause", DefaultStop)
  /\ UNCHANGED <<isStarting, isSending, auditVars>>

ClickStop(r) ==
  /\ "stop" \in Controls
  /\ conv
  /\ Issue(r, "stop", DefaultStop)
  /\ UNCHANGED <<isStarting, isSending, auditVars>>

Click(r) ==
  \/ ClickStart(r) \/ ClickSend(r) \/ ClickPause(r) \/ ClickStop(r)
  \/ \E a \in Actions : ClickApprove(r, a) \/ ClickReject(r, a)
-----------------------------------------------------------------------------
(***************************************************************************)
(* The server's side of a request: it arrives once, in any order.          *)
(***************************************************************************)
Answer(r, how) == net' = [net EXCEPT ![r] = how]
RestOfGui == UNCHANGED <<conv, viewVars, auditVars, op, arg, page, faults>>

\* A conversation whose id never reached the GUI runs on in the server; the
\* model follows the one that is created after it.
CreateAnother(p) ==
  /\ status # "absent"
  /\ status' = "idle"
  /\ task' = "start"
  /\ iter' = 0
  /\ policy' = p
  /\ stored' = p
  /\ nRaised' = 0
  /\ finishes' = {}
  /\ gated' = {}
  /\ runs' = [a \in Actions |-> 0]
  /\ rejected' = {}
  /\ failed' = {}
  /\ stranded' = {}
  /\ torn' = {}
  /\ marked' = {}
  /\ vetoed' = {}
  /\ exposed' = {}
  /\ resumed' = {}
  /\ unread' = TRUE
  /\ ended' = 0
  /\ UNCHANGED <<rerun, owed, fresh, snap, hnd, crashes>>

\* POST /run answers 409 when the run is refused; accepting a confirmation
\* does not.  Only the answer to a creation is read: it carries the status of
\* the conversation that was made.
Arrival(r) ==
  /\ net[r] = "sent"
  /\ RestOfGui
  /\ \/ /\ op[r] = "create" /\ (Create(arg[r]) \/ CreateAnother(arg[r]))
        /\ Answer(r, "answered")
     \/ /\ op[r] = "run" /\ Run(r)
        /\ Answer(r, IF CanRun THEN "answered" ELSE "refused")
     \/ op[r] = "approve" /\ Run(r) /\ Answer(r, "answered")
     \/ op[r] = "policy" /\ SetPolicy(r, arg[r]) /\ Answer(r, "answered")
     \/ op[r] = "stop" /\ Interrupt(r) /\ Answer(r, "answered")
     \/ op[r] = "send" /\ SendBegin(r) /\ UNCHANGED net
     \/ op[r] = "reject" /\ RejectRead(r) /\ UNCHANGED net
     \/ op[r] = "pause" /\ PauseBegin(r) /\ UNCHANGED net
  /\ info' = IF op[r] = "create" THEN [info EXCEPT ![r] = status'] ELSE info
  /\ Save

\* The request is answered when its handler ends, whether or not the browser
\* still waits for it.
Handled(r) ==
  /\ HandlerStep(r)
  /\ RestOfGui /\ UNCHANGED info
  /\ net' = IF net[r] = "sent" /\ hnd'[r] = "done"
            THEN [net EXCEPT ![r] = "answered"] ELSE net

ServerAlone == ServerStep /\ UNCHANGED guiVars
-----------------------------------------------------------------------------
(***************************************************************************)
(* Answers.                                                                *)
(***************************************************************************)
\* The rest of start(): the conversation is adopted and its run requested.
Created(r) ==
  /\ net[r] = "answered" /\ op[r] = "create"
  /\ conv' = TRUE
  /\ gStatus' = info[r]
  /\ info' = [info EXCEPT ![r] = "unread"]
  /\ op' = [op EXCEPT ![r] = "run"]
  /\ net' = [net EXCEPT ![r] = "sent"]
  /\ UNCHANGED <<serverVars, gPending, gError, isStarting, isSending, auditVars,
                 arg, page, faults>>

Started(r) ==
  /\ net[r] = "answered" /\ op[r] = "run"
  /\ net' = [net EXCEPT ![r] = "closed"]
  /\ gStatus' = "running"
  /\ isStarting' = FALSE
  /\ UNCHANGED <<serverVars, conv, gPending, gError, isSending, auditVars,
                 op, arg, readVars, faults>>

\* pause() and stop() believe the answer and read nothing back.
Stopped(r) ==
  /\ net[r] = "answered" /\ op[r] \in {"pause", "stop"}
  /\ net' = [net EXCEPT ![r] = "closed"]
  /\ gStatus' = "paused"
  /\ UNCHANGED <<serverVars, conv, gPending, gError, isStarting, isSending,
                 auditVars, op, arg, readVars, faults>>

\* send() announces a running conversation; all of these refresh.
Refresh(r) ==
  /\ net[r] = "answered" /\ op[r] \in {"send", "policy", "approve", "reject"}
  /\ net' = [net EXCEPT ![r] = "reading"]
  /\ gStatus' = IF op[r] = "send" THEN "running" ELSE gStatus
  /\ UNCHANGED <<serverVars, conv, gPending, gError, isStarting, isSending,
                 auditVars, op, arg, readVars, faults>>

SendingAfter(j) == isSending /\ ~(j \in Reqs /\ op[j] = "send")

\* Mutant: Start is not enabled again.
StillStarting(j) == isStarting

StartingAfter(j) == isStarting /\ ~(j \in Reqs /\ op[j] \in {"create", "run"})

\* The catch and finally of the callback a request belongs to.
GiveUp(j) ==
  /\ gError' = TRUE
  /\ net' = [net EXCEPT ![j] = IF j \in Polls THEN "free" ELSE "closed"]
  /\ page' = [page EXCEPT ![j] = {}]
  /\ info' = [info EXCEPT ![j] = "unread"]
  /\ isStarting' = StartingAfter(j)
  /\ isSending' = SendingAfter(j)
  /\ UNCHANGED <<conv, gStatus, gPending, auditVars, op, arg>>

Refused(r) ==
  /\ net[r] = "refused"
  /\ GiveUp(r)
  /\ UNCHANGED <<serverVars, faults>>

\* The network fails a request.  One that had not arrived never does; one that
\* had takes its course.
Fail(j) ==
  /\ faults < MaxFaults
  /\ net[j] \in {"sent", "answered", "reading"}
  /\ faults' = faults + 1
  /\ GiveUp(j)
  /\ UNCHANGED serverVars
-----------------------------------------------------------------------------
(***************************************************************************)
(* refresh(): the page and the conversation are read at moments of their   *)
(* own and applied together when both have come back.                      *)
(***************************************************************************)
\* Mutant: only a running conversation is polled.
PollingWhileRunning == conv /\ gStatus = "running"

\* The timer is armed once there is a conversation and never stops.
Polling == conv

PollBegin(j) ==
  /\ Polling
  /\ net[j] = "free"
  /\ net' = [net EXCEPT ![j] = "reading"]
  /\ UNCHANGED <<serverVars, conv, viewVars, auditVars, op, arg, readVars,
                 faults>>

ReadPage(j) ==
  /\ net[j] = "reading" /\ page[j] = {}
  /\ page' = [page EXCEPT ![j] = {Unmatched}]
  /\ UNCHANGED <<serverVars, conv, viewVars, auditVars, op, arg, net, info,
                 faults>>

\* getConversation is best effort: it may fail by itself and leave the status.
ReadInfo(j) ==
  /\ net[j] = "reading" /\ info[j] = "unread"
  /\ \/ info' = [info EXCEPT ![j] = status] /\ UNCHANGED faults
     \/ /\ faults < MaxFaults
        /\ info' = [info EXCEPT ![j] = "null"]
        /\ faults' = faults + 1
  /\ UNCHANGED <<serverVars, conv, viewVars, auditVars, op, arg, net, page>>

\* Mutant: a conversation that could not be read sets the status as well.
StatusUnchecked(j) == info[j]

StatusRead(j) == IF info[j] = "null" THEN gStatus ELSE info[j]

\* The hook's view after the refresh; a poll that succeeds clears the error.
Apply(j) ==
  /\ net[j] = "reading" /\ page[j] # {} /\ info[j] # "unread"
  /\ gPending' = UNION page[j]
  /\ gStatus' = StatusRead(j)
  /\ gError' = (gError /\ j \notin Polls)
  /\ isSending' = SendingAfter(j)
  /\ net' = [net EXCEPT ![j] = IF j \in Polls THEN "free" ELSE "closed"]
  /\ page' = [page EXCEPT ![j] = {}]
  /\ info' = [info EXCEPT ![j] = "unread"]
  /\ UNCHANGED <<serverVars, conv, isStarting, auditVars, op, arg, faults>>
-----------------------------------------------------------------------------
Receive(r) == Created(r) \/ Started(r) \/ Stopped(r) \/ Refresh(r) \/ Refused(r)
Read(j) == ReadPage(j) \/ ReadInfo(j) \/ Apply(j)

SurfaceNext ==
  \/ \E r \in Reqs : Click(r) \/ Arrival(r) \/ Handled(r) \/ Receive(r)
  \/ \E p \in Policies : TurnDial(p)
  \/ \E j \in Jobs : Read(j) \/ Fail(j)
  \/ \E j \in Polls : PollBegin(j)
  \/ ServerAlone

SurfaceSpec == SurfaceInit /\ [][SurfaceNext]_vars

\* Requests travel, handlers and the run task run, the poll timer fires and
\* polls come back.  Nothing obliges the operator to click or a fault to occur.
SurfaceFairSpec ==
  /\ SurfaceSpec
  /\ WF_vars(ServerAlone)
  /\ \A r \in Reqs : /\ WF_vars(Arrival(r))
                     /\ WF_vars(Handled(r))
                     /\ WF_vars(Receive(r))
  /\ \A j \in Jobs : /\ WF_vars(ReadPage(j))
                     /\ WF_vars(ReadInfo(j))
                     /\ WF_vars(Apply(j))
  /\ \A j \in Polls : WF_vars(PollBegin(j))
-----------------------------------------------------------------------------
\* The hook's state, the audit log and the requests have the values the code
\* gives them.
SurfaceTypeOK ==
  /\ TypeOK
  /\ conv \in BOOLEAN
  /\ gStatus \in Statuses \cup {"null"} /\ (conv => gStatus # "null")
  /\ gPending \subseteq Actions
  /\ gError \in BOOLEAN
  /\ isStarting \in BOOLEAN
  /\ isSending \in BOOLEAN
  /\ dial \in Policies
  /\ approved \subseteq Actions
  /\ turnedDown \subseteq Actions
  /\ op \in [Reqs -> {"none", "create", "run"} \cup AllControls]
  /\ arg \in [Reqs -> Policies]
  /\ net \in [Jobs -> NetPcs]
  /\ page \in [Jobs -> SUBSET SUBSET Actions]
  /\ info \in [Jobs -> Statuses \cup {"unread", "null"}]
  /\ faults \in 0..MaxFaults

\* The first run of a conversation is made under the policy the dial shows:
\* the dial is locked from the click on Start until its run has been answered,
\* so it cannot part from the policy the conversation was created with.
DialHolds == isStarting /\ conv => policy = dial

\* Start drives one conversation: once one is adopted no other is being made,
\* although Start may be clicked again after a failure.
OneConversation ==
  conv => \A r \in Reqs : op[r] = "create" => net[r] \notin {"sent", "answered"}

\* A held action runs only once it was let go, and once the run that Start asks
\* for is under way only an approval or a follow-up lets one go: no dial, pause,
\* stop, rejection, failure or delay of any of them does.
NeedsOperator ==
  [][/\ \A a \in gated : Runs(a) => a \in resumed
     /\ (resumed' \ resumed) \cap gated # {} =>
          \E r \in Reqs : \/ op[r] \in {"send", "approve"}
                         \/ (op[r] = "run" /\ hnd[r] = "new")]_vars

\* Polling heals the view: whatever came back out of order or failed, the
\* screen ends up showing the server's status and open actions and no error.
ViewConverges ==
  <>[](conv => gStatus = status /\ gPending = Unmatched /\ ~gError)

\* A form that is disabled while its request is under way has one under way:
\* whichever of its steps fails, it is enabled again.
BusyHasRequest ==
  /\ isStarting => \E r \in Reqs : /\ op[r] \in {"create", "run"}
                                   /\ net[r] \notin {"reading", "closed"}
  /\ isSending => \E r \in Reqs : op[r] = "send" /\ net[r] # "closed"
-----------------------------------------------------------------------------
(***************************************************************************)
(* What the documents say and the code does not do.                        *)
(***************************************************************************)
\* A held action is let go by the operator's approval of it, the one the audit
\* log has an entry for, and by nothing else: not by the approval of another
\* card, not by a follow-up message, and not by the run that Start asks for.
OnlyApprovalReleases ==
  [][(resumed' \ resumed) \cap gated \subseteq approved]_vars
=============================================================================
