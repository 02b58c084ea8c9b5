----------------------------- MODULE EventPage -----------------------------
(***************************************************************************)
(* Which actions are pending: the event log of one conversation, the first *)
(* page of it that /events/search returns, and the scans that look for     *)
(* actions without an answer: get_unmatched_actions in the server and      *)
(* pendingActionsFromEvents in the GUI, and the GUI's reliability posture, *)
(* which gathers the answers of a page without their order.                *)
(*                                                                         *)
(* An observation or a rejection names its action; an error names only the *)
(* tool call, and the LLM may use the name of a tool call again.           *)
(***************************************************************************)
EXTENDS Naturals, Sequences

CONSTANTS
  Ids,        \* names of actions
  Calls,      \* names of tool calls, which may be reused
  MaxEvents,  \* bound: length of the log
  PageLimit   \* events in one page of /events/search

ASSUME PageAssumption == MaxEvents \in Nat /\ PageLimit \in Nat \ {0}

VARIABLES
  log,  \* the event log, append-only
  seen, \* the page the hook holds: the events of its last refresh
  lost  \* malformed calls whose error a restart has kept from the log (history)

eventVars == <<log, seen, lost>>

\* A malformed tool call leaves an ActionEvent whose action is None, and on the
\* wire a field that is None is left out.
ActionEvents == [kind : {"action", "malformed"}, id : Ids, call : Calls]
Answers == [kind : {"observation", "reject"}, id : Ids] \cup
           [kind : {"error"}, call : Calls]
Events == ActionEvents \cup Answers \cup [kind : {"prose", "other"}]

\* What pending means, without a scan: an executable action that no later
\* event answers.
AnsweredBy(a, e) ==
  \/ e.kind \in {"observation", "reject"} /\ e.id = a.id
  \/ e.kind = "error" /\ e.call = a.call

OpenAt(s) ==
  {i \in DOMAIN s : /\ s[i].kind = "action"
                    /\ \A j \in (i + 1)..Len(s) : ~AnsweredBy(s[i], s[j])}
-----------------------------------------------------------------------------
\* Mutant: an error is not matched by its tool call.
VisitWithoutErrors(acc, e) ==
  CASE e.kind \in {"observation", "reject"} ->
         [acc EXCEPT !.ids = @ \cup {e.id}]
    [] e.kind = "action" /\ e.id \notin acc.ids ->
         [acc EXCEPT !.unmatched = @ \cup {e.id}]
    [] OTHER -> acc

\* The body of the loop over the reversed events.
Visit(acc, e) ==
  CASE e.kind \in {"observation", "reject"} ->
         [acc EXCEPT !.ids = @ \cup {e.id}]
    [] e.kind = "error" ->
         [acc EXCEPT !.calls = @ \cup {e.call}]
    [] e.kind = "action" /\ e.id \notin acc.ids /\ e.call \notin acc.calls ->
         [acc EXCEPT !.unmatched = @ \cup {e.id}]
    [] OTHER -> acc

Nothing == [ids |-> {}, calls |-> {}, unmatched |-> {}]

\* What the loop has gathered when it has come back to the first event.
Scan(s) ==
  LET Acc[i \in 1..(Len(s) + 1)] ==
        IF i = Len(s) + 1 THEN Nothing ELSE Visit(Acc[i + 1], s[i])
  IN  Acc[1]

\* Mutant: an error answers its tool call until the name is used again.
UnmatchedByLastUse(s) ==
  {s[i].id : i \in {k \in DOMAIN s :
     /\ s[k].kind = "action"
     /\ \A j \in (k + 1)..Len(s) :
          AnsweredBy(s[k], s[j]) =>
            /\ s[j].kind = "error"
            /\ \E m \in (j + 1)..Len(s) :
                 s[m].kind = "action" /\ s[m].call = s[k].call}}

\* ConversationState.get_unmatched_actions.
GetUnmatchedActions(s) == Scan(s).unmatched

\* Mutant: an answer counts wherever it stands.
PendingWhateverOrder(s) ==
  {s[i].id : i \in {k \in DOMAIN s :
     s[k].kind = "action" /\ \A j \in DOMAIN s : ~AnsweredBy(s[k], s[j])}}

\* What the hook takes the objects of a page for: an action is one that has an
\* object for its action, which a malformed one has not.
IsActionEvent(e) == e.kind = "action"
IsActionObservation(e) == e.kind \in {"observation", "reject"}
IsAgentError(e) == e.kind = "error"

\* Mutant: a rejection is not taken for an answer.
VisitObservedOnly(acc, e) ==
  IF e.kind = "observation" THEN [acc EXCEPT !.ids = @ \cup {e.id}]
  ELSE IF IsAgentError(e) THEN [acc EXCEPT !.calls = @ \cup {e.call}]
  ELSE IF IsActionEvent(e) /\ e.id \notin acc.ids /\ e.call \notin acc.calls
       THEN [acc EXCEPT !.unmatched = @ \cup {e.id}] ELSE acc

\* The body of the hook's own loop over the objects of the page, reversed.
VisitWire(acc, e) ==
  IF IsActionObservation(e) THEN [acc EXCEPT !.ids = @ \cup {e.id}]
  ELSE IF IsAgentError(e) THEN [acc EXCEPT !.calls = @ \cup {e.call}]
  ELSE IF IsActionEvent(e) /\ e.id \notin acc.ids /\ e.call \notin acc.calls
       THEN [acc EXCEPT !.unmatched = @ \cup {e.id}] ELSE acc

\* pendingActionsFromEvents.
PendingActionsFromEvents(s) ==
  LET Acc[i \in 1..(Len(s) + 1)] ==
        IF i = Len(s) + 1 THEN Nothing ELSE VisitWire(Acc[i + 1], s[i])
  IN  Acc[1].unmatched

UpTo(s, n) == SubSeq(s, 1, IF Len(s) < n THEN Len(s) ELSE n)

\* EventService._search_events_sync with its default order and no page id.
FirstPage(s) == UpTo(s, PageLimit)
-----------------------------------------------------------------------------
(***************************************************************************)
(* The reliability posture.                                                *)
(***************************************************************************)
Answered(s, kinds) == {s[i].id : i \in {k \in DOMAIN s : s[k].kind \in kinds}}
FailedCalls(s) == {s[i].call : i \in {k \in DOMAIN s : s[k].kind = "error"}}

\* Mutant: a rejected action is left pending.
OutcomeUnlessRejected(s, e) ==
  IF e.call \in FailedCalls(s) THEN "failure"
  ELSE IF e.id \in Answered(s, {"observation"}) THEN "success" ELSE "pending"

\* toolCallObservations: the first set that has the action decides.
Outcome(s, e) ==
  IF e.call \in FailedCalls(s) THEN "failure"
  ELSE IF e.id \in Answered(s, {"observation"}) THEN "success"
  ELSE IF e.id \in Answered(s, {"reject"}) THEN "ignored"
  ELSE "pending"

\* Mutant: a rejection resolves nothing.
AbandonedUnlessRun(s) ==
  {s[i].id : i \in {k \in DOMAIN s :
     /\ s[k].kind \in {"action", "malformed"}
     /\ s[k].call \notin FailedCalls(s)
     /\ s[k].id \notin Answered(s, {"observation"})
     /\ \E j \in (k + 1)..Len(s) : s[j].kind = "prose"}}

\* detectFailureSignatures, its third part: prose after a call that nothing on
\* the page resolves.  It leaves out an action that is null, which none on the
\* wire is: the one of a malformed call is absent.
Abandoned(s) ==
  {s[i].id : i \in {k \in DOMAIN s :
     /\ s[k].kind \in {"action", "malformed"}
     /\ s[k].call \notin FailedCalls(s)
     /\ s[k].id \notin Answered(s, {"observation", "reject"})
     /\ \E j \in (k + 1)..Len(s) : s[j].kind = "prose"}}

Named(s, P) == {s[i].id : i \in P}
RaisedIn(s) ==
  Named(s, {i \in DOMAIN s : s[i].kind \in {"action", "malformed"}})
-----------------------------------------------------------------------------
Init ==
  /\ log = <<>>
  /\ seen = <<>>
  /\ lost = {}

LogEvent(e) ==
  /\ Len(log) < MaxEvents
  /\ log' = Append(log, e)
  /\ UNCHANGED <<seen, lost>>

\* The error of a malformed call is emitted with it, under the state lock.
HalfEmitted ==
  /\ log # <<>>
  /\ log[Len(log)].kind = "malformed"
  /\ log[Len(log)].id \notin lost

Emit(e) == ~HalfEmitted /\ LogEvent(e)

\* An ActionEvent has a fresh id; an answer follows the action it answers.
Raise == \E e \in ActionEvents : e.id \notin RaisedIn(log) /\ Emit(e)

Answer ==
  \E i \in OpenAt(log), k \in {"observation", "reject", "error"} :
    Emit(IF k = "error" THEN [kind |-> k, call |-> log[i].call]
                           ELSE [kind |-> k, id |-> log[i].id])

AnswerMalformed ==
  /\ HalfEmitted
  /\ LogEvent([kind |-> "error", call |-> log[Len(log)].call])

\* The server is restarted between the two; what it answers after a restart is
\* an action that is pending, and a malformed call never is.
CutShort ==
  /\ HalfEmitted
  /\ lost' = lost \cup {log[Len(log)].id}
  /\ UNCHANGED <<log, seen>>

\* A message of the agent, a state update or any other event.
Other == \E k \in {"prose", "other"} : Emit([kind |-> k])

\* The hook's refresh keeps the page it read.
Refresh ==
  /\ seen' = FirstPage(log)
  /\ UNCHANGED <<log, lost>>

Next ==
  \/ Raise \/ Answer \/ AnswerMalformed \/ CutShort \/ Other \/ Refresh

Spec == Init /\ [][Next]_eventVars
-----------------------------------------------------------------------------
\* The scan of the server finds the actions no later event answers, although
\* it goes backwards and a later action may reuse the name of a tool call.
ScanFindsOpen == GetUnmatchedActions(log) = Named(log, OpenAt(log))

\* The hook's cards and the server's open actions, found by a loop of each in
\* what each can see, differ only by what lies beyond the first page: an open
\* action without a card was raised there, a card that is not open was answered
\* there.
CardsStopAtPage ==
  LET page == FirstPage(log)
      cards == PendingActionsFromEvents(page)
      open == GetUnmatchedActions(log)
      beyond == (Len(page) + 1)..Len(log)
  IN  /\ \A x \in open \ cards : \E i \in beyond : log[i].kind = "action"
                                                    /\ log[i].id = x
      /\ \A x \in cards \ open :
           \E i \in DOMAIN page, j \in beyond :
             /\ page[i].kind = "action" /\ page[i].id = x
             /\ AnsweredBy(page[i], log[j])

\* A stale page hides nothing it holds: an action that is open now and was in
\* the page had a card.
StaleHidesNothing ==
  GetUnmatchedActions(log) \cap RaisedIn(seen) \subseteq
  PendingActionsFromEvents(seen)

\* An action that has been answered never becomes pending again.
AnsweredForGood ==
  [][GetUnmatchedActions(log') \cap RaisedIn(log) \subseteq
     GetUnmatchedActions(log)]_log

\* The posture and the cards agree on what is pending, although the posture
\* forgets the order of the answers: what it leaves out of the rate has a card,
\* and of the actions with a card it counts only those whose call has failed
\* before under the same name.
PostureAgreesWithCards ==
  LET s == FirstPage(log)
  IN  \A i \in DOMAIN s : s[i].kind = "action" =>
        LET card == s[i].id \in PendingActionsFromEvents(s)
        IN  /\ Outcome(s, s[i]) = "pending" => card
            /\ card /\ Outcome(s, s[i]) # "pending" =>
                 \E j \in 1..(i - 1) :
                   s[j].kind = "error" /\ s[j].call = s[i].call

\* A call reported as abandoned still has a card, so the operator is never told
\* that a decided action was abandoned; without one are only malformed calls
\* that a restart has left without their error.
AbandonedHasCard ==
  Abandoned(FirstPage(log)) \subseteq
  PendingActionsFromEvents(FirstPage(log)) \cup lost
=============================================================================
