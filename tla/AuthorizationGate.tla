------------------------- MODULE AuthorizationGate -------------------------
(***************************************************************************)
(* What the authorization plane keeps of its promise (docs/specs/          *)
(* 04-authorization.md, sections 4.1 and 4.2), without saying how: an      *)
(* action is raised, it may be held for the operator, a held action is     *)
(* executed only after a release, and an action that has an answer, by     *)
(* running or otherwise, is not executed.  A restart may lose answers, so  *)
(* an action runs at most once in a life of the server.                    *)
(***************************************************************************)
EXTENDS Naturals

CONSTANT Actions

VARIABLES
  raised,   \* actions the agent has asked for
  held,     \* those whose execution was made to wait for the operator
  released, \* those an operator request has let go
  runs,     \* how often each action ran
  answered, \* those with an answer: they ran, were rejected, blocked or lost
  lives     \* restarts so far

gateVars == <<raised, held, released, runs, answered, lives>>

Open == raised \ answered

Init ==
  /\ raised = {}
  /\ held = {}
  /\ released = {}
  /\ runs = [a \in Actions |-> 0]
  /\ answered = {}
  /\ lives = 0

Raise ==
  /\ \E a \in Actions \ raised : raised' = raised \cup {a}
  /\ UNCHANGED <<held, released, runs, answered, lives>>

Hold ==
  /\ \E S \in SUBSET Open : held' = held \cup S
  /\ UNCHANGED <<raised, released, runs, answered, lives>>

Release ==
  /\ \E S \in SUBSET Open : released' = released \cup S
  /\ UNCHANGED <<raised, held, runs, answered, lives>>

\* A batch is answered at once: part of it runs, part of it may be blocked.
Settle ==
  /\ \E S \in SUBSET Open, B \in SUBSET raised :
       /\ S \cap held \subseteq released
       /\ runs' = [a \in Actions |-> IF a \in S THEN runs[a] + 1 ELSE runs[a]]
       /\ answered' = answered \cup S \cup B
  /\ UNCHANGED <<raised, held, released, lives>>

\* A restart loses some answers and may give others.
Restart ==
  /\ answered' \in SUBSET raised
  /\ lives' = lives + 1
  /\ UNCHANGED <<raised, held, released, runs>>

Next == Raise \/ Hold \/ Release \/ Settle \/ Restart

Spec == Init /\ [][Next]_gateVars

\* No action runs twice in one life of the server.
OnceALife == \A a \in Actions : runs[a] <= 1 + lives
=============================================================================
