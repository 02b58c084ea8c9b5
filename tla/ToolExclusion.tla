---------------------------- MODULE ToolExclusion ----------------------------
(***************************************************************************)
(* What executing a batch of tool calls promises, whatever locks it uses:  *)
(* a call runs at most once, and never beside a call that works on a       *)
(* resource of its own.                                                    *)
(***************************************************************************)
CONSTANTS Calls, Keys

VARIABLES
  need,    \* the resources each call works on
  running, \* calls whose tool is running
  over     \* calls with an outcome

vars == <<need, running, over>>

Init ==
  /\ need \in [Calls -> SUBSET Keys]
  /\ running = {}
  /\ over = {}

Run(c) ==
  /\ c \notin running \cup over
  /\ \A d \in running : need[d] \cap need[c] = {}
  /\ running' = running \cup {c}
  /\ UNCHANGED <<need, over>>

Finish(c) ==
  /\ c \in running
  /\ running' = running \ {c}
  /\ over' = over \cup {c}
  /\ UNCHANGED need

\* Calls that will not run: a timeout or a cancelled token turns down one call,
\* an interrupt all that had not begun.
TurnDown(S) ==
  /\ S \cap (running \cup over) = {}
  /\ over' = over \cup S
  /\ UNCHANGED <<need, running>>

Next ==
  \/ \E c \in Calls : Run(c) \/ Finish(c)
  \/ \E S \in SUBSET Calls : TurnDown(S)

Spec == Init /\ [][Next]_vars
=============================================================================
