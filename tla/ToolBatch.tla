------------------------------ MODULE ToolBatch ------------------------------
(***************************************************************************)
(* Executing the tool calls of an agent step: ParallelToolExecutor, the    *)
(* ResourceLockManager it locks resources with, and the FIFOLock objects   *)
(* the manager hands out.                                                  *)
(*                                                                         *)
(* Calls are numbered in the order of the batch.  Each runs on a worker    *)
(* thread; a step of a thread is what it does under one mutex.  Resource   *)
(* keys are numbers because the manager sorts them.  Lock objects have     *)
(* names of their own: the manager deletes the object of a key nobody      *)
(* refers to and makes another when the key is asked for again.            *)
(***************************************************************************)
EXTENDS Naturals, FiniteSets, FiniteSetsExt, Sequences, SequencesExt

CONSTANTS
  Calls,   \* the tool calls of a behaviour, as numbers
  Keys,    \* resource keys, as numbers in their sorting order
  Needs,   \* the sets of keys a call may resolve to
  Locks,   \* names for FIFOLock objects
  Workers, \* max_workers: tool_concurrency_limit
  None     \* no lock, no call

ASSUME BatchAssumption ==
  /\ IsFiniteSet(Calls) /\ Calls \subseteq Nat
  /\ IsFiniteSet(Keys) /\ Keys \subseteq Nat
  /\ Needs \subseteq SUBSET Keys
  /\ Workers \in Nat \ {0}
  /\ None \notin Calls \cup Locks

VARIABLES
  need,      \* the keys _resolve_lock_keys gives each call
  pc,        \* where each call is
  held,      \* per call: the manager's list `acquired`, which is sorted
  result,    \* per call: how it came out
  obj,       \* per call: the lock object it is asking for or waiting on
  batch,     \* the calls of the batch under way
  mode,      \* how aexecute_batch runs it
  cancelled, \* the batch's cancellation token is set
  table,     \* _locks: the lock object of each key
  refs,      \* _refcounts
  owner,     \* per lock object
  waiters,   \* per lock object: its queue
  woken      \* waiters that have been notified

callVars == <<need, pc, held, result, obj>>
batchVars == <<batch, mode, cancelled>>
lockVars == <<table, refs, owner, waiters, woken>>
vars == <<callVars, batchVars, lockVars>>

Pcs == {"new", "queued", "looking", "asking", "waiting", "undoing",
        "running", "leaving", "done"}
Results == {"none", "ran", "timeout", "skipped", "dropped"}
Modes == {"idle", "sequential", "pool", "draining"}

Init ==
  /\ need \in [Calls -> Needs]
  /\ pc = [c \in Calls |-> "new"]
  /\ held = [c \in Calls |-> {}]
  /\ result = [c \in Calls |-> "none"]
  /\ obj = [c \in Calls |-> None]
  /\ batch = {}
  /\ mode = "idle"
  /\ cancelled = FALSE
  /\ table = [k \in Keys |-> None]
  /\ refs = [k \in Keys |-> 0]
  /\ owner = [l \in Locks |-> None]
  /\ waiters = [l \in Locks |-> << >>]
  /\ woken = {}
-----------------------------------------------------------------------------
(***************************************************************************)
(* The batch.                                                              *)
(***************************************************************************)
\* A step of the agent hands its calls over.  One call, or one worker, means
\* one call after the other.  A run that begins after an interrupt has a token
\* of its own.
Start(S) ==
  /\ mode = "idle"
  /\ S # {}
  /\ \A c \in S : pc[c] = "new"
  /\ batch' = S
  /\ mode' = IF Workers = 1 \/ Cardinality(S) = 1 THEN "sequential" ELSE "pool"
  /\ cancelled' = FALSE
  /\ pc' = [c \in Calls |-> IF c \in S THEN "queued" ELSE pc[c]]
  /\ UNCHANGED <<need, held, result, obj, lockVars>>

Over(c) == pc[c] = "done"
Queued == {c \in batch : pc[c] = "queued"}
Active == {c \in batch : pc[c] \notin {"queued", "done"}}

\* A thread is free for the call at the head of the pool's queue.
Turn(c) ==
  /\ c \in Queued
  /\ \A d \in Queued : c <= d
  /\ Cardinality(Active) < IF mode = "sequential" THEN 1 ELSE Workers

\* gather() has every result, in the order of the batch.
Collect ==
  /\ mode \in {"sequential", "pool"}
  /\ \A c \in batch : Over(c)
  /\ mode' = "idle"
  /\ batch' = {}
  /\ UNCHANGED <<callVars, cancelled, lockVars>>

\* interrupt() sets the token at once ...
Cancel ==
  /\ mode \in {"sequential", "pool"}
  /\ ~cancelled
  /\ cancelled' = TRUE
  /\ UNCHANGED <<callVars, batch, mode, lockVars>>

\* ... and has the event loop cancel the task.  The futures not yet begun are
\* cancelled with it.  Leaving the pool waits for the threads that began; a call
\* on the loop's default pool is left behind.
Abandon ==
  /\ cancelled
  /\ mode \in {"sequential", "pool"}
  /\ pc' = [c \in Calls |-> IF c \in Queued THEN "done" ELSE pc[c]]
  /\ result' = [c \in Calls |-> IF c \in Queued THEN "dropped" ELSE result[c]]
  /\ mode' = IF mode = "pool" THEN "draining" ELSE "idle"
  /\ batch' = IF mode = "pool" THEN batch ELSE {}
  /\ UNCHANGED <<need, held, obj, cancelled, lockVars>>

Drained ==
  /\ mode = "draining"
  /\ \A c \in batch : Over(c)
  /\ mode' = "idle"
  /\ batch' = {}
  /\ UNCHANGED <<callVars, cancelled, lockVars>>
-----------------------------------------------------------------------------
(***************************************************************************)
(* One call, on its thread.                                                *)
(***************************************************************************)
\* Where a call stands that holds `mine` and asks for the rest.
NextPc(c, mine) == IF mine = need[c] THEN "running" ELSE "looking"

Begin(c) ==
  /\ Turn(c)
  /\ \/ /\ cancelled
        /\ pc' = [pc EXCEPT ![c] = "done"]
        /\ result' = [result EXCEPT ![c] = "skipped"]
     \/ /\ ~cancelled
        /\ pc' = [pc EXCEPT ![c] = NextPc(c, {})]
        /\ UNCHANGED result
  /\ UNCHANGED <<need, held, obj, batchVars, lockVars>>

\* Mutant: the keys are locked in the order a call declares them, here
\* downward for the even calls.
DeclaredOrder(c) ==
  IF c % 2 = 0 THEN Max(need[c] \ held[c]) ELSE Min(need[c] \ held[c])

Wanted(c) == Min(need[c] \ held[c])

InUse(l) == \/ \E k \in Keys : table[k] = l
            \/ \E c \in Calls : obj[c] = l
            \/ owner[l] # None

\* _get_lock, under the meta lock.
GetLock(c) ==
  /\ pc[c] = "looking"
  /\ LET k == Wanted(c) IN
     /\ \/ table[k] # None /\ UNCHANGED table
        \/ /\ table[k] = None
           /\ \E l \in Locks : ~InUse(l)
           /\ table' = [table EXCEPT ![k] = CHOOSE l \in Locks : ~InUse(l)]
     /\ refs' = [refs EXCEPT ![k] = @ + 1]
     /\ obj' = [obj EXCEPT ![c] = table'[k]]
  /\ pc' = [pc EXCEPT ![c] = "asking"]
  /\ UNCHANGED <<need, held, result, batchVars, owner, waiters, woken>>

Take(c) ==
  LET mine == held[c] \cup {Wanted(c)} IN
  /\ owner' = [owner EXCEPT ![obj[c]] = c]
  /\ held' = [held EXCEPT ![c] = mine]
  /\ obj' = [obj EXCEPT ![c] = None]
  /\ pc' = [pc EXCEPT ![c] = NextPc(c, mine)]

AtOnce(l) == owner[l] = None /\ waiters[l] = << >>

\* acquire() up to its wait.
Ask(c) ==
  LET l == obj[c] IN
  /\ pc[c] = "asking"
  /\ \/ /\ AtOnce(l)
        /\ Take(c)
        /\ UNCHANGED waiters
     \/ /\ ~AtOnce(l)
        /\ waiters' = [waiters EXCEPT ![l] = Append(@, c)]
        /\ pc' = [pc EXCEPT ![c] = "waiting"]
        /\ UNCHANGED <<held, obj, owner>>
  /\ UNCHANGED <<need, result, batchVars, table, refs, woken>>

\* Mutant: a waiter takes a free lock although it is not at the front.
FromAnyPlace(c) == owner[obj[c]] = None

CanTake(c) == owner[obj[c]] = None /\ Head(waiters[obj[c]]) = c

\* The loop of acquire() after a notification or a timeout.
Acquire(c) ==
  /\ CanTake(c)
  /\ Take(c)
  /\ waiters' = [waiters EXCEPT ![obj[c]] = Tail(@)]

WaitOn(c) ==
  /\ ~CanTake(c)
  /\ UNCHANGED <<pc, held, obj, owner, waiters>>

\* remove() of the deque takes out the first place where c stands.
Unqueue(c) ==
  LET q == waiters[obj[c]] IN
  \E i \in 1..Len(q) :
    /\ q[i] = c
    /\ \A j \in 1..Len(q) : q[j] = c => i <= j
    /\ waiters' = [waiters EXCEPT ![obj[c]] = RemoveAt(q, i)]

GiveUp(c) ==
  /\ ~CanTake(c)
  /\ Unqueue(c)
  /\ pc' = [pc EXCEPT ![c] = "undoing"]
  /\ UNCHANGED <<held, obj, owner>>

Notified(c) ==
  /\ pc[c] = "waiting"
  /\ c \in woken
  /\ woken' = woken \ {c}
  /\ Acquire(c) \/ WaitOn(c)
  /\ UNCHANGED <<need, result, batchVars, table, refs>>

\* Mutant: a waiter whose time is up leaves without another look at the lock.
LeavesBlind(c) ==
  /\ Unqueue(c)
  /\ pc' = [pc EXCEPT ![c] = "undoing"]
  /\ UNCHANGED <<held, obj, owner>>

LastLook(c) == Acquire(c) \/ GiveUp(c)

TimedOut(c) ==
  /\ pc[c] = "waiting"
  /\ woken' = woken \ {c}
  /\ LastLook(c)
  /\ UNCHANGED <<need, result, batchVars, table, refs>>

\* Mutant: the count is one off, and a lock is deleted under its last waiter.
UnderTheLast(n, o) == n = 1 /\ o = None

Unreferenced(n, o) == n = 0 /\ o = None

\* One reference to key k less, under the meta lock.
Unref(k, o) ==
  LET n == refs[k] - 1
      gone == Unreferenced(n, o)
  IN /\ refs' = [refs EXCEPT ![k] = IF gone THEN 0 ELSE n]
     /\ table' = [table EXCEPT ![k] = IF gone THEN None ELSE @]

\* Mutant: the reference taken by _get_lock is kept after a timeout.
KeepsReference(c) == UNCHANGED <<refs, table>>

DropReference(c) == Unref(Wanted(c), owner[table[Wanted(c)]])

\* The timeout gives the reference back and raises.
Undo(c) ==
  /\ pc[c] = "undoing"
  /\ DropReference(c)
  /\ obj' = [obj EXCEPT ![c] = None]
  /\ result' = [result EXCEPT ![c] = "timeout"]
  /\ pc' = [pc EXCEPT ![c] = IF held[c] = {} THEN "done" ELSE "leaving"]
  /\ UNCHANGED <<need, held, batchVars, owner, waiters, woken>>

\* The tool returns, or raises what becomes an error event.
Finish(c) ==
  /\ pc[c] = "running"
  /\ result' = [result EXCEPT ![c] = "ran"]
  /\ pc' = [pc EXCEPT ![c] = IF held[c] = {} THEN "done" ELSE "leaving"]
  /\ UNCHANGED <<need, held, obj, batchVars, lockVars>>

\* release() of the lock the table has for k, and its reference.
Release(c, k) ==
  LET l == table[k] IN
  \/ /\ l = None
     /\ UNCHANGED lockVars
  \/ /\ l # None
     /\ owner[l] = c
     /\ owner' = [owner EXCEPT ![l] = None]
     /\ woken' = woken \cup {waiters[l][i] : i \in 1..Len(waiters[l]) \cap {1}}
     /\ Unref(k, None)
     /\ UNCHANGED waiters

\* The finally of lock(): one key after the other, the last one first.
Leave(c) ==
  /\ pc[c] = "leaving"
  /\ LET k == Max(held[c])
         mine == held[c] \ {k}
     IN /\ Release(c, k)
        /\ held' = [held EXCEPT ![c] = mine]
        /\ pc' = [pc EXCEPT ![c] = IF mine = {} THEN "done" ELSE "leaving"]
  /\ UNCHANGED <<need, result, obj, batchVars>>
-----------------------------------------------------------------------------
Thread(c) ==
  \/ Begin(c) \/ GetLock(c) \/ Ask(c) \/ Notified(c)
  \/ Undo(c) \/ Finish(c) \/ Leave(c)

Loop == Collect \/ Abandon \/ Drained

\* No call is left to begin, and every thread has ended.
Quiet ==
  /\ mode = "idle"
  /\ \A c \in Calls : Over(c)
  /\ UNCHANGED vars

Next ==
  \/ \E S \in SUBSET Calls : Start(S)
  \/ \E c \in Calls : Thread(c) \/ TimedOut(c)
  \/ Loop \/ Cancel \/ Quiet

Spec == Init /\ [][Next]_vars

(***************************************************************************)
(* Threads are scheduled, tools return and the event loop runs.  Nothing   *)
(* forces a new batch, an interrupt or a timeout.                          *)
(***************************************************************************)
Fairness == WF_vars(Loop) /\ \A c \in Calls : WF_vars(Thread(c))
FairSpec == Spec /\ Fairness
-----------------------------------------------------------------------------
(***************************************************************************)
(* Properties.                                                             *)
(***************************************************************************)
\* The types of the variables.
TypeOK ==
  /\ need \in [Calls -> SUBSET Keys]
  /\ pc \in [Calls -> Pcs]
  /\ held \in [Calls -> SUBSET Keys]
  /\ result \in [Calls -> Results]
  /\ obj \in [Calls -> Locks \cup {None}]
  /\ batch \subseteq Calls
  /\ mode \in Modes
  /\ cancelled \in BOOLEAN
  /\ table \in [Keys -> Locks \cup {None}]
  /\ refs \in [Keys -> Nat]
  /\ owner \in [Locks -> Calls \cup {None}]
  /\ waiters \in [Locks -> Seq(Calls)]
  /\ woken \subseteq Calls

Asking(c, k) == obj[c] # None /\ Wanted(c) = k
Refers(c, k) == k \in held[c] \/ Asking(c, k)
Running == {c \in Calls : pc[c] = "running"}

\* The manager's table is exact: it has a lock for the keys some call holds or
\* asks for and no other, its counts are theirs, and they all use that lock.
\* A timeout between the two leaks neither (resource_lock_manager.py:101).
TableExact ==
  \A k \in Keys :
    LET users == {c \in Calls : Refers(c, k)} IN
    /\ refs[k] = Cardinality(users)
    /\ table[k] = None <=> users = {}
    /\ \A c \in users : IF k \in held[c] THEN owner[table[k]] = c
                                         ELSE obj[c] = table[k]

BlockedBy(c, S) ==
  /\ pc[c] = "waiting"
  /\ owner[obj[c]] \in S \/ Head(waiters[obj[c]]) \in S \ {c}

\* No calls wait on each other in a circle: without it they would sit out
\* their timeouts (resource_lock_manager.py:95).
NoCircle ==
  \A S \in (SUBSET Calls) \ {{}} : \E c \in S : ~BlockedBy(c, S)

Precedes(c, d, q) ==
  \E i, j \in 1..Len(q) : i < j /\ q[i] = c /\ q[j] = d

\* c waits on a lock that d has asked for later.
Before(c, d) ==
  /\ pc[c] = "waiting"
  /\ obj[d] = obj[c]
  /\ pc[d] = "asking" \/ Precedes(c, d, waiters[obj[c]])

\* Calls get a lock in the order they came to it (fifo_lock.py:4): as long as
\* one waits, whoever came after it stays behind it, or its time is up.
FirstComeFirstServed ==
  [][\A c, d \in Calls :
       Before(c, d) /\ pc'[c] = "waiting" =>
         Before(c, d)' \/ pc'[d] = "undoing"]_vars

\* A batch ends, whatever its calls wait for: no notification is lost, even
\* when the waiter it went to gives up (fifo_lock.py:82).
BatchEnds == mode # "idle" ~> mode = "idle"

Exclusion ==
  INSTANCE ToolExclusion
    WITH running <- Running, over <- {c \in Calls : result[c] # "none"}

\* The locks implement the promise: at most one run per call, and none beside
\* a call it shares a resource with, although the lock object of a resource is
\* deleted and made anew (resource_lock_manager.py:67), and although a call left
\* behind by an interrupt runs beside the next batch.
ExclusionSpec == Exclusion!Spec
=============================================================================
