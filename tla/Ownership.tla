------------------------------ MODULE Ownership ------------------------------
(***************************************************************************)
(* One conversation's directory on storage that several agent-server       *)
(* processes share: the lease that says who may write to it                *)
(* (ConversationLease), the event log in it (EventLog), and the service    *)
(* each process opens on it (EventService, ConversationService).           *)
(*                                                                         *)
(* A step is what one process does under the lease's or the log's file     *)
(* lock, or one save of base_state.json.  A restarted process is another   *)
(* member of Procs: the owner id is made anew.  Time is the number of      *)
(* ticks a lease has left.                                                 *)
(***************************************************************************)
EXTENDS Naturals, FiniteSets, FiniteSetsExt, Sequences

CONSTANTS
  Procs,     \* agent-server processes
  Ttl,       \* lease_ttl_seconds, in ticks
  Faults,    \* the sets of {"late", "delete"} a behaviour may have
  MaxEvents, \* bound: files written
  MaxClaims, \* bound: claims
  MaxBatch,  \* bound: actions open at once
  None

\* An event file.  Its path is the indices of its ancestors, which the parent
\* ids name; an answer is to the action at an index.
NoAction == MaxEvents \* the `to` of a file that answers nothing
Files == [at : Nat, kind : {"action", "answer", "note"}, by : Procs,
          claim : Nat, to : Nat, path : SUBSET Nat]

ASSUME OwnershipAssumption ==
  /\ IsFiniteSet(Procs)
  /\ Ttl \in Nat \ {0} /\ MaxEvents \in Nat /\ MaxClaims \in Nat
  /\ Faults \subseteq SUBSET {"late", "delete"}
  /\ None \notin Procs /\ None \notin Files

VARIABLES
  oneHost, \* the processes share a machine, or none do, for good
  faults,  \* which faults this behaviour has, for good
  lease,   \* the lease file; gen = 0 stands for none
  files,   \* the event files, each with its index
  base,    \* base_state.json: execution_status and leaf_event_id
  up,      \* processes that are alive
  known,   \* processes that have a record of the conversation
  svc,     \* per process: its EventService
  doomed,  \* processes that close it in order to delete it
  gen,     \* per process: _lease_generation; 0 for None
  log,     \* per process: what its EventLog has indexed
  status,  \* per process: execution_status in memory
  leaf,    \* per process: leaf_event_id in memory
  dirty,   \* processes whose leaf is not saved
  late,    \* per process: the state a closed service's last emission goes to
  claims,  \* claims so far
  last,    \* the process that claimed last
  strays   \* answers that were off the branch when the conversation was loaded

disk == <<lease, files, base>>
memory == <<svc, gen, log, status, leaf, dirty>>
history == <<claims, last, strays>>
vars == <<oneHost, faults, disk, up, known, memory, doomed, late, history>>

\* Idle, paused, in error or finished: all that matters is that no run is on.
Statuses == {"running", "stopped"}
Services == {"closed", "claimed", "loaded", "recovering", "answering",
             "settling", "open", "closing", "removing"}

NoLease == [owner |-> None, gen |-> 0, left |-> 0]
NewBase == [status |-> "stopped", leaf |-> None]

Init ==
  /\ oneHost \in BOOLEAN
  /\ faults \in Faults
  /\ lease = NoLease
  /\ files = {}
  /\ base = NewBase
  /\ up = Procs
  /\ known = Procs
  /\ svc = [p \in Procs |-> "closed"]
  /\ doomed = {}
  /\ gen = [p \in Procs |-> 0]
  /\ log = [p \in Procs |-> << >>]
  /\ status = [p \in Procs |-> "stopped"]
  /\ leaf = [p \in Procs |-> None]
  /\ dirty = {}
  /\ late = [p \in Procs |-> None]
  /\ claims = 0
  /\ last = None
  /\ strays = {}
-----------------------------------------------------------------------------
(***************************************************************************)
(* The lease.                                                              *)
(***************************************************************************)
\* _owner_is_dead: only a process of the same host can tell.
OwnerIsDead == oneHost /\ lease.owner \notin up

\* Mutant: a lease that has run out still keeps others away.
OnlyFromTheDead == lease.gen > 0 => OwnerIsDead

MayClaim == lease.left > 0 => OwnerIsDead

\* EventService.start up to the claim.
Claim(p) ==
  /\ p \in up \cap known
  /\ svc[p] = "closed"
  /\ claims < MaxClaims
  /\ \/ lease.owner = p /\ lease' = [lease EXCEPT !.left = Ttl]
     \/ /\ lease.owner # p
        /\ MayClaim
        /\ lease' = [owner |-> p, gen |-> lease.gen + 1, left |-> Ttl]
  /\ svc' = [svc EXCEPT ![p] = "claimed"]
  /\ gen' = [gen EXCEPT ![p] = lease'.gen]
  /\ claims' = claims + 1
  /\ last' = p
  /\ UNCHANGED <<oneHost, faults, files, base, up, known, log, status, leaf,
                 dirty, doomed, late, strays>>

\* Mutant: the generation alone is compared.
SameGeneration(p) == lease.gen # 0 /\ lease.gen = gen[p]

\* _assert_owner_locked
Owns(p) == lease.owner = p /\ lease.gen = gen[p]

\* The renewal loop.  A lost lease is logged, and the service stays open.
Renew(p) ==
  /\ p \in up
  /\ svc[p] = "open"
  /\ Owns(p)
  /\ lease.left < Ttl
  /\ lease' = [lease EXCEPT !.left = Ttl]
  /\ UNCHANGED <<oneHost, faults, files, base, up, known, memory, doomed, late,
                 history>>

Tick ==
  /\ lease.left > 0
  /\ lease' = [lease EXCEPT !.left = @ - 1]
  /\ UNCHANGED <<oneHost, faults, files, base, up, known, memory, doomed, late,
                 history>>
-----------------------------------------------------------------------------
(***************************************************************************)
(* The event log.                                                          *)
(***************************************************************************)
\* _scan_and_build_index: the files from index 0 up to the first gap.
Scan ==
  LET n == Min({i \in 0..MaxEvents : \A f \in files : f.at # i})
  IN [i \in 1..n |-> CHOOSE f \in files : f.at = i - 1]

Entries(l) == {l[i] : i \in DOMAIN l} \ {None}

\* Mutant: append() trusts its index.
NoSync(l) == l

\* append() reads the directory again when it has more files than the index,
\* which then counts them all: beyond a gap it has what it had, or a hole.
Sync(l) ==
  IF Cardinality(files) > Len(l)
  THEN [i \in 1..Cardinality(files) |->
          IF i <= Len(Scan) THEN Scan[i]
          ELSE IF i <= Len(l) THEN l[i] ELSE None]
  ELSE l

\* active_branch: from the leaf, or from the last event if there is none, to the
\* root.
Branch(l, tip) ==
  LET from == IF tip = None /\ l # << >> THEN l[Len(l)] ELSE tip
  IN IF from = None THEN {}
     ELSE {from} \cup {e \in Entries(l) : e.at \in from.path}

\* Mutant: the index of the last event.
LastIndex(p, l, tip, kind, to) ==
  [at |-> Len(Sync(l)) - 1, kind |-> kind, by |-> p, claim |-> claims,
   to |-> to, path |-> {e.at : e \in Branch(l, tip)}]

\* append_event stamps the parent before append() looks at the directory.
NewFile(p, l, tip, kind, to) ==
  [at |-> Len(Sync(l)), kind |-> kind, by |-> p, claim |-> claims,
   to |-> to, path |-> {e.at : e \in Branch(l, tip)}]

Room == Cardinality(files) < MaxEvents

\* append_event by the service of p, unless the guard refuses.
Write(p, kind, to) ==
  LET f == NewFile(p, log[p], leaf[p], kind, to) IN
  /\ Owns(p) /\ Room
  /\ files' = files \cup {f}
  /\ log' = [log EXCEPT ![p] = Append(Sync(@), f)]
  /\ leaf' = [leaf EXCEPT ![p] = f]
  /\ dirty' = dirty \cup {p}

Refuse(p) ==
  /\ ~Owns(p)
  /\ log' = [log EXCEPT ![p] = Sync(@)]
  /\ UNCHANGED <<files, leaf, dirty>>

\* get_unmatched_actions
Unmatched(S) ==
  {e \in S : e.kind = "action" /\ \A f \in S : f.to # e.at}

\* The actions the run finds to execute.
Pending(p) == Unmatched(Branch(log[p], leaf[p]))

\* The state is saved, with what is set in memory by then.
Save(p, s) ==
  /\ Owns(p)
  /\ status' = [status EXCEPT ![p] = s]
  /\ base' = [status |-> s, leaf |-> leaf[p]]
  /\ dirty' = dirty \ {p}

\* What a refused write leaves: the run, if any, fails.
Fail(p) ==
  /\ status' = [status EXCEPT ![p] = "stopped"]
  /\ UNCHANGED base

SaveOrFail(p, s) == Save(p, s) \/ (~Owns(p) /\ Fail(p) /\ UNCHANGED dirty)
-----------------------------------------------------------------------------
(***************************************************************************)
(* Opening the service.                                                    *)
(***************************************************************************)
others == <<oneHost, faults, up, known, late, claims, last>>

Become(p, s) == svc' = [svc EXCEPT ![p] = s]

\* The service is gone, and with it what it had in memory.
Forget(p) ==
  /\ gen' = [gen EXCEPT ![p] = 0]
  /\ log' = [log EXCEPT ![p] = << >>]
  /\ status' = [status EXCEPT ![p] = "stopped"]
  /\ leaf' = [leaf EXCEPT ![p] = None]
  /\ dirty' = dirty \ {p}

\* close() releases the lease if the service still owns it.
LetGo(p) == lease' = IF Owns(p) THEN NoLease ELSE lease

\* start() fails, and the service is closed.
FailedStart(p) == Become(p, "closed") /\ Forget(p) /\ LetGo(p)

\* Mutant: the conversation is taken over as it was before the claim.
LoadsAnything(p) ==
  \E n \in 0..Len(Scan) : log' = [log EXCEPT ![p] = SubSeq(Scan, 1, n)]

LoadsDirectory(p) == log' = [log EXCEPT ![p] = Scan]

\* ConversationState.create: the state is read, unless its leaf is not there.
Load(p) ==
  /\ svc[p] = "claimed"
  /\ \/ /\ base.leaf \in Entries(Scan) \cup {None}
        /\ LoadsDirectory(p)
        /\ status' = [status EXCEPT ![p] = base.status]
        /\ leaf' = [leaf EXCEPT ![p] = base.leaf]
        /\ strays' = strays \cup {f \in files \ Branch(Scan, base.leaf) :
                                   f.kind = "answer"}
        /\ Become(p, "loaded")
        /\ UNCHANGED <<lease, gen, dirty>>
     \/ /\ base.leaf \notin Entries(Scan) \cup {None}
        /\ FailedStart(p)
        /\ UNCHANGED strays
  /\ UNCHANGED <<files, base, doomed, others>>

\* The agent and the policy are set, and the state saved if they differ from
\* what was read, before there is a write guard.
Commit(p) ==
  /\ svc[p] = "loaded"
  /\ Become(p, IF status[p] = "running" THEN "recovering" ELSE "open")
  /\ base' \in {base, [status |-> status[p], leaf |-> leaf[p]]}
  /\ UNCHANGED <<lease, files, gen, log, status, leaf, dirty, doomed, strays,
                 others>>

\* A conversation found running becomes an error ...
Recover(p) ==
  /\ svc[p] = "recovering"
  /\ \/ /\ Save(p, "stopped")
        /\ Become(p, "answering")
        /\ UNCHANGED <<lease, gen, log, leaf>>
     \/ ~Owns(p) /\ FailedStart(p) /\ UNCHANGED base
  /\ UNCHANGED <<files, doomed, strays, others>>

\* ... its first action that the whole log leaves unmatched is answered ...
AnswerFirst(p) ==
  LET open == Unmatched(Entries(log[p])) IN
  /\ svc[p] = "answering"
  /\ \/ /\ open # {}
        /\ Write(p, "answer", Min({e.at : e \in open}))
        /\ Become(p, "settling")
        /\ UNCHANGED <<lease, gen, status>>
     \/ open # {} /\ ~Owns(p) /\ FailedStart(p) /\ UNCHANGED files
     \/ /\ open = {}
        /\ Become(p, "open")
        /\ UNCHANGED <<lease, files, log, leaf, dirty, gen, status>>
  /\ UNCHANGED <<base, doomed, strays, others>>

\* ... and the leaf is saved.
Settle(p) ==
  /\ svc[p] = "settling"
  /\ \/ /\ Save(p, status[p])
        /\ Become(p, "open")
        /\ UNCHANGED <<lease, gen, log, leaf>>
     \/ ~Owns(p) /\ FailedStart(p) /\ UNCHANGED base
  /\ UNCHANGED <<files, doomed, strays, others>>
-----------------------------------------------------------------------------
(***************************************************************************)
(* The run.  Its writes are refused once the lease is lost; reads and the  *)
(* tool it is in the middle of are not.                                    *)
(***************************************************************************)
Running(p) == svc[p] = "open" /\ status[p] = "running"

BeginRun(p) ==
  /\ svc[p] = "open" /\ status[p] # "running"
  /\ SaveOrFail(p, "running")
  /\ UNCHANGED <<lease, files, log, leaf, svc, gen, doomed, strays, others>>

\* An event of the run.
Emit(p, kind, to) ==
  /\ \/ Write(p, kind, to) /\ UNCHANGED <<status, base>>
     \/ Refuse(p) /\ Fail(p)
  /\ UNCHANGED <<lease, svc, gen, doomed, strays, others>>

Act(p) ==
  /\ Running(p)
  /\ Cardinality(Pending(p)) < MaxBatch
  /\ Emit(p, "action", NoAction)

Answer(p) ==
  /\ Running(p)
  /\ \E e \in Pending(p) : Emit(p, "answer", e.at)

\* What an iteration changed is saved when it leaves the state's lock.
EndIteration(p) ==
  /\ Running(p) /\ p \in dirty
  /\ SaveOrFail(p, "running")
  /\ UNCHANGED <<lease, files, log, leaf, svc, gen, doomed, strays, others>>

EndRun(p) ==
  /\ Running(p)
  /\ Pending(p) = {}
  /\ SaveOrFail(p, "stopped")
  /\ UNCHANGED <<lease, files, log, leaf, svc, gen, doomed, strays, others>>
-----------------------------------------------------------------------------
(***************************************************************************)
(* Closing it: idle eviction, shutdown, or deletion.                       *)
(***************************************************************************)
Close(p) ==
  /\ p \in up
  /\ svc[p] = "open"
  /\ Become(p, "closing")
  /\ \/ UNCHANGED doomed
     \/ "delete" \in faults /\ doomed' = doomed \cup {p}
  /\ UNCHANGED <<disk, gen, log, status, leaf, dirty, strays, others>>

\* The cancelled run answers its open actions and pauses.
Drain(p) ==
  /\ svc[p] = "closing" /\ status[p] = "running"
  /\ \/ /\ \E e \in Pending(p) : Write(p, "answer", e.at)
        /\ UNCHANGED <<status, base>>
     \/ /\ Pending(p) = {}
        /\ Save(p, "stopped")
        /\ UNCHANGED <<files, log, leaf>>
     \/ Refuse(p) /\ Fail(p)
  /\ UNCHANGED <<lease, svc, gen, doomed, strays, others>>

\* The lease is given up if it is still held, and with it the write guard of
\* whatever the service left on the executor.
Release(p) ==
  /\ svc[p] = "closing" /\ status[p] # "running"
  /\ LetGo(p) /\ Forget(p)
  /\ Become(p, IF p \in doomed THEN "removing" ELSE "closed")
  /\ \/ UNCHANGED late
     \/ /\ "late" \in faults
        /\ late' = [late EXCEPT ![p] = [log |-> log[p], leaf |-> leaf[p],
                                        status |-> status[p]]]
  /\ UNCHANGED <<oneHost, faults, files, base, up, known, doomed, history>>

\* _emit_event_from_thread, run after close(): nothing guards the write, nor the
\* save that follows.
LateWrite(p) ==
  LET s == late[p] IN
  /\ s # None /\ Room
  /\ LET f == NewFile(p, s.log, s.leaf, "note", NoAction) IN
     /\ files' = files \cup {f}
     /\ base' = [status |-> s.status, leaf |-> f]
  /\ late' = [late EXCEPT ![p] = None]
  /\ UNCHANGED <<oneHost, faults, lease, up, known, memory, doomed, history>>

\* delete_conversation, after its close(): the directory goes.
Remove(p) ==
  /\ svc[p] = "removing"
  /\ files' = {} /\ base' = NewBase /\ lease' = NoLease
  /\ known' = known \ {p}
  /\ doomed' = doomed \ {p}
  /\ Become(p, "closed")
  /\ UNCHANGED <<oneHost, faults, up, gen, log, status, leaf, dirty, late,
                 history>>

\* The process is killed.
Die(p) ==
  /\ p \in up /\ up # {p}
  /\ up' = up \ {p}
  /\ Become(p, "closed")
  /\ Forget(p)
  /\ late' = [late EXCEPT ![p] = None]
  /\ doomed' = doomed \ {p}
  /\ UNCHANGED <<oneHost, faults, disk, known, history>>
-----------------------------------------------------------------------------
Next ==
  \/ Tick
  \/ \E p \in Procs :
       \/ Claim(p) \/ Load(p) \/ Commit(p) \/ Recover(p) \/ AnswerFirst(p)
       \/ Settle(p) \/ Renew(p)
       \/ BeginRun(p) \/ Act(p) \/ Answer(p) \/ EndIteration(p) \/ EndRun(p)
       \/ Close(p) \/ Drain(p) \/ Release(p) \/ LateWrite(p) \/ Remove(p)
       \/ Die(p)

Spec == Init /\ [][Next]_vars

(***************************************************************************)
(* Time passes, clients keep asking the processes that live for the        *)
(* conversation, and what a process has begun to open or close it goes on  *)
(* with.                                                                   *)
(***************************************************************************)
Goes(p) == \/ Claim(p) \/ Load(p) \/ Commit(p) \/ Recover(p)
           \/ AnswerFirst(p) \/ Settle(p)
           \/ Drain(p) \/ Release(p) \/ Remove(p)

FairSpec == Spec /\ WF_vars(Tick) /\ \A p \in Procs : WF_vars(Goes(p))
-----------------------------------------------------------------------------
(***************************************************************************)
(* Properties.                                                             *)
(***************************************************************************)
\* The types of the variables.
TypeOK ==
  /\ oneHost \in BOOLEAN
  /\ faults \in Faults
  /\ lease \in [owner : Procs \cup {None}, gen : Nat, left : 0..Ttl]
  /\ files \subseteq Files
  /\ base \in [status : Statuses, leaf : Files \cup {None}]
  /\ up \subseteq Procs /\ known \subseteq Procs /\ doomed \subseteq Procs
  /\ svc \in [Procs -> Services]
  /\ gen \in [Procs -> Nat]
  /\ log \in [Procs -> Seq(Files \cup {None})]
  /\ status \in [Procs -> Statuses]
  /\ leaf \in [Procs -> Files \cup {None}]
  /\ dirty \subseteq Procs
  /\ late \in [Procs -> [log : Seq(Files \cup {None}), leaf : Files \cup {None},
                        status : Statuses] \cup {None}]
  /\ claims \in 0..MaxClaims
  /\ last \in Procs \cup {None}
  /\ strays \subseteq Files

\* A service that may write is the one that claimed last, although the lease
\* file is deleted on release and its generation starts again from 1
\* (conversation_lease.py:158, 214).
Fenced ==
  \A p \in Procs : svc[p] \notin {"closed", "removing"} /\ Owns(p) => last = p

\* The files are one history, without a gap and without two events at an
\* index, and what each open service has indexed is its beginning: a stale
\* owner shows old events, never other ones (event_store.py:197).
OneHistory ==
  /\ \A f, g \in files : f.at = g.at => f = g
  /\ {f.at : f \in files} = 0..(Cardinality(files) - 1)
  /\ "delete" \notin faults =>
       \A p \in Procs : Entries(log[p]) \subseteq files

\* An action is answered twice only when the first answer was on disk but not on
\* the branch that base_state.json named as an owner took the conversation over
\* (state.py:324, 597): its run finds the action open and executes it.  A
\* process that came back to its tool's result after another had answered for
\* it, and a second recovery (event_service.py:1103), answer nothing again.
AnsweredOnce ==
  \A f, g \in files :
    f.kind = "answer" /\ g.kind = "answer" /\ f.to = g.to /\ f # g =>
      f \in strays \/ g \in strays

AtBound == claims = MaxClaims \/ Cardinality(files) = MaxEvents

\* A dead process does not keep the conversation: another one takes it over,
\* at once on its host, after the lease has run out elsewhere.  The exception is
\* where the live processes all still have a service open that lost the lease
\* before: nothing closes it, and it never claims again
\* (conversation_lease.py:166, conversation_service.py:949).
DeadOwnerReplaced ==
  \A p \in Procs :
    (p \notin up /\ lease.owner = p)
      ~> (\/ lease.owner # p
          \/ \A q \in up \cap known : svc[q] = "open"
          \/ AtBound)
=============================================================================
