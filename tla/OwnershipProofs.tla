-------------------------- MODULE OwnershipProofs --------------------------
(***************************************************************************)
(* Theorems about a conversation on shared storage, for every set of       *)
(* processes, every term of a lease and every number of claims, events and *)
(* deaths: who may write is who claimed last, the event files are one      *)
(* history, its owner has read all of it, and an action is answered twice  *)
(* only if its first answer was off the branch that was taken over.        *)
(***************************************************************************)
EXTENDS Ownership, DataLemmas

\* A lease belongs to the process that claimed last, and a process without a
\* service has no generation to own it with.
Leased ==
  /\ lease \in [owner : Procs \cup {None}, gen : Nat, left : 0..Ttl]
  /\ svc \in [Procs -> Services]
  /\ gen \in [Procs -> Nat]
  /\ last \in Procs \cup {None}
  /\ lease.owner # None <=> lease.gen > 0
  /\ lease.owner # None => lease.owner = last
  /\ \A p \in Procs : svc[p] \in {"closed", "removing"} => gen[p] = 0

\* The steps of a service that goes on, or that fails to start.
Serves(p) ==
  \/ Load(p) \/ Commit(p) \/ Recover(p) \/ AnswerFirst(p) \/ Settle(p)
  \/ BeginRun(p) \/ Act(p) \/ Answer(p) \/ EndIteration(p) \/ EndRun(p)
  \/ Close(p) \/ Drain(p) \/ LateWrite(p)

\* They leave the lease and its generations alone, unless the service fails.
LEMMA ServiceSteps ==
  ASSUME Leased, NEW p \in Procs, Serves(p)
  PROVE  /\ UNCHANGED <<last, oneHost, faults, up, known, claims>>
         /\ \/ UNCHANGED <<lease, svc, gen>>
            \/ /\ UNCHANGED <<lease, gen>>
               /\ svc[p] \notin {"closed", "removing"}
               /\ \E s \in Services \ {"closed", "claimed", "removing"} :
                    svc' = [svc EXCEPT ![p] = s]
            \/ FailedStart(p)
<1> USE DEF others, history, disk, memory, Become, Services
<1>1. CASE Load(p)
  BY <1>1 DEF Load
<1>2. CASE Commit(p)
  BY <1>2 DEF Commit
<1>3. CASE Recover(p)
  BY <1>3 DEF Recover
<1>4. CASE AnswerFirst(p)
  BY <1>4 DEF AnswerFirst
<1>5. CASE Settle(p)
  BY <1>5 DEF Settle
<1>6. CASE BeginRun(p) \/ EndIteration(p) \/ EndRun(p) \/ Drain(p)
  BY <1>6 DEF BeginRun, EndIteration, EndRun, Drain
<1>7. CASE Act(p) \/ Answer(p)
  BY <1>7 DEF Act, Answer, Emit
<1>8. CASE Close(p)
  BY <1>8 DEF Close
<1>9. CASE LateWrite(p)
  BY <1>9 DEF LateWrite
<1> QED
  BY <1>1, <1>2, <1>3, <1>4, <1>5, <1>6, <1>7, <1>8, <1>9 DEF Serves

\* Init and every step give a leased state.
LEMMA LeaseInductive == Spec => []Leased
<1>1. Init => Leased
  BY OwnershipAssumption DEF Init, Leased, NoLease, Services
<1>2. ASSUME Leased, [Next]_vars PROVE Leased'
  <2> USE <1>2 DEF disk, memory, history
  <2>1. CASE UNCHANGED vars
    BY <2>1 DEF vars, Leased, Owns
  <2>2. CASE Tick
    BY <2>2, OwnershipAssumption DEF Tick, Leased
  <2>3. ASSUME NEW p \in Procs, Claim(p) PROVE Leased'
    <3>1. p # None /\ Ttl \in 0..Ttl
      BY OwnershipAssumption
    <3>2. /\ lease' \in [owner : Procs \cup {None}, gen : Nat, left : 0..Ttl]
          /\ lease'.owner = p /\ lease'.gen > 0
      BY <2>3, <3>1 DEF Claim, Leased
    <3>3. /\ svc' \in [Procs -> Services] /\ gen' \in [Procs -> Nat]
          /\ last' = p
      BY <2>3, <3>2 DEF Claim, Leased, Services
    <3>4. \A q \in Procs : svc'[q] \in {"closed", "removing"} => gen'[q] = 0
      BY <2>3 DEF Claim, Leased
    <3> QED
      BY <3>1, <3>2, <3>3, <3>4 DEF Leased
  <2>4. ASSUME NEW p \in Procs, Renew(p) PROVE Leased'
    BY <2>4, OwnershipAssumption DEF Renew, Leased
  <2>5. ASSUME NEW p \in Procs, Release(p) PROVE Leased'
    BY <2>5, OwnershipAssumption
    DEF Release, LetGo, Forget, Become, Leased, Services, NoLease
  <2>6. ASSUME NEW p \in Procs, Remove(p) PROVE Leased'
    BY <2>6, OwnershipAssumption
    DEF Remove, Become, Leased, Services, NoLease
  <2>7. ASSUME NEW p \in Procs, Die(p) PROVE Leased'
    BY <2>7 DEF Die, Forget, Become, Leased, Services
  <2>8. ASSUME NEW p \in Procs, Serves(p) PROVE Leased'
    <3>1. CASE FailedStart(p) /\ last' = last
      BY <3>1, OwnershipAssumption
      DEF FailedStart, LetGo, Forget, Become, Leased, Services, NoLease
    <3>2. CASE UNCHANGED <<lease, svc, gen, last>>
      BY <3>2 DEF Leased
    <3>3. CASE /\ UNCHANGED <<lease, gen, last>>
               /\ svc[p] \notin {"closed", "removing"}
               /\ \E s \in Services \ {"closed", "claimed", "removing"} :
                    svc' = [svc EXCEPT ![p] = s]
      BY <3>3 DEF Leased, Services
    <3> QED
      BY <2>8, <3>1, <3>2, <3>3, ServiceSteps
  <2> QED
    BY <2>1, <2>2, <2>3, <2>4, <2>5, <2>6, <2>7, <2>8 DEF Next, Serves
<1> QED
  BY <1>1, <1>2, PTL DEF Spec

\* A service that may write belongs to the process that claimed last, whatever
\* has been released, deleted or killed in between.
THEOREM LastClaimWrites == Spec => []Fenced
<1>1. Leased => Fenced
  BY OwnershipAssumption DEF Leased, Fenced, Owns
<1> QED
  BY LeaseInductive, <1>1, PTL
-----------------------------------------------------------------------------
\* The directory is of finite size.
Filed == IsFiniteSet(files) /\ Cardinality(files) \in 0..MaxEvents

\* The faults that occur are those of the behaviour.
FaultsKept ==
  /\ "late" \notin faults => \A p \in Procs : late[p] = None
  /\ "delete" \notin faults =>
       doomed = {} /\ \A p \in Procs : svc[p] # "removing"

Typed == TypeOK /\ Filed /\ FaultsKept

Count == Cardinality(files)

\* What an index has at a place: an event, or a hole.
Places == Files \cup {None}

\* An index shows the beginning of the directory.
Prefix(l) == \A i \in 1..Len(l) : l[i] \in files /\ l[i].at = i - 1

\* There are at least as many files as indices that are taken from 0 on.
LEMMA Taken ==
  ASSUME TypeOK, Filed, NEW n \in Nat,
         \A i \in 0..(n - 1) : \E f \in files : f.at = i
  PROVE  n <= Count
<1> DEFINE T == {f.at : f \in files}
           index == [f \in files |-> f.at]
<1>1. IsFiniteSet(T) /\ Cardinality(T) <= Count
  <2>1. index \in Surjection(files, T)
    BY DEF Surjection
  <2> QED
    BY <2>1, FS_Surjection DEF Filed, Count
<1>2. 0..(n - 1) \in SUBSET T
  OBVIOUS
<1>3. Cardinality(0..(n - 1)) = n
  BY FS_Interval
<1>4. n <= Cardinality(T)
  <2> HIDE DEF T
  <2> QED
    BY <1>1, <1>2, <1>3, FS_Subset
<1>5. Cardinality(T) \in Nat /\ Count \in Nat
  <2> HIDE DEF T
  <2> QED
    BY <1>1, FS_CardinalityType DEF Filed, Count
<1> QED
  BY <1>1, <1>4, <1>5

\* A scan of the directory reads its beginning up to the first gap.
LEMMA ScanReads ==
  ASSUME TypeOK, Filed
  PROVE  /\ Scan \in Seq(Files) /\ Len(Scan) \in Nat /\ Len(Scan) <= Count
         /\ DOMAIN Scan = 1..Len(Scan)
         /\ \A f \in files : f.at # Len(Scan)
         /\ Prefix(Scan)
<1> DEFINE free == {i \in 0..MaxEvents : \A f \in files : f.at # i}
           n == Min(free)
           read(i) == CHOOSE f \in files : f.at = i - 1
<1>0. Count \in Nat /\ MaxEvents \in Nat /\ Count <= MaxEvents
  BY OwnershipAssumption DEF Filed, Count
<1>1. /\ n \in 0..MaxEvents /\ \A f \in files : f.at # n
      /\ \A i \in 0..(n - 1) : \E f \in files : f.at = i
  <2>1. free # {}
    <3>1. SUFFICES ASSUME free = {} PROVE FALSE
      OBVIOUS
    <3>2. \A i \in 0..MaxEvents : \E f \in files : f.at = i
      BY <3>1
    <3>3. MaxEvents + 1 \in Nat /\ (MaxEvents + 1) - 1 = MaxEvents
      BY <1>0
    <3>4. MaxEvents + 1 <= Count
      BY <3>2, <3>3, Taken
    <3> QED
      BY <1>0, <3>4
  <2>2. free \subseteq Nat
    BY <1>0
  <2>3. n \in free /\ \A i \in free : n <= i
    <3> HIDE DEF free
    <3> QED
      BY <2>1, <2>2, NatMin
  <2>4. ASSUME NEW i \in 0..(n - 1) PROVE i \notin free
    <3>1. n \in Nat
      BY <2>2, <2>3
    <3> HIDE DEF n, free
    <3> QED
      BY <2>3, <3>1
  <2>5. n \in 0..MaxEvents /\ \A f \in files : f.at # n
    BY <2>3
  <2>6. \A i \in 0..(n - 1) : i \in 0..MaxEvents
    <3> HIDE DEF n, free
    <3> QED
      BY <1>0, <2>5
  <2> QED
    BY <2>4, <2>5, <2>6
<1>2. Scan = [i \in 1..n |-> read(i)]
  BY DEF Scan
<1> HIDE DEF n, free
<1>3. n \in Nat /\ n <= Count
  BY <1>0, <1>1, Taken
<1>4. ASSUME NEW i \in 1..n PROVE read(i) \in files /\ read(i).at = i - 1
  <2>1. i - 1 \in 0..(n - 1)
    BY <1>3
  <2> QED
    BY <1>1, <2>1
<1> HIDE DEF read
<1>5. \A i \in 1..n : read(i) \in Files
  BY <1>4 DEF TypeOK
<1>6. /\ Scan \in Seq(Files) /\ Len(Scan) = n
      /\ DOMAIN Scan = 1..n
      /\ \A i \in 1..n : Scan[i] = read(i)
  BY <1>2, <1>3, <1>5, IsASeq
<1> QED
  BY <1>1, <1>3, <1>4, <1>6 DEF Prefix

\* A scan is an index like any other.
LEMMA ScanIsLog == ASSUME TypeOK, Filed PROVE Scan \in Seq(Places)
<1>1. /\ Scan \in Seq(Files) /\ Len(Scan) \in Nat
      /\ DOMAIN Scan = 1..Len(Scan)
  BY ScanReads
<1>2. \A i \in 1..Len(Scan) : Scan[i] \in Places
  BY <1>1, ElementOfSeq DEF Places
<1>3. Scan = [i \in 1..Len(Scan) |-> Scan[i]]
  BY <1>1
<1>4. [i \in 1..Len(Scan) |-> Scan[i]] \in Seq(Places)
  BY <1>1, <1>2, IsASeq
<1> QED
  BY <1>3, <1>4

\* What append() has when it has looked at the directory.
LEMMA SyncType ==
  ASSUME TypeOK, Filed, NEW l \in Seq(Places)
  PROVE  /\ Sync(l) \in Seq(Places) /\ Len(Sync(l)) \in Nat
         /\ Count > Len(l) =>
              /\ Len(Sync(l)) = Count
              /\ \A i \in 1..Len(Scan) : Sync(l)[i] = Scan[i]
<1> DEFINE at(i) == IF i <= Len(Scan) THEN Scan[i]
                    ELSE IF i <= Len(l) THEN l[i] ELSE None
<1>1. Count \in Nat /\ Len(l) \in Nat /\ DOMAIN l = 1..Len(l)
  BY LenProperties DEF Filed, Count
<1>2. Scan \in Seq(Places) /\ Len(Scan) \in Nat /\ Len(Scan) <= Count
  BY ScanReads, ScanIsLog
<1>3. CASE Count > Len(l)
  <2>1. Sync(l) = [i \in 1..Count |-> at(i)]
    BY <1>3 DEF Sync, Count
  <2>2. ASSUME NEW i \in 1..Count PROVE at(i) \in Places
    <3>1. i <= Len(Scan) => Scan[i] \in Places
      BY <1>2, ElementOfSeq
    <3>2. i <= Len(l) => l[i] \in Places
      BY <1>1, ElementOfSeq
    <3> QED
      BY <3>1, <3>2 DEF Places
  <2>3. \A i \in 1..Len(Scan) : i \in 1..Count /\ at(i) = Scan[i]
    BY <1>1, <1>2
  <2> HIDE DEF at
  <2>4. Sync(l) \in Seq(Places) /\ Len(Sync(l)) = Count
    BY <1>1, <2>1, <2>2, IsASeq
  <2> QED
    BY <1>1, <2>1, <2>3, <2>4
<1>4. CASE ~(Count > Len(l))
  BY <1>1, <1>4 DEF Sync, Count
<1> QED
  BY <1>3, <1>4

\* A branch is made of events of the index, and of the leaf.
LEMMA BranchType ==
  ASSUME NEW l \in Seq(Places), NEW tip \in Places
  PROVE  /\ Branch(l, tip) \subseteq Files
         /\ tip \in Entries(l) \cup {None} =>
              Branch(l, tip) \subseteq Entries(l)
<1>1. Len(l) \in Nat /\ DOMAIN l = 1..Len(l)
  BY LenProperties
<1>2. Entries(l) \subseteq Files
  BY <1>1, ElementOfSeq DEF Entries, Places
<1>3. l # << >> => l[Len(l)] \in Entries(l) \cup {None}
  <2>1. ASSUME l # << >> PROVE Len(l) \in 1..Len(l)
    BY <1>1, <2>1, EmptySeq
  <2> QED
    BY <1>1, <2>1 DEF Entries
<1> QED
  BY <1>2, <1>3 DEF Branch, Places

\* What is written is an event file.
LEMMA FileType ==
  ASSUME TypeOK, Filed, NEW p \in Procs, NEW l \in Seq(Places),
         NEW tip \in Places, NEW kind \in {"action", "answer", "note"},
         NEW to \in Nat
  PROVE  NewFile(p, l, tip, kind, to) \in Files
<1>1. \A e \in Branch(l, tip) : e.at \in Nat
  BY BranchType DEF Files
<1>2. Len(Sync(l)) \in Nat /\ claims \in Nat
  BY SyncType, OwnershipAssumption DEF TypeOK
<1> QED
  BY <1>1, <1>2 DEF NewFile, Files

\* One more file.
LEMMA OneMoreFile ==
  ASSUME TypeOK, Filed, Room, NEW f \in Files, files' = files \cup {f}
  PROVE  files' \subseteq Files /\ Filed'
<1>0. /\ Count \in Nat /\ MaxEvents \in Nat /\ Count < MaxEvents
      /\ IsFiniteSet(files)
  BY OwnershipAssumption DEF Filed, Count, Room
<1>1. /\ IsFiniteSet(files')
      /\ Cardinality(files') = IF f \in files THEN Count ELSE Count + 1
  BY <1>0, FS_AddElement DEF Count
<1> QED
  BY <1>0, <1>1 DEF Filed, TypeOK

\* What a service that writes has then.
LEMMA WriteType ==
  ASSUME TypeOK, Filed, NEW p \in Procs,
         NEW kind \in {"action", "answer"}, NEW to \in Nat, Write(p, kind, to)
  PROVE  /\ files' \subseteq Files /\ Filed'
         /\ log' \in [Procs -> Seq(Places)] /\ leaf' \in [Procs -> Places]
         /\ dirty' \subseteq Procs
<1> DEFINE f == NewFile(p, log[p], leaf[p], kind, to)
<1>1. /\ Room /\ files' = files \cup {f} /\ dirty' = dirty \cup {p}
      /\ log' = [log EXCEPT ![p] = Append(Sync(log[p]), f)]
      /\ leaf' = [leaf EXCEPT ![p] = f]
  BY DEF Write
<1>2. log[p] \in Seq(Places) /\ leaf[p] \in Places
  BY DEF TypeOK, Places
<1>3. f \in Files
  BY <1>2, FileType
<1> HIDE DEF f
<1>4. Append(Sync(log[p]), f) \in Seq(Places)
  BY <1>2, <1>3, SyncType, AppendProperties DEF Places
<1>5. files' \subseteq Files /\ Filed'
  BY <1>1, <1>3, OneMoreFile
<1> QED
  BY <1>1, <1>3, <1>4, <1>5 DEF TypeOK, Places

\* The index of an action that a set of events leaves unmatched.
LEMMA UnmatchedType ==
  ASSUME NEW S, S \subseteq Files, NEW e \in Unmatched(S)
  PROVE  e.at \in Nat /\ e \in S
BY DEF Unmatched, Files
-----------------------------------------------------------------------------
(***************************************************************************)
(* What a service that is open does is of one of four kinds.               *)
(***************************************************************************)
static == <<oneHost, faults, up, known, claims, last>>

\* It writes an action, or the answer to one that is open in what it goes by.
Fits(p, kind, to) ==
  \/ kind = "action" /\ to = NoAction
  \/ /\ kind = "answer"
     /\ \E S \in {Branch(log[p], leaf[p]), Entries(log[p])} :
          \E e \in Unmatched(S) : to = e.at

Writes(p) ==
  /\ svc[p] \notin {"closed", "claimed", "removing"}
  /\ svc' \in {svc, [svc EXCEPT ![p] = "settling"]}
  /\ \E kind, to : Write(p, kind, to) /\ Fits(p, kind, to)
  /\ UNCHANGED <<lease, base, gen, status, late, doomed, strays, static>>

\* It reads the directory.
Loads(p) ==
  /\ svc[p] = "claimed"
  /\ svc' = [svc EXCEPT ![p] = "loaded"]
  /\ log' = [log EXCEPT ![p] = Scan]
  /\ leaf' = [leaf EXCEPT ![p] = base.leaf]
  /\ base.leaf \in Entries(Scan) \cup {None}
  /\ status' = [status EXCEPT ![p] = base.status]
  /\ strays' = strays \cup {f \in files \ Branch(Scan, base.leaf) :
                             f.kind = "answer"}
  /\ UNCHANGED <<lease, files, base, gen, dirty, late, doomed, static>>

\* It fails to start.
Fails(p) ==
  /\ svc[p] \notin {"closed", "removing"}
  /\ FailedStart(p)
  /\ UNCHANGED <<files, base, late, doomed, strays, static>>

\* It writes no event, and reads the directory only where it is refused.
Stays(p) ==
  /\ svc[p] \notin {"closed", "claimed", "removing"}
  /\ \E s \in Services \ {"closed", "claimed", "removing"} :
       svc' \in {svc, [svc EXCEPT ![p] = s]}
  /\ log' = log \/ (~Owns(p) /\ log' = [log EXCEPT ![p] = Sync(@)])
  /\ \E s \in Statuses : status' \in {status, [status EXCEPT ![p] = s]}
  /\ \/ base' = base
     \/ \E s \in Statuses : base' = [status |-> s, leaf |-> leaf[p]]
  /\ dirty' \subseteq dirty
  /\ \/ doomed' = doomed
     \/ "delete" \in faults /\ doomed' = doomed \cup {p}
  /\ UNCHANGED <<lease, files, gen, leaf, late, strays, static>>

LEMMA ServiceKinds ==
  ASSUME TypeOK, NEW p \in Procs, Serves(p)
  PROVE  Writes(p) \/ Loads(p) \/ Fails(p) \/ Stays(p) \/ LateWrite(p)
<1> USE DEF others, disk, static, Become
<1>0. leaf[p] \in Places /\ log[p] \in Seq(Places) /\ status[p] \in Statuses
  BY DEF TypeOK, Places
<1>1. CASE Load(p)
  BY <1>1 DEF Load, LoadsDirectory, Loads, Fails
<1>2. CASE Commit(p)
  BY <1>0, <1>2 DEF Commit, Stays, Services
<1>3. CASE Recover(p)
  <2>1. CASE Save(p, "stopped") /\ Become(p, "answering")
             /\ UNCHANGED <<lease, gen, log, leaf>>
    BY <1>3, <2>1 DEF Recover, Save, Stays, Services, Statuses
  <2>2. CASE ~Owns(p) /\ FailedStart(p) /\ UNCHANGED base
    BY <1>3, <2>2 DEF Recover, Fails
  <2> QED
    BY <1>3, <2>1, <2>2 DEF Recover
<1>4. CASE AnswerFirst(p)
  <2> DEFINE open == Unmatched(Entries(log[p]))
             first == Min({e.at : e \in open})
  <2>1. CASE open # {} /\ Write(p, "answer", first) /\ Become(p, "settling")
             /\ UNCHANGED <<lease, gen, status>>
    <3>1. open \subseteq Files
      <4>1. Entries(log[p]) \subseteq Files
        BY <1>0, LenProperties, ElementOfSeq DEF Entries, Places
      <4> QED
        BY <4>1 DEF Unmatched
    <3>2. {e.at : e \in open} \subseteq Nat /\ {e.at : e \in open} # {}
      BY <2>1, <3>1 DEF Files
    <3>3. PICK e \in open : first = e.at
      <4>1. first \in {e.at : e \in open}
        BY <3>2, NatMin
      <4> QED
        BY <4>1
    <3>4. Fits(p, "answer", first)
      BY <3>3 DEF Fits
    <3> QED
      BY <1>4, <2>1, <3>4 DEF AnswerFirst, Writes
  <2>2. CASE ~Owns(p) /\ FailedStart(p) /\ UNCHANGED files
    BY <1>4, <2>2 DEF AnswerFirst, Fails
  <2>3. CASE open = {} /\ Become(p, "open")
             /\ UNCHANGED <<lease, files, log, leaf, dirty, gen, status>>
    <3>1. status' = status /\ "running" \in Statuses
      BY <2>3 DEF Statuses
    <3> QED
      BY <1>4, <2>3, <3>1 DEF AnswerFirst, Stays, Services
  <2> QED
    BY <1>4, <2>1, <2>2, <2>3 DEF AnswerFirst
<1>5. CASE Settle(p)
  <2>1. CASE Save(p, status[p]) /\ Become(p, "open")
             /\ UNCHANGED <<lease, gen, log, leaf>>
    BY <1>0, <1>5, <2>1 DEF Settle, Save, Stays, Services
  <2>2. CASE ~Owns(p) /\ FailedStart(p) /\ UNCHANGED base
    BY <1>5, <2>2 DEF Settle, Fails
  <2> QED
    BY <1>5, <2>1, <2>2 DEF Settle
<1>6. ASSUME NEW s \in Statuses, svc[p] = "open", SaveOrFail(p, s),
             UNCHANGED <<lease, files, log, leaf, svc, gen, doomed, strays,
                         others>>
      PROVE  Stays(p)
  <2>1. "stopped" \in Statuses /\ "open" \in Services
    BY DEF Statuses, Services
  <2> QED
    BY <1>6, <2>1 DEF SaveOrFail, Save, Fail, Stays
<1>7. CASE BeginRun(p) \/ EndIteration(p) \/ EndRun(p)
  BY <1>6, <1>7 DEF BeginRun, EndIteration, EndRun, Running, Statuses
<1>8. ASSUME svc[p] \in {"open", "closing"}, Refuse(p), Fail(p),
             UNCHANGED <<lease, svc, gen, doomed, strays, others>>
      PROVE  Stays(p)
  <2>1. "stopped" \in Statuses /\ "open" \in Services
    BY DEF Statuses, Services
  <2>2. \E s \in Services \ {"closed", "claimed", "removing"} :
          svc' \in {svc, [svc EXCEPT ![p] = s]}
    BY <1>8, <2>1
  <2>3. \E s \in Statuses : status' \in {status, [status EXCEPT ![p] = s]}
    BY <1>8, <2>1 DEF Fail
  <2> QED
    BY <1>8, <2>2, <2>3 DEF Refuse, Fail, Stays
<1>9. ASSUME NEW kind, NEW to, Emit(p, kind, to), svc[p] = "open",
             Fits(p, kind, to)
      PROVE  Writes(p) \/ Stays(p)
  BY <1>8, <1>9 DEF Emit, Writes
<1>10. CASE Act(p)
  BY <1>9, <1>10 DEF Act, Running, Fits
<1>11. CASE Answer(p)
  BY <1>9, <1>11 DEF Answer, Running, Fits, Pending
<1>12. CASE Close(p)
  <2>1. "running" \in Statuses
    BY DEF Statuses
  <2> QED
    BY <1>12, <2>1 DEF Close, Stays, Services
<1>13. CASE Drain(p)
  <2>1. ASSUME NEW e \in Pending(p), Write(p, "answer", e.at),
               UNCHANGED <<status, base>>
        PROVE  Writes(p)
    <3>1. Fits(p, "answer", e.at)
      BY <2>1 DEF Fits, Pending
    <3> QED
      BY <1>13, <2>1, <3>1 DEF Drain, Writes
  <2>2. CASE Save(p, "stopped") /\ UNCHANGED <<files, log, leaf>>
    <3>1. "stopped" \in Statuses /\ "open" \in Services
      BY DEF Statuses, Services
    <3>2. \E s \in Services \ {"closed", "claimed", "removing"} :
            svc' \in {svc, [svc EXCEPT ![p] = s]}
      BY <1>13, <3>1 DEF Drain
    <3>3. \E s \in Statuses : status' \in {status, [status EXCEPT ![p] = s]}
      BY <2>2, <3>1 DEF Save
    <3>4. \E s \in Statuses : base' = [status |-> s, leaf |-> leaf[p]]
      BY <2>2, <3>1 DEF Save
    <3>5. Stays(p)
      BY <1>13, <2>2, <3>2, <3>3, <3>4 DEF Drain, Save, Stays
    <3> QED
      BY <3>5
  <2>3. CASE Refuse(p) /\ Fail(p)
    BY <1>8, <1>13, <2>3 DEF Drain
  <2> QED
    BY <1>13, <2>1, <2>2, <2>3 DEF Drain
<1>14. CASE LateWrite(p)
  BY <1>14
<1> HIDE DEF others, disk, static, Become
<1> QED
  BY <1>1, <1>2, <1>3, <1>4, <1>5, <1>7, <1>10, <1>11, <1>12, <1>13, <1>14
  DEF Serves
-----------------------------------------------------------------------------
\* A service that is forgotten leaves types as they are.
LEMMA ForgetType ==
  ASSUME TypeOK, NEW p \in Procs, Forget(p)
  PROVE  /\ log' \in [Procs -> Seq(Places)] /\ leaf' \in [Procs -> Places]
         /\ status' \in [Procs -> Statuses] /\ dirty' \subseteq Procs
<1>1. << >> \in Seq(Places)
  BY EmptySeq
<1> QED
  BY <1>1 DEF Forget, TypeOK, Places, Statuses

\* The steps of a service keep the types.
LEMMA ServiceTypes ==
  ASSUME Typed, Leased', NEW p \in Procs, Serves(p)
  PROVE  Typed'
<1> USE DEF static
<1>0. TypeOK /\ Filed /\ FaultsKept
  BY DEF Typed
<1>1. base.leaf \in Places /\ base.status \in Statuses
  BY <1>0 DEF TypeOK, Places
<1>2. CASE Writes(p)
  <2>1. PICK kind, to : Write(p, kind, to) /\ Fits(p, kind, to)
    BY <1>2 DEF Writes
  <2>2. kind \in {"action", "answer"} /\ to \in Nat
    <3>1. log[p] \in Seq(Places) /\ leaf[p] \in Places
      BY <1>0 DEF TypeOK, Places
    <3>2. Entries(log[p]) \subseteq Files
      BY <3>1, LenProperties, ElementOfSeq DEF Entries, Places
    <3>3. Branch(log[p], leaf[p]) \subseteq Files
      BY <3>1, BranchType
    <3> QED
      BY <2>1, <3>2, <3>3, UnmatchedType, OwnershipAssumption
      DEF Fits, NoAction
  <2>3. /\ files' \subseteq Files /\ Filed'
        /\ log' \in [Procs -> Seq(Places)] /\ leaf' \in [Procs -> Places]
        /\ dirty' \subseteq Procs
    BY <1>0, <2>1, <2>2, WriteType
  <2>4. FaultsKept'
    BY <1>0, <1>2 DEF Writes, FaultsKept, TypeOK
  <2>5. TypeOK'
    BY <1>0, <1>2, <2>3 DEF Writes, TypeOK, Places, Leased
  <2> QED
    BY <2>3, <2>4, <2>5 DEF Typed
<1>3. CASE Loads(p)
  <2>1. log' \in [Procs -> Seq(Places)] /\ leaf' \in [Procs -> Places]
    BY <1>0, <1>1, <1>3, ScanIsLog DEF Loads, TypeOK, Places
  <2>2. status' \in [Procs -> Statuses] /\ strays' \subseteq Files
    BY <1>0, <1>1, <1>3 DEF Loads, TypeOK
  <2>3. TypeOK'
    BY <1>0, <1>3, <2>1, <2>2 DEF Loads, TypeOK, Places, Leased
  <2>4. FaultsKept' /\ Filed'
    BY <1>0, <1>3 DEF Loads, FaultsKept, TypeOK, Filed
  <2> QED
    BY <2>3, <2>4 DEF Typed
<1>4. CASE Fails(p)
  <2>1. /\ log' \in [Procs -> Seq(Places)] /\ leaf' \in [Procs -> Places]
        /\ status' \in [Procs -> Statuses] /\ dirty' \subseteq Procs
    BY <1>0, <1>4, ForgetType DEF Fails, FailedStart
  <2>2. TypeOK'
    BY <1>0, <1>4, <2>1 DEF Fails, TypeOK, Places, Leased
  <2>3. FaultsKept' /\ Filed'
    BY <1>0, <1>4
    DEF Fails, FailedStart, Become, FaultsKept, TypeOK, Filed
  <2> QED
    BY <2>2, <2>3 DEF Typed
<1>5. CASE Stays(p)
  <2>1. log' \in [Procs -> Seq(Places)]
    <3>1. log[p] \in Seq(Places)
      BY <1>0 DEF TypeOK, Places
    <3>2. Sync(log[p]) \in Seq(Places)
      BY <1>0, <3>1, SyncType
    <3>3. log \in [Procs -> Seq(Places)]
      BY <1>0 DEF TypeOK, Places
    <3> QED
      BY <1>5, <3>2, <3>3 DEF Stays
  <2>2. status' \in [Procs -> Statuses]
    BY <1>0, <1>5 DEF Stays, TypeOK
  <2>3. base' \in [status : Statuses, leaf : Places]
    <3>1. leaf[p] \in Places /\ base \in [status : Statuses, leaf : Places]
      BY <1>0 DEF TypeOK, Places
    <3>2. CASE base' = base
      BY <3>1, <3>2
    <3>3. ASSUME NEW s \in Statuses, base' = [status |-> s, leaf |-> leaf[p]]
          PROVE  base' \in [status : Statuses, leaf : Places]
      BY <3>1, <3>3
    <3> QED
      BY <1>5, <3>2, <3>3 DEF Stays
  <2>4. doomed' \subseteq Procs /\ dirty' \subseteq Procs
    BY <1>0, <1>5 DEF Stays, TypeOK
  <2>5. UNCHANGED <<files, leaf, late, strays, static>>
    BY <1>5 DEF Stays
  <2>6. TypeOK'
    BY <1>0, <2>1, <2>2, <2>3, <2>4, <2>5 DEF TypeOK, Places, Leased
  <2>7. FaultsKept' /\ Filed'
    BY <1>0, <1>5 DEF Stays, FaultsKept, TypeOK, Filed
  <2> QED
    BY <2>6, <2>7 DEF Typed
<1>6. CASE LateWrite(p)
  <2> DEFINE s == late[p]
             f == NewFile(p, s.log, s.leaf, "note", NoAction)
  <2>1. /\ Room /\ s # None /\ files' = files \cup {f}
        /\ base' = [status |-> s.status, leaf |-> f]
        /\ late' = [late EXCEPT ![p] = None]
        /\ UNCHANGED <<oneHost, faults, lease, up, known, svc, gen, log,
                       status, leaf, dirty, doomed, claims, last, strays>>
    BY <1>6 DEF LateWrite, memory, history
  <2>2. /\ s.log \in Seq(Places) /\ s.leaf \in Places
        /\ s.status \in Statuses
    BY <1>0, <2>1 DEF TypeOK, Places
  <2>3. NoAction \in Nat
    BY OwnershipAssumption DEF NoAction
  <2>4. f \in Files
    BY <1>0, <2>2, <2>3, FileType
  <2> HIDE DEF f
  <2>5. files' \subseteq Files /\ Filed'
    BY <1>0, <2>1, <2>4, OneMoreFile
  <2>6. base' \in [status : Statuses, leaf : Files \cup {None}]
    BY <2>1, <2>2, <2>4
  <2>7. TypeOK'
    <3> HIDE DEF s
    <3> QED
      BY <1>0, <2>1, <2>5, <2>6 DEF TypeOK
  <2>8. FaultsKept'
    BY <1>0, <2>1 DEF FaultsKept, TypeOK
  <2> QED
    BY <2>5, <2>7, <2>8 DEF Typed
<1> QED
  BY <1>0, <1>2, <1>3, <1>4, <1>5, <1>6, ServiceKinds

\* Initially, and at every step.
LEMMA TypeInductive == Spec => []Typed
<1>1. Init => Typed
  <2> SUFFICES ASSUME Init PROVE Typed
    OBVIOUS
  <2>1. << >> \in Seq(Files \cup {None})
    BY EmptySeq
  <2>2. TypeOK
    BY <2>1, OwnershipAssumption
    DEF Init, TypeOK, NoLease, NewBase, Statuses, Services
  <2>3. IsFiniteSet({}) /\ Cardinality({}) = 0
    BY FS_EmptySet
  <2>4. Filed
    BY <2>3, OwnershipAssumption DEF Init, Filed
  <2>5. FaultsKept
    BY DEF Init, FaultsKept
  <2> QED
    BY <2>2, <2>4, <2>5 DEF Typed
<1>2. ASSUME Typed, Leased, Leased', [Next]_vars PROVE Typed'
  <2> USE DEF disk, memory, history
  <2>0. TypeOK /\ Filed /\ FaultsKept
    BY <1>2 DEF Typed
  <2>1. CASE UNCHANGED vars
    BY <2>0, <2>1 DEF vars, Typed, TypeOK, Filed, FaultsKept
  <2>2. CASE Tick
    BY <1>2, <2>0, <2>2 DEF Tick, Typed, TypeOK, Filed, FaultsKept, Leased
  <2>3. ASSUME NEW p \in Procs, Claim(p) PROVE Typed'
    <3>1. /\ svc' = [svc EXCEPT ![p] = "claimed"]
          /\ UNCHANGED <<oneHost, faults, files, base, up, known, log, status,
                         leaf, dirty, doomed, late, strays>>
          /\ claims < MaxClaims /\ claims' = claims + 1
      BY <2>3 DEF Claim
    <3>2. claims' \in 0..MaxClaims
      BY <2>0, <3>1, OwnershipAssumption DEF TypeOK
    <3> QED
      BY <1>2, <2>0, <3>1, <3>2 DEF Typed, TypeOK, Filed, FaultsKept, Leased
  <2>4. ASSUME NEW p \in Procs, Renew(p) PROVE Typed'
    BY <1>2, <2>0, <2>4 DEF Renew, Typed, TypeOK, Filed, FaultsKept, Leased
  <2>5. ASSUME NEW p \in Procs, Release(p) PROVE Typed'
    <3>1. /\ svc' = [svc EXCEPT ![p] = IF p \in doomed THEN "removing"
                                                       ELSE "closed"]
          /\ \/ UNCHANGED late
             \/ /\ "late" \in faults
                /\ late' = [late EXCEPT ![p] =
                              [log |-> log[p], leaf |-> leaf[p],
                               status |-> status[p]]]
          /\ Forget(p)
          /\ UNCHANGED <<oneHost, faults, files, base, up, known, doomed,
                         claims, last, strays>>
      BY <2>5 DEF Release, Become
    <3>2. /\ log' \in [Procs -> Seq(Places)] /\ leaf' \in [Procs -> Places]
          /\ status' \in [Procs -> Statuses] /\ dirty' \subseteq Procs
      BY <2>0, <3>1, ForgetType
    <3>3. late' \in [Procs -> [log : Seq(Places), leaf : Places,
                               status : Statuses] \cup {None}]
      <4>1. [log |-> log[p], leaf |-> leaf[p], status |-> status[p]]
              \in [log : Seq(Places), leaf : Places, status : Statuses]
        BY <2>0 DEF TypeOK, Places
      <4> QED
        BY <2>0, <3>1, <4>1 DEF TypeOK, Places
    <3>4. TypeOK'
      BY <1>2, <2>0, <3>1, <3>2, <3>3 DEF TypeOK, Places, Leased
    <3>5. FaultsKept'
      <4>1. "delete" \notin faults => p \notin doomed
        BY <2>0 DEF FaultsKept
      <4> QED
        BY <2>0, <3>1, <4>1 DEF FaultsKept, TypeOK
    <3> QED
      BY <2>0, <3>1, <3>4, <3>5 DEF Typed, Filed
  <2>6. ASSUME NEW p \in Procs, Remove(p) PROVE Typed'
    <3>1. /\ svc[p] = "removing" /\ files' = {} /\ lease' = NoLease
          /\ base' = NewBase /\ known' = known \ {p} /\ doomed' = doomed \ {p}
          /\ svc' = [svc EXCEPT ![p] = "closed"]
          /\ UNCHANGED <<oneHost, faults, up, gen, log, status, leaf, dirty,
                         late, claims, last, strays>>
      BY <2>6 DEF Remove, Become
    <3>2. TypeOK'
      BY <1>2, <2>0, <3>1 DEF TypeOK, NewBase, Statuses, Leased
    <3>3. FaultsKept'
      BY <2>0, <3>1 DEF FaultsKept, TypeOK
    <3>4. Filed'
      BY <3>1, FS_EmptySet, OwnershipAssumption DEF Filed
    <3> QED
      BY <3>2, <3>3, <3>4 DEF Typed
  <2>7. ASSUME NEW p \in Procs, Die(p) PROVE Typed'
    <3>1. /\ up' = up \ {p} /\ svc' = [svc EXCEPT ![p] = "closed"]
          /\ Forget(p)
          /\ late' = [late EXCEPT ![p] = None] /\ doomed' = doomed \ {p}
          /\ UNCHANGED <<oneHost, faults, lease, files, base, known, claims,
                         last, strays>>
      BY <2>7 DEF Die, Become
    <3>2. /\ log' \in [Procs -> Seq(Places)] /\ leaf' \in [Procs -> Places]
          /\ status' \in [Procs -> Statuses] /\ dirty' \subseteq Procs
      BY <2>0, <3>1, ForgetType
    <3>3. TypeOK'
      BY <1>2, <2>0, <3>1, <3>2 DEF TypeOK, Places, Leased
    <3>4. FaultsKept'
      BY <2>0, <3>1 DEF FaultsKept, TypeOK
    <3> QED
      BY <2>0, <3>1, <3>3, <3>4 DEF Typed, Filed
  <2>8. ASSUME NEW p \in Procs, Serves(p) PROVE Typed'
    BY <1>2, <2>8, ServiceTypes
  <2> QED
    BY <1>2, <2>1, <2>2, <2>3, <2>4, <2>5, <2>6, <2>7, <2>8 DEF Next, Serves
<1> QED
  BY LeaseInductive, <1>1, <1>2, PTL DEF Spec

\* Every variable has its type, with every fault: in particular every event has
\* an index and a path of indices, whatever was written late or deleted.
THEOREM TypesHold == Spec => []TypeOK
<1>1. Typed => TypeOK
  BY DEF Typed
<1> QED
  BY TypeInductive, <1>1, PTL
-----------------------------------------------------------------------------
(***************************************************************************)
(* The history.                                                            *)
(***************************************************************************)
\* A late write and a deletion do not meet: if they did, the write would have an
\* index of the log that was deleted, and whoever scans the directory would not
\* read beyond the gap.
OneFault == faults # {"late", "delete"}

\* The files are numbered without a gap and without a double.
Numbered ==
  /\ \A f, g \in files : f.at = g.at => f = g
  /\ {f.at : f \in files} = 0..(Cardinality(files) - 1)

\* What a service has read is the beginning, unless it was deleted since.
Kept ==
  "delete" \notin faults =>
    \A p \in Procs : Prefix(log[p]) /\ (late[p] # None => Prefix(late[p].log))

\* An index l with a leaf shows the beginning of the files F, lacks nothing of
\* them but notes that were written late, and has every answer on the branch of
\* its leaf that was not off the branch when it was loaded.
Knows(F, l, tip, off) ==
  /\ \A i \in 1..Len(l) : l[i] \in F /\ l[i].at = i - 1
  /\ tip \in Entries(l) \cup {None}
  /\ \A f \in F : f \in Entries(l) \/ f.kind = "note"
  /\ \A f \in F : f.kind = "answer" => f \in Branch(l, tip) \cup off

\* The owner does, once it has read the directory.
Seen ==
  \A p \in Procs :
    svc[p] # "claimed" /\ Owns(p) => Knows(files, log[p], leaf[p], strays)

History == Numbered /\ Kept /\ Seen /\ AnsweredOnce

IInv == Typed /\ (OneFault => History)

\* An index that shows the beginning and is as long as the directory has it all.
LEMMA FullIndex ==
  ASSUME TypeOK, Filed, Numbered, NEW l \in Seq(Places), Prefix(l),
         Len(l) = Count
  PROVE  Entries(l) = files
<1>1. Count \in Nat /\ DOMAIN l = 1..Count
  BY LenProperties DEF Filed, Count
<1>2. Entries(l) \subseteq files
  BY <1>1 DEF Prefix, Entries
<1>3. ASSUME NEW f \in files PROVE f \in Entries(l)
  <2>1. f.at \in {g.at : g \in files} /\ f # None
    BY OwnershipAssumption DEF TypeOK
  <2>2. f.at \in 0..(Count - 1)
    BY <2>1 DEF Numbered, Count
  <2>3. f.at + 1 \in 1..Count /\ (f.at + 1) - 1 = f.at
    BY <1>1, <2>2
  <2>4. l[f.at + 1] = f
    BY <2>3 DEF Prefix, Numbered
  <2> QED
    BY <1>1, <2>1, <2>3, <2>4 DEF Entries
<1> QED
  BY <1>2, <1>3

\* A scan reads all of a history that is numbered.
LEMMA ScanReadsAll ==
  ASSUME TypeOK, Filed, Numbered
  PROVE  Prefix(Scan) /\ Len(Scan) = Count /\ Entries(Scan) = files
<1>1. /\ Len(Scan) \in Nat /\ Len(Scan) <= Count /\ Prefix(Scan)
      /\ \A f \in files : f.at # Len(Scan)
      /\ Scan \in Seq(Places)
  BY ScanReads, ScanIsLog
<1>2. Len(Scan) = Count
  <2>1. Len(Scan) \notin {f.at : f \in files}
    BY <1>1
  <2>2. Count \in Nat /\ Len(Scan) \notin 0..(Count - 1)
    BY <2>1 DEF Numbered, Filed, Count
  <2> QED
    BY <1>1, <2>2
<1> QED
  BY <1>1, <1>2, FullIndex

\* So does an index that shows the beginning, when append() has looked.
LEMMA SyncReadsAll ==
  ASSUME TypeOK, Filed, Numbered, NEW l \in Seq(Places), Prefix(l)
  PROVE  /\ Prefix(Sync(l)) /\ Len(Sync(l)) = Count
         /\ Entries(Sync(l)) = files
<1>1. /\ Count \in Nat /\ Len(l) \in Nat /\ DOMAIN l = 1..Len(l)
      /\ Sync(l) \in Seq(Places)
  BY LenProperties, SyncType DEF Filed, Count
<1>2. CASE Count > Len(l)
  <2>1. Len(Sync(l)) = Count /\ Len(Scan) = Count /\ Prefix(Scan)
    BY <1>2, ScanReadsAll, SyncType
  <2>2. \A i \in 1..Count : Sync(l)[i] = Scan[i]
    BY <1>2, <2>1, SyncType
  <2>3. Prefix(Sync(l))
    BY <2>1, <2>2 DEF Prefix
  <2> QED
    BY <1>1, <2>1, <2>3, FullIndex
<1>3. CASE ~(Count > Len(l))
  <2>1. Sync(l) = l
    BY <1>3 DEF Sync, Count
  <2>2. ASSUME NEW i \in 0..(Len(l) - 1) PROVE \E f \in files : f.at = i
    <3>1. i + 1 \in 1..Len(l) /\ (i + 1) - 1 = i
      BY <1>1
    <3>2. l[i + 1] \in files /\ l[i + 1].at = i
      BY <3>1 DEF Prefix
    <3> QED
      BY <3>2
  <2>3. Len(l) <= Count
    BY <1>1, <2>2, Taken
  <2>4. Len(l) = Count
    <3>1. \A m, n \in Nat : m <= n /\ ~(n > m) => m = n
      OBVIOUS
    <3>2. Count \in Nat /\ Len(l) \in Nat
      BY <1>1
    <3> HIDE DEF Count
    <3> QED
      BY <1>3, <2>3, <3>1, <3>2
  <2> QED
    BY <2>1, <2>4, FullIndex
<1> QED
  BY <1>2, <1>3

\* One more file at the end of the history.
LEMMA NumberedGrows ==
  ASSUME TypeOK, Filed, Numbered, NEW f \in Files, f.at = Count,
         files' = files \cup {f}
  PROVE  Numbered'
<1>0. Count \in Nat /\ IsFiniteSet(files)
  BY DEF Filed, Count
<1>1. \A g \in files : g.at # Count
  <2>1. \A g \in files : g.at \in 0..(Count - 1)
    BY DEF Count, Numbered
  <2> QED
    BY <1>0, <2>1
<1>2. Cardinality(files') = Count + 1
  BY <1>0, <1>1, FS_AddElement DEF Count
<1>3. {g.at : g \in files'} = {g.at : g \in files} \cup {f.at}
  OBVIOUS
<1>4. 0..(Cardinality(files') - 1) = 0..(Count - 1) \cup {Count}
  BY <1>0, <1>2
<1> QED
  BY <1>1, <1>3, <1>4 DEF Count, Numbered

\* A service that has read nothing has read a beginning.
LEMMA EmptyPrefix == Prefix(<< >>)
BY EmptySeq DEF Prefix

\* A step that writes no event keeps the history, if whoever owns the lease then
\* and has read the directory knows it.
LEMMA NoWrite ==
  ASSUME Typed, OneFault, History, UNCHANGED <<files, faults>>,
         strays \subseteq strays',
         \A p \in Procs :
           /\ log'[p] \in {log[p], << >>, Sync(log[p]), Scan}
           /\ late'[p] \in {late[p], None} \/ late'[p].log = log[p]
           /\ svc'[p] # "claimed" /\ Owns(p)' =>
                Knows(files, log'[p], leaf'[p], strays')
  PROVE  History'
<1>0. TypeOK /\ Filed /\ Numbered /\ Kept /\ AnsweredOnce
  BY DEF Typed, History
<1>1. Numbered' /\ AnsweredOnce'
  BY <1>0 DEF Numbered, AnsweredOnce
<1>2. Seen'
  BY DEF Seen
<1>3. Kept'
  <2>1. ASSUME NEW p \in Procs, "delete" \notin faults'
        PROVE  Prefix(log'[p]) /\ (late'[p] # None => Prefix(late'[p].log))
    <3>1. log[p] \in Seq(Places)
      BY <1>0 DEF TypeOK, Places
    <3>2. Prefix(log[p]) /\ (late[p] # None => Prefix(late[p].log))
      BY <1>0, <2>1 DEF Kept
    <3>3. Prefix(Sync(log[p])) /\ Prefix(Scan)
      BY <1>0, <3>1, <3>2, SyncReadsAll, ScanReadsAll
    <3> QED
      BY <3>2, <3>3, EmptyPrefix
  <2>2. ASSUME NEW p \in Procs, "delete" \notin faults'
        PROVE  Prefix(log[p])' /\ (late[p] # None => Prefix(late[p].log))'
    BY <2>1, <2>2 DEF Prefix
  <2> QED
    BY <2>2 DEF Kept
<1> QED
  BY <1>1, <1>2, <1>3 DEF History

\* The owner writes an action, or the answer to an action that is open to it.
LEMMA OwnerWrites ==
  ASSUME Typed, OneFault, History, NEW p \in Procs, Writes(p)
  PROVE  History'
<1> USE DEF static
<1>0. /\ TypeOK /\ Filed /\ Numbered /\ Kept /\ Seen /\ AnsweredOnce
  BY DEF Typed, History
<1>1. PICK kind, to : Write(p, kind, to) /\ Fits(p, kind, to)
  BY DEF Writes
<1> DEFINE l == Sync(log[p])
           f == NewFile(p, log[p], leaf[p], kind, to)
           B == Branch(log[p], leaf[p])
<1>2. /\ Owns(p) /\ files' = files \cup {f}
      /\ log' = [log EXCEPT ![p] = Append(l, f)]
      /\ leaf' = [leaf EXCEPT ![p] = f]
      /\ svc[p] \notin {"closed", "claimed", "removing"}
      /\ UNCHANGED <<lease, gen, late, faults, strays>>
  BY <1>1 DEF Write, Writes
<1>3. log[p] \in Seq(Places) /\ leaf[p] \in Places
  BY <1>0 DEF TypeOK, Places
<1>4. Knows(files, log[p], leaf[p], strays)
  BY <1>0, <1>2 DEF Seen
<1>5. B \subseteq Entries(log[p]) /\ Entries(log[p]) \subseteq files
  <2>1. Entries(log[p]) \subseteq files
    BY <1>3, <1>4, LenProperties DEF Knows, Entries
  <2> QED
    BY <1>3, <1>4, <2>1, BranchType DEF Knows
<1>6. kind \in {"action", "answer"} /\ to \in Nat
  <2>1. files \subseteq Files
    BY <1>0 DEF TypeOK
  <2>2. B \subseteq Files /\ Entries(log[p]) \subseteq Files
    BY <1>5, <2>1
  <2> QED
    BY <1>1, <2>2, UnmatchedType, OwnershipAssumption DEF Fits, NoAction
<1>7. f \in Files
  BY <1>0, <1>3, <1>6, FileType
<1>8. /\ l \in Seq(Places) /\ Len(l) = Count /\ Entries(l) = files
      /\ \A i \in 1..Len(l) : l[i] \in files /\ l[i].at = i - 1
      /\ DOMAIN l = 1..Len(l) /\ Len(l) \in Nat
  <2>1. Prefix(log[p])
    BY <1>4 DEF Knows, Prefix
  <2>2. l \in Seq(Places)
    BY <1>0, <1>3, SyncType
  <2>3. Prefix(l) /\ Len(l) = Count /\ Entries(l) = files
    BY <1>0, <1>3, <2>1, SyncReadsAll
  <2> HIDE DEF l
  <2> QED
    BY <2>2, <2>3, LenProperties DEF Prefix
<1>9. /\ f.at = Len(l) /\ f.kind = kind /\ f.to = to
      /\ f.path = {e.at : e \in B}
  BY DEF NewFile
<1>10. f # None
  BY <1>7, OwnershipAssumption
<1> HIDE DEF l, f, B
<1>11. Numbered'
  BY <1>0, <1>2, <1>7, <1>8, <1>9, NumberedGrows
<1> DEFINE m == Append(l, f)
<1>12. /\ m \in Seq(Places) /\ Len(m) = Len(l) + 1
       /\ \A i \in 1..Len(l) : m[i] = l[i]
       /\ m[Len(l) + 1] = f
       /\ DOMAIN m = 1..(Len(l) + 1)
  <2>1. f \in Places
    BY <1>7 DEF Places
  <2>2. /\ m \in Seq(Places) /\ Len(m) = Len(l) + 1
        /\ \A i \in 1..Len(l) : m[i] = l[i]
        /\ m[Len(l) + 1] = f
    BY <1>8, <2>1, AppendProperties
  <2> HIDE DEF m
  <2> QED
    BY <2>2, LenProperties
<1>13. log'[p] = m /\ leaf'[p] = f
  BY <1>0, <1>2 DEF TypeOK
<1> HIDE DEF m
<1>14. \A i \in 1..Len(m) : m[i] \in files' /\ m[i].at = i - 1
  <2>1. SUFFICES ASSUME NEW i \in 1..Len(m)
                 PROVE  m[i] \in files' /\ m[i].at = i - 1
    OBVIOUS
  <2>2. CASE i \in 1..Len(l)
    BY <1>2, <1>8, <1>12, <2>2
  <2>3. CASE i = Len(l) + 1
    <3>1. (Len(l) + 1) - 1 = Len(l)
      BY <1>8
    <3> QED
      BY <1>2, <1>9, <1>12, <2>3, <3>1
  <2>4. \A k \in Nat : \A j \in 1..(k + 1) : j \in 1..k \/ j = k + 1
    OBVIOUS
  <2>5. i \in 1..(Len(l) + 1)
    BY <1>12
  <2> QED
    BY <1>8, <2>2, <2>3, <2>4, <2>5
<1>15. Entries(m) = files'
  <2>1. Entries(m) \subseteq files'
    BY <1>12, <1>14 DEF Entries
  <2>2. ASSUME NEW g \in Entries(l) PROVE g \in Entries(m)
    <3>1. PICK i \in 1..Len(l) : g = l[i]
      BY <1>8 DEF Entries
    <3>2. i \in 1..(Len(l) + 1) /\ m[i] = g
      BY <1>8, <1>12, <3>1
    <3>3. g # None
      BY DEF Entries
    <3> QED
      BY <1>12, <3>2, <3>3 DEF Entries
  <2>3. f \in Entries(m)
    <3>1. Len(l) + 1 \in 1..(Len(l) + 1)
      BY <1>8
    <3> QED
      BY <1>10, <1>12, <3>1 DEF Entries
  <2> QED
    BY <1>2, <1>8, <2>1, <2>2, <2>3
<1>16. Branch(m, f) = {f} \cup {e \in files' : e.at \in f.path}
  BY <1>10, <1>15 DEF Branch
<1>17. \A g \in files : g.kind = "answer" => g \in B \cup strays
  BY <1>4 DEF Knows, B
<1>18. ASSUME NEW g \in files', g.kind = "answer"
       PROVE  g \in Branch(m, f) \cup strays
  BY <1>2, <1>9, <1>16, <1>17, <1>18
<1>19. Knows(files', m, f, strays)
  BY <1>10, <1>14, <1>15, <1>18, <1>2 DEF Knows
<1>20. Seen'
  <2>1. ASSUME NEW q \in Procs, (svc[q] # "claimed" /\ Owns(q))'
        PROVE  Knows(files, log[q], leaf[q], strays)'
    <3>1. q = p
      BY <1>2, <2>1 DEF Owns
    <3>2. Knows(files', log'[p], leaf'[p], strays')
      BY <1>2, <1>13, <1>19
    <3> QED
      BY <3>1, <3>2
  <2> QED
    BY <2>1 DEF Seen
<1>21. Kept'
  <2>1. ASSUME NEW q \in Procs, "delete" \notin faults'
        PROVE  Prefix(log[q])' /\ (late[q] # None => Prefix(late[q].log))'
    <3>1. Prefix(log[q]) /\ (late[q] # None => Prefix(late[q].log))
      BY <1>0, <1>2, <2>1 DEF Kept
    <3>2. Prefix(log[q])'
      <4>1. CASE q = p
        BY <1>13, <1>14, <4>1 DEF Prefix
      <4>2. CASE q # p
        <5>1. log'[q] = log[q]
          BY <1>0, <1>2, <4>2 DEF TypeOK
        <5>2. files \subseteq files'
          BY <1>2
        <5> QED
          BY <3>1, <5>1, <5>2 DEF Prefix
      <4> QED
        BY <4>1, <4>2
    <3>3. (late[q] # None => Prefix(late[q].log))'
      BY <1>2, <3>1 DEF Prefix
    <3> QED
      BY <3>2, <3>3
  <2> QED
    BY <2>1 DEF Kept
<1>22. ASSUME NEW g \in files, g.kind = "answer", kind = "answer", g.to = to
       PROVE  g \in strays
  <2>1. PICK S \in {B, Entries(log[p])} : \E e \in Unmatched(S) : to = e.at
    BY <1>1, <1>22 DEF Fits, B
  <2>2. g \notin S
    BY <1>22, <2>1 DEF Unmatched
  <2>3. g \in Entries(log[p])
    BY <1>4, <1>22 DEF Knows
  <2> QED
    BY <1>17, <1>22, <2>1, <2>2, <2>3
<1>23. AnsweredOnce'
  BY <1>0, <1>2, <1>9, <1>22 DEF AnsweredOnce
<1> QED
  BY <1>11, <1>20, <1>21, <1>23 DEF History

\* A closed service writes a note, with nothing to guard it, at the end.
LEMMA LateWriteStep ==
  ASSUME Typed, OneFault, History, NEW p \in Procs, LateWrite(p)
  PROVE  History'
<1>0. /\ TypeOK /\ Filed /\ FaultsKept
      /\ Numbered /\ Kept /\ Seen /\ AnsweredOnce
  BY DEF Typed, History
<1> DEFINE s == late[p]
           l == Sync(s.log)
           f == NewFile(p, s.log, s.leaf, "note", NoAction)
<1>1. /\ s # None /\ files' = files \cup {f}
      /\ late' = [late EXCEPT ![p] = None]
      /\ UNCHANGED <<faults, lease, svc, gen, log, leaf, strays>>
  BY DEF LateWrite, memory, history
<1>2. "delete" \notin faults
  <2>1. "late" \in faults /\ faults \subseteq {"late", "delete"}
    BY <1>0, <1>1, OwnershipAssumption DEF FaultsKept, TypeOK
  <2> QED
    BY <2>1 DEF OneFault
<1>3. s.log \in Seq(Places) /\ s.leaf \in Places
  BY <1>0, <1>1 DEF TypeOK, Places
<1>4. f \in Files
  BY <1>0, <1>3, FileType, OwnershipAssumption DEF NoAction
<1>5. f.at = Count /\ f.kind = "note"
  <2>1. Prefix(s.log)
    BY <1>0, <1>1, <1>2 DEF Kept
  <2>2. Len(l) = Count
    BY <1>0, <1>3, <2>1, SyncReadsAll
  <2> QED
    BY <2>2 DEF NewFile
<1> HIDE DEF f, l, s
<1>6. Numbered'
  BY <1>0, <1>1, <1>4, <1>5, NumberedGrows
<1>7. AnsweredOnce'
  BY <1>0, <1>1, <1>5 DEF AnsweredOnce
<1>8. Seen'
  <2>1. ASSUME NEW q \in Procs, (svc[q] # "claimed" /\ Owns(q))'
        PROVE  Knows(files, log[q], leaf[q], strays)'
    <3>1. Knows(files, log[q], leaf[q], strays)
      BY <1>0, <1>1, <2>1 DEF Seen, Owns
    <3>2. Knows(files', log[q], leaf[q], strays)
      BY <1>1, <1>5, <3>1 DEF Knows
    <3> QED
      BY <1>1, <3>2
  <2> QED
    BY <2>1 DEF Seen
<1>9. Kept'
  <2>1. ASSUME NEW q \in Procs, "delete" \notin faults'
        PROVE  Prefix(log[q])' /\ (late[q] # None => Prefix(late[q].log))'
    <3>1. Prefix(log[q]) /\ (late[q] # None => Prefix(late[q].log))
      BY <1>0, <1>2 DEF Kept
    <3>2. Prefix(log[q])'
      <4>1. log'[q] = log[q] /\ files \subseteq files'
        BY <1>1
      <4> QED
        BY <3>1, <4>1 DEF Prefix
    <3>3. late'[q] = IF q = p THEN None ELSE late[q]
      BY <1>0, <1>1 DEF TypeOK
    <3> QED
      BY <1>1, <3>1, <3>2, <3>3 DEF Prefix
  <2> QED
    BY <2>1 DEF Kept
<1> QED
  BY <1>6, <1>7, <1>8, <1>9 DEF History

\* The steps of a service keep the history.
LEMMA ServiceHistory ==
  ASSUME Typed, Leased, Leased', OneFault, History, NEW p \in Procs, Serves(p)
  PROVE  History'
<1> USE DEF static
<1>0. TypeOK /\ Filed /\ Numbered /\ Seen
  BY DEF Typed, History
<1>1. CASE Loads(p)
  <2>1. /\ log' = [log EXCEPT ![p] = Scan]
        /\ leaf' = [leaf EXCEPT ![p] = base.leaf]
        /\ base.leaf \in Entries(Scan) \cup {None}
        /\ strays' = strays \cup {f \in files \ Branch(Scan, base.leaf) :
                                   f.kind = "answer"}
        /\ svc' = [svc EXCEPT ![p] = "loaded"]
        /\ UNCHANGED <<lease, files, gen, late, faults>>
    BY <1>1 DEF Loads
  <2>2. Knows(files, Scan, base.leaf, strays')
    BY <1>0, <2>1, ScanReadsAll DEF Knows, Prefix
  <2>3. ASSUME NEW q \in Procs, svc'[q] # "claimed", Owns(q)'
        PROVE  Knows(files, log'[q], leaf'[q], strays')
    <3>1. CASE q = p
      <4>1. log'[p] = Scan /\ leaf'[p] = base.leaf
        BY <1>0, <2>1 DEF TypeOK
      <4> QED
        BY <2>2, <3>1, <4>1
    <3>2. CASE q # p
      <4>1. log'[q] = log[q] /\ leaf'[q] = leaf[q] /\ svc[q] # "claimed"
            /\ Owns(q)
        BY <1>0, <2>1, <2>3, <3>2 DEF TypeOK, Owns
      <4>2. Knows(files, log[q], leaf[q], strays)
        BY <1>0, <4>1 DEF Seen
      <4> QED
        BY <2>1, <4>1, <4>2 DEF Knows
    <3> QED
      BY <3>1, <3>2
  <2>4. \A q \in Procs : log'[q] \in {log[q], Scan}
    BY <1>0, <2>1 DEF TypeOK
  <2> QED
    BY <2>1, <2>3, <2>4, NoWrite
<1>2. CASE Fails(p)
  <2>1. /\ lease' \in {NoLease, lease} /\ gen' = [gen EXCEPT ![p] = 0]
        /\ log' = [log EXCEPT ![p] = << >>]
        /\ leaf' = [leaf EXCEPT ![p] = None]
        /\ svc' = [svc EXCEPT ![p] = "closed"]
        /\ UNCHANGED <<files, late, faults, strays>>
    BY <1>2 DEF Fails, FailedStart, Forget, LetGo, Become
  <2>2. ASSUME NEW q \in Procs, svc'[q] # "claimed", Owns(q)'
        PROVE  Knows(files, log'[q], leaf'[q], strays')
    <3>1. lease' = lease /\ q # p
      BY <1>0, <2>1, <2>2, OwnershipAssumption
      DEF NoLease, Owns, Leased, TypeOK
    <3>2. log'[q] = log[q] /\ leaf'[q] = leaf[q] /\ svc[q] # "claimed"
          /\ Owns(q)
      BY <1>0, <2>1, <2>2, <3>1 DEF TypeOK, Owns
    <3> QED
      BY <1>0, <2>1, <3>2 DEF Seen
  <2>3. \A q \in Procs : log'[q] \in {log[q], << >>}
    BY <1>0, <2>1 DEF TypeOK
  <2> QED
    BY <2>1, <2>2, <2>3, NoWrite
<1>3. CASE Stays(p)
  <2>1. /\ svc[p] # "claimed"
        /\ log' = log \/ (~Owns(p) /\ log' = [log EXCEPT ![p] = Sync(log[p])])
        /\ UNCHANGED <<lease, gen, files, leaf, late, faults, strays>>
    BY <1>3 DEF Stays
  <2>2. \A q \in Procs : svc'[q] # "claimed" => svc[q] # "claimed"
    BY <1>0, <1>3 DEF Stays, TypeOK
  <2>3. ASSUME NEW q \in Procs, svc'[q] # "claimed", Owns(q)'
        PROVE  Knows(files, log'[q], leaf'[q], strays')
    <3>1. Owns(q) /\ log'[q] = log[q]
      BY <1>0, <2>1, <2>3 DEF TypeOK, Owns
    <3> QED
      BY <1>0, <2>1, <2>2, <2>3, <3>1 DEF Seen
  <2>4. \A q \in Procs : log'[q] \in {log[q], Sync(log[q])}
    BY <1>0, <2>1 DEF TypeOK
  <2> QED
    BY <2>1, <2>3, <2>4, NoWrite
<1> QED
  BY <1>0, <1>1, <1>2, <1>3, ServiceKinds, OwnerWrites, LateWriteStep

\* The directory goes: the history begins anew, and nobody owns it.
LEMMA RemoveStep ==
  ASSUME Typed, OneFault, History, NEW p \in Procs, Remove(p)
  PROVE  History'
<1>0. TypeOK /\ FaultsKept
  BY DEF Typed
<1>1. svc[p] = "removing" /\ files' = {} /\ lease' = NoLease /\ faults' = faults
  BY DEF Remove
<1>2. "delete" \in faults
  BY <1>0, <1>1 DEF FaultsKept
<1>3. Numbered' /\ AnsweredOnce'
  <2>1. Cardinality({}) = 0 /\ 0..(0 - 1) = {}
    BY FS_EmptySet
  <2> QED
    BY <1>1, <2>1 DEF Numbered, AnsweredOnce
<1>4. Seen'
  BY <1>1, OwnershipAssumption DEF Seen, Owns, NoLease
<1>5. Kept'
  BY <1>1, <1>2 DEF Kept
<1> QED
  BY <1>3, <1>4, <1>5 DEF History

\* Claims, renewals, the passing of time, and ends.
LEMMA LeaseSteps ==
  ASSUME Typed, Leased, Leased', OneFault, History,
         \/ Tick
         \/ \E p \in Procs : Claim(p) \/ Renew(p) \/ Release(p) \/ Die(p)
  PROVE  History'
<1> USE DEF disk, memory, history
<1>0. TypeOK /\ Seen
  BY DEF Typed, History
<1>1. CASE Tick \/ \E p \in Procs : Renew(p)
  <2>1. /\ UNCHANGED <<files, faults, log, leaf, late, svc, gen, strays>>
        /\ lease'.owner = lease.owner /\ lease'.gen = lease.gen
    BY <1>0, <1>1 DEF Tick, Renew, TypeOK
  <2>2. \A q \in Procs : Owns(q)' => Owns(q)
    BY <2>1 DEF Owns
  <2> QED
    BY <1>0, <2>1, <2>2, NoWrite DEF Seen
<1>2. ASSUME NEW p \in Procs, Claim(p) PROVE History'
  <2>1. /\ svc' = [svc EXCEPT ![p] = "claimed"] /\ lease'.owner = p
        /\ UNCHANGED <<files, faults, log, leaf, late, strays>>
    BY <1>0, <1>2 DEF Claim, TypeOK
  <2>2. \A q \in Procs : svc'[q] # "claimed" => ~Owns(q)'
    BY <1>0, <2>1 DEF Owns, TypeOK
  <2> QED
    BY <2>1, <2>2, NoWrite
<1>3. ASSUME NEW p \in Procs, Release(p) \/ Die(p) PROVE History'
  <2>1. /\ lease' \in {NoLease, lease} /\ gen' = [gen EXCEPT ![p] = 0]
        /\ log' = [log EXCEPT ![p] = << >>]
        /\ leaf' = [leaf EXCEPT ![p] = None]
        /\ \E s \in {"closed", "removing"} : svc' = [svc EXCEPT ![p] = s]
        /\ UNCHANGED <<files, faults, strays>>
    BY <1>3 DEF Release, Die, Forget, LetGo, Become
  <2>2. ASSUME NEW q \in Procs, svc'[q] # "claimed", Owns(q)'
        PROVE  Knows(files, log'[q], leaf'[q], strays')
    <3>1. lease' = lease /\ q # p
      BY <1>0, <2>1, <2>2, OwnershipAssumption
      DEF NoLease, Owns, Leased, TypeOK
    <3>2. log'[q] = log[q] /\ leaf'[q] = leaf[q] /\ svc[q] # "claimed"
          /\ Owns(q)
      BY <1>0, <2>1, <2>2, <3>1 DEF TypeOK, Owns
    <3> QED
      BY <1>0, <2>1, <3>2 DEF Seen
  <2>3. \A q \in Procs : log'[q] \in {log[q], << >>}
    BY <1>0, <2>1 DEF TypeOK
  <2>4. ASSUME NEW q \in Procs
        PROVE  late'[q] \in {late[q], None} \/ late'[q].log = log[q]
    BY <1>0, <1>3 DEF Release, Die, TypeOK
  <2> QED
    BY <2>1, <2>2, <2>3, <2>4, NoWrite
<1> QED
  BY <1>1, <1>2, <1>3

\* The faults of a behaviour are those it began with.
LEMMA FaultsStay == [Next]_vars => faults' = faults
BY DEF Next, vars, Tick, Claim, Load, Commit, Recover, AnswerFirst, Settle,
   Renew, BeginRun, Act, Answer, EndIteration, EndRun, Close, Drain, Release,
   LateWrite, Remove, Die, Emit, others

\* Initially, and at every step.
LEMMA HistoryInductive == Spec => []IInv
<1>1. Init => (OneFault => History)
  <2> SUFFICES ASSUME Init PROVE History
    OBVIOUS
  <2>1. Cardinality({}) = 0 /\ 0..(0 - 1) = {}
    BY FS_EmptySet
  <2>2. Numbered /\ AnsweredOnce
    BY <2>1 DEF Init, Numbered, AnsweredOnce
  <2>3. Kept
    BY EmptyPrefix DEF Init, Kept
  <2>4. Seen
    BY OwnershipAssumption DEF Init, Seen, Owns, NoLease
  <2> QED
    BY <2>2, <2>3, <2>4 DEF History
<1>2. ASSUME Typed, Leased, Leased', OneFault => History, [Next]_vars
      PROVE  (OneFault => History)'
  <2>1. SUFFICES ASSUME OneFault PROVE History'
    BY <1>2, FaultsStay DEF OneFault
  <2>2. History
    BY <1>2, <2>1
  <2>3. CASE UNCHANGED vars
    <3>1. /\ UNCHANGED <<files, faults, log, leaf, late, svc, gen, strays>>
          /\ lease' = lease
      BY <2>3 DEF vars, disk, memory, history
    <3>2. \A q \in Procs : Owns(q)' => Owns(q)
      BY <3>1 DEF Owns
    <3>3. Seen
      BY <2>2 DEF History
    <3> QED
      BY <1>2, <2>1, <2>2, <3>1, <3>2, <3>3, NoWrite DEF Seen
  <2>4. CASE \/ Tick
             \/ \E p \in Procs : Claim(p) \/ Renew(p) \/ Release(p) \/ Die(p)
    BY <1>2, <2>1, <2>2, <2>4, LeaseSteps
  <2>5. ASSUME NEW p \in Procs, Serves(p) PROVE History'
    BY <1>2, <2>1, <2>2, <2>5, ServiceHistory
  <2>6. ASSUME NEW p \in Procs, Remove(p) PROVE History'
    BY <1>2, <2>1, <2>2, <2>6, RemoveStep
  <2> QED
    BY <1>2, <2>3, <2>4, <2>5, <2>6 DEF Next, Serves
<1> QED
  <2>1. Typed /\ (OneFault => History) <=> IInv
    BY DEF IInv
  <2> QED
    BY LeaseInductive, TypeInductive, <1>1, <1>2, <2>1, PTL DEF Spec

\* Where a late write and a deletion do not meet, an action has two answers only
\* if one of them was on disk but off the branch of the leaf in base_state.json
\* when an owner loaded the conversation: what an owner answers was open to it,
\* and it knows every other answer there is.
THEOREM OneAnswer == Spec /\ OneFault => []AnsweredOnce
<1>1. IInv /\ OneFault => AnsweredOnce
  BY DEF IInv, History
<1>2. OneFault /\ [Next]_vars => OneFault'
  BY FaultsStay DEF OneFault
<1> QED
  BY HistoryInductive, <1>1, <1>2, PTL DEF Spec

\* The owner, once it has loaded the conversation, has every action and every
\* answer of the directory in its index, in their order, and nothing else: only
\* notes are written behind its back.
OwnerHasRead ==
  \A p \in Procs :
    svc[p] # "claimed" /\ Owns(p) =>
      /\ Prefix(log[p])
      /\ \A f \in files : f \in Entries(log[p]) \/ f.kind = "note"

\* OwnerHasRead holds where a late write and a deletion do not meet.
THEOREM NothingUnread == Spec /\ OneFault => []OwnerHasRead
<1>1. IInv /\ OneFault => OwnerHasRead
  BY DEF IInv, History, Seen, Knows, OwnerHasRead, Prefix
<1>2. OneFault /\ [Next]_vars => OneFault'
  BY FaultsStay DEF OneFault
<1> QED
  BY HistoryInductive, <1>1, <1>2, PTL DEF Spec

\* The event files are one history without a gap, whoever wrote them, and what a
\* service has indexed, be it a stale owner's, is the beginning of it.
THEOREM HistoryIsOne == Spec /\ OneFault => []OneHistory
<1>1. IInv /\ OneFault => OneHistory
  <2> SUFFICES ASSUME IInv, OneFault PROVE OneHistory
    OBVIOUS
  <2>1. TypeOK /\ Numbered /\ Kept
    BY DEF IInv, Typed, History
  <2>2. ASSUME NEW p \in Procs, "delete" \notin faults
        PROVE  Entries(log[p]) \subseteq files
    <3>1. log[p] \in Seq(Places)
      BY <2>1 DEF TypeOK, Places
    <3>2. Prefix(log[p])
      BY <2>1, <2>2 DEF Kept
    <3> QED
      BY <3>1, <3>2, LenProperties DEF Prefix, Entries
  <2> QED
    BY <2>1, <2>2 DEF Numbered, OneHistory
<1>2. OneFault /\ [Next]_vars => OneFault'
  BY FaultsStay DEF OneFault
<1> QED
  BY HistoryInductive, <1>1, <1>2, PTL DEF Spec
=============================================================================
