--------------------------- MODULE ToolBatchProofs ---------------------------
(***************************************************************************)
(* Theorems about the executor's locks, for every batch, every set of keys *)
(* a call may need and every number of workers: the table and its counts   *)
(* are exact, calls that share a key never run side by side, waiting is    *)
(* first come first served, and no calls wait on each other in a circle.   *)
(***************************************************************************)
EXTENDS ToolBatch, DataLemmas

\* c stands in the queue s.
Stands(c, s) == \E i \in 1..Len(s) : s[i] = c

\* Nobody stands in the queue s twice.
Single(s) == \A i, j \in 1..Len(s) : s[i] = s[j] => i = j

\* Who joins stands at the end, behind all the others.
LEMMA Joining ==
  ASSUME NEW S, NEW s \in Seq(S), NEW c \in S
  PROVE  /\ Append(s, c) \in Seq(S)
         /\ \A d \in S : Stands(d, Append(s, c)) <=> Stands(d, s) \/ d = c
         /\ Single(s) /\ ~Stands(c, s) => Single(Append(s, c))
         /\ s # << >> => Head(Append(s, c)) = Head(s)
         /\ \A d \in S : Stands(d, s) => Precedes(d, c, Append(s, c))
         /\ \A d, e \in S : Precedes(d, e, s) => Precedes(d, e, Append(s, c))
<1> DEFINE t == Append(s, c)
<1>1. /\ t \in Seq(S) /\ Len(t) = Len(s) + 1 /\ Len(s) \in Nat
      /\ \A i \in 1..Len(s) : t[i] = s[i]
      /\ t[Len(s) + 1] = c
  BY AppendProperties, LenProperties
<1>2. \A i \in 1..Len(t) : i \in 1..Len(s) \/ i = Len(s) + 1
  BY <1>1
<1>3. \A i \in 1..Len(s) : i \in 1..Len(t)
  BY <1>1
<1>4. Len(s) + 1 \in 1..Len(t)
  BY <1>1
<1> HIDE DEF t
<1>5. ASSUME NEW d \in S PROVE Stands(d, t) <=> Stands(d, s) \/ d = c
  BY <1>1, <1>2, <1>3, <1>4 DEF Stands
<1>6. ASSUME Single(s), ~Stands(c, s) PROVE Single(t)
  BY <1>1, <1>2, <1>6 DEF Single, Stands
<1>7. s # << >> => Head(t) = Head(s)
  BY HeadTailAppend DEF t
<1>8. ASSUME NEW d \in S, Stands(d, s) PROVE Precedes(d, c, t)
  <2>1. PICK i \in 1..Len(s) : s[i] = d
    BY <1>8 DEF Stands
  <2>2. i < Len(s) + 1
    BY <1>1
  <2> QED
    BY <1>1, <1>3, <1>4, <2>1, <2>2 DEF Precedes
<1>9. ASSUME NEW d \in S, NEW e \in S, Precedes(d, e, s)
      PROVE  Precedes(d, e, t)
  BY <1>1, <1>3, <1>9 DEF Precedes
<1> QED
  BY <1>1, <1>5, <1>6, <1>7, <1>8, <1>9 DEF t

\* The head leaves, and the others stay.
LEMMA Serving ==
  ASSUME NEW S, NEW s \in Seq(S), s # << >>
  PROVE  /\ Tail(s) \in Seq(S)
         /\ Head(s) = s[1] /\ Head(s) \in S /\ Stands(Head(s), s)
         /\ Single(s) => /\ Single(Tail(s))
                         /\ \A d \in S : Stands(d, Tail(s))
                                           <=> Stands(d, s) /\ d # Head(s)
         /\ \A d, e \in S : Precedes(d, e, s) /\ d # Head(s)
                             => Precedes(d, e, Tail(s))
<1> DEFINE t == Tail(s)
<1>1. /\ t \in Seq(S) /\ Len(t) = Len(s) - 1 /\ Len(s) \in Nat \ {0}
      /\ \A i \in 1..Len(t) : t[i] = s[i + 1]
      /\ Head(s) \in S
  BY HeadTailProperties, LenProperties, EmptySeq
<1>2. Head(s) = s[1]
  OBVIOUS
<1>3. \A i \in 1..Len(t) : i + 1 \in 1..Len(s) /\ i + 1 # 1
  BY <1>1
<1>4. \A i \in 1..Len(s) : i = 1 \/ (i - 1 \in 1..Len(t) /\ t[i - 1] = s[i])
  <2>1. \A i \in 1..Len(s) : i = 1 \/ (i - 1 \in 1..Len(t) /\ (i - 1) + 1 = i)
    BY <1>1
  <2> QED
    BY <2>1, <1>1
<1>5. 1 \in 1..Len(s)
  BY <1>1
<1> HIDE DEF t
<1>6. ASSUME Single(s) PROVE Single(t)
  <2>1. SUFFICES ASSUME NEW i \in 1..Len(t), NEW j \in 1..Len(t), t[i] = t[j]
                 PROVE  i = j
    BY DEF Single
  <2>2. s[i + 1] = s[j + 1]
    BY <1>1, <2>1
  <2>3. i + 1 = j + 1
    BY <2>2, <1>3, <1>6 DEF Single
  <2> QED
    BY <2>3, <1>1
<1>7. ASSUME Single(s), NEW d \in S
      PROVE  Stands(d, t) <=> Stands(d, s) /\ d # Head(s)
  <2>1. ASSUME Stands(d, t) PROVE Stands(d, s) /\ d # Head(s)
    <3>1. PICK i \in 1..Len(t) : s[i + 1] = d
      BY <2>1, <1>1 DEF Stands
    <3> QED
      BY <3>1, <1>2, <1>3, <1>5, <1>7 DEF Stands, Single
  <2>2. ASSUME Stands(d, s), d # Head(s) PROVE Stands(d, t)
    BY <2>2, <1>2, <1>4 DEF Stands
  <2> QED
    BY <2>1, <2>2
<1>8. ASSUME NEW d \in S, NEW e \in S, Precedes(d, e, s), d # Head(s)
      PROVE  Precedes(d, e, t)
  <2>1. PICK i \in 1..Len(s), j \in 1..Len(s) : i < j /\ s[i] = d /\ s[j] = e
    BY <1>8 DEF Precedes
  <2>2. i # 1 /\ j # 1
    BY <1>2, <1>8, <2>1
  <2>3. /\ i - 1 \in 1..Len(t) /\ t[i - 1] = d
        /\ j - 1 \in 1..Len(t) /\ t[j - 1] = e
    BY <1>4, <2>1, <2>2
  <2>4. i - 1 < j - 1
    BY <2>1
  <2> QED
    BY <2>3, <2>4 DEF Precedes
<1> QED
  BY <1>1, <1>2, <1>5, <1>6, <1>7, <1>8 DEF t, Stands

\* One leaves the queue where he stands, and the others stay.
LEMMA Quitting ==
  ASSUME NEW S, NEW s \in Seq(S), NEW n \in 1..Len(s)
  PROVE  /\ RemoveAt(s, n) \in Seq(S)
         /\ Single(s) => /\ Single(RemoveAt(s, n))
                         /\ \A d \in S : Stands(d, RemoveAt(s, n))
                                           <=> Stands(d, s) /\ d # s[n]
         /\ n # 1 => Head(RemoveAt(s, n)) = Head(s)
         /\ \A d, e \in S : /\ Precedes(d, e, s) /\ d # s[n] /\ e # s[n]
                             => Precedes(d, e, RemoveAt(s, n))
<1> DEFINE a == SubSeq(s, 1, n - 1)
           b == SubSeq(s, n + 1, Len(s))
           t == RemoveAt(s, n)
<1>1. Len(s) \in Nat /\ n \in Nat \ {0} /\ n <= Len(s)
  BY LenProperties
<1>2. \A i \in 1..Len(s) : s[i] \in S
  BY ElementOfSeq
<1>3. /\ a \in Seq(S) /\ Len(a) = n - 1
      /\ \A i \in 1..(n - 1) : a[i] = s[i]
  <2>1. \A i \in 1..(n - 1) : s[i] \in S
    BY <1>1, <1>2
  <2> QED
    BY <1>1, <2>1, SubSeqProperties
<1>4. /\ b \in Seq(S) /\ Len(b) = Len(s) - n
      /\ \A i \in 1..(Len(s) - n) : b[i] = s[n + i]
  <2>1. \A i \in (n + 1)..Len(s) : s[i] \in S
    BY <1>1, <1>2
  <2>2. /\ b \in Seq(S)
        /\ Len(b) = IF n + 1 <= Len(s) THEN Len(s) - (n + 1) + 1 ELSE 0
        /\ \A i \in 1..(Len(s) - (n + 1) + 1) : b[i] = s[(n + 1) + i - 1]
    <3>1. n + 1 \in Int /\ Len(s) \in Int
      BY <1>1
    <3> QED
      BY <2>1, <3>1, SubSeqProperties
  <2>3. Len(s) - (n + 1) + 1 = Len(s) - n
    BY <1>1
  <2>4. \A i \in 1..(Len(s) - n) : (n + 1) + i - 1 = n + i
    BY <1>1
  <2> HIDE DEF b
  <2>5. Len(b) = Len(s) - n
    BY <1>1, <2>2
  <2>6. \A i \in 1..(Len(s) - n) : b[i] = s[n + i]
    <3>1. ASSUME NEW i \in 1..(Len(s) - n) PROVE b[i] = s[n + i]
      <4>1. b[i] = s[(n + 1) + i - 1]
        BY <2>2, <2>3
      <4> QED
        BY <2>4, <4>1
    <3> QED
      BY <3>1
  <2> QED
    BY <2>2, <2>5, <2>6
<1>5. t = a \o b
  BY DEF RemoveAt
<1> HIDE DEF a, b, t
<1>6. /\ t \in Seq(S) /\ Len(t) = Len(s) - 1
      /\ \A i \in 1..Len(t) : t[i] = IF i < n THEN s[i] ELSE s[i + 1]
  <2>1. /\ t \in Seq(S) /\ Len(t) = Len(a) + Len(b)
        /\ \A i \in 1..(Len(a) + Len(b)) :
             t[i] = IF i <= Len(a) THEN a[i] ELSE b[i - Len(a)]
    BY <1>3, <1>4, <1>5, ConcatProperties
  <2>2. Len(a) + Len(b) = Len(s) - 1
    BY <1>1, <1>3, <1>4
  <2>3. ASSUME NEW i \in 1..(Len(s) - 1)
        PROVE  t[i] = IF i < n THEN s[i] ELSE s[i + 1]
    <3>1. CASE i < n
      <4>1. i <= Len(a) /\ i \in 1..(n - 1)
        BY <1>1, <1>3, <3>1
      <4> QED
        BY <2>1, <2>2, <4>1, <1>3, <3>1
    <3>2. CASE ~(i < n)
      <4>1. ~(i <= Len(a)) /\ i - Len(a) \in 1..(Len(s) - n)
        BY <1>1, <1>3, <3>2
      <4>2. n + (i - Len(a)) = i + 1
        BY <1>1, <1>3
      <4> QED
        BY <2>1, <2>2, <4>1, <4>2, <1>4, <3>2
    <3> QED
      BY <3>1, <3>2
  <2> QED
    BY <2>1, <2>2, <2>3
<1> DEFINE at(i) == IF i < n THEN i ELSE i + 1
           from(i) == IF i < n THEN i ELSE i - 1
<1>7. \A i \in 1..Len(t) : at(i) \in 1..Len(s) /\ at(i) # n /\ t[i] = s[at(i)]
  BY <1>1, <1>6
<1>8. \A i, j \in 1..Len(t) : at(i) = at(j) => i = j
  BY <1>1, <1>6
<1>9. \A i \in 1..Len(s) : i # n => from(i) \in 1..Len(t) /\ at(from(i)) = i
  BY <1>1, <1>6
<1>13. \A i, j \in 1..Len(s) : i < j /\ i # n /\ j # n => from(i) < from(j)
  BY <1>1
<1> HIDE DEF at, from
<1>10. ASSUME Single(s) PROVE Single(t)
  BY <1>7, <1>8, <1>10 DEF Single
<1>11. ASSUME Single(s), NEW d \in S
       PROVE  Stands(d, t) <=> Stands(d, s) /\ d # s[n]
  <2>1. ASSUME Stands(d, t) PROVE Stands(d, s) /\ d # s[n]
    BY <2>1, <1>7, <1>11 DEF Stands, Single
  <2>2. ASSUME Stands(d, s), d # s[n] PROVE Stands(d, t)
    <3>1. PICK i \in 1..Len(s) : s[i] = d /\ i # n
      BY <2>2 DEF Stands
    <3>2. t[from(i)] = d
      BY <3>1, <1>7, <1>9
    <3> QED
      BY <3>1, <3>2, <1>9 DEF Stands
  <2> QED
    BY <2>1, <2>2
<1>12. ASSUME n # 1 PROVE Head(t) = Head(s)
  <2>1. 1 \in 1..Len(t) /\ 1 < n
    BY <1>1, <1>6, <1>12
  <2>2. t[1] = s[1]
    BY <2>1, <1>6
  <2> QED
    BY <2>2
<1>14. ASSUME NEW d \in S, NEW e \in S, Precedes(d, e, s),
              d # s[n], e # s[n]
       PROVE  Precedes(d, e, t)
  <2>1. PICK i \in 1..Len(s), j \in 1..Len(s) : i < j /\ s[i] = d /\ s[j] = e
    BY <1>14 DEF Precedes
  <2>2. /\ from(i) \in 1..Len(t) /\ from(j) \in 1..Len(t)
        /\ from(i) < from(j)
    BY <1>9, <1>13, <1>14, <2>1
  <2>3. t[from(i)] = d /\ t[from(j)] = e
    BY <1>7, <1>9, <1>14, <2>1, <2>2
  <2> QED
    BY <2>2, <2>3 DEF Precedes
<1> QED
  BY <1>6, <1>10, <1>11, <1>12, <1>14 DEF t
-----------------------------------------------------------------------------
\* Where a call stands says what it holds, what it asks for and whether it has
\* an outcome.
Staged ==
  \A c \in Calls :
    /\ held[c] \subseteq need[c]
    /\ pc[c] \in {"new", "queued", "done"} => held[c] = {}
    /\ pc[c] \in {"looking", "asking", "waiting", "undoing"}
         => held[c] # need[c]
    /\ pc[c] = "running" => held[c] = need[c]
    /\ pc[c] = "leaving" => held[c] # {}
    /\ pc[c] \in {"asking", "waiting", "undoing"} <=> obj[c] # None
    /\ result[c] = "none" <=> pc[c] \notin {"leaving", "done"}

\* Until it lets go of them, a call has its keys from the lowest up.
InOrder ==
  \A c \in Calls :
    pc[c] # "leaving" =>
      \A h \in held[c], k \in need[c] \ held[c] : h < k

\* In the queue of a lock stand the calls that wait on it, once each.
Queues ==
  \A l \in Locks :
    /\ Single(waiters[l])
    /\ \A c \in Calls :
         Stands(c, waiters[l]) <=> pc[c] = "waiting" /\ obj[c] = l

\* Who owns a lock object has it for a key whose lock it is.
OwnersHold ==
  \A l \in Locks :
    owner[l] # None =>
      \E k \in Keys : k \in held[owner[l]] /\ table[k] = l

\* No lock object is there for two keys.
Apart ==
  \A j, k \in Keys : table[j] = table[k] /\ table[j] # None => j = k

IInv == /\ TypeOK /\ Staged /\ InOrder /\ Queues
        /\ OwnersHold /\ Apart /\ TableExact
-----------------------------------------------------------------------------
\* What holds of a key that is exactly accounted for.
Users(k) == {c \in Calls : Refers(c, k)}

Exact(k) ==
  /\ refs[k] = Cardinality(Users(k))
  /\ table[k] = None <=> Users(k) = {}
  /\ \A c \in Users(k) : IF k \in held[c] THEN owner[table[k]] = c
                                          ELSE obj[c] = table[k]

\* The table is exact when it is exact for every key.
LEMMA ExactTable == TableExact <=> \A k \in Keys : Exact(k)
BY DEF TableExact, Exact, Users

\* The same of the state after a step.
LEMMA ExactTableNext == TableExact' <=> \A k \in Keys : Exact(k)'
BY DEF TableExact, Exact, Users

\* The users of a key are finitely many calls.
LEMMA UsersFinite ==
  ASSUME NEW k \in Keys
  PROVE  /\ IsFiniteSet(Users(k))
         /\ Cardinality(Users(k)) \in Nat
         /\ Cardinality(Users(k)) = 0 <=> Users(k) = {}
BY BatchAssumption, FS_Subset, FS_CardinalityType, FS_EmptySet DEF Users

\* A call that lacks a key asks for the lowest one it lacks.
LEMMA WantedIsLeast ==
  ASSUME TypeOK, NEW c \in Calls, held[c] # need[c], held[c] \subseteq need[c]
  PROVE  /\ Wanted(c) \in need[c] \ held[c]
         /\ Wanted(c) \in Keys
         /\ \A k \in need[c] \ held[c] : Wanted(c) <= k
<1>1. need[c] \subseteq Keys /\ Keys \subseteq Nat
  BY BatchAssumption DEF TypeOK
<1>2. need[c] \ held[c] \subseteq Nat /\ need[c] \ held[c] # {}
  BY <1>1
<1> QED
  BY <1>1, <1>2, NatMin DEF Wanted

\* Initially.
LEMMA FirstState == Init => IInv
<1> SUFFICES ASSUME Init PROVE IInv
  OBVIOUS
<1>1. TypeOK
  BY BatchAssumption, EmptySeq DEF Init, TypeOK, Pcs, Results, Modes
<1>2. Staged
  BY DEF Init, Staged
<1>3. InOrder
  BY DEF Init, InOrder
<1>4. Queues
  BY BatchAssumption, EmptySeq DEF Init, Queues, Stands, Single
<1>5. OwnersHold /\ Apart
  BY DEF Init, OwnersHold, Apart
<1>6. TableExact
  <2>1. ASSUME NEW k \in Keys PROVE Exact(k)
    <3>1. Users(k) = {}
      BY DEF Init, Users, Refers, Asking
    <3> QED
      BY <3>1, FS_EmptySet DEF Init, Exact
  <2> QED
    BY <2>1, ExactTable
<1> QED
  BY <1>1, <1>2, <1>3, <1>4, <1>5, <1>6 DEF IInv

\* A step that leaves the locks, what is held and what is asked for alone keeps
\* what is said of them, if no call comes to wait or stops leaving.
LEMMA Aside ==
  ASSUME IInv, TypeOK', Staged',
         UNCHANGED <<need, held, obj, table, refs, owner, waiters>>,
         \A c \in Calls : /\ pc'[c] = "waiting" <=> pc[c] = "waiting"
                          /\ pc[c] = "leaving" => pc'[c] = "leaving"
  PROVE  IInv'
<1>1. InOrder'
  BY DEF IInv, InOrder
<1>2. Queues'
  BY DEF IInv, Queues
<1>3. OwnersHold' /\ Apart'
  BY DEF IInv, OwnersHold, Apart
<1>4. TableExact'
  <2>1. ASSUME NEW k \in Keys PROVE Exact(k)'
    <3>1. Users(k)' = Users(k)
      BY DEF Users, Refers, Asking, Wanted
    <3> QED
      BY <3>1, ExactTable DEF IInv, Exact
  <2> QED
    BY <2>1, ExactTableNext
<1> QED
  BY <1>1, <1>2, <1>3, <1>4 DEF IInv

\* The steps of the batch, the beginning and the end of a call.
LEMMA BatchSteps ==
  ASSUME IInv,
         \/ \E S \in SUBSET Calls : Start(S)
         \/ Collect \/ Cancel \/ Abandon \/ Drained
         \/ \E c \in Calls : Begin(c) \/ Finish(c)
         \/ UNCHANGED vars
  PROVE  IInv'
<1> USE DEF IInv, lockVars, callVars, batchVars
<1>1. ASSUME NEW S \in SUBSET Calls, Start(S) PROVE IInv'
  <2>1. TypeOK'
    BY <1>1 DEF Start, TypeOK, Pcs, Modes
  <2>2. Staged'
    BY <1>1 DEF Start, TypeOK, Staged
  <2> QED
    BY <1>1, <2>1, <2>2, Aside DEF Start, TypeOK
<1>2. CASE Collect \/ Cancel \/ Drained \/ UNCHANGED vars
  <2>1. UNCHANGED <<callVars, lockVars>>
    BY <1>2 DEF Collect, Cancel, Drained, vars
  <2>2. TypeOK'
    BY <1>2 DEF Collect, Cancel, Drained, vars, TypeOK, Modes
  <2>3. Staged'
    BY <2>1 DEF Staged
  <2> QED
    BY <2>1, <2>2, <2>3, Aside
<1>3. CASE Abandon
  <2>1. \A c \in Queued : c \in Calls /\ pc[c] = "queued"
    BY DEF Queued, TypeOK
  <2>2. TypeOK'
    BY <1>3 DEF Abandon, TypeOK, Pcs, Modes, Results
  <2>3. Staged'
    BY <1>3, <2>1 DEF Abandon, TypeOK, Staged
  <2> QED
    BY <1>3, <2>1, <2>2, <2>3, Aside DEF Abandon
<1>4. ASSUME NEW c \in Calls, Begin(c) PROVE IInv'
  <2>1. pc[c] = "queued" /\ held[c] = {}
    BY <1>4 DEF Begin, Turn, Queued, Staged
  <2>2. TypeOK'
    BY <1>4 DEF Begin, NextPc, TypeOK, Pcs, Results
  <2>3. Staged'
    BY <1>4, <2>1 DEF Begin, NextPc, TypeOK, Staged
  <2> QED
    BY <1>4, <2>1, <2>2, <2>3, Aside DEF Begin, NextPc, TypeOK
<1>5. ASSUME NEW c \in Calls, Finish(c) PROVE IInv'
  <2>1. TypeOK'
    BY <1>5 DEF Finish, TypeOK, Pcs, Results
  <2>2. Staged'
    BY <1>5 DEF Finish, TypeOK, Staged
  <2> QED
    BY <1>5, <2>1, <2>2, Aside DEF Finish, TypeOK
<1> QED
  BY <1>1, <1>2, <1>3, <1>4, <1>5

\* A call that asks for a key, and what its lock object is.
LEMMA AskedFor ==
  ASSUME IInv, NEW c \in Calls, obj[c] # None
  PROVE  /\ Wanted(c) \in need[c] \ held[c]
         /\ Wanted(c) \in Keys
         /\ \A k \in need[c] \ held[c] : Wanted(c) <= k
         /\ c \in Users(Wanted(c))
         /\ obj[c] = table[Wanted(c)] /\ obj[c] \in Locks
         /\ pc[c] \in {"asking", "waiting", "undoing"}
         /\ held[c] # need[c] /\ held[c] \subseteq need[c]
<1>1. /\ pc[c] \in {"asking", "waiting", "undoing"}
      /\ held[c] # need[c] /\ held[c] \subseteq need[c]
  BY DEF IInv, Staged
<1>2. /\ Wanted(c) \in need[c] \ held[c]
      /\ Wanted(c) \in Keys
      /\ \A k \in need[c] \ held[c] : Wanted(c) <= k
  BY <1>1, WantedIsLeast DEF IInv
<1>3. c \in Users(Wanted(c))
  BY DEF Users, Refers, Asking
<1>4. obj[c] = table[Wanted(c)]
  <2>1. Exact(Wanted(c))
    BY <1>2, ExactTable DEF IInv
  <2> QED
    BY <2>1, <1>2, <1>3 DEF Exact
<1> QED
  BY <1>1, <1>2, <1>3, <1>4 DEF IInv, TypeOK

\* The meta lock hands out the lock object of the key.
LEMMA GetLockStep ==
  ASSUME IInv, NEW c \in Calls, GetLock(c)
  PROVE  IInv'
<1> DEFINE w == Wanted(c)
<1> USE DEF lockVars, callVars, batchVars
<1>0. TypeOK /\ Staged /\ InOrder /\ Queues /\ OwnersHold /\ Apart
  BY DEF IInv
<1>1. /\ pc[c] = "looking" /\ obj[c] = None
      /\ w \in Keys /\ w \in need[c] \ held[c]
  BY WantedIsLeast DEF IInv, Staged, GetLock
<1>2. \/ table[w] # None /\ table' = table
      \/ /\ table[w] = None
         /\ \E l \in Locks :
              ~InUse(l) /\ table' = [table EXCEPT ![w] = l]
  BY DEF GetLock
<1>3. /\ refs' = [refs EXCEPT ![w] = @ + 1]
      /\ obj' = [obj EXCEPT ![c] = table'[w]]
      /\ pc' = [pc EXCEPT ![c] = "asking"]
      /\ UNCHANGED <<need, held, result, batchVars, owner, waiters, woken>>
  BY DEF GetLock
<1> HIDE DEF w
<1>4. table'[w] \in Locks /\ table' \in [Keys -> Locks \cup {None}]
  BY <1>0, <1>1, <1>2 DEF TypeOK
<1>5. TypeOK'
  <2>1. refs' \in [Keys -> Nat]
    BY <1>0, <1>1, <1>3 DEF TypeOK
  <2>2. obj' \in [Calls -> Locks \cup {None}] /\ pc' \in [Calls -> Pcs]
    BY <1>0, <1>3, <1>4 DEF TypeOK, Pcs
  <2> QED
    BY <1>0, <1>3, <1>4, <2>1, <2>2 DEF TypeOK
<1>6. table'[w] # None
  BY <1>4, BatchAssumption
<1>7. Staged'
  BY <1>0, <1>1, <1>3, <1>6 DEF TypeOK, Staged
<1>8. InOrder'
  BY <1>0, <1>1, <1>3 DEF TypeOK, InOrder
<1>9. Queues'
  BY <1>0, <1>1, <1>3 DEF TypeOK, Queues
<1>10. ASSUME NEW k \in Keys, table[k] # None PROVE table'[k] = table[k]
  BY <1>0, <1>1, <1>2, <1>10 DEF TypeOK
<1>11. OwnersHold'
  BY <1>0, <1>3, <1>10, BatchAssumption DEF TypeOK, OwnersHold
<1>12. Apart'
  <2>1. CASE table' = table
    BY <1>0, <2>1 DEF Apart
  <2>2. ASSUME NEW l \in Locks, ~InUse(l), table' = [table EXCEPT ![w] = l]
        PROVE  Apart'
    <3>1. \A k \in Keys : table[k] # l
      BY <2>2 DEF InUse
    <3>2. \A k \in Keys : table'[k] = IF k = w THEN l ELSE table[k]
      BY <1>0, <2>2 DEF TypeOK
    <3> QED
      BY <1>0, <3>1, <3>2 DEF Apart
  <2> QED
    BY <1>2, <2>1, <2>2
<1>13. ASSUME NEW k \in Keys PROVE Exact(k)'
  <2>1. Exact(k)
    BY ExactTable DEF IInv
  <2>2. \A d \in Calls : /\ Wanted(d)' = Wanted(d)
                         /\ d # c => obj'[d] = obj[d]
    BY <1>0, <1>3 DEF Wanted, TypeOK
  <2>3. CASE k = w
    <3>1. c \notin Users(k)
      BY <1>1, <2>3 DEF Users, Refers, Asking
    <3>2. Users(k)' = Users(k) \cup {c}
      <4>1. c \in Users(k)'
        BY <1>0, <1>3, <1>6, <2>2, <2>3 DEF Users, Refers, Asking, TypeOK, w
      <4>2. \A d \in Calls : d # c => (Refers(d, k)' <=> Refers(d, k))
        BY <1>3, <2>2 DEF Refers, Asking
      <4> QED
        BY <4>1, <4>2 DEF Users
    <3>3. Cardinality(Users(k)') = Cardinality(Users(k)) + 1
      BY <3>1, <3>2, UsersFinite, FS_AddElement
    <3>4. refs'[k] = refs[k] + 1
      BY <1>0, <1>3, <2>3 DEF TypeOK
    <3>5. ASSUME NEW d \in Users(k)
          PROVE  IF k \in held'[d] THEN owner'[table'[k]] = d
                                   ELSE obj'[d] = table'[k]
      <4>1. d # c /\ d \in Calls
        BY <3>1 DEF Users
      <4>2. table[k] # None
        BY <2>1 DEF Exact
      <4> QED
        BY <4>1, <4>2, <1>3, <1>10, <2>1, <2>2 DEF Exact
    <3>6. k \notin held'[c] /\ obj'[c] = table'[k]
      BY <1>0, <1>1, <1>3, <2>3 DEF TypeOK
    <3> QED
      BY <1>6, <2>1, <2>3, <3>2, <3>3, <3>4, <3>5, <3>6 DEF Exact
  <2>4. CASE k # w
    <3>1. \A d \in Calls : Refers(d, k)' <=> Refers(d, k)
      BY <1>1, <1>3, <2>2, <2>4 DEF Refers, Asking, w
    <3>2. Users(k)' = Users(k)
      BY <3>1 DEF Users
    <3>3. refs'[k] = refs[k] /\ table'[k] = table[k]
      BY <1>0, <1>1, <1>2, <1>3, <2>4 DEF TypeOK
    <3>4. c \in Users(k) => k \in held[c]
      BY <1>1 DEF Users, Refers, Asking
    <3> QED
      BY <1>3, <2>1, <2>2, <3>2, <3>3, <3>4 DEF Exact, Users
  <2> QED
    BY <2>3, <2>4
<1>14. TableExact'
  BY <1>13, ExactTableNext
<1> QED
  BY <1>5, <1>7, <1>8, <1>9, <1>11, <1>12, <1>14 DEF IInv

\* A call takes the free lock it asks for: what the table says of it turns from
\* an asker to the owner.
LEMMA TakeStep ==
  ASSUME IInv, NEW c \in Calls, obj[c] # None, owner[obj[c]] = None,
         Take(c), UNCHANGED <<need, result, batchVars, table, refs>>,
         woken' \subseteq Calls, waiters' \in [Locks -> Seq(Calls)], Queues'
  PROVE  IInv'
<1> DEFINE w == Wanted(c)
           l == obj[c]
           mine == held[c] \cup {w}
<1> USE DEF lockVars, callVars, batchVars
<1>0. TypeOK /\ Staged /\ InOrder /\ OwnersHold /\ Apart
  BY DEF IInv
<1>1. /\ w \in need[c] \ held[c] /\ w \in Keys
      /\ \A k \in need[c] \ held[c] : w <= k
      /\ l = table[w] /\ l \in Locks /\ c \in Users(w)
      /\ pc[c] \in {"asking", "waiting", "undoing"}
      /\ held[c] \subseteq need[c]
  BY AskedFor
<1>2. /\ owner' = [owner EXCEPT ![l] = c]
      /\ held' = [held EXCEPT ![c] = mine]
      /\ obj' = [obj EXCEPT ![c] = None]
      /\ pc' = [pc EXCEPT ![c] = IF mine = need[c] THEN "running"
                                                   ELSE "looking"]
  BY DEF Take, NextPc
<1> HIDE DEF w, l
<1>3. TypeOK'
  <2>1. /\ held' \in [Calls -> SUBSET Keys]
        /\ owner' \in [Locks -> Calls \cup {None}]
    BY <1>0, <1>1, <1>2 DEF TypeOK
  <2>2. obj' \in [Calls -> Locks \cup {None}] /\ pc' \in [Calls -> Pcs]
    BY <1>0, <1>2 DEF TypeOK, Pcs
  <2> QED
    BY <1>0, <2>1, <2>2 DEF TypeOK
<1>4. Staged'
  BY <1>0, <1>1, <1>2 DEF TypeOK, Staged
<1>5. InOrder'
  <2>1. ASSUME NEW d \in Calls, pc'[d] # "leaving",
               NEW h \in held'[d], NEW k \in need'[d] \ held'[d]
        PROVE  h < k
    <3>1. CASE d # c
      BY <1>0, <1>2, <2>1, <3>1 DEF TypeOK, InOrder
    <3>2. CASE d = c
      <4>1. held'[d] = mine /\ need'[d] = need[c] /\ k # w
        BY <1>0, <1>2, <2>1, <3>2 DEF TypeOK
      <4>2. k \in need[c] \ held[c] /\ k \in Nat /\ w \in Nat
        BY <1>0, <1>1, <4>1, <2>1, BatchAssumption DEF TypeOK
      <4>3. CASE h = w
        BY <1>1, <4>1, <4>2, <4>3
      <4>4. CASE h \in held[c]
        BY <1>0, <1>1, <4>2, <4>4 DEF InOrder
      <4> QED
        BY <4>1, <4>3, <4>4
    <3> QED
      BY <3>1, <3>2
  <2> QED
    BY <2>1 DEF InOrder
<1>6. OwnersHold'
  <2>1. ASSUME NEW m \in Locks, owner'[m] # None
        PROVE  \E k \in Keys : k \in held'[owner'[m]] /\ table'[k] = m
    <3>1. CASE m = l
      BY <1>0, <1>1, <1>2, <3>1 DEF TypeOK
    <3>2. CASE m # l
      <4>1. owner'[m] = owner[m] /\ owner[m] \in Calls
        BY <1>0, <1>2, <2>1, <3>2 DEF TypeOK
      <4>2. PICK k \in Keys : k \in held[owner[m]] /\ table[k] = m
        BY <1>0, <2>1, <4>1 DEF OwnersHold
      <4>3. held[owner[m]] \subseteq held'[owner[m]]
        BY <1>0, <1>2, <4>1 DEF TypeOK
      <4> QED
        BY <4>1, <4>2, <4>3
    <3> QED
      BY <3>1, <3>2
  <2> QED
    BY <2>1 DEF OwnersHold
<1>7. Apart'
  BY <1>0 DEF Apart
<1>8. ASSUME NEW k \in Keys PROVE Exact(k)'
  <2>1. Exact(k)
    BY ExactTable DEF IInv
  <2>2. \A d \in Calls : d # c => /\ Wanted(d)' = Wanted(d)
                                  /\ held'[d] = held[d] /\ obj'[d] = obj[d]
    BY <1>0, <1>2 DEF Wanted, TypeOK
  <2>3. /\ held'[c] = mine /\ obj'[c] = None
    BY <1>0, <1>2 DEF TypeOK
  <2>4. Users(k)' = Users(k)
    <3>1. \A d \in Calls : d # c => (Refers(d, k)' <=> Refers(d, k))
      BY <2>2 DEF Refers, Asking
    <3>2. Refers(c, k)' <=> Refers(c, k)
      BY <2>3 DEF Refers, Asking, w
    <3> QED
      BY <3>1, <3>2 DEF Users
  <2>5. ASSUME NEW d \in Users(k)
        PROVE  IF k \in held'[d] THEN owner'[table'[k]] = d
                                 ELSE obj'[d] = table'[k]
    <3>1. d \in Calls /\ table[k] # None /\ table[k] \in Locks
      BY <1>0, <2>1, BatchAssumption DEF Users, Exact, TypeOK
    <3>2. CASE k = w
      <4>1. \A e \in Calls : w \in held[e] => owner[l] = e
        BY <2>1, <3>2, <1>1 DEF Exact, Users, Refers
      <4>2. w \notin held[d]
        BY <4>1, <3>1, BatchAssumption DEF l
      <4>3. CASE d = c
        BY <1>0, <1>1, <1>2, <2>3, <3>2, <4>3 DEF TypeOK
      <4>4. CASE d # c
        BY <2>1, <2>2, <2>5, <3>1, <3>2, <4>2, <4>4 DEF Exact
      <4> QED
        BY <4>3, <4>4
    <3>3. CASE k # w
      <4>1. table[k] # l
        BY <1>0, <1>1, <3>1, <3>3 DEF Apart
      <4>2. owner'[table'[k]] = owner[table[k]]
        BY <1>0, <1>2, <3>1, <4>1 DEF TypeOK
      <4>3. CASE d = c
        <5>1. k \in held[c]
          BY <2>5, <3>3, <4>3 DEF Users, Refers, Asking, w
        <5> QED
          BY <2>1, <2>3, <2>5, <4>2, <4>3, <5>1 DEF Exact
      <4>4. CASE d # c
        BY <2>1, <2>2, <2>5, <3>1, <4>2, <4>4 DEF Exact
      <4> QED
        BY <4>3, <4>4
    <3> QED
      BY <3>2, <3>3
  <2> QED
    BY <2>1, <2>4, <2>5 DEF Exact
<1>9. TableExact'
  BY <1>8, ExactTableNext
<1> QED
  BY <1>3, <1>4, <1>5, <1>6, <1>7, <1>9 DEF IInv

\* acquire() up to its wait: the lock at once, or a place at the queue's end.
LEMMA AskStep ==
  ASSUME IInv, NEW c \in Calls, Ask(c)
  PROVE  IInv'
<1> DEFINE l == obj[c]
<1> USE DEF lockVars, callVars, batchVars
<1>0. TypeOK /\ Staged /\ Queues
  BY DEF IInv
<1>1. pc[c] = "asking" /\ l # None /\ l \in Locks
  BY <1>0 DEF Ask, Staged, TypeOK
<1>2. CASE AtOnce(l) /\ Take(c) /\ UNCHANGED waiters
  <2>1. Queues'
    BY <1>0, <1>1, <1>2 DEF Take, NextPc, Queues, TypeOK
  <2> QED
    BY <1>0, <1>1, <1>2, <2>1, TakeStep DEF Ask, AtOnce, TypeOK
<1>3. CASE /\ waiters' = [waiters EXCEPT ![l] = Append(@, c)]
           /\ pc' = [pc EXCEPT ![c] = "waiting"]
           /\ UNCHANGED <<held, obj, owner>>
  <2>1. UNCHANGED <<need, result, batchVars, table, refs, woken>>
    BY DEF Ask
  <2>2. /\ waiters[l] \in Seq(Calls) /\ Single(waiters[l])
        /\ ~Stands(c, waiters[l])
    BY <1>0, <1>1 DEF TypeOK, Queues
  <2>3. /\ waiters'[l] \in Seq(Calls) /\ Single(waiters'[l])
        /\ \A d \in Calls : Stands(d, waiters'[l])
                              <=> Stands(d, waiters[l]) \/ d = c
        /\ \A m \in Locks : m # l => waiters'[m] = waiters[m]
    BY <1>0, <1>1, <1>3, <2>2, Joining DEF TypeOK
  <2>4. waiters' \in [Locks -> Seq(Calls)]
    BY <1>0, <1>3, <2>3 DEF TypeOK
  <2>5. TypeOK'
    BY <1>0, <1>3, <2>1, <2>4 DEF TypeOK, Pcs
  <2>6. Staged'
    BY <1>0, <1>1, <1>3, <2>1 DEF Staged, TypeOK
  <2>7. InOrder' /\ OwnersHold' /\ Apart'
    BY <1>0, <1>1, <1>3, <2>1 DEF IInv, InOrder, OwnersHold, Apart, TypeOK
  <2>8. Queues'
    BY <1>0, <1>1, <1>3, <2>1, <2>3 DEF Queues, TypeOK
  <2>9. ASSUME NEW k \in Keys PROVE Exact(k)'
    <3>1. Users(k)' = Users(k)
      BY <1>3, <2>1 DEF Users, Refers, Asking, Wanted
    <3> QED
      BY <1>3, <2>1, <3>1, ExactTable DEF IInv, Exact
  <2> QED
    BY <2>5, <2>6, <2>7, <2>8, <2>9, ExactTableNext DEF IInv
<1> QED
  BY <1>2, <1>3 DEF Ask

\* Where a waiting call stands.
LEMMA WaitsInLine ==
  ASSUME IInv, NEW c \in Calls, pc[c] = "waiting"
  PROVE  /\ obj[c] \in Locks /\ obj[c] # None
         /\ waiters[obj[c]] \in Seq(Calls) /\ waiters[obj[c]] # << >>
         /\ Single(waiters[obj[c]]) /\ Stands(c, waiters[obj[c]])
         /\ Head(waiters[obj[c]]) \in Calls
         /\ pc[Head(waiters[obj[c]])] = "waiting"
         /\ obj[Head(waiters[obj[c]])] = obj[c]
<1> DEFINE q == waiters[obj[c]]
<1>1. obj[c] \in Locks /\ obj[c] # None
  BY DEF IInv, Staged, TypeOK
<1>2. q \in Seq(Calls) /\ Single(q) /\ Stands(c, q)
  BY <1>1 DEF IInv, TypeOK, Queues
<1>3. q # << >>
  BY <1>2, EmptySeq DEF Stands
<1>4. Head(q) \in Calls /\ Stands(Head(q), q)
  BY <1>2, <1>3, Serving
<1>5. pc[Head(q)] = "waiting" /\ obj[Head(q)] = obj[c]
  BY <1>1, <1>4 DEF IInv, Queues
<1> QED
  BY <1>1, <1>2, <1>3, <1>4, <1>5

\* The head of the queue takes the lock.
LEMMA AcquireStep ==
  ASSUME IInv, NEW c \in Calls, pc[c] = "waiting", Acquire(c),
         woken' \subseteq Calls,
         UNCHANGED <<need, result, batchVars, table, refs>>
  PROVE  IInv'
<1> DEFINE l == obj[c]
<1>0. TypeOK /\ Queues
  BY DEF IInv
<1>1. /\ l \in Locks /\ l # None /\ waiters[l] \in Seq(Calls)
      /\ waiters[l] # << >> /\ Single(waiters[l])
  BY WaitsInLine
<1>2. /\ owner[l] = None /\ Head(waiters[l]) = c
      /\ Take(c) /\ waiters' = [waiters EXCEPT ![l] = Tail(@)]
  BY DEF Acquire, CanTake
<1>3. /\ waiters'[l] \in Seq(Calls) /\ Single(waiters'[l])
      /\ \A d \in Calls : Stands(d, waiters'[l])
                            <=> Stands(d, waiters[l]) /\ d # c
      /\ \A m \in Locks : m # l => waiters'[m] = waiters[m]
  BY <1>0, <1>1, <1>2, Serving DEF TypeOK
<1>4. waiters' \in [Locks -> Seq(Calls)]
  BY <1>0, <1>2, <1>3 DEF TypeOK
<1>5. /\ \A d \in Calls : d # c => pc'[d] = pc[d] /\ obj'[d] = obj[d]
      /\ obj'[c] = None /\ pc'[c] # "waiting"
  BY <1>0, <1>2 DEF Take, NextPc, TypeOK
<1>6. Queues'
  <2>1. ASSUME NEW m \in Locks
        PROVE  /\ Single(waiters'[m])
               /\ \A d \in Calls : Stands(d, waiters'[m])
                                     <=> pc'[d] = "waiting" /\ obj'[d] = m
    <3>1. CASE m = l
      BY <1>0, <1>3, <1>5, <3>1 DEF Queues
    <3>2. CASE m # l
      BY <1>0, <1>3, <1>5, <3>2 DEF Queues
    <3> QED
      BY <3>1, <3>2
  <2> QED
    BY <2>1 DEF Queues
<1> QED
  BY <1>1, <1>2, <1>4, <1>6, TakeStep

\* A waiter whose time is up leaves the queue.
LEMMA GiveUpStep ==
  ASSUME IInv, NEW c \in Calls, pc[c] = "waiting", GiveUp(c),
         woken' \subseteq Calls,
         UNCHANGED <<need, result, batchVars, table, refs>>
  PROVE  IInv'
<1> DEFINE l == obj[c]
<1> USE DEF lockVars, callVars, batchVars
<1>0. TypeOK /\ Queues /\ Staged
  BY DEF IInv
<1>1. /\ l \in Locks /\ l # None /\ waiters[l] \in Seq(Calls)
      /\ Single(waiters[l])
  BY WaitsInLine
<1>2. PICK i \in 1..Len(waiters[l]) :
        /\ waiters[l][i] = c
        /\ waiters' = [waiters EXCEPT ![l] = RemoveAt(waiters[l], i)]
  BY DEF GiveUp, Unqueue
<1>3. /\ waiters'[l] \in Seq(Calls) /\ Single(waiters'[l])
      /\ \A d \in Calls : Stands(d, waiters'[l])
                            <=> Stands(d, waiters[l]) /\ d # c
      /\ \A m \in Locks : m # l => waiters'[m] = waiters[m]
  BY <1>0, <1>1, <1>2, Quitting DEF TypeOK
<1>4. /\ pc' = [pc EXCEPT ![c] = "undoing"]
      /\ UNCHANGED <<held, obj, owner>>
  BY DEF GiveUp
<1>5. waiters' \in [Locks -> Seq(Calls)]
  BY <1>0, <1>2, <1>3 DEF TypeOK
<1>6. TypeOK'
  BY <1>0, <1>4, <1>5 DEF TypeOK, Pcs
<1>7. Staged'
  BY <1>0, <1>4 DEF Staged, TypeOK
<1>8. InOrder' /\ OwnersHold' /\ Apart'
  BY <1>0, <1>4 DEF IInv, InOrder, OwnersHold, Apart, TypeOK
<1>9. Queues'
  <2>1. /\ \A d \in Calls : d # c => pc'[d] = pc[d]
        /\ obj' = obj /\ pc'[c] # "waiting"
    BY <1>0, <1>4 DEF TypeOK
  <2>2. ASSUME NEW m \in Locks
        PROVE  /\ Single(waiters'[m])
               /\ \A d \in Calls : Stands(d, waiters'[m])
                                     <=> pc'[d] = "waiting" /\ obj'[d] = m
    <3>1. CASE m = l
      BY <1>0, <1>3, <2>1, <3>1 DEF Queues
    <3>2. CASE m # l
      BY <1>0, <1>3, <2>1, <3>2 DEF Queues
    <3> QED
      BY <3>1, <3>2
  <2> QED
    BY <2>2 DEF Queues
<1>10. ASSUME NEW k \in Keys PROVE Exact(k)'
  <2>1. Users(k)' = Users(k)
    BY <1>4 DEF Users, Refers, Asking, Wanted
  <2> QED
    BY <1>4, <2>1, ExactTable DEF IInv, Exact
<1> QED
  BY <1>6, <1>7, <1>8, <1>9, <1>10, ExactTableNext DEF IInv

\* A notification or the end of the time: the lock, another wait, or none.
LEMMA WaitSteps ==
  ASSUME IInv, NEW c \in Calls, Notified(c) \/ TimedOut(c)
  PROVE  IInv'
<1>1. /\ pc[c] = "waiting"
      /\ Acquire(c) \/ WaitOn(c) \/ GiveUp(c)
      /\ woken' \subseteq Calls
      /\ UNCHANGED <<need, result, batchVars, table, refs>>
  BY DEF Notified, TimedOut, LastLook, IInv, TypeOK
<1>2. CASE WaitOn(c)
  <2>1. UNCHANGED <<pc, need, held, obj, result, table, refs, owner, waiters>>
    BY <1>1, <1>2 DEF WaitOn
  <2>2. TypeOK'
    BY <1>1, <2>1 DEF IInv, TypeOK, batchVars
  <2>3. Staged'
    BY <2>1 DEF IInv, Staged
  <2>4. \A d \in Calls : /\ pc'[d] = "waiting" <=> pc[d] = "waiting"
                         /\ pc[d] = "leaving" => pc'[d] = "leaving"
    BY <2>1
  <2> QED
    BY <2>1, <2>2, <2>3, <2>4, Aside
<1> QED
  BY <1>1, <1>2, AcquireStep, GiveUpStep

\* A key loses one of its users: Unref brings its count and its lock along.
LEMMA UnrefExact ==
  ASSUME IInv, NEW c \in Calls, NEW w \in Keys, c \in Users(w),
         NEW o, o \in Calls => w \in held[o] /\ o # c, o \in Calls \cup {None},
         Unref(w, o), Users(w)' = Users(w) \ {c}
  PROVE  /\ table' \in [Keys -> Locks \cup {None}]
         /\ refs' \in [Keys -> Nat]
         /\ \A k \in Keys : k # w => refs'[k] = refs[k] /\ table'[k] = table[k]
         /\ refs'[w] = Cardinality(Users(w)')
         /\ table'[w] = None <=> Users(w)' = {}
         /\ table'[w] # None => table'[w] = table[w]
<1> DEFINE n == refs[w] - 1
           gone == n = 0 /\ o = None
<1>0. TypeOK
  BY DEF IInv
<1>1. Exact(w)
  BY ExactTable DEF IInv
<1>2. /\ refs' = [refs EXCEPT ![w] = IF gone THEN 0 ELSE n]
      /\ table' = [table EXCEPT ![w] = IF gone THEN None ELSE @]
  BY DEF Unref, Unreferenced
<1>3. /\ n = Cardinality(Users(w) \ {c}) /\ n \in Nat
      /\ n = 0 <=> Users(w) \ {c} = {}
  <2>1. IsFiniteSet(Users(w) \ {c}) /\ n = Cardinality(Users(w) \ {c})
    BY <1>1, UsersFinite, FS_RemoveElement DEF Exact
  <2> QED
    BY <2>1, FS_CardinalityType, FS_EmptySet
<1>4. n = 0 => gone
  <2>1. o \in Calls => o \in Users(w) \ {c}
    BY DEF Users, Refers
  <2> QED
    BY <1>3, <2>1
<1>5. table[w] # None /\ None \notin Locks
  BY <1>1, BatchAssumption DEF Exact
<1>6. gone => n = 0
  OBVIOUS
<1> HIDE DEF n, gone
<1>7. refs'[w] = n /\ table'[w] = IF n = 0 THEN None ELSE table[w]
  BY <1>0, <1>2, <1>4, <1>6 DEF TypeOK
<1>8. table' \in [Keys -> Locks \cup {None}] /\ refs' \in [Keys -> Nat]
  BY <1>0, <1>2, <1>3 DEF TypeOK
<1>9. \A k \in Keys : k # w => refs'[k] = refs[k] /\ table'[k] = table[k]
  BY <1>0, <1>2 DEF TypeOK
<1> QED
  BY <1>3, <1>5, <1>7, <1>8, <1>9

\* A timeout gives the reference back.
LEMMA UndoStep ==
  ASSUME IInv, NEW c \in Calls, Undo(c)
  PROVE  IInv'
<1> USE DEF lockVars, callVars, batchVars
<1>0. TypeOK /\ Staged /\ InOrder /\ Queues /\ OwnersHold /\ Apart
  BY DEF IInv
<1>a. PICK w \in Keys : w = Wanted(c)
  BY <1>0, AskedFor DEF Undo, Staged
<1> USE <1>a
<1> DEFINE l == table[w]
<1>1. /\ w \in need[c] \ held[c] /\ c \in Users(w)
      /\ obj[c] = l /\ l \in Locks /\ obj[c] # None /\ pc[c] = "undoing"
  BY <1>0, AskedFor DEF Undo, Staged
<1>2. /\ Unref(w, owner[l])
      /\ obj' = [obj EXCEPT ![c] = None]
      /\ result' = [result EXCEPT ![c] = "timeout"]
      /\ pc' = [pc EXCEPT ![c] = IF held[c] = {} THEN "done" ELSE "leaving"]
      /\ UNCHANGED <<need, held, batchVars, owner, waiters, woken>>
  BY DEF Undo, DropReference
<1>3. owner[l] \in Calls \cup {None}
  BY <1>0, <1>1 DEF TypeOK
<1>4. owner[l] \in Calls => w \in held[owner[l]] /\ owner[l] # c
  <2>1. SUFFICES ASSUME owner[l] \in Calls
                 PROVE  w \in held[owner[l]]
    BY <1>1
  <2>2. PICK k \in Keys : k \in held[owner[l]] /\ table[k] = l
    BY <1>0, <1>1, <2>1, BatchAssumption DEF OwnersHold
  <2>3. k = w
    BY <1>0, <1>1, <2>2, BatchAssumption DEF Apart
  <2> QED
    BY <2>2, <2>3
<1>5. /\ \A d \in Calls : Wanted(d)' = Wanted(d)
      /\ \A d \in Calls : d # c => obj'[d] = obj[d] /\ pc'[d] = pc[d]
      /\ obj'[c] = None
  BY <1>0, <1>2 DEF Wanted, TypeOK
<1>6. /\ Users(w)' = Users(w) \ {c}
      /\ \A k \in Keys : k # w => Users(k)' = Users(k)
  <2>1. \A d \in Calls, k \in Keys : d # c => (Refers(d, k)' <=> Refers(d, k))
    BY <1>2, <1>5 DEF Refers, Asking
  <2>2. ~Refers(c, w)'
    BY <1>1, <1>2, <1>5 DEF Refers, Asking
  <2>3. \A k \in Keys : k # w => (Refers(c, k)' <=> Refers(c, k))
    BY <1>1, <1>2, <1>5 DEF Refers, Asking
  <2> QED
    BY <1>1, <2>1, <2>2, <2>3 DEF Users
<1>7. /\ table' \in [Keys -> Locks \cup {None}] /\ refs' \in [Keys -> Nat]
      /\ \A k \in Keys : k # w => refs'[k] = refs[k] /\ table'[k] = table[k]
      /\ refs'[w] = Cardinality(Users(w)')
      /\ table'[w] = None <=> Users(w)' = {}
      /\ table'[w] # None => table'[w] = l
  <2>1. PICK o \in Calls \cup {None} : o = owner[l]
    BY <1>3
  <2>2. Unref(w, o) /\ (o \in Calls => w \in held[o] /\ o # c)
    BY <1>2, <1>4, <2>1
  <2> QED
    BY <1>1, <1>6, <2>2, UnrefExact
<1> HIDE DEF l
<1>8. TypeOK'
  BY <1>0, <1>2, <1>7 DEF TypeOK, Pcs, Results
<1>9. Staged'
  BY <1>0, <1>1, <1>2 DEF Staged, TypeOK
<1>10. InOrder'
  BY <1>0, <1>1, <1>2 DEF InOrder, TypeOK
<1>11. Queues'
  BY <1>0, <1>1, <1>2, <1>5 DEF Queues, TypeOK
<1>12. ASSUME NEW k \in Keys, NEW d \in Users(k)'
       PROVE  /\ table'[k] = table[k] /\ d \in Users(k)
              /\ held'[d] = held[d]
              /\ k \notin held[d] => obj'[d] = obj[d]
  <2>1. d # c \/ k # w
    BY <1>6, <1>12
  <2>2. d \in Users(k) /\ d \in Calls
    BY <1>6, <1>12 DEF Users
  <2>3. table'[k] = table[k]
    BY <1>7, <1>12 DEF l
  <2>4. held' = held
    BY <1>2
  <2>5. k \notin held[d] => obj'[d] = obj[d]
    <3>1. d = c => k \in held[c]
      BY <1>2, <1>5, <1>12 DEF Users, Refers, Asking
    <3> QED
      BY <2>2, <3>1, <1>5
  <2> QED
    BY <2>2, <2>3, <2>4, <2>5
<1>13. ASSUME NEW k \in Keys PROVE Exact(k)'
  <2>1. Exact(k)
    BY ExactTable DEF IInv
  <2>2. /\ refs'[k] = Cardinality(Users(k)')
        /\ table'[k] = None <=> Users(k)' = {}
    BY <1>6, <1>7, <2>1 DEF Exact
  <2>3. ASSUME NEW d \in Users(k)'
        PROVE  IF k \in held'[d] THEN owner'[table'[k]] = d
                                 ELSE obj'[d] = table'[k]
    BY <1>2, <1>12, <2>1 DEF Exact
  <2> QED
    BY <2>2, <2>3 DEF Exact
<1>14. OwnersHold'
  <2>1. ASSUME NEW m \in Locks, owner[m] # None
        PROVE  \E k \in Keys : k \in held[owner[m]] /\ table'[k] = m
    <3>1. PICK k \in Keys : k \in held[owner[m]] /\ table[k] = m
      BY <1>0, <2>1 DEF OwnersHold
    <3>2. owner[m] \in Calls
      BY <1>0, <2>1 DEF TypeOK
    <3>3. owner[m] \in Users(k)'
      BY <1>2, <3>1, <3>2 DEF Users, Refers
    <3> QED
      BY <3>1, <3>3, <1>12
  <2> QED
    BY <1>2, <2>1 DEF OwnersHold
<1>15. Apart'
  <2>1. \A k \in Keys : table'[k] # None => table'[k] = table[k]
    BY <1>7 DEF l
  <2> QED
    BY <1>0, <2>1 DEF Apart
<1> QED
  BY <1>8, <1>9, <1>10, <1>11, <1>13, <1>14, <1>15, ExactTableNext DEF IInv

\* A call releases the last of its locks; the table still had it for the key.
LEMMA LeaveStep ==
  ASSUME IInv, NEW c \in Calls, Leave(c)
  PROVE  IInv'
<1> USE DEF lockVars, callVars, batchVars
<1>0. TypeOK /\ Staged /\ InOrder /\ Queues /\ OwnersHold /\ Apart
  BY DEF IInv
<1>1. pc[c] = "leaving" /\ held[c] # {} /\ obj[c] = None
  BY <1>0 DEF Leave, Staged
<1>2. PICK w \in Keys : w = Max(held[c]) /\ w \in held[c]
  <2>1. /\ held[c] \subseteq Keys /\ held[c] \subseteq Nat
        /\ IsFiniteSet(held[c])
    BY <1>0, FS_Subset, BatchAssumption DEF TypeOK
  <2> QED
    BY <1>1, <2>1, NatMax
<1> DEFINE l == table[w]
           mine == held[c] \ {w}
<1>3. c \in Users(w)
  BY <1>2 DEF Users, Refers
<1>4. Exact(w) /\ l # None /\ l \in Locks /\ owner[l] = c
  BY <1>0, <1>2, <1>3, ExactTable DEF Exact, IInv, TypeOK
<1>5. /\ owner' = [owner EXCEPT ![l] = None]
      /\ woken' = woken \cup {waiters[l][i] : i \in 1..Len(waiters[l]) \cap {1}}
      /\ Unref(w, None)
      /\ held' = [held EXCEPT ![c] = mine]
      /\ pc' = [pc EXCEPT ![c] = IF mine = {} THEN "done" ELSE "leaving"]
      /\ UNCHANGED <<need, result, obj, batchVars, waiters>>
  BY <1>2, <1>4 DEF Leave, Release
<1>6. /\ held'[c] = mine
      /\ \A d \in Calls : d # c => held'[d] = held[d] /\ pc'[d] = pc[d]
      /\ \A d \in Calls : d # c => Wanted(d)' = Wanted(d)
      /\ \A m \in Locks : m # l => owner'[m] = owner[m]
      /\ owner'[l] = None
  BY <1>0, <1>4, <1>5 DEF Wanted, TypeOK
<1>7. /\ Users(w)' = Users(w) \ {c}
      /\ \A k \in Keys : k # w => Users(k)' = Users(k)
  <2>1. \A d \in Calls, k \in Keys : d # c => (Refers(d, k)' <=> Refers(d, k))
    BY <1>5, <1>6 DEF Refers, Asking
  <2>2. ~Refers(c, w)'
    BY <1>1, <1>5, <1>6 DEF Refers, Asking
  <2>3. \A k \in Keys : k # w => (Refers(c, k)' <=> Refers(c, k))
    BY <1>1, <1>5, <1>6 DEF Refers, Asking
  <2> QED
    BY <1>3, <2>1, <2>2, <2>3 DEF Users
<1>8. /\ table' \in [Keys -> Locks \cup {None}] /\ refs' \in [Keys -> Nat]
      /\ \A k \in Keys : k # w => refs'[k] = refs[k] /\ table'[k] = table[k]
      /\ refs'[w] = Cardinality(Users(w)')
      /\ table'[w] = None <=> Users(w)' = {}
      /\ table'[w] # None => table'[w] = l
  <2>1. None \in Calls \cup {None} /\ None \notin Calls
    BY BatchAssumption
  <2> QED
    BY <2>1, <1>3, <1>5, <1>7, UnrefExact
<1> HIDE DEF l, mine
<1>9. TypeOK'
  <2>1. \A i \in 1..Len(waiters[l]) : waiters[l][i] \in Calls
    BY <1>0, <1>4, ElementOfSeq DEF TypeOK
  <2>2. woken' \subseteq Calls
    BY <1>0, <1>5, <2>1 DEF TypeOK
  <2>3. held' \in [Calls -> SUBSET Keys] /\ pc' \in [Calls -> Pcs]
    BY <1>0, <1>5 DEF TypeOK, Pcs, mine
  <2>4. owner' \in [Locks -> Calls \cup {None}]
    BY <1>0, <1>5 DEF TypeOK
  <2> QED
    BY <1>0, <1>5, <1>8, <2>2, <2>3, <2>4 DEF TypeOK
<1>10. Staged'
  BY <1>0, <1>1, <1>5 DEF Staged, TypeOK, mine
<1>11. InOrder'
  <2>1. ASSUME NEW d \in Calls, pc'[d] # "leaving",
               NEW h \in held'[d], NEW k \in need'[d] \ held'[d]
        PROVE  h < k
    <3>1. d # c
      BY <1>0, <1>5, <1>6, <2>1 DEF TypeOK
    <3> QED
      BY <1>0, <1>5, <1>6, <2>1, <3>1 DEF InOrder
  <2> QED
    BY <2>1 DEF InOrder
<1>12. Queues'
  BY <1>0, <1>1, <1>5 DEF Queues, TypeOK
<1>13. ASSUME NEW k \in Keys, NEW d \in Users(k)'
       PROVE  /\ table'[k] = table[k] /\ d \in Users(k)
              /\ k \in held'[d] <=> k \in held[d]
              /\ k \in held[d] => table[k] # l
  <2>1. d # c \/ k # w
    BY <1>7, <1>13
  <2>2. d \in Users(k) /\ d \in Calls
    BY <1>7, <1>13 DEF Users
  <2>3. table'[k] = table[k]
    BY <1>8, <1>13 DEF l
  <2>4. k \in held'[d] <=> k \in held[d]
    BY <1>6, <2>1, <2>2 DEF mine
  <2>5. ASSUME k \in held[d], table[k] = l PROVE FALSE
    <3>1. k = w
      BY <1>0, <1>4, <2>5 DEF Apart, l
    <3>2. owner[l] = d
      BY <1>4, <2>2, <2>5, <3>1 DEF Exact, l
    <3> QED
      BY <1>4, <2>1, <3>1, <3>2
  <2> QED
    BY <2>2, <2>3, <2>4, <2>5
<1>14. ASSUME NEW k \in Keys PROVE Exact(k)'
  <2>1. Exact(k)
    BY ExactTable DEF IInv
  <2>2. /\ refs'[k] = Cardinality(Users(k)')
        /\ table'[k] = None <=> Users(k)' = {}
    BY <1>7, <1>8, <2>1 DEF Exact
  <2>3. ASSUME NEW d \in Users(k)'
        PROVE  IF k \in held'[d] THEN owner'[table'[k]] = d
                                 ELSE obj'[d] = table'[k]
    <3>1. /\ table'[k] = table[k] /\ d \in Users(k)
          /\ k \in held'[d] <=> k \in held[d]
          /\ k \in held[d] => table[k] # l
      BY <1>13, <2>3
    <3>2. table[k] \in Locks
      BY <1>0, <2>1, <3>1 DEF Exact, TypeOK
    <3> QED
      BY <1>5, <1>6, <2>1, <3>1, <3>2 DEF Exact
  <2> QED
    BY <2>2, <2>3 DEF Exact
<1>15. OwnersHold'
  <2>1. ASSUME NEW m \in Locks, owner'[m] # None
        PROVE  \E k \in Keys : k \in held'[owner'[m]] /\ table'[k] = m
    <3>1. m # l /\ owner'[m] = owner[m]
      BY <1>6, <2>1
    <3>2. PICK k \in Keys : k \in held[owner[m]] /\ table[k] = m
      BY <1>0, <2>1, <3>1 DEF OwnersHold
    <3>3. k # w /\ owner[m] \in Calls
      BY <1>0, <2>1, <3>1, <3>2 DEF TypeOK, l
    <3> QED
      BY <1>6, <1>8, <3>1, <3>2, <3>3 DEF mine
  <2> QED
    BY <2>1 DEF OwnersHold
<1>16. Apart'
  <2>1. \A k \in Keys : table'[k] # None => table'[k] = table[k]
    BY <1>8 DEF l
  <2> QED
    BY <1>0, <2>1 DEF Apart
<1> QED
  BY <1>9, <1>10, <1>11, <1>12, <1>14, <1>15, <1>16, ExactTableNext DEF IInv

\* Every step keeps the invariant.
LEMMA Step == IInv /\ [Next]_vars => IInv'
<1> SUFFICES ASSUME IInv, [Next]_vars PROVE IInv'
  OBVIOUS
<1>1. \/ \E c \in Calls : \/ GetLock(c) \/ Ask(c) \/ Notified(c) \/ TimedOut(c)
                          \/ Undo(c) \/ Leave(c)
      \/ \E S \in SUBSET Calls : Start(S)
      \/ Collect \/ Cancel \/ Abandon \/ Drained
      \/ \E c \in Calls : Begin(c) \/ Finish(c)
      \/ UNCHANGED vars
  BY DEF Next, Thread, Loop, Quiet
<1> QED
  BY <1>1, GetLockStep, AskStep, WaitSteps, UndoStep, LeaveStep, BatchSteps

\* The invariant holds of every state.
LEMMA Inductive == Spec => []IInv
<1>1. IInv /\ [Next]_vars => IInv'
  BY Step
<1> QED
  BY FirstState, <1>1, PTL DEF Spec
-----------------------------------------------------------------------------
\* Types: every variable of the executor has its type in every reachable state;
\* that a count never falls below zero is part of it.
THEOREM TypesHold == Spec => []TypeOK
<1>1. IInv => TypeOK
  BY DEF IInv
<1> QED
  BY Inductive, <1>1, PTL

\* The manager has a lock object for exactly the keys some call holds or asks
\* for, counts exactly these calls, and all of them use that object.
THEOREM LocksAccounted == Spec => []TableExact
<1>1. IInv => TableExact
  BY DEF IInv
<1> QED
  BY Inductive, <1>1, PTL

\* Nobody holds a key beside another.
LEMMA HoldAlone ==
  ASSUME IInv, NEW k \in Keys, NEW c \in Calls, NEW d \in Calls,
         k \in held[c], k \in held[d]
  PROVE  c = d
<1>1. Exact(k) /\ c \in Users(k) /\ d \in Users(k)
  BY ExactTable DEF IInv, Users, Refers
<1> QED
  BY <1>1 DEF Exact

Outcomes == {c \in Calls : result[c] # "none"}

\* A call comes to run, or on to its next key: the abstract step Run, or none.
LEMMA ComesToRun ==
  ASSUME IInv, IInv', NEW c \in Calls, NEW p \in {"running", "looking"},
         pc[c] \in {"queued", "asking", "waiting"},
         pc' = [pc EXCEPT ![c] = p], need' = need, result' = result
  PROVE  \/ Exclusion!Run(c)
         \/ need' = need /\ Running' = Running /\ Outcomes' = Outcomes
<1>0. TypeOK /\ Staged /\ Staged' /\ Outcomes' = Outcomes
  BY DEF IInv, Outcomes
<1>1. CASE p = "looking"
  BY <1>0, <1>1 DEF Running, TypeOK
<1>2. CASE p = "running"
  <2>1. c \notin Running /\ Running' = Running \cup {c}
    BY <1>0, <1>2 DEF Running, TypeOK
  <2>2. c \notin Outcomes
    BY <1>0 DEF Outcomes, Staged
  <2>3. ASSUME NEW d \in Running PROVE need[d] \cap need[c] = {}
    <3>1. d \in Running' /\ c \in Running' /\ d # c
      BY <2>1
    <3>2. held'[d] = need[d] /\ held'[c] = need[c] /\ d \in Calls
      BY <1>0, <3>1 DEF Running, Staged
    <3>3. need[c] \subseteq Keys
      BY <1>0 DEF TypeOK
    <3>4. \A k \in Keys : ~(k \in held'[c] /\ k \in held'[d])
      <4>1. ASSUME NEW k \in Keys, k \in held'[c], k \in held'[d] PROVE FALSE
        <5>1. Exact(k)' /\ c \in Users(k)' /\ d \in Users(k)'
          BY <3>2, <4>1, ExactTableNext DEF IInv, Users, Refers
        <5> QED
          BY <3>1, <4>1, <5>1 DEF Exact
      <4> QED
        BY <4>1
    <3> QED
      BY <3>2, <3>3, <3>4
  <2> QED
    BY <1>0, <2>1, <2>2, <2>3 DEF Exclusion!Run, Outcomes
<1> QED
  BY <1>1, <1>2

\* Every step of the executor is a step of the promise, or changes nothing of
\* what it is about.
LEMMA StepKeepsPromise ==
  ASSUME IInv, IInv', [Next]_vars
  PROVE  \/ Exclusion!Next
         \/ need' = need /\ Running' = Running /\ Outcomes' = Outcomes
<1> DEFINE Nothing == need' = need /\ Running' = Running /\ Outcomes' = Outcomes
           Kept == Exclusion!Next \/ Nothing
<1> USE DEF callVars, batchVars, lockVars
<1>0. TypeOK /\ Staged
  BY DEF IInv
<1>1. ASSUME NEW S \in SUBSET Calls, Start(S) PROVE Kept
  BY <1>0, <1>1 DEF Start, Running, Outcomes, TypeOK
<1>2. ASSUME Collect \/ Cancel \/ Drained \/ UNCHANGED vars PROVE Kept
  BY <1>2 DEF Collect, Cancel, Drained, vars, Running, Outcomes
<1>3. ASSUME Abandon PROVE Kept
  <2>1. Queued \subseteq Calls /\ \A c \in Queued : pc[c] = "queued"
    BY <1>0 DEF Queued, TypeOK
  <2>2. Running' = Running /\ need' = need
    BY <1>0, <1>3, <2>1 DEF Abandon, Running, TypeOK
  <2>3. Outcomes' = Outcomes \cup Queued
    BY <1>0, <1>3, <2>1 DEF Abandon, Outcomes, TypeOK
  <2>4. Queued \cap (Running \cup Outcomes) = {}
    BY <1>0, <2>1 DEF Running, Outcomes, Staged
  <2>5. PICK Q \in SUBSET Calls : Q = Queued
    BY <2>1
  <2>6. Exclusion!TurnDown(Q)
    BY <2>2, <2>3, <2>4, <2>5 DEF Exclusion!TurnDown, Outcomes
  <2> QED
    BY <2>6 DEF Exclusion!Next
<1>4. ASSUME NEW c \in Calls, Begin(c) PROVE Kept
  <2>1. pc[c] = "queued" /\ result[c] = "none"
    BY <1>0, <1>4 DEF Begin, Turn, Queued, Staged
  <2>2. CASE cancelled
    <3>1. Running' = Running /\ need' = need /\ Outcomes' = Outcomes \cup {c}
      BY <1>0, <1>4, <2>1, <2>2 DEF Begin, Running, Outcomes, TypeOK
    <3>2. Exclusion!TurnDown({c})
      BY <2>1, <3>1 DEF Exclusion!TurnDown, Running, Outcomes
    <3> QED
      BY <3>2 DEF Exclusion!Next
  <2>3. CASE ~cancelled
    BY <1>4, <2>1, <2>3, ComesToRun DEF Begin, NextPc, Exclusion!Next
  <2> QED
    BY <2>2, <2>3
<1>5. ASSUME NEW c \in Calls, GetLock(c) \/ WaitOn(c),
             UNCHANGED <<need, result>>
      PROVE  Kept
  BY <1>0, <1>5 DEF GetLock, WaitOn, Running, Outcomes, TypeOK
<1>6. ASSUME NEW c \in Calls, Take(c), UNCHANGED <<need, result>>,
             pc[c] \in {"asking", "waiting"}
      PROVE  Kept
  BY <1>6, ComesToRun DEF Take, NextPc, Exclusion!Next
<1>7. ASSUME NEW c \in Calls, Ask(c) PROVE Kept
  <2>1. CASE Take(c)
    BY <1>6, <1>7, <2>1 DEF Ask
  <2>2. CASE pc' = [pc EXCEPT ![c] = "waiting"]
    BY <1>0, <1>7, <2>2 DEF Ask, Running, Outcomes, TypeOK
  <2> QED
    BY <1>7, <2>1, <2>2 DEF Ask
<1>8. ASSUME NEW c \in Calls, Notified(c) \/ TimedOut(c) PROVE Kept
  <2>1. /\ Take(c) \/ WaitOn(c) \/ pc' = [pc EXCEPT ![c] = "undoing"]
        /\ UNCHANGED <<need, result>> /\ pc[c] = "waiting"
    BY <1>8 DEF Notified, TimedOut, LastLook, Acquire, GiveUp
  <2>2. CASE pc' = [pc EXCEPT ![c] = "undoing"]
    BY <1>0, <2>1, <2>2 DEF Running, Outcomes, TypeOK
  <2> QED
    BY <1>5, <1>6, <2>1, <2>2
<1>9. ASSUME NEW c \in Calls, Undo(c) PROVE Kept
  <2>1. pc[c] = "undoing" /\ result[c] = "none"
    BY <1>0, <1>9 DEF Undo, Staged
  <2>2. Running' = Running /\ need' = need /\ Outcomes' = Outcomes \cup {c}
    BY <1>0, <1>9, <2>1 DEF Undo, Running, Outcomes, TypeOK
  <2>3. Exclusion!TurnDown({c})
    BY <2>1, <2>2 DEF Exclusion!TurnDown, Running, Outcomes
  <2> QED
    BY <2>3 DEF Exclusion!Next
<1>10. ASSUME NEW c \in Calls, Finish(c) PROVE Kept
  <2>1. c \in Running
    BY <1>10 DEF Finish, Running
  <2>2. /\ Running' = Running \ {c} /\ need' = need
        /\ Outcomes' = Outcomes \cup {c}
    BY <1>0, <1>10 DEF Finish, Running, Outcomes, TypeOK
  <2>3. Exclusion!Finish(c)
    BY <2>1, <2>2 DEF Exclusion!Finish, Outcomes
  <2> QED
    BY <2>3 DEF Exclusion!Next
<1>11. ASSUME NEW c \in Calls, Leave(c) PROVE Kept
  BY <1>0, <1>11 DEF Leave, Running, Outcomes, TypeOK
<1>12. ASSUME NEW c \in Calls, Thread(c) \/ TimedOut(c) PROVE Kept
  <2>1. GetLock(c) => UNCHANGED <<need, result>>
    BY DEF GetLock
  <2> HIDE DEF Kept
  <2> QED
    BY <1>4, <1>5, <1>7, <1>8, <1>9, <1>10, <1>11, <1>12, <2>1 DEF Thread
<1> HIDE DEF Kept
<1>13. Kept
  BY <1>1, <1>2, <1>3, <1>12 DEF Next, Loop, Quiet
<1> QED
  BY <1>13 DEF Kept

\* The locks implement the promise of ToolExclusion: a call runs at most once,
\* and never beside one that needs a key of its own.
THEOREM LocksExclude == Spec => ExclusionSpec
<1>1. Init => Exclusion!Init
  BY BatchAssumption DEF Init, Exclusion!Init, Running
<1>2. IInv /\ IInv' /\ [Next]_vars => [Exclusion!Next]_(Exclusion!vars)
  BY StepKeepsPromise DEF Exclusion!vars, Outcomes
<1> QED
  BY Inductive, <1>1, <1>2, PTL DEF Spec, ExclusionSpec, Exclusion!Spec
-----------------------------------------------------------------------------
\* The call a waiting call waits for holds the key it wants and, having its keys
\* from the lowest up, can only wait for a higher one.
LEMMA OwnerWantsMore ==
  ASSUME IInv, NEW c \in Calls, NEW d \in Calls, pc[c] = "waiting",
         pc[d] = "waiting", owner[obj[c]] = d
  PROVE  Wanted(c) < Wanted(d)
<1>1. /\ obj[c] \in Locks /\ obj[c] # None /\ obj[d] # None
      /\ Wanted(c) \in Keys /\ obj[c] = table[Wanted(c)]
      /\ Wanted(d) \in need[d] \ held[d]
  BY WaitsInLine, AskedFor
<1>2. PICK k \in Keys : k \in held[d] /\ table[k] = obj[c]
  BY <1>1, BatchAssumption DEF IInv, OwnersHold
<1>3. k = Wanted(c)
  BY <1>1, <1>2 DEF IInv, Apart
<1> QED
  BY <1>1, <1>2, <1>3 DEF IInv, InOrder

\* No calls wait on each other in a circle: of those that did, the one that
\* wants the highest key would wait for a call that wants a higher one, or stand
\* behind a head that does.
THEOREM NoCircleForms == Spec => []NoCircle
<1>1. ASSUME IInv PROVE NoCircle
  <2>1. SUFFICES ASSUME NEW S \in SUBSET Calls, S # {},
                        \A c \in S : BlockedBy(c, S)
                 PROVE  FALSE
    BY DEF NoCircle
  <2>2. \A c \in S : c \in Calls /\ pc[c] = "waiting" /\ Wanted(c) \in Keys
    BY <2>1, <1>1, WaitsInLine, AskedFor DEF BlockedBy
  <2> DEFINE W == {Wanted(c) : c \in S}
  <2>3. W \subseteq Nat /\ W # {} /\ IsFiniteSet(W)
    <3>1. W \subseteq Keys
      BY <2>2
    <3>2. W # {}
      BY <2>1
    <3> HIDE DEF W
    <3> QED
      BY <3>1, <3>2, FS_Subset, BatchAssumption
  <2>4. PICK c \in S : \A d \in S : Wanted(c) >= Wanted(d)
    BY <2>3, NatMax
  <2>5. ASSUME NEW d \in S, obj[d] = obj[c] PROVE owner[obj[d]] \notin S
    <3>1. Wanted(d) = Wanted(c)
      <4>1. /\ table[Wanted(d)] = obj[d] /\ obj[d] # None
            /\ table[Wanted(c)] = obj[c]
        BY <1>1, <2>2, WaitsInLine, AskedFor
      <4> QED
        BY <1>1, <2>2, <2>5, <4>1 DEF IInv, Apart
    <3>2. SUFFICES ASSUME owner[obj[d]] \in S PROVE FALSE
      OBVIOUS
    <3>3. Wanted(d) < Wanted(owner[obj[d]])
      BY <1>1, <2>2, <3>2, OwnerWantsMore
    <3>4. Wanted(c) \in Nat /\ Wanted(owner[obj[d]]) \in Nat
      BY <2>2, <3>2, BatchAssumption
    <3> QED
      BY <2>4, <3>1, <3>2, <3>3, <3>4
  <2> DEFINE h == Head(waiters[obj[c]])
  <2>6. h \in S \ {c}
    BY <2>1, <2>5 DEF BlockedBy
  <2>7. obj[h] = obj[c]
    BY <1>1, <2>2, WaitsInLine
  <2> HIDE DEF h
  <2>8. owner[obj[h]] \notin S
    BY <2>5, <2>6, <2>7
  <2>9. Head(waiters[obj[h]]) = h
    BY <2>7 DEF h
  <2> QED
    BY <2>1, <2>6, <2>8, <2>9 DEF BlockedBy
<1> QED
  BY Inductive, <1>1, PTL

\* Who comes after a call that waits is another, and asks or waits too.
LEMMA BehindAnother ==
  ASSUME IInv, NEW c \in Calls, NEW d \in Calls, Before(c, d)
  PROVE  /\ c # d /\ pc[c] = "waiting"
         /\ pc[d] = "asking" \/ pc[d] = "waiting"
         /\ pc[d] = "waiting" =>
              /\ Precedes(c, d, waiters[obj[c]])
              /\ Head(waiters[obj[c]]) # d
<1> DEFINE q == waiters[obj[c]]
<1>1. /\ pc[c] = "waiting" /\ obj[c] \in Locks /\ Single(q)
      /\ q \in Seq(Calls) /\ q # << >>
  BY WaitsInLine DEF Before
<1>2. CASE pc[d] = "asking"
  BY <1>1, <1>2
<1>3. CASE Precedes(c, d, q)
  <2>1. PICK i \in 1..Len(q), j \in 1..Len(q) :
          i < j /\ q[i] = c /\ q[j] = d
    BY <1>3 DEF Precedes
  <2>2. Stands(d, q)
    BY <2>1 DEF Stands
  <2>3. pc[d] = "waiting"
    BY <1>1, <2>2 DEF IInv, Queues
  <2>4. 1 \in 1..Len(q) /\ j # 1 /\ i # j
    BY <1>1, <2>1, LenProperties
  <2>5. q[1] # d /\ c # d
    BY <1>1, <2>1, <2>4 DEF Single
  <2>6. Head(q) = q[1]
    BY <1>1, Serving
  <2> QED
    BY <1>1, <1>3, <2>3, <2>5, <2>6
<1> QED
  BY <1>2, <1>3 DEF Before

\* What a waiting call does: it takes the lock from the front, gives up or waits
\* on.
LEMMA WaiterDoes ==
  ASSUME NEW e \in Calls, Notified(e) \/ TimedOut(e)
  PROVE  /\ pc[e] = "waiting"
         /\ \/ WaitOn(e)
            \/ CanTake(e) /\ Take(e) /\ waiters' = [waiters EXCEPT
                                                    ![obj[e]] = Tail(@)]
            \/ GiveUp(e)
BY DEF Notified, TimedOut, LastLook, Acquire

\* A step of a third call, or of the one that waits, keeps them in line.
LEMMA OthersKeepOrder ==
  ASSUME IInv, NEW c \in Calls, NEW d \in Calls, NEW e \in Calls,
         Before(c, d), pc'[c] = "waiting", e # d,
         Thread(e) \/ TimedOut(e)
  PROVE  Before(c, d)'
<1> DEFINE l == obj[c]
           q == waiters[l]
<1>0. TypeOK /\ e # d /\ c # d /\ pc[c] = "waiting"
  BY BehindAnother DEF IInv
<1>1. /\ l \in Locks /\ q \in Seq(Calls) /\ q # << >> /\ Single(q)
      /\ obj[c] # None
  BY <1>0, WaitsInLine
<1>2. /\ obj' = [obj EXCEPT ![e] = obj'[e]]
      /\ pc' = [pc EXCEPT ![e] = pc'[e]]
  BY <1>0 DEF TypeOK, Thread, Begin, GetLock, Ask, Take, Notified, TimedOut,
     LastLook, Acquire, WaitOn, GiveUp, Undo, Finish, Leave, callVars
<1>3. obj'[d] = obj[d] /\ pc'[d] = pc[d]
  BY <1>0, <1>2 DEF TypeOK
<1>4. obj'[c] = l
  <2>1. CASE e # c
    BY <1>0, <1>2, <2>1 DEF TypeOK
  <2>2. CASE e = c
    BY <1>0, <2>2 DEF TypeOK, Thread, Begin, Turn, Queued, GetLock, Ask,
       Take, NextPc, Notified, TimedOut, LastLook, Acquire, WaitOn, GiveUp,
       Undo, Finish, Leave
  <2> QED
    BY <2>1, <2>2
<1>5. Precedes(c, d, q) => Precedes(c, d, waiters'[l])
  <2>1. SUFFICES ASSUME Precedes(c, d, q) PROVE Precedes(c, d, waiters'[l])
    OBVIOUS
  <2>2. CASE waiters' = waiters
    BY <2>1, <2>2
  <2>3. ASSUME Ask(e), waiters' # waiters PROVE Precedes(c, d, waiters'[l])
    <3>1. waiters' = [waiters EXCEPT ![obj[e]] = Append(@, e)]
      BY <2>3 DEF Ask
    <3>2. waiters'[l] = q \/ waiters'[l] = Append(q, e)
      BY <1>0, <1>1, <3>1 DEF TypeOK
    <3>3. Precedes(c, d, Append(q, e))
      <4> HIDE DEF q
      <4> QED
        BY <1>1, <2>1, Joining
    <3> QED
      BY <2>1, <3>2, <3>3
  <2>4. ASSUME CanTake(e), Take(e), pc[e] = "waiting",
               waiters' = [waiters EXCEPT ![obj[e]] = Tail(@)]
        PROVE  Precedes(c, d, waiters'[l])
    <3>1. e # c
      BY <1>0, <2>4 DEF Take, NextPc, TypeOK
    <3>2. waiters'[l] = q \/ (waiters'[l] = Tail(q) /\ Head(q) = e)
      BY <1>0, <1>1, <2>4 DEF TypeOK, CanTake
    <3> QED
      BY <1>1, <2>1, <3>1, <3>2, Serving
  <2>5. ASSUME GiveUp(e), pc[e] = "waiting"
        PROVE  Precedes(c, d, waiters'[l])
    <3>1. e # c
      BY <1>0, <2>5 DEF GiveUp, TypeOK
    <3>2. PICK i \in 1..Len(waiters[obj[e]]) :
            /\ waiters[obj[e]][i] = e
            /\ waiters' = [waiters EXCEPT
                             ![obj[e]] = RemoveAt(waiters[obj[e]], i)]
      BY <2>5 DEF GiveUp, Unqueue
    <3>3. CASE obj[e] # l
      BY <1>0, <1>1, <2>1, <3>2, <3>3 DEF TypeOK
    <3>4. CASE obj[e] = l
      <4>1. waiters'[l] = RemoveAt(q, i) /\ i \in 1..Len(q) /\ q[i] = e
        BY <1>0, <1>1, <3>2, <3>4 DEF TypeOK
      <4> QED
        BY <1>0, <1>1, <2>1, <3>1, <4>1, Quitting
    <3> QED
      BY <3>3, <3>4
  <2>6. CASE Notified(e) \/ TimedOut(e)
    <3>1. WaitOn(e) => waiters' = waiters
      BY DEF WaitOn
    <3> QED
      BY <2>2, <2>4, <2>5, <2>6, <3>1, WaiterDoes
  <2>7. ASSUME Release(e, Max(held[e])) PROVE waiters' = waiters
    BY <2>7 DEF Release, lockVars
  <2>8. Thread(e) => waiters' = waiters \/ Ask(e) \/ Notified(e)
    BY <2>7 DEF Thread, Begin, GetLock, Undo, Finish, Leave, lockVars
  <2> QED
    BY <2>2, <2>3, <2>6, <2>8
<1> QED
  BY <1>3, <1>4, <1>5 DEF Before

\* The step of a call that came after another: it stands behind it, or gives up.
LEMMA LatecomerKeepsOrder ==
  ASSUME IInv, NEW c \in Calls, NEW d \in Calls, Before(c, d),
         Thread(d) \/ TimedOut(d)
  PROVE  Before(c, d)' \/ pc'[d] = "undoing"
<1> DEFINE l == obj[c]
           q == waiters[l]
<1>0. TypeOK /\ c # d /\ pc[c] = "waiting" /\ obj[d] = l
  BY BehindAnother DEF IInv, Before
<1>1. /\ l \in Locks /\ q \in Seq(Calls) /\ q # << >>
      /\ Stands(c, q)
  BY <1>0, WaitsInLine
<1>2. CASE pc[d] = "asking"
  <2>1. Ask(d)
    BY <1>2 DEF Thread, Begin, Turn, Queued, GetLock, Notified, TimedOut,
                Undo, Finish, Leave
  <2>2. /\ waiters' = [waiters EXCEPT ![l] = Append(@, d)]
        /\ pc' = [pc EXCEPT ![d] = "waiting"] /\ obj' = obj
    BY <1>0, <1>1, <2>1 DEF Ask, AtOnce
  <2>3. waiters'[l] = Append(q, d) /\ pc'[c] = "waiting"
    BY <1>0, <1>1, <2>2 DEF TypeOK
  <2>4. Precedes(c, d, waiters'[l])
    BY <1>1, <2>3, Joining
  <2> QED
    BY <1>0, <2>2, <2>3, <2>4 DEF Before
<1>3. CASE pc[d] = "waiting"
  <2>1. Notified(d) \/ TimedOut(d)
    BY <1>3 DEF Thread, Begin, Turn, Queued, GetLock, Ask, Undo, Finish, Leave
  <2>2. ~CanTake(d)
    BY <1>0, <1>3, BehindAnother DEF CanTake
  <2>3. CASE WaitOn(d)
    BY <2>3 DEF WaitOn, Before
  <2>4. CASE GiveUp(d)
    BY <1>0, <2>4 DEF GiveUp, TypeOK
  <2> QED
    BY <2>1, <2>2, <2>3, <2>4, WaiterDoes
<1> QED
  BY <1>2, <1>3, BehindAnother

\* Calls get a lock in the order they came to it: while one waits, whoever came
\* after it stays behind it in the queue, or gives up.
THEOREM FirstComeHolds == Spec => FirstComeFirstServed
<1> DEFINE InLine == \A c, d \in Calls :
                       Before(c, d) /\ pc'[c] = "waiting" =>
                         Before(c, d)' \/ pc'[d] = "undoing"
<1>1. ASSUME IInv, [Next]_vars, NEW c \in Calls, NEW d \in Calls,
             Before(c, d), pc'[c] = "waiting"
      PROVE  Before(c, d)' \/ pc'[d] = "undoing"
  <2>1. TypeOK
    BY <1>1 DEF IInv
  <2>2. CASE UNCHANGED <<pc, obj, waiters>>
    BY <1>1, <2>2 DEF Before
  <2>3. ASSUME NEW S \in SUBSET Calls, Start(S)
        PROVE  UNCHANGED <<obj, waiters>> /\ pc'[d] = pc[d]
    <3>1. pc[d] # "new"
      BY <1>1, BehindAnother
    <3> QED
      BY <2>1, <2>3, <3>1 DEF Start, TypeOK, lockVars
  <2>4. ASSUME Abandon
        PROVE  UNCHANGED <<obj, waiters>> /\ pc'[d] = pc[d]
    <3>1. d \notin Queued
      BY <1>1, BehindAnother DEF Queued
    <3> QED
      BY <2>1, <2>4, <3>1 DEF Abandon, TypeOK, lockVars
  <2>5. CASE UNCHANGED <<obj, waiters>> /\ pc'[d] = pc[d]
    BY <1>1, <2>5 DEF Before
  <2>6. ASSUME NEW e \in Calls, Thread(e) \/ TimedOut(e)
        PROVE  Before(c, d)' \/ pc'[d] = "undoing"
    <3>1. CASE e = d
      BY <1>1, <2>6, <3>1, LatecomerKeepsOrder
    <3>2. CASE e # d
      BY <1>1, <2>6, <3>2, OthersKeepOrder
    <3> QED
      BY <3>1, <3>2
  <2>7. ASSUME Collect \/ Drained \/ Cancel \/ UNCHANGED vars
        PROVE  UNCHANGED <<pc, obj, waiters>>
    BY <2>7 DEF Collect, Drained, Cancel, vars, callVars, lockVars
  <2> QED
    BY <1>1, <2>2, <2>3, <2>4, <2>5, <2>6, <2>7 DEF Next, Loop, Quiet
<1>2. IInv /\ [Next]_vars => [InLine]_vars
  BY <1>1
<1> QED
  BY Inductive, <1>2, PTL DEF Spec, FirstComeFirstServed
=============================================================================
