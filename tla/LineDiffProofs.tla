--------------------------- MODULE LineDiffProofs ---------------------------
(***************************************************************************)
(* Theorems about the difference of a file, for files of any length over   *)
(* any lines and any padding: the difference holds both files as they are, *)
(* none changes fewer lines, the hunks stand where the counts of skipped   *)
(* lines say, and they show every change with its padding and nothing      *)
(* else.                                                                   *)
(***************************************************************************)
EXTENDS LineDiff, DataLemmas

\* The lines of a difference.
Entries ==
  [kind : {"context"}, originalLine : Nat, modifiedLine : Nat, text : Lines]
    \cup [kind : {"removed"}, originalLine : Nat, text : Lines]
    \cup [kind : {"added"}, modifiedLine : Nat, text : Lines]

\* How far the walk is; outside it the difference does not change.
Walking ==
  /\ phase \in {"split", "walk", "hunks", "done"}
  /\ original.lines \in Seq(Lines) /\ modified.lines \in Seq(Lines)
  /\ i \in Nat /\ j \in Nat
  /\ out \in Seq(Entries)
  /\ phase = "split" => i = 0 /\ j = 0 /\ out = <<>>
  /\ phase # "split" =>
       /\ a = original.lines /\ i <= Len(a)
       /\ b = modified.lines /\ j <= Len(b)

\* Every line that is kept comes off the number the table has for what is left
\* of the files.
Counting ==
  /\ phase # "split" => table = LcsLengths(a, b)
  /\ phase = "walk" => Common + table[<<i, j>>] = table[<<0, 0>>]
  /\ phase \in {"hunks", "done"} => Common = table[<<0, 0>>]

\* The open hunk ends with the padding of the change toHunks has come to and
\* starts no later than that padding, after the last closed hunk and, when
\* there is one, at a distance from it.
Opened ==
  /\ previousEnd \in Nat
  /\ hunks \in Seq([lines : Seq(Entries), skippedBefore : Int])
  /\ phase \in {"split", "walk"} => hunks = <<>> /\ at = 0
  /\ hunks = <<>> => previousEnd = 0
  /\ phase = "hunks" =>
       /\ at \in Changed
       /\ start \in 1..FirstShown(at)
       /\ end = LastShown(at)
       /\ previousEnd < start
       /\ hunks # <<>> => previousEnd + 1 < start

\* Every closed hunk stands where the counts say, and the last one ends at
\* previousEnd as long as a hunk is open.
Placed ==
  \E offset \in [DOMAIN hunks -> 0..Len(out)] :
    /\ \A h \in DOMAIN hunks :
         LET before == IF h = 1 THEN 0
                       ELSE offset[h - 1] + Len(hunks[h - 1].lines)
             last == offset[h] + Len(hunks[h].lines)
         IN  /\ offset[h] = before + hunks[h].skippedBefore
             /\ last <= Len(out)
             /\ hunks[h].lines = SubSeq(out, offset[h] + 1, last)
    /\ phase = "hunks" /\ hunks # <<>> =>
         previousEnd = offset[Len(hunks)] + Len(hunks[Len(hunks)].lines)

\* The places within Context of a change no later than n.
Near(n) ==
  {p \in DOMAIN out :
     \E c \in Changed : c <= n /\ p - Context <= c /\ c <= p + Context}

\* The lines the closed hunks hold.
Held == UNION {ToSet(hunks[h].lines) : h \in DOMAIN hunks}

\* The closed hunks and the open one hold the lines near the changes walked
\* past, and those only.
Showing ==
  /\ phase = "hunks" =>
       Held \cup {out[p] : p \in start..end} = {out[p] : p \in Near(at)}
  /\ \A h \in DOMAIN hunks : h > 1 => hunks[h].skippedBefore > 0

DiffInv ==
  /\ Walking /\ Counting /\ Opened /\ Placed /\ Showing
  /\ Rebuilds /\ HunksShowChanges
-----------------------------------------------------------------------------
(***************************************************************************)
(* The walk.                                                               *)
(***************************************************************************)

\* A step of the walk leaves the lines it has written and adds one.
LEMMA Appended ==
  ASSUME Walking, NEW e \in Entries, out' = Append(out, e)
  PROVE  /\ out' \in Seq(Entries)
         /\ Len(out) \in Nat
         /\ Len(out') = Len(out) + 1
         /\ DOMAIN out = 1..Len(out)
         /\ DOMAIN out' = 1..(Len(out) + 1)
         /\ \A p \in 1..Len(out) : out'[p] = out[p]
         /\ out'[Len(out) + 1] = e
<1>1. out \in Seq(Entries)
  BY DEF Walking
<1>2. out' \in Seq(Entries) /\ Len(out') = Len(out) + 1 /\
      (\A p \in 1..Len(out) : out'[p] = out[p]) /\ out'[Len(out) + 1] = e
  BY <1>1, AppendProperties
<1> QED
  BY <1>1, <1>2

\* A line that is not on a side leaves the side as it is, one that is on it is
\* its last.
LEMMA OnSideGrows ==
  ASSUME Walking, NEW e \in Entries, out' = Append(out, e),
         NEW kind \in {"removed", "added"}
  PROVE  OnSide(kind)' =
           IF e.kind \in {"context", kind}
           THEN OnSide(kind) \cup {Len(out) + 1} ELSE OnSide(kind)
BY Appended DEF OnSide

\* The difference starts empty.
LEMMA WalkStarts == Init => Walking /\ Rebuilds
<1> SUFFICES ASSUME Init PROVE Walking /\ Rebuilds
  OBVIOUS
<1>1. original.lines \in Seq(Lines) /\ modified.lines \in Seq(Lines)
  <2>1. original.lines \in BoundedSeq(Lines, MaxLines)
    BY DEF Init, Texts
  <2>2. modified.lines \in BoundedSeq(Lines, MaxLines)
    BY DEF Init, Texts
  <2>3. BoundedSeq(Lines, MaxLines) \subseteq Seq(Lines)
    BY SeqDef, DiffAssumption DEF BoundedSeq, SeqOf
  <2> QED
    BY <2>1, <2>2, <2>3
<1>2. out = <<>> /\ out \in Seq(Entries)
  BY EmptySeq DEF Init
<1> QED
  BY <1>1, <1>2 DEF Init, Walking, Rebuilds

\* The walk stays within the files.
LEMMA WalkKept == Walking /\ [Next]_vars => Walking'
<1> SUFFICES ASSUME Walking, [Next]_vars PROVE Walking'
  OBVIOUS
<1>1. CASE UNCHANGED vars
  BY <1>1 DEF Walking, vars, diffVars
<1>2. CASE Split
  BY <1>2, LenProperties DEF Split, Walking, SplitLines
<1>3. CASE KeepLine
  <2> DEFINE e == [kind |-> "context", originalLine |-> i + 1,
                   modifiedLine |-> j + 1, text |-> a[i + 1]]
  <2>1. a[i + 1] \in Lines /\ Len(a) \in Nat /\ Len(b) \in Nat
    BY <1>3, LenProperties, ElementOfSeq DEF KeepLine, InBoth, Walking
  <2>2. e \in Entries
    BY <2>1 DEF Entries, Walking
  <2>3. out' \in Seq(Entries)
    BY <1>3, <2>2, Appended DEF KeepLine
  <2> QED
    BY <1>3, <2>1, <2>3 DEF KeepLine, InBoth, Walking
<1>4. CASE RemoveLine
  <2> DEFINE e == [kind |-> "removed", originalLine |-> i + 1,
                   text |-> a[i + 1]]
  <2>1. a[i + 1] \in Lines /\ Len(a) \in Nat /\ Len(b) \in Nat
    BY <1>4, LenProperties, ElementOfSeq DEF RemoveLine, Walking
  <2>2. e \in Entries
    BY <2>1 DEF Entries, Walking
  <2>3. out' \in Seq(Entries)
    BY <1>4, <2>2, Appended DEF RemoveLine
  <2> QED
    BY <1>4, <2>1, <2>3 DEF RemoveLine, Walking
<1>5. CASE AddLine
  <2> DEFINE e == [kind |-> "added", modifiedLine |-> j + 1,
                   text |-> b[j + 1]]
  <2>1. b[j + 1] \in Lines /\ Len(a) \in Nat /\ Len(b) \in Nat
    BY <1>5, LenProperties, ElementOfSeq DEF AddLine, Walking
  <2>2. e \in Entries
    BY <2>1 DEF Entries, Walking
  <2>3. out' \in Seq(Entries)
    BY <1>5, <2>2, Appended DEF AddLine
  <2> QED
    BY <1>5, <2>1, <2>3 DEF AddLine, Walking
<1>6. CASE Diffed
  BY <1>6 DEF Diffed, Walking, diffVars, hunkVars
<1>7. CASE Extend
  BY <1>7 DEF Extend, Walking, diffVars
<1>8. CASE Break
  BY <1>8 DEF Break, Walking, diffVars
<1>9. CASE CloseLast
  BY <1>9 DEF CloseLast, Walking, diffVars
<1> QED
  BY <1>1, <1>2, <1>3, <1>4, <1>5, <1>6, <1>7, <1>8, <1>9 DEF Next

\* A line that is added is not the original's, any other is its next one.
LEMMA OriginalSide ==
  ASSUME Walking, Rebuilds, phase # "split", original' = original,
         NEW e \in Entries, out' = Append(out, e),
         \/ /\ e.kind \in {"context", "removed"}
            /\ e.originalLine = i + 1
            /\ e.text = original.lines[i + 1]
            /\ i' = i + 1
         \/ /\ e.kind = "added"
            /\ i' = i
  PROVE  /\ {<<out[p].originalLine, out[p].text>> : p \in OnSide("removed")}' =
               {<<k, original.lines[k]>> : k \in 1..i}'
         /\ (\A p, q \in OnSide("removed") :
               p < q => out[p].originalLine < out[q].originalLine)'
<1> DEFINE Pairs(k) == <<k, original.lines[k]>>
           Shown(p) == <<out[p].originalLine, out[p].text>>
           Next1(p) == <<out'[p].originalLine, out'[p].text>>
           S == OnSide("removed")
           n == Len(out) + 1
<1>1. /\ {Shown(p) : p \in S} = {Pairs(k) : k \in 1..i}
      /\ \A p, q \in S : p < q => out[p].originalLine < out[q].originalLine
  BY DEF Rebuilds
<1>2. /\ Len(out) \in Nat /\ i \in Nat
      /\ \A p \in 1..Len(out) : out'[p] = out[p]
      /\ out'[n] = e
  BY Appended DEF Walking
<1>3. \A p \in S : p \in 1..Len(out) /\ out'[p] = out[p] /\ p # n
  BY <1>2, Appended DEF OnSide
<1>4. ASSUME NEW p \in S PROVE out[p].originalLine \in 1..i
  <2>1. PICK k \in 1..i : Shown(p) = Pairs(k)
    BY <1>1, Zenon
  <2> QED
    BY <2>1
<1>5. CASE e.kind = "added"
  <2>1. OnSide("removed")' = S /\ i' = i
    BY <1>5, OnSideGrows
  <2> HIDE DEF S
  <2>2. {Next1(p) : p \in S} = {Shown(p) : p \in S}
    BY <1>3
  <2>3. \A p, q \in S : p < q => out'[p].originalLine < out'[q].originalLine
    BY <1>1, <1>3
  <2> QED
    BY <1>1, <2>1, <2>2, <2>3
<1>6. CASE e.kind \in {"context", "removed"}
  <2>1. OnSide("removed")' = S \cup {n} /\ i' = i + 1
    BY <1>6, OnSideGrows
  <2>2. /\ out'[n].originalLine = i + 1
        /\ out'[n].text = original.lines[i + 1]
    BY <1>2, <1>6
  <2>3. Next1(n) = Pairs(i + 1)
    BY <2>2
  <2>4. 1..(i + 1) = (1..i) \cup {i + 1}
    BY <1>2
  <2>5. n \in Int /\ \A p \in S : p < n
    BY <1>2, <1>3
  <2> HIDE DEF S, n
  <2>6. {Next1(p) : p \in S} = {Shown(p) : p \in S}
    BY <1>3
  <2>7. {Next1(p) : p \in S \cup {n}} = {Next1(p) : p \in S} \cup {Next1(n)}
    <3> HIDE DEF Next1
    <3> QED
      OBVIOUS
  <2>8. {Pairs(k) : k \in (1..i) \cup {i + 1}} =
          {Pairs(k) : k \in 1..i} \cup {Pairs(i + 1)}
    <3> HIDE DEF Pairs
    <3> QED
      OBVIOUS
  <2>9. {Next1(p) : p \in S \cup {n}} = {Pairs(k) : k \in 1..(i + 1)}
    <3> HIDE DEF Next1, Pairs, Shown
    <3> QED
      BY <1>1, <2>3, <2>4, <2>6, <2>7, <2>8
  <2>10. ASSUME NEW p \in S \cup {n}, NEW q \in S \cup {n}, p < q
         PROVE  out'[p].originalLine < out'[q].originalLine
    <3>1. p \in S
      BY <1>3, <2>5, <2>10
    <3>2. CASE q \in S
      BY <1>1, <1>3, <2>10, <3>1, <3>2
    <3>3. CASE q = n
      <4>1. out[p].originalLine \in 1..i /\ out'[p] = out[p]
        BY <1>3, <1>4, <3>1
      <4>2. out'[q].originalLine = i + 1
        BY <2>2, <3>3
      <4> QED
        BY <1>2, <4>1, <4>2
    <3> QED
      BY <3>2, <3>3
  <2> QED
    BY <2>1, <2>9, <2>10
<1> QED
  BY <1>5, <1>6

\* A line that is removed is not the modified file's, any other is its next one.
LEMMA ModifiedSide ==
  ASSUME Walking, Rebuilds, phase # "split", modified' = modified,
         NEW e \in Entries, out' = Append(out, e),
         \/ /\ e.kind \in {"context", "added"}
            /\ e.modifiedLine = j + 1
            /\ e.text = modified.lines[j + 1]
            /\ j' = j + 1
         \/ /\ e.kind = "removed"
            /\ j' = j
  PROVE  /\ {<<out[p].modifiedLine, out[p].text>> : p \in OnSide("added")}' =
               {<<k, modified.lines[k]>> : k \in 1..j}'
         /\ (\A p, q \in OnSide("added") :
               p < q => out[p].modifiedLine < out[q].modifiedLine)'
<1> DEFINE Pairs(k) == <<k, modified.lines[k]>>
           Shown(p) == <<out[p].modifiedLine, out[p].text>>
           Next1(p) == <<out'[p].modifiedLine, out'[p].text>>
           S == OnSide("added")
           n == Len(out) + 1
<1>1. /\ {Shown(p) : p \in S} = {Pairs(k) : k \in 1..j}
      /\ \A p, q \in S : p < q => out[p].modifiedLine < out[q].modifiedLine
  BY DEF Rebuilds
<1>2. /\ Len(out) \in Nat /\ j \in Nat
      /\ \A p \in 1..Len(out) : out'[p] = out[p]
      /\ out'[n] = e
  BY Appended DEF Walking
<1>3. \A p \in S : p \in 1..Len(out) /\ out'[p] = out[p] /\ p # n
  BY <1>2, Appended DEF OnSide
<1>4. ASSUME NEW p \in S PROVE out[p].modifiedLine \in 1..j
  <2>1. PICK k \in 1..j : Shown(p) = Pairs(k)
    BY <1>1, Zenon
  <2> QED
    BY <2>1
<1>5. CASE e.kind = "removed"
  <2>1. OnSide("added")' = S /\ j' = j
    BY <1>5, OnSideGrows
  <2> HIDE DEF S
  <2>2. {Next1(p) : p \in S} = {Shown(p) : p \in S}
    BY <1>3
  <2>3. \A p, q \in S : p < q => out'[p].modifiedLine < out'[q].modifiedLine
    BY <1>1, <1>3
  <2> QED
    BY <1>1, <2>1, <2>2, <2>3
<1>6. CASE e.kind \in {"context", "added"}
  <2>1. OnSide("added")' = S \cup {n} /\ j' = j + 1
    BY <1>6, OnSideGrows
  <2>2. /\ out'[n].modifiedLine = j + 1
        /\ out'[n].text = modified.lines[j + 1]
    BY <1>2, <1>6
  <2>3. Next1(n) = Pairs(j + 1)
    BY <2>2
  <2>4. 1..(j + 1) = (1..j) \cup {j + 1}
    BY <1>2
  <2>5. n \in Int /\ \A p \in S : p < n
    BY <1>2, <1>3
  <2> HIDE DEF S, n
  <2>6. {Next1(p) : p \in S} = {Shown(p) : p \in S}
    BY <1>3
  <2>7. {Next1(p) : p \in S \cup {n}} = {Next1(p) : p \in S} \cup {Next1(n)}
    <3> HIDE DEF Next1
    <3> QED
      OBVIOUS
  <2>8. {Pairs(k) : k \in (1..j) \cup {j + 1}} =
          {Pairs(k) : k \in 1..j} \cup {Pairs(j + 1)}
    <3> HIDE DEF Pairs
    <3> QED
      OBVIOUS
  <2>9. {Next1(p) : p \in S \cup {n}} = {Pairs(k) : k \in 1..(j + 1)}
    <3> HIDE DEF Next1, Pairs, Shown
    <3> QED
      BY <1>1, <2>3, <2>4, <2>6, <2>7, <2>8
  <2>10. ASSUME NEW p \in S \cup {n}, NEW q \in S \cup {n}, p < q
         PROVE  out'[p].modifiedLine < out'[q].modifiedLine
    <3>1. p \in S
      BY <1>3, <2>5, <2>10
    <3>2. CASE q \in S
      BY <1>1, <1>3, <2>10, <3>1, <3>2
    <3>3. CASE q = n
      <4>1. out[p].modifiedLine \in 1..j /\ out'[p] = out[p]
        BY <1>3, <1>4, <3>1
      <4>2. out'[q].modifiedLine = j + 1
        BY <2>2, <3>3
      <4> QED
        BY <1>2, <4>1, <4>2
    <3> QED
      BY <3>2, <3>3
  <2> QED
    BY <2>1, <2>9, <2>10
<1> QED
  BY <1>5, <1>6

\* Each step of the walk writes the next line of the sides it advances on.
LEMMA RebuildsKept == Walking /\ Rebuilds /\ [Next]_vars => Rebuilds'
<1> SUFFICES ASSUME Walking, Rebuilds, [Next]_vars PROVE Rebuilds'
  OBVIOUS
<1>1. CASE UNCHANGED vars
  BY <1>1 DEF Rebuilds, OnSide, vars, diffVars
<1>2. CASE Split
  BY <1>2 DEF Split, Walking, Rebuilds, OnSide
<1>3. CASE KeepLine
  <2> DEFINE e == [kind |-> "context", originalLine |-> i + 1,
                   modifiedLine |-> j + 1, text |-> a[i + 1]]
  <2>1. i \in Nat /\ j \in Nat /\ Len(a) \in Nat /\ Len(b) \in Nat
    BY <1>3, LenProperties DEF KeepLine, Walking
  <2>2. e \in Entries
    BY <1>3, <2>1, ElementOfSeq DEF KeepLine, Walking, InBoth, Entries
  <2>3. /\ out' = Append(out, e) /\ phase # "split" /\ phase' # "split"
        /\ original' = original /\ modified' = modified
    BY <1>3 DEF KeepLine
  <2>4. a = original.lines /\ b = modified.lines
    BY <2>3 DEF Walking
  <2>5. /\ e.originalLine = i + 1 /\ e.text = original.lines[i + 1]
        /\ i' = i + 1 /\ e.kind = "context"
        /\ e.modifiedLine = j + 1 /\ e.text = modified.lines[j + 1]
        /\ j' = j + 1
    BY <1>3, <2>4 DEF KeepLine
  <2> HIDE DEF e
  <2> QED
    BY <2>2, <2>3, <2>5, OriginalSide, ModifiedSide DEF Rebuilds
<1>4. CASE RemoveLine
  <2> DEFINE e == [kind |-> "removed", originalLine |-> i + 1,
                   text |-> a[i + 1]]
  <2>1. i \in Nat /\ j \in Nat /\ Len(a) \in Nat /\ Len(b) \in Nat
    BY <1>4, LenProperties DEF RemoveLine, Walking
  <2>2. e \in Entries
    BY <1>4, <2>1, ElementOfSeq DEF RemoveLine, Walking, InBoth, Entries
  <2>3. /\ out' = Append(out, e) /\ phase # "split" /\ phase' # "split"
        /\ original' = original /\ modified' = modified
    BY <1>4 DEF RemoveLine
  <2>4. a = original.lines /\ b = modified.lines
    BY <2>3 DEF Walking
  <2>5. /\ e.originalLine = i + 1 /\ e.text = original.lines[i + 1]
        /\ i' = i + 1
        /\ e.kind = "removed" /\ j' = j
    BY <1>4, <2>4 DEF RemoveLine
  <2> HIDE DEF e
  <2> QED
    BY <2>2, <2>3, <2>5, OriginalSide, ModifiedSide DEF Rebuilds
<1>5. CASE AddLine
  <2> DEFINE e == [kind |-> "added", modifiedLine |-> j + 1,
                   text |-> b[j + 1]]
  <2>1. i \in Nat /\ j \in Nat /\ Len(a) \in Nat /\ Len(b) \in Nat
    BY <1>5, LenProperties DEF AddLine, Walking
  <2>2. e \in Entries
    BY <1>5, <2>1, ElementOfSeq DEF AddLine, Walking, InBoth, Entries
  <2>3. /\ out' = Append(out, e) /\ phase # "split" /\ phase' # "split"
        /\ original' = original /\ modified' = modified
    BY <1>5 DEF AddLine
  <2>4. a = original.lines /\ b = modified.lines
    BY <2>3 DEF Walking
  <2>5. /\ e.kind = "added" /\ i' = i
        /\ e.modifiedLine = j + 1 /\ e.text = modified.lines[j + 1]
        /\ j' = j + 1
    BY <1>5, <2>4 DEF AddLine
  <2> HIDE DEF e
  <2> QED
    BY <2>2, <2>3, <2>5, OriginalSide, ModifiedSide DEF Rebuilds
<1>6. CASE Diffed
  BY <1>6 DEF Diffed, Rebuilds, OnSide, diffVars
<1>7. CASE Extend
  BY <1>7 DEF Extend, Rebuilds, OnSide, diffVars
<1>8. CASE Break
  BY <1>8 DEF Break, Rebuilds, OnSide, diffVars
<1>9. CASE CloseLast
  BY <1>9 DEF CloseLast, Rebuilds, OnSide, diffVars
<1> QED
  BY <1>1, <1>2, <1>3, <1>4, <1>5, <1>6, <1>7, <1>8, <1>9 DEF Next
-----------------------------------------------------------------------------
(***************************************************************************)
(* The table.                                                              *)
(***************************************************************************)

\* What lcsLengths writes in an entry, read off the entries after it.
Entry(L, s, t, x, y) ==
  IF x = Len(s) \/ y = Len(t) THEN 0
  ELSE IF s[x + 1] = t[y + 1] THEN L[<<x + 1, y + 1>>] + 1
  ELSE IF L[<<x + 1, y>>] > L[<<x, y + 1>>]
       THEN L[<<x + 1, y>>] ELSE L[<<x, y + 1>>]

\* How many lines are after an entry.
After(s, t, x, y) == (Len(s) - x) + (Len(t) - y)

\* An entry depends on entries with fewer lines after them only.
LEMMA EntryLooksAhead ==
  ASSUME NEW s, NEW t, Len(s) \in Nat, Len(t) \in Nat,
         NEW x \in 0..Len(s), NEW y \in 0..Len(t), NEW f, NEW g,
         \A u \in 0..Len(s) : \A v \in 0..Len(t) :
           After(s, t, u, v) < After(s, t, x, y) =>
             f[<<u, v>>] = g[<<u, v>>]
  PROVE  Entry(f, s, t, x, y) = Entry(g, s, t, x, y)
<1>1. CASE x = Len(s) \/ y = Len(t)
  BY <1>1 DEF Entry
<1>2. CASE x # Len(s) /\ y # Len(t)
  <2>1. x + 1 \in 0..Len(s) /\ y + 1 \in 0..Len(t)
    BY <1>2
  <2>2. /\ After(s, t, x + 1, y) < After(s, t, x, y)
        /\ After(s, t, x, y + 1) < After(s, t, x, y)
        /\ After(s, t, x + 1, y + 1) < After(s, t, x, y)
    BY DEF After
  <2>3. /\ f[<<x + 1, y>>] = g[<<x + 1, y>>]
        /\ f[<<x, y + 1>>] = g[<<x, y + 1>>]
        /\ f[<<x + 1, y + 1>>] = g[<<x + 1, y + 1>>]
    BY <2>1, <2>2
  <2> QED
    BY <1>2, <2>3 DEF Entry
<1> QED
  BY <1>1, <1>2

\* A table exists: one that is right wherever at most k lines follow can be
\* filled where one line more does, so there is no least k without one.
LEMMA TableExists ==
  ASSUME NEW s, NEW t, Len(s) \in Nat, Len(t) \in Nat
  PROVE  \E f : \A x \in 0..Len(s) : \A y \in 0..Len(t) :
                  f[<<x, y>>] = Entry(f, s, t, x, y)
<1> DEFINE S == (0..Len(s)) \X (0..Len(t))
           Right(f, k) == \A x \in 0..Len(s) : \A y \in 0..Len(t) :
                            After(s, t, x, y) <= k =>
                              f[<<x, y>>] = Entry(f, s, t, x, y)
           None == {k \in Nat : ~ \E f : Right(f, k)}
<1> HIDE DEF Right
<1>0. \A x \in 0..Len(s) : \A y \in 0..Len(t) : After(s, t, x, y) \in Nat
  BY DEF After
<1>1. None = {}
  <2>1. SUFFICES ASSUME None # {} PROVE FALSE
    OBVIOUS
  <2> DEFINE k == Min(None)
  <2>2. k \in None /\ \A l \in None : k <= l
    BY <2>1, NatMin
  <2>8. \A l \in Nat : l < k => \E f : Right(f, l)
    <3> HIDE DEF k
    <3> QED
      BY <2>2
  <2> HIDE DEF k
  <2>3. k \in Nat /\ ~ \E f : Right(f, k)
    BY <2>2
  <2>4. \E f : \A x \in 0..Len(s) : \A y \in 0..Len(t) :
                 After(s, t, x, y) < k => f[<<x, y>>] = Entry(f, s, t, x, y)
    <3>1. CASE k = 0
      <4>1. \A x \in 0..Len(s) : \A y \in 0..Len(t) :
              ~ (After(s, t, x, y) < k)
        BY <1>0, <3>1
      <4> QED
        BY <4>1, Zenon
    <3>2. CASE k > 0
      <4>1. k - 1 \in Nat /\ k - 1 < k
        BY <2>3, <3>2
      <4>2. PICK f : Right(f, k - 1)
        BY <2>8, <4>1
      <4>3. \A x \in 0..Len(s) : \A y \in 0..Len(t) :
              After(s, t, x, y) < k => After(s, t, x, y) <= k - 1
        BY <1>0, <2>3
      <4> QED
        BY <4>2, <4>3, Zenon DEF Right
    <3>3. k = 0 \/ k > 0
      BY <2>3
    <3> QED
      BY <3>1, <3>2, <3>3, Zenon
  <2>5. PICK f : \A x \in 0..Len(s) : \A y \in 0..Len(t) :
                   After(s, t, x, y) < k =>
                     f[<<x, y>>] = Entry(f, s, t, x, y)
    BY <2>4
  <2> DEFINE g == [p \in S |-> IF After(s, t, p[1], p[2]) < k THEN f[p]
                               ELSE Entry(f, s, t, p[1], p[2])]
  <2>6. \A x \in 0..Len(s) : \A y \in 0..Len(t) :
          g[<<x, y>>] = IF After(s, t, x, y) < k THEN f[<<x, y>>]
                        ELSE Entry(f, s, t, x, y)
    OBVIOUS
  <2> HIDE DEF g
  <2>7. ASSUME NEW x \in 0..Len(s), NEW y \in 0..Len(t),
               After(s, t, x, y) <= k
        PROVE  g[<<x, y>>] = Entry(g, s, t, x, y)
    <3>1. g[<<x, y>>] = Entry(f, s, t, x, y)
      BY <2>5, <2>6
    <3>2. \A u \in 0..Len(s) : \A v \in 0..Len(t) :
            After(s, t, u, v) < After(s, t, x, y) =>
              g[<<u, v>>] = f[<<u, v>>]
      <4>1. \A u \in 0..Len(s) : \A v \in 0..Len(t) :
              After(s, t, u, v) < After(s, t, x, y) => After(s, t, u, v) < k
        BY <2>3, <2>7 DEF After
      <4> QED
        BY <2>6, <4>1
    <3>3. Entry(f, s, t, x, y) = Entry(g, s, t, x, y)
      BY <3>2, EntryLooksAhead
    <3> QED
      BY <3>1, <3>3
  <2> QED
    BY <2>3, <2>7 DEF Right
<1>2. Len(s) + Len(t) \in Nat
  OBVIOUS
<1>3. PICK f : Right(f, Len(s) + Len(t))
  BY <1>1, <1>2
<1>4. \A x \in 0..Len(s) : \A y \in 0..Len(t) :
        After(s, t, x, y) <= Len(s) + Len(t)
  BY DEF After
<1> QED
  BY <1>3, <1>4 DEF Right

\* So lcsLengths is one.
LEMMA TableIs ==
  ASSUME NEW s, NEW t, Len(s) \in Nat, Len(t) \in Nat
  PROVE  \A x \in 0..Len(s) : \A y \in 0..Len(t) :
           LcsLengths(s, t)[<<x, y>>] = Entry(LcsLengths(s, t), s, t, x, y)
<1> DEFINE S == (0..Len(s)) \X (0..Len(t))
           Fill(f) ==
             [p \in S |->
                IF p[1] = Len(s) \/ p[2] = Len(t) THEN 0
                ELSE IF s[p[1] + 1] = t[p[2] + 1]
                     THEN f[<<p[1] + 1, p[2] + 1>>] + 1
                ELSE LET down  == f[<<p[1] + 1, p[2]>>]
                         right == f[<<p[1], p[2] + 1>>]
                     IN  IF down > right THEN down ELSE right]
           L == CHOOSE f : f = Fill(f)
<1>1. \A f : \A x \in 0..Len(s) : \A y \in 0..Len(t) :
        Fill(f)[<<x, y>>] = Entry(f, s, t, x, y)
  BY DEF Entry
<1>2. \E f : f = Fill(f)
  <2>1. PICK f : \A x \in 0..Len(s) : \A y \in 0..Len(t) :
                   f[<<x, y>>] = Entry(f, s, t, x, y)
    BY TableExists
  <2> DEFINE g == [p \in S |-> f[p]]
  <2>2. \A x \in 0..Len(s) : \A y \in 0..Len(t) : g[<<x, y>>] = f[<<x, y>>]
    OBVIOUS
  <2> HIDE DEF g, Fill
  <2>3. \A x \in 0..Len(s) : \A y \in 0..Len(t) :
          g[<<x, y>>] = Fill(g)[<<x, y>>]
    <3>1. ASSUME NEW x \in 0..Len(s), NEW y \in 0..Len(t)
          PROVE  Entry(f, s, t, x, y) = Entry(g, s, t, x, y)
      BY <2>2, EntryLooksAhead
    <3> QED
      BY <1>1, <2>1, <2>2, <3>1
  <2>4. \A p \in S : g[p] = Fill(g)[p]
    BY <2>3
  <2>5. g = Fill(g)
    BY <2>4 DEF g, Fill
  <2> QED
    BY <2>5
<1>3. L = Fill(L)
  <2> HIDE DEF Fill
  <2> QED
    BY <1>2
<1>4. LcsLengths(s, t) = L
  BY DEF LcsLengths
<1> HIDE DEF L, Fill
<1> QED
  BY <1>1, <1>3, <1>4

\* No entry is negative: one with a fewest lines after it would look ahead to
\* one with fewer.
LEMMA TableCounts ==
  ASSUME NEW s, NEW t, Len(s) \in Nat, Len(t) \in Nat
  PROVE  \A x \in 0..Len(s) : \A y \in 0..Len(t) :
           LcsLengths(s, t)[<<x, y>>] \in Nat
<1> DEFINE L == LcsLengths(s, t)
           Counts(k) == \A x \in 0..Len(s) : \A y \in 0..Len(t) :
                          After(s, t, x, y) = k => L[<<x, y>>] \in Nat
           None == {k \in Nat : ~Counts(k)}
<1>1. \A x \in 0..Len(s) : \A y \in 0..Len(t) : After(s, t, x, y) \in Nat
  BY DEF After
<1>2. \A x \in 0..Len(s) : \A y \in 0..Len(t) :
        L[<<x, y>>] = Entry(L, s, t, x, y)
  BY TableIs
<1> HIDE DEF L, Counts
<1>3. None = {}
  <2>1. SUFFICES ASSUME None # {} PROVE FALSE
    OBVIOUS
  <2> DEFINE k == Min(None)
  <2>2. k \in None /\ \A l \in None : k <= l
    BY <2>1, NatMin
  <2> HIDE DEF k
  <2>3. k \in Nat /\ ~Counts(k) /\ \A l \in Nat : l < k => Counts(l)
    BY <2>2
  <2>4. ASSUME NEW x \in 0..Len(s), NEW y \in 0..Len(t), After(s, t, x, y) = k
        PROVE  L[<<x, y>>] \in Nat
    <3>0. L[<<x, y>>] = Entry(L, s, t, x, y)
      BY <1>2
    <3>1. CASE x = Len(s) \/ y = Len(t)
      BY <3>0, <3>1 DEF Entry
    <3>2. CASE x # Len(s) /\ y # Len(t)
      <4>1. x + 1 \in 0..Len(s) /\ y + 1 \in 0..Len(t)
        BY <3>2
      <4>2. /\ After(s, t, x + 1, y) \in Nat /\ After(s, t, x + 1, y) < k
            /\ After(s, t, x, y + 1) \in Nat /\ After(s, t, x, y + 1) < k
            /\ After(s, t, x + 1, y + 1) \in Nat
            /\ After(s, t, x + 1, y + 1) < k
        BY <1>1, <2>4, <4>1 DEF After
      <4>3. /\ L[<<x + 1, y>>] \in Nat
            /\ L[<<x, y + 1>>] \in Nat
            /\ L[<<x + 1, y + 1>>] \in Nat
        BY <2>3, <4>1, <4>2 DEF Counts
      <4> QED
        BY <3>0, <3>2, <4>3 DEF Entry
    <3> QED
      BY <3>1, <3>2
  <2> QED
    BY <2>3, <2>4 DEF Counts
<1> QED
  BY <1>1, <1>3 DEF Counts, L

\* The places D after x stand, at f, after y in the same order and with the
\* same lines.
Fits(s, t, D, f, x, y) ==
  /\ D \subseteq (x + 1)..Len(s)
  /\ \A p \in D : f[p] \in (y + 1)..Len(t) /\ s[p] = t[f[p]]
  /\ \A p, q \in D : p < q => f[p] < f[q]

\* At most one of the places stands at the first line of a file.
LEMMA FitsBeyond ==
  ASSUME NEW s, NEW t, Len(s) \in Nat, Len(t) \in Nat,
         NEW x \in 0..Len(s), NEW y \in 0..Len(t), x # Len(s), y # Len(t),
         NEW D, NEW f, Fits(s, t, D, f, x, y)
  PROVE  /\ s[x + 1] = t[y + 1] =>
              \/ Fits(s, t, D, f, x + 1, y + 1)
              \/ \E p \in D : Fits(s, t, D \ {p}, f, x + 1, y + 1)
         /\ s[x + 1] # t[y + 1] =>
              Fits(s, t, D, f, x + 1, y) \/ Fits(s, t, D, f, x, y + 1)
<1>1. /\ \A p \in D : p \in Int /\ f[p] \in Int
      /\ \A p \in D : p # x + 1 => p \in (x + 1 + 1)..Len(s)
      /\ \A p \in D : f[p] # y + 1 => f[p] \in (y + 1 + 1)..Len(t)
  <2>1. \A p \in D : p \in (x + 1)..Len(s) /\ f[p] \in (y + 1)..Len(t)
    BY DEF Fits
  <2>2. ASSUME NEW p \in D
        PROVE  /\ p \in Int /\ f[p] \in Int
               /\ p # x + 1 => p \in (x + 1 + 1)..Len(s)
               /\ f[p] # y + 1 => f[p] \in (y + 1 + 1)..Len(t)
    BY <2>1
  <2> QED
    BY <2>2
<1>2. \A p, q \in D : p # q => f[p] # f[q]
  BY <1>1 DEF Fits
<1>3. \A p \in D : x + 1 \in D /\ p # x + 1 => f[p] # y + 1
  <2>1. SUFFICES ASSUME NEW p \in D, x + 1 \in D, p # x + 1
                 PROVE  f[p] # y + 1
    OBVIOUS
  <2>2. x + 1 < p
    BY <1>1, <2>1
  <2>3. f[x + 1] < f[p] /\ f[x + 1] \in (y + 1)..Len(t)
    BY <2>1, <2>2 DEF Fits
  <2> QED
    BY <2>3, <1>1
<1>4. ASSUME s[x + 1] = t[y + 1]
      PROVE  \/ Fits(s, t, D, f, x + 1, y + 1)
             \/ \E p \in D : Fits(s, t, D \ {p}, f, x + 1, y + 1)
  <2>1. CASE x + 1 \in D
    <3>1. \A p \in D \ {x + 1} : p # x + 1 /\ f[p] # y + 1
      BY <1>3, <2>1
    <3>2. Fits(s, t, D \ {x + 1}, f, x + 1, y + 1)
      BY <1>1, <3>1 DEF Fits
    <3> QED
      BY <2>1, <3>2
  <2>2. CASE x + 1 \notin D /\ \E p \in D : f[p] = y + 1
    <3>1. PICK p \in D : f[p] = y + 1
      BY <2>2
    <3>2. \A q \in D \ {p} : q # x + 1 /\ f[q] # y + 1
      BY <1>2, <2>2, <3>1
    <3>3. Fits(s, t, D \ {p}, f, x + 1, y + 1)
      BY <1>1, <3>2 DEF Fits
    <3> QED
      BY <3>3
  <2>3. CASE x + 1 \notin D /\ \A p \in D : f[p] # y + 1
    <3>1. \A p \in D : p # x + 1
      BY <2>3
    <3>2. Fits(s, t, D, f, x + 1, y + 1)
      BY <1>1, <2>3, <3>1 DEF Fits
    <3> QED
      BY <3>2
  <2> QED
    BY <2>1, <2>2, <2>3
<1>5. ASSUME s[x + 1] # t[y + 1]
      PROVE  Fits(s, t, D, f, x + 1, y) \/ Fits(s, t, D, f, x, y + 1)
  <2>1. CASE x + 1 \in D
    <3>1. f[x + 1] # y + 1
      BY <1>5, <2>1 DEF Fits
    <3>2. \A p \in D : f[p] # y + 1
      BY <1>3, <2>1, <3>1
    <3> QED
      BY <1>1, <3>2 DEF Fits
  <2>2. CASE x + 1 \notin D
    <3>1. \A p \in D : p # x + 1
      BY <2>2
    <3> QED
      BY <1>1, <3>1 DEF Fits
  <2> QED
    BY <2>1, <2>2
<1> QED
  BY <1>4, <1>5

\* No common subsequence of what follows an entry is longer than it says: one
\* with a fewest lines after it would leave a longer one further on.
LEMMA TableBounds ==
  ASSUME NEW s, NEW t, Len(s) \in Nat, Len(t) \in Nat
  PROVE  \A x \in 0..Len(s) : \A y \in 0..Len(t) : \A D : \A f :
           Fits(s, t, D, f, x, y) =>
             IsFiniteSet(D) /\ Cardinality(D) <= LcsLengths(s, t)[<<x, y>>]
<1> DEFINE L == LcsLengths(s, t)
           Bounds(k) ==
             \A x \in 0..Len(s) : \A y \in 0..Len(t) :
               After(s, t, x, y) = k =>
                 \A D : \A f : Fits(s, t, D, f, x, y) =>
                                 Cardinality(D) <= L[<<x, y>>]
           None == {k \in Nat : ~Bounds(k)}
<1>1. \A x \in 0..Len(s) : \A y \in 0..Len(t) : After(s, t, x, y) \in Nat
  BY DEF After
<1>2. \A x \in 0..Len(s) : \A y \in 0..Len(t) :
        L[<<x, y>>] = Entry(L, s, t, x, y) /\ L[<<x, y>>] \in Nat
  BY TableIs, TableCounts
<1>3. ASSUME NEW x \in 0..Len(s), NEW y \in 0..Len(t), NEW D, NEW f,
             Fits(s, t, D, f, x, y)
      PROVE  IsFiniteSet(D) /\ Cardinality(D) \in Nat
  <2>1. IsFiniteSet((x + 1)..Len(s))
    BY FS_Interval
  <2>2. IsFiniteSet(D)
    BY <1>3, <2>1, FS_Subset DEF Fits
  <2> QED
    BY <2>2, FS_CardinalityType
<1> HIDE DEF L, Bounds
<1>4. None = {}
  <2>1. SUFFICES ASSUME None # {} PROVE FALSE
    OBVIOUS
  <2> DEFINE k == Min(None)
  <2>2. k \in None /\ \A l \in None : k <= l
    BY <2>1, NatMin
  <2> HIDE DEF k
  <2>3. k \in Nat /\ ~Bounds(k) /\ \A l \in Nat : l < k => Bounds(l)
    BY <2>2
  <2>4. ASSUME NEW x \in 0..Len(s), NEW y \in 0..Len(t),
               After(s, t, x, y) = k, NEW D, NEW f, Fits(s, t, D, f, x, y)
        PROVE  Cardinality(D) <= L[<<x, y>>]
    <3>0. L[<<x, y>>] = Entry(L, s, t, x, y) /\ L[<<x, y>>] \in Nat
      BY <1>2
    <3>1. CASE x = Len(s) \/ y = Len(t)
      <4>1. D = {}
        BY <2>4, <3>1 DEF Fits
      <4>2. L[<<x, y>>] = 0
        BY <3>0, <3>1 DEF Entry
      <4> QED
        BY <4>1, <4>2, FS_EmptySet
    <3>2. CASE x # Len(s) /\ y # Len(t)
      <4>1. x + 1 \in 0..Len(s) /\ y + 1 \in 0..Len(t)
        BY <3>2
      <4>2. /\ After(s, t, x + 1, y) \in Nat /\ After(s, t, x + 1, y) < k
            /\ After(s, t, x, y + 1) \in Nat /\ After(s, t, x, y + 1) < k
            /\ After(s, t, x + 1, y + 1) \in Nat
            /\ After(s, t, x + 1, y + 1) < k
        BY <1>1, <2>4, <4>1 DEF After
      <4>3. \A E : /\ Fits(s, t, E, f, x + 1, y) =>
                        Cardinality(E) <= L[<<x + 1, y>>]
                   /\ Fits(s, t, E, f, x, y + 1) =>
                        Cardinality(E) <= L[<<x, y + 1>>]
                   /\ Fits(s, t, E, f, x + 1, y + 1) =>
                        Cardinality(E) <= L[<<x + 1, y + 1>>]
        BY <2>3, <4>1, <4>2 DEF Bounds
      <4>4. /\ L[<<x + 1, y>>] \in Nat /\ L[<<x, y + 1>>] \in Nat
            /\ L[<<x + 1, y + 1>>] \in Nat
        BY <1>2, <4>1
      <4>5. IsFiniteSet(D) /\ Cardinality(D) \in Nat
        BY <1>3, <2>4
      <4>6. CASE s[x + 1] = t[y + 1]
        <5>1. L[<<x, y>>] = L[<<x + 1, y + 1>>] + 1
          BY <3>0, <3>2, <4>6 DEF Entry
        <5>2. CASE Fits(s, t, D, f, x + 1, y + 1)
          <6>1. Cardinality(D) <= L[<<x + 1, y + 1>>]
            BY <4>3, <5>2
          <6> QED
            BY <4>4, <4>5, <5>1, <6>1
        <5>3. CASE \E p \in D : Fits(s, t, D \ {p}, f, x + 1, y + 1)
          <6>1. PICK p \in D : Fits(s, t, D \ {p}, f, x + 1, y + 1)
            BY <5>3
          <6>2. Cardinality(D \ {p}) <= L[<<x + 1, y + 1>>]
            BY <4>3, <6>1
          <6>3. Cardinality(D \ {p}) = Cardinality(D) - 1
            BY <4>5, FS_RemoveElement
          <6> QED
            BY <4>4, <4>5, <5>1, <6>2, <6>3
        <5> QED
          BY <2>4, <3>2, <4>6, <5>2, <5>3, FitsBeyond
      <4>7. CASE s[x + 1] # t[y + 1]
        <5>1. /\ L[<<x, y>>] >= L[<<x + 1, y>>]
              /\ L[<<x, y>>] >= L[<<x, y + 1>>]
          BY <3>0, <3>2, <4>4, <4>7 DEF Entry
        <5>2. Fits(s, t, D, f, x + 1, y) \/ Fits(s, t, D, f, x, y + 1)
          BY <2>4, <3>2, <4>7, FitsBeyond
        <5>3. L[<<x, y>>] \in Nat
          BY <1>2
        <5> QED
          BY <4>3, <4>4, <4>5, <5>1, <5>2, <5>3
      <4> QED
        BY <4>6, <4>7
    <3> QED
      BY <3>1, <3>2
  <2> QED
    BY <2>3, <2>4 DEF Bounds
<1> QED
  BY <1>1, <1>3, <1>4 DEF Bounds, L

\* The lines that are kept are counted by a number.
LEMMA CommonCounts == ASSUME Walking PROVE Common \in Int
<1>1. Len(out) \in Nat /\ DOMAIN out = 1..Len(out)
  BY LenProperties DEF Walking
<1>2. IsFiniteSet(DOMAIN out) /\ Changed \subseteq DOMAIN out
  BY <1>1, FS_Interval DEF Changed
<1>3. Cardinality(DOMAIN out) \in Nat /\ Cardinality(Changed) \in Nat
  BY <1>2, FS_Subset, FS_CardinalityType
<1> QED
  BY <1>3 DEF Common

\* A step of the walk adds a changed line or a kept one.
LEMMA CommonGrows ==
  ASSUME Walking, NEW e \in Entries, out' = Append(out, e)
  PROVE  /\ Common \in Int
         /\ Common' = IF e.kind = "context" THEN Common + 1 ELSE Common
<1> DEFINE n == Len(out) + 1
<1>1. /\ Len(out) \in Nat /\ DOMAIN out = 1..Len(out)
      /\ DOMAIN out' = 1..n
      /\ \A p \in 1..Len(out) : out'[p] = out[p]
      /\ out'[n] = e
  BY Appended
<1>2. /\ Cardinality(DOMAIN out) = Len(out)
      /\ Cardinality(DOMAIN out') = Len(out) + 1
  <2>1. ASSUME NEW m \in Nat PROVE Cardinality(1..m) = m
    BY FS_Interval
  <2> QED
    BY <1>1, <2>1
<1>3. /\ Changed' = IF e.kind = "context" THEN Changed ELSE Changed \cup {n}
      /\ n \notin Changed /\ Changed \subseteq 1..Len(out)
  BY <1>1 DEF Changed
<1>4. IsFiniteSet(Changed) /\ Cardinality(Changed) \in Nat
  <2>1. IsFiniteSet(1..Len(out))
    BY <1>1, FS_Interval
  <2> QED
    BY <1>3, <2>1, FS_Subset, FS_CardinalityType
<1>5. Cardinality(Changed \cup {n}) = Cardinality(Changed) + 1
  BY <1>3, <1>4, FS_AddElement
<1> HIDE DEF n
<1>6. CASE e.kind = "context"
  BY <1>1, <1>2, <1>3, <1>4, <1>6 DEF Common
<1>7. CASE e.kind # "context"
  BY <1>1, <1>2, <1>3, <1>4, <1>5, <1>7 DEF Common
<1> QED
  BY <1>6, <1>7

\* The walk follows the table.
LEMMA CountingKept == Walking /\ Counting /\ [Next]_vars => Counting'
<1> SUFFICES ASSUME Walking, Counting, [Next]_vars PROVE Counting'
  OBVIOUS
<1> DEFINE L == LcsLengths(a, b)
<1>1. CASE UNCHANGED vars
  BY <1>1 DEF Counting, Common, Changed, vars, diffVars
<1>2. CASE Split
  <2>1. /\ out = <<>> /\ out' = out /\ i' = 0 /\ j' = 0
        /\ phase' = "walk" /\ table' = LcsLengths(a', b')
        /\ a' = original.lines /\ b' = modified.lines
        /\ original.lines \in Seq(Lines) /\ modified.lines \in Seq(Lines)
    BY <1>2 DEF Split, Walking, SplitLines
  <2>2. Common' = 0
    <3>1. DOMAIN out' = {} /\ Changed' = {}
      BY <2>1 DEF Changed
    <3>2. Cardinality({}) = 0
      BY FS_EmptySet
    <3> QED
      BY <3>1, <3>2 DEF Common
  <2>3. Len(a') \in Nat /\ Len(b') \in Nat
    BY <2>1, LenProperties
  <2>4. table'[<<0, 0>>] \in Nat
    <3>1. 0 \in 0..Len(a') /\ 0 \in 0..Len(b')
      BY <2>3
    <3> QED
      BY <2>1, <2>3, <3>1, TableCounts
  <2> QED
    BY <2>1, <2>2, <2>4 DEF Counting
<1>3. ASSUME phase = "walk"
      PROVE  /\ Len(a) \in Nat /\ Len(b) \in Nat
             /\ i \in 0..Len(a) /\ j \in 0..Len(b)
             /\ table = L /\ Common + L[<<i, j>>] = L[<<0, 0>>]
             /\ L[<<i, j>>] = Entry(L, a, b, i, j)
             /\ \A x \in 0..Len(a) : \A y \in 0..Len(b) : L[<<x, y>>] \in Nat
  <2>1. Len(a) \in Nat /\ Len(b) \in Nat
    BY <1>3, LenProperties DEF Walking
  <2>2. i \in 0..Len(a) /\ j \in 0..Len(b)
    BY <1>3, <2>1 DEF Walking
  <2>3. L[<<i, j>>] = Entry(L, a, b, i, j)
    BY <2>1, <2>2, TableIs
  <2>4. \A x \in 0..Len(a) : \A y \in 0..Len(b) : L[<<x, y>>] \in Nat
    BY <2>1, TableCounts
  <2> QED
    BY <1>3, <2>1, <2>2, <2>3, <2>4 DEF Counting
<1> HIDE DEF L
<1>4. CASE KeepLine
  <2> DEFINE e == [kind |-> "context", originalLine |-> i + 1,
                   modifiedLine |-> j + 1, text |-> a[i + 1]]
  <2>1. /\ phase = "walk" /\ phase' = "walk" /\ i < Len(a) /\ j < Len(b)
        /\ a[i + 1] = b[j + 1] /\ out' = Append(out, e)
        /\ i' = i + 1 /\ j' = j + 1 /\ table' = table /\ a' = a /\ b' = b
    BY <1>4 DEF KeepLine, InBoth
  <2>2. e \in Entries /\ e.kind = "context"
    BY <2>1, <1>3, ElementOfSeq DEF Entries, Walking
  <2> HIDE DEF e
  <2>3. Common' = Common + 1 /\ Common \in Int
    BY <2>1, <2>2, CommonGrows
  <2>4. L[<<i, j>>] = L[<<i + 1, j + 1>>] + 1
    BY <1>3, <2>1 DEF Entry
  <2>5. L[<<i + 1, j + 1>>] \in Nat
    BY <1>3, <2>1
  <2>6. Common' + L[<<i + 1, j + 1>>] = L[<<0, 0>>]
    BY <1>3, <2>1, <2>3, <2>4, <2>5
  <2> QED
    BY <1>3, <2>1, <2>6 DEF Counting, L
<1>5. CASE RemoveLine
  <2> DEFINE e == [kind |-> "removed", originalLine |-> i + 1,
                   text |-> a[i + 1]]
  <2>1. /\ phase = "walk" /\ phase' = "walk" /\ i < Len(a)
        /\ j < Len(b) => a[i + 1] # b[j + 1] /\ DownFirst
        /\ out' = Append(out, e)
        /\ i' = i + 1 /\ j' = j /\ table' = table /\ a' = a /\ b' = b
    BY <1>5 DEF RemoveLine, InBoth
  <2>2. e \in Entries /\ e.kind = "removed"
    BY <2>1, <1>3, ElementOfSeq DEF Entries, Walking
  <2> HIDE DEF e
  <2>3. Common' = Common
    BY <2>1, <2>2, CommonGrows
  <2>4. L[<<i + 1, j>>] = Entry(L, a, b, i + 1, j)
    <3>1. i + 1 \in 0..Len(a) /\ j \in 0..Len(b)
      BY <1>3, <2>1
    <3> QED
      BY <1>3, <3>1, TableIs DEF L
  <2>5. L[<<i, j>>] = L[<<i + 1, j>>]
    <3>1. CASE j = Len(b)
      <4>1. L[<<i, j>>] = 0 /\ L[<<i + 1, j>>] = 0
        BY <1>3, <2>1, <2>4, <3>1 DEF Entry
      <4> QED
        BY <4>1
    <3>2. CASE j < Len(b)
      <4>1. L[<<i + 1, j>>] >= L[<<i, j + 1>>]
        BY <1>3, <2>1, <3>2 DEF DownFirst
      <4>2. L[<<i + 1, j>>] \in Nat /\ L[<<i, j + 1>>] \in Nat
        <5>1. /\ i \in 0..Len(a) /\ i + 1 \in 0..Len(a)
              /\ j \in 0..Len(b) /\ j + 1 \in 0..Len(b)
          BY <1>3, <2>1, <3>2
        <5>2. \A x \in 0..Len(a) : \A y \in 0..Len(b) : L[<<x, y>>] \in Nat
          BY <1>3, <2>1
        <5> QED
          BY <5>1, <5>2
      <4>3. L[<<i, j>>] = IF L[<<i + 1, j>>] > L[<<i, j + 1>>]
                          THEN L[<<i + 1, j>>] ELSE L[<<i, j + 1>>]
        BY <1>3, <2>1, <3>2 DEF Entry
      <4> QED
        BY <4>1, <4>2, <4>3
    <3> QED
      BY <1>3, <2>1, <3>1, <3>2
  <2> QED
    BY <1>3, <2>1, <2>3, <2>5 DEF Counting, L
<1>6. CASE AddLine
  <2> DEFINE e == [kind |-> "added", modifiedLine |-> j + 1,
                   text |-> b[j + 1]]
  <2>1. /\ phase = "walk" /\ phase' = "walk" /\ j < Len(b)
        /\ i < Len(a) => a[i + 1] # b[j + 1] /\ ~DownFirst
        /\ out' = Append(out, e)
        /\ i' = i /\ j' = j + 1 /\ table' = table /\ a' = a /\ b' = b
    BY <1>6 DEF AddLine, InBoth
  <2>2. e \in Entries /\ e.kind = "added"
    BY <2>1, <1>3, ElementOfSeq DEF Entries, Walking
  <2> HIDE DEF e
  <2>3. Common' = Common
    BY <2>1, <2>2, CommonGrows
  <2>4. L[<<i, j + 1>>] = Entry(L, a, b, i, j + 1)
    <3>1. i \in 0..Len(a) /\ j + 1 \in 0..Len(b)
      BY <1>3, <2>1
    <3> QED
      BY <1>3, <3>1, TableIs DEF L
  <2>5. L[<<i, j>>] = L[<<i, j + 1>>]
    <3>1. CASE i = Len(a)
      <4>1. L[<<i, j>>] = 0 /\ L[<<i, j + 1>>] = 0
        BY <1>3, <2>1, <2>4, <3>1 DEF Entry
      <4> QED
        BY <4>1
    <3>2. CASE i < Len(a)
      <4>1. ~ (L[<<i + 1, j>>] >= L[<<i, j + 1>>])
        BY <1>3, <2>1, <3>2 DEF DownFirst
      <4>2. L[<<i + 1, j>>] \in Nat /\ L[<<i, j + 1>>] \in Nat
        <5>1. /\ i \in 0..Len(a) /\ i + 1 \in 0..Len(a)
              /\ j \in 0..Len(b) /\ j + 1 \in 0..Len(b)
          BY <1>3, <2>1, <3>2
        <5>2. \A x \in 0..Len(a) : \A y \in 0..Len(b) : L[<<x, y>>] \in Nat
          BY <1>3, <2>1
        <5> QED
          BY <5>1, <5>2
      <4>3. L[<<i, j>>] = IF L[<<i + 1, j>>] > L[<<i, j + 1>>]
                          THEN L[<<i + 1, j>>] ELSE L[<<i, j + 1>>]
        BY <1>3, <2>1, <3>2 DEF Entry
      <4> QED
        BY <4>1, <4>2, <4>3
    <3> QED
      BY <1>3, <2>1, <3>1, <3>2
  <2> QED
    BY <1>3, <2>1, <2>3, <2>5 DEF Counting, L
<1>7. CASE Diffed
  <2>1. /\ phase = "walk" /\ phase' \in {"hunks", "done"}
        /\ i = Len(a) /\ j = Len(b)
        /\ out' = out /\ table' = table /\ a' = a /\ b' = b
    BY <1>7 DEF Diffed, diffVars
  <2>2. L[<<i, j>>] = 0
    BY <1>3, <2>1 DEF Entry
  <2>3. Common' = Common
    BY <2>1 DEF Common, Changed
  <2>4. Common \in Int
    BY CommonCounts
  <2> QED
    BY <1>3, <2>1, <2>2, <2>3, <2>4 DEF Counting, L
<1>8. CASE Extend \/ Break \/ CloseLast
  <2>1. /\ phase = "hunks" /\ phase' \in {"hunks", "done"}
        /\ out' = out /\ table' = table /\ a' = a /\ b' = b
    BY <1>8 DEF Extend, Break, CloseLast, diffVars
  <2>2. Common' = Common
    BY <2>1 DEF Common, Changed
  <2> QED
    BY <2>1, <2>2 DEF Counting
<1> QED
  BY <1>1, <1>2, <1>4, <1>5, <1>6, <1>7, <1>8 DEF Next
-----------------------------------------------------------------------------
(***************************************************************************)
(* The hunks.                                                              *)
(***************************************************************************)

\* The padding of a change is part of the difference and holds the change.
LEMMA Padded ==
  ASSUME Walking
  PROVE  /\ Len(out) \in Nat /\ DOMAIN out = 1..Len(out) /\ Context \in Nat
         /\ \A p \in Changed :
              /\ p \in 1..Len(out)
              /\ FirstShown(p) \in 1..p
              /\ LastShown(p) \in p..Len(out)
              /\ FirstShown(p)..LastShown(p) =
                   {q \in DOMAIN out : q - Context <= p /\ p <= q + Context}
<1>1. Len(out) \in Nat /\ DOMAIN out = 1..Len(out)
  BY LenProperties DEF Walking
<1>2. Context \in Nat
  BY DiffAssumption
<1>3. ASSUME NEW p \in Changed
      PROVE  /\ p \in 1..Len(out)
             /\ FirstShown(p) \in 1..p
             /\ LastShown(p) \in p..Len(out)
             /\ FirstShown(p)..LastShown(p) =
                  {q \in DOMAIN out : q - Context <= p /\ p <= q + Context}
  <2>1. p \in 1..Len(out)
    BY <1>1 DEF Changed
  <2>2. FirstShown(p) \in 1..p /\ LastShown(p) \in p..Len(out)
    BY <1>1, <1>2, <2>1 DEF FirstShown, LastShown
  <2>3. \A q \in 1..Len(out) :
          FirstShown(p) <= q /\ q <= LastShown(p)
            <=> q - Context <= p /\ p <= q + Context
    BY <1>1, <1>2, <2>1 DEF FirstShown, LastShown
  <2>4. FirstShown(p)..LastShown(p) =
          {q \in 1..Len(out) : FirstShown(p) <= q /\ q <= LastShown(p)}
    BY <1>1, <2>1, <2>2
  <2>5. FirstShown(p)..LastShown(p) =
          {q \in 1..Len(out) : q - Context <= p /\ p <= q + Context}
    BY <2>3, <2>4
  <2> QED
    BY <1>1, <2>1, <2>2, <2>5
<1> QED
  BY <1>1, <1>2, <1>3

\* Coming to the next change brings its padding near.
LEMMA NearNext ==
  ASSUME Walking, at \in Nat, NEW p, IsNext(p)
  PROVE  Near(p) = Near(at) \cup (FirstShown(p)..LastShown(p))
<1>1. p \in Changed /\ p > at /\ \A c \in Changed : c > at => p <= c
  BY DEF IsNext, Ahead
<1>2. /\ Changed \subseteq Nat
      /\ FirstShown(p)..LastShown(p) =
           {q \in DOMAIN out : q - Context <= p /\ p <= q + Context}
  BY <1>1, Padded
<1>3. \A c \in Changed : c <= p <=> c <= at \/ c = p
  BY <1>1, <1>2
<1> QED
  BY <1>1, <1>2, <1>3 DEF Near

\* The open hunk lies in the difference and holds the change come to.
LEMMA OpenHunk ==
  ASSUME Walking, Opened, phase = "hunks"
  PROVE  /\ at \in Nat /\ at \in start..end
         /\ start \in 1..Len(out) /\ end \in start..Len(out)
         /\ Len(SubSeq(out, start, end)) = end - start + 1
         /\ SubSeq(out, start, end) \in Seq(Entries)
         /\ ToSet(SubSeq(out, start, end)) = {out[p] : p \in start..end}
<1>1. /\ at \in 1..Len(out) /\ FirstShown(at) \in 1..at
      /\ LastShown(at) \in at..Len(out) /\ Len(out) \in Nat
      /\ DOMAIN out = 1..Len(out)
  BY Padded DEF Opened
<1>2. /\ at \in Nat /\ at \in start..end
      /\ start \in 1..Len(out) /\ end \in start..Len(out)
  BY <1>1 DEF Opened
<1> DEFINE s == SubSeq(out, start, end)
<1>3. \A p \in start..end : out[p] \in Entries
  BY <1>1, <1>2, ElementOfSeq DEF Walking
<1>4. /\ s \in Seq(Entries) /\ Len(s) = end - start + 1
      /\ \A p \in 1..(end - start + 1) : s[p] = out[start + p - 1]
  BY <1>1, <1>2, <1>3, SubSeqProperties
<1>5. DOMAIN s = 1..(end - start + 1)
  BY <1>4, LenProperties
<1> HIDE DEF s
<1>6. ASSUME NEW x \in ToSet(s) PROVE x \in {out[p] : p \in start..end}
  <2>1. PICK p \in 1..(end - start + 1) : x = s[p]
    BY <1>5 DEF ToSet
  <2>2. x = out[start + p - 1] /\ start + p - 1 \in start..end
    BY <1>1, <1>2, <1>4, <2>1
  <2> QED
    BY <2>2
<1>7. ASSUME NEW p \in start..end PROVE out[p] \in ToSet(s)
  <2>1. p - start + 1 \in 1..(end - start + 1)
    BY <1>1, <1>2
  <2>2. s[p - start + 1] = out[start + (p - start + 1) - 1]
    BY <1>4, <2>1
  <2>3. start + (p - start + 1) - 1 = p
    BY <1>1, <1>2
  <2> QED
    BY <1>5, <2>1, <2>2, <2>3 DEF ToSet
<1>8. ToSet(s) = {out[p] : p \in start..end}
  BY <1>6, <1>7
<1> QED
  BY <1>2, <1>4, <1>8 DEF s

\* Closing a hunk leaves those before it.
LEMMA ClosedHunk ==
  ASSUME Walking, Opened, phase = "hunks", hunks' = Closed
  PROVE  LET n == Len(hunks) + 1
             h == [lines |-> SubSeq(out, start, end),
                   skippedBefore |-> SkippedBefore(start)]
         IN  /\ hunks' \in Seq([lines : Seq(Entries), skippedBefore : Int])
             /\ Len(hunks) \in Nat
             /\ DOMAIN hunks = 1..Len(hunks)
             /\ Len(hunks') = n
             /\ DOMAIN hunks' = 1..n
             /\ hunks' # <<>>
             /\ \A g \in 1..Len(hunks) : hunks'[g] = hunks[g]
             /\ hunks'[n] = h
<1> DEFINE Hunks == [lines : Seq(Entries), skippedBefore : Int]
           h == [lines |-> SubSeq(out, start, end),
                 skippedBefore |-> SkippedBefore(start)]
<1>1. hunks \in Seq(Hunks)
  BY DEF Opened
<1>2. h \in Hunks
  <2>1. SkippedBefore(start) \in Int
    BY OpenHunk, Padded DEF SkippedBefore, Opened
  <2> QED
    BY <2>1, OpenHunk
<1>3. hunks' = Append(hunks, h)
  BY DEF Closed
<1> HIDE DEF h, Hunks
<1>4. /\ hunks' \in Seq(Hunks) /\ Len(hunks') = Len(hunks) + 1
      /\ hunks' # <<>>
      /\ \A g \in 1..Len(hunks) : hunks'[g] = hunks[g]
      /\ hunks'[Len(hunks) + 1] = h
  BY <1>1, <1>2, <1>3, AppendProperties
<1>5. Len(hunks) \in Nat /\ DOMAIN hunks = 1..Len(hunks)
      /\ DOMAIN hunks' = 1..Len(hunks')
  BY <1>1, <1>4, LenProperties
<1> QED
  BY <1>4, <1>5 DEF h, Hunks

\* The open hunk follows the change come to, and Break leaves at least one
\* line between two hunks.
LEMMA OpenedKept == Walking /\ Opened /\ [Next]_vars => Opened'
<1> SUFFICES ASSUME Walking, Opened, [Next]_vars PROVE Opened'
  OBVIOUS
<1> DEFINE Hunks == [lines : Seq(Entries), skippedBefore : Int]
<1>1. ASSUME phase \in {"split", "walk"}, UNCHANGED hunkVars,
             phase' \in {"split", "walk"}
      PROVE  Opened'
  BY <1>1 DEF Opened, hunkVars
<1>2. ASSUME UNCHANGED hunkVars, UNCHANGED out, phase' \in {phase, "done"}
      PROVE  Opened'
  BY <1>2 DEF Opened, hunkVars, Changed, FirstShown, LastShown
<1>3. CASE UNCHANGED vars
  BY <1>3, <1>2 DEF vars, diffVars
<1>4. CASE Split \/ KeepLine \/ RemoveLine \/ AddLine
  BY <1>4, <1>1 DEF Split, KeepLine, RemoveLine, AddLine
<1>5. CASE Diffed
  <2>1. CASE Changed = {}
    BY <1>5, <2>1, <1>2 DEF Diffed, diffVars
  <2>2. CASE Changed # {}
    <3>1. PICK p \in Changed :
            at' = p /\ start' = FirstShown(p) /\ end' = LastShown(p)
      BY <1>5, <2>2 DEF Diffed
    <3>2. /\ phase = "walk" /\ phase' = "hunks"
          /\ out' = out /\ previousEnd' = previousEnd /\ hunks' = hunks
      BY <1>5, <2>2 DEF Diffed, diffVars
    <3>3. FirstShown(p) \in 1..p /\ p \in Nat
      BY Padded
    <3>4. hunks = <<>> /\ previousEnd = 0 /\ hunks \in Seq(Hunks)
      BY <3>2 DEF Opened
    <3>5. /\ Changed' = Changed /\ FirstShown(p)' = FirstShown(p)
          /\ LastShown(p)' = LastShown(p)
      BY <3>2 DEF Changed, FirstShown, LastShown
    <3>6. /\ at' \in Changed' /\ start' \in 1..FirstShown(at')
          /\ end' = LastShown(at)' /\ previousEnd' < start'
      BY <3>1, <3>2, <3>3, <3>4, <3>5 DEF FirstShown, LastShown
    <3> QED
      BY <3>2, <3>4, <3>6 DEF Opened, FirstShown
  <2> QED
    BY <2>1, <2>2
<1>6. CASE Extend
  <2>1. PICK p \in Ahead : IsNext(p) /\ at' = p /\ end' = LastShown(p)
    BY <1>6 DEF Extend
  <2>2. /\ phase = "hunks" /\ phase' = "hunks" /\ start' = start
        /\ out' = out /\ previousEnd' = previousEnd /\ hunks' = hunks
    BY <1>6 DEF Extend, diffVars
  <2>3. /\ p \in Changed /\ p > at /\ p \in Nat /\ at \in Nat
        /\ start \in 1..FirstShown(at)
    BY <2>1, <2>2, Padded, OpenHunk DEF Ahead, Opened
  <2>4. FirstShown(at) <= FirstShown(p) /\ FirstShown(p) \in Nat
        /\ FirstShown(at) \in Nat
    BY <2>3, DiffAssumption DEF FirstShown
  <2>5. /\ Changed' = Changed /\ FirstShown(p)' = FirstShown(p)
        /\ LastShown(p)' = LastShown(p)
    BY <2>2 DEF Changed, FirstShown, LastShown
  <2>6. /\ at' \in Changed' /\ start' \in 1..FirstShown(at')
        /\ end' = LastShown(at)'
    BY <2>1, <2>2, <2>3, <2>4, <2>5 DEF FirstShown, LastShown
  <2> QED
    BY <2>2, <2>6 DEF Opened, FirstShown
<1>7. CASE Break
  <2>1. PICK p \in Ahead : /\ ~Touches(p) /\ at' = p
                           /\ start' = FirstShown(p) /\ end' = LastShown(p)
    BY <1>7 DEF Break
  <2>2. /\ phase = "hunks" /\ phase' = "hunks" /\ previousEnd' = end
        /\ out' = out /\ hunks' = Closed
    BY <1>7 DEF Break, diffVars
  <2>3. /\ p \in Changed /\ p \in Nat /\ FirstShown(p) \in 1..p
        /\ end \in Nat
    BY <2>1, <2>2, Padded, OpenHunk DEF Ahead
  <2>4. end + 1 < FirstShown(p)
    BY <2>1, <2>3, DiffAssumption DEF Touches, FirstShown
  <2>5. hunks' \in Seq(Hunks) /\ hunks' # <<>>
    BY <2>2, ClosedHunk
  <2>6. Changed' = Changed /\ LastShown(p)' = LastShown(p)
    BY <2>2 DEF Changed, LastShown
  <2>7. /\ at' \in Changed' /\ start' \in 1..FirstShown(at')
        /\ end' = LastShown(at)'
    BY <2>1, <2>3, <2>6 DEF FirstShown, LastShown
  <2> QED
    BY <2>1, <2>2, <2>3, <2>4, <2>5, <2>7 DEF Opened, FirstShown
<1>8. CASE CloseLast
  <2>1. /\ phase = "hunks" /\ phase' = "done" /\ hunks' = Closed
        /\ previousEnd' = previousEnd
    BY <1>8 DEF CloseLast
  <2>2. hunks' \in Seq(Hunks) /\ hunks' # <<>>
    BY <2>1, ClosedHunk
  <2> QED
    BY <2>1, <2>2 DEF Opened
<1> QED
  BY <1>3, <1>4, <1>5, <1>6, <1>7, <1>8 DEF Next

\* With no hunk closed there is nothing to place.
LEMMA NoneToPlace ==
  ASSUME NEW S
  PROVE  DOMAIN <<>> = {} /\ [h \in {} |-> 0] \in [DOMAIN <<>> -> S]
OBVIOUS

\* The hunk that is closed starts where its count of skipped lines says.
LEMMA ClosedPlaced ==
  ASSUME Walking, Opened, Placed, phase = "hunks", hunks' = Closed,
         out' = out, phase' = "hunks" => previousEnd' = end
  PROVE  Placed'
<1> DEFINE n == Len(hunks) + 1
           s == SubSeq(out, start, end)
<1>1. /\ Len(hunks) \in Nat /\ DOMAIN hunks = 1..Len(hunks)
      /\ Len(hunks') = n /\ DOMAIN hunks' = 1..n
      /\ \A g \in 1..Len(hunks) : hunks'[g] = hunks[g]
      /\ hunks'[n].lines = s
      /\ hunks'[n].skippedBefore = start - previousEnd - 1
  BY ClosedHunk DEF SkippedBefore
<1>2. /\ start \in 1..Len(out) /\ end \in start..Len(out)
      /\ Len(s) = end - start + 1 /\ Len(out) \in Nat
  BY OpenHunk, Padded
<1>3. PICK offset \in [DOMAIN hunks -> 0..Len(out)] :
        /\ \A h \in DOMAIN hunks :
             LET before == IF h = 1 THEN 0
                           ELSE offset[h - 1] + Len(hunks[h - 1].lines)
                 last == offset[h] + Len(hunks[h].lines)
             IN  /\ offset[h] = before + hunks[h].skippedBefore
                 /\ last <= Len(out)
                 /\ hunks[h].lines = SubSeq(out, offset[h] + 1, last)
        /\ hunks # <<>> =>
             previousEnd = offset[Len(hunks)] + Len(hunks[Len(hunks)].lines)
  BY DEF Placed
<1> DEFINE new == [h \in 1..n |-> IF h = n THEN start - 1 ELSE offset[h]]
<1>4. new \in [DOMAIN hunks' -> 0..Len(out)]
  BY <1>1, <1>2
<1>5. \A h \in 1..Len(hunks) : new[h] = offset[h]
  BY <1>1
<1>6. new[n] = start - 1
  BY <1>1
<1> HIDE DEF new, s
<1>7. ASSUME NEW h \in 1..Len(hunks)
      PROVE  /\ new[h] = (IF h = 1 THEN 0
                          ELSE new[h - 1] + Len(hunks'[h - 1].lines))
                           + hunks'[h].skippedBefore
             /\ new[h] + Len(hunks'[h].lines) <= Len(out)
             /\ hunks'[h].lines =
                  SubSeq(out, new[h] + 1, new[h] + Len(hunks'[h].lines))
  <2>1. h # 1 => h - 1 \in 1..Len(hunks)
    BY <1>1
  <2>2. new[h] = offset[h] /\ hunks'[h] = hunks[h]
    BY <1>1, <1>5
  <2>3. h # 1 => new[h - 1] = offset[h - 1] /\ hunks'[h - 1] = hunks[h - 1]
    BY <1>1, <1>5, <2>1
  <2> QED
    BY <1>1, <1>3, <2>2, <2>3
<1>8. n # 1 => previousEnd = new[n - 1] + Len(hunks'[n - 1].lines)
  <2>1. SUFFICES ASSUME n # 1
                 PROVE  previousEnd = new[n - 1] + Len(hunks'[n - 1].lines)
    OBVIOUS
  <2>2. Len(hunks) \in 1..Len(hunks) /\ n - 1 = Len(hunks) /\ hunks # <<>>
    BY <1>1, <2>1
  <2> QED
    BY <1>1, <1>3, <1>5, <2>2
<1>9. n = 1 => previousEnd = 0
  <2>1. n = 1 => hunks = <<>>
    BY <1>1, EmptySeq DEF Opened
  <2> QED
    BY <2>1 DEF Opened
<1>10. /\ new[n] = (IF n = 1 THEN 0
                    ELSE new[n - 1] + Len(hunks'[n - 1].lines))
                     + hunks'[n].skippedBefore
       /\ new[n] + Len(hunks'[n].lines) = end
       /\ hunks'[n].lines =
            SubSeq(out, new[n] + 1, new[n] + Len(hunks'[n].lines))
  <2>1. previousEnd \in Nat
    BY DEF Opened
  <2>2. new[n] + Len(hunks'[n].lines) = end /\ new[n] + 1 = start
    BY <1>1, <1>2, <1>6
  <2> QED
    BY <1>1, <1>2, <1>6, <1>8, <1>9, <2>1, <2>2 DEF s
<1>11. \A h \in DOMAIN hunks' : h \in 1..Len(hunks) \/ h = n
  BY <1>1
<1>12. ASSUME NEW h \in DOMAIN hunks'
       PROVE  /\ new[h] = (IF h = 1 THEN 0
                           ELSE new[h - 1] + Len(hunks'[h - 1].lines))
                            + hunks'[h].skippedBefore
              /\ new[h] + Len(hunks'[h].lines) <= Len(out)
              /\ hunks'[h].lines =
                   SubSeq(out, new[h] + 1, new[h] + Len(hunks'[h].lines))
  <2>1. CASE h \in 1..Len(hunks)
    BY <1>7, <2>1
  <2>2. CASE h = n
    <3>1. new[n] + Len(hunks'[n].lines) <= Len(out)
      BY <1>2, <1>10
    <3> HIDE DEF n
    <3> QED
      BY <1>10, <2>2, <3>1
  <2> QED
    BY <1>11, <2>1, <2>2
<1>13. phase' = "hunks" =>
         previousEnd' = new[Len(hunks')] + Len(hunks'[Len(hunks')].lines)
  BY <1>1, <1>10
<1> HIDE DEF n
<1> QED
  BY <1>4, <1>12, <1>13 DEF Placed

\* A hunk stays where it stands, and the one that is closed takes its place.
LEMMA PlacedKept == Walking /\ Opened /\ Placed /\ [Next]_vars => Placed'
<1> SUFFICES ASSUME Walking, Opened, Placed, [Next]_vars PROVE Placed'
  OBVIOUS
<1>1. ASSUME UNCHANGED <<out, hunks, previousEnd>>, phase' = phase
      PROVE  Placed'
  BY <1>1 DEF Placed
<1>2. ASSUME hunks' = <<>> PROVE Placed'
  BY <1>2, NoneToPlace DEF Placed
<1>3. CASE UNCHANGED vars
  BY <1>1, <1>3 DEF vars, diffVars, hunkVars
<1>4. CASE Split \/ KeepLine \/ RemoveLine \/ AddLine \/ Diffed
  <2>1. hunks' = hunks /\ phase \in {"split", "walk"}
    BY <1>4 DEF Split, KeepLine, RemoveLine, AddLine, Diffed, hunkVars
  <2> QED
    BY <1>2, <2>1 DEF Opened
<1>5. CASE Extend
  BY <1>1, <1>5 DEF Extend, diffVars
<1>6. CASE Break
  <2>1. /\ phase = "hunks" /\ hunks' = Closed /\ out' = out
        /\ previousEnd' = end
    BY <1>6 DEF Break, diffVars
  <2> QED
    BY <2>1, ClosedPlaced
<1>7. CASE CloseLast
  <2>1. /\ phase = "hunks" /\ hunks' = Closed /\ out' = out
        /\ phase' = "done"
    BY <1>7 DEF CloseLast, diffVars
  <2> QED
    BY <2>1, ClosedPlaced
<1> QED
  BY <1>3, <1>4, <1>5, <1>6, <1>7 DEF Next

\* The hunk that is closed adds the lines it had while open.
LEMMA HeldGrows ==
  ASSUME Walking, Opened, phase = "hunks", hunks' = Closed
  PROVE  Held' = Held \cup {out[p] : p \in start..end}
<1> DEFINE n == Len(hunks) + 1
           s == SubSeq(out, start, end)
<1>1. /\ Len(hunks) \in Nat /\ DOMAIN hunks = 1..Len(hunks)
      /\ DOMAIN hunks' = 1..n
      /\ \A g \in 1..Len(hunks) : hunks'[g] = hunks[g]
      /\ hunks'[n].lines = s
  BY ClosedHunk
<1>2. ToSet(s) = {out[p] : p \in start..end}
  BY OpenHunk
<1> DEFINE L(h) == ToSet(hunks[h].lines)
           M(h) == ToSet(hunks'[h].lines)
<1>3. \A h \in DOMAIN hunks : L(h) = M(h)
  BY <1>1
<1>4. M(n) = {out[p] : p \in start..end}
  BY <1>1, <1>2
<1>5. DOMAIN hunks' = DOMAIN hunks \cup {n}
  BY <1>1
<1>6. Held = UNION {L(h) : h \in DOMAIN hunks}
      /\ Held' = UNION {M(h) : h \in DOMAIN hunks'}
  BY DEF Held
<1> HIDE DEF L, M, n, s
<1> QED
  BY <1>3, <1>4, <1>5, <1>6

\* The hunk that is closed stands apart from the one before it.
LEMMA ClosedApart ==
  ASSUME Walking, Opened, Showing, phase = "hunks", hunks' = Closed
  PROVE  \A h \in DOMAIN hunks' : h > 1 => hunks'[h].skippedBefore > 0
<1> DEFINE n == Len(hunks) + 1
<1>1. /\ Len(hunks) \in Nat /\ DOMAIN hunks = 1..Len(hunks)
      /\ DOMAIN hunks' = 1..n
      /\ \A g \in 1..Len(hunks) : hunks'[g] = hunks[g]
      /\ hunks'[n].skippedBefore = start - previousEnd - 1
  BY ClosedHunk DEF SkippedBefore
<1>2. ASSUME n > 1 PROVE hunks'[n].skippedBefore > 0
  <2>1. hunks # <<>>
    BY <1>1, <1>2
  <2> QED
    BY <1>1, <2>1, OpenHunk DEF Opened
<1> QED
  BY <1>1, <1>2 DEF Showing

\* Coming to a change shows its padding: in the open hunk when it touches it,
\* in a new one when it does not.
LEMMA ShowingKept ==
  Walking /\ Opened /\ Showing /\ [Next]_vars => Showing'
<1> SUFFICES ASSUME Walking, Opened, Showing, [Next]_vars PROVE Showing'
  OBVIOUS
<1> DEFINE Image(S) == {out[p] : p \in S}
<1>1. Showing <=>
        /\ phase = "hunks" => Held \cup Image(start..end) = Image(Near(at))
        /\ \A h \in DOMAIN hunks : h > 1 => hunks[h].skippedBefore > 0
  BY DEF Showing
<1>2. ASSUME out' = out,
             phase' = "hunks" =>
               Held' \cup Image(start'..end') = Image(Near(at')),
             \A h \in DOMAIN hunks' : h > 1 => hunks'[h].skippedBefore > 0
      PROVE  Showing'
  <2>1. Near(at)' = Near(at')
    BY <1>2 DEF Near, Changed
  <2> QED
    BY <1>2, <2>1 DEF Showing
<1>3. CASE UNCHANGED vars
  <2>1. /\ out' = out /\ hunks' = hunks /\ phase' = phase
        /\ start' = start /\ end' = end /\ at' = at
    BY <1>3 DEF vars, diffVars, hunkVars
  <2>2. Held' = Held
    BY <2>1 DEF Held
  <2> HIDE DEF Image
  <2> QED
    BY <1>1, <1>2, <2>1, <2>2
<1>4. CASE Split \/ KeepLine \/ RemoveLine \/ AddLine
  <2>1. hunks = <<>> /\ hunks' = hunks /\ phase' \in {"walk"}
    BY <1>4 DEF Split, KeepLine, RemoveLine, AddLine, hunkVars, Opened
  <2> QED
    BY <2>1, NoneToPlace DEF Showing
<1>5. CASE Diffed
  <2>1. hunks = <<>> /\ at = 0 /\ hunks' = hunks /\ out' = out
        /\ phase = "walk"
    BY <1>5 DEF Diffed, hunkVars, diffVars, Opened
  <2>2. Held' = {} /\ DOMAIN hunks' = {}
    BY <2>1, NoneToPlace DEF Held
  <2>3. ASSUME phase' = "hunks"
        PROVE  Held' \cup Image(start'..end') = Image(Near(at'))
    <3>1. PICK p : /\ IsNext(p) /\ at' = p /\ start' = FirstShown(p)
                   /\ end' = LastShown(p)
      BY <1>5, <2>3 DEF Diffed
    <3>2. Near(at) = {}
      BY <2>1, Padded DEF Near
    <3>3. Near(at') = start'..end'
      BY <2>1, <3>1, <3>2, NearNext
    <3> QED
      BY <2>2, <3>3
  <2> QED
    BY <1>2, <2>1, <2>2, <2>3
<1>6. CASE Extend
  <2>1. PICK p : IsNext(p) /\ Touches(p) /\ at' = p /\ end' = LastShown(p)
    BY <1>6 DEF Extend
  <2>2. /\ phase = "hunks" /\ start' = start /\ out' = out /\ hunks' = hunks
    BY <1>6 DEF Extend, diffVars
  <2>3. Near(p) = Near(at) \cup (FirstShown(p)..LastShown(p))
    BY <2>1, <2>2, NearNext, OpenHunk
  <2>4. start..LastShown(p) =
          (start..end) \cup (FirstShown(p)..LastShown(p))
    <3>1. /\ p \in Changed /\ p > at /\ at \in Nat /\ p \in Nat
          /\ start \in Nat /\ end \in Nat /\ end = LastShown(at)
          /\ start <= FirstShown(at)
      BY <2>1, <2>2, OpenHunk, Padded DEF IsNext, Ahead, Opened
    <3>2. /\ Context \in Nat /\ Len(out) \in Nat /\ at <= Len(out)
          /\ p <= Len(out) /\ end \in 1..Len(out)
      BY <2>2, <3>1, Padded, OpenHunk DEF Opened
    <3>3. /\ FirstShown(at) \in Nat /\ FirstShown(p) \in Nat
          /\ FirstShown(at) <= FirstShown(p)
      BY <3>1, <3>2 DEF FirstShown
    <3>4. LastShown(p) \in Nat /\ end <= LastShown(p)
      BY <3>1, <3>2 DEF LastShown
    <3>5. FirstShown(p) <= end + 1
      BY <2>1, <3>1, <3>2 DEF FirstShown, Touches
    <3> QED
      BY <3>1, <3>3, <3>4, <3>5
  <2>5. Held' = Held
    BY <2>2 DEF Held
  <2>6. Held' \cup Image(start'..end') = Image(Near(at'))
    BY <1>1, <2>1, <2>2, <2>3, <2>4, <2>5
  <2> QED
    BY <1>2, <2>2, <2>6 DEF Showing
<1>7. CASE Break
  <2>1. PICK p : /\ IsNext(p) /\ at' = p /\ start' = FirstShown(p)
                 /\ end' = LastShown(p)
    BY <1>7 DEF Break
  <2>2. /\ phase = "hunks" /\ hunks' = Closed /\ out' = out
    BY <1>7 DEF Break, diffVars
  <2>3. Near(p) = Near(at) \cup (FirstShown(p)..LastShown(p))
    BY <2>1, <2>2, NearNext, OpenHunk
  <2>4. Held' = Held \cup Image(start..end)
    BY <2>2, HeldGrows
  <2>5. Held' \cup Image(start'..end') = Image(Near(at'))
    BY <1>1, <2>1, <2>2, <2>3, <2>4
  <2> QED
    BY <1>2, <2>2, <2>5, ClosedApart
<1>8. CASE CloseLast
  <2>1. /\ phase = "hunks" /\ hunks' = Closed /\ out' = out
        /\ phase' = "done"
    BY <1>8 DEF CloseLast, diffVars
  <2> QED
    BY <1>2, <2>1, ClosedApart
<1> QED
  BY <1>3, <1>4, <1>5, <1>6, <1>7, <1>8 DEF Next

\* When the last hunk is closed every change has been come to.
LEMMA AllShown ==
  Walking /\ Opened /\ Showing /\ HunksShowChanges /\ [Next]_vars
    => HunksShowChanges'
<1> SUFFICES ASSUME Walking, Opened, Showing, HunksShowChanges, [Next]_vars
             PROVE  HunksShowChanges'
  OBVIOUS
<1> DEFINE Shown ==
      {q \in DOMAIN out :
         \E c \in Changed : q - Context <= c /\ c <= q + Context}
<1>1. ASSUME out' = out, phase' = "done" => Held' = {out[p] : p \in Shown},
             Showing'
      PROVE  HunksShowChanges'
  <2>1. Changed' = Changed
    BY <1>1 DEF Changed
  <2>2. \A h \in DOMAIN hunks' : h > 1 => hunks'[h].skippedBefore > 0
    BY <1>1 DEF Showing
  <2> QED
    BY <1>1, <2>1, <2>2 DEF HunksShowChanges, Held
<1>2. CASE UNCHANGED vars
  BY <1>2 DEF HunksShowChanges, Changed, vars, diffVars, hunkVars
<1>3. CASE Split \/ KeepLine \/ RemoveLine \/ AddLine \/ Extend \/ Break
  BY <1>3 DEF Split, KeepLine, RemoveLine, AddLine, Extend, Break,
              HunksShowChanges
<1>4. CASE Diffed
  <2>1. phase = "walk" /\ hunks' = hunks /\ out' = out
        /\ (phase' = "done" => Changed = {})
    BY <1>4 DEF Diffed, hunkVars, diffVars
  <2>2. Held' = {}
    BY <2>1, NoneToPlace DEF Held, Opened
  <2>3. Changed = {} => Shown = {}
    OBVIOUS
  <2> QED
    BY <1>1, <2>1, <2>2, <2>3, ShowingKept
<1>5. CASE CloseLast
  <2>1. /\ phase = "hunks" /\ hunks' = Closed /\ out' = out
        /\ Ahead = {}
    BY <1>5 DEF CloseLast, diffVars
  <2>2. Held' = Held \cup {out[p] : p \in start..end}
    BY <2>1, HeldGrows
  <2>3. Held' = {out[p] : p \in Near(at)}
    BY <2>1, <2>2 DEF Showing
  <2>4. \A c \in Changed : c <= at
    BY <2>1, Padded, OpenHunk DEF Ahead
  <2>5. Near(at) = Shown
    BY <2>4 DEF Near
  <2> QED
    BY <1>1, <2>1, <2>3, <2>5, ShowingKept
<1> QED
  BY <1>2, <1>3, <1>4, <1>5 DEF Next
-----------------------------------------------------------------------------
\* The conjunction is inductive.
LEMMA DiffInductive == Spec => []DiffInv
<1>1. Init => DiffInv
  <2> SUFFICES ASSUME Init PROVE DiffInv
    OBVIOUS
  <2>1. hunks = <<>> /\ at = 0 /\ previousEnd = 0 /\ phase = "split"
    BY DEF Init
  <2>2. Opened /\ Showing /\ HunksShowChanges
    BY <2>1, NoneToPlace, EmptySeq DEF Opened, Showing, HunksShowChanges
  <2>3. Placed
    BY <2>1, NoneToPlace DEF Placed
  <2>4. Counting
    BY <2>1 DEF Counting
  <2> QED
    BY <2>2, <2>3, <2>4, WalkStarts DEF DiffInv
<1>2. DiffInv /\ [Next]_vars => DiffInv'
  BY WalkKept, RebuildsKept, CountingKept, OpenedKept, PlacedKept, ShowingKept,
     AllShown
     DEF DiffInv
<1> QED
  BY <1>1, <1>2, PTL DEF Spec

\* Whatever the walk has passed of either file stands in the difference, each
\* line once, in its place and with its own number.
THEOREM HoldsBothFiles == Spec => []Rebuilds
BY DiffInductive, PTL DEF DiffInv

\* No difference changes fewer lines: the table bounds every common subsequence
\* of the two files, and the walk keeps as many lines as it says.
THEOREM NoShorter == Spec => []Shortest
<1>1. ASSUME DiffInv PROVE Shortest
  <2>1. SUFFICES ASSUME phase = "done",
                        NEW D \in SUBSET DOMAIN original.lines,
                        Cardinality(D) > Common,
                        NEW f \in [D -> DOMAIN modified.lines],
                        InCommon(D, f)
                 PROVE  FALSE
    BY DEF Shortest
  <2>2. /\ a = original.lines /\ b = modified.lines
        /\ Len(a) \in Nat /\ Len(b) \in Nat
        /\ DOMAIN a = 1..Len(a) /\ DOMAIN b = 1..Len(b)
    BY <1>1, <2>1, LenProperties DEF DiffInv, Walking
  <2>3. Fits(a, b, D, f, 0, 0)
    BY <2>1, <2>2 DEF Fits, InCommon
  <2>4. 0 \in 0..Len(a) /\ 0 \in 0..Len(b)
    BY <2>2
  <2>5. /\ IsFiniteSet(D) /\ Cardinality(D) <= LcsLengths(a, b)[<<0, 0>>]
        /\ LcsLengths(a, b)[<<0, 0>>] \in Nat
    BY <2>2, <2>3, <2>4, TableBounds, TableCounts
  <2>6. Common = LcsLengths(a, b)[<<0, 0>>]
    BY <1>1, <2>1 DEF DiffInv, Counting
  <2> QED
    BY <2>1, <2>5, <2>6, FS_CardinalityType
<1> QED
  BY <1>1, DiffInductive, PTL

\* Every hunk stands where the counts of skipped lines of it and of those
\* before it say.
THEOREM HunksInPlace == Spec => []SkipsAddUp
<1>1. Placed => SkipsAddUp
  BY DEF Placed, SkipsAddUp
<1>2. DiffInv => SkipsAddUp
  BY <1>1 DEF DiffInv
<1> QED
  BY <1>2, DiffInductive, PTL

\* toHunks shows every change with the lines within Context of it and no other
\* line, and no two hunks without a marker between them.
THEOREM ShowsEveryChange == Spec => []HunksShowChanges
BY DiffInductive, PTL DEF DiffInv
=============================================================================
