------------------------------ MODULE LineDiff ------------------------------
(***************************************************************************)
(* The difference of one file that the change review shows: diffLines,     *)
(* which walks both files along a table of longest common subsequences,    *)
(* and toHunks, which keeps Context unchanged lines around every change.   *)
(* The loops are steps; positions in the difference count from one.        *)
(***************************************************************************)
EXTENDS Integers, Sequences, FiniteSets, SequencesExt

CONSTANTS
  Lines,     \* contents of a line
  Context,   \* unchanged lines kept around a change; the panel keeps 3
  MaxLines   \* bound: lines in a file

ASSUME DiffAssumption ==
  /\ Context \in Nat
  /\ MaxLines \in Nat

VARIABLES
  original, modified,  \* the two files as the server returns them
  a, b,                \* their lines
  table,               \* lcsLengths of a and b
  i, j,                \* lines of a and of b walked past
  out,                 \* the difference so far
  at,                  \* the change toHunks has come to; 0 before the first
  start, end,          \* the hunk that is open
  previousEnd,         \* where the last closed hunk ends
  hunks,
  phase

diffVars == <<a, b, table, i, j, out>>
hunkVars == <<at, start, end, previousEnd, hunks>>
vars == <<original, modified, diffVars, hunkVars, phase>>

\* A file: its lines, and whether a newline ends the last one.  A file that is
\* absent is read as an empty one.
Texts ==
  {t \in [lines : BoundedSeq(Lines, MaxLines), ended : BOOLEAN] :
     t.lines = <<>> => ~t.ended}

\* splitLines: a final newline ends the last line and starts none.
SplitLines(t) == t.lines
-----------------------------------------------------------------------------
\* lcsLengths: the entry for i and j is about the lines after them.
LcsLengths(s, t) ==
  LET L[p \in (0..Len(s)) \X (0..Len(t))] ==
        IF p[1] = Len(s) \/ p[2] = Len(t) THEN 0
        ELSE IF s[p[1] + 1] = t[p[2] + 1]
             THEN L[<<p[1] + 1, p[2] + 1>>] + 1
        ELSE LET down  == L[<<p[1] + 1, p[2]>>]
                 right == L[<<p[1], p[2] + 1>>]
             IN  IF down > right THEN down ELSE right
  IN  L

Init ==
  /\ original \in Texts
  /\ modified \in Texts
  /\ a = <<>>
  /\ b = <<>>
  /\ table = <<>>
  /\ i = 0
  /\ j = 0
  /\ out = <<>>
  /\ at = 0
  /\ start = 0
  /\ end = 0
  /\ previousEnd = 0
  /\ hunks = <<>>
  /\ phase = "split"

Split ==
  /\ phase = "split"
  /\ a' = SplitLines(original)
  /\ b' = SplitLines(modified)
  /\ table' = LcsLengths(a', b')
  /\ phase' = "walk"
  /\ UNCHANGED <<original, modified, i, j, out, hunkVars>>
-----------------------------------------------------------------------------
(***************************************************************************)
(* diffLines.                                                              *)
(***************************************************************************)
InBoth == i < Len(a) /\ j < Len(b)

KeepLine ==
  /\ phase = "walk"
  /\ InBoth
  /\ a[i + 1] = b[j + 1]
  /\ out' = Append(out, [kind |-> "context", originalLine |-> i + 1,
                         modifiedLine |-> j + 1, text |-> a[i + 1]])
  /\ i' = i + 1
  /\ j' = j + 1
  /\ UNCHANGED <<original, modified, a, b, table, hunkVars, phase>>

\* Mutant: the walk goes where less is in common.
LessToTheRight == table[<<i + 1, j>>] =< table[<<i, j + 1>>]

\* Where the lines differ, the walk goes where more is in common.
DownFirst == table[<<i + 1, j>>] >= table[<<i, j + 1>>]

RemoveLine ==
  /\ phase = "walk"
  /\ i < Len(a)
  /\ InBoth => a[i + 1] # b[j + 1] /\ DownFirst
  /\ out' = Append(out, [kind |-> "removed", originalLine |-> i + 1,
                         text |-> a[i + 1]])
  /\ i' = i + 1
  /\ UNCHANGED <<original, modified, a, b, table, j, hunkVars, phase>>

\* Mutant: an added line is numbered as in the file it is missing from.
AddWithOtherNumber ==
  /\ phase = "walk"
  /\ j < Len(b)
  /\ InBoth => a[i + 1] # b[j + 1] /\ ~DownFirst
  /\ out' = Append(out, [kind |-> "added", modifiedLine |-> i + 1,
                         text |-> b[j + 1]])
  /\ j' = j + 1
  /\ UNCHANGED <<original, modified, a, b, table, i, hunkVars, phase>>

AddLine ==
  /\ phase = "walk"
  /\ j < Len(b)
  /\ InBoth => a[i + 1] # b[j + 1] /\ ~DownFirst
  /\ out' = Append(out, [kind |-> "added", modifiedLine |-> j + 1,
                         text |-> b[j + 1]])
  /\ j' = j + 1
  /\ UNCHANGED <<original, modified, a, b, table, i, hunkVars, phase>>
-----------------------------------------------------------------------------
(***************************************************************************)
(* toHunks.                                                                *)
(***************************************************************************)
Changed == {p \in DOMAIN out : out[p].kind # "context"}
Ahead == {p \in Changed : p > at}

IsNext(p) == p \in Ahead /\ \A q \in Ahead : p <= q

FirstShown(p) == IF p > Context THEN p - Context ELSE 1
LastShown(p) == IF p + Context < Len(out) THEN p + Context ELSE Len(out)

\* Mutant: hunks that touch stay apart.
OnlyOverlapping(p) == p - Context <= end

\* The padding of the next change meets the open hunk.
Touches(p) == p - Context <= end + 1

\* Mutant: the lines skipped are counted from the top of the file.
SkippedFromTop(s) == s - 1

SkippedBefore(s) == s - previousEnd - 1

Closed == Append(hunks, [lines |-> SubSeq(out, start, end),
                         skippedBefore |-> SkippedBefore(start)])

Diffed ==
  /\ phase = "walk"
  /\ i = Len(a) /\ j = Len(b)
  /\ IF Changed = {}
     THEN phase' = "done" /\ UNCHANGED hunkVars
     ELSE /\ phase' = "hunks"
          /\ \E p \in Changed :
               /\ IsNext(p)
               /\ at' = p
               /\ start' = FirstShown(p)
               /\ end' = LastShown(p)
          /\ UNCHANGED <<previousEnd, hunks>>
  /\ UNCHANGED <<original, modified, diffVars>>

Extend ==
  /\ phase = "hunks"
  /\ \E p \in Ahead :
       /\ IsNext(p)
       /\ Touches(p)
       /\ at' = p
       /\ end' = LastShown(p)
  /\ UNCHANGED <<original, modified, diffVars, start, previousEnd, hunks,
                 phase>>

Break ==
  /\ phase = "hunks"
  /\ \E p \in Ahead :
       /\ IsNext(p)
       /\ ~Touches(p)
       /\ at' = p
       /\ start' = FirstShown(p)
       /\ end' = LastShown(p)
  /\ hunks' = Closed
  /\ previousEnd' = end
  /\ UNCHANGED <<original, modified, diffVars, phase>>

CloseLast ==
  /\ phase = "hunks"
  /\ Ahead = {}
  /\ hunks' = Closed
  /\ phase' = "done"
  /\ UNCHANGED <<original, modified, diffVars, at, start, end, previousEnd>>

Next == \/ Split \/ KeepLine \/ RemoveLine \/ AddLine
        \/ Diffed \/ Extend \/ Break \/ CloseLast

Spec == Init /\ [][Next]_vars
-----------------------------------------------------------------------------
\* The places in the difference of the lines of one side.
OnSide(kind) == {p \in DOMAIN out : out[p].kind \in {"context", kind}}

Common == Cardinality(DOMAIN out) - Cardinality(Changed)

\* The difference holds each file as it is: without the added lines it is the
\* original up to where the walk stands, without the removed ones the
\* modified, each line once, in its place and with its own number.
Rebuilds ==
  phase # "split" =>
    /\ {<<out[p].originalLine, out[p].text>> : p \in OnSide("removed")} =
         {<<k, original.lines[k]>> : k \in 1..i}
    /\ {<<out[p].modifiedLine, out[p].text>> : p \in OnSide("added")} =
         {<<k, modified.lines[k]>> : k \in 1..j}
    /\ \A p, q \in OnSide("removed") :
         p < q => out[p].originalLine < out[q].originalLine
    /\ \A p, q \in OnSide("added") :
         p < q => out[p].modifiedLine < out[q].modifiedLine

\* The lines of the original at D stand in the modified file at f, in the same
\* order.
InCommon(D, f) ==
  /\ \A p \in D : original.lines[p] = modified.lines[f[p]]
  /\ \A p, q \in D : p < q => f[p] < f[q]

\* No difference with fewer changed lines exists: the lines kept are a longest
\* common subsequence of the two files.
Shortest ==
  phase = "done" =>
    \A D \in SUBSET DOMAIN original.lines :
      Cardinality(D) > Common =>
        \A f \in [D -> DOMAIN modified.lines] : ~InCommon(D, f)

\* The counts of skipped lines add up: each hunk stands in the difference where
\* the marker before it, counted from the end of the hunk before, says.
SkipsAddUp ==
  \E offset \in [DOMAIN hunks -> 0..Len(out)] :
    \A h \in DOMAIN hunks :
      LET before == IF h = 1 THEN 0
                    ELSE offset[h - 1] + Len(hunks[h - 1].lines)
          last == offset[h] + Len(hunks[h].lines)
      IN  /\ offset[h] = before + hunks[h].skippedBefore
          /\ last <= Len(out)
          /\ hunks[h].lines = SubSeq(out, offset[h] + 1, last)

\* The panel shows every changed line and exactly the unchanged lines within
\* Context of one, and a marker stands between any two hunks.
HunksShowChanges ==
  phase = "done" =>
    /\ UNION {ToSet(hunks[h].lines) : h \in DOMAIN hunks} =
         {out[p] : p \in {q \in DOMAIN out :
            \E c \in Changed : q - Context <= c /\ c <= q + Context}}
    /\ \A h \in DOMAIN hunks : h > 1 => hunks[h].skippedBefore > 0
=============================================================================
