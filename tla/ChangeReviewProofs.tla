------------------------- MODULE ChangeReviewProofs -------------------------
(***************************************************************************)
(* Theorems about the change review, for every set of files, contents and  *)
(* loads and every layout: the types, that a row asks for its diff once,   *)
(* that no diff outlives a refresh, and that the diff of a row is that of  *)
(* the change the list names when both were read in one state.             *)
(***************************************************************************)
EXTENDS ChangeReview, TLAPS

\* What a request or a row may hold.
LoadedRows == [status : {"loaded"}, original : Texts, modified : Texts,
               from : Nat, quiet : BOOLEAN]
Rows ==
  LoadedRows \cup {NoRow, LoadingRow} \cup [status : {"failed", "refused"}]
Requests ==
  [pc : {"free", "sent", "revisions", "compare", "half", "answered", "refused",
         "failed"},
   head : Nat, up : Nat, base : Nat, from : Nat, quiet : BOOLEAN,
   out : {"none"} \cup Texts \cup (SUBSET Changes) \cup LoadedRows]

\* The branch, and the commit a list read of one state was compared with.
History ==
  /\ layout \in {"feature", "worktree", "main", "alone"}
  /\ commits \in Seq(Trees) /\ Tip >= 1
  /\ upstream \in 0..Tip /\ (layout = "main" => upstream # 0)
  /\ work \in Trees
  /\ now \in 0..MaxOps /\ clicked \in 0..now /\ since \in (0..now) \cup {Torn}
  /\ since # Torn => against \in 1..Tip

\* The base both endpoints choose while the agent does nothing, and the list.
BaseNow == DisplayBase(Tip, upstream, HasTrackedChanges)
ListNow == TrackedChanges(BaseNow) \cup UntrackedFiles

\* What a request has read so far; what it read in this state is this state's.
Reading ==
  /\ req \in [Reqs -> Requests]
  /\ \A r \in Reqs :
       /\ req[r].pc = "refused" => r \in Files
       /\ req[r].pc \in {"revisions", "compare", "half"} =>
            /\ req[r].from <= now
            /\ r \in Files => clicked <= req[r].from
            /\ r \in Files /\ req[r].from = now => work[r] # Absent
       /\ req[r].pc = "revisions" =>
            /\ req[r].head \in 1..Tip
            /\ req[r].up \in 0..Tip
            /\ layout = "main" => req[r].up # 0
            /\ req[r].from = now => req[r].head = Tip /\ req[r].up = upstream
       /\ req[r].pc = "compare" =>
            /\ req[r].base \in 1..Tip
            /\ req[r].from = now => req[r].base = BaseNow
       /\ req[r].pc = "half" =>
            IF r \in Loads
            THEN /\ req[r].out \in SUBSET Changes
                 /\ req[r].quiet => req[r].base \in 1..Tip
                 /\ req[r].quiet /\ req[r].from = now =>
                      /\ req[r].base = BaseNow
                      /\ req[r].out = TrackedChanges(BaseNow)
            ELSE /\ req[r].out \in Texts
                 /\ req[r].quiet /\ req[r].from = now =>
                      req[r].out = Original(commits[BaseNow][r])
       /\ req[r].pc = "answered" =>
            IF r \in Loads
            THEN /\ req[r].out \in SUBSET Changes /\ req[r].from <= now
                 /\ req[r].quiet => req[r].base \in 1..Tip
            ELSE req[r].out \in LoadedRows
                 /\ req[r].out.from \in clicked..now

\* The rows on the screen.
Screen ==
  /\ list \in {"closed", "loading", "loaded", "failed"}
  /\ shown \subseteq Changes
  /\ list # "loaded" => shown = {}
  /\ expanded \subseteq Listed
  /\ diff \in [Files -> Rows]
  /\ asked \in [Files -> Nat]
  /\ \A p \in Files :
       /\ p \notin Listed => diff[p] = NoRow
       /\ asked[p] = IF diff[p] = NoRow THEN 0 ELSE 1
       /\ diff[p] = LoadingRow <=> req[p].pc # "free"
       /\ diff[p] \in LoadedRows => diff[p].from \in clicked..now

\* A diff and a list that were read while the agent did nothing: on the screen
\* or in an answer on its way.
HasRow(p, d) ==
  d.quiet /\ (diff[p] = d \/ (req[p].pc = "answered" /\ req[p].out = d))
HasList(S, t, b) ==
  \/ S = shown /\ t = since /\ b = against
  \/ \E l \in Loads : /\ req[l].pc = "answered" /\ req[l].quiet
                      /\ S = req[l].out /\ t = req[l].from /\ b = req[l].base

\* The diff d of the path p is that of a change of the list S against b.
StatusesIn(S, p) == {c.status : c \in {e \in S : e.path = p}}
Fits(p, d, S, b) ==
  LET was == commits[b][p]
  IN  /\ d.original = Original(was)
      /\ \E is \in Contents :
           /\ d.modified = Modified(is)
           /\ \/ StatusesIn(S, p) = {"ADDED"} /\ was = Absent
              \/ StatusesIn(S, p) = {"UPDATED"} /\ was \notin {Absent, is}
              \/ StatusesIn(S, p) = {"ADDED", "DELETED"} /\ was # Absent

\* Those read in this state say what it holds; those read in one state agree.
FreshRows ==
  \A p \in Files, d \in LoadedRows :
    HasRow(p, d) /\ d.from = now =>
      /\ work[p] # Absent
      /\ d.original = Original(commits[BaseNow][p])
      /\ d.modified = Modified(work[p])
FreshLists == \A S, b : HasList(S, now, b) => S = ListNow /\ b = BaseNow
Agree ==
  \A p \in Files, d \in LoadedRows : \A S, b :
    HasRow(p, d) /\ HasList(S, d.from, b) /\ StatusesIn(S, p) # {} =>
      Fits(p, d, S, b)

ReviewInv == History /\ Reading /\ Screen /\ FreshRows /\ FreshLists /\ Agree
-----------------------------------------------------------------------------
\* Whatever an endpoint has read of the branch, it compares with a commit.
LEMMA BaseIsCommit ==
  ASSUME History, NEW head \in 1..Tip, NEW up \in 0..Tip, NEW dirty \in BOOLEAN,
         layout = "main" => up # 0
  PROVE  DisplayBase(head, up, dirty) \in 1..Tip
<1>1. Tip \in Nat
  BY DEF History, Tip
<1> QED
  BY <1>1 DEF DisplayBase, History

\* So does the base of this state.
LEMMA BaseNowIsCommit ==
  ASSUME History
  PROVE  BaseNow \in 1..Tip
<1>1. Tip \in 1..Tip /\ HasTrackedChanges \in BOOLEAN
  BY DEF History, Tip, HasTrackedChanges
<1> QED
  BY <1>1, BaseIsCommit DEF BaseNow, History

\* A text shows on each side of a diff, whatever the content.
LEMMA SidesAreTexts ==
  ASSUME NEW content \in Contents \cup {Absent}
  PROVE  Original(content) \in Texts /\ Modified(content) \in Texts
BY ReviewAssumption DEF ReviewAssumption, Original, Modified

\* Both halves of a list are changes.
LEMMA ListsAreChanges ==
  /\ \A b : TrackedChanges(b) \subseteq Changes
  /\ UntrackedFiles \subseteq Changes
BY DEF TrackedChanges, UntrackedFiles, Changes

\* The diff of a file that is there, against the base of the list, is that of
\* the change the list names.
LEMMA ChangeFits ==
  ASSUME NEW b, NEW p \in Files, work[p] \in Contents, NEW d, NEW S,
         S = TrackedChanges(b) \cup UntrackedFiles, StatusesIn(S, p) # {},
         d.original = Original(commits[b][p]), d.modified = Modified(work[p])
  PROVE  Fits(p, d, S, b)
<1> DEFINE was == commits[b][p]
<1>0. work[p] # Absent
  BY ReviewAssumption DEF ReviewAssumption
<1>1. \A x : x \in StatusesIn(S, p) <=> [path |-> p, status |-> x] \in S
  BY DEF StatusesIn, TrackedChanges, UntrackedFiles
<1>2. \A x : [path |-> p, status |-> x] \in S <=>
        \/ x = "DELETED" /\ was # Absent /\ ~Tracked(p)
        \/ x = "UPDATED" /\ was # Absent /\ Tracked(p) /\ work[p] # was
        \/ x = "ADDED" /\ was = Absent /\ Tracked(p)
        \/ x = "ADDED" /\ ~Tracked(p)
  BY <1>0 DEF TrackedChanges, UntrackedFiles
<1> HIDE DEF was
<1>3. CASE was = Absent
  <2>1. StatusesIn(S, p) = {"ADDED"}
    BY <1>1, <1>2, <1>3
  <2> QED
    BY <1>3, <2>1 DEF Fits, was
<1>4. CASE was # Absent /\ Tracked(p)
  <2>1. work[p] # was /\ StatusesIn(S, p) = {"UPDATED"}
    BY <1>1, <1>2, <1>4
  <2> QED
    BY <1>4, <2>1 DEF Fits, was
<1>5. CASE was # Absent /\ ~Tracked(p)
  <2>1. StatusesIn(S, p) = {"ADDED", "DELETED"}
    BY <1>1, <1>2, <1>5
  <2> QED
    BY <1>5, <2>1 DEF Fits, was
<1> QED
  BY <1>3, <1>4, <1>5

\* A list of one state was compared with a commit, when the state was.
LEMMA ListsAreKnown ==
  ASSUME ReviewInv, NEW S, NEW t, NEW b, HasList(S, t, b), t # Torn
  PROVE  S \subseteq Changes /\ t \in 0..now /\ b \in 1..Tip
<1> USE DEF ReviewInv
<1>1. CASE S = shown /\ t = since /\ b = against
  BY <1>1 DEF History, Screen
<1>2. CASE ~(S = shown /\ t = since /\ b = against)
  <2>1. PICK l \in Loads : /\ req[l].pc = "answered" /\ req[l].quiet
                          /\ S = req[l].out /\ t = req[l].from
                          /\ b = req[l].base
    BY <1>2 DEF HasList
  <2>2. /\ l \in Reqs /\ req[l].out \in SUBSET Changes /\ req[l].from <= now
        /\ req[l].base \in 1..Tip /\ req[l].from \in Nat
    BY <2>1 DEF Reqs, Reading, Requests
  <2> QED
    BY <2>1, <2>2 DEF History
<1> QED
  BY <1>1, <1>2

\* What a row holds, or its answer, was read after the list was last asked for.
LEMMA RowsAreRecent ==
  ASSUME ReviewInv, NEW p \in Files, NEW d \in LoadedRows, HasRow(p, d)
  PROVE  d.from \in 0..now /\ d.from # Torn
<1>1. p \in Reqs /\ p \notin Loads /\ MaxOps \in Nat
  BY ReviewAssumption DEF Reqs, ReviewAssumption
<1>2. d.from \in clicked..now
  BY <1>1 DEF ReviewInv, HasRow, Screen, Reading
<1> QED
  BY <1>1, <1>2 DEF ReviewInv, History, Torn
-----------------------------------------------------------------------------
\* The agent makes a new state: nothing has been read in it.
LEMMA AgentKeeps ==
  ASSUME ReviewInv, Agent
  PROVE  ReviewInv'
<1> USE DEF ReviewInv
<1>1. /\ Works /\ now' = now + 1 /\ now \in Nat /\ now' \in 0..MaxOps
      /\ MaxOps \in Nat
      /\ UNCHANGED <<layout, list, shown, since, against, clicked, expanded,
                     diff, asked, req>>
  BY ReviewAssumption DEF Agent, Write, Delete, Commit, Push, Works, listVars,
     rowVars, History, ReviewAssumption
<1>2. Tip \in Nat /\ Tip' \in Nat /\ Tip <= Tip' /\ commits' \in Seq(Trees)
  <2>1. CASE commits' = commits
    BY <2>1 DEF History, Tip
  <2>2. CASE Commit
    BY <2>2 DEF Commit, History, Tip
  <2> QED
    BY <2>1, <2>2 DEF Agent, Write, Delete, Push
<1>3. \A b \in 1..Tip : commits'[b] = commits[b]
  <2>1. CASE commits' = commits
    BY <2>1
  <2>2. CASE Commit
    BY <2>2 DEF Commit, History, Tip
  <2> QED
    BY <2>1, <2>2 DEF Agent, Write, Delete, Push
<1>4. History'
  <2>1. upstream' \in 0..Tip' /\ (layout' = "main" => upstream' # 0)
    BY <1>1, <1>2 DEF History, Agent, Write, Delete, Commit, Push, Tip
  <2>2. work' \in Trees
    BY DEF History, Agent, Write, Delete, Commit, Push, Trees
  <2>3. /\ clicked \in 0..now' /\ since \in (0..now') \cup {Torn}
        /\ against' = against /\ (since # Torn => against \in 1..Tip')
    BY <1>1, <1>2 DEF History
  <2> QED
    BY <1>1, <1>2, <2>1, <2>2, <2>3 DEF History, Torn
<1>5. Reading'
  <2>1. ASSUME NEW r \in Reqs, req[r].pc \in {"revisions", "compare", "half"}
        PROVE  req[r].from <= now' /\ req[r].from # now'
    BY <1>1, <2>1 DEF Reading, Requests
  <2>2. /\ 1..Tip \subseteq 1..Tip' /\ 0..Tip \subseteq 0..Tip'
        /\ clicked..now \subseteq clicked..now'
    BY <1>1, <1>2 DEF History
  <2>3. ASSUME NEW r \in Reqs, req[r].from <= now PROVE req[r].from <= now'
    BY <1>1, <2>3 DEF Reading, Requests
  <2> QED
    BY <1>1, <2>1, <2>2, <2>3 DEF Reading
<1>6. Screen'
  <2>1. clicked..now \subseteq clicked..now'
    BY <1>1 DEF History
  <2> QED
    BY <1>1, <2>1 DEF Screen, Listed
<1>7. /\ \A p, d : HasRow(p, d)' <=> HasRow(p, d)
      /\ \A S, t, b : HasList(S, t, b)' <=> HasList(S, t, b)
  BY <1>1 DEF HasRow, HasList
<1>8. \A p \in Files, d \in LoadedRows : HasRow(p, d) => d.from # now'
  BY <1>1, RowsAreRecent
<1>9. \A S, b : ~HasList(S, now', b)
  BY <1>1, ListsAreKnown DEF Torn
<1>10. FreshRows' /\ FreshLists'
  BY <1>7, <1>8, <1>9 DEF FreshRows, FreshLists
<1>11. ASSUME NEW p \in Files, NEW d \in LoadedRows, NEW S, NEW b,
              HasRow(p, d), HasList(S, d.from, b), StatusesIn(S, p) # {}
       PROVE  Fits(p, d, S, b)'
  <2>1. b \in 1..Tip
    BY <1>11, RowsAreRecent, ListsAreKnown
  <2>2. Fits(p, d, S, b)
    BY <1>11 DEF Agree
  <2> QED
    BY <1>3, <2>1, <2>2 DEF Fits
<1>12. Agree'
  BY <1>7, <1>11 DEF Agree
<1> QED
  BY <1>4, <1>5, <1>6, <1>10, <1>12
-----------------------------------------------------------------------------
\* An endpoint answers with what it read; if the agent did nothing meanwhile,
\* with what there is.
LEMMA ServerKeeps ==
  ASSUME ReviewInv, NEW r \in Reqs,
         ReadRevisions(r) \/ ReadStatus(r) \/ Compare(r) \/ Fail(r)
  PROVE  ReviewInv'
<1> USE DEF ReviewInv
<1>0. /\ Loads \cap Files = {} /\ Reqs = Loads \cup Files /\ now \in Nat
      /\ Torn # now
  BY ReviewAssumption DEF ReviewAssumption, Reqs, History, Torn
<1>1. /\ UNCHANGED <<layout, commits, upstream, work, now, list, shown, since,
                     against, clicked, expanded, diff, asked>>
      /\ \A q \in Reqs \ {r} : req'[q] = req[q]
      /\ req[r].pc \notin {"free", "failed", "refused"}
  BY DEF ReadRevisions, ReadStatus, Compare, ReadBase, ReadWork, Read, Fail,
     repoVars, listVars, rowVars, Reading
<1>2. /\ History' /\ Tip' = Tip /\ BaseNow' = BaseNow
      /\ \A b : TrackedChanges(b)' = TrackedChanges(b)
      /\ UntrackedFiles' = UntrackedFiles /\ ListNow' = ListNow
      /\ \A p, d, S, b : Fits(p, d, S, b)' <=> Fits(p, d, S, b)
  BY <1>1 DEF History, Tracked, Tip, BaseNow, HasTrackedChanges, DisplayBase,
     TrackedChanges, UntrackedFiles, ListNow, Fits
<1>3. BaseNow \in 1..Tip /\ Tip \in 1..Tip
  BY BaseNowIsCommit DEF History, Tip
<1> DEFINE Told == req'[r].pc # "answered"
<1>4. ASSUME Told, req' \in [Reqs -> Requests], req'[r].pc # "free",
             Reading' PROVE ReviewInv'
  <2>1. Screen'
    BY <1>0, <1>1, <1>4 DEF Screen, Listed
  <2>2. \A p \in Files, d \in LoadedRows : HasRow(p, d)' => HasRow(p, d)
    BY <1>0, <1>1, <1>4 DEF HasRow
  <2>3. \A S, t, b : HasList(S, t, b)' => HasList(S, t, b)
    BY <1>0, <1>1, <1>4 DEF HasList
  <2>4. FreshRows'
    BY <1>1, <1>2, <2>2 DEF FreshRows
  <2>5. FreshLists'
    BY <1>0, <1>1, <1>2, <2>3 DEF FreshLists
  <2>6. Agree'
    BY <1>2, <2>2, <2>3 DEF Agree
  <2> QED
    BY <1>2, <1>4, <2>1, <2>4, <2>5, <2>6
<1>5. CASE ReadRevisions(r)
  <2>1. req' = [req EXCEPT ![r] =
          IF r \in Files /\ work[r] = Absent
          THEN [req[r] EXCEPT !.pc = "refused"]
          ELSE [req[r] EXCEPT !.pc = "revisions", !.head = Tip, !.up = upstream,
                              !.from = now]]
    BY <1>5 DEF ReadRevisions
  <2>2. req' \in [Reqs -> Requests]
    <3>1. Tip \in Nat /\ upstream \in Nat /\ req[r] \in Requests
      BY DEF Reading, History, Tip
    <3>2. [req[r] EXCEPT !.pc = "refused"] \in Requests
      BY <3>1 DEF Requests
    <3>3. [req[r] EXCEPT !.pc = "revisions", !.head = Tip, !.up = upstream,
                         !.from = now] \in Requests
      BY <1>0, <3>1 DEF Requests
    <3> QED
      BY <2>1, <3>2, <3>3 DEF Reading
  <2>3. CASE r \in Files /\ work[r] = Absent
    <3>1. req'[r].pc = "refused"
      BY <2>1, <2>3 DEF Reading, Requests
    <3>2. Reading'
      BY <1>1, <1>2, <2>2, <2>3, <3>1 DEF Reading
    <3> QED
      BY <1>4, <2>2, <3>1, <3>2
  <2>4. CASE ~(r \in Files /\ work[r] = Absent)
    <3>1. /\ req'[r].pc = "revisions" /\ req'[r].head = Tip
          /\ req'[r].up = upstream /\ req'[r].from = now
      BY <2>1, <2>4 DEF Reading, Requests
    <3>2. Reading'
      BY <1>0, <1>1, <1>2, <1>3, <2>2, <2>4, <3>1 DEF Reading, History
    <3> QED
      BY <1>4, <2>2, <3>1, <3>2
  <2> QED
    BY <2>3, <2>4
<1>6. CASE ReadStatus(r)
  <2> DEFINE b == DisplayBase(req[r].head, req[r].up, HasTrackedChanges)
  <2>1. /\ req[r].pc = "revisions"
        /\ req' = [req EXCEPT ![r] = [NoRequest EXCEPT !.pc = "compare",
                                        !.from = req[r].from, !.base = b]]
    BY <1>6 DEF ReadStatus
  <2>2. b \in 1..Tip /\ (req[r].from = now => b = BaseNow)
    BY <2>1, BaseIsCommit DEF Reading, BaseNow, HasTrackedChanges
  <2> HIDE DEF b
  <2>3. b \in Nat /\ req[r].from \in Nat
    BY <2>2 DEF Reading, Requests, History, Tip
  <2>4. req'[r] = [NoRequest EXCEPT !.pc = "compare", !.from = req[r].from,
                                    !.base = b]
    BY <2>1 DEF Reading
  <2>5. /\ req'[r].pc = "compare" /\ req'[r].from = req[r].from
        /\ req'[r].base = b /\ req'[r] \in Requests
    <3>1. req'[r] = [pc |-> "compare", head |-> 0, up |-> 0, base |-> b,
                     from |-> req[r].from, quiet |-> FALSE, out |-> "none"]
      BY <2>4 DEF NoRequest
    <3> QED
      BY <2>3, <3>1 DEF Requests
  <2>6. req' \in [Reqs -> Requests]
    BY <2>1, <2>5 DEF Reading
  <2>7. Reading'
    BY <1>1, <1>2, <2>1, <2>2, <2>5, <2>6 DEF Reading
  <2> QED
    BY <1>4, <2>5, <2>6, <2>7
<1>7. CASE Fail(r)
  <2>1. req' = [req EXCEPT ![r] = [NoRequest EXCEPT !.pc = "failed"]]
    BY <1>7 DEF Fail
  <2>2. req'[r] \in Requests /\ req'[r].pc = "failed"
    BY <2>1 DEF Reading, NoRequest, Requests
  <2>3. req' \in [Reqs -> Requests]
    BY <2>1, <2>2 DEF Reading
  <2>4. Reading'
    BY <1>1, <1>2, <2>2, <2>3 DEF Reading
  <2> QED
    BY <1>4, <2>2, <2>3, <2>4
<1>8. ASSUME NEW pc \in {"half", "answered"}, NEW quiet \in BOOLEAN,
             NEW out \in Texts \cup (SUBSET Changes) \cup LoadedRows,
             Read(r, pc, quiet, out)
      PROVE  /\ req' \in [Reqs -> Requests]
             /\ req'[r].pc = pc /\ req'[r].from = req[r].from
             /\ req'[r].quiet = quiet /\ req'[r].out = out
             /\ r \in Loads /\ quiet => req'[r].base = req[r].base
  <2> DEFINE b == IF r \in Loads /\ quiet THEN req[r].base ELSE 0
             new == [pc |-> pc, head |-> 0, up |-> 0, base |-> b,
                     from |-> req[r].from, quiet |-> quiet, out |-> out]
  <2>1. req' = [req EXCEPT ![r] = new]
    BY <1>8 DEF Read
  <2>2. b \in Nat /\ req[r].from \in Nat
    BY DEF Reading, Requests
  <2>3. new \in Requests
    <3> HIDE DEF b
    <3> QED
      BY <2>2 DEF Requests
  <2> QED
    BY <2>1, <2>3 DEF Reading
<1>9. ASSUME ReadBase(r), r \in Loads PROVE ReviewInv'
  <2> DEFINE S == TrackedChanges(req[r].base)
  <2>1. /\ req[r].pc = "compare" /\ r \notin Files
        /\ Read(r, "half", Quiet(r), S)
    BY <1>0, <1>9 DEF ReadBase
  <2>2. S \in SUBSET Changes /\ Quiet(r) \in BOOLEAN
    BY ListsAreChanges DEF Quiet
  <2>3. /\ req[r].base \in 1..Tip /\ req[r].from <= now
        /\ req[r].from = now => req[r].base = BaseNow
                               /\ S = TrackedChanges(BaseNow)
    BY <2>1 DEF Reading
  <2> HIDE DEF S
  <2>4. /\ req' \in [Reqs -> Requests]
        /\ req'[r].pc = "half" /\ req'[r].from = req[r].from
        /\ req'[r].quiet = Quiet(r) /\ req'[r].out = S
        /\ Quiet(r) => req'[r].base = req[r].base
    BY <1>8, <1>9, <2>1, <2>2
  <2>5. Reading'
    BY <1>1, <1>2, <1>9, <2>1, <2>2, <2>3, <2>4 DEF Reading
  <2> QED
    BY <1>4, <2>4, <2>5
<1>10. ASSUME ReadBase(r), r \in Files PROVE ReviewInv'
  <2> DEFINE text == Original(commits[req[r].base][r])
  <2>1. req[r].pc = "compare" /\ r \notin Loads
    BY <1>0, <1>10 DEF ReadBase
  <2>2. PICK got \in {text, Empty} :
          Read(r, "half", Quiet(r) /\ got = text, got)
    BY <1>10, <2>1 DEF ReadBase
  <2>3. /\ req[r].base \in 1..Tip /\ req[r].from <= now
        /\ clicked <= req[r].from
        /\ req[r].from = now => /\ work[r] # Absent
                               /\ text = Original(commits[BaseNow][r])
    BY <1>10, <2>1 DEF Reading
  <2>4. got \in Texts
    <3>1. commits[req[r].base] \in Trees
      BY <2>3 DEF History, Tip
    <3>2. commits[req[r].base][r] \in Contents \cup {Absent}
      BY <1>10, <3>1 DEF Trees
    <3> QED
      BY <3>2, SidesAreTexts, ReviewAssumption DEF ReviewAssumption
  <2> HIDE DEF text
  <2> DEFINE quiet == Quiet(r) /\ got = text
  <2>5. quiet \in BOOLEAN /\ (quiet => req[r].from = now /\ got = text)
    BY DEF Quiet
  <2>6. Read(r, "half", quiet, got)
    BY <2>2
  <2> HIDE DEF quiet
  <2>7. /\ req' \in [Reqs -> Requests]
        /\ req'[r].pc = "half" /\ req'[r].from = req[r].from
        /\ req'[r].quiet = quiet /\ req'[r].out = got
    BY <1>8, <2>4, <2>5, <2>6
  <2>8. Reading'
    BY <1>1, <1>2, <1>10, <2>1, <2>3, <2>4, <2>5, <2>7 DEF Reading
  <2> QED
    BY <1>4, <2>7, <2>8
<1>11. ASSUME ReadWork(r), r \in Loads PROVE ReviewInv'
  <2>1. req[r].pc = "half" /\ r \notin Files
    BY <1>0, <1>11 DEF ReadWork
  <2>2. PICK got \in {UntrackedFiles, {}} :
          Read(r, "answered",
               (req[r].quiet /\ Quiet(r)) /\ got = UntrackedFiles,
               req[r].out \cup got)
    BY <1>11 DEF ReadWork
  <2> DEFINE quiet == (req[r].quiet /\ Quiet(r)) /\ got = UntrackedFiles
             S == req[r].out \cup got
  <2>3. /\ req[r].out \in SUBSET Changes /\ req[r].from <= now
        /\ req[r].quiet => req[r].base \in 1..Tip
        /\ req[r].quiet /\ req[r].from = now =>
             req[r].base = BaseNow /\ req[r].out = TrackedChanges(BaseNow)
        /\ req[r].quiet \in BOOLEAN
    BY <1>11, <2>1 DEF Reading, Requests
  <2>4. /\ S \in SUBSET Changes /\ quiet \in BOOLEAN
        /\ quiet => /\ req[r].from = now /\ S = ListNow
                    /\ req[r].base = BaseNow
    BY <2>3, ListsAreChanges DEF Quiet, ListNow
  <2>5. Read(r, "answered", quiet, S)
    BY <2>2
  <2> HIDE DEF quiet, S
  <2>6. /\ req' \in [Reqs -> Requests]
        /\ req'[r].pc = "answered" /\ req'[r].from = req[r].from
        /\ req'[r].quiet = quiet /\ req'[r].out = S
        /\ quiet => req'[r].base = BaseNow
    BY <1>8, <1>11, <2>4, <2>5
  <2>7. Reading'
    BY <1>1, <1>2, <1>3, <1>11, <2>1, <2>3, <2>4, <2>6 DEF Reading
  <2>8. Screen'
    BY <1>0, <1>1, <2>1, <2>6 DEF Screen, Listed
  <2>9. \A p \in Files : \A d : HasRow(p, d)' <=> HasRow(p, d)
    BY <1>0, <1>1, <2>1 DEF HasRow
  <2>10. ASSUME NEW T, NEW t, NEW b, HasList(T, t, b)', ~HasList(T, t, b)
         PROVE  T = ListNow /\ t = now /\ b = BaseNow
    <3>1. PICK l \in Loads : /\ req'[l].pc = "answered" /\ req'[l].quiet
                            /\ T = req'[l].out /\ t = req'[l].from
                            /\ b = req'[l].base
      BY <1>1, <2>10 DEF HasList
    <3>2. l = r
      BY <1>0, <1>1, <2>10, <3>1 DEF HasList
    <3> QED
      BY <2>4, <2>6, <3>1, <3>2
  <2>11. FreshRows' /\ FreshLists'
    BY <1>1, <1>2, <2>9, <2>10 DEF FreshRows, FreshLists
  <2>12. ASSUME NEW p \in Files, NEW d \in LoadedRows, NEW T, NEW b,
                HasRow(p, d), HasList(T, d.from, b)', StatusesIn(T, p) # {}
         PROVE  Fits(p, d, T, b)
    <3>1. CASE HasList(T, d.from, b)
      BY <2>12, <3>1 DEF Agree
    <3>2. CASE ~HasList(T, d.from, b)
      <4>1. T = ListNow /\ d.from = now /\ b = BaseNow
        BY <2>10, <2>12, <3>2
      <4>2. /\ work[p] # Absent /\ d.original = Original(commits[b][p])
            /\ d.modified = Modified(work[p])
        BY <2>12, <4>1 DEF FreshRows
      <4>3. work[p] \in Contents
        BY <4>2 DEF History, Trees
      <4> QED
        BY <2>12, <4>1, <4>2, <4>3, ChangeFits DEF ListNow
    <3> QED
      BY <3>1, <3>2
  <2>13. Agree'
    BY <1>2, <2>9, <2>12 DEF Agree
  <2> QED
    BY <1>2, <2>7, <2>8, <2>11, <2>13
<1>12. ASSUME ReadWork(r), r \in Files PROVE ReviewInv'
  <2> DEFINE text == Modified(work[r])
             calm == req[r].quiet /\ Quiet(r)
  <2>1. req[r].pc = "half" /\ r \notin Loads
    BY <1>0, <1>12 DEF ReadWork
  <2>2. PICK got \in {text, Empty} :
          Read(r, "answered", calm /\ got = text,
               [status |-> "loaded", original |-> req[r].out,
                modified |-> got, from |-> req[r].from,
                quiet |-> calm /\ got = text])
    BY <2>1, <1>12 DEF ReadWork
  <2> DEFINE quiet == calm /\ got = text
             row == [status |-> "loaded", original |-> req[r].out,
                     modified |-> got, from |-> req[r].from, quiet |-> quiet]
  <2>3. /\ req[r].out \in Texts /\ req[r].from <= now
        /\ clicked <= req[r].from /\ req[r].from \in Nat
        /\ req[r].from = now => work[r] # Absent
        /\ req[r].quiet /\ req[r].from = now =>
             req[r].out = Original(commits[BaseNow][r])
        /\ req[r].quiet \in BOOLEAN
    BY <1>12, <2>1 DEF Reading, Requests
  <2>4. got \in Texts
    <3>1. work[r] \in Contents \cup {Absent}
      BY <1>12 DEF History, Trees
    <3> QED
      BY <3>1, SidesAreTexts, ReviewAssumption DEF ReviewAssumption
  <2>5. /\ quiet \in BOOLEAN
        /\ quiet => /\ req[r].quiet /\ req[r].from = now
                    /\ got = Modified(work[r])
    BY <2>3 DEF Quiet
  <2>6. Read(r, "answered", quiet, row)
    BY <2>2
  <2> HIDE DEF text, calm, quiet
  <2>7. row \in LoadedRows /\ row.from \in clicked..now
    BY <2>3, <2>4, <2>5 DEF LoadedRows, History
  <2>8. row.quiet => /\ row.from = now /\ work[r] # Absent
                     /\ row.original = Original(commits[BaseNow][r])
                     /\ row.modified = Modified(work[r])
    BY <2>3, <2>5
  <2> HIDE DEF row
  <2>9. /\ req' \in [Reqs -> Requests]
        /\ req'[r].pc = "answered" /\ req'[r].out = row
    <3>1. /\ quiet \in BOOLEAN
          /\ row \in Texts \cup (SUBSET Changes) \cup LoadedRows
      BY <2>5, <2>7
    <3> QED
      BY <1>8, <2>6, <3>1
  <2>10. Reading'
    BY <1>1, <1>2, <1>12, <2>1, <2>7, <2>9 DEF Reading
  <2>11. Screen'
    BY <1>0, <1>1, <2>1, <2>9 DEF Screen, Listed
  <2>12. \A p \in Files : \A d : HasRow(p, d)' =>
           HasRow(p, d) \/ (p = r /\ d = row /\ row.quiet)
    BY <1>0, <1>1, <2>9 DEF HasRow
  <2>13. \A S, t, b : HasList(S, t, b)' <=> HasList(S, t, b)
    BY <1>0, <1>1, <2>1 DEF HasList
  <2>14. FreshRows' /\ FreshLists'
    BY <1>1, <1>2, <2>8, <2>12, <2>13 DEF FreshRows, FreshLists
  <2>15. ASSUME NEW p \in Files, NEW d \in LoadedRows, NEW S, NEW b,
                HasRow(p, d)', HasList(S, d.from, b), StatusesIn(S, p) # {}
         PROVE  Fits(p, d, S, b)
    <3>1. CASE HasRow(p, d)
      BY <2>15, <3>1 DEF Agree
    <3>2. CASE p = r /\ d = row /\ row.quiet
      <4>1. S = ListNow /\ b = BaseNow
        BY <2>8, <2>15, <3>2 DEF FreshLists
      <4>2. work[p] \in Contents
        BY <2>8, <3>2 DEF History, Trees
      <4> QED
        BY <2>8, <2>15, <3>2, <4>1, <4>2, ChangeFits DEF ListNow
    <3> QED
      BY <2>12, <2>15, <3>1, <3>2
  <2>16. Agree'
    BY <1>2, <2>13, <2>15 DEF Agree
  <2> QED
    BY <1>2, <2>10, <2>11, <2>14, <2>16
<1> QED
  BY <1>0, <1>5, <1>6, <1>7, <1>9, <1>10, <1>11, <1>12 DEF Compare
-----------------------------------------------------------------------------
\* A step that only drops or moves what was read leaves the rest in agreement.
LEMMA FewerReadings ==
  ASSUME ReviewInv, UNCHANGED repoVars,
         \A p \in Files, d \in LoadedRows : HasRow(p, d)' => HasRow(p, d),
         \A S, t, b : t # Torn /\ HasList(S, t, b)' => HasList(S, t, b)
  PROVE  FreshRows' /\ FreshLists' /\ Agree'
<1> USE DEF ReviewInv
<1>1. /\ UNCHANGED <<layout, commits, upstream, work, now>>
      /\ now # Torn
  BY ReviewAssumption DEF ReviewAssumption, repoVars, History, Torn
<1>2. /\ BaseNow' = BaseNow /\ ListNow' = ListNow
      /\ \A p, d, S, b : Fits(p, d, S, b)' <=> Fits(p, d, S, b)
  BY <1>1 DEF Tracked, Tip, BaseNow, HasTrackedChanges, DisplayBase,
     ListNow, TrackedChanges, UntrackedFiles, Fits
<1>3. FreshRows' /\ FreshLists'
  BY <1>1, <1>2 DEF FreshRows, FreshLists
<1>4. ASSUME NEW p \in Files, NEW d \in LoadedRows, NEW S, NEW b,
             HasRow(p, d)', HasList(S, d.from, b)', StatusesIn(S, p) # {}
      PROVE  Fits(p, d, S, b)
  <2>1. HasRow(p, d) /\ d.from # Torn
    BY <1>4, RowsAreRecent
  <2> QED
    BY <1>4, <2>1 DEF Agree
<1> QED
  BY <1>2, <1>3, <1>4 DEF Agree

\* Nor does it unsettle the requests that stay.
LEMMA FewerRequests ==
  ASSUME ReviewInv, UNCHANGED <<layout, commits, upstream, work, now, clicked>>,
         req' \in [Reqs -> Requests],
         \A r \in Reqs : req'[r] = req[r] \/ req'[r].pc = "free"
  PROVE  Reading'
<1>1. /\ BaseNow' = BaseNow /\ Tip' = Tip
      /\ TrackedChanges(BaseNow)' = TrackedChanges(BaseNow)
  BY DEF BaseNow, Tip, DisplayBase, HasTrackedChanges, Tracked, TrackedChanges
<1> QED
  BY <1>1 DEF ReviewInv, Reading

\* The list is asked for, fails or is left: no row remains.
LEMMA ListGoes ==
  ASSUME ReviewInv, UNCHANGED repoVars, ShowNothing, Forget(Files),
         list' \in {"closed", "loading", "failed"}, clicked' \in {clicked, now},
         req' \in [Reqs -> Requests],
         \A p \in Files : req'[p] = NoRequest,
         \A l \in Loads :
           req'[l] \in {req[l], NoRequest} \/ req'[l].pc = "sent"
  PROVE  ReviewInv'
<1> USE DEF ReviewInv
<1>0. Reqs = Loads \cup Files /\ NoRequest.pc = "free" /\ now \in Nat
  BY DEF Reqs, NoRequest, History
<1>1. UNCHANGED <<layout, commits, upstream, work, now>>
  BY DEF repoVars
<1>2. shown' = {} /\ since' = Torn /\ History'
  BY <1>1 DEF History, Tip, ShowNothing, Torn
<1>3. \A r \in Reqs : req'[r] = req[r] \/ req'[r].pc \in {"free", "sent"}
  BY <1>0
<1>4. /\ BaseNow' = BaseNow /\ Tip' = Tip
      /\ TrackedChanges(BaseNow)' = TrackedChanges(BaseNow)
      /\ commits'[BaseNow'] = commits[BaseNow]
  BY <1>1 DEF BaseNow, Tip, DisplayBase, HasTrackedChanges, Tracked,
     TrackedChanges
<1>5. Reading'
  BY <1>0, <1>1, <1>3, <1>4 DEF Reading
<1>6. /\ \A p \in Files : diff'[p] = NoRow /\ asked'[p] = 0
      /\ diff' \in [Files -> Rows] /\ asked' \in [Files -> Nat]
      /\ expanded' = {}
  BY DEF Forget, Rows, Screen, Listed, Changes
<1>7. Screen'
  BY <1>0, <1>2, <1>6 DEF Screen, Listed, NoRow, LoadingRow, LoadedRows
<1>8. \A p \in Files, d \in LoadedRows : ~HasRow(p, d)'
  BY <1>0, <1>6 DEF HasRow, NoRow, LoadedRows
<1>9. ASSUME NEW S, NEW t, NEW b, t # Torn, HasList(S, t, b)'
      PROVE  HasList(S, t, b)
  <2>1. PICK l \in Loads : /\ req'[l].pc = "answered" /\ req'[l].quiet
                          /\ S = req'[l].out /\ t = req'[l].from
                          /\ b = req'[l].base
    BY <1>2, <1>9 DEF HasList
  <2> QED
    BY <1>0, <2>1 DEF HasList
<1> QED
  BY <1>2, <1>5, <1>7, <1>8, <1>9, FewerReadings

\* A list that came back replaces the one on the screen; the rows of paths it
\* does not name go.
LEMMA ShowKeeps ==
  ASSUME ReviewInv, NEW l \in Loads, ShowChanges(l)
  PROVE  ReviewInv'
<1> USE DEF ReviewInv
<1> DEFINE gone == Files \ {c.path : c \in req[l].out}
<1>0. /\ Reqs = Loads \cup Files /\ Loads \cap Files = {} /\ now \in Nat
      /\ NoRequest.pc = "free" /\ NoRequest \in Requests /\ MaxOps \in Nat
  BY ReviewAssumption DEF Reqs, NoRequest, Requests, History, ReviewAssumption
<1>1. /\ req[l].pc = "answered" /\ list' = "loaded" /\ shown' = req[l].out
      /\ since' = (IF req[l].quiet THEN req[l].from ELSE Torn)
      /\ against' = req[l].base
      /\ Forget(gone) /\ req' = WithoutRows(req, gone \cup {l})
      /\ UNCHANGED <<layout, commits, upstream, work, now, clicked>>
  BY DEF ShowChanges, repoVars
<1>2. /\ req[l].out \subseteq Changes /\ req[l].from \in 0..now
      /\ req[l].quiet => req[l].base \in 1..Tip
  BY <1>0, <1>1 DEF Reading, Requests
<1>3. /\ req' \in [Reqs -> Requests]
      /\ \A r \in Reqs : req'[r] = IF r \in gone \cup {l} THEN NoRequest
                                   ELSE req[r]
  BY <1>0, <1>1 DEF WithoutRows, Reading
<1>4. Listed' = Files \ gone
  BY <1>1, <1>2 DEF Listed, Changes
<1>5. History'
  BY <1>1, <1>2 DEF History, Tip
<1>6. /\ BaseNow' = BaseNow /\ Tip' = Tip
      /\ TrackedChanges(BaseNow)' = TrackedChanges(BaseNow)
      /\ commits'[BaseNow'] = commits[BaseNow]
  BY <1>1 DEF BaseNow, Tip, DisplayBase, HasTrackedChanges, Tracked,
     TrackedChanges
<1>7. Reading'
  <2>1. \A r \in Reqs : req'[r] = req[r] \/ req'[r].pc = "free"
    BY <1>0, <1>3
  <2> QED
    BY <1>1, <1>3, <2>1, FewerRequests
<1>8. /\ \A p \in Files : /\ diff'[p] = IF p \in gone THEN NoRow ELSE diff[p]
                          /\ asked'[p] = IF p \in gone THEN 0 ELSE asked[p]
      /\ diff' \in [Files -> Rows] /\ asked' \in [Files -> Nat]
      /\ expanded' = expanded \ gone
  BY <1>1 DEF Forget, Rows, Screen
<1> HIDE DEF gone
<1>9. Screen'
  <2>1. list' \in {"closed", "loading", "loaded", "failed"} /\ list' = "loaded"
    BY <1>1
  <2>2. shown' \subseteq Changes
    BY <1>1, <1>2
  <2>3. expanded' \subseteq Listed'
    BY <1>4, <1>8 DEF Screen, Listed, Changes
  <2>4. ASSUME NEW p \in Files
        PROVE  /\ p \notin Listed' => diff'[p] = NoRow
               /\ asked'[p] = IF diff'[p] = NoRow THEN 0 ELSE 1
               /\ diff'[p] = LoadingRow <=> req'[p].pc # "free"
               /\ diff'[p] \in LoadedRows => diff'[p].from \in clicked..now
    <3>1. CASE p \in gone
      BY <1>0, <1>3, <1>4, <1>8, <3>1 DEF NoRow, LoadingRow, LoadedRows
    <3>2. CASE p \notin gone
      BY <1>0, <1>3, <1>4, <1>8, <3>2 DEF Screen
    <3> QED
      BY <3>1, <3>2
  <2> QED
    BY <1>1, <1>8, <2>1, <2>2, <2>3, <2>4 DEF Screen
<1>10. \A p \in Files, d \in LoadedRows : HasRow(p, d)' => HasRow(p, d)
  BY <1>0, <1>3, <1>8 DEF HasRow, NoRow, LoadedRows
<1>11. ASSUME NEW S, NEW t, NEW b, t # Torn, HasList(S, t, b)'
       PROVE  HasList(S, t, b)
  <2>1. CASE S = shown' /\ t = since' /\ b = against'
    <3>1. req[l].quiet
      BY <1>1, <1>11, <2>1
    <3> QED
      BY <1>1, <2>1, <3>1 DEF HasList
  <2>2. CASE ~(S = shown' /\ t = since' /\ b = against')
    <3>1. PICK k \in Loads : /\ req'[k].pc = "answered" /\ req'[k].quiet
                            /\ S = req'[k].out /\ t = req'[k].from
                            /\ b = req'[k].base
      BY <1>11, <2>2 DEF HasList
    <3> QED
      BY <1>0, <1>3, <3>1 DEF HasList
  <2> QED
    BY <2>1, <2>2
<1> QED
  BY <1>1, <1>5, <1>7, <1>9, <1>10, <1>11, FewerReadings DEF repoVars

\* A row that is opened for the first time asks for its diff.
LEMMA ToggleKeeps ==
  ASSUME ReviewInv, NEW p \in Files, Toggle(p)
  PROVE  ReviewInv'
<1> USE DEF ReviewInv
<1>0. /\ Reqs = Loads \cup Files /\ Loads \cap Files = {}
      /\ Send(p) \in Requests /\ Send(p).pc = "sent"
  BY ReviewAssumption DEF Reqs, Send, NoRequest, Requests, ReviewAssumption
<1>1. /\ UNCHANGED <<layout, commits, upstream, work, now, list, shown, since,
                     against, clicked>>
      /\ p \in Listed /\ list = "loaded" /\ Listed' = Listed
      /\ expanded' \subseteq Listed
      /\ \/ UNCHANGED <<diff, asked, req>>
         \/ /\ diff[p] = NoRow /\ diff' = [diff EXCEPT ![p] = LoadingRow]
            /\ asked' = [asked EXCEPT ![p] = @ + 1]
            /\ req' = [req EXCEPT ![p] = Send(p)]
  BY DEF Toggle, OnFirstExpand, repoVars, listVars, Screen, Listed
<1>2. History'
  BY <1>1 DEF History, Tip
<1>3. /\ BaseNow' = BaseNow /\ Tip' = Tip
      /\ TrackedChanges(BaseNow)' = TrackedChanges(BaseNow)
      /\ commits'[BaseNow'] = commits[BaseNow]
  BY <1>1 DEF BaseNow, Tip, DisplayBase, HasTrackedChanges, Tracked,
     TrackedChanges
<1>4. Reading'
  BY <1>0, <1>1, <1>3 DEF Reading
<1>5. Screen'
  <2>1. CASE UNCHANGED <<diff, asked, req>>
    BY <1>1, <2>1 DEF Screen
  <2>2. CASE ~UNCHANGED <<diff, asked, req>>
    <3>1. diff' \in [Files -> Rows] /\ asked' \in [Files -> Nat]
      BY <1>1, <2>2 DEF Screen, Rows
    <3>2. ASSUME NEW q \in Files \ {p}
          PROVE  diff'[q] = diff[q] /\ asked'[q] = asked[q] /\ req'[q] = req[q]
      BY <1>0, <1>1, <2>2 DEF Screen, Reading
    <3>3. /\ diff'[p] = LoadingRow /\ asked'[p] = 1 /\ req'[p].pc = "sent"
          /\ LoadingRow # NoRow /\ LoadingRow \notin LoadedRows
      BY <1>0, <1>1, <2>2 DEF Screen, Reading, LoadingRow, NoRow, LoadedRows
    <3> QED
      BY <1>1, <3>1, <3>2, <3>3 DEF Screen
  <2> QED
    BY <2>1, <2>2
<1>6. \A q \in Files, d \in LoadedRows : HasRow(q, d)' => HasRow(q, d)
  BY <1>0, <1>1 DEF HasRow, LoadingRow, LoadedRows, Screen, Reading
<1>7. \A S, t, b : HasList(S, t, b)' => HasList(S, t, b)
  <2>1. \A l \in Loads : req'[l] = req[l]
    BY <1>0, <1>1 DEF Reading
  <2> QED
    BY <1>1, <2>1 DEF HasList
<1> QED
  BY <1>1, <1>2, <1>4, <1>5, <1>6, <1>7, FewerReadings DEF repoVars

\* The answer of a row becomes the row.
LEMMA TakeKeeps ==
  ASSUME ReviewInv, NEW p \in Files, TakeDiff(p)
  PROVE  ReviewInv'
<1> USE DEF ReviewInv
<1> DEFINE row == IF req[p].pc = "answered" THEN req[p].out
                  ELSE [status |-> req[p].pc]
<1>0. /\ Reqs = Loads \cup Files /\ Loads \cap Files = {}
      /\ NoRequest \in Requests /\ NoRequest.pc = "free"
  BY ReviewAssumption DEF Reqs, NoRequest, Requests, ReviewAssumption
<1>1. /\ UNCHANGED <<layout, commits, upstream, work, now, list, shown, since,
                     against, clicked, expanded, asked>>
      /\ req[p].pc \in {"answered", "failed", "refused"}
      /\ diff' = [diff EXCEPT ![p] = row]
      /\ req' = [req EXCEPT ![p] = NoRequest]
      /\ Listed' = Listed
  BY DEF TakeDiff, repoVars, listVars, Listed
<1>2. /\ req[p].pc = "answered" => row \in LoadedRows /\ row = req[p].out
                                   /\ row.from \in clicked..now
      /\ req[p].pc # "answered" => row \in [status : {"failed", "refused"}]
  BY <1>0, <1>1 DEF Reading
<1>3. /\ row \in Rows /\ row # NoRow /\ row # LoadingRow
      /\ row \in LoadedRows => req[p].pc = "answered"
  BY <1>2 DEF Rows, LoadedRows, NoRow, LoadingRow
<1> HIDE DEF row
<1>4. History'
  BY <1>1 DEF History, Tip
<1>5. /\ BaseNow' = BaseNow /\ Tip' = Tip
      /\ TrackedChanges(BaseNow)' = TrackedChanges(BaseNow)
      /\ commits'[BaseNow'] = commits[BaseNow]
  BY <1>1 DEF BaseNow, Tip, DisplayBase, HasTrackedChanges, Tracked,
     TrackedChanges
<1>6. Reading'
  BY <1>0, <1>1, <1>5 DEF Reading
<1>7. Screen'
  <2>1. diff' \in [Files -> Rows]
    BY <1>1, <1>3 DEF Screen
  <2>2. ASSUME NEW q \in Files \ {p}
        PROVE  diff'[q] = diff[q] /\ req'[q] = req[q]
    BY <1>1
  <2>3. diff'[p] = row /\ req'[p].pc = "free" /\ diff[p] = LoadingRow
    BY <1>0, <1>1 DEF Screen, Reading
  <2>4. LoadingRow # NoRow
    BY DEF LoadingRow, NoRow
  <2> QED
    BY <1>1, <1>2, <1>3, <2>1, <2>2, <2>3, <2>4 DEF Screen
<1>8. \A q \in Files, d \in LoadedRows : HasRow(q, d)' => HasRow(q, d)
  BY <1>0, <1>1, <1>2, <1>3 DEF HasRow, Screen, Reading
<1>9. \A S, t, b : HasList(S, t, b)' => HasList(S, t, b)
  BY <1>0, <1>1 DEF HasList
<1> QED
  BY <1>1, <1>4, <1>6, <1>7, <1>8, <1>9, FewerReadings DEF repoVars
-----------------------------------------------------------------------------
\* The invariant of the change review is inductive.
LEMMA ReviewInductive == Spec => []ReviewInv
<1>1. Init => ReviewInv
  <2> SUFFICES ASSUME Init PROVE ReviewInv
    OBVIOUS
  <2> USE DEF Init
  <2>0. /\ layout \in {"feature", "worktree", "main", "alone"}
        /\ MaxOps \in Nat
        /\ NoRequest \in Requests /\ NoRequest.pc = "free"
    BY ReviewAssumption DEF ReviewAssumption, NoRequest, Requests
  <2>1. commits \in Seq(Trees) /\ Tip >= 1
    <3>1. CASE \E t \in Trees : commits = <<t>>
      BY <3>1 DEF Tip
    <3>2. CASE \E t \in Trees, u \in Trees : commits = <<t, u>>
      BY <3>2 DEF Tip
    <3> QED
      BY <3>1, <3>2 DEF Histories
  <2>2. upstream \in 0..Tip /\ (layout = "main" => upstream # 0)
    BY <2>0, <2>1 DEF Tip
  <2>3. History
    BY <2>0, <2>1, <2>2 DEF History
  <2>4. Reading
    BY <2>0 DEF Reading
  <2>5. Screen
    BY <2>0 DEF Screen, Listed, Rows, Reqs, NoRow, LoadingRow, LoadedRows
  <2>6. FreshRows /\ FreshLists /\ Agree
    BY <2>0 DEF FreshRows, FreshLists, Agree, HasRow, HasList, NoRow,
       LoadedRows, Reqs, Torn
  <2> QED
    BY <2>3, <2>4, <2>5, <2>6 DEF ReviewInv
<1>2. ASSUME ReviewInv, Next PROVE ReviewInv'
  <2> USE <1>2
  <2>0. /\ Reqs = Loads \cup Files /\ Loads \cap Files = {}
        /\ NoRequest \in Requests
        /\ \A r : Send(r) \in Requests /\ Send(r).pc = "sent"
    BY ReviewAssumption DEF Reqs, Send, NoRequest, Requests, ReviewAssumption
  <2>1. ASSUME NEW l \in Loads, Load(l) PROVE ReviewInv'
    <3>1. /\ req' = [WithoutRows(req, Files) EXCEPT ![l] = Send(l)]
          /\ UNCHANGED repoVars /\ ShowNothing /\ Forget(Files)
          /\ list' = "loading" /\ clicked' = now
      BY <2>1 DEF Load
    <3>2. \A r \in Reqs : req'[r] = IF r = l THEN Send(l)
                                     ELSE IF r \in Files THEN NoRequest
                                     ELSE req[r]
      BY <2>0, <3>1 DEF WithoutRows
    <3>3. req' \in [Reqs -> Requests]
      BY <2>0, <3>1 DEF WithoutRows, ReviewInv, Reading
    <3> QED
      BY <2>0, <3>1, <3>2, <3>3, ListGoes
  <2>2. ASSUME NEW l \in Loads, ShowFailure(l) PROVE ReviewInv'
    <3>1. /\ req' = WithoutRows(req, Files \cup {l})
          /\ UNCHANGED <<repoVars, clicked>> /\ ShowNothing
          /\ Forget(Files) /\ list' = "failed"
      BY <2>2 DEF ShowFailure
    <3>2. req' \in [Reqs -> Requests]
      BY <2>0, <3>1 DEF WithoutRows, ReviewInv, Reading
    <3> QED
      BY <2>0, <3>1, <3>2, ListGoes DEF WithoutRows
  <2>3. CASE Leave
    <3>1. /\ req' = [r \in Reqs |-> NoRequest]
          /\ UNCHANGED <<repoVars, clicked>> /\ ShowNothing
          /\ Forget(Files) /\ list' = "closed"
      BY <2>3 DEF Leave
    <3> QED
      BY <2>0, <3>1, ListGoes
  <2>4. CASE Panel
    BY <2>1, <2>2, <2>3, <2>4, ShowKeeps, ToggleKeeps, TakeKeeps
       DEF Panel, Open, Refresh, TakeList
  <2>5. CASE Server
    BY <2>5, ServerKeeps DEF Server
  <2> QED
    BY <1>2, <2>4, <2>5, AgentKeeps DEF Next
<1>3. ASSUME ReviewInv, UNCHANGED vars PROVE ReviewInv'
  <2>1. History' /\ Screen'
    BY <1>3 DEF vars, repoVars, listVars, rowVars, ReviewInv, History, Screen,
       Tip, Listed
  <2>2. Reading'
    <3>1. /\ BaseNow' = BaseNow /\ Tip' = Tip
          /\ TrackedChanges(BaseNow)' = TrackedChanges(BaseNow)
      BY <1>3 DEF vars, repoVars, BaseNow, Tip, DisplayBase, TrackedChanges,
         HasTrackedChanges, Tracked
    <3> QED
      BY <1>3, <3>1 DEF vars, repoVars, listVars, ReviewInv, Reading
  <2>3. /\ \A p, d : HasRow(p, d)' => HasRow(p, d)
        /\ \A S, t, b : HasList(S, t, b)' => HasList(S, t, b)
    BY <1>3 DEF vars, listVars, rowVars, HasRow, HasList
  <2> QED
    BY <1>3, <2>1, <2>2, <2>3, FewerReadings DEF vars, ReviewInv
<1>4. ReviewInv /\ [Next]_vars => ReviewInv'
  BY <1>2, <1>3
<1> QED
  BY <1>1, <1>4, PTL DEF Spec

\* The repository, the list and its rows keep the values their code gives them,
\* rows live only while the list names them, and a row waits exactly while it
\* has a request: an answer never finds a row that did not ask for it.
THEOREM TypesHold == Spec => []TypeOK
<1>1. ReviewInv => TypeOK
  BY DEF ReviewInv, History, Screen, TypeOK
<1> QED
  BY <1>1, ReviewInductive, PTL

\* A row asks for its diff once in its life, however often it is opened, closed
\* and refreshed around.
THEOREM AsksOnce == Spec => []DiffOnce
<1>1. ReviewInv => DiffOnce
  BY DEF ReviewInv, Screen, DiffOnce
<1> QED
  BY <1>1, ReviewInductive, PTL

\* No diff outlives a refresh: asking for the list drops every row with the
\* request it has under way, so what a row shows was read later.
THEOREM DiffIsRecent == Spec => []DiffAfterRefresh
<1>1. ReviewInv => DiffAfterRefresh
  <2> SUFFICES ASSUME ReviewInv, NEW p \in Files, diff[p].status = "loaded"
               PROVE  diff[p].from >= clicked
    BY DEF DiffAfterRefresh
  <2>1. diff[p] \in LoadedRows
    BY DEF ReviewInv, Screen, Rows, NoRow, LoadingRow
  <2> QED
    BY <2>1 DEF ReviewInv, Screen, History
<1> QED
  BY <1>1, ReviewInductive, PTL

\* The two endpoints read the branch one after the other, in several reads each
\* between which the agent may work.  Where both read one state they agree on
\* the commit to compare with, and the row is of the change the list names,
\* whatever was read, answered or shown in between.
THEOREM DiffFitsList == Spec => []DiffLinesUp
<1>1. ReviewInv => DiffLinesUp
  <2> SUFFICES ASSUME ReviewInv, NEW p \in Listed,
                      diff[p].status = "loaded", diff[p].quiet,
                      diff[p].from = since
               PROVE  Fits(p, diff[p], shown, against)
    BY DEF DiffLinesUp, Fits, StatusesIn, StatusesOf
  <2>1. p \in Files /\ StatusesIn(shown, p) # {}
    BY DEF ReviewInv, Screen, Changes, Listed, StatusesIn
  <2>2. diff[p] \in LoadedRows
    BY <2>1 DEF ReviewInv, Screen, Rows, NoRow, LoadingRow
  <2> QED
    BY <2>1, <2>2 DEF ReviewInv, Agree, HasRow, HasList
<1> QED
  BY <1>1, ReviewInductive, PTL
=============================================================================
