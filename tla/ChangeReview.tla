---------------------------- MODULE ChangeReview ----------------------------
(***************************************************************************)
(* The change review: the repository the agent works in, the two endpoints *)
(* that read it (/git/changes and /git/diff), and the panel that lists the *)
(* changed files and fetches the diff of a row when it is first opened.    *)
(*                                                                         *)
(* The branch is a sequence of commits; the first one is where it left the *)
(* default branch.  The endpoints choose the commit to compare with from   *)
(* reads of their own, between which the agent goes on working.  Answers   *)
(* may overtake one another, and requests may fail.                        *)
(*                                                                         *)
(* A path the list names twice (deleted in a commit and there again, not   *)
(* tracked) has two rows, which ask for the same diff under one React key; *)
(* the model follows one of them.                                          *)
(***************************************************************************)
EXTENDS Naturals, Sequences, FiniteSets

CONSTANTS
  Files,     \* paths in the repository
  Contents,  \* what a file may be: its bytes and its mode
  Absent,    \* there is no such file
  Texts,     \* what a side of a diff may show
  Empty,     \* the empty text
  Stripped,  \* what git show prints of a content, stripped at both ends
  Rejoined,  \* its lines, joined again; the empty text if it is not UTF-8
  Layouts,   \* how the repository stands to its default branch
  Loads,     \* numbers for the requests for the list under way at once
  MaxOps     \* bound: what the agent does to the repository

\* "feature": a branch of its own off origin's default branch; "worktree": the
\* same off a local default branch, without an origin; "main": the default
\* branch itself, with an origin; "alone": the same without one.
ASSUME ReviewAssumption ==
  /\ Layouts \subseteq {"feature", "worktree", "main", "alone"}
  /\ Absent \notin Contents
  /\ Empty \in Texts
  /\ Stripped \in [Contents -> Texts] /\ Rejoined \in [Contents -> Texts]
  /\ Loads \subseteq Nat /\ Loads \cap Files = {}
  /\ MaxOps \in Nat

VARIABLES
  layout,
  commits,    \* the trees of the branch's commits; HEAD is the last
  upstream,   \* the commit origin/<branch> names; 0 while there is none
  work,       \* the working tree
  now,        \* what the agent has done so far
  list,       \* the panel's list, or "closed" while it is not mounted
  shown,      \* the changes it lists
  since,      \* now when the server read that list, Torn without Quiet
  against,    \* the commit it was compared with then, or 0
  clicked,    \* now when the operator last asked for it
  expanded,   \* rows that are open
  diff,       \* the state of each row
  asked,      \* requests for a diff since the row was mounted
  req         \* per load, and per row: its request

repoVars == <<layout, commits, upstream, work, now>>
listVars == <<list, shown, since, against, clicked>>
rowVars == <<expanded, diff, asked>>
vars == <<repoVars, listVars, rowVars, req>>

Trees == [Files -> Contents \cup {Absent}]
Tip == Len(commits)
Changes == [path : Files, status : {"ADDED", "DELETED", "UPDATED"}]
Reqs == Loads \cup Files

NoRequest == [pc |-> "free", head |-> 0, up |-> 0, base |-> 0, from |-> 0,
              quiet |-> FALSE, out |-> "none"]
Torn == MaxOps + 1
NoRow == [status |-> "none"]
LoadingRow == [status |-> "loading"]

\* A file is tracked when the last commit has it.
Tracked(p) == commits[Tip][p] # Absent

\* The branch may be one that exists already, with a commit of its own and work
\* that is not committed.
Histories ==
  {<<t>> : t \in Trees} \cup {h \in Trees \X Trees : h[1] # h[2]}

Init ==
  /\ layout \in Layouts
  /\ commits \in Histories
  /\ upstream \in CASE layout = "feature" -> 0..Tip
                     [] layout = "main"    -> 1..Tip
                     [] OTHER              -> {0}
  /\ work \in Trees
  /\ now = 0
  /\ list = "closed"
  /\ shown = {}
  /\ since = Torn
  /\ against = 0
  /\ clicked = 0
  /\ expanded = {}
  /\ diff = [p \in Files |-> NoRow]
  /\ asked = [p \in Files |-> 0]
  /\ req = [r \in Reqs |-> NoRequest]
-----------------------------------------------------------------------------
(***************************************************************************)
(* The agent.  Commit stands for git add -A and git commit.                *)
(***************************************************************************)
Works ==
  /\ now < MaxOps
  /\ now' = now + 1
  /\ UNCHANGED <<layout, listVars, rowVars, req>>

Write(p, c) ==
  /\ work[p] # c
  /\ work' = [work EXCEPT ![p] = c]
  /\ UNCHANGED <<commits, upstream>>
  /\ Works

Delete(p) ==
  /\ work[p] # Absent
  /\ work' = [work EXCEPT ![p] = Absent]
  /\ UNCHANGED <<commits, upstream>>
  /\ Works

Commit ==
  /\ work # commits[Tip]
  /\ commits' = Append(commits, work)
  /\ UNCHANGED <<work, upstream>>
  /\ Works

Push ==
  /\ layout \in {"feature", "main"}
  /\ upstream # Tip
  /\ upstream' = Tip
  /\ UNCHANGED <<work, commits>>
  /\ Works

Agent == \/ \E p \in Files, c \in Contents : Write(p, c)
         \/ \E p \in Files : Delete(p)
         \/ Commit
         \/ Push
-----------------------------------------------------------------------------
(***************************************************************************)
(* The server.                                                             *)
(***************************************************************************)
\* _has_tracked_changes: untracked files do not count.
HasTrackedChanges ==
  \E p \in Files : Tracked(p) /\ work[p] # commits[Tip][p]

\* _get_display_base_ref, from the revisions and the status it has read.  On
\* the default branch the merge base with origin's is what was pushed.
DisplayBase(head, up, dirty) ==
  IF up # 0 /\ (up # head \/ dirty) THEN up
  ELSE CASE layout \in {"feature", "worktree"} -> 1
         [] layout = "main"                    -> up
         [] layout = "alone"                   -> head

\* git diff --name-status, whose paths are those of the base and of the index.
TrackedChanges(base) ==
  LET was == commits[base]
  IN  [path : {p \in Files : was[p] # Absent
                             /\ (~Tracked(p) \/ work[p] = Absent)},
       status : {"DELETED"}]
      \cup
      [path : {p \in Files : was[p] # Absent /\ Tracked(p)
                             /\ work[p] \notin {Absent, was[p]}},
       status : {"UPDATED"}]
      \cup
      [path : {p \in Files : was[p] = Absent /\ Tracked(p)
                             /\ work[p] # Absent},
       status : {"ADDED"}]

\* git ls-files --others.
UntrackedFiles ==
  [path : {p \in Files : ~Tracked(p) /\ work[p] # Absent}, status : {"ADDED"}]

\* The two sides of a diff; a file that is missing reads as an empty one.
Original(content) == IF content = Absent THEN Empty ELSE Stripped[content]
Modified(content) == IF content = Absent THEN Empty ELSE Rejoined[content]

\* get_git_diff refuses a file that is not there, before it reads anything.
ReadRevisions(r) ==
  /\ req[r].pc = "sent"
  /\ req' = [req EXCEPT ![r] =
       IF r \in Files /\ work[r] = Absent
       THEN [@ EXCEPT !.pc = "refused"]
       ELSE [@ EXCEPT !.pc = "revisions", !.head = Tip, !.up = upstream,
                      !.from = now]]
  /\ UNCHANGED <<repoVars, listVars, rowVars>>

\* Mutant: the diff of a file is taken against the last commit.
DiffAgainstHead(r) ==
  /\ req[r].pc = "revisions"
  /\ req' = [req EXCEPT ![r] =
       [NoRequest EXCEPT !.pc = "compare", !.from = req[r].from,
                         !.base = IF r \in Files THEN req[r].head
                                  ELSE DisplayBase(req[r].head, req[r].up,
                                                   HasTrackedChanges)]]
  /\ UNCHANGED <<repoVars, listVars, rowVars>>

ReadStatus(r) ==
  /\ req[r].pc = "revisions"
  /\ req' = [req EXCEPT ![r] =
       [NoRequest EXCEPT !.pc = "compare", !.from = req[r].from,
                         !.base = DisplayBase(req[r].head, req[r].up,
                                              HasTrackedChanges)]]
  /\ UNCHANGED <<repoVars, listVars, rowVars>>

\* What is read is added to the request; the base is kept for the list alone.
\* A request is quiet while all it reads is of one state of the repository.
Read(r, pc, quiet, out) ==
  req' = [req EXCEPT ![r] =
    [pc |-> pc, head |-> 0, up |-> 0,
     base |-> IF r \in Loads /\ quiet THEN req[r].base ELSE 0,
     from |-> req[r].from, quiet |-> quiet, out |-> out]]
Quiet(r) == req[r].from = now

\* The first half of an answer: the changes of tracked files, or the original,
\* which a git show that fails or times out leaves empty.
ReadBase(r) ==
  LET base == req[r].base
  IN  /\ req[r].pc = "compare"
      /\ IF r \in Loads
         THEN Read(r, "half", Quiet(r), TrackedChanges(base))
         ELSE LET text == Original(commits[base][r])
              IN  \E got \in {text, Empty} :
                    Read(r, "half", Quiet(r) /\ got = text, got)
      /\ UNCHANGED <<repoVars, listVars, rowVars>>

\* The second half: the untracked files, or the file itself.  A read that fails
\* is logged, and the list goes without them, the diff without its text.
ReadWork(r) ==
  LET calm == req[r].quiet /\ Quiet(r)
  IN  /\ req[r].pc = "half"
      /\ IF r \in Loads
         THEN \E got \in {UntrackedFiles, {}} :
                Read(r, "answered", calm /\ got = UntrackedFiles,
                     req[r].out \cup got)
         ELSE LET text == Modified(work[r])
              IN  \E got \in {text, Empty} :
                    Read(r, "answered", calm /\ got = text,
                         [status |-> "loaded", original |-> req[r].out,
                          modified |-> got, from |-> req[r].from,
                          quiet |-> calm /\ got = text])
      /\ UNCHANGED <<repoVars, listVars, rowVars>>

\* The request fails on its way, or its answer does.
Fail(r) ==
  /\ req[r].pc \in {"sent", "answered"}
  /\ req' = [req EXCEPT ![r] = [NoRequest EXCEPT !.pc = "failed"]]
  /\ UNCHANGED <<repoVars, listVars, rowVars>>
-----------------------------------------------------------------------------
(***************************************************************************)
(* The panel.  A row lives while the list is loaded and names its path.    *)
(***************************************************************************)
Send(r) == [NoRequest EXCEPT !.pc = "sent"]

\* A row that is unmounted goes with its request: nobody takes the answer.
WithoutRows(reqs, P) == [r \in Reqs |-> IF r \in P THEN NoRequest ELSE reqs[r]]

\* Mutant: the rows of paths that are gone keep their state.
ForgetNothing(P) == UNCHANGED rowVars

Forget(P) ==
  /\ expanded' = expanded \ P
  /\ diff' = [p \in Files |-> IF p \in P THEN NoRow ELSE diff[p]]
  /\ asked' = [p \in Files |-> IF p \in P THEN 0 ELSE asked[p]]

FirstFree(l) ==
  /\ req[l].pc = "free"
  /\ \A k \in Loads : k < l => req[k].pc # "free"

ShowNothing == shown' = {} /\ since' = Torn /\ against' = 0

\* Mutant: the rows stay on the screen while the list is read again.
LoadBehindRows(l) ==
  /\ FirstFree(l)
  /\ list' = "loaded"
  /\ clicked' = now
  /\ req' = [req EXCEPT ![l] = Send(l)]
  /\ UNCHANGED <<repoVars, shown, since, against, rowVars>>

Load(l) ==
  /\ FirstFree(l)
  /\ list' = "loading"
  /\ ShowNothing
  /\ clicked' = now
  /\ req' = [WithoutRows(req, Files) EXCEPT ![l] = Send(l)]
  /\ Forget(Files)
  /\ UNCHANGED repoVars

Open(l) == list = "closed" /\ Load(l)
Refresh(l) == list # "closed" /\ Load(l)

\* The operator goes to another surface; what is under way ends nowhere.
Leave ==
  /\ list # "closed"
  /\ list' = "closed"
  /\ ShowNothing
  /\ req' = [r \in Reqs |-> NoRequest]
  /\ Forget(Files)
  /\ UNCHANGED <<repoVars, clicked>>

Listed == {c.path : c \in shown}

ShowChanges(l) ==
  /\ req[l].pc = "answered"
  /\ list' = "loaded"
  /\ shown' = req[l].out
  /\ since' = IF req[l].quiet THEN req[l].from ELSE Torn
  /\ against' = req[l].base
  /\ LET gone == Files \ {c.path : c \in req[l].out}
     IN  Forget(gone) /\ req' = WithoutRows(req, gone \cup {l})
  /\ UNCHANGED <<repoVars, clicked>>

ShowFailure(l) ==
  /\ req[l].pc = "failed"
  /\ list' = "failed"
  /\ ShowNothing
  /\ Forget(Files)
  /\ req' = WithoutRows(req, Files \cup {l})
  /\ UNCHANGED <<repoVars, clicked>>

\* Mutant: a load that fails leaves the panel waiting.
TakeAnswerOnly(l) == ShowChanges(l)

\* Any load sets the list, the last to come back last.
TakeList(l) == ShowChanges(l) \/ ShowFailure(l)

\* Mutant: every opening of the row asks for its diff.
OnAnyExpand(p) == TRUE

OnFirstExpand(p) == diff[p] = NoRow

Toggle(p) ==
  /\ list = "loaded" /\ p \in Listed
  /\ expanded' = IF p \in expanded THEN expanded \ {p} ELSE expanded \cup {p}
  /\ IF p \notin expanded /\ OnFirstExpand(p)
     THEN /\ diff' = [diff EXCEPT ![p] = LoadingRow]
          /\ asked' = [asked EXCEPT ![p] = @ + 1]
          /\ req' = [req EXCEPT ![p] = Send(p)]
     ELSE UNCHANGED <<diff, asked, req>>
  /\ UNCHANGED <<repoVars, listVars>>

TakeDiff(p) ==
  /\ req[p].pc \in {"answered", "failed", "refused"}
  /\ diff' = [diff EXCEPT ![p] =
       IF req[p].pc = "answered" THEN req[p].out
       ELSE [status |-> req[p].pc]]
  /\ req' = [req EXCEPT ![p] = NoRequest]
  /\ UNCHANGED <<repoVars, listVars, expanded, asked>>

Panel == \/ \E l \in Loads : Open(l) \/ Refresh(l) \/ TakeList(l)
         \/ \E p \in Files : Toggle(p) \/ TakeDiff(p)
         \/ Leave
Compare(r) == ReadBase(r) \/ ReadWork(r)
Server == \E r \in Reqs :
  ReadRevisions(r) \/ ReadStatus(r) \/ Compare(r) \/ Fail(r)

Next == Agent \/ Server \/ Panel
Spec == Init /\ [][Next]_vars

\* Requests are handled and their answers taken; the agent and the operator
\* owe nothing.
Fairness ==
  /\ \A r \in Reqs : /\ WF_vars(ReadRevisions(r))
                      /\ WF_vars(ReadStatus(r))
                      /\ WF_vars(Compare(r))
  /\ \A l \in Loads : WF_vars(TakeList(l))
  /\ \A p \in Files : WF_vars(TakeDiff(p))
FairSpec == Spec /\ Fairness
-----------------------------------------------------------------------------
\* Rows have state only while the list is loaded and names them, and a row
\* waits exactly while it has a request.
TypeOK ==
  /\ commits \in Seq(Trees) /\ upstream \in 0..Tip /\ work \in Trees
  /\ list \in {"closed", "loading", "loaded", "failed"}
  /\ shown \subseteq Changes
  /\ list # "loaded" => shown = {}
  /\ expanded \subseteq Listed
  /\ \A p \in Files \ Listed : diff[p] = NoRow /\ asked[p] = 0
  /\ \A p \in Files : diff[p] = LoadingRow <=> req[p].pc # "free"

\* However often a row is opened and closed, the panel asks for its diff once
\* in the life of the row.
DiffOnce == \A p \in Files : asked[p] <= 1

\* After a refresh no older diff stays on the screen: what a row shows was
\* read after the operator last asked for the list, although the answers of
\* several loads may come back in any order.
DiffAfterRefresh ==
  \A p \in Files : diff[p].status = "loaded" => diff[p].from >= clicked

StatusesOf(p) == {c.status : c \in {e \in shown : e.path = p}}

\* A diff and a list that were read in one state of the repository fit: the
\* original is that of the commit the list was compared with, the file is an
\* addition where that commit lacks it, and another content where it is listed
\* as updated.  (The sides may still be equal: the conversions forget blanks at
\* the ends, modes, and what is not UTF-8.)  A path that is listed as deleted
\* and can be opened is listed as added too.
DiffLinesUp ==
  \A p \in Listed :
    LET d   == diff[p]
        was == commits[against][p]
    IN  d.status = "loaded" /\ d.quiet /\ d.from = since =>
          /\ d.original = Original(was)
          /\ \E is \in Contents :
               /\ d.modified = Modified(is)
               /\ \/ StatusesOf(p) = {"ADDED"} /\ was = Absent
                  \/ StatusesOf(p) = {"UPDATED"} /\ was \notin {Absent, is}
                  \/ StatusesOf(p) = {"ADDED", "DELETED"} /\ was # Absent

\* Neither the list nor a row waits for ever.
PanelSettles ==
  /\ list = "loading" ~> list # "loading"
  /\ \A p \in Files : diff[p] = LoadingRow ~> diff[p] # LoadingRow

\* The server answers for a deleted file with its original alone.
DeletedHasDiff ==
  \A c \in shown : c.status = "DELETED" => diff[c.path].status # "refused"
=============================================================================
