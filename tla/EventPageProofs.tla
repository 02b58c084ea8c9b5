-------------------------- MODULE EventPageProofs --------------------------
(***************************************************************************)
(* Theorems about the pending actions, for logs and pages of any length:   *)
(* what the backward scans of the server and of the GUI compute, that the  *)
(* cards of the first page differ from the server's open actions only by   *)
(* what lies beyond it, that a stale page hides nothing it holds, that an  *)
(* answer is for good, and that the posture agrees with the cards.         *)
(***************************************************************************)
EXTENDS EventPage, DataLemmas

\* The events that ask and the events that answer by the name of an action.
AsksAt(s, i) == s[i].kind \in {"action", "malformed"}
AnswersAt(s, i) == s[i].kind \in {"observation", "reject"}

\* The hook holds a prefix of the log, an action is asked for once, and an
\* observation or a rejection comes after the action it names.
Pages ==
  /\ log \in Seq(Events)
  /\ \E n \in 0..Len(log) : seen = SubSeq(log, 1, n)

AskedOnce(s) ==
  \A i, k \in DOMAIN s :
    AsksAt(s, i) /\ AsksAt(s, k) /\ s[i].id = s[k].id => i = k

AnswersFollow(s) ==
  \A k \in DOMAIN s :
    AnswersAt(s, k) =>
      \E i \in 1..(k - 1) : s[i].kind = "action" /\ s[i].id = s[k].id

\* A malformed call that no restart has cut short is followed by its error,
\* unless it has just been emitted.
ErrorFollows ==
  \A i \in DOMAIN log :
    /\ log[i].kind = "malformed"
    /\ log[i].id \notin lost
    /\ i < Len(log)
    => log[i + 1].kind = "error" /\ log[i + 1].call = log[i].call

PageInv ==
  Pages /\ AskedOnce(log) /\ AnswersFollow(log) /\ ErrorFollows
-----------------------------------------------------------------------------
(***************************************************************************)
(* What the scan computes.                                                 *)
(***************************************************************************)

\* What the loop should have gathered from the events after the first n - 1.
Gathered(s, n) ==
  [ids |-> {s[i].id : i \in {k \in n..Len(s) : AnswersAt(s, k)}},
   calls |-> {s[i].call : i \in {k \in n..Len(s) : s[k].kind = "error"}},
   unmatched |-> {s[i].id : i \in {k \in n..Len(s) : k \in OpenAt(s)}}]

\* One turn of the loop gathers the answers of its event, or the action when
\* nothing gathered before answers it.
LEMMA VisitGathers ==
  ASSUME NEW s \in Seq(Events), NEW n \in DOMAIN s
  PROVE  Visit(Gathered(s, n + 1), s[n]) = Gathered(s, n)
<1> DEFINE g == Gathered(s, n + 1)
           h == Gathered(s, n)
           e == s[n]
<1>1. /\ Len(s) \in Nat /\ DOMAIN s = 1..Len(s) /\ n \in 1..Len(s)
      /\ n..Len(s) = (n + 1)..Len(s) \cup {n}
      /\ e \in Events /\ n \notin (n + 1)..Len(s)
  BY LenProperties, ElementOfSeq
<1>2. h.ids = IF AnswersAt(s, n) THEN g.ids \cup {e.id} ELSE g.ids
  BY <1>1 DEF Gathered
<1>3. h.calls = IF e.kind = "error" THEN g.calls \cup {e.call} ELSE g.calls
  BY <1>1 DEF Gathered
<1>4. h.unmatched = IF n \in OpenAt(s) THEN g.unmatched \cup {e.id}
                    ELSE g.unmatched
  BY <1>1 DEF Gathered
<1>5. n \in OpenAt(s) <=>
        e.kind = "action" /\ e.id \notin g.ids /\ e.call \notin g.calls
  <2>1. e.id \in g.ids <=>
          \E k \in (n + 1)..Len(s) : AnswersAt(s, k) /\ s[k].id = e.id
    BY DEF Gathered
  <2>2. e.call \in g.calls <=>
          \E k \in (n + 1)..Len(s) : s[k].kind = "error" /\ s[k].call = e.call
    BY DEF Gathered
  <2>3. n \in OpenAt(s) <=>
          e.kind = "action" /\ \A k \in (n + 1)..Len(s) : ~AnsweredBy(e, s[k])
    BY <1>1 DEF OpenAt
  <2> QED
    BY <2>1, <2>2, <2>3 DEF AnsweredBy, AnswersAt
<1>6. /\ g = [ids |-> g.ids, calls |-> g.calls, unmatched |-> g.unmatched]
      /\ h = [ids |-> h.ids, calls |-> h.calls, unmatched |-> h.unmatched]
  BY DEF Gathered
<1> HIDE DEF g, h, e
<1>7. CASE AnswersAt(s, n)
  <2>1. Visit(g, e) = [g EXCEPT !.ids = @ \cup {e.id}]
    BY <1>7 DEF Visit, AnswersAt, e
  <2>2. e.kind # "error" /\ n \notin OpenAt(s)
    BY <1>5, <1>7 DEF AnswersAt, e
  <2> QED
    BY <1>2, <1>3, <1>4, <1>6, <1>7, <2>1, <2>2 DEF g, h, e
<1>8. CASE e.kind = "error"
  <2>1. Visit(g, e) = [g EXCEPT !.calls = @ \cup {e.call}]
    BY <1>8 DEF Visit
  <2>2. ~AnswersAt(s, n) /\ n \notin OpenAt(s)
    BY <1>5, <1>8 DEF AnswersAt, e
  <2> QED
    BY <1>2, <1>3, <1>4, <1>6, <1>8, <2>1, <2>2 DEF g, h, e
<1>9. CASE n \in OpenAt(s)
  <2>1. Visit(g, e) = [g EXCEPT !.unmatched = @ \cup {e.id}]
    BY <1>5, <1>9 DEF Visit
  <2>2. ~AnswersAt(s, n) /\ e.kind # "error"
    BY <1>5, <1>9 DEF AnswersAt, e
  <2> QED
    BY <1>2, <1>3, <1>4, <1>6, <1>9, <2>1, <2>2 DEF g, h, e
<1>10. CASE ~AnswersAt(s, n) /\ e.kind # "error" /\ n \notin OpenAt(s)
  <2>1. Visit(g, e) = g
    BY <1>5, <1>10 DEF Visit, AnswersAt, e
  <2>2. g = h
    BY <1>2, <1>3, <1>4, <1>6, <1>10
  <2> QED
    BY <2>1, <2>2 DEF g, h, e
<1> QED
  BY <1>7, <1>8, <1>9, <1>10

\* The loop gathers just that: what it should have gathered satisfies its
\* equation, and of two that satisfy it neither can be the last to differ.
LEMMA ScanGathers ==
  ASSUME NEW s \in Seq(Events)
  PROVE  Scan(s) = Gathered(s, 1)
<1> DEFINE D == 1..(Len(s) + 1)
           Turn(f) == [i \in D |->
                         IF i = Len(s) + 1 THEN Nothing
                         ELSE Visit(f[i + 1], s[i])]
           Acc == CHOOSE f : f = Turn(f)
           G == [i \in D |-> Gathered(s, i)]
<1>1. Len(s) \in Nat /\ DOMAIN s = 1..Len(s)
  BY LenProperties
<1>2. G = Turn(G)
  <2>1. ASSUME NEW i \in D PROVE G[i] = Turn(G)[i]
    <3>1. CASE i = Len(s) + 1
      <4>1. i..Len(s) = {}
        BY <1>1, <3>1
      <4>2. Gathered(s, i) = Nothing
        BY <4>1 DEF Gathered, Nothing
      <4> QED
        BY <3>1, <4>2
    <3>2. CASE i # Len(s) + 1
      <4>1. i \in DOMAIN s /\ i + 1 \in D
        BY <1>1, <3>2
      <4> QED
        BY <3>2, <4>1, VisitGathers
    <3> QED
      BY <3>1, <3>2
  <2> QED
    BY <2>1
<1>3. Acc = Turn(Acc)
  <2> HIDE DEF Turn, G
  <2> QED
    BY <1>2
<1>4. \A i \in D : Acc[i] = G[i]
  <2> DEFINE Differ == {i \in D : Acc[i] # G[i]}
  <2>1. SUFFICES ASSUME Differ # {} PROVE FALSE
    OBVIOUS
  <2> HIDE DEF Acc, G
  <2>2. Differ \subseteq D /\ D \subseteq Nat /\ IsFiniteSet(D)
    BY <1>1, FS_Interval
  <2>3. Differ \subseteq Nat /\ IsFiniteSet(Differ)
    BY <2>2, FS_Subset
  <2> DEFINE m == Max(Differ)
  <2>4. m \in Differ /\ \A i \in Differ : m >= i
    BY <2>1, <2>3, NatMax
  <2> HIDE DEF m
  <2>5. m \in D /\ Acc[m] # G[m]
    BY <2>4
  <2>6. m # Len(s) + 1 => m + 1 \in D /\ Acc[m + 1] = G[m + 1]
    <3>1. SUFFICES ASSUME m # Len(s) + 1
                   PROVE  m + 1 \in D /\ Acc[m + 1] = G[m + 1]
      OBVIOUS
    <3>2. m + 1 \in D /\ ~(m >= m + 1)
      BY <1>1, <2>5, <3>1
    <3> QED
      BY <2>4, <3>2
  <2>7. Turn(Acc)[m] = Turn(G)[m]
    BY <2>5, <2>6
  <2> HIDE DEF Turn
  <2> QED
    BY <1>2, <1>3, <2>5, <2>7
<1>5. Scan(s) = Acc[1]
  BY DEF Scan
<1> HIDE DEF Acc
<1> QED
  BY <1>1, <1>4, <1>5

\* What a scan leaves unmatched are the actions no later event answers.
LEMMA ScanOpen ==
  ASSUME NEW s \in Seq(Events)
  PROVE  Scan(s).unmatched = Named(s, OpenAt(s))
<1>1. {k \in 1..Len(s) : k \in OpenAt(s)} = OpenAt(s)
  BY LenProperties DEF OpenAt
<1>2. Gathered(s, 1).unmatched = {s[i].id : i \in OpenAt(s)}
  BY <1>1 DEF Gathered
<1> QED
  BY <1>2, ScanGathers DEF Named

\* The loop of the hook turns on each event as that of the server does.
LEMMA VisitsAgree ==
  ASSUME NEW acc, NEW e \in Events
  PROVE  VisitWire(acc, e) = Visit(acc, e)
<1>1. e.kind \in {"action", "malformed", "observation", "reject", "error",
                  "prose", "other"}
  BY DEF Events, ActionEvents, Answers
<1> QED
  BY <1>1 DEF Visit, VisitWire, IsActionEvent, IsActionObservation,
              IsAgentError

\* So it too leaves the actions no later event answers.
LEMMA CardsOpen ==
  ASSUME NEW s \in Seq(Events)
  PROVE  PendingActionsFromEvents(s) = Named(s, OpenAt(s))
<1> DEFINE D == 1..(Len(s) + 1)
           Turn(f) == [i \in D |-> IF i = Len(s) + 1 THEN Nothing
                                   ELSE Visit(f[i + 1], s[i])]
           Wire(f) == [i \in D |-> IF i = Len(s) + 1 THEN Nothing
                                   ELSE VisitWire(f[i + 1], s[i])]
<1>1. ASSUME NEW f PROVE Turn(f) = Wire(f)
  <2>1. ASSUME NEW i \in D, i # Len(s) + 1 PROVE s[i] \in Events
    BY <2>1, LenProperties, ElementOfSeq
  <2> QED
    BY <2>1, VisitsAgree
<1> HIDE DEF Turn, Wire
<1>2. (CHOOSE f : f = Turn(f)) = (CHOOSE f : f = Wire(f))
  BY <1>1, Zenon
<1>3. /\ Scan(s) = (CHOOSE f : f = Turn(f))[1]
      /\ PendingActionsFromEvents(s) = (CHOOSE f : f = Wire(f))[1].unmatched
  BY DEF Scan, PendingActionsFromEvents, Turn, Wire
<1> QED
  BY <1>2, <1>3, ScanOpen
-----------------------------------------------------------------------------
(***************************************************************************)
(* The log.                                                                *)
(***************************************************************************)

\* An event is added behind those the log has.
LEMMA LogGrows ==
  ASSUME log \in Seq(Events), NEW e \in Events, log' = Append(log, e)
  PROVE  /\ log' \in Seq(Events)
         /\ Len(log) \in Nat
         /\ DOMAIN log = 1..Len(log)
         /\ Len(log') = Len(log) + 1
         /\ DOMAIN log' = 1..(Len(log) + 1)
         /\ \A i \in 1..Len(log) : log'[i] = log[i]
         /\ log'[Len(log) + 1] = e
<1>1. /\ log' \in Seq(Events) /\ Len(log') = Len(log) + 1
      /\ \A i \in 1..Len(log) : log'[i] = log[i]
      /\ log'[Len(log) + 1] = e
  BY AppendProperties
<1> QED
  BY <1>1, LenProperties

\* A page is a prefix of the log.
LEMMA PrefixIs ==
  ASSUME NEW s \in Seq(Events), NEW n \in 0..Len(s)
  PROVE  /\ SubSeq(s, 1, n) \in Seq(Events)
         /\ Len(SubSeq(s, 1, n)) = n
         /\ DOMAIN SubSeq(s, 1, n) = 1..n
         /\ \A i \in 1..n : i \in DOMAIN s /\ SubSeq(s, 1, n)[i] = s[i]
<1> DEFINE t == SubSeq(s, 1, n)
<1>1. Len(s) \in Nat /\ DOMAIN s = 1..Len(s) /\ n \in Nat
  BY LenProperties
<1>2. \A i \in 1..n : s[i] \in Events
  BY <1>1, ElementOfSeq
<1>3. /\ t \in Seq(Events)
      /\ Len(t) = n
      /\ \A i \in 1..n : t[i] = s[i]
  BY <1>1, <1>2, SubSeqProperties
<1> HIDE DEF t
<1>4. DOMAIN t = 1..n
  BY <1>3, LenProperties
<1> QED
  BY <1>1, <1>3, <1>4 DEF t

\* The first page is one of them, and all of a log that fits.
LEMMA FirstPageIs ==
  ASSUME NEW s \in Seq(Events)
  PROVE  /\ \E n \in 0..Len(s) : FirstPage(s) = SubSeq(s, 1, n)
         /\ Len(s) <= PageLimit => FirstPage(s) = s
<1> DEFINE n == IF Len(s) < PageLimit THEN Len(s) ELSE PageLimit
<1>1. n \in 0..Len(s) /\ FirstPage(s) = SubSeq(s, 1, n)
  BY LenProperties, PageAssumption DEF FirstPage, UpTo
<1>2. Len(s) <= PageLimit => n = Len(s)
  BY LenProperties, PageAssumption
<1>3. SubSeq(s, 1, Len(s)) = s
  BY SubSeqFull
<1> QED
  BY <1>1, <1>2, <1>3

\* A prefix inherits that actions are asked for once and answered later.
LEMMA PrefixKeeps ==
  ASSUME NEW s \in Seq(Events), NEW n \in 0..Len(s)
  PROVE  /\ AskedOnce(s) => AskedOnce(SubSeq(s, 1, n))
         /\ AnswersFollow(s) => AnswersFollow(SubSeq(s, 1, n))
<1> DEFINE t == SubSeq(s, 1, n)
<1>1. /\ DOMAIN t = 1..n /\ n \in Nat
      /\ \A i \in 1..n : i \in DOMAIN s /\ t[i] = s[i]
  BY PrefixIs, LenProperties
<1> HIDE DEF t
<1>2. AskedOnce(s) => AskedOnce(t)
  BY <1>1 DEF AskedOnce, AsksAt
<1>3. ASSUME AnswersFollow(s) PROVE AnswersFollow(t)
  <2>1. SUFFICES ASSUME NEW k \in 1..n, AnswersAt(t, k)
                 PROVE  \E i \in 1..(k - 1) :
                          t[i].kind = "action" /\ t[i].id = t[k].id
    BY <1>1 DEF AnswersFollow
  <2>2. PICK i \in 1..(k - 1) : s[i].kind = "action" /\ s[i].id = s[k].id
    BY <1>1, <1>3, <2>1 DEF AnswersFollow, AnswersAt
  <2>3. i \in 1..n
    BY <1>1, <2>1
  <2> QED
    BY <1>1, <2>1, <2>2, <2>3
<1> QED
  BY <1>2, <1>3 DEF t

\* What an answer or a call becomes in the log.
LEMMA EmitKeeps ==
  ASSUME PageInv, NEW e \in Events, LogEvent(e),
         HalfEmitted => e.kind = "error" /\ e.call = log[Len(log)].call,
         e.kind \in {"action", "malformed"} => e.id \notin RaisedIn(log),
         e.kind \in {"observation", "reject"} =>
           \E i \in DOMAIN log : log[i].kind = "action" /\ log[i].id = e.id
  PROVE  PageInv'
<1> DEFINE n == Len(log) + 1
<1>1. /\ log' = Append(log, e) /\ seen' = seen /\ lost' = lost
      /\ log \in Seq(Events)
  BY DEF LogEvent, PageInv, Pages
<1>2. /\ log' \in Seq(Events) /\ Len(log) \in Nat
      /\ DOMAIN log = 1..Len(log) /\ Len(log') = n
      /\ DOMAIN log' = 1..n
      /\ \A i \in 1..Len(log) : log'[i] = log[i]
      /\ log'[n] = e
  BY <1>1, LogGrows
<1>3. \E k \in 0..Len(log') : seen' = SubSeq(log', 1, k)
  <2>1. PICK k \in 0..Len(log) : seen = SubSeq(log, 1, k)
    BY DEF PageInv, Pages
  <2>2. k \in 0..Len(log')
    BY <1>2
  <2>3. SubSeq(log', 1, k) = SubSeq(log, 1, k)
    <3>1. /\ SubSeq(log, 1, k) \in Seq(Events)
          /\ Len(SubSeq(log, 1, k)) = k
          /\ \A i \in 1..k : SubSeq(log, 1, k)[i] = log[i]
      BY <1>1, PrefixIs
    <3>2. /\ SubSeq(log', 1, k) \in Seq(Events)
          /\ Len(SubSeq(log', 1, k)) = k
          /\ \A i \in 1..k : SubSeq(log', 1, k)[i] = log'[i]
      BY <1>2, <2>2, PrefixIs
    <3>3. \A i \in 1..k : log'[i] = log[i]
      BY <1>2
    <3> DEFINE old == SubSeq(log, 1, k)
               new == SubSeq(log', 1, k)
    <3> HIDE DEF old, new
    <3>4. old \in Seq(Events) /\ new \in Seq(Events)
          /\ Len(old) = Len(new) /\ \A i \in 1..Len(old) : old[i] = new[i]
      BY <3>1, <3>2, <3>3 DEF old, new
    <3>5. old = new
      BY <3>4, SeqEqual
    <3> QED
      BY <3>5 DEF old, new
  <2> QED
    BY <1>1, <2>1, <2>2, <2>3
<1>4. AskedOnce(log')
  <2>1. \A i \in 1..Len(log) : AsksAt(log', i) <=> AsksAt(log, i)
    BY <1>2 DEF AsksAt
  <2>2. \A i \in 1..Len(log) : AsksAt(log, i) /\ AsksAt(log', n) =>
          log[i].id # e.id
    BY <1>2 DEF AsksAt, RaisedIn, Named
  <2>3. \A i \in DOMAIN log' : i \in 1..Len(log) \/ i = n
    BY <1>2
  <2>4. AskedOnce(log)
    BY DEF PageInv
  <2> HIDE DEF n
  <2> QED
    BY <1>2, <2>1, <2>2, <2>3, <2>4 DEF AskedOnce
<1>5. AnswersFollow(log')
  <2>1. SUFFICES ASSUME NEW k \in 1..n, AnswersAt(log', k)
                 PROVE  \E i \in 1..(k - 1) :
                          log'[i].kind = "action" /\ log'[i].id = log'[k].id
    BY <1>2 DEF AnswersFollow
  <2>2. \E i \in 1..(k - 1) :
          log[i].kind = "action" /\ log[i].id = log'[k].id
    <3>1. CASE k = n
      BY <1>2, <2>1, <3>1 DEF AnswersAt
    <3>2. CASE k # n
      BY <1>2, <2>1, <3>2 DEF AnswersAt, PageInv, AnswersFollow
    <3> QED
      BY <3>1, <3>2
  <2>3. \A i \in 1..(k - 1) : log'[i] = log[i]
    BY <1>2, <2>1
  <2> QED
    BY <2>2, <2>3
<1>6. ErrorFollows'
  <2>1. SUFFICES ASSUME NEW i \in 1..Len(log), log[i].kind = "malformed",
                        log[i].id \notin lost
                 PROVE  /\ log'[i + 1].kind = "error"
                        /\ log'[i + 1].call = log[i].call
    BY <1>1, <1>2 DEF ErrorFollows
  <2>2. CASE i < Len(log)
    <3>1. i + 1 \in 1..Len(log) /\ log'[i + 1] = log[i + 1]
      BY <1>2, <2>2
    <3> QED
      BY <1>2, <2>1, <2>2, <3>1 DEF PageInv, ErrorFollows
  <2>3. CASE i = Len(log)
    <3>1. HalfEmitted
      BY <1>2, <2>1, <2>3, EmptySeq DEF HalfEmitted
    <3>2. e.kind = "error" /\ e.call = log[i].call
      BY <2>3, <3>1
    <3>3. log'[i + 1] = e
      BY <1>2, <2>3
    <3> QED
      BY <3>2, <3>3
  <2>4. i < Len(log) \/ i = Len(log)
    <3>1. \A k \in Nat : \A j \in 1..k : j < k \/ j = k
      OBVIOUS
    <3>2. Len(log) \in Nat
      BY <1>2
    <3> QED
      BY <3>1, <3>2
  <2> QED
    BY <2>2, <2>3, <2>4
<1> QED
  BY <1>2, <1>3, <1>4, <1>5, <1>6 DEF PageInv, Pages

\* PageInv holds of every state.
LEMMA PageInductive == Spec => []PageInv
<1>1. Init => PageInv
  <2> SUFFICES ASSUME Init PROVE PageInv
    OBVIOUS
  <2>1. log = <<>> /\ seen = <<>> /\ log \in Seq(Events) /\ Len(log) = 0
        /\ DOMAIN log = {}
    BY EmptySeq DEF Init
  <2>2. SubSeq(log, 1, 0) = <<>>
    BY SubSeqEmpty
  <2>3. Pages
    BY <2>1, <2>2 DEF Pages
  <2> QED
    BY <2>1, <2>3 DEF PageInv, AskedOnce, AnswersFollow, ErrorFollows
<1>2. PageInv /\ [Next]_eventVars => PageInv'
  <2> SUFFICES ASSUME PageInv, [Next]_eventVars PROVE PageInv'
    OBVIOUS
  <2>0. log \in Seq(Events) /\ DOMAIN log = 1..Len(log) /\ Len(log) \in Nat
    BY LenProperties DEF PageInv, Pages
  <2>1. \A i \in DOMAIN log : log[i] \in Events
    BY <2>0, ElementOfSeq
  <2>2. CASE UNCHANGED eventVars
    BY <2>2 DEF eventVars, PageInv, Pages, AskedOnce, AnswersFollow, AsksAt,
                AnswersAt, ErrorFollows
  <2>3. CASE Raise
    <3>1. PICK e \in ActionEvents : e.id \notin RaisedIn(log) /\ Emit(e)
      BY <2>3 DEF Raise
    <3>2. e \in Events /\ e.kind \in {"action", "malformed"}
      BY DEF Events, ActionEvents
    <3> QED
      BY <3>1, <3>2, EmitKeeps DEF Emit
  <2>4. CASE Answer
    <3>1. PICK i \in OpenAt(log), k \in {"observation", "reject", "error"} :
            Emit(IF k = "error" THEN [kind |-> k, call |-> log[i].call]
                                ELSE [kind |-> k, id |-> log[i].id])
      BY <2>4 DEF Answer
    <3>2. i \in DOMAIN log /\ log[i].kind = "action"
      BY DEF OpenAt
    <3>3. log[i].id \in Ids /\ log[i].call \in Calls
      BY <2>1, <3>2 DEF Events, ActionEvents, Answers
    <3>4. CASE k = "error"
      <4> DEFINE e == [kind |-> k, call |-> log[i].call]
      <4>1. e \in Events /\ Emit(e) /\ e.kind = "error"
        BY <3>1, <3>3, <3>4 DEF Events, Answers
      <4> HIDE DEF e
      <4> QED
        BY <4>1, EmitKeeps DEF Emit
    <3>5. CASE k \in {"observation", "reject"}
      <4> DEFINE e == [kind |-> k, id |-> log[i].id]
      <4>1. e \in Events /\ Emit(e) /\ e.kind = k /\ e.id = log[i].id
        BY <3>1, <3>3, <3>5 DEF Events, Answers
      <4> HIDE DEF e
      <4> QED
        BY <3>2, <3>5, <4>1, EmitKeeps DEF Emit
    <3> QED
      BY <3>1, <3>4, <3>5
  <2>5. CASE AnswerMalformed
    <3> DEFINE i == Len(log)
               e == [kind |-> "error", call |-> log[i].call]
    <3>1. i \in DOMAIN log /\ log[i].kind = "malformed" /\ LogEvent(e)
      BY <2>0, <2>5, EmptySeq DEF AnswerMalformed, HalfEmitted
    <3>2. log[i].call \in Calls
      BY <2>1, <3>1 DEF Events, ActionEvents, Answers
    <3>3. /\ e \in Events /\ LogEvent(e) /\ e.kind = "error"
          /\ e.call = log[Len(log)].call
      BY <3>1, <3>2 DEF Events, Answers
    <3> HIDE DEF e
    <3> QED
      BY <3>3, EmitKeeps
  <2>6. CASE Other
    <3>1. PICK k \in {"prose", "other"} : Emit([kind |-> k])
      BY <2>6 DEF Other
    <3> DEFINE e == [kind |-> k]
    <3>2. e \in Events /\ Emit(e) /\ e.kind = k
      BY <3>1 DEF Events
    <3> HIDE DEF e
    <3> QED
      BY <3>2, EmitKeeps DEF Emit
  <2>7. CASE Refresh
    <3>1. seen' = FirstPage(log) /\ log' = log /\ lost' = lost
      BY <2>7 DEF Refresh
    <3>2. Pages'
      BY <2>0, <3>1, FirstPageIs DEF Pages
    <3> QED
      BY <3>1, <3>2 DEF PageInv, AskedOnce, AnswersFollow, AsksAt, AnswersAt,
                        ErrorFollows
  <2>8. CASE CutShort
    BY <2>8 DEF CutShort, PageInv, Pages, AskedOnce, AnswersFollow, AsksAt,
                AnswersAt, ErrorFollows
  <2> QED
    BY <2>2, <2>3, <2>4, <2>5, <2>6, <2>7, <2>8 DEF Next
<1> QED
  BY <1>1, <1>2, PTL DEF Spec
-----------------------------------------------------------------------------
(***************************************************************************)
(* What the scans of the server, of the cards and of the posture find.     *)
(***************************************************************************)

\* Where every action is asked for once, an action is unmatched if and only if
\* no later event answers it.
LEMMA CardIsOpen ==
  ASSUME NEW s \in Seq(Events), AskedOnce(s), NEW i \in DOMAIN s, AsksAt(s, i)
  PROVE  s[i].id \in Named(s, OpenAt(s)) <=> i \in OpenAt(s)
<1>1. ASSUME s[i].id \in Named(s, OpenAt(s)) PROVE i \in OpenAt(s)
  <2>1. PICK k \in OpenAt(s) : s[k].id = s[i].id
    BY <1>1 DEF Named
  <2>2. k \in DOMAIN s /\ AsksAt(s, k)
    BY DEF OpenAt, AsksAt
  <2> QED
    BY <2>1, <2>2 DEF AskedOnce
<1> QED
  BY <1>1 DEF Named

\* The scan of the server, which goes backwards over a log in which the name of
\* a tool call may be used again, finds the actions no later event answers.
THEOREM ScanIsRight == Spec => []ScanFindsOpen
<1>1. PageInv => ScanFindsOpen
  BY ScanOpen DEF PageInv, Pages, ScanFindsOpen, GetUnmatchedActions
<1> QED
  BY <1>1, PageInductive, PTL

\* The cards of the first page and the server's open actions are found by a
\* loop of each, and differ only by what lies beyond the page: an open action
\* without a card was raised there, a card that is not open was answered there.
THEOREM CardsDifferBeyond == Spec => []CardsStopAtPage
<1>1. ASSUME PageInv PROVE CardsStopAtPage
  <2>1. PICK n \in 0..Len(log) : FirstPage(log) = SubSeq(log, 1, n)
    BY <1>1, FirstPageIs DEF PageInv, Pages
  <2> DEFINE page == FirstPage(log)
             beyond == (Len(page) + 1)..Len(log)
  <2>2. /\ page \in Seq(Events) /\ Len(page) = n /\ DOMAIN page = 1..n
        /\ Len(log) \in Nat /\ DOMAIN log = 1..Len(log)
        /\ \A i \in 1..n : i \in DOMAIN log /\ page[i] = log[i]
    BY <1>1, <2>1, PrefixIs, LenProperties DEF PageInv, Pages
  <2> HIDE DEF page
  <2>3. /\ PendingActionsFromEvents(page) = Named(page, OpenAt(page))
        /\ GetUnmatchedActions(log) = Named(log, OpenAt(log))
    BY <1>1, <2>2, CardsOpen, ScanOpen
       DEF PageInv, Pages, GetUnmatchedActions
  <2>4. ASSUME NEW x \in Named(log, OpenAt(log)),
               x \notin Named(page, OpenAt(page))
        PROVE  \E i \in beyond : log[i].kind = "action" /\ log[i].id = x
    <3>1. PICK k \in OpenAt(log) : log[k].id = x
      BY <2>4 DEF Named
    <3>2. k \in 1..Len(log) /\ log[k].kind = "action"
      BY <2>2 DEF OpenAt
    <3>3. ASSUME k \in 1..n PROVE FALSE
      <4>1. \A m \in (k + 1)..n : m \in (k + 1)..Len(log) /\ page[m] = log[m]
        BY <2>2, <3>3
      <4>2. k \in OpenAt(page)
        BY <2>2, <3>1, <3>3, <4>1 DEF OpenAt
      <4> QED
        BY <2>2, <2>4, <3>1, <3>3, <4>2 DEF Named
    <3>4. k \in beyond
      BY <2>2, <3>2, <3>3
    <3> QED
      BY <3>1, <3>2, <3>4
  <2>5. ASSUME NEW x \in Named(page, OpenAt(page)),
               x \notin Named(log, OpenAt(log))
        PROVE  \E i \in DOMAIN page, j \in beyond :
                 /\ page[i].kind = "action" /\ page[i].id = x
                 /\ AnsweredBy(page[i], log[j])
    <3>1. PICK k \in OpenAt(page) : page[k].id = x
      BY <2>5 DEF Named
    <3>2. k \in 1..n /\ page[k].kind = "action" /\ page[k] = log[k]
      BY <2>2 DEF OpenAt
    <3>3. k \notin OpenAt(log)
      BY <2>5, <3>1, <3>2 DEF Named
    <3>4. PICK j \in (k + 1)..Len(log) : AnsweredBy(log[k], log[j])
      BY <2>2, <3>2, <3>3 DEF OpenAt
    <3>5. j \notin (k + 1)..n
      BY <2>2, <3>1, <3>2, <3>4 DEF OpenAt
    <3>6. j \in beyond
      BY <2>2, <3>2, <3>4, <3>5
    <3> QED
      BY <2>2, <3>1, <3>2, <3>4, <3>6
  <2> QED
    BY <2>3, <2>4, <2>5 DEF CardsStopAtPage, page
<1> QED
  BY <1>1, PageInductive, PTL

\* An action that is open now and was on the page the hook holds had a card,
\* however old the page is.
THEOREM StalePageHidesNothing == Spec => []StaleHidesNothing
<1>1. ASSUME PageInv PROVE StaleHidesNothing
  <2>1. log \in Seq(Events) /\ AskedOnce(log)
    BY <1>1 DEF PageInv, Pages
  <2>2. PICK n \in 0..Len(log) : seen = SubSeq(log, 1, n)
    BY <1>1 DEF PageInv, Pages
  <2>3. /\ seen \in Seq(Events) /\ Len(seen) = n /\ DOMAIN seen = 1..n
        /\ Len(log) \in Nat /\ DOMAIN log = 1..Len(log)
        /\ \A i \in 1..n : i \in DOMAIN log /\ seen[i] = log[i]
    BY <2>1, <2>2, PrefixIs, LenProperties
  <2>4. SUFFICES ASSUME NEW x \in Named(log, OpenAt(log)), x \in RaisedIn(seen)
                 PROVE  x \in Named(seen, OpenAt(seen))
    BY <2>1, <2>3, ScanOpen, CardsOpen
       DEF StaleHidesNothing, GetUnmatchedActions
  <2>5. PICK k \in 1..n : AsksAt(seen, k) /\ seen[k].id = x
    BY <2>3, <2>4 DEF RaisedIn, Named, AsksAt
  <2>6. k \in DOMAIN log /\ AsksAt(log, k) /\ log[k].id = x
    BY <2>3, <2>5 DEF AsksAt
  <2>7. k \in OpenAt(log)
    BY <2>1, <2>4, <2>6, CardIsOpen
  <2>8. (k + 1)..n \subseteq (k + 1)..Len(log)
    BY <2>3
  <2>9. \A m \in (k + 1)..n : seen[m] = log[m]
    BY <2>3
  <2>10. k \in OpenAt(seen)
    BY <2>3, <2>7, <2>8, <2>9 DEF OpenAt
  <2> QED
    BY <2>5, <2>10 DEF Named
<1> QED
  BY <1>1, PageInductive, PTL

\* No step makes an action that was asked for and is answered pending again.
THEOREM AnswersStand == Spec => AnsweredForGood
<1> DEFINE Kept == GetUnmatchedActions(log') \cap RaisedIn(log) \subseteq
                   GetUnmatchedActions(log)
<1>1. ASSUME PageInv, PageInv', [Next]_eventVars PROVE [Kept]_log
  <2>1. CASE log' = log
    BY <2>1
  <2>2. CASE \E e : LogEvent(e)
    <3>1. /\ log \in Seq(Events) /\ log' \in Seq(Events)
          /\ AskedOnce(log') /\ DOMAIN log = 1..Len(log) /\ Len(log) \in Nat
          /\ DOMAIN log' = 1..Len(log')
      BY <1>1, LenProperties DEF PageInv, Pages
    <3>2. PICK e : log' = Append(log, e)
      BY <2>2 DEF LogEvent
    <3>3. /\ Len(log') = Len(log) + 1
          /\ \A i \in 1..Len(log) : log'[i] = log[i]
      BY <3>1, <3>2
    <3>4. SUFFICES ASSUME NEW x \in Named(log', OpenAt(log')),
                          x \in RaisedIn(log)
                   PROVE  x \in Named(log, OpenAt(log))
      BY <3>1, ScanOpen DEF GetUnmatchedActions
    <3>5. PICK k \in 1..Len(log) : AsksAt(log, k) /\ log[k].id = x
      BY <3>1, <3>4 DEF RaisedIn, Named, AsksAt
    <3>6. k \in DOMAIN log' /\ AsksAt(log', k) /\ log'[k].id = x
      BY <3>1, <3>3, <3>5 DEF AsksAt
    <3>7. k \in OpenAt(log')
      BY <3>1, <3>4, <3>6, CardIsOpen
    <3>8. \A m \in (k + 1)..Len(log) :
            m \in (k + 1)..Len(log') /\ log'[m] = log[m]
      BY <3>1, <3>3
    <3>9. k \in OpenAt(log)
      BY <3>1, <3>3, <3>5, <3>7, <3>8 DEF OpenAt
    <3> QED
      BY <3>5, <3>9 DEF Named
  <2> QED
    BY <1>1, <2>1, <2>2
       DEF Next, Raise, Answer, AnswerMalformed, CutShort, Other, Refresh,
           Emit, eventVars
<1> QED
  BY <1>1, PageInductive, PTL DEF Spec, AnsweredForGood

\* What a page may tell of an action: it is a prefix of the log, so the answers
\* that name the action stand behind it.
LEMMA OnPage ==
  ASSUME PageInv, NEW i \in DOMAIN FirstPage(log),
         FirstPage(log)[i].kind = "action"
  PROVE  LET s == FirstPage(log)
         IN  /\ s[i].id \in PendingActionsFromEvents(s) <=> i \in OpenAt(s)
             /\ i \in OpenAt(s) => s[i].id \notin
                                     Answered(s, {"observation", "reject"})
             /\ (s[i].call \notin FailedCalls(s) /\
                 s[i].id \notin Answered(s, {"observation", "reject"}))
                  => i \in OpenAt(s)
             /\ i \in OpenAt(s) /\ s[i].call \in FailedCalls(s) =>
                  \E j \in 1..(i - 1) :
                    s[j].kind = "error" /\ s[j].call = s[i].call
<1> DEFINE s == FirstPage(log)
<1>1. /\ s \in Seq(Events) /\ AskedOnce(s) /\ AnswersFollow(s)
      /\ DOMAIN s = 1..Len(s) /\ Len(s) \in Nat
  BY FirstPageIs, PrefixIs, PrefixKeeps, LenProperties DEF PageInv, Pages
<1>2. AsksAt(s, i) /\ s[i].kind = "action" /\ i \in 1..Len(s)
  BY <1>1 DEF AsksAt
<1> HIDE DEF s
<1>3. s[i].id \in PendingActionsFromEvents(s) <=> i \in OpenAt(s)
  BY <1>1, <1>2, CardIsOpen, CardsOpen
<1>4. ASSUME i \in OpenAt(s),
             s[i].id \in Answered(s, {"observation", "reject"})
      PROVE  FALSE
  <2>1. PICK k \in 1..Len(s) : AnswersAt(s, k) /\ s[k].id = s[i].id
    BY <1>1, <1>4 DEF Answered, AnswersAt
  <2>2. PICK h \in 1..(k - 1) : s[h].kind = "action" /\ s[h].id = s[k].id
    BY <1>1, <2>1 DEF AnswersFollow
  <2>3. h = i
    BY <1>1, <1>2, <2>1, <2>2 DEF AskedOnce, AsksAt
  <2>4. k \in (i + 1)..Len(s)
    BY <1>1, <2>1, <2>2, <2>3
  <2>5. AnsweredBy(s[i], s[k])
    BY <2>1 DEF AnsweredBy, AnswersAt
  <2> QED
    BY <1>4, <2>4, <2>5 DEF OpenAt
<1>5. ASSUME s[i].call \notin FailedCalls(s),
             s[i].id \notin Answered(s, {"observation", "reject"})
      PROVE  i \in OpenAt(s)
  <2>1. \A k \in (i + 1)..Len(s) : ~AnsweredBy(s[i], s[k])
    BY <1>1, <1>2, <1>5 DEF AnsweredBy, FailedCalls, Answered
  <2> QED
    BY <1>1, <1>2, <2>1 DEF OpenAt
<1>6. ASSUME i \in OpenAt(s), s[i].call \in FailedCalls(s)
      PROVE  \E j \in 1..(i - 1) :
               s[j].kind = "error" /\ s[j].call = s[i].call
  <2>1. PICK k \in 1..Len(s) : s[k].kind = "error" /\ s[k].call = s[i].call
    BY <1>1, <1>6 DEF FailedCalls
  <2>2. k \notin (i + 1)..Len(s)
    BY <1>6, <2>1 DEF OpenAt, AnsweredBy
  <2>3. k # i
    BY <1>2, <2>1
  <2>4. k \in 1..(i - 1)
    BY <1>1, <1>2, <2>1, <2>2, <2>3
  <2> QED
    BY <2>1, <2>4
<1> QED
  BY <1>3, <1>4, <1>5, <1>6 DEF s

\* The posture, which forgets the order of the answers, and the cards agree on
\* what is pending, except for an action whose tool call failed before under
\* the same name.
THEOREM PostureFitsCards == Spec => []PostureAgreesWithCards
<1>1. ASSUME PageInv PROVE PostureAgreesWithCards
  <2> DEFINE s == FirstPage(log)
  <2>1. SUFFICES ASSUME NEW i \in DOMAIN s, s[i].kind = "action"
                 PROVE  LET card == s[i].id \in PendingActionsFromEvents(s)
                        IN  /\ Outcome(s, s[i]) = "pending" => card
                            /\ card /\ Outcome(s, s[i]) # "pending" =>
                                 \E j \in 1..(i - 1) :
                                   s[j].kind = "error" /\
                                   s[j].call = s[i].call
    BY DEF PostureAgreesWithCards
  <2>2. /\ s[i].id \in PendingActionsFromEvents(s) <=> i \in OpenAt(s)
        /\ i \in OpenAt(s) => s[i].id \notin
                                Answered(s, {"observation", "reject"})
        /\ (s[i].call \notin FailedCalls(s) /\
            s[i].id \notin Answered(s, {"observation", "reject"}))
             => i \in OpenAt(s)
        /\ i \in OpenAt(s) /\ s[i].call \in FailedCalls(s) =>
             \E j \in 1..(i - 1) :
               s[j].kind = "error" /\ s[j].call = s[i].call
    BY <1>1, <2>1, OnPage
  <2>3. s[i].id \in Answered(s, {"observation", "reject"}) <=>
          \/ s[i].id \in Answered(s, {"observation"})
          \/ s[i].id \in Answered(s, {"reject"})
    BY DEF Answered
  <2> HIDE DEF s
  <2> QED
    BY <2>2, <2>3 DEF Outcome
<1> QED
  BY <1>1, PageInductive, PTL

\* A call the posture reports as abandoned still has a card, unless it is a
\* malformed one that a restart has left without its error.
THEOREM AbandonedKeepCards == Spec => []AbandonedHasCard
<1>1. ASSUME PageInv PROVE AbandonedHasCard
  <2> DEFINE s == FirstPage(log)
  <2>1. SUFFICES ASSUME NEW x \in Abandoned(s), x \notin lost
                 PROVE  x \in PendingActionsFromEvents(s)
    BY DEF AbandonedHasCard
  <2>2. PICK i \in DOMAIN s :
          /\ s[i].kind \in {"action", "malformed"} /\ x = s[i].id
          /\ s[i].call \notin FailedCalls(s)
          /\ s[i].id \notin Answered(s, {"observation", "reject"})
          /\ \E j \in (i + 1)..Len(s) : s[j].kind = "prose"
    BY <2>1 DEF Abandoned
  <2>3. CASE s[i].kind = "action"
    BY <1>1, <2>2, <2>3, OnPage
  <2>4. CASE s[i].kind = "malformed"
    <3>1. PICK n \in 0..Len(log) : s = SubSeq(log, 1, n)
      BY <1>1, FirstPageIs DEF PageInv, Pages
    <3>2. /\ Len(s) = n /\ DOMAIN s = 1..n
          /\ Len(log) \in Nat /\ DOMAIN log = 1..Len(log)
          /\ \A k \in 1..n : s[k] = log[k]
      BY <1>1, <3>1, PrefixIs, LenProperties DEF PageInv, Pages
    <3> HIDE DEF s
    <3>3. i \in 1..n /\ i + 1 \in 1..n /\ i < Len(log) /\ i \in DOMAIN log
      BY <2>2, <3>2
    <3>4. s[i + 1].kind = "error" /\ s[i + 1].call = s[i].call
      BY <1>1, <2>1, <2>2, <2>4, <3>2, <3>3 DEF PageInv, ErrorFollows
    <3>5. s[i].call \in FailedCalls(s)
      BY <3>2, <3>3, <3>4 DEF FailedCalls
    <3> QED
      BY <2>2, <3>5
  <2> QED
    BY <2>2, <2>3, <2>4
<1> QED
  BY <1>1, PageInductive, PTL
=============================================================================
