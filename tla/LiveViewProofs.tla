--------------------------- MODULE LiveViewProofs ---------------------------
(***************************************************************************)
(* Theorems about the dashboard, for any number of runs, versions, clicks, *)
(* fetches in flight, dropped connections and failures.                    *)
(***************************************************************************)
EXTENDS LiveView, TLAPS

-----------------------------------------------------------------------------
(* The inductive invariant.                                                  *)

\* No event and no subscription without a run on screen; nothing the stream
\* has said of that run is newer than its row.
StreamOK ==
    /\ stream.subscribed \/ stream.open \/ stream.seen # 0 => active.run \in Runs
    /\ active.run \in Runs =>
          /\ stream.seen <= row[active.run]
          /\ \A i \in DOMAIN stream.wire : stream.wire[i] <= row[active.run]

\* A reply that may overwrite the approvals: of the run on screen it is not
\* older than the last event, and only a fetch that shows its own run, and so
\* forgets the events, is of another run.
Harmless(f, run, seen) ==
    /\ f.run = run /\ f.approvals # 0 => f.approvals >= seen
    /\ f.why = "event" => f.run = run

\* k is the place of the fetch, or 0 for the panel itself, that is the first
\* to be as new as the last event; whatever is answered after it is harmless.
SettledAt(k) ==
    /\ k = 0 => /\ panel.run = active.run
                /\ panel.version # 0 => panel.version >= stream.seen
    /\ k # 0 => /\ fetches[k].run = active.run
                /\ Harmless(fetches[k], active.run, stream.seen)
    /\ \A j \in DOMAIN fetches :
          j > k => Harmless(fetches[j], active.run, stream.seen)

InOrder == spent.failures = 0 /\ spent.overtakes = 0

PanelSettles ==
    InOrder /\ stream.seen # 0 => \E k \in 0..Len(fetches) : SettledAt(k)

LiveInv == StreamOK /\ PanelSettles

-----------------------------------------------------------------------------
(* Facts about sequences.                                                    *)

LEMMA ConcatenationAt ==
    ASSUME NEW S, NEW s \in Seq(S), NEW t \in Seq(S), NEW j \in Nat,
           Len(s) < j, j <= Len(s) + Len(t)
    PROVE  (s \o t)[j] = t[j - Len(s)]
OBVIOUS

LEMMA RemovedAt ==
    ASSUME NEW S, NEW s \in Seq(S), NEW i \in DOMAIN s
    PROVE  /\ RemoveAt(s, i) \in Seq(S)
           /\ Len(RemoveAt(s, i)) = Len(s) - 1
           /\ \A j \in 1..(Len(s) - 1) :
                 RemoveAt(s, i)[j] = IF j < i THEN s[j] ELSE s[j + 1]
<1> DEFINE before == SubSeq(s, 1, i - 1)
           after == SubSeq(s, i + 1, Len(s))
<1>1. /\ Len(s) \in Nat /\ i \in 1..Len(s)
      /\ \A j \in 1..Len(s) : s[j] \in S
    OBVIOUS
<1>2. /\ before \in Seq(S) /\ Len(before) = i - 1
      /\ \A j \in 1..(i - 1) : before[j] = s[j]
    BY <1>1
<1>3. /\ after \in Seq(S) /\ Len(after) = Len(s) - i
      /\ \A j \in 1..(Len(s) - i) : after[j] = s[i + j]
    BY <1>1
<1>4. RemoveAt(s, i) = before \o after
    BY DEF RemoveAt
<1> HIDE DEF before, after
<1>5. RemoveAt(s, i) \in Seq(S) /\ Len(RemoveAt(s, i)) = Len(s) - 1
    BY <1>1, <1>2, <1>3, <1>4
<1>6. ASSUME NEW j \in 1..(Len(s) - 1)
      PROVE  RemoveAt(s, i)[j] = IF j < i THEN s[j] ELSE s[j + 1]
  <2>1. CASE j < i
      BY <1>1, <1>2, <1>3, <1>4, <1>6, <2>1
  <2>2. CASE ~(j < i)
    <3>1. j - (i - 1) \in 1..(Len(s) - i) /\ i + (j - (i - 1)) = j + 1
        BY <1>1, <1>6, <2>2
    <3>2. (before \o after)[j] = after[j - (i - 1)]
      <4>1. /\ j \in Nat /\ Len(before) < j
            /\ j <= Len(before) + Len(after)
          BY <1>1, <1>2, <1>3, <1>6, <2>2
      <4>2. (before \o after)[j] = after[j - Len(before)]
          BY <1>2, <1>3, <4>1, ConcatenationAt
      <4> QED
          BY <1>2, <4>2
    <3> QED
        BY <1>3, <1>4, <2>2, <3>1, <3>2
  <2> QED
      BY <2>1, <2>2
<1> QED
    BY <1>5, <1>6

LEMMA Appended ==
    ASSUME NEW S, NEW s \in Seq(S), NEW e \in S
    PROVE  /\ Append(s, e) \in Seq(S)
           /\ Len(Append(s, e)) = Len(s) + 1
           /\ DOMAIN Append(s, e) = 1..(Len(s) + 1)
           /\ \A j \in 1..Len(s) : Append(s, e)[j] = s[j]
           /\ Append(s, e)[Len(s) + 1] = e
OBVIOUS

LEMMA HeadAndTail ==
    ASSUME NEW S, NEW s \in Seq(S), s # <<>>
    PROVE  /\ Head(s) = s[1] /\ Head(s) \in S /\ 1 \in DOMAIN s
           /\ Tail(s) \in Seq(S)
           /\ \A i \in DOMAIN Tail(s) : \E j \in DOMAIN s : Tail(s)[i] = s[j]
<1>1. Len(s) \in Nat /\ Len(s) # 0 /\ DOMAIN s = 1..Len(s)
    OBVIOUS
<1>2. Tail(s) \in Seq(S) /\ Len(Tail(s)) = Len(s) - 1
    OBVIOUS
<1>3. \A i \in 1..(Len(s) - 1) : Tail(s)[i] = s[i + 1]
    OBVIOUS
<1>4. DOMAIN Tail(s) = 1..(Len(s) - 1)
    BY <1>2
<1>5. \A i \in 1..(Len(s) - 1) : i + 1 \in 1..Len(s)
    BY <1>1
<1> QED
    BY <1>1, <1>2, <1>3, <1>4, <1>5

-----------------------------------------------------------------------------
(* Types.                                                                    *)

Spendings == [clicks: 0..MaxClicks, drops: 0..MaxDrops,
              failures: 0..MaxFailures, overtakes: 0..MaxOvertakes]

LEMMA LiveTypes ==
    TypeOK => /\ row \in [Runs -> Versions]
              /\ active \in Views /\ panel \in Views /\ stream \in Streams
              /\ fetches \in Seq(Fetches) /\ Len(fetches) <= MaxReplies
              /\ Len(fetches) \in Nat /\ DOMAIN fetches = 1..Len(fetches)
              /\ ui \in UiStates /\ spent \in Spendings
BY DEF TypeOK, Spendings

LEMMA ShowTypes ==
    ASSUME TypeOK, NEW r \in Runs, NEW version \in Versions, Show(r, version)
    PROVE  active' \in Views /\ stream' \in Streams
<1>1. [run |-> r, version |-> version] \in Views
    BY DEF Views
<1>2. Opened(0) \in Streams
    BY LiveViewBounds DEF Opened, Streams, Versions
<1> QED
    BY <1>1, <1>2, LiveTypes DEF Show

LEMMA IssueTypes ==
    ASSUME TypeOK, CanFetch, NEW why \in {"open", "refresh", "event"},
           NEW r \in Runs, Issue(why, r)
    PROVE  fetches' \in Seq(Fetches) /\ Len(fetches') <= MaxReplies
<1>1. [why |-> why, run |-> r, workflow |-> 0, approvals |-> 0] \in Fetches
    BY LiveViewBounds DEF Fetches, Versions
<1> QED
    BY <1>1, LiveTypes, LiveViewBounds, Appended DEF Issue, CanFetch

\* Each counter grows only below its bound.
LEMMA SpendingTypes ==
    ASSUME spent \in Spendings
    PROVE  /\ Click => spent' \in Spendings
           /\ \A i : Overtaking(i) => spent' \in Spendings
           /\ spent.failures < MaxFailures
                 /\ spent' = [spent EXCEPT !.failures = @ + 1] => spent' \in Spendings
           /\ spent.drops < MaxDrops
                 /\ spent' = [spent EXCEPT !.drops = @ + 1] => spent' \in Spendings
<1>1. /\ \A n \in 0..MaxClicks : [spent EXCEPT !.clicks = n] \in Spendings
      /\ \A n \in 0..MaxDrops : [spent EXCEPT !.drops = n] \in Spendings
      /\ \A n \in 0..MaxFailures : [spent EXCEPT !.failures = n] \in Spendings
      /\ \A n \in 0..MaxOvertakes : [spent EXCEPT !.overtakes = n] \in Spendings
    BY DEF Spendings
<1>2. /\ spent.clicks \in 0..MaxClicks /\ spent.drops \in 0..MaxDrops
      /\ spent.failures \in 0..MaxFailures /\ spent.overtakes \in 0..MaxOvertakes
    BY DEF Spendings
<1>3. /\ spent.clicks < MaxClicks => spent.clicks + 1 \in 0..MaxClicks
      /\ spent.drops < MaxDrops => spent.drops + 1 \in 0..MaxDrops
      /\ spent.failures < MaxFailures => spent.failures + 1 \in 0..MaxFailures
      /\ spent.overtakes < MaxOvertakes => spent.overtakes + 1 \in 0..MaxOvertakes
    BY <1>2, LiveViewBounds
<1>4. ASSUME NEW i, Overtaking(i) PROVE spent' \in Spendings
    BY <1>1, <1>2, <1>3, <1>4 DEF Overtaking
<1> QED
    BY <1>1, <1>3, <1>4 DEF Click

LEMMA ClickTypes == TypeOK /\ Click => spent' \in Spendings
BY LiveTypes, SpendingTypes

LEMMA LiveInit == Init => TypeOK /\ LiveInv
<1> USE LiveViewBounds, NoRunAssumption
<1> SUFFICES ASSUME Init
             PROVE  TypeOK /\ LiveInv
    OBVIOUS
<1>1. row \in [Runs -> Versions]
    BY DEF Init, Versions
<1>2. active \in Views /\ panel \in Views
    BY DEF Init, NothingShown, Views, Versions
<1>3. stream \in Streams
    BY DEF Init, Unsubscribed, Streams, Versions
<1>4. fetches \in Seq(Fetches) /\ Len(fetches) <= MaxReplies
    BY DEF Init
<1>5. ui \in UiStates
    BY DEF Init, UiStates
<1>6. spent \in Spendings
    BY DEF Init, Spendings
<1>7. TypeOK
    BY <1>1, <1>2, <1>3, <1>4, <1>5, <1>6 DEF TypeOK, Spendings
<1>8. /\ active.run = NoRun /\ ~stream.subscribed /\ ~stream.open
      /\ stream.seen = 0
    BY DEF Init, NothingShown, Unsubscribed
<1>9. LiveInv
    BY <1>8 DEF LiveInv, StreamOK, PanelSettles
<1> QED
    BY <1>7, <1>9

LEMMA LiveTypesStep == TypeOK /\ LiveInv /\ [Next]_vars => TypeOK'
<1> USE LiveViewBounds, NoRunAssumption
<1> SUFFICES ASSUME TypeOK, LiveInv, [Next]_vars
             PROVE  TypeOK'
    OBVIOUS
<1>0. /\ row \in [Runs -> Versions]
      /\ active \in Views /\ panel \in Views /\ stream \in Streams
      /\ fetches \in Seq(Fetches) /\ Len(fetches) <= MaxReplies
      /\ Len(fetches) \in Nat /\ DOMAIN fetches = 1..Len(fetches)
      /\ ui \in UiStates /\ spent \in Spendings
    BY LiveTypes
<1>q. ASSUME row' \in [Runs -> Versions],
             active' \in Views, panel' \in Views, stream' \in Streams,
             fetches' \in Seq(Fetches), Len(fetches') <= MaxReplies,
             ui' \in UiStates, spent' \in Spendings
      PROVE  TypeOK'
    BY <1>q DEF TypeOK, Spendings, Versions, Views, Streams, Fetches, UiStates
<1>a. active.run \in Runs \cup {NoRun} /\ active.version \in Versions
    BY <1>0 DEF Views
<1>s. stream.wire \in Seq(Versions) /\ stream.seen \in Versions
    BY <1>0 DEF Streams
<1>f. ASSUME NEW i \in DOMAIN fetches
      PROVE  /\ fetches[i] \in Fetches
             /\ fetches[i].run \in Runs /\ fetches[i].workflow \in Versions
             /\ fetches[i].approvals \in Versions
  <2>1. fetches[i] \in Fetches
      BY <1>0, <1>f
  <2> QED
      BY <2>1 DEF Fetches
<1>r. ASSUME NEW i \in DOMAIN fetches, fetches' = RemoveAt(fetches, i)
      PROVE  fetches' \in Seq(Fetches) /\ Len(fetches') <= MaxReplies
    BY <1>0, <1>r, RemovedAt
<1>1. CASE PollRow
  <2>1. active.run \in Runs
      BY <1>1 DEF PollRow, LiveInv, StreamOK
  <2>2. row[active.run] \in Versions
      BY <1>0, <2>1
  <2>3. SentWhenChanged \in Seq(Versions)
      BY <1>s, <2>2 DEF SentWhenChanged
  <2>4. (row[active.run] # LastVersion) \in BOOLEAN
      OBVIOUS
  <2> DEFINE open == row[active.run] # LastVersion
             sent == SentWhenChanged
  <2>5. stream' = [stream EXCEPT !.wire = sent, !.sent = row[active.run],
                                 !.open = open]
      BY <1>1 DEF PollRow
  <2> HIDE DEF open, sent
  <2>6. sent \in Seq(Versions) /\ open \in BOOLEAN
      BY <2>3, <2>4 DEF open, sent
  <2>7. stream' \in Streams
      BY <1>0, <2>2, <2>5, <2>6 DEF Streams
  <2> QED
      BY <1>0, <1>1, <1>q, <2>7 DEF PollRow
<1>2. CASE EventArrives
  <2> DEFINE version == Head(stream.wire)
  <2>1. version \in Versions /\ Tail(stream.wire) \in Seq(Versions)
      BY <1>2, <1>s, HeadAndTail DEF EventArrives
  <2>2. /\ active' = [active EXCEPT !.version = version]
        /\ stream' = IF version = LastVersion
                     THEN [Unsubscribed EXCEPT !.seen = version]
                     ELSE [stream EXCEPT !.wire = Tail(@), !.seen = version]
        /\ Issue("event", active.run) /\ CanFetch /\ stream.subscribed
        /\ UNCHANGED <<row, panel, ui, spent>>
      BY <1>2 DEF EventArrives, FetchAfterEvent
  <2> HIDE DEF version
  <2>3. active' \in Views
      BY <1>0, <2>1, <2>2 DEF Views
  <2>4. Unsubscribed \in Streams
      BY DEF Unsubscribed, Streams, Versions
  <2>5. stream' \in Streams
    <3>1. [Unsubscribed EXCEPT !.seen = version] \in Streams
        BY <2>1, <2>4 DEF Streams
    <3>2. [stream EXCEPT !.wire = Tail(@), !.seen = version] \in Streams
        BY <1>0, <2>1 DEF Streams
    <3> QED
        BY <2>2, <3>1, <3>2
  <2>6. active.run \in Runs
      BY <2>2 DEF LiveInv, StreamOK
  <2>7. fetches' \in Seq(Fetches) /\ Len(fetches') <= MaxReplies
      BY <2>2, <2>6, IssueTypes
  <2> QED
      BY <1>0, <1>q, <2>2, <2>3, <2>5, <2>7
<1>3. CASE Reconnect
  <2>1. stream' \in Streams
      BY <1>3, <1>s DEF Reconnect, Opened, Streams, Versions
  <2> QED
      BY <1>0, <1>3, <1>q, <2>1 DEF Reconnect
<1>4. ASSUME NEW i \in DOMAIN fetches,
             \/ fetches' = [fetches EXCEPT ![i].workflow = row[fetches[i].run]]
             \/ fetches' = [fetches EXCEPT ![i].approvals = row[fetches[i].run]]
      PROVE  fetches' \in Seq(Fetches) /\ Len(fetches') <= MaxReplies
  <2> DEFINE version == row[fetches[i].run]
  <2>1. version \in Versions
      BY <1>0, <1>f, <1>4
  <2> HIDE DEF version
  <2>2. PICK f \in Fetches : fetches' = [fetches EXCEPT ![i] = f]
    <3>1. /\ [fetches[i] EXCEPT !.workflow = version] \in Fetches
          /\ [fetches[i] EXCEPT !.approvals = version] \in Fetches
        BY <1>f, <1>4, <2>1 DEF Fetches
    <3>2. \/ fetches' = [fetches EXCEPT ![i] = [fetches[i] EXCEPT !.workflow = version]]
          \/ fetches' = [fetches EXCEPT ![i] = [fetches[i] EXCEPT !.approvals = version]]
        BY <1>4 DEF version
    <3> QED
        BY <3>1, <3>2
  <2> QED
      BY <1>0, <1>4, <2>2
<1>5. ASSUME NEW i \in 1..MaxReplies, ServeWorkflow(i)
      PROVE  TypeOK'
    BY <1>0, <1>4, <1>5, <1>q DEF ServeWorkflow
<1>6. ASSUME NEW i \in 1..MaxReplies, ServeApprovals(i)
      PROVE  TypeOK'
    BY <1>0, <1>4, <1>6, <1>q DEF ServeApprovals
<1>7. ASSUME NEW i \in 1..MaxReplies, ReplyArrives(i)
      PROVE  TypeOK'
  <2>1. /\ i \in DOMAIN fetches /\ Overtaking(i)
        /\ panel' = [run |-> fetches[i].run, version |-> fetches[i].approvals]
        /\ fetches' = RemoveAt(fetches, i)
        /\ row' = row
      BY <1>7 DEF ReplyArrives
  <2>2. active' \in Views /\ stream' \in Streams
    <3>1. CASE UNCHANGED <<active, stream>>
        BY <1>0, <3>1
    <3>2. CASE Show(fetches[i].run, fetches[i].workflow)
        BY <1>f, <2>1, <3>2, ShowTypes
    <3> QED
        BY <1>7, <3>1, <3>2 DEF ReplyArrives
  <2>3. ui' \in UiStates
    <3> DEFINE loading == ui.loading /\ fetches[i].why # "open"
    <3>1. \/ ui' = ui
          \/ ui' = [ui EXCEPT !.refreshing = FALSE, !.loading = loading]
        BY <1>7 DEF ReplyArrives
    <3>2. loading \in BOOLEAN
        BY <1>0 DEF UiStates
    <3> HIDE DEF loading
    <3> QED
        BY <1>0, <3>1, <3>2 DEF UiStates
  <2>4. panel' \in Views
      BY <1>f, <2>1 DEF Views
  <2>5. spent' \in Spendings
      BY <1>0, <2>1, SpendingTypes
  <2> QED
      BY <1>0, <1>q, <1>r, <2>1, <2>2, <2>3, <2>4, <2>5
<1>8. ASSUME NEW i \in 1..MaxReplies, FetchFails(i)
      PROVE  TypeOK'
  <2>1. /\ i \in DOMAIN fetches /\ fetches' = RemoveAt(fetches, i)
        /\ UNCHANGED <<row, active, panel, stream>>
      BY <1>8 DEF FetchFails
  <2>2. ui' \in UiStates
    <3> DEFINE loading == ui.loading /\ fetches[i].why # "open"
    <3>1. \/ ui' = ui
          \/ ui' = [ui EXCEPT !.refreshing = FALSE, !.loading = loading]
        BY <1>8 DEF FetchFails
    <3>2. loading \in BOOLEAN
        BY <1>0 DEF UiStates
    <3> HIDE DEF loading
    <3> QED
        BY <1>0, <3>1, <3>2 DEF UiStates
  <2>3. spent' \in Spendings
      BY <1>0, <1>8, SpendingTypes DEF FetchFails
  <2> QED
      BY <1>0, <1>q, <1>r, <2>1, <2>2, <2>3
<1>9. CASE DecisionReturns
  <2>1. ui.deciding \in Runs
      BY <1>0, <1>9 DEF DecisionReturns, UiStates
  <2>2. fetches' \in Seq(Fetches) /\ Len(fetches') <= MaxReplies
      BY <1>9, <2>1, IssueTypes DEF DecisionReturns
  <2>3. ui' \in UiStates
      BY <1>0, <1>9 DEF DecisionReturns, UiStates
  <2> QED
      BY <1>0, <1>9, <1>q, <2>2, <2>3 DEF DecisionReturns
<1>10. CASE CreationReturns
  <2>1. ui.creating \in Runs /\ 1 \in Versions /\ 0 \in Versions
      BY <1>0, <1>10 DEF CreationReturns, UiStates, Versions
  <2>2. active' \in Views /\ stream' \in Streams
      BY <1>10, <2>1, ShowTypes DEF CreationReturns
  <2>3. ui' \in UiStates
      BY <1>0, <1>10 DEF CreationReturns, UiStates
  <2>4. panel' \in Views
      BY <1>10, <2>1 DEF CreationReturns, Views
  <2> QED
      BY <1>0, <1>10, <1>q, <2>2, <2>3, <2>4 DEF CreationReturns
<1>11. ASSUME NEW r \in Runs, OpenWorkflow(r)
       PROVE  TypeOK'
  <2>1. fetches' \in Seq(Fetches) /\ Len(fetches') <= MaxReplies
      BY <1>11, IssueTypes DEF OpenWorkflow
  <2>2. ui' \in UiStates
      BY <1>0, <1>11 DEF OpenWorkflow, UiStates
  <2>3. spent' \in Spendings
      BY <1>11, ClickTypes DEF OpenWorkflow
  <2> QED
      BY <1>0, <1>11, <1>q, <2>1, <2>2, <2>3 DEF OpenWorkflow
<1>12. ASSUME NEW r \in Runs, CreateWorkflow(r)
       PROVE  TypeOK'
  <2>1. row' \in [Runs -> Versions]
      BY <1>0, <1>12 DEF CreateWorkflow, Versions
  <2>2. ui' \in UiStates
      BY <1>0, <1>12 DEF CreateWorkflow, UiStates
  <2>3. spent' \in Spendings
      BY <1>12, ClickTypes DEF CreateWorkflow
  <2> QED
      BY <1>0, <1>12, <1>q, <2>1, <2>2, <2>3 DEF CreateWorkflow
<1>13. CASE RefreshWorkflow
  <2>1. active.run \in Runs
      BY <1>13, <1>a DEF RefreshWorkflow, HasTarget
  <2>2. fetches' \in Seq(Fetches) /\ Len(fetches') <= MaxReplies
      BY <1>13, <2>1, IssueTypes DEF RefreshWorkflow
  <2>3. ui' \in UiStates
      BY <1>0, <1>13 DEF RefreshWorkflow, UiStates
  <2>4. spent' \in Spendings
      BY <1>13, ClickTypes DEF RefreshWorkflow
  <2> QED
      BY <1>0, <1>13, <1>q, <2>2, <2>3, <2>4 DEF RefreshWorkflow
<1>14. CASE SubmitDecision
  <2>1. ui' \in UiStates
      BY <1>0, <1>14, <1>a DEF SubmitDecision, UiStates
  <2>2. spent' \in Spendings
      BY <1>14, ClickTypes DEF SubmitDecision
  <2> QED
      BY <1>0, <1>14, <1>q, <2>1, <2>2 DEF SubmitDecision
<1>15. ASSUME NEW r \in Runs, RowChanges(r)
       PROVE  TypeOK'
  <2>1. row' \in [Runs -> Versions]
      BY <1>0, <1>15 DEF RowChanges, Versions
  <2> QED
      BY <1>0, <1>15, <1>q, <2>1 DEF RowChanges
<1>16. CASE ConnectionDrops
  <2>1. stream' \in Streams
    <3>1. <<>> \in Seq(Versions)
        OBVIOUS
    <3> QED
        BY <1>0, <1>16, <3>1 DEF ConnectionDrops, Streams
  <2>2. spent' \in Spendings
      BY <1>0, <1>16, SpendingTypes DEF ConnectionDrops
  <2> QED
      BY <1>0, <1>16, <1>q, <2>1, <2>2 DEF ConnectionDrops
<1>17. CASE UNCHANGED vars
    BY <1>0, <1>17, <1>q DEF vars
<1> QED
    BY <1>1, <1>2, <1>3, <1>5, <1>6, <1>7, <1>8, <1>9, <1>10, <1>11, <1>12,
       <1>13, <1>14, <1>15, <1>16, <1>17 DEF Next, System, Person

-----------------------------------------------------------------------------
(* The stream.                                                               *)

\* What StreamOK needs of a step that shows another run, or the same.
LEMMA ShowStream ==
    ASSUME TypeOK, StreamOK, NEW r \in Runs, NEW version, Show(r, version), row' = row
    PROVE  StreamOK' /\ active'.run = r
           /\ stream'.seen = IF r = active.run THEN stream.seen ELSE 0
<1>1. active'.run = r
    BY DEF Show
<1>2. CASE r = active.run
    BY <1>1, <1>2 DEF Show, StreamOK
<1>3. CASE r # active.run
  <2>1. stream'.seen = 0 /\ stream'.wire = <<>>
      BY <1>3 DEF Show, Opened
  <2>2. row[r] \in Nat
      BY LiveTypes, LiveViewBounds DEF Versions
  <2> QED
      BY <1>1, <1>3, <2>1, <2>2 DEF StreamOK
<1> QED
    BY <1>1, <1>2, <1>3

LEMMA StreamStep == TypeOK /\ LiveInv /\ [Next]_vars => StreamOK'
<1> USE LiveViewBounds, NoRunAssumption
<1> SUFFICES ASSUME TypeOK, LiveInv, [Next]_vars
             PROVE  StreamOK'
    OBVIOUS
<1>0. /\ row \in [Runs -> Versions] /\ active \in Views /\ stream \in Streams
      /\ ui \in UiStates /\ StreamOK
      /\ fetches \in Seq(Fetches) /\ Len(fetches) \in Nat
    BY LiveTypes DEF LiveInv
<1>s. /\ stream.wire \in Seq(Versions) /\ stream.seen \in Nat
      /\ \A r \in Runs : row[r] \in Nat
    BY <1>0 DEF Streams, Versions
\* A step that does not touch the run on screen, nor what was sent of it.
<1>q. ASSUME active'.run = active.run, stream'.seen = stream.seen,
             \A r \in Runs : row'[r] \in Nat /\ row[r] <= row'[r],
             stream'.wire \in {stream.wire, <<>>},
             stream'.subscribed \/ stream'.open => stream.subscribed \/ stream.open
      PROVE  StreamOK'
  <2>1. \A i \in DOMAIN stream'.wire : i \in DOMAIN stream.wire
            /\ stream'.wire[i] = stream.wire[i] /\ stream.wire[i] \in Nat
      BY <1>s, <1>q DEF Versions
  <2> QED
      BY <1>0, <1>s, <1>q, <2>1 DEF StreamOK
<1>u. (\A r \in Runs : row'[r] \in Nat /\ row[r] <= row'[r]) \/ row' # row
    BY <1>s
<1>1. CASE PollRow
  <2>1. /\ active' = active /\ row' = row /\ stream.open
        /\ stream'.wire = Append(stream.wire, row[active.run])
        /\ stream'.seen = stream.seen
      BY <1>0, <1>1 DEF PollRow, SentWhenChanged, Streams
  <2>2. active.run \in Runs
      BY <1>0, <2>1 DEF StreamOK
  <2>3. row[active.run] \in Versions
      BY <1>0, <2>2
  <2>4. \A i \in DOMAIN stream'.wire : stream'.wire[i] <= row[active.run]
    <3>1. ASSUME NEW i \in 1..(Len(stream.wire) + 1)
          PROVE  stream'.wire[i] <= row[active.run]
      <4>1. CASE i \in 1..Len(stream.wire)
        <5>1. stream'.wire[i] = stream.wire[i] /\ i \in DOMAIN stream.wire
            BY <1>s, <2>1, <2>3, <4>1, Appended
        <5> QED
            BY <1>0, <2>2, <5>1 DEF StreamOK
      <4>2. CASE i = Len(stream.wire) + 1
        <5>1. stream'.wire[i] = row[active.run]
            BY <1>s, <2>1, <2>3, <4>2, Appended
        <5> QED
            BY <1>s, <2>2, <5>1
      <4> QED
          BY <1>s, <3>1, <4>1, <4>2
    <3>2. DOMAIN stream'.wire = 1..(Len(stream.wire) + 1)
        BY <1>s, <2>1, <2>3, Appended
    <3> QED
        BY <3>1, <3>2
  <2> QED
      BY <1>0, <2>1, <2>2, <2>4 DEF StreamOK
<1>2. CASE EventArrives
  <2> DEFINE version == Head(stream.wire)
  <2>1. /\ stream.wire # <<>> /\ stream.subscribed /\ row' = row
        /\ active'.run = active.run
        /\ stream'.seen = version
        /\ stream'.wire \in {<<>>, Tail(stream.wire)}
      BY <1>0, <1>2 DEF EventArrives, Views, Streams, Unsubscribed
  <2>2. active.run \in Runs
      BY <1>0, <2>1 DEF StreamOK
  <2>3. /\ version <= row[active.run]
        /\ \A i \in DOMAIN Tail(stream.wire) : Tail(stream.wire)[i] <= row[active.run]
      BY <1>0, <1>s, <2>1, <2>2, HeadAndTail DEF StreamOK
  <2> HIDE DEF version
  <2>4. \A i \in DOMAIN stream'.wire : stream'.wire[i] <= row[active.run]
    <3>1. CASE stream'.wire = <<>>
        BY <3>1
    <3>2. CASE stream'.wire = Tail(stream.wire)
        BY <2>3, <3>2
    <3> QED
        BY <2>1, <3>1, <3>2
  <2>5. active'.run \in Runs /\ row'[active'.run] = row[active.run]
      BY <2>1, <2>2
  <2> QED
      BY <2>1, <2>3, <2>4, <2>5 DEF StreamOK
<1>3. CASE Reconnect
  <2>1. /\ active' = active /\ row' = row /\ stream.subscribed
        /\ stream'.seen = stream.seen /\ stream'.wire = <<>>
      BY <1>3 DEF Reconnect, Opened
  <2> QED
      BY <1>q, <1>s, <2>1
<1>4. ASSUME NEW i \in 1..MaxReplies,
             ServeWorkflow(i) \/ ServeApprovals(i) \/ FetchFails(i)
      PROVE  StreamOK'
  <2>1. active' = active /\ row' = row /\ stream' = stream
      BY <1>4 DEF ServeWorkflow, ServeApprovals, FetchFails
  <2> QED
      BY <1>q, <1>s, <2>1
<1>5. ASSUME NEW i \in 1..MaxReplies, ReplyArrives(i)
      PROVE  StreamOK'
  <2>1. row' = row /\ fetches[i].run \in Runs
    <3>1. fetches[i] \in Fetches /\ row' = row
        BY <1>0, <1>5 DEF ReplyArrives
    <3> QED
        BY <3>1 DEF Fetches
  <2>2. CASE UNCHANGED <<active, stream>>
      BY <1>q, <1>s, <2>1, <2>2
  <2>3. CASE Show(fetches[i].run, fetches[i].workflow)
      BY <1>0, <2>1, <2>3, ShowStream
  <2> QED
      BY <1>5, <2>2, <2>3 DEF ReplyArrives
<1>6. CASE CreationReturns
  <2>1. ui.creating \in Runs /\ row' = row /\ Show(ui.creating, 1)
      BY <1>0, <1>6 DEF CreationReturns, UiStates
  <2> QED
      BY <1>0, <2>1, ShowStream
<1>7. CASE DecisionReturns \/ RefreshWorkflow \/ SubmitDecision \/ UNCHANGED vars
           \/ \E r \in Runs : OpenWorkflow(r)
  <2>1. active' = active /\ row' = row /\ stream' = stream
      BY <1>7 DEF DecisionReturns, RefreshWorkflow, SubmitDecision, OpenWorkflow,
                  vars
  <2> QED
      BY <1>q, <1>s, <2>1
<1>8. ASSUME NEW r \in Runs, CreateWorkflow(r) \/ RowChanges(r)
      PROVE  StreamOK'
  <2>1. /\ active' = active /\ stream' = stream
        /\ row' \in {[row EXCEPT ![r] = 1], [row EXCEPT ![r] = @ + 1]}
        /\ row' = [row EXCEPT ![r] = 1] => row[r] = 0 \/ row'[r] = row[r] + 1
      BY <1>0, <1>8 DEF CreateWorkflow, RowChanges
  <2>2. \A t \in Runs : row'[t] \in Nat /\ row[t] <= row'[t]
      BY <1>0, <1>s, <2>1
  <2> QED
      BY <1>q, <2>1, <2>2
<1>9. CASE ConnectionDrops
  <2>1. /\ active' = active /\ row' = row /\ stream.subscribed
        /\ stream'.seen = stream.seen /\ stream'.wire = <<>>
      BY <1>0, <1>9 DEF ConnectionDrops, Streams
  <2> QED
      BY <1>q, <1>s, <2>1
<1> QED
    BY <1>1, <1>2, <1>3, <1>4, <1>5, <1>6, <1>7, <1>8, <1>9
       DEF Next, System, Person

-----------------------------------------------------------------------------
(* The panel.                                                                *)

\* A fetch that is issued is harmless as long as it is no event of another run.
LEMMA IssueSettles ==
    ASSUME TypeOK, PanelSettles, InOrder' => InOrder,
           active'.run = active.run, stream'.seen = stream.seen, panel' = panel,
           NEW why \in {"open", "refresh"}, NEW r \in Runs, Issue(why, r)
    PROVE  PanelSettles'
<1> SUFFICES ASSUME InOrder', stream'.seen # 0
             PROVE  \E k \in 0..Len(fetches') : SettledAt(k)'
    BY DEF PanelSettles
<1> DEFINE f == [why |-> why, run |-> r, workflow |-> 0, approvals |-> 0]
<1>1. f \in Fetches /\ fetches \in Seq(Fetches) /\ Len(fetches) \in Nat
    BY LiveTypes, LiveViewBounds DEF Fetches, Versions, Issue
<1>2. fetches' = Append(fetches, f)
    BY DEF Issue
<1>3. f.approvals = 0 /\ f.why # "event"
    OBVIOUS
<1> HIDE DEF f
<1>4. /\ DOMAIN fetches' = 1..(Len(fetches) + 1) /\ Len(fetches') = Len(fetches) + 1
      /\ \A j \in 1..Len(fetches) : fetches'[j] = fetches[j]
      /\ fetches'[Len(fetches) + 1] = f
    BY <1>1, <1>2, Appended
<1>5. PICK k \in 0..Len(fetches) : SettledAt(k)
    BY DEF PanelSettles
<1>6. Harmless(f, active.run, stream.seen)
    BY <1>3 DEF Harmless
<1>7. k \in 0..Len(fetches') /\ (k # 0 => fetches'[k] = fetches[k])
    BY <1>1, <1>4
<1>8. ASSUME NEW j \in DOMAIN fetches', j > k
      PROVE  Harmless(fetches'[j], active.run, stream.seen)
  <2>1. CASE j = Len(fetches) + 1
      BY <1>4, <1>6, <2>1
  <2>2. CASE j \in 1..Len(fetches)
      BY <1>1, <1>4, <1>5, <1>8, <2>2 DEF SettledAt
  <2> QED
      BY <1>1, <1>4, <1>8, <2>1, <2>2
<1>9. SettledAt(k)'
    BY <1>5, <1>7, <1>8 DEF SettledAt
<1> QED
    BY <1>7, <1>9

\* Nothing that PanelSettles speaks of has changed.
LEMMA QuietSettles ==
    ASSUME PanelSettles, InOrder' => InOrder,
           active'.run = active.run, stream'.seen = stream.seen, panel' = panel,
           fetches' = fetches
    PROVE  PanelSettles'
BY DEF PanelSettles, SettledAt, Harmless

LEMMA PanelStep == TypeOK /\ LiveInv /\ [Next]_vars => PanelSettles'
<1> USE LiveViewBounds, NoRunAssumption
<1> SUFFICES ASSUME TypeOK, LiveInv, [Next]_vars
             PROVE  PanelSettles'
    OBVIOUS
<1>0. /\ row \in [Runs -> Versions] /\ active \in Views /\ stream \in Streams
      /\ ui \in UiStates /\ spent \in Spendings
      /\ fetches \in Seq(Fetches)
      /\ Len(fetches) \in Nat /\ DOMAIN fetches = 1..Len(fetches)
      /\ StreamOK /\ PanelSettles
    BY LiveTypes DEF LiveInv
<1>s. /\ stream.wire \in Seq(Versions) /\ stream.seen \in Nat
      /\ \A r \in Runs : row[r] \in Nat
    BY <1>0 DEF Streams, Versions
<1>f. ASSUME NEW i \in DOMAIN fetches
      PROVE  /\ fetches[i] \in Fetches
             /\ fetches[i].run \in Runs /\ fetches[i].approvals \in Nat
             /\ fetches[i].why \in {"open", "refresh", "event"}
  <2>1. fetches[i] \in Fetches
      BY <1>0, <1>f
  <2> QED
      BY <2>1 DEF Fetches, Versions
<1>c. Click \/ spent' = spent => (InOrder' => InOrder)
    BY <1>0 DEF Click, InOrder, Spendings
<1>1. CASE PollRow \/ Reconnect \/ SubmitDecision \/ UNCHANGED vars
           \/ \E r \in Runs : CreateWorkflow(r) \/ RowChanges(r)
  <2>1. /\ active' = active /\ panel' = panel /\ fetches' = fetches
        /\ stream'.seen = stream.seen
        /\ Click \/ spent' = spent
    <3>1. CASE PollRow \/ Reconnect
      <4>1. CASE Reconnect
          BY <4>1 DEF Reconnect, Opened
      <4>2. CASE PollRow
        <5> DEFINE open == row[active.run] # LastVersion
                   sent == SentWhenChanged
        <5>1. /\ stream' = [stream EXCEPT !.wire = sent, !.sent = row[active.run],
                                          !.open = open]
              /\ UNCHANGED <<active, panel, fetches, spent>>
            BY <4>2 DEF PollRow
        <5> HIDE DEF open, sent
        <5> QED
            BY <1>0, <5>1 DEF Streams
      <4> QED
          BY <3>1, <4>1, <4>2
    <3>2. CASE SubmitDecision \/ UNCHANGED vars
        BY <3>2 DEF SubmitDecision, vars
    <3>3. CASE \E r \in Runs : CreateWorkflow(r) \/ RowChanges(r)
        BY <3>3 DEF CreateWorkflow, RowChanges
    <3> QED
        BY <1>1, <3>1, <3>2, <3>3
  <2> QED
      BY <1>0, <1>c, <2>1, QuietSettles
<1>2. CASE ConnectionDrops
  <2>1. /\ active' = active /\ panel' = panel /\ fetches' = fetches
        /\ stream'.seen = stream.seen
        /\ spent'.failures = spent.failures /\ spent'.overtakes = spent.overtakes
      BY <1>0, <1>2 DEF ConnectionDrops, Streams, Spendings
  <2> QED
      BY <1>0, <2>1, QuietSettles DEF InOrder
<1>3. ASSUME NEW why \in {"open", "refresh"}, NEW r \in Runs, Issue(why, r),
             UNCHANGED <<active, stream, panel>>, Click \/ spent' = spent
      PROVE  PanelSettles'
    BY <1>0, <1>3, <1>c, IssueSettles
<1>4. ASSUME NEW r \in Runs, OpenWorkflow(r)
      PROVE  PanelSettles'
    BY <1>3, <1>4 DEF OpenWorkflow
<1>5. CASE RefreshWorkflow
  <2>1. active.run \in Runs
      BY <1>0, <1>5 DEF RefreshWorkflow, HasTarget, Views
  <2> QED
      BY <1>3, <1>5, <2>1 DEF RefreshWorkflow
<1>6. CASE DecisionReturns
  <2>1. ui.deciding \in Runs
      BY <1>0, <1>6 DEF DecisionReturns, UiStates
  <2> QED
      BY <1>3, <1>6, <2>1 DEF DecisionReturns
\* A fetch that is served now reads no less than the events have said.
<1>7. ASSUME NEW i \in 1..MaxReplies, ServeWorkflow(i) \/ ServeApprovals(i)
      PROVE  PanelSettles'
  <2>1. /\ i \in DOMAIN fetches
        /\ UNCHANGED <<row, active, panel, stream, spent>>
        /\ \/ fetches' = [fetches EXCEPT ![i].workflow = row[fetches[i].run]]
           \/ fetches' = [fetches EXCEPT ![i].approvals = row[fetches[i].run]]
      BY <1>7 DEF ServeWorkflow, ServeApprovals
  <2>2. DOMAIN fetches' = DOMAIN fetches /\ Len(fetches') = Len(fetches)
      BY <1>0, <2>1
  <2>3. ASSUME NEW j \in DOMAIN fetches
        PROVE  /\ fetches'[j].run = fetches[j].run /\ fetches'[j].why = fetches[j].why
               /\ fetches'[j].approvals \in {fetches[j].approvals, row[fetches[j].run]}
    <3>1. fetches[j] \in Fetches
        BY <1>f, <2>3
    <3>2. CASE j = i
        BY <2>1, <3>1, <3>2 DEF Fetches
    <3>3. CASE j # i
        BY <2>1, <3>3
    <3> QED
        BY <3>2, <3>3
  <2>4. ASSUME NEW j \in DOMAIN fetches, Harmless(fetches[j], active.run, stream.seen)
        PROVE  Harmless(fetches'[j], active.run, stream.seen)
    <3>1. fetches[j].run = active.run => row[fetches[j].run] >= stream.seen
        BY <1>0, <1>f, <1>s, <2>4 DEF StreamOK
    <3> QED
        BY <2>3, <2>4, <3>1 DEF Harmless
  <2>5. ASSUME NEW k \in 0..Len(fetches), SettledAt(k)
        PROVE  SettledAt(k)'
    <3>1. k # 0 => k \in DOMAIN fetches
        BY <1>0, <2>5
    <3>2. k # 0 => fetches'[k].run = active.run
                   /\ Harmless(fetches'[k], active.run, stream.seen)
        BY <2>3, <2>4, <2>5, <3>1 DEF SettledAt
    <3>3. \A j \in DOMAIN fetches' :
              j > k => Harmless(fetches'[j], active.run, stream.seen)
        BY <2>2, <2>4, <2>5 DEF SettledAt
    <3> QED
        BY <2>1, <2>5, <3>2, <3>3 DEF SettledAt
  <2> QED
      BY <1>0, <2>1, <2>2, <2>5 DEF PanelSettles, InOrder
\* An event asks for what is as new as itself.
<1>8. CASE EventArrives
  <2> DEFINE f == [why |-> "event", run |-> active.run, workflow |-> 0,
                   approvals |-> 0]
  <2>1. /\ active'.run = active.run /\ fetches' = Append(fetches, f)
      BY <1>0, <1>8 DEF EventArrives, FetchAfterEvent, Issue, Views
  <2>2. active.run \in Runs
      BY <1>0, <1>8 DEF EventArrives, StreamOK
  <2>3. f \in Fetches /\ f.run = active.run /\ f.approvals = 0
      BY <2>2 DEF Fetches, Versions
  <2> HIDE DEF f
  <2>4. /\ DOMAIN fetches' = 1..(Len(fetches) + 1)
        /\ Len(fetches') = Len(fetches) + 1
        /\ fetches'[Len(fetches) + 1] = f
      BY <1>0, <2>1, <2>3, Appended
  <2>5. Harmless(f, active.run, stream'.seen)
      BY <2>3 DEF Harmless
  <2>6. PICK k \in 0..Len(fetches') : k = Len(fetches) + 1
      BY <1>0, <2>4
  <2>7. k # 0 /\ fetches'[k] = f /\ \A j \in DOMAIN fetches' : ~(j > k)
      BY <1>0, <2>4, <2>6
  <2>8. SettledAt(k)'
      BY <2>1, <2>3, <2>5, <2>7 DEF SettledAt
  <2> QED
      BY <2>8 DEF PanelSettles
\* The reply to the first fetch: it shows another run, or leaves the rest to
\* those behind it, or is as new as the last event itself.
<1>9. ASSUME NEW i \in 1..MaxReplies, ReplyArrives(i)
      PROVE  PanelSettles'
  <2> SUFFICES ASSUME InOrder', stream'.seen # 0
               PROVE  \E k \in 0..Len(fetches') : SettledAt(k)'
      BY DEF PanelSettles
  <2>1. /\ i \in DOMAIN fetches /\ Overtaking(i)
        /\ fetches[i].approvals # 0
        /\ panel' = [run |-> fetches[i].run, version |-> fetches[i].approvals]
        /\ fetches' = RemoveAt(fetches, i) /\ row' = row
        /\ \/ fetches[i].why = "event" /\ UNCHANGED <<active, stream>>
           \/ Show(fetches[i].run, fetches[i].workflow)
      BY <1>9 DEF ReplyArrives
  <2>2. i = 1 /\ InOrder
    <3>1. /\ spent'.failures = spent.failures
          /\ spent'.overtakes = IF i = 1 THEN spent.overtakes ELSE spent.overtakes + 1
          /\ spent.overtakes \in Nat
        BY <1>0, <2>1 DEF Overtaking, Spendings
    <3> QED
        BY <3>1 DEF InOrder
  <2>3. /\ active'.run = active.run /\ stream'.seen = stream.seen
        /\ \/ fetches[1].why = "event"
           \/ fetches[1].run = active.run
    <3>1. CASE fetches[i].why = "event" /\ UNCHANGED <<active, stream>>
        BY <2>2, <3>1
    <3>2. CASE Show(fetches[i].run, fetches[i].workflow)
      <4>1. fetches[i].run \in Runs
          BY <1>f, <2>1
      <4>2. /\ active'.run = fetches[i].run
            /\ stream'.seen = IF fetches[i].run = active.run THEN stream.seen ELSE 0
          BY <1>0, <2>1, <3>2, <4>1, ShowStream
      <4> QED
          BY <2>2, <4>2
    <3> QED
        BY <2>1, <3>1, <3>2
  <2>4. PICK k \in 0..Len(fetches) : SettledAt(k)
      BY <1>0, <2>2, <2>3 DEF PanelSettles
  <2>5. /\ fetches' \in Seq(Fetches) /\ Len(fetches') = Len(fetches) - 1
        /\ DOMAIN fetches' = 1..(Len(fetches) - 1)
        /\ \A j \in 1..(Len(fetches) - 1) : fetches'[j] = fetches[j + 1]
    <3>1. /\ fetches' \in Seq(Fetches) /\ Len(fetches') = Len(fetches) - 1
          /\ \A j \in 1..(Len(fetches) - 1) :
                fetches'[j] = IF j < 1 THEN fetches[j] ELSE fetches[j + 1]
        BY <1>0, <2>1, <2>2, RemovedAt
    <3>2. \A j \in 1..(Len(fetches) - 1) : ~(j < 1)
        BY <1>0
    <3> QED
        BY <3>1, <3>2
  <2>6. ASSUME NEW m \in Nat, m + 1 >= k,
               NEW j \in DOMAIN fetches', j > m
        PROVE  Harmless(fetches'[j], active.run, stream.seen)
    <3>1. j + 1 \in DOMAIN fetches /\ j + 1 > k /\ fetches'[j] = fetches[j + 1]
        BY <1>0, <2>4, <2>5, <2>6
    <3> QED
        BY <2>4, <3>1 DEF SettledAt
  <2>7. CASE k \in {0, 1}
    <3>1. Harmless(fetches[1], active.run, stream.seen)
      <4>1. 1 \in DOMAIN fetches
          BY <2>1, <2>2
      <4> QED
          BY <2>4, <2>7, <4>1 DEF SettledAt
    <3>2. fetches[1].run = active.run
        BY <2>3, <3>1 DEF Harmless
    <3>3. panel'.run = active.run /\ panel'.version >= stream.seen
        BY <2>1, <2>2, <3>1, <3>2 DEF Harmless
    <3>4. \A j \in DOMAIN fetches' :
              j > 0 => Harmless(fetches'[j], active.run, stream.seen)
        BY <2>6, <2>7
    <3>5. SettledAt(0)'
        BY <2>3, <3>3, <3>4 DEF SettledAt
    <3>6. 0 \in 0..Len(fetches')
        BY <1>0, <2>1, <2>2, <2>5
    <3> QED
        BY <3>5, <3>6
  <2>8. CASE k \notin {0, 1}
    <3>1. PICK m \in 0..Len(fetches') : m = k - 1
        BY <1>0, <2>4, <2>5, <2>8
    <3>2. m # 0 /\ m \in Nat /\ fetches'[m] = fetches[k]
      <4>1. m \in 1..(Len(fetches) - 1) /\ m + 1 = k
          BY <1>0, <2>4, <2>8, <3>1
      <4> QED
          BY <2>5, <4>1
    <3>3. \A j \in DOMAIN fetches' :
              j > m => Harmless(fetches'[j], active.run, stream.seen)
        BY <2>6, <3>1, <3>2
    <3>4. SettledAt(m)'
        BY <2>3, <2>4, <2>8, <3>2, <3>3 DEF SettledAt
    <3> QED
        BY <3>4
  <2> QED
      BY <2>7, <2>8
<1>10. ASSUME NEW i \in 1..MaxReplies, FetchFails(i)
       PROVE  PanelSettles'
  <2>1. spent'.failures # 0
      BY <1>0, <1>10 DEF FetchFails, Spendings
  <2> QED
      BY <2>1 DEF PanelSettles, InOrder
\* The new run empties the panel, or another one is shown.
<1>11. CASE CreationReturns
  <2>1. /\ ui.creating \in Runs /\ row' = row /\ Show(ui.creating, 1)
        /\ panel' = [run |-> ui.creating, version |-> 0]
        /\ fetches' = fetches /\ spent' = spent
      BY <1>0, <1>11 DEF CreationReturns, UiStates
  <2>2. /\ active'.run = ui.creating
        /\ stream'.seen = IF ui.creating = active.run THEN stream.seen ELSE 0
      BY <1>0, <2>1, ShowStream
  <2>3. CASE ui.creating = active.run
    <3>1. panel'.run = active.run /\ panel'.version = 0
        BY <2>1, <2>3
    <3>2. \A k \in 0..Len(fetches) : SettledAt(k) => SettledAt(k)'
        BY <2>1, <2>2, <2>3, <3>1 DEF SettledAt
    <3> QED
        BY <1>0, <2>1, <2>2, <2>3, <3>2 DEF PanelSettles, InOrder
  <2>4. CASE ui.creating # active.run
      BY <2>2, <2>4 DEF PanelSettles
  <2> QED
      BY <2>3, <2>4
<1> QED
    BY <1>1, <1>2, <1>4, <1>5, <1>6, <1>7, <1>8, <1>9, <1>10, <1>11
       DEF Next, System, Person

-----------------------------------------------------------------------------

LEMMA LiveInvariant == Spec => [](TypeOK /\ LiveInv)
<1>1. TypeOK /\ LiveInv /\ [Next]_vars => (TypeOK /\ LiveInv)'
    BY LiveTypesStep, StreamStep, PanelStep DEF LiveInv
<1> QED
    BY <1>1, LiveInit, PTL DEF Spec

\* The dashboard's state and what is in flight keep their types; in
\* particular every fetch and every connection is of an existing run.
THEOREM LiveViewTypes == Spec => []TypeOK
<1> QED
    BY LiveInvariant, PTL

\* When nothing is in flight, the approvals on screen are those of the run on
\* screen and as new as the last event, whatever was clicked and however many
\* runs were opened on the way, unless a fetch failed or a reply overtook
\* another (Dashboard.tsx, the event callback and refreshActiveWorkflow).
THEOREM PanelCatchesUp == Spec => []PanelIsCurrent
<1>1. TypeOK /\ LiveInv => PanelIsCurrent
  <2> SUFFICES ASSUME TypeOK, LiveInv, fetches = <<>>, stream.seen # 0, InOrder
               PROVE  /\ panel.run = active.run
                      /\ panel.version # 0 => panel.version >= stream.seen
      BY DEF PanelIsCurrent, InOrder
  <2>1. PICK k \in 0..Len(fetches) : SettledAt(k)
      BY DEF LiveInv, PanelSettles
  <2>2. k = 0
      BY <2>1
  <2> QED
      BY <2>1, <2>2 DEF SettledAt
<1> QED
    BY <1>1, LiveInvariant, PTL
=============================================================================
