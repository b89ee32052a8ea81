------------------------------ MODULE LiveView ------------------------------
(***************************************************************************)
(* What the dashboard shows of a workflow run while it changes: the event  *)
(* stream of the API (api.py, _workflow_status_events), the browser's      *)
(* EventSource, and the fetches whose replies overwrite the same React     *)
(* state (frontend/src/pages/Dashboard.tsx).                               *)
(*                                                                         *)
(* Every transaction on a run, decisions included, changes updated_at,     *)
(* which the snapshot contains; a run and its approvals are therefore one  *)
(* version number here.  A run is terminal at LastVersion.                 *)
(***************************************************************************)
EXTENDS Integers, Sequences, SequencesExt

CONSTANTS
    Runs,           \* workflow runs
    NoRun,          \* no run: null in the dashboard
    LastVersion,    \* how many times a run's row is committed
    MaxClicks,      \* bound: what the person does
    MaxReplies,     \* bound: fetches in flight
    MaxDrops,       \* bound: connections lost
    MaxFailures,    \* bound: fetches that fail
    MaxOvertakes    \* bound: replies that overtake an earlier one

ASSUME NoRunAssumption == NoRun \notin Runs
ASSUME LiveViewBounds ==
    /\ LastVersion \in Nat \ {0}
    /\ {MaxClicks, MaxReplies, MaxDrops, MaxFailures, MaxOvertakes} \subseteq Nat

VARIABLES
    row,        \* version of each run in the database, 0 before it exists
    active,     \* activeWorkflow: which run is shown, in which version
    panel,      \* approvals: whose, in which version, 0 when emptied unread
    stream,     \* the subscription to the active run, both ends
    fetches,    \* GET requests in flight, in the order of issue
    ui,         \* isLoading, isRefreshing, isDeciding, isPlanning
    spent       \* clicks, drops, failures and overtakes so far

vars == <<row, active, panel, stream, fetches, ui, spent>>

----------------------------------------------------------------------------

Versions == 0..LastVersion
Views == [run: Runs \cup {NoRun}, version: Versions]

\* refreshActiveWorkflow reads the run and its approvals by two requests and
\* waits for both; after an event only the approvals are read.
Fetches == [why: {"open", "refresh", "event"}, run: Runs,
            workflow: Versions, approvals: Versions]    \* 0: not yet read

Streams ==
    [subscribed: BOOLEAN,           \* the EventSource is not closed
     open: BOOLEAN,                 \* the server's generator runs
     sent: Versions,                \* its last_snapshot, 0 is None
     wire: Seq(Versions),           \* events on their way
     seen: Versions]                \* last one handled

UiStates == [loading: BOOLEAN, refreshing: BOOLEAN,
             deciding: Runs \cup {NoRun}, creating: Runs \cup {NoRun}]

TypeOK ==
    /\ row \in [Runs -> Versions]
    /\ active \in Views
    /\ panel \in Views
    /\ stream \in Streams
    /\ fetches \in Seq(Fetches) /\ Len(fetches) <= MaxReplies
    /\ ui \in UiStates
    /\ spent \in [clicks: 0..MaxClicks, drops: 0..MaxDrops,
                  failures: 0..MaxFailures, overtakes: 0..MaxOvertakes]

NothingShown == [run |-> NoRun, version |-> 0]

Unsubscribed == [subscribed |-> FALSE, open |-> FALSE, sent |-> 0,
                 wire |-> <<>>, seen |-> 0]

\* A generator starts with last_snapshot = None.
Opened(seen) == [subscribed |-> TRUE, open |-> TRUE, sent |-> 0,
                 wire |-> <<>>, seen |-> seen]

Init ==
    /\ row \in [Runs -> {0, 1}]
    /\ active = NothingShown
    /\ panel = NothingShown
    /\ stream = Unsubscribed
    /\ fetches = <<>>
    /\ ui = [loading |-> FALSE, refreshing |-> FALSE,
             deciding |-> NoRun, creating |-> NoRun]
    /\ spent = [clicks |-> 0, drops |-> 0, failures |-> 0, overtakes |-> 0]

\* setActiveWorkflow; the effect on activeWorkflow?.id closes the old source
\* and subscribes to the new run, and does nothing when the id is the same.
Show(r, version) ==
    /\ active' = [run |-> r, version |-> version]
    /\ stream' = IF r = active.run THEN stream ELSE Opened(0)

CanFetch == Len(fetches) < MaxReplies

Issue(why, r) ==
    fetches' = Append(fetches, [why |-> why, run |-> r,
                                workflow |-> 0, approvals |-> 0])

Click ==
    /\ spent.clicks < MaxClicks
    /\ spent' = [spent EXCEPT !.clicks = @ + 1]

----------------------------------------------------------------------------
(* The server.                                                             *)

\* Some transaction on the run commits.
RowChanges(r) ==
    /\ row[r] \in 1..(LastVersion - 1)
    /\ row' = [row EXCEPT ![r] = @ + 1]
    /\ UNCHANGED <<active, panel, stream, fetches, ui, spent>>

\* Mutant: a terminal run ends the stream before its snapshot is sent.
SentUnlessTerminal ==
    IF row[active.run] = LastVersion THEN stream.wire
    ELSE Append(stream.wire, row[active.run])

\* The changed snapshot is yielded first, and then the status is looked at.
SentWhenChanged == Append(stream.wire, row[active.run])

\* One turn of _workflow_status_events that has something to say.
PollRow ==
    /\ stream.open
    /\ row[active.run] # stream.sent
    /\ stream' = [stream EXCEPT !.wire = SentWhenChanged,
                                !.sent = row[active.run],
                                !.open = row[active.run] # LastVersion]
    /\ UNCHANGED <<row, active, panel, fetches, ui, spent>>

\* find_run and list_approvals read the database, each in its own time.
ServeWorkflow(i) ==
    /\ i \in DOMAIN fetches
    /\ fetches[i].why # "event"
    /\ fetches[i].workflow = 0
    /\ fetches' = [fetches EXCEPT ![i].workflow = row[fetches[i].run]]
    /\ UNCHANGED <<row, active, panel, stream, ui, spent>>

ServeApprovals(i) ==
    /\ i \in DOMAIN fetches
    /\ fetches[i].approvals = 0
    /\ fetches' = [fetches EXCEPT ![i].approvals = row[fetches[i].run]]
    /\ UNCHANGED <<row, active, panel, stream, ui, spent>>

----------------------------------------------------------------------------
(* The browser: events.                                                    *)

\* Mutant: only an event with news fetches the approvals.
FetchUnlessShown(version) ==
    IF version = active.version THEN UNCHANGED fetches
    ELSE Issue("event", active.run)

FetchAfterEvent(version) == Issue("event", active.run)

\* subscribeToWorkflowRun's listener and the dashboard's callback: show the
\* run, fetch its approvals, close the source on a terminal status.
EventArrives ==
    /\ stream.subscribed
    /\ stream.wire # <<>>
    /\ CanFetch
    /\ LET version == Head(stream.wire) IN
          /\ active' = [active EXCEPT !.version = version]
          /\ stream' = IF version = LastVersion
                       THEN [Unsubscribed EXCEPT !.seen = version]
                       ELSE [stream EXCEPT !.wire = Tail(@), !.seen = version]
          /\ FetchAfterEvent(version)
    /\ UNCHANGED <<row, panel, ui, spent>>

\* The connection is lost, with the events on their way.
ConnectionDrops ==
    /\ stream.subscribed
    /\ spent.drops < MaxDrops
    /\ spent' = [spent EXCEPT !.drops = @ + 1]
    /\ stream' = [stream EXCEPT !.open = FALSE, !.wire = <<>>]
    /\ UNCHANGED <<row, active, panel, fetches, ui>>

\* The EventSource connects again whenever the response has ended.
Reconnect ==
    /\ stream.subscribed
    /\ ~stream.open
    /\ stream.wire = <<>>
    /\ stream' = Opened(stream.seen)
    /\ UNCHANGED <<row, active, panel, fetches, ui, spent>>

----------------------------------------------------------------------------
(* The browser: replies.                                                   *)

\* Nothing in the code waits for an earlier reply, or drops a late one.
Overtaking(i) ==
    /\ i = 1 \/ spent.overtakes < MaxOvertakes
    /\ spent' = [spent EXCEPT !.overtakes = IF i = 1 THEN @ ELSE @ + 1]

ReplyArrives(i) ==
    /\ i \in DOMAIN fetches
    /\ Overtaking(i)
    /\ fetches[i].approvals # 0
    /\ LET f == fetches[i] IN
          /\ \/ /\ f.why = "event"
                /\ UNCHANGED <<active, stream, ui>>
             \/ /\ f.why # "event"
                /\ f.workflow # 0
                /\ Show(f.run, f.workflow)
                /\ ui' = [ui EXCEPT !.refreshing = FALSE,
                                    !.loading = @ /\ f.why # "open"]
          /\ panel' = [run |-> f.run, version |-> f.approvals]
    /\ fetches' = RemoveAt(fetches, i)
    /\ UNCHANGED row

\* The error is shown, the state stays.
FetchFails(i) ==
    /\ i \in DOMAIN fetches
    /\ spent.failures < MaxFailures
    /\ spent' = [spent EXCEPT !.failures = @ + 1]
    /\ ui' = IF fetches[i].why = "event" THEN ui
             ELSE [ui EXCEPT !.refreshing = FALSE,
                             !.loading = @ /\ fetches[i].why # "open"]
    /\ fetches' = RemoveAt(fetches, i)
    /\ UNCHANGED <<row, active, panel, stream>>

----------------------------------------------------------------------------
(* The person.                                                             *)

\* loadWorkflow, disabled while isLoading.
OpenWorkflow(r) ==
    /\ row[r] # 0
    /\ ~ui.loading
    /\ CanFetch
    /\ Click
    /\ Issue("open", r)
    /\ ui' = [ui EXCEPT !.loading = TRUE, !.refreshing = TRUE]
    /\ UNCHANGED <<row, active, panel, stream>>

\* Mutant: no check that there is an active workflow.
AnyTarget == TRUE

HasTarget == active.run # NoRun

\* The Refresh button, disabled while isRefreshing.
RefreshWorkflow ==
    /\ HasTarget
    /\ ~ui.refreshing
    /\ CanFetch
    /\ Click
    /\ Issue("refresh", active.run)
    /\ ui' = [ui EXCEPT !.refreshing = TRUE]
    /\ UNCHANGED <<row, active, panel, stream>>

\* approveWorkflowPlan, finalizeWorkflow, approveApproval, rejectApproval:
\* the POST, whose effect on the row is one of its changes.
SubmitDecision ==
    /\ HasTarget
    /\ ui.deciding = NoRun
    /\ Click
    /\ ui' = [ui EXCEPT !.deciding = active.run]
    /\ UNCHANGED <<row, active, panel, stream, fetches>>

\* The POST has returned; the run refreshed is the one of the render in which
\* the button was pressed, whatever is active by now.
DecisionReturns ==
    /\ ui.deciding # NoRun
    /\ CanFetch
    /\ Issue("refresh", ui.deciding)
    /\ ui' = [ui EXCEPT !.deciding = NoRun, !.refreshing = TRUE]
    /\ UNCHANGED <<row, active, panel, stream, spent>>

\* createWorkflow: the row is committed and the reply describes it as new.
CreateWorkflow(r) ==
    /\ row[r] = 0
    /\ ui.creating = NoRun
    /\ Click
    /\ row' = [row EXCEPT ![r] = 1]
    /\ ui' = [ui EXCEPT !.creating = r]
    /\ UNCHANGED <<active, panel, stream, fetches>>

\* setApprovals([]) without having read them: version 0.
CreationReturns ==
    /\ ui.creating # NoRun
    /\ Show(ui.creating, 1)
    /\ panel' = [run |-> ui.creating, version |-> 0]
    /\ ui' = [ui EXCEPT !.creating = NoRun]
    /\ UNCHANGED <<row, fetches, spent>>

----------------------------------------------------------------------------

\* What goes on by itself: server, network and browser.
System ==
    \/ PollRow \/ EventArrives \/ Reconnect
    \/ \E i \in 1..MaxReplies :
          ServeWorkflow(i) \/ ServeApprovals(i) \/ ReplyArrives(i)
    \/ DecisionReturns \/ CreationReturns

Person ==
    \/ \E r \in Runs : OpenWorkflow(r) \/ CreateWorkflow(r)
    \/ RefreshWorkflow \/ SubmitDecision

Next ==
    \/ System
    \/ Person
    \/ \E r \in Runs : RowChanges(r)
    \/ ConnectionDrops
    \/ \E i \in 1..MaxReplies : FetchFails(i)

Spec == Init /\ [][Next]_vars

\* The browser and the server do what they have begun: polls come every
\* second, the EventSource retries, fetches are answered.
FairSpec == Spec /\ WF_vars(System)

----------------------------------------------------------------------------

\* Once nothing is in flight, the approvals on screen are those of the run on
\* screen, and not older than the last event: a reply that was asked for
\* before the person changed to another run has been overwritten by one asked
\* for after, by the fetch in the event callback (Dashboard.tsx:117).  It holds
\* while no fetch has failed and no reply has overtaken another.  The
\* exception is a list emptied by the reply to the run's creation, which may
\* come late, when the person has opened the run from the list before.
PanelIsCurrent ==
    /\ fetches = <<>>
    /\ stream.seen # 0
    /\ spent.failures = 0 /\ spent.overtakes = 0
    =>
        /\ panel.run = active.run
        /\ panel.version # 0 => panel.version >= stream.seen

\* However often the connection drops, the subscription hands the newest
\* version of the active run to the dashboard, the terminal one included
\* (DESIGN_DOC.md:526).
EventsCatchUp ==
    <>[](active.run # NoRun => stream.seen = row[active.run])

\* README.md:41: "Live updates | Server-sent events for workflow progress and
\* approval status": the run on screen ends up as the database has it.
ViewCatchesUp ==
    <>[](active.run # NoRun => active.version = row[active.run])

=============================================================================
