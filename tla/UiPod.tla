------------------------------- MODULE UiPod -------------------------------
(***************************************************************************)
(* The pod view of the terminal UI and the logs it follows                 *)
(* (internal/ui/app.go): tabs, containers, the reload of the view by the   *)
(* poll ticker, the log requests and the chains of log ticks that repeat   *)
(* them, and what a list that arrives meanwhile does to both.              *)
(*                                                                         *)
(* Every request is numbered and an answer counts only if its number is    *)
(* the latest of its kind (UiRequests has the late answers): here a        *)
(* request that is superseded or given up is forgotten, and what is kept   *)
(* is the one whose answer will count.  A name stands for a namespace and  *)
(* a name, a container for its place in the pod, 0 for the container that  *)
(* the cluster chooses.  The other resources, their lists and the pane of  *)
(* an object of theirs are here for the ways from a pod and to a pod, and  *)
(* as they have names like pods, Pods names them too; what the pane asks   *)
(* for is in UiRequests.  Scrolling, wrapping, search, formats and texts   *)
(* are left out.                                                           *)
(***************************************************************************)
EXTENDS Integers

CONSTANTS
    Pods,
    Namesakes,          \* sets of pods that differ in nothing but their namespace
    MaxContainers,      \* bound on the containers of a pod
    MaxTicks,           \* bound on the log ticks under way
    None

\* A pod, its containers, and the tab and the container that are chosen.
Views == [pod : Pods, containers : 0 .. MaxContainers,
          tab : 0 .. MaxContainers + 3, index : 0 .. MaxContainers - 1]
ViewRequests == [pod : Pods, announce : BOOLEAN]

Targets      == [pod : Pods, container : 0 .. MaxContainers]
Lines        == [pod : Pods, container : 0 .. MaxContainers, any : BOOLEAN]
LogsQueries  == [pod : Pods, container : 0 .. MaxContainers, follow : BOOLEAN]
LogsRequests == [pod : Pods, container : 0 .. MaxContainers, announce : BOOLEAN]

ASSUME NamesakesAssumption == Namesakes \subseteq SUBSET Pods
ASSUME MaxContainersAssumption == MaxContainers \in Nat \ {0}
ASSUME MaxTicksAssumption == MaxTicks \in Nat \ {0}
ASSUME NoneAssumption ==
    /\ None \notin Pods
    /\ None \notin Targets \cup Views \cup ViewRequests
    /\ None \notin Lines \cup LogsQueries \cup LogsRequests

VARIABLES
    cursor,         \* the row that selected points at, None without rows
    selection,      \* session.Selection
    listAsked,      \* an answer for the list is awaited
    onPods,         \* session.Resource is pods
    detail,         \* the name of what the resource view shows, None if closed
    detailFound,    \* detail.Found: owner, node and children are on the screen
    command,        \* commandMode
    view,           \* the pod view: None, or the pod and what is shown of it
    viewAsked,      \* the pod view request whose answer is awaited
    viewLoading,    \* podViewLoading: the view shows that it loads
    logs,           \* whose log lines are kept, and whether there are any
    logsQuery,      \* logsFollowQuery
    follow,         \* logsFollow
    logsAsked,      \* the log request whose answer is awaited
    budget,         \* podLogsAutoSwitch
    ticks           \* log ticks under way

table == <<cursor, selection, listAsked, onPods, detail, detailFound>>
pane == <<view, viewAsked, viewLoading>>
tail == <<logs, logsQuery, follow, logsAsked, budget>>
vars == <<table, command, pane, tail, ticks>>

Rows == Pods \cup {None}

Target(p, c) == [pod |-> p, container |-> c]

\* The target of a query, of a request or of lines; None has none.
TargetOf(r) == IF r = None THEN None ELSE Target(r.pod, r.container)

-----------------------------------------------------------------------------
(* Tabs.  podTabs: overview, one per container, logs, events and yaml.     *)

TabCount(n) == n + 4

\* An index that is out of range means the overview.
OnLogs(v) == v # None /\ v.tab = v.containers + 1

\* ensurePodViewLogSelection
Within(v) == IF v.index < v.containers THEN v ELSE [v EXCEPT !.index = 0]

StepTab(v, step) ==
    Within([v EXCEPT !.tab = (@ + step) % TabCount(v.containers)])

\* stepPodLogContainer, for a pod of several.
StepContainer(v, step) ==
    [v EXCEPT !.index = (Within(v).index + step) % v.containers]

Steps == {-1, 1}

-----------------------------------------------------------------------------
(* What several handlers call.                                             *)

\* Mutant: the lines of another target are kept.
StartLogsKeeping(t, f, announce) ==
    /\ logs' = IF f THEN logs ELSE None
    /\ logsQuery' = [pod |-> t.pod, container |-> t.container, follow |-> f]
    /\ follow' = f
    /\ logsAsked' =
           [pod |-> t.pod, container |-> t.container, announce |-> announce]

\* startLogsWithAnnouncement
StartLogs(t, f, announce) ==
    /\ logs' = IF f /\ TargetOf(logsQuery) = t THEN logs ELSE None
    /\ logsQuery' = [pod |-> t.pod, container |-> t.container, follow |-> f]
    /\ follow' = f
    /\ logsAsked' =
           [pod |-> t.pod, container |-> t.container, announce |-> announce]

\* buildPodLogsQuery and startPodTabLogsReload: a pod that was not found, or
\* is not there yet, has no logs.
ReloadTabLogs(v) ==
    LET t == Target(v.pod, v.index + 1)
    IN  IF v.containers = 0
        THEN UNCHANGED <<logs, logsQuery, follow, logsAsked>>
        ELSE StartLogs(t, TargetOf(logsQuery) = t => logsQuery.follow, FALSE)

ClearLogs ==
    /\ logs' = None
    /\ logsQuery' = None
    /\ follow' = FALSE
    /\ logsAsked' = None
    /\ budget' = 0

ClearView ==
    /\ view' = None
    /\ viewAsked' = None
    /\ viewLoading' = FALSE
    /\ ClearLogs

\* clearDetail, but for the logs.
CloseDetail ==
    /\ detail' = None
    /\ detailFound' = FALSE

\* Of another resource: the rows stay, whatever they list.
OpenDetail(n) ==
    /\ onPods' = FALSE
    /\ selection' = n
    /\ detail' = n
    /\ detailFound' = FALSE
    /\ ClearView

\* startPodViewReloadWithQuery.  Of the pod that is shown already, and only in
\* the background, what is shown stays until the answer.
LoadView(p, announce) ==
    LET same == view # None /\ view.pod = p
        blank == announce \/ ~same \/ view.containers = 0
    IN  /\ view' = [pod |-> p,
                    containers |-> IF blank THEN 0 ELSE view.containers,
                    tab |-> IF same THEN view.tab ELSE 0,
                    index |-> IF same THEN view.index ELSE 0]
        /\ viewAsked' = [pod |-> p, announce |-> announce]
        /\ viewLoading' = blank

\* A pod that need not be the one of the row; the rows stay as they are.
OpenPod(p) ==
    /\ onPods' = TRUE
    /\ selection' = p
    /\ CloseDetail
    /\ ClearLogs
    /\ view' = [pod |-> p, containers |-> 0, tab |-> 0, index |-> 0]
    /\ viewAsked' = [pod |-> p, announce |-> TRUE]
    /\ viewLoading' = TRUE

-----------------------------------------------------------------------------

\* A session on pods; a list that is asked for leads from it to any other.
Init ==
    /\ cursor \in Rows
    /\ selection = cursor
    /\ listAsked = FALSE
    /\ onPods = TRUE
    /\ detail = None
    /\ detailFound = FALSE
    /\ command = FALSE
    /\ view = None
    /\ viewAsked = None
    /\ viewLoading = FALSE
    /\ logs = None
    /\ logsQuery = None
    /\ follow = FALSE
    /\ logsAsked = None
    /\ budget = 0
    /\ ticks = 0

-----------------------------------------------------------------------------
(* Keys.                                                                   *)

\* setSelection, extendSelectionTo: logs of another row are cleared.
MoveCursor(p) ==
    /\ ~command
    /\ view = None /\ detail = None
    /\ cursor # None
    /\ cursor' = p
    /\ selection' = p
    /\ ClearLogs
    /\ UNCHANGED <<listAsked, onPods, detail, detailFound, command, pane, ticks>>

\* Enter on a row, and in the view: it loads the pod of the row.
OpenRow ==
    /\ ~command
    /\ onPods
    /\ cursor # None
    /\ LoadView(cursor, TRUE)
    /\ UNCHANGED <<table, command, tail, ticks>>

\* Enter on a row of another resource: its object in the resource view.
OpenRowDetail ==
    /\ ~command
    /\ ~onPods /\ detail = None
    /\ cursor # None
    /\ detail' = cursor
    /\ detailFound' = FALSE
    /\ UNCHANGED <<cursor, selection, listAsked, onPods, command, pane, tail, ticks>>

CloseView ==
    /\ ~command
    /\ view # None
    /\ ClearView
    /\ UNCHANGED <<table, command, ticks>>

\* The session stays on the other resource.
LeaveDetail ==
    /\ ~command
    /\ detail # None
    /\ CloseDetail
    /\ ClearLogs
    /\ UNCHANGED <<cursor, selection, listAsked, onPods, command, pane, ticks>>

\* Whose node and owner are on the screen: of the pod view or of the resource
\* view once they are loaded, of the row below them otherwise.
KnowsRelated ==
    IF view # None THEN view.containers > 0
    ELSE IF detail # None THEN detailFound
    ELSE cursor # None

\* The node or an owner, or in the resource view an object that it owns, is
\* opened instead: no list is asked for.
OpenRelated(n) ==
    /\ ~command
    /\ KnowsRelated
    /\ OpenDetail(n)
    /\ UNCHANGED <<cursor, listAsked, command, ticks>>

\* Back or forward to another session, whose list is asked for.
WalkHistory ==
    /\ ~command
    /\ selection' \in Rows
    /\ onPods' \in BOOLEAN
    /\ listAsked' = TRUE
    /\ CloseDetail
    /\ ClearView
    /\ UNCHANGED <<cursor, command, ticks>>

SwitchTab(step) ==
    /\ ~command
    /\ view # None
    /\ view' = StepTab(view, step)
    /\ IF OnLogs(view')
       THEN /\ budget' = IF view.containers > 1 THEN view.containers - 1 ELSE 0
            /\ ReloadTabLogs(view')
       ELSE /\ budget' = 0
            /\ follow' = FALSE
            /\ UNCHANGED <<logs, logsQuery, logsAsked>>
    /\ UNCHANGED <<table, command, viewAsked, viewLoading, ticks>>

SwitchContainer(step) ==
    /\ ~command
    /\ OnLogs(view)
    /\ view.containers > 1
    /\ view' = StepContainer(view, step)
    /\ budget' = 0
    /\ ReloadTabLogs(view')
    /\ UNCHANGED <<table, command, viewAsked, viewLoading, ticks>>

\* Another number of lines.
TailPreset ==
    /\ ~command
    /\ OnLogs(view)
    /\ ReloadTabLogs(view)
    /\ UNCHANGED <<table, command, pane, budget, ticks>>

\* A pod in the resource view of its node or its owner.
OpenChild(p) ==
    /\ ~command
    /\ detail # None /\ detailFound
    /\ OpenPod(p)
    /\ UNCHANGED <<cursor, listAsked, command, ticks>>

EnterCommand ==
    /\ ~command
    /\ command' = TRUE
    /\ UNCHANGED <<table, pane, tail, ticks>>

-----------------------------------------------------------------------------
(* Commands.                                                               *)

ExitCommand ==
    /\ command
    /\ command' = FALSE
    /\ UNCHANGED <<table, pane, tail, ticks>>

\* :logs, of the pod in the view, of the row, or of a name, and perhaps -f.
CommandLogs(p, f) ==
    /\ command
    /\ onPods
    /\ command' = FALSE
    /\ StartLogs(Target(p, 0), f, TRUE)
    /\ UNCHANGED <<table, pane, budget, ticks>>

\* :pod <name>, or a name of another resource.
OpenNamed(p) ==
    /\ command
    /\ command' = FALSE
    /\ OpenPod(p) \/ OpenDetail(p)
    /\ UNCHANGED <<cursor, listAsked, ticks>>

\* Another resource, namespace or context, and a filter that is kept for later.
CommandSwitches ==
    /\ command
    /\ command' = FALSE
    /\ selection' = None
    /\ onPods' \in BOOLEAN
    /\ listAsked' \in {listAsked, TRUE}
    /\ CloseDetail
    /\ ClearView
    /\ UNCHANGED <<cursor, ticks>>

-----------------------------------------------------------------------------
(* Tickers.                                                                *)

\* While a pod or another object is shown the list is not polled; the logs
\* poll by themselves.
PollTick ==
    /\ ~command
    /\ IF view = None
       THEN /\ detail = None
            /\ listAsked' = TRUE
            /\ UNCHANGED pane
       ELSE /\ ~viewLoading
            /\ ~OnLogs(view)
            /\ cursor # None
            /\ LoadView(cursor, FALSE)
            /\ UNCHANGED listAsked
    /\ UNCHANGED <<cursor, selection, onPods, detail, detailFound>>
    /\ UNCHANGED <<command, tail, ticks>>

\* With the command line open or logs awaited a tick only schedules the next.
LogsTick ==
    /\ ticks > 0
    /\ follow => ~command /\ logsAsked = None
    /\ logsAsked' = IF follow
                    THEN [pod |-> logsQuery.pod,
                          container |-> logsQuery.container,
                          announce |-> FALSE]
                    ELSE logsAsked
    /\ ticks' = ticks - 1
    /\ UNCHANGED <<table, command, pane, logs, logsQuery, follow, budget>>

-----------------------------------------------------------------------------
(* Answers.                                                                *)

\* syncPodViewSelection: the view stays open on the cursor's pod only.
KeepsView(c) == view # None /\ view.pod = c

\* syncDetailSelection
KeepsDetail(c) == detail = None \/ detail = c

\* syncLogsSelection: so do the logs; while the first ones are loading they
\* are nobody's, and are given up.
KeepsLogs(c) ==
    IF logs # None THEN logs.pod = c ELSE logsAsked = None

\* Names that the session, which keeps no namespace, cannot tell from n.
Alike(n) == {n} \cup UNION { names \in Namesakes : n \in names }

\* selectFromSession: the first row of the name in the session, else the first.
SelectFromSession(rows) ==
    LET named == rows \cap Alike(selection)
    IN  /\ IF rows = {} THEN cursor' = None
           ELSE IF named # {} THEN cursor' \in named
           ELSE cursor' \in rows
        /\ selection' = cursor'

ListLoaded(rows) ==
    /\ listAsked
    /\ listAsked' = FALSE
    /\ SelectFromSession(rows)
    /\ IF KeepsDetail(cursor') THEN UNCHANGED <<detail, detailFound>>
       ELSE CloseDetail
    /\ IF view # None /\ ~KeepsView(cursor')
       THEN ClearView
       ELSE /\ view' = IF view = None THEN None ELSE Within(view)
            /\ UNCHANGED <<viewAsked, viewLoading>>
            /\ IF KeepsDetail(cursor') /\ KeepsLogs(cursor')
               THEN UNCHANGED tail
               ELSE ClearLogs
    /\ UNCHANGED <<onPods, command, ticks>>

ListFailed ==
    /\ listAsked
    /\ listAsked' = FALSE
    /\ UNCHANGED <<cursor, selection, onPods, detail, detailFound>>
    /\ UNCHANGED <<command, pane, tail, ticks>>

\* An action or an edit has come to its end: the list is asked for, whatever
\* is on the screen.
ActionCompletes ==
    /\ listAsked' = TRUE
    /\ UNCHANGED <<cursor, selection, onPods, detail, detailFound>>
    /\ UNCHANGED <<command, pane, tail, ticks>>

\* An answer for the resource view, whose object need not exist any more.
DetailLoaded ==
    /\ detail # None
    /\ detailFound' \in BOOLEAN
    /\ UNCHANGED <<cursor, selection, listAsked, onPods, detail>>
    /\ UNCHANGED <<command, pane, tail, ticks>>

\* n containers, or 0 for a pod that is not found.
ViewLoaded(n) ==
    /\ viewAsked # None
    /\ viewAsked' = None
    /\ viewLoading' = FALSE
    /\ view' = Within([pod |-> viewAsked.pod, containers |-> n,
                       tab |-> view.tab, index |-> view.index])
    /\ IF viewAsked.announce /\ OnLogs(view')
       THEN ReloadTabLogs(view')
       ELSE UNCHANGED <<logs, logsQuery, follow, logsAsked>>
    /\ UNCHANGED <<table, command, budget, ticks>>

\* What was shown stays.
ViewFailed ==
    /\ viewAsked # None
    /\ viewAsked' = None
    /\ viewLoading' = FALSE
    /\ UNCHANGED <<table, command, view, tail, ticks>>

\* The bound forgets a tick, never the last one.
Scheduled == IF follow /\ ticks < MaxTicks THEN ticks + 1 ELSE ticks

\* A container without logs: its sibling is tried, as often as there are some.
Switches(some) ==
    OnLogs(view) /\ follow /\ ~some /\ budget > 0 /\ view.containers > 1

\* Mutant: the switches are not counted.
LogsSwitchUncounted ==
    /\ logsAsked # None
    /\ Switches(FALSE)
    /\ view' = StepContainer(view, 1)
    /\ ReloadTabLogs(view')
    /\ UNCHANGED <<table, command, viewAsked, viewLoading, budget, ticks>>

LogsSwitch ==
    /\ logsAsked # None
    /\ Switches(FALSE)
    /\ view' = StepContainer(view, 1)
    /\ budget' = budget - 1
    /\ ReloadTabLogs(view')
    /\ UNCHANGED <<table, command, viewAsked, viewLoading, ticks>>

\* mergeFollowLogLines keeps the lines it has when a poll brings none.
LogsLoaded(some) ==
    /\ logsAsked # None
    /\ ~Switches(some)
    /\ logsAsked' = None
    /\ LET t == TargetOf(logsAsked)
           merges == follow /\ ~logsAsked.announce /\ TargetOf(logs) = t
           any == some \/ (merges /\ logs.any)
       IN  /\ logs' = [pod |-> t.pod, container |-> t.container, any |-> any]
           /\ budget' = IF any \/ (OnLogs(view) /\ follow) THEN 0 ELSE budget
    /\ ticks' = Scheduled
    /\ UNCHANGED <<table, command, pane, logsQuery, follow>>

\* Mutant: after a failure nobody asks again.
LogsFailedLast ==
    /\ logsAsked # None
    /\ logsAsked' = None
    /\ UNCHANGED <<table, command, pane, logs, logsQuery, follow, budget, ticks>>

LogsFailed ==
    /\ logsAsked # None
    /\ logsAsked' = None
    /\ ticks' = Scheduled
    /\ UNCHANGED <<table, command, pane, logs, logsQuery, follow, budget>>

-----------------------------------------------------------------------------

Key ==
    \/ \E p \in Pods : MoveCursor(p) \/ OpenChild(p) \/ OpenRelated(p)
    \/ OpenRow \/ OpenRowDetail \/ CloseView \/ LeaveDetail \/ WalkHistory
    \/ TailPreset \/ EnterCommand
    \/ \E step \in Steps : SwitchTab(step) \/ SwitchContainer(step)

Command ==
    \/ ExitCommand \/ CommandSwitches
    \/ \E p \in Pods, f \in BOOLEAN : CommandLogs(p, f)
    \/ \E p \in Pods : OpenNamed(p)

ListAnswer == ListFailed \/ \E rows \in SUBSET Pods : ListLoaded(rows)

ViewAnswer == ViewFailed \/ \E n \in 0 .. MaxContainers : ViewLoaded(n)

LogsAnswer ==
    LogsSwitch \/ LogsFailed \/ \E some \in BOOLEAN : LogsLoaded(some)

Next ==
    \/ Key \/ Command \/ PollTick \/ LogsTick
    \/ ListAnswer \/ ViewAnswer \/ LogsAnswer \/ DetailLoaded \/ ActionCompletes

Spec == Init /\ [][Next]_vars

\* Ticks fire, and what is asked is answered, or fails.
FairSpec == Spec /\ WF_vars(LogsTick) /\ WF_vars(LogsAnswer)

-----------------------------------------------------------------------------
(* Properties.                                                             *)

\* Types.
TypeOK ==
    /\ cursor \in Rows
    /\ selection \in Rows
    /\ listAsked \in BOOLEAN
    /\ onPods \in BOOLEAN
    /\ detail \in Rows
    /\ detailFound \in BOOLEAN
    /\ command \in BOOLEAN
    /\ view \in Views \cup {None}
    /\ viewAsked \in ViewRequests \cup {None}
    /\ viewLoading \in BOOLEAN
    /\ logs \in Lines \cup {None}
    /\ logsQuery \in LogsQueries \cup {None}
    /\ follow \in BOOLEAN
    /\ logsAsked \in LogsRequests \cup {None}
    /\ budget \in 0 .. MaxContainers - 1
    /\ ticks \in 0 .. MaxTicks

\* The lines that are kept, the answer that will be merged into them and the
\* query that is polled are of one container: however tabs, containers, pods,
\* commands and answers interleave, lines of two are never mixed (app.go:5268,
\* app.go:1051).
LogsAreOfOneTarget ==
    /\ logs # None => TargetOf(logs) = TargetOf(logsQuery)
    /\ logsAsked # None => TargetOf(logsAsked) = TargetOf(logsQuery)

\* Logs that are followed go on: there is a tick that will ask again, or an
\* answer that will schedule one.  Each handler drops or re-arms the chain for
\* itself (app.go:790-802, app.go:1031-1091).
FollowKeepsPolling == follow => ticks > 0 \/ logsAsked # None

\* Once the user lets go of the keys, logs that are followed are shown again
\* and again, also where every container is silent: the search for one that is
\* not comes to an end (app.go:1036-1043).
SearchForLogsEnds ==
    <>[][~Key /\ ~Command]_vars => (<>[]follow => []<>(logsAsked = None))

\* A poll tick reloads the pod that is shown, and it stays on the screen while
\* it does: the "in-place pod view refresh without loading placeholder" of
\* app_test.go:8093.
PollRefreshesInPlace ==
    [][PollTick /\ view # None /\ view.containers > 0 =>
          view'.pod = view.pod /\ ~viewLoading']_vars
=============================================================================
