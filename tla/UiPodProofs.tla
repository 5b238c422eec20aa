---------------------------- MODULE UiPodProofs ----------------------------
(* Theorems about UiPod, for any pods, any number of containers and ticks.  *)
EXTENDS UiPod, TLAPS

TableTyped ==
    /\ cursor \in Rows
    /\ selection \in Rows
    /\ listAsked \in BOOLEAN
    /\ onPods \in BOOLEAN
    /\ detail \in Rows
    /\ detailFound \in BOOLEAN
    /\ command \in BOOLEAN

PaneTyped ==
    /\ view \in Views \cup {None}
    /\ viewAsked \in ViewRequests \cup {None}
    /\ viewLoading \in BOOLEAN

TailTyped ==
    /\ logs \in Lines \cup {None}
    /\ logsQuery \in LogsQueries \cup {None}
    /\ follow \in BOOLEAN
    /\ logsAsked \in LogsRequests \cup {None}

Counted == budget \in 0 .. MaxContainers - 1 /\ ticks \in 0 .. MaxTicks

\* An answer that is awaited for the pod view finds it open.
AskedIsOpen == viewAsked # None => view # None

\* What is followed is known.
FollowHasQuery == follow => logsQuery # None

PaneInv == PaneTyped /\ AskedIsOpen
TailInv == TailTyped /\ FollowHasQuery /\ LogsAreOfOneTarget
IInv == TableTyped /\ PaneInv /\ TailInv /\ Counted /\ FollowKeepsPolling

LEMMA IInvTypes == IInv => TypeOK
BY DEF IInv, PaneInv, TailInv, TableTyped, PaneTyped, TailTyped, Counted, TypeOK

LEMMA ZeroCounts == 0 \in 0 .. MaxContainers - 1 /\ 0 \in 0 .. MaxTicks
BY MaxContainersAssumption, MaxTicksAssumption

LEMMA InitIInv == Init => IInv
<1> SUFFICES ASSUME Init PROVE IInv
  OBVIOUS
<1>1. TableTyped /\ PaneInv
  BY DEF Init, TableTyped, PaneInv, PaneTyped, AskedIsOpen, Rows
<1>2. TailInv
  BY DEF Init, TailInv, TailTyped, FollowHasQuery, LogsAreOfOneTarget
<1>3. Counted /\ FollowKeepsPolling
  BY ZeroCounts DEF Init, Counted, FollowKeepsPolling
<1> QED
  BY <1>1, <1>2, <1>3 DEF IInv

-----------------------------------------------------------------------------
(* Tabs and containers stay within the pod.                                *)

LEMMA ModBound ==
    ASSUME NEW a \in Int, NEW n \in Nat, n > 0
    PROVE  a % n \in 0 .. n - 1
OBVIOUS

LEMMA WithinView ==
    ASSUME NEW v \in Views
    PROVE  Within(v) \in Views /\ Within(v).pod = v.pod
BY MaxContainersAssumption DEF Within, Views

LEMMA StepTabView ==
    ASSUME NEW v \in Views, NEW step \in Steps
    PROVE  StepTab(v, step) \in Views
<1> DEFINE t == (v.tab + step) % TabCount(v.containers)
           u == [v EXCEPT !.tab = t]
<1>1. v.containers \in 0 .. MaxContainers /\ v.tab \in Nat /\ step \in Int
  BY MaxContainersAssumption DEF Views, Steps
<1>2. TabCount(v.containers) \in Nat /\ TabCount(v.containers) > 0
      /\ TabCount(v.containers) <= MaxContainers + 4
  BY <1>1, MaxContainersAssumption DEF TabCount
<1>3. t \in 0 .. TabCount(v.containers) - 1
  BY <1>1, <1>2, ModBound
<1>4. t \in 0 .. MaxContainers + 3
  BY <1>2, <1>3, MaxContainersAssumption
<1>5. u \in Views
  BY <1>4 DEF Views
<1>6. StepTab(v, step) = Within(u)
  BY DEF StepTab
<1> QED
  BY <1>5, <1>6, WithinView

LEMMA StepContainerView ==
    ASSUME NEW v \in Views, v.containers > 0, NEW step \in Steps
    PROVE  StepContainer(v, step) \in Views
<1> DEFINE i == (Within(v).index + step) % v.containers
<1>1. v.containers \in 0 .. MaxContainers /\ Within(v).index \in Int /\ step \in Int
  BY WithinView, MaxContainersAssumption DEF Views, Steps
<1>2. i \in 0 .. v.containers - 1
  BY <1>1, ModBound, MaxContainersAssumption
<1>3. i \in 0 .. MaxContainers - 1
  BY <1>1, <1>2, MaxContainersAssumption
<1>4. StepContainer(v, step) = [v EXCEPT !.index = i]
  BY DEF StepContainer
<1> QED
  BY <1>3, <1>4 DEF Views

-----------------------------------------------------------------------------
(* What several handlers call.                                             *)

LEMMA StartLogsTail ==
    ASSUME IInv, NEW t \in Targets, NEW f \in BOOLEAN, NEW announce \in BOOLEAN,
           StartLogs(t, f, announce)
    PROVE  TailInv' /\ logsAsked' # None
<1>1. t = Target(t.pod, t.container) /\ t # None
  BY NoneAssumption DEF Targets, Target
<1>2. logsQuery' \in LogsQueries /\ logsQuery' # None /\ TargetOf(logsQuery') = t
  BY <1>1, NoneAssumption DEF StartLogs, Targets, LogsQueries, TargetOf
<1>3. logsAsked' \in LogsRequests /\ logsAsked' # None /\ TargetOf(logsAsked') = t
  BY <1>1, NoneAssumption DEF StartLogs, Targets, LogsRequests, TargetOf
<1>4. logs' # None => logs' = logs /\ TargetOf(logs) = t
  BY DEF StartLogs, IInv, TailInv, LogsAreOfOneTarget
<1>5. logs' \in Lines \cup {None} /\ follow' \in BOOLEAN
  BY DEF StartLogs, IInv, TailInv, TailTyped
<1> QED
  BY <1>2, <1>3, <1>4, <1>5 DEF TailInv, TailTyped, FollowHasQuery, LogsAreOfOneTarget

LEMMA ReloadTail ==
    ASSUME IInv, NEW v \in Views, ReloadTabLogs(v)
    PROVE  TailInv' /\ (logsAsked' # None \/ UNCHANGED <<follow, logsAsked>>)
<1> DEFINE t == Target(v.pod, v.index + 1)
           f == TargetOf(logsQuery) = t => logsQuery.follow
<1>1. CASE v.containers = 0
  BY <1>1 DEF ReloadTabLogs, IInv, TailInv, TailTyped, FollowHasQuery, LogsAreOfOneTarget
<1>2. CASE v.containers # 0
  <2>1. t \in Targets
    BY MaxContainersAssumption DEF Views, Targets, Target
  <2>2. t # None
    BY <2>1, NoneAssumption
  <2>3. logsQuery # None => logsQuery.follow \in BOOLEAN
    BY DEF IInv, TailInv, TailTyped, LogsQueries
  <2>4. f \in BOOLEAN
    OBVIOUS
  <2>5. StartLogs(t, f, FALSE)
    BY <1>2 DEF ReloadTabLogs
  <2> QED
    BY <2>1, <2>4, <2>5, StartLogsTail
<1> QED
  BY <1>1, <1>2

LEMMA ClearLogsTail ==
    ASSUME ClearLogs
    PROVE  TailInv' /\ ~follow' /\ budget' \in 0 .. MaxContainers - 1
<1>1. logs' = None /\ logsQuery' = None /\ follow' = FALSE /\ logsAsked' = None /\ budget' = 0
  BY DEF ClearLogs
<1>2. TailInv'
  BY <1>1 DEF TailInv, TailTyped, FollowHasQuery, LogsAreOfOneTarget
<1> QED
  BY <1>1, <1>2, ZeroCounts

LEMMA ClearViewPane ==
    ASSUME ClearView
    PROVE  PaneInv' /\ TailInv' /\ ~follow' /\ budget' \in 0 .. MaxContainers - 1
BY ClearLogsTail DEF ClearView, PaneInv, PaneTyped, AskedIsOpen

LEMMA BlankView ==
    ASSUME NEW p \in Pods
    PROVE  [pod |-> p, containers |-> 0, tab |-> 0, index |-> 0] \in Views
BY MaxContainersAssumption DEF Views

\* The session and the resource view, after what opens or leaves it.
SessionTyped ==
    /\ selection \in Rows
    /\ onPods \in BOOLEAN
    /\ detail \in Rows
    /\ detailFound \in BOOLEAN

LEMMA OpenPodPane ==
    ASSUME NEW p \in Pods, OpenPod(p)
    PROVE  PaneInv' /\ TailInv' /\ ~follow' /\ budget' \in 0 .. MaxContainers - 1
           /\ SessionTyped'
<1>1. view' \in Views /\ view' # None
  BY BlankView, NoneAssumption DEF OpenPod
<1>2. viewAsked' \in ViewRequests /\ viewLoading' \in BOOLEAN
  BY DEF OpenPod, ViewRequests
<1>3. SessionTyped'
  BY DEF OpenPod, CloseDetail, SessionTyped, Rows
<1> QED
  BY <1>1, <1>2, <1>3, ClearLogsTail DEF OpenPod, PaneInv, PaneTyped, AskedIsOpen

LEMMA OpenDetailPane ==
    ASSUME NEW n \in Pods, OpenDetail(n)
    PROVE  PaneInv' /\ TailInv' /\ ~follow' /\ budget' \in 0 .. MaxContainers - 1
           /\ SessionTyped'
BY ClearViewPane DEF OpenDetail, SessionTyped, Rows

LEMMA LoadViewPane ==
    ASSUME IInv, NEW p \in Pods, NEW announce \in BOOLEAN, LoadView(p, announce)
    PROVE  PaneInv'
<1>1. view \in Views \cup {None}
  BY DEF IInv, PaneInv, PaneTyped
<1>2. view' \in Views
  BY <1>1, MaxContainersAssumption DEF LoadView, Views
<1>3. view' # None
  BY <1>2, NoneAssumption
<1>4. viewAsked' \in ViewRequests /\ viewLoading' \in BOOLEAN
  BY DEF LoadView, ViewRequests
<1> QED
  BY <1>2, <1>3, <1>4 DEF PaneInv, PaneTyped, AskedIsOpen

\* What an action leaves alone keeps its part of the invariant.
LEMMA TablesStay == ASSUME IInv, UNCHANGED <<table, command>>
                    PROVE  TableTyped'
BY DEF IInv, TableTyped, table

LEMMA PaneStays == ASSUME IInv, UNCHANGED <<view, viewAsked, viewLoading>> PROVE PaneInv'
BY DEF IInv, PaneInv, PaneTyped, AskedIsOpen

LEMMA TailStays == ASSUME IInv, UNCHANGED <<logs, logsQuery, follow, logsAsked>> PROVE TailInv'
BY DEF IInv, TailInv, TailTyped, FollowHasQuery, LogsAreOfOneTarget

LEMMA CountedStays == ASSUME IInv, UNCHANGED <<budget, ticks>> PROVE Counted'
BY DEF IInv, Counted

-----------------------------------------------------------------------------
(* One lemma per group of actions.                                         *)

\* An action that follows no logs any more, or neither follows nor counts.
LEMMA NotFollowing ==
    ASSUME ~follow' PROVE FollowKeepsPolling'
BY DEF FollowKeepsPolling

LEMMA StillPolling ==
    ASSUME IInv, UNCHANGED <<follow, ticks>>, UNCHANGED logsAsked \/ logsAsked' # None
    PROVE  FollowKeepsPolling'
BY DEF IInv, FollowKeepsPolling

LEMMA KeyIInv == ASSUME IInv, Key PROVE IInv'
<1>1. ASSUME NEW p \in Pods, MoveCursor(p) PROVE IInv'
  <2>1. TailInv' /\ ~follow' /\ budget' \in 0 .. MaxContainers - 1
    BY <1>1, ClearLogsTail DEF MoveCursor
  <2>2. PaneInv'
    BY <1>1, PaneStays DEF MoveCursor, pane
  <2>3. TableTyped' /\ Counted'
    BY <1>1, <2>1 DEF MoveCursor, IInv, TableTyped, Counted, Rows
  <2> QED
    BY <2>1, <2>2, <2>3, NotFollowing DEF IInv
<1>2. ASSUME NEW p \in Pods, OpenChild(p) \/ OpenRelated(p) PROVE IInv'
  <2>1. PaneInv' /\ TailInv' /\ ~follow' /\ budget' \in 0 .. MaxContainers - 1
        /\ SessionTyped'
    BY <1>2, OpenPodPane, OpenDetailPane DEF OpenChild, OpenRelated
  <2>2. UNCHANGED <<cursor, listAsked, command, ticks>>
    BY <1>2 DEF OpenChild, OpenRelated
  <2>3. TableTyped' /\ Counted'
    BY <2>1, <2>2 DEF SessionTyped, IInv, TableTyped, Counted
  <2> QED
    BY <2>1, <2>3, NotFollowing DEF IInv
<1>3. CASE OpenRow
  <2>1. cursor \in Pods
    BY <1>3 DEF OpenRow, IInv, TableTyped, Rows
  <2>2. PaneInv'
    BY <1>3, <2>1, LoadViewPane DEF OpenRow
  <2>3. UNCHANGED <<table, command, logs, logsQuery, follow, logsAsked, budget, ticks>>
    BY <1>3 DEF OpenRow, table, tail
  <2> QED
    BY <2>2, <2>3, TablesStay, TailStays, CountedStays, StillPolling DEF IInv
<1>4. CASE CloseView \/ WalkHistory
  <2>1. PaneInv' /\ TailInv' /\ ~follow' /\ budget' \in 0 .. MaxContainers - 1
    BY <1>4, ClearViewPane DEF CloseView, WalkHistory
  <2>2. TableTyped' /\ Counted'
    BY <1>4, <2>1 DEF CloseView, WalkHistory, CloseDetail, table, IInv, TableTyped, Counted, Rows
  <2> QED
    BY <2>1, <2>2, NotFollowing DEF IInv
<1>5. CASE TailPreset
  <2>1. view \in Views
    BY <1>5 DEF TailPreset, OnLogs, IInv, PaneInv, PaneTyped
  <2>2. TailInv' /\ (logsAsked' # None \/ UNCHANGED <<follow, logsAsked>>)
    BY <1>5, <2>1, ReloadTail DEF TailPreset
  <2>3. UNCHANGED <<table, command, view, viewAsked, viewLoading, budget, ticks>>
    BY <1>5 DEF TailPreset, table, pane
  <2>4. FollowKeepsPolling'
    BY <2>2, <2>3 DEF IInv, FollowKeepsPolling
  <2> QED
    BY <2>2, <2>3, <2>4, TablesStay, PaneStays, CountedStays DEF IInv
<1>6. CASE EnterCommand
  <2>1. UNCHANGED <<table, view, viewAsked, viewLoading, logs, logsQuery,
                    follow, logsAsked, budget, ticks>> /\ command' = TRUE
    BY <1>6 DEF EnterCommand, table, pane, tail
  <2> QED
    BY <2>1, PaneStays, TailStays, CountedStays, StillPolling DEF IInv, TableTyped, table
<1>7. ASSUME NEW step \in Steps, SwitchTab(step) PROVE IInv'
  <2>1. view \in Views /\ view' = StepTab(view, step)
        /\ UNCHANGED <<table, command, viewAsked, viewLoading, ticks>>
    BY <1>7 DEF SwitchTab, table, IInv, PaneInv, PaneTyped
  <2>2. view' \in Views
    BY <2>1, StepTabView
  <2>3. PaneInv'
    BY <2>1, <2>2, NoneAssumption DEF IInv, PaneInv, PaneTyped, AskedIsOpen
  <2>4. CASE OnLogs(view')
    <3>1. ReloadTabLogs(view') /\ budget' = IF view.containers > 1 THEN view.containers - 1 ELSE 0
      BY <1>7, <2>4 DEF SwitchTab
    <3>2. TailInv' /\ (logsAsked' # None \/ UNCHANGED <<follow, logsAsked>>)
      BY <2>2, <3>1, ReloadTail
    <3>3. budget' \in 0 .. MaxContainers - 1
      BY <2>1, <3>1, MaxContainersAssumption DEF Views
    <3>4. FollowKeepsPolling' /\ Counted' /\ TableTyped'
      BY <2>1, <3>2, <3>3 DEF IInv, FollowKeepsPolling, Counted, TableTyped, table
    <3> QED
      BY <2>3, <3>2, <3>4 DEF IInv
  <2>5. CASE ~OnLogs(view')
    <3>1. budget' = 0 /\ follow' = FALSE /\ UNCHANGED <<logs, logsQuery, logsAsked>>
      BY <1>7, <2>5 DEF SwitchTab
    <3>2. TailInv'
      BY <3>1 DEF IInv, TailInv, TailTyped, FollowHasQuery, LogsAreOfOneTarget
    <3>3. Counted' /\ TableTyped'
      BY <2>1, <3>1, ZeroCounts DEF IInv, Counted, TableTyped, table
    <3> QED
      BY <2>3, <3>1, <3>2, <3>3, NotFollowing DEF IInv
  <2> QED
    BY <2>4, <2>5
<1>8. ASSUME NEW step \in Steps, SwitchContainer(step) PROVE IInv'
  <2>1. view \in Views /\ view.containers > 0 /\ view' = StepContainer(view, step)
        /\ UNCHANGED <<table, command, viewAsked, viewLoading, ticks>>
        /\ budget' = 0 /\ ReloadTabLogs(view')
    <3>1. view.containers > 1 /\ view \in Views
      BY <1>8 DEF SwitchContainer, OnLogs, IInv, PaneInv, PaneTyped
    <3>2. view.containers > 0
      BY <3>1, MaxContainersAssumption DEF Views
    <3> QED
      BY <1>8, <3>1, <3>2 DEF SwitchContainer, table
  <2>2. view' \in Views
    BY <2>1, StepContainerView
  <2>3. PaneInv'
    BY <2>1, <2>2, NoneAssumption DEF IInv, PaneInv, PaneTyped, AskedIsOpen
  <2>4. TailInv' /\ (logsAsked' # None \/ UNCHANGED <<follow, logsAsked>>)
    BY <2>1, <2>2, ReloadTail
  <2>5. FollowKeepsPolling' /\ Counted' /\ TableTyped'
    BY <2>1, <2>4, ZeroCounts DEF IInv, FollowKeepsPolling, Counted, TableTyped, table
  <2> QED
    BY <2>3, <2>4, <2>5 DEF IInv
<1>9. CASE OpenRowDetail
  <2>1. UNCHANGED <<cursor, selection, listAsked, onPods, command, view, viewAsked, viewLoading,
                    logs, logsQuery, follow, logsAsked, budget, ticks>>
        /\ detail' = cursor /\ detailFound' = FALSE
    BY <1>9 DEF OpenRowDetail, pane, tail
  <2> QED
    BY <2>1, PaneStays, TailStays, CountedStays, StillPolling DEF IInv, TableTyped
<1>10. CASE LeaveDetail
  <2>1. TailInv' /\ ~follow' /\ budget' \in 0 .. MaxContainers - 1
    BY <1>10, ClearLogsTail DEF LeaveDetail
  <2>2. PaneInv'
    BY <1>10, PaneStays DEF LeaveDetail, pane
  <2>3. TableTyped' /\ Counted'
    BY <1>10, <2>1 DEF LeaveDetail, CloseDetail, IInv, TableTyped, Counted, Rows
  <2> QED
    BY <2>1, <2>2, <2>3, NotFollowing DEF IInv
<1> QED
  BY <1>1, <1>2, <1>3, <1>4, <1>5, <1>6, <1>7, <1>8, <1>9, <1>10 DEF Key

LEMMA CommandIInv == ASSUME IInv, Command PROVE IInv'
<1>1. CASE ExitCommand
  <2>1. UNCHANGED <<table, view, viewAsked, viewLoading, logs, logsQuery,
                    follow, logsAsked, budget, ticks>> /\ command' = FALSE
    BY <1>1 DEF ExitCommand, table, pane, tail
  <2> QED
    BY <2>1, PaneStays, TailStays, CountedStays, StillPolling DEF IInv, TableTyped, table
<1>2. CASE CommandSwitches
  <2>1. PaneInv' /\ TailInv' /\ ~follow' /\ budget' \in 0 .. MaxContainers - 1
    BY <1>2, ClearViewPane DEF CommandSwitches
  <2>2. TableTyped' /\ Counted'
    BY <1>2, <2>1 DEF CommandSwitches, CloseDetail, IInv, TableTyped, Counted, Rows
  <2> QED
    BY <2>1, <2>2, NotFollowing DEF IInv
<1>3. ASSUME NEW p \in Pods, NEW f \in BOOLEAN, CommandLogs(p, f) PROVE IInv'
  <2>1. Target(p, 0) \in Targets
    BY MaxContainersAssumption DEF Target, Targets
  <2>2. TailInv' /\ logsAsked' # None
    BY <1>3, <2>1, StartLogsTail DEF CommandLogs
  <2>3. UNCHANGED <<table, view, viewAsked, viewLoading, budget, ticks>>
        /\ command' = FALSE
    BY <1>3 DEF CommandLogs, table, pane
  <2> QED
    BY <2>2, <2>3, PaneStays, CountedStays DEF IInv, TableTyped, table, FollowKeepsPolling
<1>4. ASSUME NEW p \in Pods, OpenNamed(p) PROVE IInv'
  <2>1. PaneInv' /\ TailInv' /\ ~follow' /\ budget' \in 0 .. MaxContainers - 1
        /\ SessionTyped'
    BY <1>4, OpenPodPane, OpenDetailPane DEF OpenNamed
  <2>2. TableTyped' /\ Counted'
    BY <1>4, <2>1 DEF OpenNamed, SessionTyped, IInv, TableTyped, Counted
  <2> QED
    BY <2>1, <2>2, NotFollowing DEF IInv
<1> QED
  BY <1>1, <1>2, <1>3, <1>4 DEF Command

LEMMA TicksIInv == ASSUME IInv, PollTick \/ LogsTick PROVE IInv'
<1>1. CASE PollTick
  <2>1. UNCHANGED <<cursor, selection, onPods, detail, detailFound, command,
                    logs, logsQuery, follow, logsAsked, budget, ticks>>
    BY <1>1 DEF PollTick, tail
  <2>2. CASE view = None
    <3>1. listAsked' = TRUE /\ UNCHANGED <<view, viewAsked, viewLoading>>
      BY <1>1, <2>2 DEF PollTick, pane
    <3> QED
      BY <2>1, <3>1, PaneStays, TailStays, CountedStays, StillPolling DEF IInv, TableTyped
  <2>3. CASE view # None
    <3>1. cursor \in Pods /\ LoadView(cursor, FALSE) /\ UNCHANGED listAsked
      BY <1>1, <2>3 DEF PollTick, IInv, TableTyped, Rows
    <3>2. PaneInv'
      BY <3>1, LoadViewPane
    <3> QED
      BY <2>1, <3>1, <3>2, TablesStay, TailStays, CountedStays, StillPolling DEF IInv, table
  <2> QED
    BY <2>2, <2>3
<1>2. CASE LogsTick
  <2>1. UNCHANGED <<table, command, view, viewAsked, viewLoading, logs,
                    logsQuery, follow, budget>> /\ ticks > 0 /\ ticks' = ticks - 1
    BY <1>2 DEF LogsTick, table, pane
  <2>2. Counted'
    BY <2>1, MaxTicksAssumption DEF IInv, Counted
  <2>3. CASE ~follow
    <3>1. UNCHANGED logsAsked
      BY <1>2, <2>3 DEF LogsTick
    <3> QED
      BY <2>1, <2>2, <2>3, <3>1, TablesStay, PaneStays, TailStays, NotFollowing DEF IInv
  <2>4. CASE follow
    <3>1. logsQuery \in LogsQueries /\ logsQuery # None
      BY <2>4 DEF IInv, TailInv, TailTyped, FollowHasQuery
    <3>2. logsAsked' = [pod |-> logsQuery.pod, container |-> logsQuery.container,
                        announce |-> FALSE]
      BY <1>2, <2>4 DEF LogsTick
    <3>3. logsAsked' \in LogsRequests /\ logsAsked' # None
      <4>1. logsAsked' \in LogsRequests
        BY <3>1, <3>2 DEF LogsQueries, LogsRequests
      <4> QED
        BY <4>1, NoneAssumption
    <3>4. TargetOf(logsAsked') = TargetOf(logsQuery)
      BY <3>1, <3>2, <3>3 DEF TargetOf
    <3>5. TailInv'
      BY <2>1, <3>1, <3>3, <3>4
         DEF IInv, TailInv, TailTyped, FollowHasQuery, LogsAreOfOneTarget
    <3> QED
      BY <2>1, <2>2, <3>3, <3>5, TablesStay, PaneStays DEF IInv, FollowKeepsPolling
  <2> QED
    BY <2>3, <2>4
<1> QED
  BY <1>1, <1>2

LEMMA ListAnswerIInv ==
    ASSUME IInv, ListAnswer \/ DetailLoaded \/ ActionCompletes PROVE IInv'
<1>1. CASE ListFailed \/ DetailLoaded \/ ActionCompletes
  <2>1. UNCHANGED <<cursor, selection, onPods, detail, command, view, viewAsked, viewLoading,
                    logs, logsQuery, follow, logsAsked, budget, ticks>>
    BY <1>1 DEF ListFailed, DetailLoaded, ActionCompletes, pane, tail
  <2>2. listAsked' \in BOOLEAN /\ detailFound' \in BOOLEAN
    BY <1>1 DEF ListFailed, DetailLoaded, ActionCompletes, IInv, TableTyped
  <2> QED
    BY <2>1, <2>2, PaneStays, TailStays, CountedStays, StillPolling DEF IInv, TableTyped
<1>2. ASSUME NEW rows \in SUBSET Pods, ListLoaded(rows) PROVE IInv'
  <2>1. cursor' \in Rows /\ selection' = cursor' /\ listAsked' = FALSE
        /\ UNCHANGED <<onPods, command, ticks>>
        /\ (UNCHANGED <<detail, detailFound>> \/ CloseDetail)
    BY <1>2 DEF ListLoaded, SelectFromSession, Rows
  <2>2. TableTyped'
    BY <2>1 DEF IInv, TableTyped, CloseDetail, Rows
  <2>3. CASE view # None /\ ~KeepsView(cursor')
    <3>1. PaneInv' /\ TailInv' /\ ~follow' /\ budget' \in 0 .. MaxContainers - 1
      BY <1>2, <2>3, ClearViewPane DEF ListLoaded
    <3>2. Counted'
      BY <2>1, <3>1 DEF IInv, Counted
    <3> QED
      BY <2>2, <3>1, <3>2, NotFollowing DEF IInv
  <2>4. CASE ~(view # None /\ ~KeepsView(cursor'))
    <3>1. view' = (IF view = None THEN None ELSE Within(view))
          /\ UNCHANGED <<viewAsked, viewLoading>>
          /\ (UNCHANGED tail \/ ClearLogs)
      BY <1>2, <2>4 DEF ListLoaded
    <3>2. view # None => view' \in Views /\ view' # None
      BY <3>1, WithinView, NoneAssumption DEF IInv, PaneInv, PaneTyped
    <3>3. PaneInv'
      BY <3>1, <3>2 DEF IInv, PaneInv, PaneTyped, AskedIsOpen
    <3>4. CASE UNCHANGED tail
      BY <2>1, <2>2, <3>3, <3>4, TailStays, CountedStays, StillPolling DEF tail, IInv
    <3>5. CASE ClearLogs
      <4>1. TailInv' /\ ~follow' /\ budget' \in 0 .. MaxContainers - 1
        BY <3>5, ClearLogsTail
      <4>2. Counted'
        BY <2>1, <4>1 DEF IInv, Counted
      <4> QED
        BY <2>2, <3>3, <4>1, <4>2, NotFollowing DEF IInv
    <3> QED
      BY <3>1, <3>4, <3>5
  <2> QED
    BY <2>3, <2>4
<1> QED
  BY <1>1, <1>2 DEF ListAnswer

LEMMA ViewAnswerIInv == ASSUME IInv, ViewAnswer PROVE IInv'
<1>1. CASE ViewFailed
  <2>1. UNCHANGED <<table, command, view, logs, logsQuery, follow, logsAsked,
                    budget, ticks>> /\ viewAsked' = None /\ viewLoading' = FALSE
    BY <1>1 DEF ViewFailed, table, tail
  <2> QED
    BY <2>1, TablesStay, TailStays, CountedStays, StillPolling
       DEF IInv, PaneInv, PaneTyped, AskedIsOpen
<1>2. ASSUME NEW n \in 0 .. MaxContainers, ViewLoaded(n) PROVE IInv'
  <2> DEFINE v == [pod |-> viewAsked.pod, containers |-> n, tab |-> view.tab,
                   index |-> view.index]
  <2>1. view \in Views /\ viewAsked \in ViewRequests
    BY <1>2 DEF ViewLoaded, IInv, PaneInv, PaneTyped, AskedIsOpen
  <2>2. v \in Views
    BY <2>1 DEF Views, ViewRequests
  <2>3. view' \in Views
    BY <1>2, <2>2, WithinView DEF ViewLoaded
  <2>4. UNCHANGED <<table, command, budget, ticks>>
        /\ viewAsked' = None /\ viewLoading' = FALSE
    BY <1>2 DEF ViewLoaded, table
  <2>5. PaneInv'
    BY <2>3, <2>4 DEF PaneInv, PaneTyped, AskedIsOpen
  <2>6. TailInv' /\ (logsAsked' # None \/ UNCHANGED <<follow, logsAsked>>)
    <3>1. CASE ReloadTabLogs(view')
      BY <2>3, <3>1, ReloadTail
    <3>2. CASE UNCHANGED <<logs, logsQuery, follow, logsAsked>>
      BY <3>2, TailStays
    <3> QED
      BY <1>2, <3>1, <3>2 DEF ViewLoaded
  <2>7. FollowKeepsPolling'
    BY <2>4, <2>6 DEF IInv, FollowKeepsPolling
  <2> QED
    BY <2>4, <2>5, <2>6, <2>7, TablesStay, CountedStays DEF IInv
<1> QED
  BY <1>1, <1>2 DEF ViewAnswer

LEMMA ScheduledTicks ==
    ASSUME IInv
    PROVE  Scheduled \in 0 .. MaxTicks /\ (follow => Scheduled > 0)
BY MaxTicksAssumption DEF IInv, Counted, Scheduled

LEMMA LogsAnswerIInv == ASSUME IInv, LogsAnswer PROVE IInv'
<1>1. CASE LogsSwitch
  <2>1. view \in Views /\ view.containers > 1 /\ budget > 0
        /\ view' = StepContainer(view, 1) /\ budget' = budget - 1 /\ ReloadTabLogs(view')
        /\ UNCHANGED <<table, command, viewAsked, viewLoading, ticks>>
    BY <1>1 DEF LogsSwitch, Switches, OnLogs, table, IInv, PaneInv, PaneTyped
  <2>2. view' \in Views
    BY <2>1, StepContainerView, MaxContainersAssumption DEF Steps, Views
  <2>3. PaneInv'
    BY <2>1, <2>2, NoneAssumption DEF IInv, PaneInv, PaneTyped, AskedIsOpen
  <2>4. TailInv' /\ (logsAsked' # None \/ UNCHANGED <<follow, logsAsked>>)
    BY <2>1, <2>2, ReloadTail
  <2>5. Counted'
    BY <2>1, MaxContainersAssumption DEF IInv, Counted
  <2>6. FollowKeepsPolling'
    BY <2>1, <2>4 DEF IInv, FollowKeepsPolling
  <2> QED
    BY <2>1, <2>3, <2>4, <2>5, <2>6, TablesStay DEF IInv
<1>2. ASSUME NEW some \in BOOLEAN, LogsLoaded(some) PROVE IInv'
  <2> DEFINE t      == TargetOf(logsAsked)
             merges == follow /\ ~logsAsked.announce /\ TargetOf(logs) = t
             any    == some \/ (merges /\ logs.any)
  <2>1. UNCHANGED <<table, command, view, viewAsked, viewLoading,
                    logsQuery, follow>> /\ logsAsked' = None /\ ticks' = Scheduled
    BY <1>2 DEF LogsLoaded, table, pane
  <2>2. logs' = [pod |-> t.pod, container |-> t.container, any |-> any]
    BY <1>2 DEF LogsLoaded
  <2>3. budget' = budget \/ budget' = 0
    BY <1>2 DEF LogsLoaded
  <2>4. logsAsked \in LogsRequests /\ logsAsked # None /\ t = TargetOf(logsQuery)
    BY <1>2 DEF LogsLoaded, IInv, TailInv, TailTyped, LogsAreOfOneTarget
  <2>5. t = [pod |-> logsAsked.pod, container |-> logsAsked.container] /\ t \in Targets
    BY <2>4 DEF TargetOf, Target, Targets, LogsRequests
  <2>6. any \in BOOLEAN
    <3>1. CASE logs = None
      <4>1. TargetOf(logs) = None /\ t # None
        BY <2>5, <3>1, NoneAssumption DEF TargetOf
      <4> QED
        BY <4>1
    <3>2. CASE logs \in Lines
      BY <3>2 DEF Lines
    <3> QED
      BY <3>1, <3>2 DEF IInv, TailInv, TailTyped
  <2>7. logs' \in Lines /\ logs' # None
    <3>1. logs' \in Lines
      BY <2>2, <2>5, <2>6 DEF Targets, Lines
    <3> QED
      BY <3>1, NoneAssumption
  <2>8. TargetOf(logs') = t
    BY <2>2, <2>5, <2>7 DEF TargetOf, Target, Targets
  <2>9. TailInv'
    BY <2>1, <2>4, <2>7, <2>8 DEF IInv, TailInv, TailTyped, FollowHasQuery, LogsAreOfOneTarget
  <2>10. Counted' /\ FollowKeepsPolling'
    BY <2>1, <2>3, ScheduledTicks, ZeroCounts DEF IInv, Counted, FollowKeepsPolling
  <2> QED
    BY <2>1, <2>9, <2>10, TablesStay, PaneStays DEF IInv
<1>3. CASE LogsFailed
  <2>1. UNCHANGED <<table, command, view, viewAsked, viewLoading, logs,
                    logsQuery, follow, budget>> /\ logsAsked' = None /\ ticks' = Scheduled
    BY <1>3 DEF LogsFailed, table, pane
  <2>2. TailInv'
    BY <2>1 DEF IInv, TailInv, TailTyped, FollowHasQuery, LogsAreOfOneTarget
  <2>3. Counted' /\ FollowKeepsPolling'
    BY <2>1, ScheduledTicks DEF IInv, Counted, FollowKeepsPolling
  <2> QED
    BY <2>1, <2>2, <2>3, TablesStay, PaneStays DEF IInv
<1> QED
  BY <1>1, <1>2, <1>3 DEF LogsAnswer

LEMMA NextIInv == IInv /\ [Next]_vars => IInv'
<1> SUFFICES ASSUME IInv, [Next]_vars PROVE IInv'
  OBVIOUS
<1>1. CASE UNCHANGED vars
  BY <1>1, TablesStay, PaneStays, TailStays, CountedStays, StillPolling
     DEF vars, table, pane, tail, IInv
<1> QED
  BY <1>1, KeyIInv, CommandIInv, TicksIInv, ListAnswerIInv, ViewAnswerIInv, LogsAnswerIInv DEF Next

LEMMA Invariance == Spec => []IInv
<1> QED
  BY InitIInv, NextIInv, PTL DEF Spec

-----------------------------------------------------------------------------
(* Theorems.                                                               *)

\* Every reachable state of the pod view and the logs is well typed: tabs and
\* containers that are chosen exist (ensurePodViewLogSelection, stepPodViewTab).
THEOREM TypeCorrect == Spec => []TypeOK
BY Invariance, IInvTypes, PTL

\* Lines of two containers are never mixed, however keys, commands and answers
\* interleave (startLogsWithAnnouncement and the handler of logsLoadedMsg).
THEOREM LogsAreOfOneTargetHolds == Spec => []LogsAreOfOneTarget
<1>1. IInv => LogsAreOfOneTarget
  BY DEF IInv, TailInv
<1> QED
  BY <1>1, Invariance, PTL

\* The chain of log polls is never lost while logs are followed (the handlers
\* of logsPollTickMsg, logsLoadedMsg and logsFailedMsg).
THEOREM FollowKeepsPollingHolds == Spec => []FollowKeepsPolling
<1>1. IInv => FollowKeepsPolling
  BY DEF IInv
<1> QED
  BY <1>1, Invariance, PTL
=============================================================================
