----------------------------- MODULE UiRequests -----------------------------
(***************************************************************************)
(* The requests of the terminal UI (internal/ui/app.go): what the user's   *)
(* keys and commands, the poll ticker and the answers of the daemon do to  *)
(* the list on the screen, to the pane of one resource, and to what is     *)
(* about to be deleted.                                                    *)
(*                                                                         *)
(* Update runs one message at a time; what is concurrent are the requests, *)
(* each a goroutine of its own whose answer arrives whenever it likes.  A  *)
(* counter per kind numbers them, and an answer counts only if its number  *)
(* is the latest.  Here the latest request of a kind is the awaited one.   *)
(*                                                                         *)
(* A view stands for a context, a resource other than pods and its scope,  *)
(* a name for a namespace and a name.  The order of the rows is the user's *)
(* choice, so "the first row" may be any.  Pod panes, logs, search, sort,  *)
(* edit and terminal are left out, and so are the texts.                   *)
(***************************************************************************)
EXTENDS FiniteSets, Integers

CONSTANTS
    Views,      \* what the session can point at
    Names,      \* the items' names
    Namesakes,  \* sets of names that differ in nothing but their namespace
    None,       \* the absence of a name, of a pane's content, of a popup
    MaxLate     \* bound on the superseded requests still in flight

\* What the pane shows, and what an action is for: of which view, and whether
\* of several rows.
Panes == [view : Views, name : Names, found : BOOLEAN]
Targets == [view : Views, several : BOOLEAN]

ASSUME NamesakesAssumption == Namesakes \subseteq SUBSET Names
ASSUME NoneAssumption == None \notin Names \cup Panes \cup Targets
ASSUME MaxLateAssumption == MaxLate \in Nat

VARIABLES
    view,            \* the session's context, resource and scope
    selection,       \* session.Selection
    list,            \* resourceList: whose rows are on the screen, and which
    cursor,          \* the row that selected points at, None without rows
    marked,          \* multiSelectedItems
    mode,            \* who gets the keys
    popup,           \* the targets of the delete confirmation
    loading,         \* a list is being loaded (announced reloads only)
    resOpen,         \* resourceViewOpen
    detail,          \* the content of the pane
    detailLoading,   \* an answer for the pane is awaited
    requests         \* the requests in flight

session == <<view, selection>>
table == <<list, cursor, marked>>
pane == <<resOpen, detail, detailLoading>>
input == <<mode, popup>>
vars == <<session, table, pane, input, loading, requests>>

ListAsk(v) == [kind |-> "list", view |-> v]
DetailAsk(v, n) == [kind |-> "detail", view |-> v, name |-> n]
ActionAsk(targets) == [kind |-> "action", several |-> targets.several]

Asks == { ListAsk(v) : v \in Views }
        \cup { DetailAsk(v, n) : v \in Views, n \in Names }
        \cup [kind : {"action"}, several : BOOLEAN]

Kinds == {"list", "detail", "action"}

-----------------------------------------------------------------------------
(* Sequence numbers.                                                       *)

Awaited(kind, rs) == { r \in rs : r.awaited /\ r.ask.kind = kind }

Late(rs) == { r \in rs : ~r.awaited }

\* The counter of a kind goes on: nothing of that kind is awaited any more.
Supersede(rs, kind) ==
    (rs \ Awaited(kind, rs))
        \cup { [r EXCEPT !.awaited = FALSE] : r \in Awaited(kind, rs) }

Ask(rs, ask) == Supersede(rs, ask.kind) \cup {[ask |-> ask, awaited |-> TRUE]}

InFlight(rs) ==
    /\ Cardinality(Late(rs)) <= MaxLate
    /\ requests' = rs

-----------------------------------------------------------------------------
(* Pieces that several handlers call.                                      *)

\* Mutant: an answer that is under way still counts.
ClearDetailOnly(rs) ==
    /\ resOpen' = FALSE
    /\ detail' = None
    /\ detailLoading' = FALSE
    /\ InFlight(rs)

ClearDetail(rs) ==
    /\ resOpen' = FALSE
    /\ detail' = None
    /\ detailLoading' = FALSE
    /\ InFlight(Supersede(rs, "detail"))

\* startDetailReloadWithQuery; an announced one shows the pane empty.
ShowDetail(v, n, found) ==
    /\ resOpen' = TRUE
    /\ detail' = [view |-> v, name |-> n, found |-> found]
    /\ detailLoading' = TRUE
    /\ InFlight(Ask(requests, DetailAsk(v, n)))

\* The session points somewhere else: the pane closes and a list is asked
\* for.  The rows of the old list stay until the new one is there.
SwitchTo(v, s) ==
    /\ view' = v
    /\ selection' = s
    /\ loading' = TRUE
    /\ ClearDetail(Ask(requests, ListAsk(v)))

HasTarget == resOpen \/ cursor # None

ActiveView == IF resOpen THEN detail.view ELSE view

OneTarget == [view |-> ActiveView, several |-> FALSE]

\* The marked rows if there are several, else the pane's resource or the row.
ChosenTargets ==
    IF ~resOpen /\ Cardinality(marked \cap list.rows) > 1
    THEN [view |-> view, several |-> TRUE]
    ELSE OneTarget

\* A superseded action is forgotten: it is cancelled, and its answer dropped.
StartAction(targets) ==
    InFlight((requests \ Awaited("action", requests))
                 \cup {[ask |-> ActionAsk(targets), awaited |-> TRUE]})

AskToConfirm(targets) ==
    /\ mode' = "confirm"
    /\ popup' = targets
    /\ UNCHANGED requests

-----------------------------------------------------------------------------
(* newModel: the first list is loaded before the UI starts.                *)

Init ==
    /\ view \in Views
    /\ \E rows \in SUBSET Names : list = [view |-> view, rows |-> rows]
    /\ IF list.rows = {} THEN cursor = None ELSE cursor \in list.rows
    /\ selection = cursor
    /\ marked = {}
    /\ mode = "normal"
    /\ popup = None
    /\ loading = FALSE
    /\ resOpen = FALSE
    /\ detail = None
    /\ detailLoading = FALSE
    /\ requests = {}

-----------------------------------------------------------------------------
(* Keys in normal mode.                                                    *)

EnterCommand ==
    /\ mode = "normal"
    /\ mode' = "command"
    /\ UNCHANGED <<session, table, pane, popup, loading, requests>>

\* Back and forward in the history, and the key that opens a row's namespace.
Navigate ==
    /\ mode = "normal"
    /\ \E v \in Views, s \in Names \cup {None} : SwitchTo(v, s)
    /\ UNCHANGED <<table, input>>

OpenDetail ==
    /\ mode = "normal"
    /\ ~resOpen
    /\ cursor # None
    /\ ShowDetail(view, cursor, FALSE)
    /\ UNCHANGED <<session, table, input, loading>>

\* Enter in the pane.
ReloadDetail ==
    /\ mode = "normal"
    /\ resOpen
    /\ ShowDetail(view, detail.name, FALSE)
    /\ UNCHANGED <<session, table, input, loading>>

CloseDetail ==
    /\ mode = "normal"
    /\ resOpen
    /\ ClearDetail(requests)
    /\ UNCHANGED <<session, table, input, loading>>

\* setSelection: the row that has the cursor only loses its marks.
SetSelection(n) ==
    /\ mode = "normal"
    /\ ~resOpen
    /\ n \in list.rows
    /\ cursor' = n
    /\ selection' = n
    /\ marked' = {}
    /\ \/ n = cursor /\ UNCHANGED <<pane, requests>>
       \/ n # cursor /\ ClearDetail(requests)
    /\ UNCHANGED <<view, list, input, loading>>

\* extendSelectionTo: which rows lie between the anchor and the new cursor
\* depends on their order.
ExtendSelection(n) ==
    /\ mode = "normal"
    /\ ~resOpen
    /\ n \in list.rows
    /\ cursor' = n
    /\ selection' = n
    /\ marked' \in { s \in SUBSET list.rows : n \in s }
    /\ ClearDetail(requests)
    /\ UNCHANGED <<view, list, input, loading>>

DeleteKey ==
    /\ mode = "normal"
    /\ HasTarget
    /\ AskToConfirm(ChosenTargets)
    /\ UNCHANGED <<session, table, pane, loading>>

\* A node, an owner, a child of the pane, or a target typed in: the pane
\* opens on it, and no list of its view is asked for.
OpenElsewhere(v, n) ==
    /\ \/ mode = "normal" /\ HasTarget
       \/ mode = "command"
    /\ mode' = "normal"
    /\ view' = v
    /\ selection' = n
    /\ ShowDetail(v, n, FALSE)
    /\ UNCHANGED <<table, popup, loading>>

-----------------------------------------------------------------------------
(* Commands.                                                               *)

\* Esc, and the commands that only sort or format.
ExitCommand ==
    /\ mode = "command"
    /\ mode' = "normal"
    /\ UNCHANGED <<session, table, pane, popup, loading, requests>>

CommandSwitches ==
    /\ mode = "command"
    /\ mode' = "normal"
    /\ \E v \in Views : SwitchTo(v, None)
    /\ UNCHANGED <<table, popup>>

\* A list filter is kept for later: nothing is reloaded.
CommandSetsFilter ==
    /\ mode = "command"
    /\ mode' = "normal"
    /\ selection' = None
    /\ ClearDetail(requests)
    /\ UNCHANGED <<view, table, popup, loading>>

CommandDeletes(targets) ==
    /\ mode = "command"
    /\ \/ AskToConfirm(targets)
       \/ /\ StartAction(targets)       \* with --yes
          /\ mode' = "normal"
          /\ UNCHANGED popup
    /\ UNCHANGED <<session, table, pane, loading>>

CommandDeletesChosen == HasTarget /\ CommandDeletes(ChosenTargets)

CommandDeletesNamed == CommandDeletes(OneTarget)

\* scale, restart, label, annotate
CommandActs ==
    /\ mode = "command"
    /\ \/ HasTarget /\ StartAction(ChosenTargets)
       \/ StartAction(OneTarget)       \* of a given name
    /\ mode' = "normal"
    /\ UNCHANGED <<session, table, pane, popup, loading>>

Confirm ==
    /\ mode = "confirm"
    /\ StartAction(popup)
    /\ mode' = "normal"
    /\ popup' = None
    /\ UNCHANGED <<session, table, pane, loading>>

Decline ==
    /\ mode = "confirm"
    /\ mode' = "normal"
    /\ popup' = None
    /\ UNCHANGED <<session, table, pane, loading, requests>>

-----------------------------------------------------------------------------
(* The poll ticker.                                                        *)

PollsDetail ==
    /\ mode # "command"
    /\ resOpen
    /\ ~detailLoading
    /\ ShowDetail(view, detail.name, detail.found)
    /\ UNCHANGED <<session, table, input, loading>>

\* startBackgroundReload leaves loading alone, so the next tick supersedes
\* this request if it has not been answered by then.
PollsList ==
    /\ mode # "command"
    /\ ~resOpen
    /\ ~loading
    /\ InFlight(Ask(requests, ListAsk(view)))
    /\ UNCHANGED <<session, table, pane, input, loading>>

PollTick == PollsDetail \/ PollsList

-----------------------------------------------------------------------------
(* Answers.  One whose number is not the latest is dropped.                *)

LateAnswerDropped ==
    /\ \E r \in Late(requests) : requests' = requests \ {r}
    /\ UNCHANGED <<session, table, pane, input, loading>>

\* Names that the session, which keeps no namespace, cannot tell from n.
Alike(n) == {n} \cup UNION { names \in Namesakes : n \in names }

\* selectFromSession: the first row of the name in the session, else the first.
SelectFromSession(rows) ==
    LET named == rows \cap Alike(selection)
    IN  /\ IF rows = {} THEN cursor' = None
           ELSE IF named # {} THEN cursor' \in named
           ELSE cursor' \in rows
        /\ selection' = cursor'

\* Mutant: marks of rows that have gone stay.
MarksKept(rows) == marked

\* pruneMultiSelection: a single row left is no selection of several.
PruneMultiSelection(rows) ==
    IF Cardinality(marked \cap rows) <= 1 THEN {} ELSE marked \cap rows

\* syncDetailSelection: a pane of another name than the cursor's closes.
SyncDetailSelection(rs) ==
    IF detail = None \/ detail.name = cursor'
    THEN UNCHANGED pane /\ InFlight(rs)
    ELSE ClearDetail(rs)

ListLoaded(r) ==
    /\ r \in Awaited("list", requests)
    /\ loading' = FALSE
    /\ \E rows \in SUBSET Names :
           /\ list' = [view |-> r.ask.view, rows |-> rows]
           /\ SelectFromSession(rows)
           /\ marked' = PruneMultiSelection(rows)
    /\ SyncDetailSelection(requests \ {r})
    /\ UNCHANGED <<view, input>>

\* Mutant: a failed list leaves loading set.
ListFailedStillLoading(r) ==
    /\ r \in Awaited("list", requests)
    /\ requests' = requests \ {r}
    /\ UNCHANGED <<session, table, pane, input, loading>>

ListFailed(r) ==
    /\ r \in Awaited("list", requests)
    /\ loading' = FALSE
    /\ requests' = requests \ {r}
    /\ UNCHANGED <<session, table, pane, input>>

DetailLoaded(r, found) ==
    /\ r \in Awaited("detail", requests)
    /\ detailLoading' = FALSE
    /\ detail' = [view |-> r.ask.view, name |-> r.ask.name, found |-> found]
    /\ requests' = requests \ {r}
    /\ UNCHANGED <<session, table, resOpen, input, loading>>

\* Mutant: a failed detail leaves detailLoading set.
DetailFailedStillLoading(r) ==
    /\ r \in Awaited("detail", requests)
    /\ requests' = requests \ {r}
    /\ UNCHANGED <<session, table, pane, input, loading>>

DetailFailed(r) ==
    /\ r \in Awaited("detail", requests)
    /\ detailLoading' = FALSE
    /\ requests' = requests \ {r}
    /\ UNCHANGED <<session, table, resOpen, detail, input, loading>>

\* A bulk action reloads the list however it went, and unmarks the rows.
ActionLoaded(r) ==
    /\ r \in Awaited("action", requests)
    /\ marked' = IF r.ask.several THEN {} ELSE marked
    /\ loading' = TRUE
    /\ InFlight(Ask(requests \ {r}, ListAsk(view)))
    /\ UNCHANGED <<session, list, cursor, pane, input>>

\* Refused by the daemon (one target), failed or cancelled.
ActionFailed(r) ==
    /\ r \in Awaited("action", requests)
    /\ requests' = requests \ {r}
    /\ UNCHANGED <<session, table, pane, input, loading>>

Answer ==
    \/ LateAnswerDropped
    \/ \E r \in requests :
           \/ ListLoaded(r)   \/ ListFailed(r)
           \/ \E found \in BOOLEAN : DetailLoaded(r, found)
           \/ DetailFailed(r)
           \/ ActionLoaded(r) \/ ActionFailed(r)

Key ==
    \/ EnterCommand \/ Navigate \/ OpenDetail \/ ReloadDetail \/ CloseDetail
    \/ \E n \in Names : SetSelection(n) \/ ExtendSelection(n)
    \/ DeleteKey \/ Confirm \/ Decline
    \/ \E v \in Views, n \in Names : OpenElsewhere(v, n)

Command ==
    \/ ExitCommand \/ CommandSwitches \/ CommandSetsFilter
    \/ CommandDeletesChosen \/ CommandDeletesNamed \/ CommandActs

Next == Key \/ Command \/ PollTick \/ Answer

Spec == Init /\ [][Next]_vars

\* The ticker goes on, requests that were cancelled come back, and the daemon
\* answers an awaited one before the next tick again and again.
FairSpec ==
    /\ Spec
    /\ WF_vars(PollTick)
    /\ WF_vars(LateAnswerDropped)
    /\ SF_vars(\E r \in requests : ListLoaded(r))
    /\ SF_vars(\E r \in requests : DetailLoaded(r, TRUE))

-----------------------------------------------------------------------------
(* Properties.                                                             *)

\* Types; the delete confirmation has its targets; and one number per kind: at
\* most one request of a kind is awaited.
TypeOK ==
    /\ view \in Views
    /\ selection \in Names \cup {None}
    /\ list \in [view : Views, rows : SUBSET Names]
    /\ cursor \in Names \cup {None}
    /\ marked \in SUBSET Names
    /\ mode \in {"normal", "command", "confirm"}
    /\ popup \in Targets \cup {None}
    /\ loading \in BOOLEAN
    /\ resOpen \in BOOLEAN
    /\ detail \in Panes \cup {None}
    /\ detailLoading \in BOOLEAN
    /\ requests \in SUBSET [ask : Asks, awaited : BOOLEAN]
    /\ mode = "confirm" => popup # None
    /\ \A kind \in Kinds : \A r, s \in Awaited(kind, requests) : r = s

\* A flag that holds back the poll ticker is held by a request whose answer
\* will reset it; a flag nobody resets would freeze the screen for good.
FlagsHaveRequest ==
    /\ loading => Awaited("list", requests) # {}
    /\ detailLoading <=> Awaited("detail", requests) # {}

\* The pane shows what was opened in the session's view, the answer it awaits
\* is for just that, and once it is closed nothing late can fill it.
PaneIsWhatWasOpened ==
    /\ resOpen <=> detail # None
    /\ resOpen => detail.view = view
    /\ \A r \in Awaited("detail", requests) :
           resOpen /\ r.ask = DetailAsk(detail.view, detail.name)

\* The cursor and the marks are rows on the screen, whatever lists came in
\* between: an action on the marked rows hits nothing that is not shown.
MarksAreRows ==
    /\ cursor \in list.rows \cup {None}
    /\ cursor = None <=> list.rows = {}
    /\ marked \subseteq list.rows

\* While the user stays on the list, the list of the session's view comes up,
\* however many requests fail, are superseded or come late.
ListArrives ==
    <>[](~resOpen /\ mode # "command") => []<>(list.view = view)

\* A pane that stays open shows its resource in the end.
DetailArrives ==
    <>[](resOpen /\ mode # "command") => []<>(resOpen /\ detail.found)

\* What is about to be deleted is of the view whose rows are on the screen
\* (README: ":delete (delete selected row)").
DeleteIsOfSelectedRow ==
    [][CommandDeletesChosen /\ ~resOpen => ChosenTargets.view = list.view]_vars
=============================================================================
