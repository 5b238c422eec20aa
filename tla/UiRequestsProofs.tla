-------------------------- MODULE UiRequestsProofs --------------------------
(***************************************************************************)
(* The flags, the pane and the marks of UiRequests are right in every      *)
(* reachable state, for every set of views and names and any number of     *)
(* superseded requests.                                                    *)
(*                                                                         *)
(* The invariant is kept in parts that read different variables, so that   *)
(* an action's proof looks only at the parts that it disturbs.  What the   *)
(* pieces that several handlers call do to the awaited requests is said    *)
(* once, for every set of requests.                                        *)
(***************************************************************************)
EXTENDS UiRequests, TLAPS

Numbered(rs) ==
    /\ rs \in SUBSET [ask : Asks, awaited : BOOLEAN]
    /\ \A kind \in Kinds : \A r, s \in Awaited(kind, rs) : r = s

SessionInv == view \in Views /\ selection \in Names \cup {None}

TableInv ==
    /\ list \in [view : Views, rows : SUBSET Names]
    /\ cursor \in Names \cup {None}
    /\ marked \in SUBSET Names
    /\ MarksAreRows

InputInv ==
    /\ mode \in {"normal", "command", "confirm"}
    /\ popup \in Targets \cup {None}
    /\ mode = "confirm" => popup # None

\* What the pane needs of the requests that are awaited for it.
PaneOf(awaited) ==
    /\ resOpen \in BOOLEAN
    /\ detail \in Panes \cup {None}
    /\ detailLoading \in BOOLEAN
    /\ detailLoading <=> awaited # {}
    /\ resOpen <=> detail # None
    /\ resOpen => detail.view = view
    /\ \A r \in awaited : resOpen /\ r.ask = DetailAsk(detail.view, detail.name)

PaneInv == PaneOf(Awaited("detail", requests))

LoadInv == loading \in BOOLEAN /\ (loading => Awaited("list", requests) # {})

IInv ==
    /\ SessionInv /\ TableInv /\ InputInv
    /\ Numbered(requests) /\ PaneInv /\ LoadInv

LEMMA IInvTypes == IInv => TypeOK
BY DEF IInv, SessionInv, TableInv, InputInv, Numbered, PaneInv, PaneOf, LoadInv, TypeOK

-----------------------------------------------------------------------------
(* Asking and superseding.                                                 *)

LEMMA AskOfList ==
    ASSUME NEW v \in Views PROVE ListAsk(v) \in Asks /\ ListAsk(v).kind = "list"
BY DEF ListAsk, Asks

LEMMA AskOfDetail ==
    ASSUME NEW v \in Views, NEW n \in Names
    PROVE  DetailAsk(v, n) \in Asks /\ DetailAsk(v, n).kind = "detail"
BY DEF DetailAsk, Asks

LEMMA AskOfAction ==
    ASSUME NEW t \in Targets PROVE ActionAsk(t) \in Asks /\ ActionAsk(t).kind = "action"
BY DEF ActionAsk, Asks, Targets

\* Every ask has a kind, and one of the list has a view.
LEMMA AskKinds ==
    ASSUME NEW ask \in Asks
    PROVE  /\ ask.kind \in Kinds
           /\ ask.kind = "list" => ask.view \in Views
BY DEF Asks, ListAsk, DetailAsk, Kinds

LEMMA AwaitedIsIn ==
    ASSUME NEW rs, NEW kind, NEW r \in Awaited(kind, rs)
    PROVE  r \in rs /\ r.awaited /\ r.ask.kind = kind
BY DEF Awaited

LEMMA SubsetNumbered ==
    ASSUME NEW rs, Numbered(rs), NEW left \in SUBSET rs
    PROVE  Numbered(left)
<1>1. ASSUME NEW kind \in Kinds, NEW a \in Awaited(kind, left), NEW b \in Awaited(kind, left)
      PROVE  a = b
  <2>1. a \in Awaited(kind, rs) /\ b \in Awaited(kind, rs)
    BY DEF Awaited
  <2> QED
    BY <2>1 DEF Numbered
<1> QED
  BY <1>1 DEF Numbered

\* An answer that counts takes away the only awaited request of its kind.
LEMMA RemoveAnswered ==
    ASSUME NEW rs, Numbered(rs), NEW kind \in Kinds, NEW r \in Awaited(kind, rs)
    PROVE  /\ Numbered(rs \ {r})
           /\ Awaited(kind, rs \ {r}) = {}
           /\ \A other \in Kinds \ {kind} : Awaited(other, rs \ {r}) = Awaited(other, rs)
<1>1. Numbered(rs \ {r})
  BY SubsetNumbered
<1>2. Awaited(kind, rs \ {r}) = {}
  <2>1. \A s \in Awaited(kind, rs) : s = r
    BY DEF Numbered
  <2> QED
    BY <2>1 DEF Awaited
<1>3. ASSUME NEW other \in Kinds \ {kind}
      PROVE  Awaited(other, rs \ {r}) = Awaited(other, rs)
  <2>1. r \notin Awaited(other, rs)
    BY <1>3 DEF Awaited
  <2> QED
    BY <2>1 DEF Awaited
<1> QED
  BY <1>1, <1>2, <1>3

LEMMA SupersedeAwaited ==
    ASSUME NEW rs \in SUBSET [ask : Asks, awaited : BOOLEAN], NEW kind
    PROVE  /\ Supersede(rs, kind) \in SUBSET [ask : Asks, awaited : BOOLEAN]
           /\ Awaited(kind, Supersede(rs, kind)) = {}
           /\ \A other : other # kind => Awaited(other, Supersede(rs, kind)) = Awaited(other, rs)
<1> DEFINE late == { [r EXCEPT !.awaited = FALSE] : r \in Awaited(kind, rs) }
<1>1. \A r \in late : r \in [ask : Asks, awaited : BOOLEAN] /\ ~r.awaited
  BY DEF Awaited
<1>2. Supersede(rs, kind) = (rs \ Awaited(kind, rs)) \cup late
  BY DEF Supersede
<1> HIDE DEF late
<1>3. Supersede(rs, kind) \in SUBSET [ask : Asks, awaited : BOOLEAN]
  BY <1>1, <1>2
<1>4. Awaited(kind, Supersede(rs, kind)) = {}
  BY <1>1, <1>2 DEF Awaited
<1>5. ASSUME NEW other, other # kind
      PROVE  Awaited(other, Supersede(rs, kind)) = Awaited(other, rs)
  BY <1>1, <1>2, <1>5 DEF Awaited
<1> QED
  BY <1>3, <1>4, <1>5

LEMMA SupersedeNumbered ==
    ASSUME NEW rs, Numbered(rs), NEW kind \in Kinds
    PROVE  /\ Numbered(Supersede(rs, kind))
           /\ Awaited(kind, Supersede(rs, kind)) = {}
           /\ \A other \in Kinds \ {kind} :
                 Awaited(other, Supersede(rs, kind)) = Awaited(other, rs)
<1>1. rs \in SUBSET [ask : Asks, awaited : BOOLEAN]
  BY DEF Numbered
<1> DEFINE left == Supersede(rs, kind)
<1>2. /\ left \in SUBSET [ask : Asks, awaited : BOOLEAN]
      /\ Awaited(kind, left) = {}
      /\ \A other : other # kind => Awaited(other, left) = Awaited(other, rs)
  BY <1>1, SupersedeAwaited
<1> HIDE DEF left
<1>3. ASSUME NEW other \in Kinds, NEW r \in Awaited(other, left), NEW s \in Awaited(other, left)
      PROVE  r = s
  <2>1. other # kind
    BY <1>2, <1>3
  <2>2. Awaited(other, left) = Awaited(other, rs)
    BY <1>2, <2>1
  <2>3. r \in Awaited(other, rs) /\ s \in Awaited(other, rs)
    BY <1>3, <2>2
  <2> QED
    BY <2>3 DEF Numbered
<1>4. Numbered(left)
  BY <1>2, <1>3 DEF Numbered
<1> QED
  BY <1>2, <1>4 DEF left

\* A new request is the awaited one of its kind.
LEMMA AddNumbered ==
    ASSUME NEW rs, Numbered(rs), NEW ask \in Asks, Awaited(ask.kind, rs) = {}
    PROVE  LET new == [ask |-> ask, awaited |-> TRUE]
           IN  /\ Numbered(rs \cup {new})
               /\ Awaited(ask.kind, rs \cup {new}) = {new}
               /\ \A other \in Kinds \ {ask.kind} :
                     Awaited(other, rs \cup {new}) = Awaited(other, rs)
<1> DEFINE new == [ask |-> ask, awaited |-> TRUE]
<1>1. new \in [ask : Asks, awaited : BOOLEAN] /\ new.awaited /\ new.ask = ask
  OBVIOUS
<1> HIDE DEF new
<1>2. Awaited(ask.kind, rs \cup {new}) = {new}
  BY <1>1 DEF Awaited
<1>3. ASSUME NEW other \in Kinds \ {ask.kind}
      PROVE  Awaited(other, rs \cup {new}) = Awaited(other, rs)
  BY <1>1, <1>3 DEF Awaited
<1>4. Numbered(rs \cup {new})
  <2>1. ASSUME NEW kind \in Kinds, NEW r \in Awaited(kind, rs \cup {new}),
               NEW s \in Awaited(kind, rs \cup {new})
        PROVE  r = s
    BY <1>2, <1>3, <2>1 DEF Numbered
  <2> QED
    BY <1>1, <2>1 DEF Numbered
<1> QED
  BY <1>2, <1>3, <1>4 DEF new

LEMMA AskNumbered ==
    ASSUME NEW rs, Numbered(rs), NEW ask \in Asks
    PROVE  /\ Numbered(Ask(rs, ask))
           /\ Awaited(ask.kind, Ask(rs, ask)) = {[ask |-> ask, awaited |-> TRUE]}
           /\ \A other \in Kinds \ {ask.kind} :
                 Awaited(other, Ask(rs, ask)) = Awaited(other, rs)
<1>1. ask.kind \in Kinds
  BY AskKinds
<1> DEFINE left == Supersede(rs, ask.kind)
<1>2. /\ Numbered(left)
      /\ Awaited(ask.kind, left) = {}
      /\ \A other \in Kinds \ {ask.kind} : Awaited(other, left) = Awaited(other, rs)
  BY <1>1, SupersedeNumbered
<1>3. Ask(rs, ask) = left \cup {[ask |-> ask, awaited |-> TRUE]}
  BY DEF Ask
<1> DEFINE new == [ask |-> ask, awaited |-> TRUE]
<1> HIDE DEF left
<1>4. /\ Numbered(left \cup {new})
      /\ Awaited(ask.kind, left \cup {new}) = {new}
      /\ \A other \in Kinds \ {ask.kind} :
            Awaited(other, left \cup {new}) = Awaited(other, left)
  BY <1>2, AddNumbered
<1>5. Ask(rs, ask) = left \cup {new}
  BY <1>3
<1> HIDE DEF new
<1>6. \A other \in Kinds \ {ask.kind} : Awaited(other, Ask(rs, ask)) = Awaited(other, rs)
  BY <1>2, <1>4, <1>5
<1>7. Numbered(Ask(rs, ask)) /\ Awaited(ask.kind, Ask(rs, ask)) = {new}
  BY <1>4, <1>5
<1> QED
  BY <1>6, <1>7 DEF new

-----------------------------------------------------------------------------
(* The parts of the invariant, while their variables stay.                 *)

LEMMA SessionStays == SessionInv /\ UNCHANGED session => SessionInv'
BY DEF SessionInv, session

LEMMA TableStays == TableInv /\ UNCHANGED table => TableInv'
BY DEF TableInv, MarksAreRows, table

LEMMA InputStays == InputInv /\ UNCHANGED input => InputInv'
BY DEF InputInv, input

LEMMA PaneStays ==
    ASSUME PaneInv, UNCHANGED <<view, resOpen, detail, detailLoading>>,
           Awaited("detail", requests') = Awaited("detail", requests)
    PROVE  PaneInv'
BY DEF PaneInv, PaneOf

LEMMA LoadStays ==
    ASSUME LoadInv, loading' = loading,
           Awaited("list", requests') = Awaited("list", requests)
    PROVE  LoadInv'
BY DEF LoadInv

LEMMA AllStays == IInv /\ UNCHANGED vars => IInv'
<1> SUFFICES ASSUME IInv, UNCHANGED vars PROVE IInv'
  OBVIOUS
<1>1. UNCHANGED <<session, table, input, view, resOpen, detail, detailLoading, loading, requests>>
  BY DEF vars, session, table, input, pane
<1> QED
  BY <1>1, SessionStays, TableStays, InputStays, PaneStays, LoadStays DEF IInv

-----------------------------------------------------------------------------
(* What the pieces do that several handlers call.                          *)

LEMMA ClearsPane ==
    ASSUME NEW rs, Numbered(rs), ClearDetail(rs)
    PROVE  /\ Numbered(requests')
           /\ PaneInv'
           /\ Awaited("list", requests') = Awaited("list", rs)
<1>1. /\ resOpen' = FALSE /\ detail' = None /\ detailLoading' = FALSE
      /\ requests' = Supersede(rs, "detail")
  BY DEF ClearDetail, InFlight
<1>2. /\ Numbered(requests')
      /\ Awaited("detail", requests') = {}
      /\ Awaited("list", requests') = Awaited("list", rs)
  BY <1>1, SupersedeNumbered DEF Kinds
<1>3. PaneInv'
  BY <1>1, <1>2 DEF PaneInv, PaneOf
<1> QED
  BY <1>2, <1>3

LEMMA ShowsPane ==
    ASSUME Numbered(requests), NEW v \in Views, NEW n \in Names, NEW found \in BOOLEAN,
           view' = v, ShowDetail(v, n, found)
    PROVE  /\ Numbered(requests')
           /\ PaneInv'
           /\ Awaited("list", requests') = Awaited("list", requests)
<1>1. /\ resOpen' = TRUE /\ detailLoading' = TRUE
      /\ detail' = [view |-> v, name |-> n, found |-> found]
      /\ requests' = Ask(requests, DetailAsk(v, n))
  BY DEF ShowDetail, InFlight
<1>2. /\ Numbered(requests')
      /\ Awaited("detail", requests') = {[ask |-> DetailAsk(v, n), awaited |-> TRUE]}
      /\ Awaited("list", requests') = Awaited("list", requests)
  BY <1>1, AskOfDetail, AskNumbered DEF Kinds
<1>3. detail' \in Panes /\ detail' # None /\ detail.view' = v /\ detail.name' = n
  <2>1. detail' \in Panes /\ detail.view' = v /\ detail.name' = n
    BY <1>1 DEF Panes
  <2> QED
    BY <2>1, NoneAssumption
<1>4. \A r \in Awaited("detail", requests') : r.ask = DetailAsk(detail'.view, detail'.name)
  BY <1>2, <1>3
<1>5. Awaited("detail", requests') # {}
  BY <1>2
<1>6. PaneInv'
  BY <1>1, <1>3, <1>4, <1>5 DEF PaneInv, PaneOf
<1> QED
  BY <1>2, <1>6

LEMMA Switches ==
    ASSUME Numbered(requests), NEW v \in Views, NEW s \in Names \cup {None}, SwitchTo(v, s)
    PROVE  SessionInv' /\ Numbered(requests') /\ PaneInv' /\ LoadInv'
<1> DEFINE asked == Ask(requests, ListAsk(v))
<1>1. view' = v /\ selection' = s /\ loading' = TRUE /\ ClearDetail(asked)
  BY DEF SwitchTo
<1>2. Numbered(asked) /\ Awaited("list", asked) # {}
  <2>1. ListAsk(v) \in Asks /\ ListAsk(v).kind = "list"
    BY AskOfList
  <2>2. /\ Numbered(asked)
        /\ Awaited("list", asked) = {[ask |-> ListAsk(v), awaited |-> TRUE]}
    BY <2>1, AskNumbered
  <2> QED
    BY <2>2
<1> HIDE DEF asked
<1>3. /\ Numbered(requests') /\ PaneInv'
      /\ Awaited("list", requests') = Awaited("list", asked)
  BY <1>1, <1>2, ClearsPane
<1> QED
  BY <1>1, <1>2, <1>3 DEF SessionInv, LoadInv

LEMMA ActionStarts ==
    ASSUME Numbered(requests), NEW targets \in Targets, StartAction(targets)
    PROVE  /\ Numbered(requests')
           /\ Awaited("list", requests') = Awaited("list", requests)
           /\ Awaited("detail", requests') = Awaited("detail", requests)
<1> DEFINE left == requests \ Awaited("action", requests)
           ask  == ActionAsk(targets)
<1>1. requests' = left \cup {[ask |-> ask, awaited |-> TRUE]}
  BY DEF StartAction, InFlight
<1>2. /\ Numbered(left)
      /\ Awaited("action", left) = {}
      /\ Awaited("list", left) = Awaited("list", requests)
      /\ Awaited("detail", left) = Awaited("detail", requests)
  <2>1. Numbered(left)
    BY SubsetNumbered
  <2> QED
    BY <2>1 DEF Awaited
<1>3. ask \in Asks /\ ask.kind = "action"
  BY AskOfAction
<1> HIDE DEF left, ask
<1>4. /\ Numbered(left \cup {[ask |-> ask, awaited |-> TRUE]})
      /\ \A other \in Kinds \ {"action"} :
            Awaited(other, left \cup {[ask |-> ask, awaited |-> TRUE]}) = Awaited(other, left)
  BY <1>2, <1>3, AddNumbered
<1> QED
  BY <1>1, <1>2, <1>4 DEF Kinds

LEMMA TargetsAreTyped ==
    ASSUME SessionInv, PaneInv
    PROVE  OneTarget \in Targets /\ ChosenTargets \in Targets
<1>1. ActiveView \in Views
  <2>1. CASE resOpen
    BY <2>1 DEF ActiveView, PaneInv, PaneOf, Panes
  <2>2. CASE ~resOpen
    BY <2>2 DEF ActiveView, SessionInv
  <2> QED
    BY <2>1, <2>2
<1>2. OneTarget \in Targets
  BY <1>1 DEF OneTarget, Targets
<1>3. [view |-> view, several |-> TRUE] \in Targets
  BY DEF SessionInv, Targets
<1> QED
  BY <1>2, <1>3 DEF ChosenTargets

LEMMA AsksToConfirm ==
    ASSUME NEW targets \in Targets, AskToConfirm(targets)
    PROVE  InputInv' /\ UNCHANGED requests
BY NoneAssumption DEF AskToConfirm, InputInv

-----------------------------------------------------------------------------
(* The invariant is inductive.                                             *)

LEMMA InitIInv == Init => IInv
<1> SUFFICES ASSUME Init PROVE IInv
  OBVIOUS
<1>1. requests = {} /\ \A kind : Awaited(kind, requests) = {}
  BY DEF Init, Awaited
<1>2. Numbered(requests) /\ PaneInv /\ LoadInv
  BY <1>1 DEF Init, Numbered, PaneInv, PaneOf, LoadInv
<1>3. SessionInv /\ TableInv
  <2>1. PICK rows \in SUBSET Names : list = [view |-> view, rows |-> rows]
    BY DEF Init
  <2>2. list \in [view : Views, rows : SUBSET Names] /\ list.rows = rows
    BY <2>1 DEF Init
  <2>3. cursor \in list.rows \cup {None} /\ (cursor = None <=> list.rows = {})
    BY <2>2, NoneAssumption DEF Init
  <2> QED
    BY <2>2, <2>3 DEF Init, SessionInv, TableInv, MarksAreRows
<1>4. InputInv
  BY DEF Init, InputInv
<1> QED
  BY <1>2, <1>3, <1>4 DEF IInv

LEMMA KeyIInv == IInv /\ Key => IInv'
<1> SUFFICES ASSUME IInv, Key PROVE IInv'
  OBVIOUS
<1> USE DEF IInv
<1>1. CASE EnterCommand
  <2>1. UNCHANGED <<session, table, view, resOpen, detail, detailLoading, loading, requests>>
    BY <1>1 DEF EnterCommand, pane, session
  <2>2. InputInv'
    BY <1>1 DEF EnterCommand, InputInv
  <2> QED
    BY <2>1, <2>2, SessionStays, TableStays, PaneStays, LoadStays
<1>2. CASE Navigate
  <2>1. PICK v \in Views, s \in Names \cup {None} : SwitchTo(v, s)
    BY <1>2 DEF Navigate
  <2>2. UNCHANGED <<table, input>>
    BY <1>2 DEF Navigate
  <2> QED
    BY <2>1, <2>2, Switches, TableStays, InputStays
<1>3. CASE OpenDetail
  <2>1. UNCHANGED <<session, table, input, loading>> /\ view' = view
    BY <1>3 DEF OpenDetail, session
  <2>2. ShowDetail(view, cursor, FALSE) /\ view \in Views /\ cursor \in Names
    BY <1>3 DEF OpenDetail, SessionInv, TableInv
  <2>3. Numbered(requests') /\ PaneInv' /\ Awaited("list", requests') = Awaited("list", requests)
    BY <2>1, <2>2, ShowsPane
  <2> QED
    BY <2>1, <2>3, SessionStays, TableStays, InputStays, LoadStays
<1>4. CASE ReloadDetail
  <2>1. UNCHANGED <<session, table, input, loading>> /\ view' = view
    BY <1>4 DEF ReloadDetail, session
  <2>2. ShowDetail(view, detail.name, FALSE) /\ view \in Views /\ detail.name \in Names
    BY <1>4 DEF ReloadDetail, SessionInv, PaneInv, PaneOf, Panes
  <2>3. Numbered(requests') /\ PaneInv' /\ Awaited("list", requests') = Awaited("list", requests)
    BY <2>1, <2>2, ShowsPane
  <2> QED
    BY <2>1, <2>3, SessionStays, TableStays, InputStays, LoadStays
<1>5. CASE CloseDetail
  <2>1. UNCHANGED <<session, table, input, loading>> /\ ClearDetail(requests)
    BY <1>5 DEF CloseDetail
  <2>2. Numbered(requests') /\ PaneInv' /\ Awaited("list", requests') = Awaited("list", requests)
    BY <2>1, ClearsPane
  <2> QED
    BY <2>1, <2>2, SessionStays, TableStays, InputStays, LoadStays
<1>6. ASSUME NEW n \in Names, SetSelection(n) PROVE IInv'
  <2>1. UNCHANGED <<view, list, input, loading>> /\ cursor' = n /\ selection' = n /\ marked' = {}
        /\ n \in list.rows
    BY <1>6 DEF SetSelection
  <2>2. SessionInv' /\ TableInv'
    BY <2>1, NoneAssumption DEF SessionInv, TableInv, MarksAreRows
  <2>3. Numbered(requests') /\ PaneInv' /\ Awaited("list", requests') = Awaited("list", requests)
    <3>1. CASE ClearDetail(requests)
      BY <3>1, ClearsPane
    <3>2. CASE UNCHANGED <<pane, requests>>
      BY <2>1, <3>2, PaneStays DEF pane
    <3> QED
      BY <1>6, <3>1, <3>2 DEF SetSelection
  <2> QED
    BY <2>1, <2>2, <2>3, InputStays, LoadStays
<1>7. ASSUME NEW n \in Names, ExtendSelection(n) PROVE IInv'
  <2>1. UNCHANGED <<view, list, input, loading>> /\ cursor' = n /\ selection' = n
        /\ marked' \in SUBSET list.rows /\ n \in list.rows /\ ClearDetail(requests)
    BY <1>7 DEF ExtendSelection
  <2>2. SessionInv' /\ TableInv'
    BY <2>1, NoneAssumption DEF SessionInv, TableInv, MarksAreRows
  <2>3. Numbered(requests') /\ PaneInv' /\ Awaited("list", requests') = Awaited("list", requests)
    BY <2>1, ClearsPane
  <2> QED
    BY <2>1, <2>2, <2>3, InputStays, LoadStays
<1>8. CASE DeleteKey
  <2>1. UNCHANGED <<session, table, view, resOpen, detail, detailLoading, loading>>
        /\ AskToConfirm(ChosenTargets)
    BY <1>8 DEF DeleteKey, session, pane
  <2>2. InputInv' /\ UNCHANGED requests
    BY <2>1, TargetsAreTyped, AsksToConfirm
  <2> QED
    BY <2>1, <2>2, SessionStays, TableStays, PaneStays, LoadStays
<1>9. CASE Confirm
  <2>1. UNCHANGED <<session, table, view, resOpen, detail, detailLoading, loading>>
        /\ mode' = "normal" /\ popup' = None /\ StartAction(popup) /\ popup \in Targets
    BY <1>9 DEF Confirm, session, pane, InputInv
  <2>2. /\ Numbered(requests')
        /\ Awaited("list", requests') = Awaited("list", requests)
        /\ Awaited("detail", requests') = Awaited("detail", requests)
    BY <2>1, ActionStarts
  <2>3. InputInv'
    BY <2>1 DEF InputInv
  <2> QED
    BY <2>1, <2>2, <2>3, SessionStays, TableStays, PaneStays, LoadStays
<1>10. CASE Decline
  <2>1. UNCHANGED <<session, table, view, resOpen, detail, detailLoading, loading, requests>>
        /\ mode' = "normal" /\ popup' = None
    BY <1>10 DEF Decline, session, pane
  <2>2. InputInv'
    BY <2>1 DEF InputInv
  <2> QED
    BY <2>1, <2>2, SessionStays, TableStays, PaneStays, LoadStays
<1>11. ASSUME NEW v \in Views, NEW n \in Names, OpenElsewhere(v, n) PROVE IInv'
  <2>1. UNCHANGED <<table, popup, loading>> /\ view' = v /\ selection' = n /\ mode' = "normal"
        /\ ShowDetail(v, n, FALSE)
    BY <1>11 DEF OpenElsewhere
  <2>2. Numbered(requests') /\ PaneInv' /\ Awaited("list", requests') = Awaited("list", requests)
    BY <2>1, ShowsPane
  <2>3. SessionInv' /\ InputInv'
    BY <2>1 DEF SessionInv, InputInv
  <2> QED
    BY <2>1, <2>2, <2>3, TableStays, LoadStays
<1> QED
  BY <1>1, <1>2, <1>3, <1>4, <1>5, <1>6, <1>7, <1>8, <1>9, <1>10, <1>11 DEF Key

LEMMA DeletesIInv ==
    ASSUME IInv, NEW targets \in Targets, CommandDeletes(targets)
    PROVE  IInv'
<1> USE DEF IInv
<1>1. UNCHANGED <<session, table, view, resOpen, detail, detailLoading, loading>>
  BY DEF CommandDeletes, session, pane
<1>2. CASE AskToConfirm(targets)
  <2>1. InputInv' /\ UNCHANGED requests
    BY <1>2, AsksToConfirm
  <2> QED
    BY <1>1, <2>1, SessionStays, TableStays, PaneStays, LoadStays
<1>3. CASE StartAction(targets) /\ mode' = "normal" /\ UNCHANGED popup
  <2>1. /\ Numbered(requests')
        /\ Awaited("list", requests') = Awaited("list", requests)
        /\ Awaited("detail", requests') = Awaited("detail", requests)
    BY <1>3, ActionStarts
  <2>2. InputInv'
    BY <1>3 DEF InputInv
  <2> QED
    BY <1>1, <2>1, <2>2, SessionStays, TableStays, PaneStays, LoadStays
<1> QED
  BY <1>2, <1>3 DEF CommandDeletes

LEMMA CommandIInv == IInv /\ Command => IInv'
<1> SUFFICES ASSUME IInv, Command PROVE IInv'
  OBVIOUS
<1> USE DEF IInv
<1>1. CASE ExitCommand
  <2>1. UNCHANGED <<session, table, view, resOpen, detail, detailLoading, loading, requests>>
        /\ mode' = "normal" /\ UNCHANGED popup
    BY <1>1 DEF ExitCommand, pane, session
  <2>2. InputInv'
    BY <2>1 DEF InputInv
  <2> QED
    BY <2>1, <2>2, SessionStays, TableStays, PaneStays, LoadStays
<1>2. CASE CommandSwitches
  <2>1. PICK v \in Views : SwitchTo(v, None)
    BY <1>2 DEF CommandSwitches
  <2>2. UNCHANGED <<table, popup>> /\ mode' = "normal"
    BY <1>2 DEF CommandSwitches
  <2>3. InputInv'
    BY <2>2 DEF InputInv
  <2> QED
    BY <2>1, <2>2, <2>3, Switches, TableStays
<1>3. CASE CommandSetsFilter
  <2>1. UNCHANGED <<view, table, popup, loading>> /\ selection' = None /\ mode' = "normal"
        /\ ClearDetail(requests)
    BY <1>3 DEF CommandSetsFilter
  <2>2. Numbered(requests') /\ PaneInv' /\ Awaited("list", requests') = Awaited("list", requests)
    BY <2>1, ClearsPane
  <2>3. SessionInv' /\ InputInv'
    BY <2>1 DEF SessionInv, InputInv
  <2> QED
    BY <2>1, <2>2, <2>3, TableStays, LoadStays
<1>4. CASE CommandDeletesChosen \/ CommandDeletesNamed
  BY <1>4, TargetsAreTyped, DeletesIInv DEF CommandDeletesChosen, CommandDeletesNamed
<1>5. CASE CommandActs
  <2>1. UNCHANGED <<session, table, view, resOpen, detail, detailLoading, loading, popup>>
        /\ mode' = "normal"
    BY <1>5 DEF CommandActs, session, pane
  <2>2. PICK targets \in Targets : StartAction(targets)
    BY <1>5, TargetsAreTyped DEF CommandActs
  <2>3. /\ Numbered(requests')
        /\ Awaited("list", requests') = Awaited("list", requests)
        /\ Awaited("detail", requests') = Awaited("detail", requests)
    BY <2>2, ActionStarts
  <2>4. InputInv'
    BY <2>1 DEF InputInv
  <2> QED
    BY <2>1, <2>3, <2>4, SessionStays, TableStays, PaneStays, LoadStays
<1> QED
  BY <1>1, <1>2, <1>3, <1>4, <1>5 DEF Command

LEMMA PollTickIInv == IInv /\ PollTick => IInv'
<1> SUFFICES ASSUME IInv, PollTick PROVE IInv'
  OBVIOUS
<1> USE DEF IInv
<1>1. CASE PollsDetail
  <2>1. UNCHANGED <<session, table, input, loading>> /\ view' = view
    BY <1>1 DEF PollsDetail, session
  <2>2. ShowDetail(view, detail.name, detail.found) /\ view \in Views /\ detail.name \in Names
        /\ detail.found \in BOOLEAN
    BY <1>1 DEF PollsDetail, SessionInv, PaneInv, PaneOf, Panes
  <2>3. Numbered(requests') /\ PaneInv' /\ Awaited("list", requests') = Awaited("list", requests)
    BY <2>1, <2>2, ShowsPane
  <2> QED
    BY <2>1, <2>3, SessionStays, TableStays, InputStays, LoadStays
<1>2. CASE PollsList
  <2>1. UNCHANGED <<session, table, view, resOpen, detail, detailLoading, input>>
        /\ ~loading /\ loading' = loading /\ requests' = Ask(requests, ListAsk(view))
    BY <1>2 DEF PollsList, session, pane, InFlight
  <2>2. ListAsk(view) \in Asks /\ ListAsk(view).kind = "list"
    BY AskOfList DEF SessionInv
  <2>3. Numbered(requests') /\ Awaited("detail", requests') = Awaited("detail", requests)
    BY <2>1, <2>2, AskNumbered DEF Kinds
  <2>4. LoadInv'
    BY <2>1 DEF LoadInv
  <2> QED
    BY <2>1, <2>3, <2>4, SessionStays, TableStays, InputStays, PaneStays
<1> QED
  BY <1>1, <1>2 DEF PollTick

-----------------------------------------------------------------------------
(* Answers.                                                                *)

LEMMA ListLoadedIInv ==
    ASSUME IInv, NEW r, ListLoaded(r) PROVE IInv'
<1> USE DEF IInv
<1> DEFINE left == requests \ {r}
<1>1. r \in Awaited("list", requests) /\ loading' = FALSE /\ UNCHANGED <<view, input>>
  BY DEF ListLoaded
<1>2. /\ Numbered(left)
      /\ Awaited("detail", left) = Awaited("detail", requests)
  <2>1. "list" \in Kinds
    BY DEF Kinds
  <2>2. /\ Numbered(requests \ {r})
        /\ \A other \in Kinds \ {"list"} :
              Awaited(other, requests \ {r}) = Awaited(other, requests)
    BY <1>1, <2>1, RemoveAnswered
  <2> QED
    BY <2>2 DEF Kinds
<1>3. r.ask.view \in Views
  BY <1>1, AskKinds DEF Numbered, Awaited
<1>4. PICK rows \in SUBSET Names :
         /\ list' = [view |-> r.ask.view, rows |-> rows]
         /\ SelectFromSession(rows)
         /\ marked' = PruneMultiSelection(rows)
  BY DEF ListLoaded
<1>5. SyncDetailSelection(left)
  BY DEF ListLoaded
<1>6. /\ cursor' \in rows \cup {None} /\ (cursor' = None <=> rows = {})
      /\ selection' = cursor'
  BY <1>4, NoneAssumption DEF SelectFromSession
<1>7. marked' \in SUBSET rows
  BY <1>4 DEF PruneMultiSelection
<1>8. SessionInv' /\ TableInv'
  <2>1. list' \in [view : Views, rows : SUBSET Names] /\ list'.rows = rows
    BY <1>3, <1>4
  <2> QED
    BY <2>1, <1>1, <1>6, <1>7 DEF SessionInv, TableInv, MarksAreRows
<1>9. Numbered(requests') /\ PaneInv'
  <2> HIDE DEF left
  <2>1. CASE UNCHANGED pane /\ InFlight(left)
    <3>1. requests' = left /\ UNCHANGED <<view, resOpen, detail, detailLoading>>
      BY <1>1, <2>1 DEF InFlight, pane
    <3> QED
      BY <1>2, <3>1, PaneStays
  <2>2. CASE ClearDetail(left)
    BY <1>2, <2>2, ClearsPane
  <2> QED
    BY <1>5, <2>1, <2>2 DEF SyncDetailSelection
<1>10. LoadInv' /\ InputInv'
  BY <1>1, InputStays DEF LoadInv
<1> QED
  BY <1>8, <1>9, <1>10

LEMMA ListFailedIInv ==
    ASSUME IInv, NEW r, ListFailed(r) PROVE IInv'
<1> USE DEF IInv
<1>1. r \in Awaited("list", requests) /\ loading' = FALSE /\ requests' = requests \ {r}
      /\ UNCHANGED <<session, table, view, resOpen, detail, detailLoading, input>>
  BY DEF ListFailed, session, pane
<1>2. Numbered(requests') /\ Awaited("detail", requests') = Awaited("detail", requests)
  BY <1>1, RemoveAnswered DEF Kinds
<1>3. LoadInv'
  BY <1>1 DEF LoadInv
<1> QED
  BY <1>1, <1>2, <1>3, SessionStays, TableStays, InputStays, PaneStays

LEMMA DetailAnswerIInv ==
    ASSUME IInv, NEW r, DetailFailed(r) \/ \E found \in BOOLEAN : DetailLoaded(r, found)
    PROVE  IInv'
<1> USE DEF IInv
<1>1. r \in Awaited("detail", requests) /\ detailLoading' = FALSE /\ requests' = requests \ {r}
      /\ UNCHANGED <<session, table, view, resOpen, input, loading>>
  BY DEF DetailFailed, DetailLoaded, session
<1>2. /\ Numbered(requests')
      /\ Awaited("detail", requests') = {}
      /\ Awaited("list", requests') = Awaited("list", requests)
  BY <1>1, RemoveAnswered DEF Kinds
<1>3. resOpen /\ detail \in Panes /\ detail.view = view
      /\ r.ask = DetailAsk(detail.view, detail.name)
  BY <1>1 DEF PaneInv, PaneOf
<1>4. detail' \in Panes /\ detail'.view = view
  <2>1. CASE DetailFailed(r)
    BY <1>3, <2>1 DEF DetailFailed
  <2>2. ASSUME NEW found \in BOOLEAN, DetailLoaded(r, found)
        PROVE  detail' \in Panes /\ detail'.view = view
    <3>1. detail' = [view |-> r.ask.view, name |-> r.ask.name, found |-> found]
      BY <2>2 DEF DetailLoaded
    <3>2. r.ask.view = detail.view /\ r.ask.name = detail.name
      BY <1>3 DEF DetailAsk
    <3> QED
      BY <1>3, <3>1, <3>2 DEF Panes
  <2> QED
    BY <2>1, <2>2
<1>5. detail' # None
  BY <1>4, NoneAssumption
<1>6. PaneInv'
  BY <1>1, <1>2, <1>3, <1>4, <1>5 DEF PaneInv, PaneOf
<1> QED
  BY <1>1, <1>2, <1>6, SessionStays, TableStays, InputStays, LoadStays

LEMMA ActionAnswerIInv ==
    ASSUME IInv, NEW r, ActionLoaded(r) \/ ActionFailed(r) PROVE IInv'
<1> USE DEF IInv
<1> DEFINE left == requests \ {r}
<1>1. r \in Awaited("action", requests)
      /\ UNCHANGED <<session, list, cursor, view, resOpen, detail, detailLoading, input>>
  BY DEF ActionLoaded, ActionFailed, session, pane, table
<1>2. /\ Numbered(left)
      /\ Awaited("list", left) = Awaited("list", requests)
      /\ Awaited("detail", left) = Awaited("detail", requests)
  <2>1. "action" \in Kinds
    BY DEF Kinds
  <2>2. /\ Numbered(requests \ {r})
        /\ \A other \in Kinds \ {"action"} :
              Awaited(other, requests \ {r}) = Awaited(other, requests)
    BY <1>1, <2>1, RemoveAnswered
  <2> QED
    BY <2>2 DEF Kinds
<1>3. CASE ActionLoaded(r)
  <2>1. requests' = Ask(left, ListAsk(view)) /\ loading' = TRUE /\ marked' \in {{}, marked}
    BY <1>3 DEF ActionLoaded, InFlight
  <2>2. ListAsk(view) \in Asks /\ ListAsk(view).kind = "list"
    BY AskOfList DEF SessionInv
  <2> HIDE DEF left
  <2>3. /\ Numbered(requests')
        /\ Awaited("list", requests') = {[ask |-> ListAsk(view), awaited |-> TRUE]}
        /\ Awaited("detail", requests') = Awaited("detail", requests)
    BY <1>2, <2>1, <2>2, AskNumbered DEF Kinds
  <2>4. LoadInv'
    BY <2>1, <2>3 DEF LoadInv
  <2>5. TableInv'
    BY <1>1, <2>1 DEF TableInv, MarksAreRows
  <2> QED
    BY <1>1, <2>3, <2>4, <2>5, SessionStays, InputStays, PaneStays
<1>4. CASE ActionFailed(r)
  <2>1. requests' = left /\ UNCHANGED <<table, loading>>
    BY <1>4 DEF ActionFailed
  <2> HIDE DEF left
  <2> QED
    BY <1>1, <1>2, <2>1, SessionStays, TableStays, InputStays, PaneStays, LoadStays
<1> QED
  BY <1>3, <1>4

LEMMA AnswerIInv == IInv /\ Answer => IInv'
<1> SUFFICES ASSUME IInv, Answer PROVE IInv'
  OBVIOUS
<1>1. CASE LateAnswerDropped
  <2>1. PICK r \in Late(requests) : requests' = requests \ {r}
    BY <1>1 DEF LateAnswerDropped
  <2>2. \A kind : Awaited(kind, requests') = Awaited(kind, requests)
    BY <2>1 DEF Late, Awaited
  <2>3. Numbered(requests')
    BY <2>1, SubsetNumbered DEF IInv
  <2>4. UNCHANGED <<session, table, view, resOpen, detail, detailLoading, input, loading>>
    BY <1>1 DEF LateAnswerDropped, session, pane
  <2> QED
    BY <2>2, <2>3, <2>4, SessionStays, TableStays, InputStays, PaneStays, LoadStays DEF IInv
<1>2. ASSUME NEW r \in requests,
             \/ ListLoaded(r) \/ ListFailed(r)
             \/ \E found \in BOOLEAN : DetailLoaded(r, found)
             \/ DetailFailed(r) \/ ActionLoaded(r) \/ ActionFailed(r)
      PROVE  IInv'
  BY <1>2, ListLoadedIInv, ListFailedIInv, DetailAnswerIInv, ActionAnswerIInv
<1> QED
  BY <1>1, <1>2 DEF Answer

LEMMA NextIInv == IInv /\ [Next]_vars => IInv'
BY AllStays, KeyIInv, CommandIInv, PollTickIInv, AnswerIInv DEF Next

LEMMA Invariance == Spec => []IInv
<1> QED
  BY InitIInv, NextIInv, PTL DEF Spec

-----------------------------------------------------------------------------
(* Theorems.                                                               *)

\* Every reachable state is well typed, the delete confirmation has something
\* to delete, and at most one request of a kind is the latest (the sequence
\* numbers of startReload, startDetailReloadWithQuery and startAction).
THEOREM TypeCorrect == Spec => []TypeOK
BY Invariance, IInvTypes, PTL

\* No flag that holds back the poll ticker stays set without a request whose
\* answer resets it (the handlers of the Loaded and Failed messages).
THEOREM FlagsHaveRequestHolds == Spec => []FlagsHaveRequest
<1>1. IInv => FlagsHaveRequest
  BY DEF IInv, PaneInv, PaneOf, LoadInv, FlagsHaveRequest
<1> QED
  BY <1>1, Invariance, PTL

\* The pane and the answer that it awaits are of what was opened in the view
\* of the session (clearResourceDetail, detailLoadedMsg, switches of the view).
THEOREM PaneIsWhatWasOpenedHolds == Spec => []PaneIsWhatWasOpened
<1>1. IInv => PaneIsWhatWasOpened
  BY DEF IInv, PaneInv, PaneOf, PaneIsWhatWasOpened
<1> QED
  BY <1>1, Invariance, PTL

\* The cursor and the marks are rows of the list on the screen
\* (selectFromSession, pruneMultiSelection).
THEOREM MarksAreRowsHolds == Spec => []MarksAreRows
<1>1. IInv => MarksAreRows
  BY DEF IInv, TableInv
<1> QED
  BY <1>1, Invariance, PTL
=============================================================================
