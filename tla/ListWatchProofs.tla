-------------------------- MODULE ListWatchProofs --------------------------
(* Theorems about ListWatch, for every number of changes of the cluster. *)
EXTENDS ListWatch, TLAPS

(***************************************************************************)
(* The invariant behind MissedChangeIsReported.  An answered list carries  *)
(* the version it will resume from; an answer to an event is at least as   *)
(* new as the event; and an open stream has delivered nothing that is      *)
(* neither in the view nor reported.                                       *)
(***************************************************************************)
Bounded ==
    /\ cluster # 0
    /\ rv <= cluster
    /\ items <= cluster
    /\ fetched <= cluster
    /\ loop \in {"stream", "event"} => sent <= cluster

InFlight ==
    fetched # 0 =>
        /\ loop \in Sites
        /\ rv = fetched
        /\ loop = "event" => sent <= fetched

StreamIsCovered == loop = "stream" => sent <= items \/ lastErr

IInv == TypeOK /\ Bounded /\ InFlight /\ StreamIsCovered /\ MissedChangeIsReported

LEMMA InitIInv == Init => IInv
<1> SUFFICES ASSUME Init PROVE IInv
  OBVIOUS
<1>1. lastErr \in BOOLEAN /\ ctxDone \in BOOLEAN
  BY Zenon DEF Init
<1>2. TypeOK
  BY <1>1, MaxVersionAssumption DEF Init, TypeOK, Versions, Places, Sites
<1> QED
  BY <1>2 DEF Init, IInv, Bounded, InFlight, StreamIsCovered, MissedChangeIsReported

LEMMA TypeNext == IInv /\ [Next]_vars => TypeOK'
<1> SUFFICES ASSUME IInv, [Next]_vars PROVE TypeOK'
  OBVIOUS
<1> USE DEF IInv, TypeOK
<1>1. loop' \in Places
  BY DEF Next, vars, Places, Sites, ClusterChanges, CancelWatch, ListAnswered, OnUpdate,
         AfterList, ListFails, FirstListFails, RelistFails, RelistFailsTo, OpenStream,
         OpenRefused, Event, Bookmark, StreamEnds, WaitEnds, LoopReturns, ReportFailure,
         WatchAgain, QuitRetry
<1>2. lastErr' \in BOOLEAN
  BY Zenon
  DEF Next, vars, entryVars, ClusterChanges, CancelWatch, ListAnswered, OnUpdate, ListFails,
      FirstListFails, RelistFails, RelistFailsTo, OpenStream, OpenRefused, Event, Bookmark,
      StreamEnds, WaitEnds, LoopReturns, ReportFailure, WatchAgain, QuitRetry
<1>3. ctxDone' \in BOOLEAN
  BY Zenon
  DEF Next, vars, ClusterChanges, CancelWatch, ListAnswered, OnUpdate, ListFails,
      FirstListFails, RelistFails, RelistFailsTo, OpenStream, OpenRefused, Event, Bookmark,
      StreamEnds, WaitEnds, LoopReturns, ReportFailure, WatchAgain, QuitRetry
<1>4. /\ fetched' \in Versions /\ rv' \in Versions /\ sent' \in Versions
      /\ items' \in Versions /\ cluster' \in Versions
  BY MaxVersionAssumption
  DEF Bounded, Versions, Next, vars, entryVars, ClusterChanges, CancelWatch, ListAnswered,
      OnUpdate, ListFails, FirstListFails, RelistFails, RelistFailsTo, OpenStream,
      OpenRefused, Event, Bookmark, StreamEnds, WaitEnds, LoopReturns, ReportFailure,
      WatchAgain, QuitRetry
<1> QED BY <1>1, <1>2, <1>3, <1>4

\* What the other conjuncts of IInv say, step by step.
LEMMA OrderNext ==
    ASSUME IInv, [Next]_vars
    PROVE  (Bounded /\ InFlight /\ StreamIsCovered /\ MissedChangeIsReported)'
<1> USE DEF IInv, TypeOK, Bounded, InFlight, StreamIsCovered, MissedChangeIsReported, Versions
<1>1. CASE ClusterChanges      BY <1>1 DEF ClusterChanges, entryVars
<1>2. CASE CancelWatch         BY <1>2 DEF CancelWatch, entryVars
<1>3. CASE ListAnswered        BY <1>3 DEF ListAnswered, Sites, entryVars
<1>4. CASE OnUpdate            BY <1>4 DEF OnUpdate, AfterList, Sites
<1>5. CASE FirstListFails      BY <1>5 DEF FirstListFails, entryVars
<1>6. CASE RelistFails         BY <1>6 DEF RelistFails, RelistFailsTo
<1>7. CASE OpenStream          BY <1>7 DEF OpenStream, Sites, entryVars
<1>8. CASE OpenRefused         BY <1>8 DEF OpenRefused, Sites, entryVars
<1>9. CASE Event               BY <1>9 DEF Event, Sites, entryVars
<1>10. CASE Bookmark           BY <1>10 DEF Bookmark, Sites, entryVars
<1>11. CASE StreamEnds         BY <1>11 DEF StreamEnds, Sites, entryVars
<1>12. CASE WaitEnds           BY <1>12 DEF WaitEnds, Sites, entryVars
<1>13. CASE LoopReturns        BY <1>13 DEF LoopReturns, Sites, entryVars
<1>14. CASE ReportFailure      BY <1>14 DEF ReportFailure, Sites
<1>15. CASE WatchAgain         BY <1>15 DEF WatchAgain, Sites, entryVars
<1>16. CASE QuitRetry          BY <1>16 DEF QuitRetry, Sites, entryVars
<1>17. CASE UNCHANGED vars     BY <1>17 DEF vars, entryVars
<1> QED
  BY <1>1, <1>2, <1>3, <1>4, <1>5, <1>6, <1>7, <1>8, <1>9, <1>10, <1>11, <1>12, <1>13,
     <1>14, <1>15, <1>16, <1>17 DEF Next, ListFails

\* A consumed change that is not in the view has left its error there.
THEOREM MissedChangeIsReportedHolds == Spec => []MissedChangeIsReported
<1>1. IInv /\ [Next]_vars => IInv'
  BY TypeNext, OrderNext DEF IInv
<1>2. IInv => MissedChangeIsReported
  BY DEF IInv
<1> QED BY InitIInv, <1>1, <1>2, PTL DEF Spec

\* The state is well typed.
THEOREM TypeCorrect == Spec => []TypeOK
<1>1. IInv /\ [Next]_vars => IInv'
  BY TypeNext, OrderNext DEF IInv
<1>2. IInv => TypeOK
  BY DEF IInv
<1> QED BY InitIInv, <1>1, <1>2, PTL DEF Spec

-----------------------------------------------------------------------------
(* The refinement: what the cache sees of each step.                       *)

LEMMA SingleExcept ==
    ASSUME NEW x, NEW a, NEW b
    PROVE  [[k \in {x} |-> a] EXCEPT ![x] = b] = [k \in {x} |-> b]
OBVIOUS

LEMMA Seen ==
    ASSUME IInv, [Next]_vars
    PROVE  [RC!WatchStep("worker") \/ RC!ClusterChanges \/ RC!Shutdown]_(RC!vars)
<1> USE DEF RC!vars, RC!entryVars, RC!workerVars, RC!envVars
<1>0. /\ fetched # 0 => loop \in Sites
      /\ cluster # 0
  BY DEF IInv, InFlight, Bounded
<1>1. CASE ClusterChanges
  <2>1. RC!ClusterChanges
    BY <1>1 DEF ClusterChanges, entryVars, RC!ClusterChanges
  <2> QED BY <2>1
<1>2. CASE CancelWatch
  <2>1. RC!Shutdown
    BY <1>2 DEF CancelWatch, entryVars, RC!Shutdown
  <2> QED BY <2>1
<1>3. CASE ListAnswered
  <2>1. RC!WatchLists("worker")
    BY <1>0, <1>3, SingleExcept
    DEF ListAnswered, entryVars, Sites, RC!WatchLists, RC!Goto, RC!Done
  <2> QED BY <2>1 DEF RC!WatchStep
<1>4. CASE OnUpdate
  <2>1. RC!OnUpdate("worker")
    BY <1>0, <1>4, SingleExcept
    DEF OnUpdate, AfterList, Sites, RC!OnUpdate, RC!StoreSnapshot, RC!Goto
  <2> QED BY <2>1 DEF RC!WatchStep
<1>5. CASE FirstListFails
  <2>1. RC!WatchReturns("worker")
    BY <1>0, <1>5, SingleExcept
    DEF FirstListFails, entryVars, RC!WatchReturns, RC!Goto, RC!Done
  <2> QED BY <2>1 DEF RC!WatchStep
<1>6. CASE RelistFails
  <2>1. RC!OnError("worker")
    BY <1>0, <1>6
    DEF RelistFails, RelistFailsTo, RC!OnError, RC!StoreError
  <2> QED BY <2>1 DEF RC!WatchStep
<1>7. CASE OpenStream \/ OpenRefused \/ Event \/ Bookmark \/ StreamEnds \/ WaitEnds
  <2>1. UNCHANGED RC!vars
    BY <1>0, <1>7
    DEF OpenStream, OpenRefused, Event, Bookmark, StreamEnds, WaitEnds, entryVars, Sites
  <2> QED BY <2>1
<1>8. CASE LoopReturns
  <2>1. RC!WatchReturns("worker")
    BY <1>0, <1>8, SingleExcept
    DEF LoopReturns, entryVars, Sites, RC!WatchReturns, RC!Goto, RC!Done
  <2> QED BY <2>1 DEF RC!WatchStep
<1>9. CASE ReportFailure
  <2>1. RC!ReportFailure("worker")
    BY <1>0, <1>9, SingleExcept
    DEF ReportFailure, RC!ReportFailure, RC!StoreError, RC!Goto
  <2> QED BY <2>1 DEF RC!WatchStep
<1>10. CASE WatchAgain
  <2>1. RC!RetryWatch("worker")
    BY <1>0, <1>10, SingleExcept
    DEF WatchAgain, entryVars, Sites, RC!RetryWatch, RC!Goto
  <2> QED BY <2>1 DEF RC!WatchStep
<1>11. CASE QuitRetry
  <2>1. RC!QuitRetry("worker")
    BY <1>0, <1>11, SingleExcept
    DEF QuitRetry, entryVars, Sites, RC!QuitRetry, RC!Goto, RC!Done
  <2> QED BY <2>1 DEF RC!WatchStep
<1>12. CASE UNCHANGED vars
  <2>1. UNCHANGED RC!vars
    BY <1>12 DEF vars, entryVars
  <2> QED BY <2>1
<1> QED
  BY <1>1, <1>2, <1>3, <1>4, <1>5, <1>6, <1>7, <1>8, <1>9, <1>10, <1>11, <1>12
  DEF Next, ListFails

\* Every step of the loop is one that ResourceCache allows a watch worker, or
\* none as the cache sees it: the cache's module leaves out no loop behaviour.
THEOREM IsWatchWorkerHolds == Spec => IsWatchWorker
<1>1. IInv /\ [Next]_vars => IInv'
  BY TypeNext, OrderNext DEF IInv
<1>2. IInv /\ [Next]_vars
      => [RC!WatchStep("worker") \/ RC!ClusterChanges \/ RC!Shutdown]_(RC!vars)
  BY Seen
<1> QED BY InitIInv, <1>1, <1>2, PTL DEF Spec, IsWatchWorker

-----------------------------------------------------------------------------
(* The same loop against the promise of the cache.                         *)

LEMMA ViewInit == Init => View!Init
BY DEF Init, View!Init

LEMMA ViewNext ==
    ASSUME IInv, [Next]_vars
    PROVE  [View!Next]_(View!vars)
<1> USE DEF View!vars
<1>0. fetched # 0 => loop \in Sites
  BY DEF IInv, InFlight
<1>1. CASE ClusterChanges
  <2>1. View!Changes
    BY <1>1 DEF ClusterChanges, entryVars, View!Changes
  <2> QED BY <2>1 DEF View!Next
<1>2. CASE ListAnswered
  <2>1. View!Take("key")
    BY <1>2, SingleExcept DEF ListAnswered, entryVars, View!Take
  <2> QED BY <2>1 DEF View!Next
<1>3. CASE OnUpdate
  <2>1. View!PutUp("key")
    BY <1>3, SingleExcept DEF OnUpdate, View!PutUp
  <2> QED BY <2>1 DEF View!Next
<1>4. CASE RelistFails \/ ReportFailure
  <2>1. View!Fails("key")
    BY <1>0, <1>4 DEF RelistFails, RelistFailsTo, ReportFailure, Sites, View!Fails
  <2> QED BY <2>1 DEF View!Next
<1>5. CASE \/ CancelWatch \/ FirstListFails
           \/ OpenStream \/ OpenRefused \/ Event \/ Bookmark \/ StreamEnds \/ WaitEnds
           \/ LoopReturns \/ WatchAgain \/ QuitRetry \/ UNCHANGED vars
  <2>1. UNCHANGED <<items, lastErr, fetched, cluster>>
    BY <1>5
    DEF CancelWatch, FirstListFails, OpenStream, OpenRefused, Event, Bookmark, StreamEnds,
        WaitEnds, LoopReturns, WatchAgain, QuitRetry, entryVars, vars
  <2> QED BY <2>1
<1> QED
  BY <1>1, <1>2, <1>3, <1>4, <1>5 DEF Next, ListFails

\* The loop puts up what it lists, one list after the other, and reports the
\* failures in between: none of its ways to list is an exception.
THEOREM IsSnapshotViewHolds == Spec => IsSnapshotView
<1>1. IInv /\ [Next]_vars => IInv'
  BY TypeNext, OrderNext DEF IInv
<1>2. IInv /\ [Next]_vars => [View!Next]_(View!vars)
  BY ViewNext
<1> QED
  BY <1>1, <1>2, InitIInv, ViewInit, PTL DEF Spec, IsSnapshotView, View!Spec

=============================================================================
