------------------------ MODULE ResourceCacheProofs ------------------------
(* Theorems about ResourceCache, for every value of its constants. *)
EXTENDS ResourceCache, TLAPS

-----------------------------------------------------------------------------
(* Type correctness.                                                       *)

\* TypeOK is not inductive: OnError adds the key of its worker to lastErr,
\* so a worker that is at work must have one.
BusyWorkerHasKey == \A w \in Workers : keyOf[w] = NoKey <=> pc[w] = "idle"

LEMMA TypeInit == Init => TypeOK /\ BusyWorkerHasKey
<1> SUFFICES ASSUME Init PROVE TypeOK /\ BusyWorkerHasKey
  OBVIOUS
<1> USE ConstantsAssumption DEF Init
<1>1. 0 \in Times /\ 1 \in Times /\ 0 \in Versions /\ 1 \in Versions
  BY DEF Times, Versions
<1>2. reaper \in [pc : {"waiting", "sweeping", "cancelling", "exited"},
                  at : Times, cancels : SUBSET Workers]
  BY <1>1
<1>3. stopped \in BOOLEAN
  BY Zenon
<1>4. pc \in [Workers -> PCs]
  BY DEF PCs
<1> QED BY <1>1, <1>2, <1>3, <1>4 DEF TypeOK, BusyWorkerHasKey

\* Every step of the next-state relation, one step per action.
LEMMA TypeNext == TypeOK /\ BusyWorkerHasKey /\ [Next]_vars => TypeOK'
<1> SUFFICES ASSUME TypeOK, BusyWorkerHasKey, [Next]_vars PROVE TypeOK'
  OBVIOUS
<1> USE ConstantsAssumption DEF TypeOK
<1> DEFINE BusyKey == \A w \in Workers : pc[w] # "idle" => keyOf[w] \in Keys
<1>0. BusyKey
  BY DEF BusyWorkerHasKey
<1>1. CASE Tick
  BY <1>1 DEF Tick, Times, entryVars, workerVars
<1>2. CASE ClusterChanges
  BY <1>2 DEF ClusterChanges, Versions, entryVars, workerVars
<1>3. CASE Shutdown
  <2>1. stopped' \in BOOLEAN
    BY <1>3, Zenon DEF Shutdown
  <2> QED BY <1>3, <2>1 DEF Shutdown, entryVars, workerVars
<1>4. ASSUME NEW r \in Requests, NEW k \in Keys, Arrive(r, k) PROVE TypeOK'
  BY <1>4 DEF Arrive, entryVars, workerVars, envVars
<1>5. ASSUME NEW r \in Requests, Get(r) PROVE TypeOK'
  <2> DEFINE k  == request[r].key
             at == request[r].at
  <2>1. k \in Keys /\ at \in Times
    BY <1>5 DEF Get, IdleRequest
  <2>2. /\ lastAccess' = [lastAccess EXCEPT ![k] = at]
        /\ request' = [request EXCEPT ![r] = IdleRequest]
        /\ UNCHANGED <<items, lastSync, lastErr, cancelled, reaper, envVars>>
        /\ StartWatch(k) \/ StartRefresh(k, at) \/ ServeCached(k, at)
    BY <1>5 DEF Get, Lookup
  <2>3. CASE StartWatch(k)
    BY <2>1, <2>2, <2>3 DEF StartWatch, FreeWorkers, Start, PCs, WatchPCs, envVars
  <2>4. CASE StartRefresh(k, at)
    BY <2>1, <2>2, <2>4 DEF StartRefresh, FreeWorkers, Start, PCs, RefreshPCs, envVars
  <2>5. CASE ServeCached(k, at)
    BY <2>1, <2>2, <2>5 DEF ServeCached, workerVars, envVars
  <2> QED BY <2>2, <2>3, <2>4, <2>5
<1>6. ASSUME NEW w \in Workers, WatchStep(w) PROVE TypeOK'
  <2> USE DEF Goto, End, StoreSnapshot, StoreError, PCs, WatchPCs, entryVars, workerVars, envVars
  <2>1. CASE WatchLists(w)     BY <2>1 DEF WatchLists
  <2>2. CASE OnUpdate(w)       BY <1>0, <2>2 DEF OnUpdate, Versions
  <2>3. CASE OnError(w)        BY <1>0, <2>3 DEF OnError
  <2>4. CASE WatchReturns(w)   BY <2>4 DEF WatchReturns
  <2>5. CASE ReportFailure(w)  BY <1>0, <2>5 DEF ReportFailure
  <2>6. CASE RetryWatch(w)     BY <2>6 DEF RetryWatch
  <2>7. CASE QuitRetry(w)      BY <2>7 DEF QuitRetry
  <2>8. CASE MarkWatchStopped(w)
    BY <1>0, <2>8 DEF MarkWatchStopped, WatchEnds, Versions
  <2> QED BY <1>6, <2>1, <2>2, <2>3, <2>4, <2>5, <2>6, <2>7, <2>8 DEF WatchStep
<1>7. ASSUME NEW w \in Workers, RefreshStep(w) PROVE TypeOK'
  <2> USE DEF Goto, End, StoreSnapshot, PCs, RefreshPCs, entryVars, workerVars, envVars
  <2>1. CASE RefreshLists(w)   BY <2>1 DEF RefreshLists
  <2>2. CASE RefreshStores(w)  BY <1>0, <2>2 DEF RefreshStores, Versions
  <2>3. CASE RefreshFails(w)   BY <1>0, <2>3 DEF RefreshFails, Versions
  <2> QED BY <1>7, <2>1, <2>2, <2>3 DEF RefreshStep
<1>8. CASE ReaperTick
  BY <1>8 DEF ReaperTick, entryVars, workerVars, envVars
<1>9. CASE ReaperExits
  BY <1>9 DEF ReaperExits, Times, entryVars, workerVars, envVars
<1>10. CASE ReaperCollects
  BY <1>10 DEF ReaperCollects, Sweep, IdleKeys, AfterSweep, Times, workerVars, envVars
<1>11. ASSUME NEW w \in Workers, ReaperCancels(w) PROVE TypeOK'
  BY <1>11 DEF ReaperCancels, AfterSweep, Times, entryVars, workerVars, envVars
<1>12. CASE UNCHANGED vars
  BY <1>12 DEF vars, entryVars, workerVars, envVars
<1> QED
  BY <1>1, <1>2, <1>3, <1>4, <1>5, <1>6, <1>7, <1>8, <1>9, <1>10, <1>11, <1>12 DEF Next

LEMMA BusyNext == TypeOK /\ BusyWorkerHasKey /\ [Next]_vars => BusyWorkerHasKey'
<1> SUFFICES ASSUME TypeOK, BusyWorkerHasKey, [Next]_vars PROVE BusyWorkerHasKey'
  OBVIOUS
<1> USE ConstantsAssumption DEF BusyWorkerHasKey
<1>1. CASE UNCHANGED workerVars
  BY <1>1 DEF workerVars
<1>2. ASSUME NEW r \in Requests, Get(r) PROVE BusyWorkerHasKey'
  <2> DEFINE k  == request[r].key
             at == request[r].at
  <2>1. k \in Keys
    BY <1>2 DEF TypeOK, Get, IdleRequest
  <2>2. ASSUME NEW w \in Workers, NEW first \in WatchPCs \cup RefreshPCs, Start(w, k, first)
        PROVE  BusyWorkerHasKey'
    BY <2>1, <2>2 DEF TypeOK, Start, WatchPCs, RefreshPCs
  <2>3. CASE StartWatch(k)
    BY <2>2, <2>3 DEF StartWatch, FreeWorkers, WatchPCs
  <2>4. CASE StartRefresh(k, at)
    BY <2>2, <2>4 DEF StartRefresh, FreeWorkers, RefreshPCs
  <2>5. CASE ServeCached(k, at)
    BY <1>1, <2>5 DEF ServeCached
  <2> QED BY <1>2, <2>3, <2>4, <2>5 DEF Get, Lookup
<1>3. ASSUME NEW w \in Workers, NEW next \in PCs \ {"idle"},
             pc[w] # "idle", Goto(w, next), UNCHANGED keyOf
      PROVE  BusyWorkerHasKey'
  BY <1>3 DEF TypeOK, Goto
<1>4. ASSUME NEW w \in Workers, End(w) PROVE BusyWorkerHasKey'
  BY <1>4 DEF TypeOK, End, Goto
<1>5. ASSUME NEW w \in Workers, WatchStep(w) PROVE BusyWorkerHasKey'
  <2> USE DEF PCs, WatchPCs
  <2>1. CASE WatchLists(w)        BY <1>3, <2>1 DEF WatchLists
  <2>2. CASE OnUpdate(w)          BY <1>3, <2>2 DEF OnUpdate
  <2>3. CASE OnError(w)           BY <1>1, <2>3 DEF OnError
  <2>4. CASE WatchReturns(w)      BY <1>3, <2>4 DEF WatchReturns
  <2>5. CASE ReportFailure(w)     BY <1>3, <2>5 DEF ReportFailure
  <2>6. CASE RetryWatch(w)        BY <1>3, <2>6 DEF RetryWatch
  <2>7. CASE QuitRetry(w)         BY <1>3, <2>7 DEF QuitRetry
  <2>8. CASE MarkWatchStopped(w)  BY <1>4, <2>8 DEF MarkWatchStopped, WatchEnds
  <2> QED BY <1>5, <2>1, <2>2, <2>3, <2>4, <2>5, <2>6, <2>7, <2>8 DEF WatchStep
<1>6. ASSUME NEW w \in Workers, RefreshStep(w) PROVE BusyWorkerHasKey'
  <2> USE DEF PCs, RefreshPCs
  <2>1. CASE RefreshLists(w)   BY <1>3, <2>1 DEF RefreshLists
  <2>2. CASE RefreshStores(w)  BY <1>4, <2>2 DEF RefreshStores
  <2>3. CASE RefreshFails(w)   BY <1>4, <2>3 DEF RefreshFails
  <2> QED BY <1>6, <2>1, <2>2, <2>3 DEF RefreshStep
<1>7. ASSUME NEW r \in Requests, NEW k \in Keys, Arrive(r, k) PROVE UNCHANGED workerVars
  BY <1>7 DEF Arrive
<1>8. ASSUME NEW w \in Workers, ReaperCancels(w) PROVE UNCHANGED workerVars
  BY <1>8 DEF ReaperCancels
<1>9. Tick \/ ClusterChanges \/ Shutdown \/ ReaperTick \/ ReaperExits \/ ReaperCollects
      \/ UNCHANGED vars => UNCHANGED workerVars
  BY DEF Tick, ClusterChanges, Shutdown, ReaperTick, ReaperExits, ReaperCollects, Sweep, vars
<1> QED
  BY <1>1, <1>2, <1>5, <1>6, <1>7, <1>8, <1>9 DEF Next

\* The cache keeps its types.
THEOREM TypeCorrect == Spec => []TypeOK
BY TypeInit, TypeNext, BusyNext, PTL DEF Spec

-----------------------------------------------------------------------------
(***************************************************************************)
(* Ownership: who may fetch for a key, and who may stop it.  The invariant *)
(* needs, beyond the three properties, that watches and refreshes do not   *)
(* mix, that a refresh worker's key is still marked, and that the reaper   *)
(* holds cancel functions only between its two halves.                     *)
(***************************************************************************)
OneMode ==
    \A w \in Workers :
        /\ pc[w] \in WatchPCs => HasWatcher
        /\ pc[w] \in RefreshPCs => ~HasWatcher /\ keyOf[w] \in refreshing

ReaperHolds == reaper.pc # "cancelling" => reaper.cancels = {}

Ownership ==
    /\ OneFetcherPerKey
    /\ FlagsHaveOwner
    /\ WatchCanBeCancelled
    /\ OneMode
    /\ ReaperHolds

Typed == TypeOK /\ BusyWorkerHasKey

LEMMA OwnershipInit == Init => Ownership
<1> SUFFICES ASSUME Init PROVE Ownership
  OBVIOUS
<1>1. OneMode /\ WatchCanBeCancelled /\ FlagsHaveOwner
  BY DEF Init, OneMode, WatchCanBeCancelled, FlagsHaveOwner, WatchPCs, RefreshPCs
<1>2. OneFetcherPerKey /\ ReaperHolds
  BY DEF Init, OneFetcherPerKey, ReaperHolds
<1> QED BY <1>1, <1>2 DEF Ownership

\* A request starts a goroutine only for a key that has none: in watch mode
\* "watching" says so, in refresh mode "refreshing" does.
LEMMA OwnershipGet ==
    ASSUME Typed, Ownership, NEW r \in Requests, Get(r)
    PROVE  Ownership'
<1> DEFINE k  == request[r].key
           at == request[r].at
<1> USE ConstantsAssumption DEF Typed
<1>1. k \in Keys
  BY DEF TypeOK, Get, IdleRequest
<1>2. UNCHANGED <<cancelled, reaper>>
  BY DEF Get
<1>3. CASE StartWatch(k)
  <2>1. PICK w \in FreeWorkers :
          /\ Start(w, k, "watch")
          /\ watchCancel' = [watchCancel EXCEPT ![k] = w]
    BY <1>3 DEF StartWatch
  <2>2. /\ HasWatcher /\ k \notin watching
        /\ watching' = watching \cup {k}
        /\ refreshing' = refreshing \cup {k}
    BY <1>3 DEF StartWatch
  <2>3. w \in Workers /\ pc[w] = "idle"
    BY <2>1 DEF FreeWorkers
  <2>4. \A v \in Workers : keyOf[v] # k
    BY <1>1, <2>2 DEF Ownership, OneMode, FlagsHaveOwner, BusyWorkerHasKey, TypeOK, PCs
  <2>5. /\ pc' = [pc EXCEPT ![w] = "watch"]
        /\ keyOf' = [keyOf EXCEPT ![w] = k]
    BY <2>1 DEF Start
  <2>6. OneFetcherPerKey'
    BY <1>1, <2>3, <2>4, <2>5 DEF Ownership, OneFetcherPerKey, TypeOK
  <2>7. FlagsHaveOwner'
    BY <1>1, <2>2, <2>3, <2>4, <2>5
    DEF Ownership, FlagsHaveOwner, BusyWorkerHasKey, TypeOK, WatchPCs
  <2>8. WatchCanBeCancelled'
    BY <1>1, <1>2, <2>1, <2>3, <2>4, <2>5
    DEF Ownership, WatchCanBeCancelled, BusyWorkerHasKey, TypeOK, WatchPCs
  <2>9. OneMode'
    BY <1>1, <2>2, <2>3, <2>5 DEF Ownership, OneMode, TypeOK, WatchPCs, RefreshPCs
  <2> QED BY <1>2, <2>6, <2>7, <2>8, <2>9 DEF Ownership, ReaperHolds
<1>4. CASE StartRefresh(k, at)
  <2>1. PICK w \in FreeWorkers : Start(w, k, "list")
    BY <1>4 DEF StartRefresh
  <2>2. /\ ~HasWatcher /\ k \notin watching /\ k \notin refreshing
        /\ refreshing' = refreshing \cup {k}
        /\ UNCHANGED <<watching, watchCancel>>
    BY <1>4 DEF StartRefresh, ShouldRefresh
  <2>3. w \in Workers /\ pc[w] = "idle"
    BY <2>1 DEF FreeWorkers
  <2>4. \A v \in Workers : keyOf[v] # k
    BY <1>1, <2>2 DEF Ownership, OneMode, FlagsHaveOwner, BusyWorkerHasKey, TypeOK, PCs
  <2>5. /\ pc' = [pc EXCEPT ![w] = "list"]
        /\ keyOf' = [keyOf EXCEPT ![w] = k]
    BY <2>1 DEF Start
  <2>6. OneFetcherPerKey'
    BY <1>1, <2>3, <2>4, <2>5 DEF Ownership, OneFetcherPerKey, TypeOK
  <2>7. FlagsHaveOwner'
    BY <1>1, <2>2, <2>3, <2>4, <2>5
    DEF Ownership, FlagsHaveOwner, BusyWorkerHasKey, TypeOK, WatchPCs
  <2>8. WatchCanBeCancelled'
    BY <1>1, <1>2, <2>2, <2>3, <2>5 DEF Ownership, WatchCanBeCancelled, TypeOK, WatchPCs
  <2>9. OneMode'
    BY <1>1, <2>2, <2>3, <2>5 DEF Ownership, OneMode, TypeOK, WatchPCs, RefreshPCs
  <2> QED BY <1>2, <2>6, <2>7, <2>8, <2>9 DEF Ownership, ReaperHolds
<1>5. CASE ServeCached(k, at)
  BY <1>2, <1>5 DEF ServeCached, workerVars, Ownership, OneFetcherPerKey, FlagsHaveOwner,
                    WatchCanBeCancelled, OneMode, ReaperHolds
<1> QED BY <1>3, <1>4, <1>5 DEF Get, Lookup

\* A worker that goes on stays the owner it was; the flags move with it.
LEMMA OwnershipGoesOn ==
    ASSUME Typed, Ownership, NEW w \in Workers, NEW next \in WatchPCs,
           pc[w] \in WatchPCs, Goto(w, next),
           \/ UNCHANGED refreshing
           \/ refreshing' = refreshing \cup {keyOf[w]}
           \/ refreshing' = refreshing \ {keyOf[w]},
           UNCHANGED <<keyOf, watching, watchCancel, cancelled, reaper>>
    PROVE  Ownership'
<1> USE DEF Typed
<1>1. pc' = [pc EXCEPT ![w] = next] /\ UNCHANGED keyOf
  BY DEF Goto
<1>2. keyOf[w] \in Keys
  BY DEF BusyWorkerHasKey, TypeOK, WatchPCs
<1>3. OneFetcherPerKey'
  BY <1>1 DEF Ownership, OneFetcherPerKey
<1>4. FlagsHaveOwner'
  BY <1>1, <1>2 DEF Ownership, FlagsHaveOwner, TypeOK
<1>5. WatchCanBeCancelled'
  BY <1>1 DEF Ownership, WatchCanBeCancelled, TypeOK
<1>6. OneMode'
  BY <1>1 DEF Ownership, OneMode, TypeOK, WatchPCs, RefreshPCs
<1> QED BY <1>3, <1>4, <1>5, <1>6 DEF Ownership, ReaperHolds

\* markWatchStopped resets the entry of its key.  Because the key has no
\* second goroutine, what it resets is its own.
LEMMA OwnershipStop ==
    ASSUME Typed, Ownership, NEW w \in Workers, MarkWatchStopped(w)
    PROVE  Ownership'
<1> USE DEF Typed
<1>1. /\ pc[w] = "stopping"
      /\ pc' = [pc EXCEPT ![w] = "idle"]
      /\ keyOf' = [keyOf EXCEPT ![w] = NoKey]
      /\ refreshing' = refreshing \ {keyOf[w]}
      /\ watching' = watching \ {keyOf[w]}
      /\ watchCancel' = [watchCancel EXCEPT ![keyOf[w]] = NoWorker]
      /\ cancelled' = cancelled \ {w}
      /\ UNCHANGED reaper
  BY DEF MarkWatchStopped, WatchEnds, End, Goto
<1>2. keyOf[w] \in Keys /\ HasWatcher
  BY <1>1 DEF BusyWorkerHasKey, TypeOK, Ownership, OneMode, WatchPCs
<1>3. \A v \in Workers : v # w => keyOf[v] # keyOf[w]
  BY <1>2, ConstantsAssumption DEF Ownership, OneFetcherPerKey
<1>4. OneFetcherPerKey'
  BY <1>1 DEF Ownership, OneFetcherPerKey, TypeOK
<1>5. FlagsHaveOwner'
  BY <1>1, <1>2, <1>3, ConstantsAssumption DEF Ownership, FlagsHaveOwner, TypeOK, WatchPCs
<1>6. WatchCanBeCancelled'
  BY <1>1, <1>2, <1>3 DEF Ownership, WatchCanBeCancelled, BusyWorkerHasKey, TypeOK, WatchPCs
<1>7. OneMode'
  BY <1>1, <1>2 DEF Ownership, OneMode, TypeOK, WatchPCs, RefreshPCs
<1> QED BY <1>1, <1>4, <1>5, <1>6, <1>7 DEF Ownership, ReaperHolds

LEMMA OwnershipWatch ==
    ASSUME Typed, Ownership, NEW w \in Workers, WatchStep(w)
    PROVE  Ownership'
<1> USE OwnershipGoesOn DEF WatchPCs
<1>1. CASE WatchLists(w)     BY <1>1 DEF WatchLists, entryVars
<1>2. CASE OnUpdate(w)       BY <1>2 DEF OnUpdate, StoreSnapshot
<1>3. CASE OnError(w)
  <2>1. Goto(w, "watch")
    BY <1>3 DEF OnError, Goto, workerVars, Typed, TypeOK
  <2> QED BY <1>3, <2>1 DEF OnError, StoreError, workerVars
<1>4. CASE WatchReturns(w)   BY <1>4 DEF WatchReturns, entryVars
<1>5. CASE ReportFailure(w)  BY <1>5 DEF ReportFailure, StoreError
<1>6. CASE RetryWatch(w)     BY <1>6 DEF RetryWatch, entryVars
<1>7. CASE QuitRetry(w)      BY <1>7 DEF QuitRetry, entryVars
<1>8. CASE MarkWatchStopped(w)
  BY <1>8, OwnershipStop
<1> QED BY <1>1, <1>2, <1>3, <1>4, <1>5, <1>6, <1>7, <1>8 DEF WatchStep

LEMMA OwnershipRefresh ==
    ASSUME Typed, Ownership, NEW w \in Workers, RefreshStep(w)
    PROVE  Ownership'
<1> USE DEF Typed
<1>1. /\ pc[w] \in RefreshPCs
      /\ UNCHANGED <<watching, watchCancel, cancelled, reaper>>
  BY DEF RefreshStep, RefreshLists, RefreshStores, RefreshFails, StoreSnapshot, RefreshPCs,
         entryVars
<1>2. keyOf[w] \in Keys /\ ~HasWatcher
  BY <1>1 DEF BusyWorkerHasKey, TypeOK, Ownership, OneMode, RefreshPCs
<1>3. \A v \in Workers : pc[v] \notin WatchPCs
  BY <1>2 DEF Ownership, OneMode
<1>4. CASE RefreshLists(w)
  <2>1. pc' = [pc EXCEPT ![w] = "listed"] /\ UNCHANGED <<keyOf, refreshing>>
    BY <1>4 DEF RefreshLists, Goto, entryVars
  <2>2. OneFetcherPerKey'
    BY <2>1 DEF Ownership, OneFetcherPerKey
  <2>3. FlagsHaveOwner' /\ WatchCanBeCancelled' /\ OneMode'
    BY <1>1, <1>2, <1>3, <2>1
    DEF Ownership, FlagsHaveOwner, WatchCanBeCancelled, OneMode, TypeOK, WatchPCs, RefreshPCs
  <2> QED BY <1>1, <2>2, <2>3 DEF Ownership, ReaperHolds
<1>5. CASE RefreshStores(w) \/ RefreshFails(w)
  <2>1. /\ pc' = [pc EXCEPT ![w] = "idle"]
        /\ keyOf' = [keyOf EXCEPT ![w] = NoKey]
        /\ refreshing' = refreshing \ {keyOf[w]}
    BY <1>5 DEF RefreshStores, RefreshFails, StoreSnapshot, End, Goto
  <2>2. \A v \in Workers : v # w => keyOf[v] # keyOf[w]
    BY <1>2, ConstantsAssumption DEF Ownership, OneFetcherPerKey
  <2>3. OneFetcherPerKey'
    BY <2>1 DEF Ownership, OneFetcherPerKey, TypeOK
  <2>4. FlagsHaveOwner'
    BY <1>1, <1>2, <1>3, <2>1, <2>2, ConstantsAssumption
    DEF Ownership, FlagsHaveOwner, TypeOK, WatchPCs
  <2>5. WatchCanBeCancelled' /\ OneMode'
    BY <1>1, <1>2, <1>3, <2>1, <2>2
    DEF Ownership, WatchCanBeCancelled, OneMode, BusyWorkerHasKey, TypeOK, WatchPCs, RefreshPCs
  <2> QED BY <1>1, <2>3, <2>4, <2>5 DEF Ownership, ReaperHolds
<1> QED BY <1>4, <1>5 DEF RefreshStep

\* The first half of the sweep moves cancel functions from the entries to
\* the reaper, the second from the reaper to the contexts.
LEMMA OwnershipCollect ==
    ASSUME Typed, Ownership, ReaperCollects
    PROVE  Ownership'
<1> USE DEF Typed
<1>1. /\ refreshing' = refreshing \ IdleKeys
      /\ watchCancel' = [k \in Keys |-> IF k \in IdleKeys THEN NoWorker ELSE watchCancel[k]]
      /\ reaper' = AfterSweep({watchCancel[k] : k \in IdleKeys})
      /\ UNCHANGED <<watching, pc, keyOf, cancelled>>
      /\ reaper.pc = "sweeping"
  BY DEF ReaperCollects, Sweep, workerVars
<1>2. reaper.cancels = {} /\ reaper'.cancels = {watchCancel[k] : k \in IdleKeys}
  BY <1>1 DEF Ownership, ReaperHolds, AfterSweep
<1>3. OneFetcherPerKey'
  BY <1>1 DEF Ownership, OneFetcherPerKey
<1>4. FlagsHaveOwner'
  BY <1>1 DEF Ownership, FlagsHaveOwner
<1>5. WatchCanBeCancelled'
  <2> SUFFICES ASSUME NEW w \in Workers, pc[w] \in WatchPCs
               PROVE  \/ watchCancel'[keyOf[w]] = w \/ w \in reaper'.cancels \/ w \in cancelled
    BY <1>1 DEF WatchCanBeCancelled
  <2>1. keyOf[w] \in Keys
    BY DEF BusyWorkerHasKey, TypeOK, WatchPCs
  <2>2. watchCancel[keyOf[w]] = w \/ w \in cancelled
    BY <1>2 DEF Ownership, WatchCanBeCancelled
  <2>3. CASE keyOf[w] \in IdleKeys
    BY <1>2, <2>2, <2>3
  <2>4. CASE keyOf[w] \notin IdleKeys
    BY <1>1, <2>1, <2>2, <2>4
  <2> QED BY <2>3, <2>4
<1>6. OneMode'
  <2>1. IdleKeys # {} => HasWatcher
    BY DEF IdleKeys, Ownership, FlagsHaveOwner, OneMode, TypeOK
  <2> QED BY <1>1, <2>1 DEF Ownership, OneMode
<1>7. ReaperHolds'
  BY <1>1 DEF ReaperHolds, AfterSweep
<1> QED BY <1>3, <1>4, <1>5, <1>6, <1>7 DEF Ownership

LEMMA OwnershipCancel ==
    ASSUME Typed, Ownership, NEW w \in Workers, ReaperCancels(w)
    PROVE  Ownership'
<1>1. /\ cancelled' = IF pc[w] = "idle" THEN cancelled ELSE cancelled \cup {w}
      /\ reaper' = AfterSweep(reaper.cancels \ {w})
      /\ UNCHANGED <<refreshing, watching, watchCancel, pc, keyOf>>
  BY DEF ReaperCancels, entryVars, workerVars
<1>2. reaper'.cancels = reaper.cancels \ {w}
  BY <1>1 DEF AfterSweep
<1>3. OneFetcherPerKey' /\ FlagsHaveOwner' /\ OneMode'
  BY <1>1 DEF Ownership, OneFetcherPerKey, FlagsHaveOwner, OneMode
<1>4. WatchCanBeCancelled'
  BY <1>1, <1>2 DEF Ownership, WatchCanBeCancelled, WatchPCs
<1>5. ReaperHolds'
  BY <1>1 DEF ReaperHolds, AfterSweep
<1> QED BY <1>3, <1>4, <1>5 DEF Ownership

LEMMA OwnershipNext == Typed /\ Ownership /\ [Next]_vars => Ownership'
<1> SUFFICES ASSUME Typed, Ownership, [Next]_vars PROVE Ownership'
  OBVIOUS
<1> DEFINE Rest == <<refreshing, watching, watchCancel, pc, keyOf, cancelled>>
<1>1. ASSUME UNCHANGED Rest, ReaperHolds', reaper'.cancels = reaper.cancels PROVE Ownership'
  BY <1>1 DEF Ownership, OneFetcherPerKey, FlagsHaveOwner, WatchCanBeCancelled, OneMode
<1>2. CASE Tick \/ ClusterChanges \/ Shutdown \/ UNCHANGED vars
  BY <1>1, <1>2 DEF Tick, ClusterChanges, Shutdown, vars, entryVars, workerVars, Ownership,
                    ReaperHolds
<1>3. ASSUME NEW r \in Requests, NEW k \in Keys, Arrive(r, k) PROVE Ownership'
  BY <1>1, <1>3 DEF Arrive, entryVars, workerVars, Ownership, ReaperHolds
<1>4. CASE ReaperTick \/ ReaperExits
  BY <1>1, <1>4 DEF ReaperTick, ReaperExits, entryVars, workerVars, Ownership, ReaperHolds
<1> QED
  BY <1>2, <1>3, <1>4, OwnershipGet, OwnershipWatch, OwnershipRefresh, OwnershipCollect,
     OwnershipCancel
  DEF Next

\* A key never has two goroutines fetching for it, its flags have an owner
\* that will reset them, and no watch goroutine is beyond cancelling.
THEOREM OwnershipHolds == Spec => [](OneFetcherPerKey /\ FlagsHaveOwner /\ WatchCanBeCancelled)
<1>1. Init => Typed /\ Ownership
  BY TypeInit, OwnershipInit DEF Typed
<1>2. Typed /\ Ownership /\ [Next]_vars => Typed' /\ Ownership'
  BY TypeNext, BusyNext, OwnershipNext DEF Typed
<1>3. Ownership => OneFetcherPerKey /\ FlagsHaveOwner /\ WatchCanBeCancelled
  BY DEF Ownership
<1> QED BY <1>1, <1>2, <1>3, PTL DEF Spec

\* "watching" and "refreshing" have a goroutine that will reset them (Get,
\* watch, markWatchStopped, refresh).
THEOREM FlagsHaveOwnerHolds == Spec => []FlagsHaveOwner
BY OwnershipHolds, PTL

\* Every running watch can be cancelled, by its entry or by the reaper that has
\* collected it, or has been cancelled already (reapIdleWatches).
THEOREM WatchCanBeCancelledHolds == Spec => []WatchCanBeCancelled
BY OwnershipHolds, PTL

-----------------------------------------------------------------------------
(***************************************************************************)
(* The order of snapshots.  A snapshot on its way to the cache is at least *)
(* as new as the items it will replace, because nobody else replaces them  *)
(* in the meantime: OneFetcherPerKey.                                      *)
(***************************************************************************)
SnapshotOrder ==
    /\ cluster # 0
    /\ \A k \in Keys :
        /\ items[k] <= cluster
        /\ lastSync[k] # 0 => items[k] # 0
    /\ \A w \in Workers :
        /\ got[w] <= cluster
        /\ Carries(w) => got[w] # 0 /\ items[keyOf[w]] <= got[w]

IInv == Typed /\ Ownership /\ SnapshotOrder

LEMMA OrderInit == Init => SnapshotOrder
BY DEF Init, SnapshotOrder, Carries

\* A list answers with the cluster's present version.
LEMMA OrderLists ==
    ASSUME IInv, NEW w \in Workers, WatchLists(w) \/ RefreshLists(w)
    PROVE  SnapshotOrder'
<1>1. /\ got' = [got EXCEPT ![w] = cluster]
      /\ UNCHANGED <<items, lastSync, keyOf, cluster>>
      /\ \E next \in PCs : pc' = [pc EXCEPT ![w] = next]
  BY DEF WatchLists, RefreshLists, Goto, entryVars, envVars, PCs, WatchPCs, RefreshPCs
<1>2. keyOf[w] \in Keys
  BY DEF IInv, Typed, BusyWorkerHasKey, TypeOK, WatchLists, RefreshLists
<1> QED
  BY <1>1, <1>2 DEF IInv, Typed, TypeOK, SnapshotOrder, Carries, Versions

\* Storing a snapshot: the only step that changes a key's items.
LEMMA OrderStores ==
    ASSUME IInv, NEW w \in Workers, OnUpdate(w) \/ RefreshStores(w)
    PROVE  SnapshotOrder' /\ \A k \in Keys : items'[k] >= items[k]
<1> USE DEF IInv, Typed
<1>1. /\ Carries(w)
      /\ items' = [items EXCEPT ![keyOf[w]] = got[w]]
      /\ lastSync' = [lastSync EXCEPT ![keyOf[w]] = clock]
      /\ got' = [got EXCEPT ![w] = 0]
      /\ UNCHANGED cluster
  BY DEF OnUpdate, RefreshStores, StoreSnapshot, End, Goto, Carries, envVars
<1>2. keyOf[w] \in Keys
  BY DEF OnUpdate, RefreshStores, BusyWorkerHasKey, TypeOK
<1>3. \A v \in Workers : v # w => /\ keyOf[v] # keyOf[w]
                                  /\ keyOf'[v] = keyOf[v] /\ pc'[v] = pc[v]
  BY <1>2, ConstantsAssumption
  DEF OnUpdate, RefreshStores, End, Goto, Ownership, OneFetcherPerKey, TypeOK
<1>4. ~Carries(w)'
  BY DEF OnUpdate, RefreshStores, End, Goto, Carries, TypeOK
<1>5. \A k \in Keys : items'[k] >= items[k]
  BY <1>1, <1>2 DEF SnapshotOrder, TypeOK, Versions
<1>6. \A k \in Keys : items'[k] <= cluster' /\ (lastSync'[k] # 0 => items'[k] # 0)
  BY <1>1, <1>2 DEF SnapshotOrder, TypeOK
<1>7. \A v \in Workers : got'[v] <= cluster'
  BY <1>1 DEF SnapshotOrder, TypeOK, Versions
<1>8. \A v \in Workers : Carries(v)' => got'[v] # 0 /\ items'[keyOf'[v]] <= got'[v]
  <2> SUFFICES ASSUME NEW v \in Workers, Carries(v)'
               PROVE  got'[v] # 0 /\ items'[keyOf'[v]] <= got'[v]
    OBVIOUS
  <2>1. v # w
    BY <1>4
  <2>2. Carries(v) /\ got'[v] = got[v] /\ keyOf'[v] = keyOf[v] /\ keyOf[v] # keyOf[w]
    BY <1>1, <1>3, <2>1 DEF Carries, TypeOK
  <2>3. keyOf[v] \in Keys
    BY <2>2 DEF Carries, BusyWorkerHasKey, TypeOK
  <2> QED BY <1>1, <2>2, <2>3 DEF SnapshotOrder, TypeOK
<1> QED BY <1>1, <1>5, <1>6, <1>7, <1>8 DEF SnapshotOrder

\* Every other step leaves the items alone and puts no snapshot in flight.
LEMMA OrderRest ==
    ASSUME IInv, UNCHANGED <<items, lastSync>>, cluster' >= cluster, cluster' \in Nat,
           \A w \in Workers : /\ got'[w] = got[w] \/ got'[w] = 0
                              /\ Carries(w)' => /\ Carries(w)
                                                /\ keyOf'[w] = keyOf[w] /\ got'[w] = got[w]
    PROVE  SnapshotOrder'
BY DEF IInv, Typed, TypeOK, SnapshotOrder, Versions

LEMMA OrderNext ==
    ASSUME IInv, [Next]_vars
    PROVE  SnapshotOrder' /\ \A k \in Keys : items'[k] >= items[k]
<1> USE DEF IInv, Typed
<1>1. cluster \in Nat /\ \A k \in Keys : items[k] \in Nat
  BY DEF TypeOK, Versions
<1>2. ASSUME UNCHANGED <<items, lastSync, cluster>>, UNCHANGED workerVars
      PROVE  SnapshotOrder' /\ \A k \in Keys : items'[k] >= items[k]
  BY <1>1, <1>2, OrderRest DEF workerVars, Carries
<1>3. ASSUME UNCHANGED <<items, lastSync, cluster>>, NEW w \in Workers,
             NEW next \in PCs \ {"deliver", "listed"}, pc' = [pc EXCEPT ![w] = next],
             UNCHANGED <<keyOf, got>>
      PROVE  SnapshotOrder' /\ \A k \in Keys : items'[k] >= items[k]
  <2>1. \A v \in Workers : Carries(v)' => Carries(v)
    BY <1>3 DEF Carries, TypeOK
  <2> QED BY <1>1, <1>3, <2>1, OrderRest
<1>4. ASSUME UNCHANGED <<items, lastSync, cluster>>, NEW w \in Workers, End(w)
      PROVE  SnapshotOrder' /\ \A k \in Keys : items'[k] >= items[k]
  <2>1. \A v \in Workers : /\ got'[v] = got[v] \/ got'[v] = 0
                           /\ Carries(v)' => Carries(v) /\ keyOf'[v] = keyOf[v] /\ got'[v] = got[v]
    BY <1>4 DEF End, Goto, Carries, TypeOK
  <2> QED BY <1>1, <1>4, <2>1, OrderRest
<1>5. CASE ClusterChanges
  BY <1>1, <1>5, OrderRest DEF ClusterChanges, entryVars, workerVars, Carries
<1>6. ASSUME NEW r \in Requests, Get(r)
      PROVE  SnapshotOrder' /\ \A k \in Keys : items'[k] >= items[k]
  <2>1. UNCHANGED <<items, lastSync, cluster>>
    BY <1>6 DEF Get, Lookup, envVars
  <2>2. UNCHANGED workerVars \/ \E w \in FreeWorkers, first \in {"watch", "list"} :
                                    Start(w, request[r].key, first)
    BY <1>6 DEF Get, Lookup, StartWatch, StartRefresh, ServeCached
  <2>3. ASSUME NEW w \in FreeWorkers, NEW first \in {"watch", "list"},
               Start(w, request[r].key, first)
        PROVE  \A v \in Workers : /\ got'[v] = got[v]
                                  /\ Carries(v)' => Carries(v) /\ keyOf'[v] = keyOf[v]
    BY <2>3 DEF Start, FreeWorkers, Carries, TypeOK
  <2> QED BY <1>1, <1>2, <2>1, <2>2, <2>3, OrderRest
<1>7. ASSUME NEW w \in Workers, WatchStep(w)
      PROVE  SnapshotOrder' /\ \A k \in Keys : items'[k] >= items[k]
  <2> USE DEF PCs, WatchPCs
  <2>1. CASE WatchLists(w)
    <3>1. SnapshotOrder'
      BY <2>1, OrderLists
    <3>2. UNCHANGED items
      BY <2>1 DEF WatchLists, entryVars
    <3> QED BY <1>1, <3>1, <3>2
  <2>2. CASE OnUpdate(w)
    BY <2>2, OrderStores
  <2>3. CASE OnError(w)
    BY <1>2, <2>3 DEF OnError, StoreError, envVars
  <2>4. CASE WatchReturns(w) \/ RetryWatch(w) \/ QuitRetry(w)
    BY <1>3, <2>4 DEF WatchReturns, RetryWatch, QuitRetry, Goto, entryVars, envVars
  <2>5. CASE ReportFailure(w)
    BY <1>3, <2>5 DEF ReportFailure, StoreError, Goto, envVars
  <2>6. CASE MarkWatchStopped(w)
    BY <1>4, <2>6 DEF MarkWatchStopped, WatchEnds, envVars
  <2> QED BY <1>7, <2>1, <2>2, <2>3, <2>4, <2>5, <2>6 DEF WatchStep
<1>8. ASSUME NEW w \in Workers, RefreshStep(w)
      PROVE  SnapshotOrder' /\ \A k \in Keys : items'[k] >= items[k]
  <2>1. CASE RefreshLists(w)
    <3>1. SnapshotOrder'
      BY <2>1, OrderLists
    <3>2. UNCHANGED items
      BY <2>1 DEF RefreshLists, entryVars
    <3> QED BY <1>1, <3>1, <3>2
  <2>2. CASE RefreshStores(w)
    BY <2>2, OrderStores
  <2>3. CASE RefreshFails(w)
    BY <1>4, <2>3 DEF RefreshFails, envVars
  <2> QED BY <1>8, <2>1, <2>2, <2>3 DEF RefreshStep
<1>9. ASSUME NEW r \in Requests, NEW k \in Keys, Arrive(r, k)
      PROVE  SnapshotOrder' /\ \A j \in Keys : items'[j] >= items[j]
  BY <1>2, <1>9 DEF Arrive, entryVars, envVars
<1>10. ASSUME NEW w \in Workers, ReaperCancels(w)
       PROVE  SnapshotOrder' /\ \A j \in Keys : items'[j] >= items[j]
  BY <1>2, <1>10 DEF ReaperCancels, entryVars, envVars
<1>11. CASE Tick \/ Shutdown \/ ReaperTick \/ ReaperExits \/ ReaperCollects \/ UNCHANGED vars
  BY <1>2, <1>11 DEF Tick, Shutdown, ReaperTick, ReaperExits, ReaperCollects, Sweep, vars,
                     entryVars, envVars
<1> QED
  BY <1>5, <1>6, <1>7, <1>8, <1>9, <1>10, <1>11 DEF Next

\* The conjunction that every step preserves.
LEMMA Inductive ==
    /\ Init => IInv
    /\ IInv /\ [Next]_vars => IInv'
<1>1. Init => IInv
  BY TypeInit, OwnershipInit, OrderInit DEF IInv, Typed
<1>2. IInv /\ [Next]_vars => IInv'
  BY TypeNext, BusyNext, OwnershipNext, OrderNext DEF IInv, Typed
<1> QED BY <1>1, <1>2

\* The items of a key never go back to an older state of the cluster.
THEOREM ItemsNeverRegressHolds == Spec => ItemsNeverRegress
<1>1. IInv /\ [Next]_vars => [\A k \in Keys : items'[k] >= items[k]]_vars
  BY OrderNext
<1> QED BY <1>1, Inductive, PTL DEF Spec, ItemsNeverRegress

-----------------------------------------------------------------------------
(* What a view shows.                                                      *)

LEMMA ErrorClearedNext ==
    ASSUME IInv, [Next]_vars, NEW k \in Keys, k \in lastErr, k \notin lastErr'
    PROVE  /\ lastSync'[k] = clock
           /\ \E w \in Workers : keyOf[w] = k /\ Carries(w) /\ items'[k] = got[w]
<1>1. \E w \in Workers : OnUpdate(w) \/ RefreshStores(w)
  <2>1. ASSUME NEW r \in Requests, Get(r) PROVE UNCHANGED lastErr
    BY <2>1 DEF Get, Lookup
  <2>2. ASSUME NEW r \in Requests, NEW j \in Keys, Arrive(r, j) PROVE UNCHANGED lastErr
    BY <2>2 DEF Arrive, entryVars
  <2>3. ASSUME NEW w \in Workers, WatchStep(w), ~OnUpdate(w) PROVE lastErr \subseteq lastErr'
    BY <2>3 DEF WatchStep, WatchLists, OnError, StoreError, WatchReturns, ReportFailure,
                RetryWatch, QuitRetry, MarkWatchStopped, entryVars
  <2>4. ASSUME NEW w \in Workers, RefreshStep(w), ~RefreshStores(w)
        PROVE  lastErr \subseteq lastErr'
    BY <2>4 DEF RefreshStep, RefreshLists, RefreshFails, entryVars
  <2>5. ASSUME NEW w \in Workers, ReaperCancels(w) PROVE UNCHANGED lastErr
    BY <2>5 DEF ReaperCancels, entryVars
  <2>6. Tick \/ ClusterChanges \/ Shutdown \/ ReaperTick \/ ReaperExits \/ ReaperCollects
        \/ UNCHANGED vars => UNCHANGED lastErr
    BY DEF Tick, ClusterChanges, Shutdown, ReaperTick, ReaperExits, ReaperCollects, Sweep,
           vars, entryVars
  <2> QED BY <2>1, <2>2, <2>3, <2>4, <2>5, <2>6 DEF Next
<1>2. PICK w \in Workers : OnUpdate(w) \/ RefreshStores(w)
  BY <1>1
<1>3. /\ Carries(w)
      /\ lastErr' = lastErr \ {keyOf[w]}
      /\ lastSync' = [lastSync EXCEPT ![keyOf[w]] = clock]
      /\ items' = [items EXCEPT ![keyOf[w]] = got[w]]
  BY <1>2 DEF OnUpdate, RefreshStores, StoreSnapshot, Carries
<1> QED BY <1>3 DEF IInv, Typed, TypeOK

\* An error stays visible until a newer answer of the cluster replaces it.
THEOREM ErrorClearedOnlyBySnapshotHolds == Spec => ErrorClearedOnlyBySnapshot
<1>1. IInv /\ [Next]_vars =>
        [\A k \in Keys :
           k \in lastErr /\ k \notin lastErr' =>
              /\ lastSync'[k] = clock
              /\ \E w \in Workers : /\ keyOf[w] = k
                                    /\ pc[w] \in {"deliver", "listed"}
                                    /\ items'[k] = got[w]]_vars
  BY ErrorClearedNext DEF Carries
<1> QED BY <1>1, Inductive, PTL DEF Spec, ErrorClearedOnlyBySnapshot

\* A LIVE reply means a healthy watch, an age within the threshold and items.
THEOREM LiveIsHealthyAndRecentHolds == Spec => []LiveIsHealthyAndRecent
<1>1. IInv => LiveIsHealthyAndRecent
  <2> SUFFICES ASSUME IInv, NEW r \in Requests, request[r] # IdleRequest,
                      Freshness(request[r].key, request[r].at, FALSE).state = "LIVE"
               PROVE  LET f == Freshness(request[r].key, request[r].at, FALSE)
                      IN  /\ f.healthy /\ ~f.error /\ f.age < StaleAfter
                          /\ items[request[r].key] # 0
    BY DEF LiveIsHealthyAndRecent
  <2> DEFINE k  == request[r].key
             at == request[r].at
  <2>1. k \in Keys /\ at \in Times
    BY DEF IInv, Typed, TypeOK
  <2>2. lastSync[k] # 0
    BY DEF Freshness, ColdState
  <2>3. SnapshotState(k, at) = "LIVE"
    BY <2>2 DEF Freshness
  <2>4. k \notin refreshing /\ k \notin lastErr /\ ~(at - lastSync[k] >= StaleAfter)
    BY <2>3 DEF SnapshotState
  <2>5. items[k] # 0
    BY <2>1, <2>2 DEF IInv, SnapshotOrder
  <2>6. at - lastSync[k] < StaleAfter
    BY <2>1, <2>4, ConstantsAssumption DEF IInv, Typed, TypeOK, Times
  <2> QED BY <2>2, <2>4, <2>5, <2>6 DEF Freshness
<1> QED BY <1>1, Inductive, PTL DEF Spec

-----------------------------------------------------------------------------
(***************************************************************************)
(* The refinement.  The snapshot that is under way for a key is that of    *)
(* its one goroutine, so it appears when that goroutine has listed and is  *)
(* gone when it has stored; no other step of any goroutine touches it.     *)
(***************************************************************************)
UnderwayTells ==
    \A k \in Keys :
        /\ \A w \in Workers : keyOf[w] = k /\ Carries(w) => Underway(k) = got[w]
        /\ (\A w \in Workers : keyOf[w] = k => ~Carries(w)) => Underway(k) = 0

LEMMA UnderwayIsOwners == IInv => UnderwayTells
<1> SUFFICES ASSUME IInv, NEW k \in Keys
             PROVE  /\ \A w \in Workers : keyOf[w] = k /\ Carries(w) => Underway(k) = got[w]
                    /\ (\A w \in Workers : keyOf[w] = k => ~Carries(w)) => Underway(k) = 0
  BY DEF UnderwayTells
<1> DEFINE carriers == {w \in Workers : keyOf[w] = k /\ Carries(w)}
<1>1. ASSUME NEW w \in Workers, keyOf[w] = k, Carries(w) PROVE Underway(k) = got[w]
  <2>1. w \in carriers
    BY <1>1
  <2>2. \A v \in carriers : v = w
    BY <1>1, ConstantsAssumption DEF IInv, Ownership, OneFetcherPerKey
  <2>3. (CHOOSE v \in carriers : TRUE) = w
    BY <2>1, <2>2
  <2> QED
    BY <2>1, <2>3 DEF Underway
<1>2. ASSUME \A w \in Workers : keyOf[w] = k => ~Carries(w) PROVE Underway(k) = 0
  BY <1>2 DEF Underway
<1> QED
  BY <1>1, <1>2

LEMMA UnderwayNext == IInv /\ [Next]_vars => UnderwayTells /\ UnderwayTells'
BY UnderwayIsOwners, Inductive, PTL

\* What is under way for a key stays as it is while nobody takes or stores.
LEMMA UnderwayStays ==
    ASSUME UnderwayTells, UnderwayTells',
           \A w \in Workers : /\ Carries(w)' <=> Carries(w)
                              /\ Carries(w) => keyOf'[w] = keyOf[w] /\ got'[w] = got[w]
    PROVE  \A k \in Keys : Underway(k)' = Underway(k)
<1> SUFFICES ASSUME NEW k \in Keys PROVE Underway(k)' = Underway(k)
  OBVIOUS
<1>1. CASE \E w \in Workers : keyOf[w] = k /\ Carries(w)
  BY <1>1 DEF UnderwayTells
<1>2. CASE \A w \in Workers : keyOf[w] = k => ~Carries(w)
  BY <1>2 DEF UnderwayTells
<1> QED
  BY <1>1, <1>2

\* A list is answered: the snapshot of the key appears.
LEMMA ListsTakes ==
    ASSUME IInv, UnderwayTells, UnderwayTells', NEW w \in Workers,
           WatchLists(w) \/ RefreshLists(w)
    PROVE  View!Take(keyOf[w])
<1> DEFINE k == keyOf[w]
<1>1. /\ k \in Keys
      /\ ~Carries(w) /\ Carries(w)'
      /\ got' = [got EXCEPT ![w] = cluster]
      /\ UNCHANGED <<items, lastSync, lastErr, keyOf, cluster, clock>>
      /\ \A v \in Workers : v # w => pc'[v] = pc[v]
  BY DEF WatchLists, RefreshLists, Goto, entryVars, envVars, IInv, Typed, TypeOK,
         BusyWorkerHasKey, Carries
<1>2. \A v \in Workers : v # w => keyOf[v] # k
  BY <1>1, ConstantsAssumption DEF IInv, Ownership, OneFetcherPerKey
<1>3. Underway(k) = 0
  BY <1>1, <1>2 DEF UnderwayTells
<1>4. Underway(k)' = cluster
  <2>1. got'[w] = cluster /\ keyOf'[w] = k
    BY <1>1 DEF IInv, Typed, TypeOK
  <2> QED
    BY <1>1, <2>1 DEF UnderwayTells
<1>5. ASSUME NEW j \in Keys, j # k PROVE Underway(j)' = Underway(j)
  <2>1. \A v \in Workers : keyOf[v] = j => v # w /\ (Carries(v)' <=> Carries(v))
                                           /\ got'[v] = got[v] /\ keyOf'[v] = j
    BY <1>1, <1>5 DEF Carries, IInv, Typed, TypeOK
  <2>2. CASE \E v \in Workers : keyOf[v] = j /\ Carries(v)
    BY <2>1, <2>2 DEF UnderwayTells
  <2>3. CASE \A v \in Workers : keyOf[v] = j => ~Carries(v)
    BY <1>1, <2>1, <2>3 DEF UnderwayTells
  <2> QED
    BY <2>2, <2>3
<1> QED
  BY <1>1, <1>3, <1>4, <1>5 DEF View!Take

\* A snapshot is stored: it is up, and nothing is under way for the key.
LEMMA StoresPutsUp ==
    ASSUME IInv, UnderwayTells, UnderwayTells', NEW w \in Workers,
           OnUpdate(w) \/ RefreshStores(w)
    PROVE  View!PutUp(keyOf[w])
<1>0. PICK k \in Keys : k = keyOf[w]
  BY DEF OnUpdate, RefreshStores, IInv, Typed, TypeOK, BusyWorkerHasKey
<1>1. /\ Carries(w) /\ ~Carries(w)'
      /\ items' = [items EXCEPT ![k] = got[w]]
      /\ lastSync' = [lastSync EXCEPT ![k] = clock]
      /\ lastErr' = lastErr \ {k}
      /\ UNCHANGED <<cluster, clock>>
      /\ \A v \in Workers : v # w => /\ pc'[v] = pc[v] /\ keyOf'[v] = keyOf[v]
                                      /\ got'[v] = got[v]
      /\ keyOf'[w] \in {k, NoKey}
  BY <1>0 DEF OnUpdate, RefreshStores, StoreSnapshot, End, Goto, envVars, IInv, Typed, TypeOK,
              BusyWorkerHasKey, Carries
<1>2. \A v \in Workers : v # w => keyOf[v] # k
  BY <1>0, <1>1, ConstantsAssumption DEF IInv, Ownership, OneFetcherPerKey
<1>3. Underway(k) = got[w] /\ got[w] # 0
  BY <1>0, <1>1 DEF UnderwayTells, IInv, SnapshotOrder
<1>4. Underway(k)' = 0
  BY <1>1, <1>2 DEF UnderwayTells
<1>5. ASSUME NEW j \in Keys, j # k PROVE Underway(j)' = Underway(j)
  <2>1. \A v \in Workers : keyOf[v] = j \/ keyOf'[v] = j =>
            /\ v # w /\ (Carries(v)' <=> Carries(v))
            /\ got'[v] = got[v] /\ keyOf'[v] = keyOf[v]
    BY <1>0, <1>1, <1>5, ConstantsAssumption DEF Carries
  <2>2. CASE \E v \in Workers : keyOf[v] = j /\ Carries(v)
    BY <2>1, <2>2 DEF UnderwayTells
  <2>3. CASE \A v \in Workers : keyOf[v] = j => ~Carries(v)
    BY <2>1, <2>3 DEF UnderwayTells
  <2> QED
    BY <2>2, <2>3
<1> QED
  BY <1>0, <1>1, <1>3, <1>4, <1>5 DEF View!PutUp

\* An error is recorded by a goroutine that carries no snapshot.
LEMMA ErrorsFail ==
    ASSUME IInv, UnderwayTells, UnderwayTells', NEW w \in Workers,
           OnError(w) \/ ReportFailure(w) \/ RefreshFails(w)
    PROVE  View!Fails(keyOf[w])
<1> DEFINE k == keyOf[w]
<1>1. /\ k \in Keys
      /\ ~Carries(w) /\ ~Carries(w)'
      /\ lastErr' = lastErr \cup {k}
      /\ UNCHANGED <<items, lastSync, cluster, clock>>
      /\ \A v \in Workers : v # w => /\ pc'[v] = pc[v] /\ keyOf'[v] = keyOf[v]
                                      /\ got'[v] = got[v]
  BY DEF OnError, ReportFailure, RefreshFails, StoreError, End, Goto, workerVars, envVars,
         IInv, Typed, TypeOK, BusyWorkerHasKey, Carries
<1>2. \A v \in Workers : v # w => keyOf[v] # k
  BY <1>1, ConstantsAssumption DEF IInv, Ownership, OneFetcherPerKey
<1>3. Underway(k) = 0
  BY <1>1, <1>2 DEF UnderwayTells
<1>4. \A j \in Keys : Underway(j)' = Underway(j)
  <2>1. \A v \in Workers : /\ Carries(v)' <=> Carries(v)
                           /\ Carries(v) => keyOf'[v] = keyOf[v] /\ got'[v] = got[v]
    BY <1>1 DEF Carries
  <2> QED
    BY <2>1, UnderwayStays
<1> QED
  BY <1>1, <1>3, <1>4 DEF View!Fails

\* Every other step is time, a change of the cluster, or invisible.
LEMMA RestIsUnseen ==
    ASSUME IInv, UnderwayTells, UnderwayTells',
           UNCHANGED <<items, lastSync, lastErr>>,
           \A w \in Workers : /\ Carries(w)' <=> Carries(w)
                              /\ Carries(w) => keyOf'[w] = keyOf[w] /\ got'[w] = got[w],
           \/ UNCHANGED <<cluster, clock>>
           \/ cluster' = cluster + 1 /\ UNCHANGED clock
           \/ clock' = clock + 1 /\ UNCHANGED cluster
    PROVE  View!Changes \/ View!Passes \/ UNCHANGED View!vars
<1>1. \A k \in Keys : Underway(k)' = Underway(k)
  BY UnderwayStays
<1> QED
  BY <1>1 DEF View!Changes, View!Passes, View!vars

LEMMA ViewNext ==
    ASSUME IInv, [Next]_vars, UnderwayTells, UnderwayTells'
    PROVE  [View!Next]_(View!vars)
<1> DEFINE Seen == View!Changes \/ View!Passes \/ UNCHANGED View!vars
<1>0. Seen => [View!Next]_(View!vars)
  BY DEF View!Next
<1>1. ASSUME UNCHANGED workerVars, UNCHANGED <<items, lastSync, lastErr, cluster, clock>>
      PROVE  Seen
  <2>1. \A w \in Workers : /\ Carries(w)' <=> Carries(w)
                           /\ keyOf'[w] = keyOf[w] /\ got'[w] = got[w]
    BY <1>1 DEF workerVars, Carries
  <2> QED
    BY <1>1, <2>1, RestIsUnseen
<1>2. CASE Tick \/ ClusterChanges
  <2>1. \A w \in Workers : /\ Carries(w)' <=> Carries(w)
                           /\ keyOf'[w] = keyOf[w] /\ got'[w] = got[w]
    BY <1>2 DEF Tick, ClusterChanges, workerVars, Carries
  <2> QED
    BY <1>0, <1>2, <2>1, RestIsUnseen DEF Tick, ClusterChanges, entryVars
<1>3. ASSUME NEW r \in Requests, Get(r) PROVE Seen
  <2>1. UNCHANGED <<items, lastSync, lastErr, cluster, clock>>
    BY <1>3 DEF Get, Lookup, envVars
  <2>2. UNCHANGED workerVars \/ \E w \in FreeWorkers, first \in {"watch", "list"} :
                                    Start(w, request[r].key, first)
    BY <1>3 DEF Get, Lookup, StartWatch, StartRefresh, ServeCached
  <2>3. ASSUME NEW w \in FreeWorkers, NEW first \in {"watch", "list"},
               Start(w, request[r].key, first)
        PROVE  \A v \in Workers : /\ Carries(v)' <=> Carries(v)
                                  /\ Carries(v) => keyOf'[v] = keyOf[v] /\ got'[v] = got[v]
    BY <2>3 DEF Start, FreeWorkers, Carries, IInv, Typed, TypeOK
  <2>4. CASE UNCHANGED workerVars
    BY <1>1, <2>1, <2>4
  <2>5. CASE \E w \in FreeWorkers, first \in {"watch", "list"} : Start(w, request[r].key, first)
    BY <2>1, <2>3, <2>5, RestIsUnseen
  <2> QED
    BY <2>2, <2>4, <2>5
<1>4. ASSUME NEW w \in Workers,
             \/ WatchReturns(w) \/ RetryWatch(w) \/ QuitRetry(w) \/ MarkWatchStopped(w)
      PROVE  Seen
  <2>1. /\ ~Carries(w) /\ ~Carries(w)'
        /\ \A v \in Workers : v # w => /\ pc'[v] = pc[v] /\ keyOf'[v] = keyOf[v]
                                        /\ got'[v] = got[v]
        /\ UNCHANGED <<items, lastSync, lastErr, cluster, clock>>
    BY <1>4 DEF WatchReturns, RetryWatch, QuitRetry, MarkWatchStopped, WatchEnds, End, Goto,
                entryVars, envVars, IInv, Typed, TypeOK, Carries
  <2>2. \A v \in Workers : /\ Carries(v)' <=> Carries(v)
                           /\ Carries(v) => keyOf'[v] = keyOf[v] /\ got'[v] = got[v]
    BY <2>1 DEF Carries
  <2> QED
    BY <2>1, <2>2, RestIsUnseen
<1>5. ASSUME NEW w \in Workers, WatchStep(w) \/ RefreshStep(w)
      PROVE  Seen \/ \E k \in Keys : View!Take(k) \/ View!PutUp(k) \/ View!Fails(k)
  <2>1. CASE WatchReturns(w) \/ RetryWatch(w) \/ QuitRetry(w) \/ MarkWatchStopped(w)
    BY <1>4, <2>1
  <2>2. CASE \/ WatchLists(w) \/ RefreshLists(w) \/ OnUpdate(w) \/ RefreshStores(w)
             \/ OnError(w) \/ ReportFailure(w) \/ RefreshFails(w)
    <3>1. keyOf[w] \in Keys
      BY <2>2 DEF WatchLists, RefreshLists, OnUpdate, RefreshStores, OnError, ReportFailure,
                  RefreshFails, IInv, Typed, TypeOK, BusyWorkerHasKey
    <3> QED
      BY <2>2, <3>1, ListsTakes, StoresPutsUp, ErrorsFail
  <2> QED
    BY <1>5, <2>1, <2>2 DEF WatchStep, RefreshStep
<1>6. ASSUME NEW r \in Requests, NEW k \in Keys, Arrive(r, k) PROVE Seen
  BY <1>1, <1>6 DEF Arrive, entryVars, envVars
<1>7. ASSUME NEW w \in Workers, ReaperCancels(w) PROVE Seen
  BY <1>1, <1>7 DEF ReaperCancels, entryVars, envVars
<1>8. CASE Shutdown \/ ReaperTick \/ ReaperExits \/ ReaperCollects \/ UNCHANGED vars
  BY <1>0, <1>1, <1>8 DEF Shutdown, ReaperTick, ReaperExits, ReaperCollects, Sweep, vars,
                          entryVars, envVars
<1> QED
  BY <1>0, <1>2, <1>3, <1>5, <1>6, <1>7, <1>8 DEF Next, View!Next

LEMMA ViewInit == Init => View!Init
<1> SUFFICES ASSUME Init PROVE View!Init
  OBVIOUS
<1>1. \A k \in Keys : Underway(k) = 0
  BY DEF Init, Underway, Carries
<1> QED
  BY <1>1 DEF Init, View!Init

\* The cache implements SnapshotView: the goroutines that come and go for a key
\* are, seen from outside, one reader that takes the cluster's state, puts it
\* up, and only then takes the next.
THEOREM IsSnapshotViewHolds == Spec => IsSnapshotView
<1>1. IInv /\ [Next]_vars => [View!Next]_(View!vars)
  BY ViewNext, UnderwayNext
<1> QED
  BY <1>1, ViewInit, Inductive, PTL DEF Spec, IsSnapshotView, View!Spec

=============================================================================
