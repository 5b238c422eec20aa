---------------------------- MODULE ResourceCache ----------------------------
(***************************************************************************)
(* The daemon's resource cache, src/internal/cache/resources/cache.go.     *)
(*                                                                         *)
(* Requests (Get, GetDetail), the goroutines they start (watch, refresh)   *)
(* and the idle-watch reaper share one map of entries under one mutex.  A  *)
(* critical section is one action.  What happens outside the mutex is a    *)
(* step of its own: reading the clock before locking, listing from the     *)
(* cluster, calling the cancel functions the reaper has collected.         *)
(*                                                                         *)
(* A snapshot of the cluster is abstracted to the cluster's version number *)
(* at the moment it was listed; 0 is "no items yet".  Time is an integer   *)
(* clock; 0 is the zero time.Time.                                         *)
(***************************************************************************)
EXTENDS Integers, FiniteSets

CONSTANTS
    Keys,             \* cache keys: context, namespace, resource, filter
    Workers,          \* goroutine slots for watch and refresh
    Requests,         \* connection handlers that call Get or GetDetail
    NoKey, NoWorker,  \* the absent values
    HasWatcher,       \* does the fetcher implement Watcher (New, line 77)
    RefreshInterval, StaleAfter, WatchIdleAfter,
    MaxNow,           \* bound on the clock
    MaxVersion        \* bound on the cluster's changes

ASSUME ConstantsAssumption ==
    /\ NoKey \notin Keys
    /\ NoWorker \notin Workers
    /\ HasWatcher \in BOOLEAN
    /\ {RefreshInterval, StaleAfter, WatchIdleAfter} \subseteq Nat
    /\ {MaxNow, MaxVersion} \subseteq Nat \ {0}

VARIABLES
    \* The map of entries, one variable per field of cacheEntry.  A flag is
    \* the set of keys that have it; a key without an entry has zero fields.
    items, lastSync, lastAccess,
    refreshing, watching,
    lastErr,      \* the keys whose lastErr is not the empty string
    watchCancel,  \* the worker whose context this cancel function ends
    \* The goroutines started by Get and GetDetail.
    pc, keyOf, got,
    cancelled,    \* workers whose own watch context has been cancelled
    request,      \* requests between reading the clock and taking the lock
    reaper,       \* the goroutine of reapIdleWatches
    stopped,      \* the daemon context c.ctx is done
    clock,
    cluster       \* the version of the cluster's objects (external)

entryVars  == <<items, lastSync, lastAccess, refreshing, watching, lastErr, watchCancel>>
workerVars == <<pc, keyOf, got>>
envVars    == <<stopped, clock, cluster>>
vars       == <<entryVars, workerVars, cancelled, request, reaper, envVars>>

Times    == 0 .. MaxNow
Versions == 0 .. MaxVersion

(***************************************************************************)
(* A worker's control state.  Of c.watch: "watch" is inside watcher.Watch, *)
(* "deliver" holds a snapshot that onUpdate will store, "failed" has an    *)
(* error that Watch returned, "retry" is the select with the retry delay,  *)
(* "stopping" is the deferred markWatchStopped.  Of c.refresh: "list" is   *)
(* inside fetcher.List, "listed" holds its answer.                         *)
(***************************************************************************)
WatchPCs   == {"watch", "deliver", "failed", "retry", "stopping"}
RefreshPCs == {"list", "listed"}
PCs        == {"idle"} \cup WatchPCs \cup RefreshPCs

IdleRequest == [key |-> NoKey, at |-> 0]

Init ==
    /\ items       = [k \in Keys |-> 0]
    /\ lastSync    = [k \in Keys |-> 0]
    /\ lastAccess  = [k \in Keys |-> 0]
    /\ refreshing  = {}
    /\ watching    = {}
    /\ lastErr     = {}
    /\ watchCancel = [k \in Keys |-> NoWorker]
    /\ pc        = [w \in Workers |-> "idle"]
    /\ keyOf     = [w \in Workers |-> NoKey]
    /\ got       = [w \in Workers |-> 0]
    /\ cancelled = {}
    /\ request   = [r \in Requests |-> IdleRequest]
    /\ reaper    = [pc |-> IF HasWatcher /\ WatchIdleAfter > 0 THEN "waiting" ELSE "exited",
                    at |-> 0, cancels |-> {}]
    /\ stopped   = FALSE
    /\ clock     = 1
    /\ cluster   = 1

-----------------------------------------------------------------------------
(* The environment: time, the cluster's objects, the daemon's shutdown.    *)

Tick ==
    /\ clock < MaxNow
    /\ clock' = clock + 1
    /\ UNCHANGED <<entryVars, workerVars, cancelled, request, reaper, stopped, cluster>>

ClusterChanges ==
    /\ cluster < MaxVersion
    /\ cluster' = cluster + 1
    /\ UNCHANGED <<entryVars, workerVars, cancelled, request, reaper, stopped, clock>>

Shutdown ==
    /\ ~stopped
    /\ stopped' = TRUE
    /\ UNCHANGED <<entryVars, workerVars, cancelled, request, reaper, clock, cluster>>

-----------------------------------------------------------------------------
(* Requests.                                                               *)

\* A handler reads the clock before it takes the mutex, so a request can
\* be served with a time older than what the entry already holds.
Arrive(r, k) ==
    /\ request[r] = IdleRequest
    /\ request' = [request EXCEPT ![r] = [key |-> k, at |-> clock]]
    /\ UNCHANGED <<entryVars, workerVars, cancelled, reaper, envVars>>

ShouldRefresh(k, at) ==
    /\ k \notin watching
    /\ k \notin refreshing
    /\ lastSync[k] = 0 \/ at - lastSync[k] >= RefreshInterval

\* A slot is free once its goroutine has ended and nobody holds its cancel.
FreeWorkers == {w \in Workers : pc[w] = "idle" /\ w \notin reaper.cancels}

Start(w, k, first) ==
    /\ pc' = [pc EXCEPT ![w] = first]
    /\ keyOf' = [keyOf EXCEPT ![w] = k]
    /\ UNCHANGED got

StartWatch(k) ==
    /\ HasWatcher
    /\ k \notin watching
    /\ \E w \in FreeWorkers :
        /\ Start(w, k, "watch")
        /\ watchCancel' = [watchCancel EXCEPT ![k] = w]
    /\ watching' = watching \cup {k}
    /\ refreshing' = refreshing \cup {k}

StartRefresh(k, at) ==
    /\ ~(HasWatcher /\ k \notin watching)
    /\ ShouldRefresh(k, at)
    /\ \E w \in FreeWorkers : Start(w, k, "list")
    /\ refreshing' = refreshing \cup {k}
    /\ UNCHANGED <<watching, watchCancel>>

ServeCached(k, at) ==
    /\ ~(HasWatcher /\ k \notin watching)
    /\ ~ShouldRefresh(k, at)
    /\ UNCHANGED <<refreshing, watching, watchCancel, workerVars>>

\* The critical section of a lookup; GetDetail repeats that of Get.  What
\* they reply is a function of the entry: its items and Freshness, below.
Lookup(k, at) ==
    /\ lastAccess' = [lastAccess EXCEPT ![k] = at]
    /\ StartWatch(k) \/ StartRefresh(k, at) \/ ServeCached(k, at)
    /\ UNCHANGED <<items, lastSync, lastErr>>

Get(r) ==
    /\ request[r] # IdleRequest
    /\ Lookup(request[r].key, request[r].at)
    /\ request' = [request EXCEPT ![r] = IdleRequest]
    /\ UNCHANGED <<cancelled, reaper, envVars>>

-----------------------------------------------------------------------------
(* Freshness metadata of a reply about key k served at time "at".          *)

\* Mutant: off by one at the threshold.
SnapshotStateLate(k, at) ==
    CASE k \in refreshing -> "CATCHING_UP"
      [] k \notin refreshing /\ (at - lastSync[k] > StaleAfter \/ k \in lastErr) -> "STALE"
      [] OTHER -> "LIVE"

SnapshotState(k, at) ==
    CASE k \in refreshing -> "CATCHING_UP"
      [] k \notin refreshing /\ (at - lastSync[k] >= StaleAfter \/ k \in lastErr) -> "STALE"
      [] OTHER -> "LIVE"

ColdState(k) == IF k \in lastErr THEN "STALE" ELSE "CATCHING_UP"

\* The simulated snapshot is three minutes old; here it is StaleAfter old.
Freshness(k, at, simulateStale) ==
    IF simulateStale
    THEN [state |-> "STALE", age |-> StaleAfter, healthy |-> FALSE, error |-> k \in lastErr]
    ELSE [state   |-> IF lastSync[k] = 0 THEN ColdState(k) ELSE SnapshotState(k, at),
          age     |-> IF lastSync[k] = 0 THEN 0 ELSE at - lastSync[k],
          healthy |-> k \notin lastErr /\ lastSync[k] # 0,
          error   |-> k \in lastErr]

-----------------------------------------------------------------------------
(* The watch goroutine.                                                    *)

Goto(w, next) == pc' = [pc EXCEPT ![w] = next]

\* The goroutine ends; its slot forgets what it worked on.
End(w) ==
    /\ Goto(w, "idle")
    /\ keyOf' = [keyOf EXCEPT ![w] = NoKey]
    /\ got' = [got EXCEPT ![w] = 0]

Done(w) == stopped \/ w \in cancelled

\* The critical sections of the two callbacks of c.watch.
StoreSnapshot(k, version) ==
    /\ items' = [items EXCEPT ![k] = version]
    /\ lastSync' = [lastSync EXCEPT ![k] = clock]
    /\ lastErr' = lastErr \ {k}
    /\ refreshing' = refreshing \ {k}
    /\ UNCHANGED <<lastAccess, watching, watchCancel>>

StoreError(k) ==
    /\ lastErr' = lastErr \cup {k}
    /\ refreshing' = refreshing \cup {k}
    /\ UNCHANGED <<items, lastSync, lastAccess, watching, watchCancel>>

\* Inside Watch a list request is answered.
WatchLists(w) ==
    /\ pc[w] = "watch"
    /\ ~Done(w)
    /\ Goto(w, "deliver")
    /\ got' = [got EXCEPT ![w] = cluster]
    /\ UNCHANGED <<entryVars, keyOf, cancelled, request, reaper, envVars>>

OnUpdate(w) ==
    /\ pc[w] = "deliver"
    /\ StoreSnapshot(keyOf[w], got[w])
    /\ Goto(w, "watch")
    /\ got' = [got EXCEPT ![w] = 0]
    /\ UNCHANGED <<keyOf, cancelled, request, reaper, envVars>>

\* A relist inside Watch fails.  It may fail because the context has just
\* been cancelled: runListWatchLoop reports the error without looking.
OnError(w) ==
    /\ pc[w] = "watch"
    /\ StoreError(keyOf[w])
    /\ UNCHANGED <<workerVars, cancelled, request, reaper, envVars>>

\* Mutant: a Watch that returned because its context is done is called again.
WatchReturnsToLoop(w) ==
    /\ pc[w] = "watch"
    /\ Goto(w, IF Done(w) THEN "watch" ELSE "failed")
    /\ UNCHANGED <<entryVars, keyOf, got, cancelled, request, reaper, envVars>>

\* Watch returns: with an error while the context is alive, else to stop.
WatchReturns(w) ==
    /\ pc[w] = "watch"
    /\ Goto(w, IF Done(w) THEN "stopping" ELSE "failed")
    /\ UNCHANGED <<entryVars, keyOf, got, cancelled, request, reaper, envVars>>

\* The context can be cancelled between the test of line 295 and onError.
ReportFailure(w) ==
    /\ pc[w] = "failed"
    /\ StoreError(keyOf[w])
    /\ Goto(w, "retry")
    /\ UNCHANGED <<keyOf, got, cancelled, request, reaper, envVars>>

\* The delay ends.  When the context is done too, select takes either case.
RetryWatch(w) ==
    /\ pc[w] = "retry"
    /\ Goto(w, "watch")
    /\ UNCHANGED <<entryVars, keyOf, got, cancelled, request, reaper, envVars>>

QuitRetry(w) ==
    /\ pc[w] = "retry"
    /\ Done(w)
    /\ Goto(w, "stopping")
    /\ UNCHANGED <<entryVars, keyOf, got, cancelled, request, reaper, envVars>>

\* What every form of the deferred call shares.
WatchEnds(w) ==
    /\ pc[w] = "stopping"
    /\ watchCancel' = [watchCancel EXCEPT ![keyOf[w]] = NoWorker]
    /\ End(w)
    /\ cancelled' = cancelled \ {w}
    /\ UNCHANGED <<items, lastSync, lastAccess, request, reaper, envVars>>

\* Mutants: one of the resets is missing, or one too many is made.
MarkWatchStoppedCatchingUp(w) ==
    /\ watching' = watching \ {keyOf[w]}
    /\ WatchEnds(w) /\ UNCHANGED <<refreshing, lastErr>>

MarkWatchStoppedWatching(w) ==
    /\ refreshing' = refreshing \ {keyOf[w]}
    /\ WatchEnds(w) /\ UNCHANGED <<watching, lastErr>>

MarkWatchStoppedHealthy(w) ==
    /\ refreshing' = refreshing \ {keyOf[w]}
    /\ watching' = watching \ {keyOf[w]}
    /\ lastErr' = lastErr \ {keyOf[w]}
    /\ WatchEnds(w)

\* The deferred call; it resets the entry without asking whose watch it is.
MarkWatchStopped(w) ==
    /\ refreshing' = refreshing \ {keyOf[w]}
    /\ watching' = watching \ {keyOf[w]}
    /\ WatchEnds(w) /\ UNCHANGED lastErr

-----------------------------------------------------------------------------
(* The refresh goroutine, used when the fetcher is no Watcher.             *)

RefreshLists(w) ==
    /\ pc[w] = "list"
    /\ ~stopped
    /\ Goto(w, "listed")
    /\ got' = [got EXCEPT ![w] = cluster]
    /\ UNCHANGED <<entryVars, keyOf, cancelled, request, reaper, envVars>>

RefreshStores(w) ==
    /\ pc[w] = "listed"
    /\ StoreSnapshot(keyOf[w], got[w])
    /\ End(w)
    /\ UNCHANGED <<cancelled, request, reaper, envVars>>

\* Mutant: the early return on an error comes before the reset.
RefreshFailsCatchingUp(w) ==
    /\ pc[w] = "list"
    /\ lastErr' = lastErr \cup {keyOf[w]}
    /\ End(w)
    /\ UNCHANGED <<items, lastSync, lastAccess, refreshing, watching, watchCancel,
                   cancelled, request, reaper, envVars>>

\* List fails or runs into fetchTimeout; the items and lastSync stay.
RefreshFails(w) ==
    /\ pc[w] = "list"
    /\ refreshing' = refreshing \ {keyOf[w]}
    /\ lastErr' = lastErr \cup {keyOf[w]}
    /\ End(w)
    /\ UNCHANGED <<items, lastSync, lastAccess, watching, watchCancel,
                   cancelled, request, reaper, envVars>>

-----------------------------------------------------------------------------
(* The reaper.                                                             *)

\* The ticker fires and c.now() is read, before the mutex is taken.  The
\* ticks may come at any time: watchSweepEvery is abstracted away.
ReaperTick ==
    /\ reaper.pc = "waiting"
    /\ reaper' = [pc |-> "sweeping", at |-> clock, cancels |-> {}]
    /\ UNCHANGED <<entryVars, workerVars, cancelled, request, envVars>>

ReaperExits ==
    /\ reaper.pc = "waiting"
    /\ stopped
    /\ reaper' = [pc |-> "exited", at |-> 0, cancels |-> {}]
    /\ UNCHANGED <<entryVars, workerVars, cancelled, request, envVars>>

IdleKeys ==
    {k \in watching : /\ watchCancel[k] # NoWorker
                      /\ lastAccess[k] # 0
                      /\ reaper.at - lastAccess[k] >= WatchIdleAfter}

AfterSweep(cancels) ==
    [pc |-> IF cancels = {} THEN "waiting" ELSE "cancelling", at |-> 0, cancels |-> cancels]

\* What every form of the sweep shares.
Sweep(cancels) ==
    /\ reaper.pc = "sweeping"
    /\ watchCancel' = [k \in Keys |-> IF k \in IdleKeys THEN NoWorker ELSE watchCancel[k]]
    /\ refreshing' = refreshing \ IdleKeys
    /\ reaper' = AfterSweep(cancels)
    /\ UNCHANGED <<items, lastSync, lastAccess, lastErr, workerVars, cancelled, request, envVars>>

\* Mutant: the sweep also clears "watching" at once.
ReaperCollectsAndStops ==
    /\ Sweep({watchCancel[k] : k \in IdleKeys})
    /\ watching' = watching \ IdleKeys

\* Mutant: the cancel function is cleared before it is collected.
ReaperCollectsNothing == Sweep({}) /\ UNCHANGED watching

\* First half of cancelIdleWatches, under the mutex.
ReaperCollects == Sweep({watchCancel[k] : k \in IdleKeys}) /\ UNCHANGED watching

\* Mutant: the loop over the cancel functions ends after the first.
ReaperCancelsOne(w) ==
    /\ w \in reaper.cancels
    /\ cancelled' = IF pc[w] = "idle" THEN cancelled ELSE cancelled \cup {w}
    /\ reaper' = AfterSweep({})
    /\ UNCHANGED <<entryVars, workerVars, request, envVars>>

\* Second half: after the unlock, one cancel function after the other.
ReaperCancels(w) ==
    /\ w \in reaper.cancels
    /\ cancelled' = IF pc[w] = "idle" THEN cancelled ELSE cancelled \cup {w}
    /\ reaper' = AfterSweep(reaper.cancels \ {w})
    /\ UNCHANGED <<entryVars, workerVars, request, envVars>>

-----------------------------------------------------------------------------
WatchStep(w) ==
    \/ WatchLists(w) \/ OnUpdate(w) \/ OnError(w) \/ WatchReturns(w)
    \/ ReportFailure(w) \/ RetryWatch(w) \/ QuitRetry(w) \/ MarkWatchStopped(w)

RefreshStep(w) == RefreshLists(w) \/ RefreshStores(w) \/ RefreshFails(w)

Next ==
    \/ Tick \/ ClusterChanges \/ Shutdown
    \/ \E r \in Requests : Get(r) \/ \E k \in Keys : Arrive(r, k)
    \/ \E w \in Workers : WatchStep(w) \/ RefreshStep(w) \/ ReaperCancels(w)
    \/ ReaperTick \/ ReaperExits \/ ReaperCollects

Spec == Init /\ [][Next]_vars

(***************************************************************************)
(* Fairness.  Every goroutine runs when it can (the Go scheduler and the   *)
(* mutex starve nobody); a watcher whose context is done returns (each     *)
(* blocking call of runListWatchLoop takes that context); List ends within *)
(* fetchTimeout; the sweep ticker keeps firing.                            *)
(***************************************************************************)
Fairness ==
    /\ WF_vars(Tick)
    /\ \A r \in Requests : WF_vars(Get(r))
    /\ \A w \in Workers :
        /\ WF_vars(OnUpdate(w))
        /\ WF_vars(Done(w) /\ WatchReturns(w))
        /\ WF_vars(ReportFailure(w))
        /\ WF_vars(RetryWatch(w) \/ QuitRetry(w))
        /\ WF_vars(MarkWatchStopped(w))
        /\ WF_vars(RefreshLists(w) \/ RefreshFails(w))
        /\ WF_vars(RefreshStores(w))
        /\ WF_vars(ReaperCancels(w))
    /\ WF_vars(ReaperTick)
    /\ WF_vars(ReaperCollects)

FairSpec == Spec /\ Fairness

(***************************************************************************)
(* A client that keeps polling every key: the UI reloads its view on a     *)
(* ticker.  And an API server that answers a list again and again,         *)
(* whatever else fails in between.                                         *)
(***************************************************************************)
Polled == \A k \in Keys : SF_vars(\E r \in Requests : Arrive(r, k))

Answered ==
    \A k \in Keys : SF_vars(\E w \in Workers : keyOf[w] = k /\ WatchLists(w))

-----------------------------------------------------------------------------
(* Properties.                                                             *)

TypeOK ==
    /\ items \in [Keys -> Versions]
    /\ lastSync \in [Keys -> Times]
    /\ lastAccess \in [Keys -> Times]
    /\ refreshing \subseteq Keys
    /\ watching \subseteq Keys
    /\ lastErr \subseteq Keys
    /\ watchCancel \in [Keys -> Workers \cup {NoWorker}]
    /\ pc \in [Workers -> PCs]
    /\ keyOf \in [Workers -> Keys \cup {NoKey}]
    /\ got \in [Workers -> Versions]
    /\ cancelled \subseteq Workers
    /\ request \in [Requests -> [key : Keys, at : Times] \cup {IdleRequest}]
    /\ reaper \in [pc : {"waiting", "sweeping", "cancelling", "exited"},
                   at : Times, cancels : SUBSET Workers]
    /\ stopped \in BOOLEAN
    /\ clock \in Times
    /\ cluster \in Versions

\* A key never has two goroutines fetching for it.  Nothing in the code
\* compares a finished goroutine with the entry's current one, so a second
\* goroutine would overwrite newer items and markWatchStopped would switch
\* off a watch that is not its own.
OneFetcherPerKey ==
    \A v, w \in Workers :
        keyOf[v] # NoKey /\ keyOf[v] = keyOf[w] => v = w

\* The two flags of an entry are never left behind by the goroutine that
\* should reset them: "watching" without a watch goroutine would stop Get
\* from ever starting one, "refreshing" without any goroutine would show
\* CATCHING_UP for ever and stop every later refresh.
FlagsHaveOwner ==
    \A k \in Keys :
        /\ k \in watching <=> \E w \in Workers : keyOf[w] = k /\ pc[w] \in WatchPCs
        /\ k \in refreshing => \E w \in Workers : keyOf[w] = k

\* No watch goroutine leaks: the cancel function of each running one is in
\* its entry, or in the hands of the reaper, or has been called.
WatchCanBeCancelled ==
    \A w \in Workers :
        pc[w] \in WatchPCs =>
            \/ watchCancel[keyOf[w]] = w
            \/ w \in reaper.cancels
            \/ w \in cancelled

\* The items of a key never go back to an older state of the cluster, over
\* any sequence of watches, reaps, refreshes and failures.
ItemsNeverRegress ==
    [][\A k \in Keys : items'[k] >= items[k]]_vars

\* An error stays visible until a newer answer of the cluster replaces it:
\* only a step that stores a snapshot clears lastErr.  A reap, a stop or a
\* restart of the watch does not turn a broken view into a LIVE one.
ErrorClearedOnlyBySnapshot ==
    [][\A k \in Keys :
         k \in lastErr /\ k \notin lastErr' =>
            /\ lastSync'[k] = clock
            /\ \E w \in Workers : /\ keyOf[w] = k
                                  /\ pc[w] \in {"deliver", "listed"}
                                  /\ items'[k] = got[w]]_vars

\* docs/ARCHITECTURE.md, section 6: a LIVE reply means that the watch is
\* healthy and the age within the threshold.  For every request in flight,
\* whatever happens between its reading of the clock and its lock.
LiveIsHealthyAndRecent ==
    \A r \in Requests : request[r] # IdleRequest =>
        LET f == Freshness(request[r].key, request[r].at, FALSE)
        IN  f.state = "LIVE" =>
                /\ f.healthy /\ ~f.error /\ f.age < StaleAfter
                /\ items[request[r].key] # 0

\* A goroutine whose context is done ends, and with it the claim its entry
\* makes of being watched; the next request starts a new watch.
CancelledWatchStops ==
    \A w \in Workers :
        pc[w] \in WatchPCs /\ Done(w) ~> pc[w] = "idle"

\* A watch that nobody has read for WatchIdleAfter is stopped, unless a
\* request comes first.
IdleWatchIsReaped ==
    \A k \in Keys :
        k \in watching /\ clock - lastAccess[k] >= WatchIdleAfter
            ~> k \notin watching \/ clock - lastAccess[k] < WatchIdleAfter

\* In refresh mode a CATCHING_UP entry always leaves that state.
RefreshSettles ==
    \A k \in Keys : k \in refreshing ~> k \notin refreshing

\* A key that a client keeps polling arrives at the state of the cluster,
\* also when the reaper cancelled its watch just before it was read again.
PolledKeyConverges ==
    Polled /\ Answered => \A k \in Keys : []<>(stopped \/ items[k] = cluster)

-----------------------------------------------------------------------------
(* Refinement: many goroutines per key, one after the other, are the one   *)
(* reader per key of SnapshotView.                                         *)

Carries(w) == pc[w] \in {"deliver", "listed"}

\* The snapshot of a key on its way to the entry.
Underway(k) ==
    LET carriers == {w \in Workers : keyOf[w] = k /\ Carries(w)}
    IN  IF carriers = {} THEN 0 ELSE got[CHOOSE w \in carriers : TRUE]

View == INSTANCE SnapshotView WITH
    shown   <- items,
    since   <- lastSync,
    failed  <- lastErr,
    reading <- [k \in Keys |-> Underway(k)],
    current <- cluster,
    now     <- clock

\* Whatever watches, retries, refreshes, reaps and shutdowns do to the entries,
\* seen from outside every key has a single reader: no snapshot is taken
\* before the previous one is up, none is lost or put up twice, and an error
\* comes only between two of them and stays until the next.
IsSnapshotView == View!Spec

=============================================================================
