# A verification of k11s in TLA+

k11s is a terminal client for Kubernetes. A background daemon (`k11sd`) keeps
snapshots of the cluster and answers the client over a unix socket. This
directory holds TLA+ models of its concurrent parts, the TLC configurations that
check them on small instances, and proofs, checked by TLAPS, that the main
properties hold for every value of the constants.

## 1. The system

| component | source | state | operations |
|---|---|---|---|
| resource cache | `internal/cache/resources/cache.go` | a map of entries (items, lastSync, lastAccess, refreshing, watching, lastErr, watchCancel) under one mutex; watch and refresh goroutines; the reaper | `Get`, `GetDetail`, `watch` with `onUpdate`/`onError`, `refresh`, `markWatchStopped`, `reapIdleWatches` |
| list/watch loop | `internal/kube/resources.go` (`runListWatchLoop`) | resourceVersion, the open stream, the retry delay | list, open, event, bookmark, end of stream, relist, wait |
| listing and formatting | `internal/kube/resources.go` | the discovery cache | one API list, conversion to rows |
| namespaces cache | `internal/cache/namespaces/cache.go` | entries per context | `Get`, `refresh` |
| daemon: socket and shutdown | `internal/daemon/server.go` (`Run`, `removeStaleSocket`), `cmd/k11sd` | the listener, the socket path | start, accept, shutdown |
| daemon: dispatch | `internal/daemon/server.go` (`handleConn`) | none of its own | one request per connection |
| action gate, executor | `internal/daemon/server.go` (`executeAction`), `internal/kube/actions.go` | none; reads the cache and the cluster | validate, check freshness, resolve, then delete, scale, restart, label, annotate |
| client bootstrap | `internal/client/bootstrap.go` | the running `Bootstrap` call | handshake, spawn, restart, waits |
| client RPC calls | `internal/client/*.go` | none | one connection per call |
| session store | `internal/session/store.go` | the session file and its temporary | `Load`, `Save` |
| UI | `internal/ui/app.go` | the bubbletea model: session, list, cursor and marks, panes, request numbers, cancel functions, history | keys, commands, reloads, details, logs, actions, poll tickers |
| detail enricher | `internal/kube/resource_detail.go` | bounded caches of owners and children, in-flight markers | `Enrich` |
| client factory | `internal/kube/client_factory.go` | clients per context | get or create |
| logs, pod view | `internal/kube/logs.go`, `pod_view.go` | none | one fetch |
| client main | `cmd/k11s/main.go` | the session of this run | restore, overrides, list, UI, save |
| list filter, protocol, config, contexts, build info, timing | `internal/listfilter`, `protocol`, `config`, `kubeconfig`, `buildinfo`, `perf` | none or a file read once | pure functions |

How they interact: the UI calls the daemon, one connection and one goroutine per
request; `handleConn` calls the caches, which answer from memory and start
goroutines that talk to the API server; those write back through callbacks under
the cache's mutex. A client that starts finds or starts the daemon through the
socket path, and replaces a daemon of another version.

What is hard, and what must hold in spite of it:

* **Cache.** The two flags of an entry are set by requests and reset by
  goroutines, by the reaper and by the end of a watch, none of which asks whose
  watch the entry holds. There must be one fetcher per key, items must not go back,
  LIVE must be true, an error must not vanish, and a polled key must converge.
* **List/watch.** Streams end at any time, relists fail, and the resume version
  advances before the relist that fetches the change. No change may be lost in
  silence, and the view must recover.
* **Socket and bootstrap.** Daemons and clients act on one path by separate
  system calls. A client must end, must get a matching daemon, and must not
  disturb others.
* **UI.** One message at a time, but answers arrive late, fail, or are superseded
  while the user moves on. No flag may stay set without a request, no late answer may
  show in another pane, an action must hit what is on the screen, log lines of two
  containers must not mix, and logs that are followed must go on.
* **Actions.** The freshness check, the resolution of the name, the read and the update
  are separate steps. The object that changes must be the row's, no other change may be
  lost, and the answer must say what happened.
* **Session.** Daemons that overlap share one temporary file, and a process may end, or a
  write fail, at every step. The stored session must be whole and the newest, and who is
  told that it saved must have saved.
* **Reads.** Client factory, namespace cache and detail enricher build, list and scan with
  their locks released. One client per context, honest LIVE, no flag left behind, and
  children that come from a recent scan.

`PROJECT.json` lists every hazard at its line, with the properties that cover it.

## 2. Modules

| module | models | extends |
|---|---|---|
| `ResourceCache` | the cache: entries, requests, goroutines, reaper | |
| `ListWatch` | one watch goroutine in full, against an API server; refines a worker of `ResourceCache` | instance of `ResourceCache` |
| `SnapshotView` | abstract: one reader per key; implemented by `ResourceCache` and by `ListWatch` | |
| `DaemonSocket` | daemons and the socket path | |
| `Bootstrap` | starting clients, composed with `DaemonSocket` | `DaemonSocket` |
| `MCBootstrap` | its instance for TLC: fewer initial states | `Bootstrap` |
| `SessionStore` | the session file, its daemons, and client main around it | |
| `SessionRegister` | abstract: one atomic register; implemented by `SessionStore` | |
| `ActionGate` | an action from the request to the change in the cluster | |
| `MCActionGate` | its instance for TLC: what a name means, symmetry | `ActionGate` |
| `RowActions` | abstract: an action on a row is one step at one moment; implemented by `ActionGate` | |
| `KubeReads` | client factory, namespace cache, owned children | |
| `UiRequests` | the UI's requests and what keys, polls and answers do to list and pane | |
| `UiPod` | the UI's pod view and the logs it follows | |
| `ResourceCacheProofs`, `ListWatchProofs`, `BootstrapProofs`, `SessionStoreProofs`, `ActionGateProofs`, `KubeReadsProofs`, `UiRequestsProofs`, `UiPodProofs` | the inductive invariant and the theorems of each | their module |

Each module ends with its properties. Operators marked "Mutant" are variants of a
definition with a plausible bug; each shows that a property can fail, and none is
part of a specification.

### ResourceCache

One variable per field of `cacheEntry`; a boolean field is the set of the keys
that have it set. A snapshot is the version number of the cluster when it was
listed, which is all that the properties tell apart. A critical section of the
mutex is one action. What the code does outside it is a step of its own:

* `Arrive` reads the clock, `Get` is the critical section, `GetDetail`'s being the
  same; so a request may be served with an old time.
* `WatchLists` is an answered list inside `Watch`, `OnUpdate` stores it, `OnError` is
  the other callback; `WatchReturns`, `ReportFailure`, `RetryWatch`, `QuitRetry` are the
  loop of `watch`, `MarkWatchStopped` its deferred call.
* `RefreshLists`, `RefreshStores`, `RefreshFails` are `refresh`.
* `ReaperTick` reads the clock, `ReaperCollects` is the critical section of
  `cancelIdleWatches`, `ReaperCancels` one call of a collected cancel function.

`Freshness` is `buildFreshnessMeta`: `CATCHING_UP` wins over `STALE`, and both over
`LIVE`. A goroutine slot (`Workers`) is reused once its goroutine has ended and
nobody holds its cancel function; with too few slots a start would have to wait,
so every run has one more slot than keys.

### ListWatch

`loop` is the program counter of `c.watch` with `runListWatchLoop` inside. The loop
reads no object out of an event, so objects are one version number, `rv` is
`resourceVersion`, and `sent` is how far the open stream has come. Lists fail at
each of their four places; streams are refused, deliver, send bookmarks and end.
The retry delays have no length. `watchCRs` without a matching CRD, which reports
no items and waits, is not followed. `IsWatchWorker` is the refinement: seen through
`RC`, each step is a step of a `ResourceCache` watch worker.

### SnapshotView

What a polling client may count on, without goroutines: per key one reader takes the
cluster's state (`Take`), puts it up with the time and without an error (`PutUp`), and takes
the next one only then; or it fails (`Fails`), and what is up stays, marked. `ResourceCache`
maps to it by `View`: `items`, `lastSync` and `lastErr` are what is up, and `reading` is the
snapshot that any worker of the key carries from an answered list to its store (`Underway`).
So whichever goroutine lists, cancelled watches included, outside there is one reader.
`ListWatch` maps to it with one key.

### DaemonSocket and Bootstrap

`path` names the daemon that bound the socket file. The actions are the system
calls of one daemon's life: `Lstat`, `Probe` (dial), `RemoveStale`, `Bind` and `Listen`
(the two halves of `net.Listen`), `Chmod`, `Unlink` and `Close` (the two halves of the
listener's `Close`), `Cleanup` (the deferred `os.Remove`). `Killed` leaves the file.
`Bootstrap` adds the clients. `step` is where a client is: `hello`, `askStop` (the
shutdown request), `signal` (SIGTERM to the old process), `awaitExit`, `spawn`,
`awaitReady`, or an outcome. `Dial` and `Refused` are the two results of a dial, `Broken`
a daemon that exits before it answers. `Spawn` starts what `resolveDaemonPath` finds: beside the
client's executable a binary of the client's own version; a client without one (`SpawnMayFail`)
finds one by `K11SD_PATH` or `PATH`, of a version in `Elsewhere`, or none.

### SessionStore

`phase` is where a client is in `bootstrapAndRestore` and `runTUI`, in the code's order:
get the session, save it if a flag overrides it (`Flagged` clients have flags), ask for suggestions and the list, run
the UI, save at the end. `request` is its connection and how far the handler is: `Load`,
or `SaveOpens`, `SaveWrites` or `SaveWriteFails`, and `SaveRenames`, the system calls of
`os.WriteFile` and `os.Rename`, with `FileDenied` (the file cannot be read, or its directory or the
temporary file not be made) and `SaveRenameFails` for their errors. They run under the daemon's mutex `mu`. `path` and `tmp` lead to
inodes whose content is a session, empty or torn; `Load` takes the last two, a missing
file and blank fields for the default. Daemons start, stop accepting (their handlers run
on while the next one serves) and end, with or without notice, at any step. `Respond` and
`Refuse` are the answer and the RPC version check that comes after the effect.

### SessionRegister

The promise to the k11s processes: loading and saving take effect at one moment, whoever is
told of the end of a call has had its effect, and who gives up may or may not. `SessionStore`
maps to it by `Register`: the register holds what `Load` would return (`Stored`), a client's
call is its phase (`Calling`), and what the call has had as its effect is what the handler is
about to answer (`Held`). The effect of a save is the rename, that of a load the read of the
file. `overlap`, two daemons in `Save` at once, ends the promise.

### ActionGate

`step` is how far a request is: `Gate` is the freshness check, `Typed` and `ResolveTarget` find
the kind, `Delete`, or `Get` and `Update`, change the object, and each error path answers with
its code. `object` holds a version and the versions whose changes it has, so that a lost
change shows. A name may mean several kinds; a row is listed with the kind that discovery
knew then, and an action resolves the name again, with what discovery knows now.
`ActionPlace` and `TargetPlace` are `resolveActionNamespace` and its use. Others change and
delete objects at any time. The typed clients of scale and restart are a choice of the
constants. Which value is written is not modelled: a write is one change.

### RowActions

What an action amounts to for everybody else: after its view was seen LIVE it changes or
deletes the object of its row as it is at that moment, or does nothing, and its result tells
which (an `INTERNAL` may be either, since the answer of the API server can be lost). A request
goes astray when discovery lacks the kind that the name means first. `ActionGate` maps to it
by `Atomic`; `Get` is invisible and `Update` is the one moment.

### KubeReads

`Lookup`, `Built` and `BuildFails` are `ClientFactory`: the client is built with the lock
released, and whoever stores second takes the first one's. The namespace cache and the
enricher use it as they go. `GetNamespaces`, `NamespacesSent`, `RefreshOK` and `RefreshFails`
are `Get` and `refresh`; `State` is `buildPayload`'s. `AskDetail` to `AnswerDetail` are
`fetchOwnedChildren`, after the object is fetched (`fetchObject`: by the typed client, the dynamic
one, or the extensions client and then the dynamic one): the entry of the owner, the index of the scope, the entry primed from
the index, the loader's flag. `Scan`, `StoreIndex`, `StoreOwner` and `ClearLoad` are the loader. Entries
over the limits are dropped as the code does, any of them, since maps are walked in any
order. Time is kept as the age of each entry; the copy that a handler holds does not age,
as nothing that waits lies between its steps: a handler that the scheduler held up there would store
and answer an older scan than the model's.

### UiRequests

`view` and `selection` are the session, `list`, `cursor` and `marked` the table on the
screen, `resOpen`, `detail` and `detailLoading` the pane, `mode` and `popup` who gets the keys
(the command line, the delete confirmation). The handlers of `Update` are the actions:
one per key or command that changes this state, `PollTick` for the ticker,
`ListLoaded`, `ListFailed`, `DetailLoaded`, `DetailFailed`, `ActionLoaded`, `ActionFailed` for the answers.
The code numbers the requests of each kind and drops an answer whose number is not
the latest; here a request in flight is *awaited* or not, and `LateAnswerDropped` is the
early return. `Ask` and `Supersede` advance a counter.

A view is a context, a resource other than pods and its scope; a name is a namespace and
a name. The session keeps the name alone, so `selectFromSession` may find a namesake's row
(`Namesakes`). The user chooses the sort order, so the first row and the rows between two others
may be any. The two stacks of the history are abstracted: back and forward lead to any
session. An action is told apart by its view and whether it is of several rows; a
superseded one is forgotten at once, since its answer changes nothing. `actionLoading` is
never read and left out.

### UiPod

The session on pods, and what leads to a pod from elsewhere: `onPods` tells the resource,
`detail` whose pane is open, `detailFound` whether it has loaded. `OpenRelated` goes from a pod to its
node or owner, `OpenChild` from a loaded pane to a pod in it, `OpenNamed` is the command line with a
name; none of them asks for a list, so rows and cursor stay. `view` is the pod view (its pod, containers, tab and chosen container),
`viewAsked` and `logsAsked` the two requests whose answers would count, `logs` whose lines are
kept, `logsQuery` and `follow` what the log ticker polls, `ticks` the log ticks under way.
`PollTick` reloads the view, `LogsTick` the logs; `ListLoaded` and `ListFailed` do to both what
`syncPodViewSelection` and `syncLogsSelection` do. `LogsSwitch` is the search for a container
that has logs, with its `budget`. Commands open pods by name and logs of a container by
name. Log lines are only whose they are and whether there are any.

## 3. Runs

| run | instance | what it shows |
|---|---|---|
| `cache_watch` | 1 key, 2 slots, 2 requests, clock 1 to 2, all thresholds 1, 2 versions, fairness | ownership, order and honesty of the watch path; idle watches are reaped, cancelled ones end, a polled key converges through reaps and failures; refines `SnapshotView` |
| `cache_refresh` | no watcher, 2 slots, 2 requests, clock to 4, 3 versions, fairness | every CATCHING_UP ends |
| `listwatch` | 4 versions, fairness | no missed change is silent; refinement; a view follows its stream, recovers from missed changes, and a cancelled loop ends |
| `boot` | 2 clients, 3 daemons, 3 versions, 2 RPC versions, one daemon may be killed, one client finds no daemon binary or one of version v1, fairness | a daemon leaves no socket behind, a restart ends at the client's version, no daemon is stopped through another RPC version; every client ends, every daemon asked to stop ends, a stale socket file is removed |
| `boot_upgrade` | 1 client, 2 daemons | **violation** |
| `session` | 2 clients, one with flags, 2 daemons, 2 starts, 3 sessions, 3 inodes, fairness | the stored session is whole and the newest; refines `SessionRegister`; calls end |
| `actions` | 2 requests, one name of a namespaced and a global kind, 2 namespaces, 3 versions | the row's object is acted on, no change is lost, the answer tells the outcome; refines `RowActions` |
| `kube_reads` | 2 detail requests, 1 owner, all times 1 but `StaleAfter` 2, no room for entries, 1 change, fairness | one client per context, honest LIVE, namespaces converge, children are scanned |
| `ui_requests` | 2 views, 2 names, one superseded request in flight, fairness | no frozen flag, no late answer in a pane, marks stay on the screen; list and pane arrive |
| `ui_delete` | the same | **violation** |
| `ui_pod` | 2 pods, up to 2 containers, 2 ticks, fairness | lines never mix, followed logs go on, the search for logs ends |
| `ui_pod_refresh` | 2 pods, 1 container, 1 tick | **violation** |

**Bounds.** `MaxNow` stops the clock and `MaxVersion` the cluster. With all thresholds 1 a
clock that may move once lets a watch be idle, reaped and started again, and a snapshot
go stale; `cache_refresh` has the longer clock. A key interacts with another only
through the reaper's list of cancel functions, so one key suffices for the runs; that
no cancel function is lost when a sweep collects several is proved
(`WatchCanBeCancelledHolds`). Two slots per key allow a watch that ends while the next would
start. In `listwatch` four versions let a change be fetched, one missed, and another arrive
later. One spawn per client plus the first daemon makes three daemons for two clients. The
daemon that serves at first has version 1 or 3 (`FirstVersions`): one that answers both clients and one of
another RPC version; a second version that answers both comes with the daemons that are spawned.
One client saves at its start too (`Flagged`), both save at their end. Two daemons and two clients are the overlap that `SessionStore` is about; three inodes are
the file, the temporary, and one that is open but no longer named. Three versions of an
object let it change between a read and an update and again after it. In `kube_reads` a
behaviour asks either for namespaces or for details (`Mixes`): the two share nothing but the
clients. Ages end at the largest threshold they are compared with, and the limits are 0, so that
every store prunes. Two views and two names let the user leave a view and come back, a list close a pane, and
several rows be marked; `MaxLate` 1 keeps one superseded request in flight beside an awaited
one of each kind, and a number beyond the latest two is as late as any. Of log ticks
beyond `MaxTicks` one is forgotten, never the last. The two names of `ui_requests` and `ui_pod` are
namesakes, so the session may find either row; those of the two violations are not, so that these
do not rest on it.
Deadlock is switched off where the system stops: a watch goroutine ends, clients and
daemons end, actions are answered.

**Fairness.** Goroutines and processes run (weak fairness on their steps). `List` ends
by `fetchTimeout`, blocking calls of the loop notice their context, the sweep ticker
keeps firing. Two properties carry an assumption of their own: `PolledKeyConverges` that the
key is polled (as the UI does on a ticker) and the API server answers lists again and again
whatever else fails, `ViewConverges` the two-minute client timeout (`client_factory.go`), which ends every
stream. Requests that collide with the ticker or a retry can be enabled again
and again rather than for ever, hence strong fairness there. In `Bootstrap` the deadlines
come eventually; a client is taken to hit one only when no daemon is on its way up or
down, since they are tens of seconds against milliseconds. In `SessionStore` only clients and
handlers are fair, for nothing starts or keeps a daemon; `CallsEnd` holds because a connection
to a daemon that ended breaks. In `KubeReads` the refresh and the loader run, time passes, somebody
asks for the namespaces, and a client can be built and a list succeeds again and again.
In `UiPod` log ticks fire and log requests are answered or fail (each has a deadline);
`SearchForLogsEnds` further assumes that the user stops typing. In `UiRequests` the ticker goes on
(each tick schedules the next), superseded requests come back since they are cancelled, and
an awaited list or detail is answered before the next tick again and again, whatever
fails in between. The last is more than the code guarantees: a background reload
does not set `loading`, so a daemon that always takes longer than the 1.2 s of the ticker has
every reload cancelled, and the list is never refreshed.

**Exceptions that the properties name.** Two daemons in `Save` at once share the temporary
file and may store an empty file or each other's session (`overlap`); `StoredIsTheLastSaved` and
`IsRegister` hold as long as that has not happened. When discovery leaves out the
kind a name means first, the name resolves to the next one, and an action may hit that
kind's object of the same name (`missed`, in `ActsOnTheRow`; `astray` in `RowActions`). A detail request that misses before a load ends
and looks at the flag after it answers an empty list as complete (`raced`, in
`ChildrenAreScanned`). Without these exceptions TLC refutes the properties.

## 4. Findings

* `boot_upgrade`: `listener.Close` unlinks the path, and the deferred `os.Remove` removes it
  again. A client that sees the refused dial spawns the successor, whose socket the
  second removal deletes: the new daemon serves, unreachable, for ever.
* `ui_delete`: after a switch of resource or context the old rows stay until the new list is
  there, while an action already takes the new resource and context from the session.
  `:delete` in between asks to delete, with `--yes` deletes, an item of the new view
  that has the name of the selected row of the old one. `:scale` and `:restart` take their
  target the same way and ask for no confirmation.
* `ui_pod_refresh`: the poll ticker reloads the pod view with the row under the cursor. The
  counterexample: `:pod <name>` opens a pod while the cursor is on another row and leaves it there; the
  pod is loaded, and the next tick replaces it by the loading placeholder of the cursor's pod. A pod opened from
  the pane of its node or owner runs into the same, once that pane has loaded.

Seen while modelling, not kept as runs:

* `onError` sets `refreshing`, and `refreshing` wins in the metadata, so a view whose watch
  keeps failing shows `CATCHING_UP` for ever, where `docs/ARCHITECTURE.md:121` promises a stale marker.
* The resume version advances with the event, before its relist. When that relist and the
  next one fail, the new stream starts past a change that was never fetched. The error stays
  visible (`MissedChangeIsReported`, proved), and the change arrives with the next event or
  end of stream (`ViewConverges`).
* A socket bound but not yet listening refuses a dial, so a second daemon that starts at the
  same time takes it for stale and removes it: two daemons serve.
* The shutdown request goes to whatever daemon is behind the path by then, so of two
  upgrading clients the second may stop the daemon that the first has started. After a spawn
  `Bootstrap` compares no version, so a client may be connected to the daemon that a client of
  another version has just started, or that it has itself started from another binary; after a
  restart it does compare (`RestartMatches`, proved).
* A client that is refused for its RPC version has saved its session, or has run its action,
  all the same.
* A list that arrives while the first logs of a pod are loading gives up the request and
  ends the following, with nothing on the screen.

## 5. Proofs

All theorems hold for every value of the constants that satisfies the named `ASSUME`s
(absent values differ from present ones, bounds and times are naturals). In each module an
inductive invariant `IInv` implies `TypeOK` and the invariants, and the action properties
follow from it step by step.

* **ResourceCache.** `TypeOK` does not suffice for ownership: nothing in it says that the
  worker whose cancel function an entry holds works on that entry. The inductive invariant
  is `Typed /\ Ownership /\ SnapshotOrder`. `Ownership` says that at most one worker has a
  key, that flags match the workers, that refresh and watch workers do not coexist, and
  where the cancel function of a running watch can be, the reaper's hands included.
  `SnapshotOrder` says that the items of a key are no newer than a worker's answer in
  flight and no answer is newer than the cluster; with one worker per key, storing an
  answer never goes back. From it follow `OneFetcherPerKey`, `FlagsHaveOwner`,
  `WatchCanBeCancelled`, `LiveIsHealthyAndRecent`, and the action properties
  `ItemsNeverRegress` and `ErrorClearedOnlyBySnapshot`. The refinement `IsSnapshotView` is proved
  from the same invariant: because a key has one worker at most, the snapshot it carries is
  the one under way, so a list is taken while none is, and what is stored is that one; and no
  goroutine reports an error, or resets one, with a snapshot in its hands. Were two workers
  to carry snapshots of a key, `Underway` would pick one of them, and storing the other would be no step
  of `SnapshotView`. The action properties above are among its consequences.
* **ListWatch.** `MissedChangeIsReported` is strengthened by what an answer in flight
  covers (`InFlight`) and what an open stream has delivered (`StreamIsCovered`). The same
  invariant gives the refinement `IsWatchWorker`: each action is, through the mapping `RC`,
  one action of the cache's worker or a stutter. The mapping begins with a worker that has been started, so
  only the steps are claimed, not the cache's initial state. The loop with its entry is also
  shown to be a `SnapshotView` of one key from its initial state on (`IsSnapshotViewHolds`).
* **Bootstrap.** `PathHeld` says which daemons the path can lead to, `Started` that the
  version of a daemon somebody knows is settled, `OldIsCompatible` that a client
  replaces only what it has shaken hands with. From them follow `NoSocketLeftBehind`,
  `RestartMatches` and the action property `StoppedByItsOwnRPC`. `ConnectionsEnd`, inductive
  beside it, says that the daemon at the other end of a connection listens or is past its
  listener, never still to come, and that one that serves answers.
* **SessionStore.** That the stored session is the newest is not inductive: what is renamed
  must be whole. `Mutex` says that a handler in Save holds its daemon's mutex and which
  file it has open, and that without overlap one daemon's mutex is held; `Files` that then
  the open file is the temporary one, never the one at `path`, and holds what the handler
  has written; `Protocol` that this is its client's session, also in an answer under way.
  From them follow `StoredIsTheLastSaved` and `SavedMeansReplaced`, and the refinement `IsRegister`:
  opening and writing the temporary file leave `Stored` alone, the rename makes it the
  session of its client, and a handler that goes on after its client has given up, or a
  daemon that ends, changes nothing that a client sees but by a rename.
  `LockHasHolder` is inductive beside it: a taken mutex has a handler at a step of `Save` that will release it.
* **ActionGate.** `Working` says that the row's kind and place fit each other, `OnTarget` that
  the resolved target is the row unless discovery was lacking, `VersionsTell` that an
  object with the version that was read is unchanged since. They give `ActsOnTheRow`,
  `AnswerTellsTheOutcome` and `NoLostChange`, for any number of requests and kinds. The
  refinement `IsAtomic` uses `VersionsTell` for its one hard step: an `Update` that finds the version
  it read writes what it read and its own change, which by then is the object as it is and
  that change; so reading and writing back is one step at the moment of the write.
* **KubeReads.** `GivenIsKept` says that only the client that is kept was given out;
  `ReadBeforeStored` that an entry is older than its stamp by at most one list;
  `LoaderIsMarked` that the loader runs only while its flag is set. They give
  `OneClientPerContext` and `LiveNamespacesAreRecent`. On top of it, `StoredAreScanned` bounds
  how much older than its stamp the scan of an entry may be (the scan's timeout, and the TTL
  once more for an entry primed from the index), and `HeldAreScanned` says the same of what a
  handler holds, unless a load is going on or has raced it. They give `ChildrenAreScanned`.
  `MarksHaveGoroutines` says that the mark of either cache is set exactly while its goroutine
  is under way, and that the loader has an owner left to store when it is to store one.
* **UiRequests.** `Numbered` says that one request of a kind is awaited at most; `PaneOf` that the
  awaited detail, the open pane and its flag agree, with the view the session is in. They give
  `FlagsHaveRequest`, `PaneIsWhatWasOpened` and `MarksAreRows`, for any number of late answers.
* **UiPod.** `AskedIsOpen` says that an awaited view is open, `FollowHasQuery` that what is followed
  is known. With them `LogsAreOfOneTarget` and `FollowKeepsPolling` are inductive, for
  any number of containers and ticks.

Three theorems state properties that no run lists since a refinement which is checked and
proved says more (`ErrorClearedOnlyBySnapshot`, `SavedMeansReplaced`, `ListWatch`'s `IsSnapshotView`).

Only model-checked: everything under fairness, since the prover handles neither liveness under
WF and SF nor ENABLED: `CancelledWatchStops`, `IdleWatchIsReaped`, `PolledKeyConverges`, `RefreshSettles`,
`IntactViewFollows`, `CancelledLoopStops`, `ViewConverges`, `BootstrapEnds`, `AskedDaemonExits`, `StaleSocketRemoved`,
`ListArrives`, `DetailArrives`, `CallsEnd`, `NamespacesConverge`, `SearchForLogsEnds`. What can go wrong with most of
them is a flag, a mutex or a connection that nobody is left to clear; that there is always somebody is
safety and proved: `FlagsHaveOwner` and `WatchCanBeCancelled` (cache), `FlagsHaveRequest` (list and pane),
`FollowKeepsPolling` (logs), `LockHasHolder` (session), `MarksHaveGoroutines` (reads), `ConnectionsEnd` (bootstrap).
That somebody goes on then is fairness and TLC's. All safety properties, action properties and
refinements of the passing runs are proved.

## 6. Not modelled

* The conversion of API objects to rows, panes and log texts (`resources.go`, `resource_detail.go`,
  `pod_view.go`, `logs.go`) and the rendering of the UI: stateless data, covered by the
  repository's own table tests. The list filter, the parsing of flags, configuration,
  contexts, build info and timing: pure functions or a file read once.
* The length of the retry delays, so nothing is said about how often a server that ends its
  streams at once is asked.
* How long a list of the resource cache takes: its `lastSync` is stamped like the namespace
  cache's, for which `KubeReads` bounds the difference.
* The targets of a bulk action one by one, and what becomes of the rest when it is superseded.
* In the UI: search, sorting, autocompletion, the mouse (which calls the same functions as
  the keys), edit and terminal sessions, the two stacks of the history.
* A crash of the machine (`Save` calls no fsync), and the directories and permissions of the socket.

Worth doing next: the delays of the loop as state, bulk actions target by target, the
history's stacks (back, then forward, returns to the same session).
