------------------------------ MODULE ListWatch ------------------------------
(***************************************************************************)
(* One watch goroutine in full: c.watch of internal/cache/resources and,   *)
(* inside it, runListWatchLoop of internal/kube/resources.go against an    *)
(* API server that answers lists, opens and ends watch streams, and        *)
(* delivers one event per change of the cluster.                           *)
(*                                                                         *)
(* The loop reads no object out of an event: each event only tells it to   *)
(* list again.  Objects are therefore abstracted to the cluster's version. *)
(* The retry delays have no length here, a wait is one step.               *)
(***************************************************************************)
EXTENDS Integers

CONSTANT MaxVersion     \* bound on the cluster's changes

ASSUME MaxVersionAssumption == MaxVersion \in Nat \ {0}

VARIABLES
    loop,      \* where the goroutine is, see Sites and the actions
    fetched,   \* the answer of a list on its way to onUpdate, 0 if none
    rv,        \* resourceVersion, the version a stream is opened from
    sent,      \* the last version whose event the open stream has delivered
    items,     \* the entry's items, as onUpdate left them
    lastErr,   \* the entry's error, as the callbacks left it
    ctxDone,   \* the watch context is done
    cluster    \* the version of the cluster's objects (external)

entryVars == <<items, lastErr>>
vars == <<loop, fetched, rv, sent, entryVars, ctxDone, cluster>>

Versions == 0 .. MaxVersion

\* The four places that list: the first list of the loop, the relist after
\* a watch request was refused, after an event, and after a stream ended.
Sites == {"first", "refused", "event", "ended"}

\* "top" is the head of the loop, "stream" the select on the open stream,
\* "wait" waitRetry; the rest is c.watch around the loop.
Places == Sites \cup {"top", "stream", "wait", "failed", "retry", "stopping"}

Init ==
    /\ loop = "first"
    /\ fetched = 0
    /\ rv = 0
    /\ sent = 0
    /\ items = 0
    /\ lastErr = FALSE
    /\ ctxDone = FALSE
    /\ cluster = 1

-----------------------------------------------------------------------------
(* The environment.                                                        *)

ClusterChanges ==
    /\ cluster < MaxVersion
    /\ cluster' = cluster + 1
    /\ UNCHANGED <<loop, fetched, rv, sent, entryVars, ctxDone>>

CancelWatch ==
    /\ ~ctxDone
    /\ ctxDone' = TRUE
    /\ UNCHANGED <<loop, fetched, rv, sent, entryVars, cluster>>

-----------------------------------------------------------------------------
(* Listing: listFn and relistAndUpdate.                                    *)

ListAnswered ==
    /\ loop \in Sites
    /\ fetched = 0
    /\ ~ctxDone
    /\ fetched' = cluster
    /\ rv' = cluster
    /\ UNCHANGED <<loop, sent, entryVars, ctxDone, cluster>>

\* What follows a list that succeeded.
AfterList(site) ==
    CASE site = "first"   -> "top"
      [] site = "refused" -> "wait"
      [] site = "event"   -> "stream"
      [] site = "ended"   -> "top"

\* Mutant: the error of an earlier list stays.
OnUpdateKeepsError ==
    /\ loop \in Sites
    /\ fetched # 0
    /\ items' = fetched
    /\ fetched' = 0
    /\ loop' = AfterList(loop)
    /\ UNCHANGED <<rv, sent, lastErr, ctxDone, cluster>>

OnUpdate ==
    /\ loop \in Sites
    /\ fetched # 0
    /\ items' = fetched
    /\ lastErr' = FALSE
    /\ fetched' = 0
    /\ loop' = AfterList(loop)
    /\ UNCHANGED <<rv, sent, ctxDone, cluster>>

\* Mutant: c.watch does not look at the context after Watch has returned.
FirstListFailsBlind ==
    /\ loop = "first"
    /\ fetched = 0
    /\ loop' = "failed"
    /\ UNCHANGED <<fetched, rv, sent, entryVars, ctxDone, cluster>>

\* The first list fails: the loop returns the error to c.watch.
FirstListFails ==
    /\ loop = "first"
    /\ fetched = 0
    /\ loop' = IF ctxDone THEN "stopping" ELSE "failed"
    /\ UNCHANGED <<fetched, rv, sent, entryVars, ctxDone, cluster>>

RelistFailsTo(site, next) ==
    /\ loop = site
    /\ fetched = 0
    /\ lastErr' = TRUE
    /\ loop' = next
    /\ UNCHANGED <<fetched, rv, sent, items, ctxDone, cluster>>

\* Mutant: the error of a relist that an event asked for is swallowed, and
\* the loop stays on its stream.
RelistFailsSilently ==
    \/ RelistFailsTo("refused", "wait")
    \/ RelistFailsTo("ended", "wait")
    \/ /\ loop = "event"
       /\ fetched = 0
       /\ loop' = "stream"
       /\ UNCHANGED <<fetched, rv, sent, entryVars, ctxDone, cluster>>

\* A later list fails: onError, then on to the wait.  After an event the
\* loop gives up the stream and lists once more before it waits.
RelistFails ==
    \/ RelistFailsTo("refused", "wait")
    \/ RelistFailsTo("event", "ended")
    \/ RelistFailsTo("ended", "wait")

-----------------------------------------------------------------------------
(* The watch stream.                                                       *)

OpenStream ==
    /\ loop = "top"
    /\ ~ctxDone
    /\ loop' = "stream"
    /\ sent' = rv
    /\ UNCHANGED <<fetched, rv, entryVars, ctxDone, cluster>>

OpenRefused ==
    /\ loop = "top"
    /\ ~ctxDone
    /\ loop' = "refused"
    /\ UNCHANGED <<fetched, rv, sent, entryVars, ctxDone, cluster>>

\* Mutant: an event is taken for a bookmark.
EventNoRelist ==
    /\ loop = "stream"
    /\ sent < cluster
    /\ sent' = sent + 1
    /\ rv' = sent + 1
    /\ UNCHANGED <<loop, fetched, entryVars, ctxDone, cluster>>

\* The stream delivers the event of the next change.  Its version becomes
\* the version to resume from before the relist has been tried.
Event ==
    /\ loop = "stream"
    /\ sent < cluster
    /\ sent' = sent + 1
    /\ rv' = sent + 1
    /\ loop' = "event"
    /\ UNCHANGED <<fetched, entryVars, ctxDone, cluster>>

\* A bookmark says how far the stream has come.
Bookmark ==
    /\ loop = "stream"
    /\ rv' = sent
    /\ UNCHANGED <<loop, fetched, sent, entryVars, ctxDone, cluster>>

\* Mutant: a stream that ended is opened again without a relist.
StreamEndsNoRelist ==
    /\ loop = "stream"
    /\ loop' = "top"
    /\ UNCHANGED <<fetched, rv, sent, entryVars, ctxDone, cluster>>

\* The channel is closed, or an Error event such as 410 Gone arrives.
StreamEnds ==
    /\ loop = "stream"
    /\ loop' = "ended"
    /\ UNCHANGED <<fetched, rv, sent, entryVars, ctxDone, cluster>>

WaitEnds ==
    /\ loop = "wait"
    /\ loop' = "top"
    /\ UNCHANGED <<fetched, rv, sent, entryVars, ctxDone, cluster>>

\* The loop sees at its head, in its select or in its wait that the context
\* is done, and returns nil.
LoopReturns ==
    /\ ctxDone
    /\ loop \in {"top", "stream", "wait"}
    /\ loop' = "stopping"
    /\ UNCHANGED <<fetched, rv, sent, entryVars, ctxDone, cluster>>

-----------------------------------------------------------------------------
(* c.watch around the loop.                                                *)

ReportFailure ==
    /\ loop = "failed"
    /\ lastErr' = TRUE
    /\ loop' = "retry"
    /\ UNCHANGED <<fetched, rv, sent, items, ctxDone, cluster>>

WatchAgain ==
    /\ loop = "retry"
    /\ loop' = "first"
    /\ UNCHANGED <<fetched, rv, sent, entryVars, ctxDone, cluster>>

QuitRetry ==
    /\ loop = "retry"
    /\ ctxDone
    /\ loop' = "stopping"
    /\ UNCHANGED <<fetched, rv, sent, entryVars, ctxDone, cluster>>

-----------------------------------------------------------------------------
ListFails == FirstListFails \/ RelistFails

Next ==
    \/ ClusterChanges \/ CancelWatch
    \/ ListAnswered \/ OnUpdate \/ ListFails
    \/ OpenStream \/ OpenRefused \/ Event \/ Bookmark \/ StreamEnds
    \/ WaitEnds \/ LoopReturns
    \/ ReportFailure \/ WatchAgain \/ QuitRetry

Spec == Init /\ [][Next]_vars

(***************************************************************************)
(* Fairness.  The goroutine runs; a request ends, at the latest by the     *)
(* client's two-minute timeout (client_factory.go); the API server answers *)
(* lists again and again, and an open stream delivers its events.          *)
(***************************************************************************)
GoroutineRuns ==
    /\ WF_vars(OnUpdate)
    /\ WF_vars(ListAnswered \/ ListFails)
    /\ WF_vars(OpenStream \/ OpenRefused)
    /\ WF_vars(WaitEnds \/ LoopReturns)
    /\ WF_vars(LoopReturns)
    /\ WF_vars(ReportFailure)
    /\ WF_vars(WatchAgain \/ QuitRetry)

ServerAnswers ==
    /\ SF_vars(ListAnswered)
    /\ SF_vars(Event)

FairSpec     == Spec /\ GoroutineRuns
AnsweredSpec == FairSpec /\ ServerAnswers

\* The client's timeout also ends every watch stream.
StreamsTimeOut == SF_vars(StreamEnds)

-----------------------------------------------------------------------------
(* Properties.                                                             *)

TypeOK ==
    /\ loop \in Places
    /\ fetched \in Versions
    /\ rv \in Versions
    /\ sent \in Versions
    /\ items \in Versions
    /\ lastErr \in BOOLEAN
    /\ ctxDone \in BOOLEAN
    /\ cluster \in Versions

\* A change whose event has been consumed and that is not in the view is
\* never passed over in silence: the view carries the error of the relist
\* that would have fetched it.
MissedChangeIsReported ==
    loop \in {"top", "stream", "wait"} => rv <= items \/ lastErr

\* An intact view follows the stream: it catches up with the cluster or
\* shows an error, also if no stream ever ends.
IntactViewFollows ==
    items < cluster /\ ~lastErr /\ ~ctxDone ~> items = cluster \/ lastErr \/ ctxDone

\* With streams that end at the latest by the client's timeout, the view
\* arrives at the state of the cluster and loses its error.
ViewConverges == StreamsTimeOut => []<>(ctxDone \/ (items = cluster /\ ~lastErr))

\* After its context is done the goroutine comes to its end.
CancelledLoopStops == ctxDone ~> loop = "stopping"

-----------------------------------------------------------------------------
(* Refinement: the goroutine is a worker of ResourceCache with one key.    *)

RC == INSTANCE ResourceCache WITH
    Keys <- {"key"}, Workers <- {"worker"}, Requests <- {},
    NoKey <- "none", NoWorker <- "none", HasWatcher <- TRUE,
    RefreshInterval <- 1, StaleAfter <- 1, WatchIdleAfter <- 1, MaxNow <- 1,
    items       <- [k \in {"key"} |-> items],
    lastSync    <- [k \in {"key"} |-> IF items = 0 THEN 0 ELSE 1],
    lastAccess  <- [k \in {"key"} |-> 1],
    refreshing  <- IF lastErr \/ items = 0 THEN {"key"} ELSE {},
    watching    <- {"key"},
    lastErr     <- IF lastErr THEN {"key"} ELSE {},
    watchCancel <- [k \in {"key"} |-> "worker"],
    pc          <- [w \in {"worker"} |->
                       IF loop \in {"failed", "retry", "stopping"} THEN loop
                       ELSE IF fetched # 0 THEN "deliver" ELSE "watch"],
    keyOf       <- [w \in {"worker"} |-> "key"],
    got         <- [w \in {"worker"} |-> fetched],
    cancelled   <- {},
    request     <- [r \in {} |-> 0],
    reaper      <- [pc |-> "waiting", at |-> 0, cancels |-> {}],
    stopped     <- ctxDone,
    clock       <- 1

\* Every step of the goroutine is a step that ResourceCache allows a watch
\* worker, or none at all as seen from the cache.
IsWatchWorker ==
    [][RC!WatchStep("worker") \/ RC!ClusterChanges \/ RC!Shutdown]_(RC!vars)

\* The loop alone, with all its ways to list, is the one reader that the cache
\* promises for a key.  Time stands still here.
View == INSTANCE SnapshotView WITH
    Keys    <- {"key"},
    shown   <- [k \in {"key"} |-> items],
    since   <- [k \in {"key"} |-> IF items = 0 THEN 0 ELSE 1],
    failed  <- IF lastErr THEN {"key"} ELSE {},
    reading <- [k \in {"key"} |-> fetched],
    current <- cluster,
    now     <- 1

IsSnapshotView == View!Spec

=============================================================================
