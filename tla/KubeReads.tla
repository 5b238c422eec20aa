------------------------------ MODULE KubeReads ------------------------------
(***************************************************************************)
(* What the daemon reads from Kubernetes besides the resource lists, and   *)
(* the clients it reads with: internal/cache/namespaces/cache.go, the      *)
(* ResourceDetailEnricher of internal/kube/resource_detail.go with its     *)
(* cache of owned children, and internal/kube/client_factory.go.           *)
(*                                                                         *)
(* One kube context, one scope of parents.  The goroutines are handlers of *)
(* detail requests, the loader of owned children, and the refresh of the   *)
(* namespaces.  Each section under a lock is a step; calls of the API      *)
(* server lie between them, and may fail.                                  *)
(*                                                                         *)
(* Time is kept as ages that Tick advances up to Cap.  A list counts from  *)
(* the moment it is sent.  Of names and children only how old they are     *)
(* matters, up to the ages that they are compared with.  A target whose    *)
(* list fails is left out of a scan, which counts all the same.            *)
(***************************************************************************)
EXTENDS FiniteSets, Naturals, Sequences

CONSTANTS
    Requests,        \* handlers of detail requests
    Owners,          \* parents of the scope
    Loader,          \* the goroutine of ensureOwnedChildrenLoaded
    Refresher,       \* the goroutine of the namespace cache
    Mixes,           \* what is asked for in one behaviour (bound)
    RefreshInterval, StaleAfter, FetchTimeout,   \* of the namespace cache
    TTL, ScanTimeout,                            \* of the owned children
    SoftLimit, HardLimit,                        \* of the per-owner entries
    MaxChanges       \* bound on the changes of the cluster's namespaces

ASSUME UsersAssumption == Loader # Refresher /\ {Loader, Refresher} \cap Requests = {}
ASSUME MixesAssumption == Mixes \subseteq SUBSET {"namespaces", "details"}
ASSUME TimesAssumption ==
    /\ {RefreshInterval, StaleAfter, FetchTimeout, TTL, ScanTimeout} \subseteq Nat
    /\ RefreshInterval <= StaleAfter
ASSUME LimitsAssumption == {SoftLimit, HardLimit, MaxChanges} \subseteq Nat

VARIABLES
    asked,     \* which of the caches is asked in this behaviour; never changes
    at,        \* where a goroutine is
    wants,     \* the clients it has yet to look up
    kept,      \* ClientFactory: the client of a flavour, numbered; 0 is none
    given,     \* history: clients of a flavour that were given out
    names,     \* the entry of the namespace cache
    reading,   \* the age of the refresher's list, and is it up to date
    changes,   \* changes of the cluster's namespaces so far
    owner,     \* the parent whose detail a request shows; never changes
    cached,    \* the children it has in hand
    children,  \* ownedChildren: entries per owner
    index,     \* ownedChildIndex: the last scan of the scope
    loading,   \* ownedChildrenLoad has the scope
    scan,      \* the loader's scan
    raced      \* history: a load ended while the request was under way

clientVars == <<at, wants, kept, given>>
nameVars   == <<names, reading, changes>>
childVars  == <<owner, cached, children, index, loading, scan, raced>>
vars == <<asked, clientVars, nameVars, childVars>>

Users    == Requests \cup {Loader, Refresher}
Flavours == {"typed", "dynamic", "extensions"}
None     == "none"

Greater(a, b) == IF a > b THEN a ELSE b
MaxAge == ScanTimeout + 2 * TTL
Cap    == Greater(MaxAge, StaleAfter + FetchTimeout) + 1
AgeCap == Greater(StaleAfter, TTL + 1)
Older(age, cap) == IF age < cap THEN age + 1 ELSE cap

\* An entry: when it was stored, when its scan began, and was there one.
Nil     == [age |-> AgeCap, scan |-> Cap, failed |-> FALSE]
Entries == [age : 0..AgeCap, scan : 0..Cap, failed : BOOLEAN]
Aged(e) == [e EXCEPT !.age = Older(@, AgeCap), !.scan = Older(@, Cap)]

NoList == [age |-> 0, upToDate |-> FALSE]
NoScan == [age |-> 0, failed |-> FALSE, for |-> None, left |-> {}]

Init ==
    /\ asked \in Mixes
    /\ at = [u \in Users |-> "idle"]
    /\ wants = [u \in Users |-> <<>>]
    /\ kept = [f \in Flavours |-> 0] /\ given = [f \in Flavours |-> {}]
    /\ names = [known |-> FALSE, age |-> AgeCap, read |-> Cap, upToDate |-> FALSE,
                refreshing |-> FALSE, failed |-> FALSE]
    /\ reading = NoList
    /\ changes = 0
    /\ owner \in [Requests -> Owners]
    /\ cached = [r \in Requests |-> Nil]
    /\ children = [o \in Owners |-> Nil]
    /\ index = Nil
    /\ loading = FALSE
    /\ scan = NoScan
    /\ raced = [r \in Requests |-> FALSE]

-----------------------------------------------------------------------------
(* ClientFactory: the lock is released while a client is built.            *)

Goes(u, to) == at' = [at EXCEPT ![u] = to]

Gives(u, client) ==
    /\ given' = [given EXCEPT ![Head(wants[u])] = @ \cup {client}]
    /\ wants' = [wants EXCEPT ![u] = Tail(@)]
    /\ Goes(u, IF Len(wants[u]) = 1 THEN "ready" ELSE "lookup")

Lookup(u) ==
    /\ at[u] = "lookup"
    /\ \/ kept[Head(wants[u])] # 0 /\ Gives(u, kept[Head(wants[u])])
       \/ kept[Head(wants[u])] = 0 /\ Goes(u, "building") /\ UNCHANGED <<wants, given>>
    /\ UNCHANGED <<asked, kept, nameVars, childVars>>

NewClient(f) == kept[f] + 1

\* Mutant: what was stored meanwhile is not looked at again.
BuiltOver(u) ==
    LET f == Head(wants[u])
    IN  /\ at[u] = "building"
        /\ kept' = [kept EXCEPT ![f] = NewClient(f)]
        /\ Gives(u, kept'[f])
        /\ UNCHANGED <<asked, nameVars, childVars>>

\* The client is built; another one may have been stored meanwhile.
Built(u) ==
    LET f == Head(wants[u])
    IN  /\ at[u] = "building"
        /\ kept' = [kept EXCEPT ![f] = IF @ = 0 THEN NewClient(f) ELSE @]
        /\ Gives(u, kept'[f])
        /\ UNCHANGED <<asked, nameVars, childVars>>

\* The kubeconfig does not load, or has no such context.
BuildFails(u) ==
    /\ at[u] = "building"
    /\ wants' = [wants EXCEPT ![u] = <<>>]
    /\ Goes(u, "failed")
    /\ UNCHANGED <<asked, kept, given, nameVars, childVars>>

-----------------------------------------------------------------------------
(* The namespace cache.                                                    *)

ShouldRefresh == ~names.refreshing /\ (~names.known \/ names.age >= RefreshInterval)

\* Mutant: the age is not looked at.
StateUnaged ==
    IF ~names.known THEN (IF names.failed THEN "STALE" ELSE "CATCHING_UP")
    ELSE IF names.refreshing THEN "CATCHING_UP"
    ELSE IF names.failed THEN "STALE" ELSE "LIVE"

\* buildPayload: what the answer calls the state of the names.
State ==
    IF ~names.known THEN (IF names.failed THEN "STALE" ELSE "CATCHING_UP")
    ELSE IF names.refreshing THEN "CATCHING_UP"
    ELSE IF names.failed THEN "STALE"
    ELSE IF names.age >= StaleAfter THEN "STALE" ELSE "LIVE"

GetNamespaces ==
    /\ "namespaces" \in asked
    /\ ShouldRefresh
    /\ names' = [names EXCEPT !.refreshing = TRUE]
    /\ Goes(Refresher, "lookup")
    /\ wants' = [wants EXCEPT ![Refresher] = <<"typed">>]
    /\ UNCHANGED <<asked, kept, given, reading, changes, childVars>>

NamespacesSent ==
    /\ at[Refresher] = "ready"
    /\ reading' = [age |-> 0, upToDate |-> TRUE]
    /\ Goes(Refresher, "listing")
    /\ UNCHANGED <<asked, wants, kept, given, names, changes, childVars>>

RefreshOK ==
    /\ at[Refresher] = "listing"
    /\ names' = [known |-> TRUE, age |-> 0, read |-> reading.age,
                 upToDate |-> reading.upToDate, refreshing |-> FALSE, failed |-> FALSE]
    /\ reading' = NoList
    /\ Goes(Refresher, "idle")
    /\ UNCHANGED <<asked, wants, kept, given, changes, childVars>>

\* Mutant: the flag is left behind.
RefreshFailsBusy ==
    /\ at[Refresher] \in {"listing", "failed"}
    /\ names' = [names EXCEPT !.failed = TRUE]
    /\ reading' = NoList
    /\ Goes(Refresher, "idle")
    /\ UNCHANGED <<asked, wants, kept, given, changes, childVars>>

RefreshFails ==
    /\ at[Refresher] \in {"listing", "failed"}
    /\ names' = [names EXCEPT !.refreshing = FALSE, !.failed = TRUE]
    /\ reading' = NoList
    /\ Goes(Refresher, "idle")
    /\ UNCHANGED <<asked, wants, kept, given, changes, childVars>>

NamespacesChange ==
    /\ "namespaces" \in asked
    /\ changes < MaxChanges
    /\ changes' = changes + 1
    /\ names' = [names EXCEPT !.upToDate = FALSE]
    /\ reading' = [reading EXCEPT !.upToDate = FALSE]
    /\ UNCHANGED <<asked, clientVars, childVars>>

-----------------------------------------------------------------------------
(* A detail request: Enrich.                                               *)

\* fetchObject takes the clients it needs: those of discovery and of the
\* object, the one of the CRDs, or for a custom resource that and the object's.
AskDetail(r) ==
    /\ "details" \in asked
    /\ at[r] = "idle"
    /\ \E clients \in {<<"typed", "dynamic">>, <<"extensions">>,
                       <<"extensions", "dynamic">>} :
          wants' = [wants EXCEPT ![r] = clients]
    /\ Goes(r, "lookup")
    /\ UNCHANGED <<asked, kept, given, nameVars, childVars>>

\* The object is got, or not found, or the cached payload goes out as it is.
GetObject(r) ==
    /\ \/ at[r] = "ready" /\ \E to \in {"owner", "idle"} : Goes(r, to)
       \/ at[r] = "failed" /\ Goes(r, "idle")
    /\ UNCHANGED <<asked, wants, kept, given, nameVars, childVars>>

\* fetchOwnedChildren: the entry of the owner, fresh or stale.
ReadOwner(r) ==
    LET e == children[owner[r]]
    IN  /\ at[r] = "owner"
        /\ cached' = [cached EXCEPT ![r] = e]
        /\ Goes(r, IF e.age <= TTL THEN "answer" ELSE "index")
        /\ UNCHANGED <<asked, wants, kept, given, nameVars, owner, children, index, loading,
                       scan, raced>>

\* Mutant: the index does not expire.
IndexIsThere == index # Nil

\* The index, which is dropped when it has expired.
IndexIsFresh == index.age <= TTL

ReadIndex(r) ==
    /\ at[r] = "index"
    /\ \/ /\ IndexIsFresh
          /\ cached' = [cached EXCEPT ![r] = index]
          /\ Goes(r, "prime")
          /\ UNCHANGED index
       \/ /\ ~IndexIsFresh
          /\ index' = Nil
          /\ Goes(r, "ensure")
          /\ UNCHANGED cached
    /\ UNCHANGED <<asked, wants, kept, given, nameVars, owner, children, loading, scan, raced>>

\* storeOwnedChildren: over the soft limit what is expired goes, over the hard
\* limit everything.
Fits(entries) == Cardinality({o \in Owners : entries[o] # Nil})

Pruned ==
    LET live == [o \in Owners |-> IF children[o].age > TTL THEN Nil ELSE children[o]]
    IN  IF Fits(children) <= SoftLimit THEN children
        ELSE IF Fits(live) <= HardLimit THEN live
        ELSE [o \in Owners |-> Nil]

Store(o, e) == children' = [Pruned EXCEPT ![o] = e]

\* The entry is stamped anew, though its scan is not.
Prime(r) ==
    /\ at[r] = "prime"
    /\ Store(owner[r], [cached[r] EXCEPT !.age = 0])
    /\ Goes(r, "answer")
    /\ UNCHANGED <<asked, wants, kept, given, nameVars, owner, cached, index, loading, scan, raced>>

\* ensureOwnedChildrenLoaded starts the loader unless it runs.
Ensure(r) ==
    /\ at[r] = "ensure"
    /\ \/ /\ loading
          /\ Goes(r, "answer")
          /\ UNCHANGED <<wants, loading, scan>>
       \/ /\ ~loading
          /\ loading' = TRUE
          /\ scan' = [NoScan EXCEPT !.for = owner[r]]
          /\ at' = [at EXCEPT ![r] = "answer", ![Loader] = "lookup"]
          /\ wants' = [wants EXCEPT ![Loader] = <<"typed", "dynamic">>]
    /\ UNCHANGED <<asked, kept, given, nameVars, owner, cached, children, index, raced>>

\* The answer: the children in hand, and is a load going on now.
AnswerDetail(r) ==
    /\ at[r] = "answer"
    /\ Goes(r, "idle")
    /\ cached' = [cached EXCEPT ![r] = Nil]
    /\ raced' = [raced EXCEPT ![r] = FALSE]
    /\ UNCHANGED <<asked, wants, kept, given, nameVars, owner, children, index, loading, scan>>

-----------------------------------------------------------------------------
(* The loader: one at a time, within ScanTimeout.                          *)

\* loadOwnedChildren: lists every target; some owners have children.  Without
\* targets or a client there is no result but for the owner asked about.
Scan ==
    /\ at[Loader] \in {"ready", "failed"}
    /\ \/ at[Loader] = "ready" /\ \E some \in SUBSET Owners :
             scan' = [scan EXCEPT !.left = some \cup {scan.for}]
       \/ scan' = [scan EXCEPT !.left = {scan.for}, !.failed = TRUE]
    /\ Goes(Loader, "index")
    /\ UNCHANGED <<asked, wants, kept, given, nameVars, owner, cached, children, index, loading,
                   raced>>

Scanned == [age |-> 0, scan |-> IF scan.failed THEN Cap ELSE scan.age, failed |-> scan.failed]

StoreIndex ==
    /\ at[Loader] = "index"
    /\ index' = IF scan.failed THEN index ELSE Scanned
    /\ Goes(Loader, "store")
    /\ UNCHANGED <<asked, wants, kept, given, nameVars, owner, cached, children, loading, scan,
                   raced>>

StoreOwner ==
    /\ at[Loader] = "store"
    /\ \E o \in scan.left :
          /\ Store(o, Scanned)
          /\ scan' = [scan EXCEPT !.left = @ \ {o}]
          /\ Goes(Loader, IF scan.left = {o} THEN "clear" ELSE "store")
    /\ UNCHANGED <<asked, wants, kept, given, nameVars, owner, cached, index, loading, raced>>

ClearLoad ==
    /\ at[Loader] = "clear"
    /\ loading' = FALSE
    /\ scan' = NoScan
    /\ raced' = [r \in Requests |-> raced[r] \/ at[r] \in {"index", "ensure", "answer"}]
    /\ Goes(Loader, "idle")
    /\ UNCHANGED <<asked, wants, kept, given, nameVars, owner, cached, children, index>>

-----------------------------------------------------------------------------
\* Time passes, but not past the deadline of a list.  What a handler has in
\* hand keeps its age: it waits for nothing between its sections.
Tick ==
    /\ loading => scan.age < ScanTimeout
    /\ at[Refresher] = "listing" => reading.age < FetchTimeout
    /\ names' = [names EXCEPT !.age = Older(@, AgeCap), !.read = Older(@, Cap)]
    /\ reading' = IF at[Refresher] = "listing" THEN [reading EXCEPT !.age = @ + 1] ELSE reading
    /\ children' = [o \in Owners |-> Aged(children[o])]
    /\ index' = Aged(index)
    /\ scan' = IF loading THEN [scan EXCEPT !.age = @ + 1] ELSE scan
    /\ UNCHANGED <<asked, clientVars, changes, owner, cached, loading, raced>>

Client(u)  == Lookup(u) \/ Built(u) \/ BuildFails(u)
Request(r) == GetObject(r) \/ ReadOwner(r) \/ ReadIndex(r) \/ Prime(r) \/ Ensure(r)
              \/ AnswerDetail(r)
Refresh    == NamespacesSent \/ RefreshOK \/ RefreshFails
Load       == Scan \/ StoreIndex \/ StoreOwner \/ ClearLoad

Next ==
    \/ \E u \in Users : Client(u)
    \/ \E r \in Requests : AskDetail(r) \/ Request(r)
    \/ GetNamespaces \/ Refresh \/ NamespacesChange
    \/ Load \/ Tick

Spec == Init /\ [][Next]_vars

\* The two goroutines run and time passes; somebody polls the namespaces; a
\* client can be built, and a list succeeds, now and then.  No fairness on the
\* handlers: nothing waits for them.
FairSpec ==
    /\ Spec
    /\ WF_vars(Client(Refresher)) /\ SF_vars(Built(Refresher))
    /\ WF_vars(Refresh) /\ SF_vars(RefreshOK) /\ WF_vars(GetNamespaces)
    /\ WF_vars(Client(Loader) \/ Load) /\ WF_vars(Tick)

-----------------------------------------------------------------------------
(* Properties.                                                             *)

\* Every variable has its type.
TypeOK ==
    /\ asked \in Mixes
    /\ at \in [Users -> {"idle", "lookup", "building", "ready", "failed", "listing", "owner",
                         "index", "prime", "ensure", "answer", "store", "clear"}]
    /\ wants \in [Users -> Seq(Flavours)]
    /\ kept \in [Flavours -> Nat] /\ given \in [Flavours -> SUBSET Nat]
    /\ names \in [known : BOOLEAN, age : 0..AgeCap, read : 0..Cap, upToDate : BOOLEAN,
                  refreshing : BOOLEAN, failed : BOOLEAN]
    /\ reading \in [age : 0..FetchTimeout, upToDate : BOOLEAN]
    /\ changes \in 0..MaxChanges
    /\ owner \in [Requests -> Owners] /\ cached \in [Requests -> Entries]
    /\ children \in [Owners -> Entries] /\ index \in Entries
    /\ loading \in BOOLEAN /\ raced \in [Requests -> BOOLEAN]
    /\ scan \in [age : 0..ScanTimeout, failed : BOOLEAN, for : Owners \cup {None},
                 left : SUBSET Owners]

\* Whoever asks the factory for a client of a context gets the same one, also
\* two goroutines that both found none and built theirs at the same time
\* (client_factory.go 41-63): connections and rate limits are shared.
OneClientPerContext == \A f \in Flavours : Cardinality(given[f]) <= 1

\* Names that an answer calls LIVE were listed within StaleAfter and the time
\* a list may take: lastSync (cache.go 117) is stamped when the list ends, and
\* what it returned may be that much older.
LiveNamespacesAreRecent ==
    State = "LIVE" => names.read < StaleAfter + FetchTimeout

\* Names that somebody keeps asking for arrive at those of the cluster: the
\* refreshing flag (cache.go 74-105) is never left behind by a list or a client
\* that failed.
NamespacesConverge == "namespaces" \in asked => []<>names.upToDate

\* Children that are answered as complete (not loading) come from a scan, made
\* at most twice the TTL before (the index stamps an entry anew,
\* resource_detail.go 580), or from a scan that was tried and failed; but for a
\* request that missed before a load ended and looked at the flag after it
\* (583-586): that one answers what it missed with as if it were complete.
ChildrenAreScanned ==
    [][\A r \in Requests : at[r] = "answer" /\ at'[r] = "idle" /\ ~loading =>
          raced[r] \/ cached[r].failed \/ cached[r].scan <= MaxAge]_vars
=============================================================================
