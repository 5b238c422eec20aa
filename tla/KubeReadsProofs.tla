--------------------------- MODULE KubeReadsProofs ---------------------------
(***************************************************************************)
(* The client factory gives out one client of a flavour, names that the    *)
(* namespace cache calls LIVE are recent, and children that are answered   *)
(* come from a recent scan, for any number of handlers, of owners, and for *)
(* all intervals, thresholds and timeouts.                                 *)
(*                                                                         *)
(* The invariant has one part per group of variables: clients, names, and  *)
(* children.  Only two facts join them: a goroutine that looks for a       *)
(* client knows which one, and the loader runs while its mark is set.      *)
(***************************************************************************)
EXTENDS KubeReads, FiniteSetTheorems, SequenceTheorems, TLAPS

Places == {"idle", "lookup", "building", "ready", "failed", "listing", "owner", "index",
           "prime", "ensure", "answer", "store", "clear"}

\* What was given out is what is kept, and nothing was before there is any.
GivenIsKept == \A f \in Flavours : given[f] \subseteq {kept[f]} \ {0}

ClientInv ==
    /\ at \in [Users -> Places]
    /\ wants \in [Users -> Seq(Flavours)]
    /\ kept \in [Flavours -> Nat] /\ given \in [Flavours -> SUBSET Nat]
    /\ GivenIsKept
    /\ \A u \in Users : at[u] \in {"lookup", "building"} => wants[u] # <<>>

\* An entry is at most one list older than it says, up to the bound of ages.
ReadBeforeStored == names.age < AgeCap => names.read <= names.age + FetchTimeout

NameEntries == [known : BOOLEAN, age : 0..AgeCap, read : 0..Cap, upToDate : BOOLEAN,
                refreshing : BOOLEAN, failed : BOOLEAN]

NameLists == [age : 0..FetchTimeout, upToDate : BOOLEAN]

NamesInv ==
    /\ names \in NameEntries
    /\ reading \in NameLists
    /\ changes \in 0..MaxChanges
    /\ ReadBeforeStored

Scans == [age : 0..ScanTimeout, failed : BOOLEAN, for : Owners \cup {None},
          left : SUBSET Owners]

ChildInv ==
    /\ owner \in [Requests -> Owners] /\ cached \in [Requests -> Entries]
    /\ children \in [Owners -> Entries] /\ index \in Entries
    /\ loading \in BOOLEAN /\ raced \in [Requests -> BOOLEAN]
    /\ scan \in Scans

\* The loader runs only while its mark is set, for somebody's owner.
LoaderIsMarked == at[Loader] # "idle" => loading /\ scan.for \in Owners

IInv == asked \in Mixes /\ ClientInv /\ NamesInv /\ ChildInv /\ LoaderIsMarked

LEMMA IInvTypes == IInv => TypeOK
BY DEF IInv, ClientInv, NamesInv, ChildInv, Places, Scans, NameEntries, NameLists, TypeOK

-----------------------------------------------------------------------------
(* The constants, and the parts while their variables stay.                *)

LEMMA Times ==
    /\ RefreshInterval \in Nat /\ StaleAfter \in Nat /\ FetchTimeout \in Nat
    /\ TTL \in Nat /\ ScanTimeout \in Nat /\ MaxChanges \in Nat
    /\ Cap \in Nat /\ AgeCap \in Nat
    /\ FetchTimeout <= Cap /\ ScanTimeout <= Cap /\ StaleAfter <= AgeCap /\ TTL < AgeCap
    /\ MaxAge = ScanTimeout + 2 * TTL
<1>1. /\ RefreshInterval \in Nat /\ StaleAfter \in Nat /\ FetchTimeout \in Nat
      /\ TTL \in Nat /\ ScanTimeout \in Nat /\ MaxChanges \in Nat
  BY TimesAssumption, LimitsAssumption
<1> QED
  BY <1>1 DEF Cap, AgeCap, MaxAge, Greater

LEMMA OlderIsAnAge ==
    ASSUME NEW cap \in Nat, NEW age \in 0..cap
    PROVE  /\ Older(age, cap) \in 0..cap
           /\ Older(age, cap) <= age + 1
           /\ Older(age, cap) < cap => Older(age, cap) = age + 1
BY DEF Older

LEMMA UsersDiffer ==
    /\ Loader \in Users /\ Refresher \in Users /\ Loader # Refresher
    /\ \A r \in Requests : r \in Users /\ r # Loader /\ r # Refresher
BY UsersAssumption DEF Users

LEMMA EntriesThere == Nil \in Entries /\ \A e \in Entries : Aged(e) \in Entries
<1>1. Nil \in Entries
  BY Times DEF Nil, Entries
<1>2. ASSUME NEW e \in Entries PROVE Aged(e) \in Entries
  <2>1. Older(e.age, AgeCap) \in 0..AgeCap /\ Older(e.scan, Cap) \in 0..Cap
    BY Times, OlderIsAnAge DEF Entries
  <2> QED
    BY <2>1 DEF Aged, Entries
<1> QED
  BY <1>1, <1>2

LEMMA NoScanIsThere ==
    /\ NoScan \in Scans
    /\ \A o \in Owners :
           [NoScan EXCEPT !.for = o] \in Scans /\ [NoScan EXCEPT !.for = o].for = o
<1>1. {} \in SUBSET Owners /\ 0 \in 0..ScanTimeout
  BY Times
<1>2. NoScan \in Scans
  BY <1>1 DEF NoScan, Scans
<1>3. ASSUME NEW o \in Owners
      PROVE  [NoScan EXCEPT !.for = o] \in Scans /\ [NoScan EXCEPT !.for = o].for = o
  BY <1>2 DEF Scans
<1> QED
  BY <1>2, <1>3

LEMMA NamesStay == NamesInv /\ UNCHANGED nameVars => NamesInv'
BY DEF NamesInv, ReadBeforeStored, nameVars

LEMMA ChildrenStay == ChildInv /\ UNCHANGED childVars => ChildInv'
BY DEF ChildInv, childVars

\* A goroutine goes on without a client to look for.
LEMMA GoesOn ==
    ASSUME ClientInv, NEW u \in Users, NEW to \in Places \ {"lookup", "building"},
           Goes(u, to), UNCHANGED <<wants, kept, given>>
    PROVE  ClientInv' /\ \A v \in Users \ {u} : at'[v] = at[v]
BY DEF ClientInv, GivenIsKept, Goes

-----------------------------------------------------------------------------
(* Clients.                                                                *)

LEMMA Shorter ==
    ASSUME NEW s \in Seq(Flavours), s # <<>>
    PROVE  /\ Head(s) \in Flavours
           /\ Tail(s) \in Seq(Flavours)
           /\ Len(s) # 1 => Tail(s) # <<>>
<1>1. Len(s) \in Nat /\ Len(s) # 0
  BY EmptySeq
<1>2. /\ Head(s) \in Flavours /\ Tail(s) \in Seq(Flavours) /\ Len(Tail(s)) = Len(s) - 1
  BY HeadTailProperties
<1> QED
  BY <1>1, <1>2, EmptySeq

LEMMA GivesOne ==
    ASSUME ClientInv, NEW u \in Users, wants[u] # <<>>, NEW client \in Nat \ {0},
           kept' \in [Flavours -> Nat], kept'[Head(wants[u])] = client,
           \A f \in Flavours : given[f] \subseteq {kept'[f]} \ {0},
           Gives(u, client)
    PROVE  ClientInv' /\ at'[u] # "idle" /\ \A v \in Users \ {u} : at'[v] = at[v]
<1> DEFINE f == Head(wants[u])
<1>1. /\ f \in Flavours /\ Tail(wants[u]) \in Seq(Flavours)
      /\ Len(wants[u]) # 1 => Tail(wants[u]) # <<>>
  BY Shorter DEF ClientInv
<1>2. given' = [given EXCEPT ![f] = @ \cup {client}]
  BY DEF Gives
<1>3. given' \in [Flavours -> SUBSET Nat] /\ GivenIsKept'
  BY <1>1, <1>2 DEF ClientInv, GivenIsKept
<1>4. /\ wants' = [wants EXCEPT ![u] = Tail(wants[u])]
      /\ at' = [at EXCEPT ![u] = IF Len(wants[u]) = 1 THEN "ready" ELSE "lookup"]
  BY DEF Gives, Goes, ClientInv
<1>5. wants' \in [Users -> Seq(Flavours)] /\ at' \in [Users -> Places]
  BY <1>1, <1>4 DEF ClientInv, Places
<1>6. \A v \in Users : at'[v] \in {"lookup", "building"} => wants'[v] # <<>>
  BY <1>1, <1>4 DEF ClientInv
<1>7. at'[u] # "idle" /\ \A v \in Users \ {u} : at'[v] = at[v]
  BY <1>4 DEF ClientInv
<1> QED
  BY <1>3, <1>5, <1>6, <1>7 DEF ClientInv

LEMMA ClientKeeps ==
    ASSUME IInv, NEW u \in Users, Client(u)
    PROVE  IInv'
<1> USE DEF IInv
<1>1. UNCHANGED <<asked, nameVars, childVars>> /\ at[u] \in {"lookup", "building"}
      /\ wants[u] # <<>>
  BY DEF Client, Lookup, Built, BuildFails, ClientInv
<1> DEFINE f == Head(wants[u])
<1>2. f \in Flavours
  BY <1>1, Shorter DEF ClientInv
<1>3. ClientInv' /\ (at'[u] # "idle") /\ \A v \in Users \ {u} : at'[v] = at[v]
  <2>1. CASE Lookup(u) /\ kept[f] # 0
    <3>1. Gives(u, kept[f]) /\ kept' = kept /\ kept[f] \in Nat \ {0}
      BY <1>2, <2>1 DEF Lookup, ClientInv
    <3> QED
      BY <1>1, <3>1, GivesOne DEF ClientInv, GivenIsKept
  <2>2. CASE Lookup(u) /\ kept[f] = 0
    <3>1. at' = [at EXCEPT ![u] = "building"] /\ UNCHANGED <<wants, kept, given>>
      BY <2>2 DEF Lookup, Goes
    <3> QED
      BY <1>1, <3>1 DEF ClientInv, GivenIsKept, Places
  <2>3. CASE Built(u)
    <3>1. /\ kept' = [kept EXCEPT ![f] = IF kept[f] = 0 THEN kept[f] + 1 ELSE kept[f]]
          /\ Gives(u, kept'[f])
      BY <2>3 DEF Built, NewClient
    <3>2. /\ kept' \in [Flavours -> Nat] /\ kept'[f] \in Nat \ {0}
          /\ \A g \in Flavours : given[g] \subseteq {kept'[g]} \ {0}
      BY <1>2, <3>1 DEF ClientInv, GivenIsKept
    <3> QED
      BY <1>1, <3>1, <3>2, GivesOne
  <2>4. CASE BuildFails(u)
    <3>1. /\ wants' = [wants EXCEPT ![u] = <<>>] /\ at' = [at EXCEPT ![u] = "failed"]
          /\ UNCHANGED <<kept, given>>
      BY <2>4 DEF BuildFails, Goes
    <3> QED
      BY <3>1 DEF ClientInv, GivenIsKept, Places
  <2> QED
    BY <2>1, <2>2, <2>3, <2>4 DEF Client, Lookup
<1>4. LoaderIsMarked'
  BY <1>1, <1>3, UsersDiffer DEF LoaderIsMarked, childVars
<1> QED
  BY <1>1, <1>3, <1>4, NamesStay, ChildrenStay

\* A goroutine begins to look for clients.
LEMMA LooksFor ==
    ASSUME ClientInv, NEW u \in Users, NEW clients \in Seq(Flavours), clients # <<>>,
           wants' = [wants EXCEPT ![u] = clients], Goes(u, "lookup"), UNCHANGED <<kept, given>>
    PROVE  ClientInv' /\ \A v \in Users \ {u} : at'[v] = at[v]
BY DEF ClientInv, GivenIsKept, Goes, Places

LEMMA ClientsToLookFor ==
    \A clients \in {<<"typed">>, <<"typed", "dynamic">>, <<"extensions">>,
                   <<"extensions", "dynamic">>} :
        clients \in Seq(Flavours) /\ clients # <<>>
<1>1. "typed" \in Flavours /\ "dynamic" \in Flavours /\ "extensions" \in Flavours
  BY DEF Flavours
<1>2. <<"typed">> \in Seq(Flavours) /\ <<"typed">> # <<>>
  BY <1>1
<1>3. <<"typed", "dynamic">> \in Seq(Flavours) /\ <<"typed", "dynamic">> # <<>>
  BY <1>1
<1>4. <<"extensions">> \in Seq(Flavours) /\ <<"extensions">> # <<>>
  BY <1>1
<1>5. <<"extensions", "dynamic">> \in Seq(Flavours) /\ <<"extensions", "dynamic">> # <<>>
  BY <1>1
<1> QED
  BY <1>2, <1>3, <1>4, <1>5

-----------------------------------------------------------------------------
(* The namespace cache.                                                    *)

LEMMA NamespacesKeep ==
    ASSUME IInv, GetNamespaces \/ Refresh \/ NamespacesChange
    PROVE  IInv'
<1> USE DEF IInv
<1>1. UNCHANGED <<asked, childVars>>
  BY DEF GetNamespaces, Refresh, NamespacesSent, RefreshOK, RefreshFails, NamespacesChange
<1>2. CASE GetNamespaces
  <2>1. NamesInv'
    <3>1. names' = [names EXCEPT !.refreshing = TRUE] /\ UNCHANGED <<reading, changes>>
      BY <1>2 DEF GetNamespaces
    <3>2. names' \in NameEntries /\ names'.age = names.age /\ names'.read = names.read
      BY <3>1 DEF NamesInv, NameEntries
    <3> QED
      BY <3>1, <3>2 DEF NamesInv, ReadBeforeStored
  <2>2. ClientInv' /\ at'[Loader] = at[Loader]
    BY <1>2, UsersDiffer, ClientsToLookFor, LooksFor DEF GetNamespaces
  <2> QED
    BY <1>1, <2>1, <2>2, ChildrenStay DEF LoaderIsMarked, childVars
<1>3. CASE Refresh
  <2>1. ClientInv' /\ at'[Loader] = at[Loader]
    <3>1. PICK to \in {"listing", "idle"} : Goes(Refresher, to) /\ UNCHANGED <<wants, kept, given>>
      BY <1>3 DEF Refresh, NamespacesSent, RefreshOK, RefreshFails
    <3>2. to \in Places \ {"lookup", "building"}
      BY DEF Places
    <3> QED
      BY <3>1, <3>2, UsersDiffer, GoesOn
  <2>2. NamesInv'
    <3>1. CASE NamespacesSent
      <4>1. reading' = [age |-> 0, upToDate |-> TRUE] /\ UNCHANGED <<names, changes>>
        BY <3>1 DEF NamespacesSent
      <4>2. reading' \in NameLists
        BY <4>1, Times DEF NameLists
      <4> QED
        BY <4>1, <4>2 DEF NamesInv, ReadBeforeStored
    <3>2. CASE RefreshOK
      <4>1. /\ names' = [known |-> TRUE, age |-> 0, read |-> reading.age,
                         upToDate |-> reading.upToDate, refreshing |-> FALSE, failed |-> FALSE]
            /\ reading' = NoList /\ changes' = changes
        BY <3>2 DEF RefreshOK
      <4>2. reading.age \in 0..FetchTimeout /\ reading.upToDate \in BOOLEAN
        BY DEF NamesInv, NameLists
      <4>3. names' \in NameEntries /\ names'.age = 0 /\ names'.read = reading.age
        BY <4>1, <4>2, Times DEF NameEntries
      <4>4. NoList \in NameLists
        BY Times DEF NoList, NameLists
      <4> QED
        BY <4>1, <4>2, <4>3, <4>4, Times DEF NamesInv, ReadBeforeStored
    <3>3. CASE RefreshFails
      <4>1. /\ names' = [names EXCEPT !.refreshing = FALSE, !.failed = TRUE]
            /\ reading' = NoList /\ changes' = changes
        BY <3>3 DEF RefreshFails
      <4>2. names' \in NameEntries /\ names'.age = names.age /\ names'.read = names.read
        BY <4>1 DEF NamesInv, NameEntries
      <4>3. NoList \in NameLists
        BY Times DEF NoList, NameLists
      <4> QED
        BY <4>1, <4>2, <4>3 DEF NamesInv, ReadBeforeStored
    <3> QED
      BY <1>3, <3>1, <3>2, <3>3 DEF Refresh
  <2> QED
    BY <1>1, <2>1, <2>2, ChildrenStay DEF LoaderIsMarked, childVars
<1>4. CASE NamespacesChange
  <2>1. NamesInv'
    <3>1. /\ names' = [names EXCEPT !.upToDate = FALSE]
          /\ reading' = [reading EXCEPT !.upToDate = FALSE]
          /\ changes < MaxChanges /\ changes' = changes + 1
      BY <1>4 DEF NamespacesChange
    <3>2. names' \in NameEntries /\ names'.age = names.age /\ names'.read = names.read
      BY <3>1 DEF NamesInv, NameEntries
    <3>3. reading' \in NameLists
      BY <3>1 DEF NamesInv, NameLists
    <3>4. changes' \in 0..MaxChanges
      BY <3>1, Times DEF NamesInv
    <3> QED
      BY <3>2, <3>3, <3>4 DEF NamesInv, ReadBeforeStored
  <2>2. ClientInv' /\ at'[Loader] = at[Loader]
    BY <1>4 DEF NamespacesChange, clientVars, ClientInv, GivenIsKept
  <2> QED
    BY <1>1, <2>1, <2>2, ChildrenStay DEF LoaderIsMarked, childVars
<1> QED
  BY <1>2, <1>3, <1>4

-----------------------------------------------------------------------------
(* Detail requests and the loader.                                         *)

LEMMA StoreKeepsEntries ==
    ASSUME ChildInv, NEW o \in Owners, NEW e \in Entries, Store(o, e)
    PROVE  children' \in [Owners -> Entries]
<1>1. Pruned \in [Owners -> Entries]
  BY EntriesThere DEF Pruned, ChildInv
<1> QED
  BY <1>1 DEF Store

LEMMA RequestKeeps ==
    ASSUME IInv, NEW r \in Requests, AskDetail(r) \/ Request(r)
    PROVE  IInv'
<1> USE DEF IInv
<1>1. UNCHANGED <<asked, nameVars>>
  BY DEF AskDetail, Request, GetObject, ReadOwner, ReadIndex, Prime, Ensure, AnswerDetail
<1>2. CASE AskDetail(r)
  <2>1. PICK clients \in {<<"typed", "dynamic">>, <<"extensions">>, <<"extensions", "dynamic">>} :
            wants' = [wants EXCEPT ![r] = clients]
    BY <1>2 DEF AskDetail
  <2>2. ClientInv' /\ at'[Loader] = at[Loader]
    BY <1>2, <2>1, UsersDiffer, ClientsToLookFor, LooksFor DEF AskDetail
  <2>3. UNCHANGED childVars
    BY <1>2 DEF AskDetail
  <2> QED
    BY <1>1, <2>2, <2>3, NamesStay, ChildrenStay DEF LoaderIsMarked, childVars
<1>3. CASE Request(r) /\ ~(Ensure(r) /\ ~loading)
  <2>1. PICK to \in {"idle", "owner", "answer", "index", "prime", "ensure"} :
            Goes(r, to) /\ UNCHANGED <<wants, kept, given>>
    BY <1>3 DEF Request, GetObject, ReadOwner, ReadIndex, Prime, Ensure, AnswerDetail
  <2>2. ClientInv' /\ at'[Loader] = at[Loader]
    <3>1. to \in Places \ {"lookup", "building"}
      BY DEF Places
    <3> QED
      BY <2>1, <3>1, UsersDiffer, GoesOn
  <2>3. UNCHANGED <<loading, scan, owner>>
    BY <1>3 DEF Request, GetObject, ReadOwner, ReadIndex, Prime, Ensure, AnswerDetail, childVars
  <2>4. ChildInv'
    <3>1. CASE GetObject(r) \/ Ensure(r)
      BY <1>3, <3>1, ChildrenStay DEF GetObject, Ensure, childVars
    <3>2. CASE ReadOwner(r)
      BY <3>2 DEF ReadOwner, ChildInv
    <3>3. CASE ReadIndex(r)
      BY <3>3, EntriesThere DEF ReadIndex, ChildInv
    <3>4. CASE Prime(r)
      <4>1. [cached[r] EXCEPT !.age = 0] \in Entries /\ owner[r] \in Owners
        BY Times DEF ChildInv, Entries
      <4>2. children' \in [Owners -> Entries]
        BY <3>4, <4>1, StoreKeepsEntries DEF Prime
      <4> QED
        BY <3>4, <4>2 DEF Prime, ChildInv
    <3>5. CASE AnswerDetail(r)
      BY <3>5, EntriesThere DEF AnswerDetail, ChildInv
    <3> QED
      BY <1>3, <3>1, <3>2, <3>3, <3>4, <3>5 DEF Request
  <2> QED
    BY <1>1, <2>2, <2>3, <2>4, NamesStay DEF LoaderIsMarked
<1>4. CASE Ensure(r) /\ ~loading
  <2>1. /\ loading' = TRUE /\ scan' = [NoScan EXCEPT !.for = owner[r]]
        /\ at' = [at EXCEPT ![r] = "answer", ![Loader] = "lookup"]
        /\ wants' = [wants EXCEPT ![Loader] = <<"typed", "dynamic">>]
        /\ UNCHANGED <<kept, given, owner, cached, children, index, raced>>
    BY <1>4 DEF Ensure
  <2>2. ClientInv'
    BY <2>1, UsersDiffer, ClientsToLookFor DEF ClientInv, GivenIsKept, Places
  <2>3. /\ scan' \in Scans
        /\ scan'.for \in Owners
    <3>1. owner[r] \in Owners
      BY DEF ChildInv
    <3> QED
      BY <2>1, <3>1, NoScanIsThere
  <2>4. ChildInv' /\ LoaderIsMarked'
    BY <2>1, <2>3 DEF ChildInv, LoaderIsMarked
  <2> QED
    BY <1>1, <2>2, <2>4, NamesStay
<1> QED
  BY <1>2, <1>3, <1>4 DEF Request

LEMMA LoadKeeps ==
    ASSUME IInv, Load
    PROVE  IInv'
<1> USE DEF IInv
<1>1. UNCHANGED <<asked, nameVars, wants, kept, given, owner, cached>> /\ at[Loader] # "idle"
  BY DEF Load, Scan, StoreIndex, StoreOwner, ClearLoad
<1>2. loading /\ scan.for \in Owners
  BY <1>1 DEF LoaderIsMarked
<1>3. PICK to \in {"idle", "index", "store", "clear"} : Goes(Loader, to)
  BY DEF Load, Scan, StoreIndex, StoreOwner, ClearLoad
<1>4. ClientInv' /\ at'[Loader] = to
  <2>1. to \in Places \ {"lookup", "building"}
    BY DEF Places
  <2>2. ClientInv'
    BY <1>1, <1>3, <2>1, UsersDiffer, GoesOn
  <2> QED
    BY <1>3, <2>2, UsersDiffer DEF Goes, ClientInv
<1>5. Scanned \in Entries
  BY Times DEF Scanned, Entries, ChildInv, Scans
<1>6. CASE Scan
  <2>1. /\ UNCHANGED <<children, index, loading, raced>>
        /\ scan' \in Scans
        /\ scan'.for = scan.for
    <3>1. UNCHANGED <<children, index, loading, raced>>
      BY <1>6 DEF Scan
    <3>2. ASSUME NEW some \in SUBSET Owners, scan' = [scan EXCEPT !.left = some \cup {scan.for}]
          PROVE  scan' \in Scans /\ scan'.for = scan.for
      BY <1>2, <3>2 DEF ChildInv, Scans
    <3>3. CASE scan' = [scan EXCEPT !.left = {scan.for}, !.failed = TRUE]
      <4>1. scan \in Scans /\ {scan.for} \in SUBSET Owners
        BY <1>2 DEF ChildInv
      <4> QED
        BY <3>1, <3>3, <4>1 DEF Scans
    <3> QED
      BY <1>6, <3>1, <3>2, <3>3 DEF Scan
  <2>2. ChildInv' /\ LoaderIsMarked'
    BY <1>1, <1>2, <2>1 DEF ChildInv, LoaderIsMarked
  <2> QED
    BY <1>1, <1>4, <2>2, NamesStay
<1>7. CASE StoreIndex
  <2>1. ChildInv' /\ LoaderIsMarked'
    BY <1>1, <1>2, <1>5, <1>7 DEF StoreIndex, ChildInv, LoaderIsMarked
  <2> QED
    BY <1>1, <1>4, <2>1, NamesStay
<1>8. CASE StoreOwner
  <2>1. PICK o \in scan.left : Store(o, Scanned) /\ scan' = [scan EXCEPT !.left = @ \ {o}]
    BY <1>8 DEF StoreOwner
  <2>2. UNCHANGED <<index, loading, raced>>
    BY <1>8 DEF StoreOwner
  <2>3. o \in Owners
    BY <2>1 DEF ChildInv, Scans
  <2>4. children' \in [Owners -> Entries]
    BY <1>5, <2>1, <2>3, StoreKeepsEntries
  <2>5. /\ scan' \in Scans
        /\ scan'.for = scan.for
    BY <2>1 DEF ChildInv, Scans
  <2>6. ChildInv' /\ LoaderIsMarked'
    BY <1>1, <1>2, <2>2, <2>4, <2>5 DEF ChildInv, LoaderIsMarked
  <2> QED
    BY <1>1, <1>4, <2>6, NamesStay
<1>9. CASE ClearLoad
  <2>1. /\ loading' = FALSE /\ scan' = NoScan /\ at'[Loader] = "idle"
        /\ raced' \in [Requests -> BOOLEAN] /\ UNCHANGED <<children, index>>
    BY <1>9, UsersDiffer DEF ClearLoad, Goes, ClientInv, ChildInv
  <2>2. ChildInv' /\ LoaderIsMarked'
    BY <1>1, <2>1, NoScanIsThere DEF ChildInv, LoaderIsMarked
  <2> QED
    BY <1>1, <1>4, <2>2, NamesStay
<1> QED
  BY <1>6, <1>7, <1>8, <1>9 DEF Load

-----------------------------------------------------------------------------
(* Time.                                                                   *)

LEMMA TickKeeps ==
    ASSUME IInv, Tick
    PROVE  IInv'
<1> USE DEF IInv
<1>1. UNCHANGED <<asked, at, wants, kept, given, changes, owner, cached, loading, raced>>
  BY DEF Tick, clientVars
<1>2. ClientInv'
  BY <1>1 DEF ClientInv, GivenIsKept
<1>3. NamesInv'
  <2>1. names' = [names EXCEPT !.age = Older(names.age, AgeCap), !.read = Older(names.read, Cap)]
    BY DEF Tick
  <2>2. names.age \in 0..AgeCap /\ names.read \in 0..Cap
    BY DEF NamesInv, NameEntries
  <2>3. /\ Older(names.age, AgeCap) \in 0..AgeCap
        /\ Older(names.age, AgeCap) < AgeCap => Older(names.age, AgeCap) = names.age + 1
        /\ Older(names.read, Cap) \in 0..Cap
        /\ Older(names.read, Cap) <= names.read + 1
    BY <2>2, Times, OlderIsAnAge
  <2>4. /\ names' \in NameEntries
        /\ names'.age = Older(names.age, AgeCap) /\ names'.read = Older(names.read, Cap)
    BY <2>1, <2>3 DEF NamesInv, NameEntries
  <2>5. ReadBeforeStored'
    BY <2>2, <2>3, <2>4, Times DEF NamesInv, ReadBeforeStored
  <2>6. reading' \in NameLists
    <3>1. CASE at[Refresher] = "listing"
      <4>1. reading.age < FetchTimeout /\ reading' = [reading EXCEPT !.age = reading.age + 1]
        BY <3>1 DEF Tick
      <4>2. reading.age + 1 \in 0..FetchTimeout
        BY <4>1, Times DEF NamesInv, NameLists
      <4> QED
        BY <4>1, <4>2 DEF NamesInv, NameLists
    <3>2. CASE at[Refresher] # "listing"
      BY <3>2 DEF Tick, NamesInv
    <3> QED
      BY <3>1, <3>2
  <2> QED
    BY <1>1, <2>4, <2>5, <2>6 DEF NamesInv
<1>4. scan' \in Scans /\ scan'.for = scan.for
  <2>1. CASE loading
    <3>1. scan.age < ScanTimeout /\ scan' = [scan EXCEPT !.age = scan.age + 1]
      BY <2>1 DEF Tick
    <3>2. scan.age + 1 \in 0..ScanTimeout
      BY <3>1, Times DEF ChildInv, Scans
    <3> QED
      BY <3>1, <3>2 DEF ChildInv, Scans
  <2>2. CASE ~loading
    BY <2>2 DEF Tick, ChildInv
  <2> QED
    BY <2>1, <2>2
<1>5. ChildInv'
  <2>1. children' \in [Owners -> Entries] /\ index' \in Entries
    BY EntriesThere DEF Tick, ChildInv
  <2> QED
    BY <1>1, <1>4, <2>1 DEF ChildInv
<1>6. LoaderIsMarked'
  BY <1>1, <1>4 DEF LoaderIsMarked
<1> QED
  BY <1>1, <1>2, <1>3, <1>5, <1>6

-----------------------------------------------------------------------------
(* The invariant is inductive.                                             *)

LEMMA InitIInv == Init => IInv
<1> SUFFICES ASSUME Init PROVE IInv
  OBVIOUS
<1>1. ClientInv
  <2>1. <<>> \in Seq(Flavours)
    BY EmptySeq
  <2> QED
    BY <2>1 DEF Init, ClientInv, GivenIsKept, Places
<1>2. NamesInv
  <2>1. names = [known |-> FALSE, age |-> AgeCap, read |-> Cap, upToDate |-> FALSE,
                 refreshing |-> FALSE, failed |-> FALSE]
        /\ reading = NoList /\ changes = 0
    BY DEF Init
  <2>2. names \in NameEntries /\ names.age = AgeCap
    BY <2>1, Times DEF NameEntries
  <2>3. reading \in NameLists
    BY <2>1, Times DEF NoList, NameLists
  <2> QED
    BY <2>1, <2>2, <2>3, Times DEF NamesInv, ReadBeforeStored
<1>3. ChildInv
  BY EntriesThere, NoScanIsThere DEF Init, ChildInv
<1>4. asked \in Mixes /\ LoaderIsMarked
  BY UsersDiffer DEF Init, LoaderIsMarked
<1> QED
  BY <1>1, <1>2, <1>3, <1>4 DEF IInv

LEMMA NextIInv == IInv /\ [Next]_vars => IInv'
<1> SUFFICES ASSUME IInv, [Next]_vars PROVE IInv'
  OBVIOUS
<1>1. CASE UNCHANGED vars
  BY <1>1, NamesStay, ChildrenStay
     DEF vars, clientVars, childVars, IInv, ClientInv, GivenIsKept, LoaderIsMarked
<1> QED
  BY <1>1, ClientKeeps, RequestKeeps, NamespacesKeep, LoadKeeps, TickKeeps DEF Next

LEMMA Invariance == Spec => []IInv
<1> QED
  BY InitIInv, NextIInv, PTL DEF Spec

-----------------------------------------------------------------------------
(* How old children are.  An entry that has not expired comes from a scan  *)
(* no older than the entry and what its scan had when it was stored: the   *)
(* timeout, and for an entry primed from the index the index's own age.    *)

ScannedWithin(e, n) == e.failed \/ e.scan <= n

EntryIsScanned(e, n) == e.age > TTL \/ ScannedWithin(e, e.age + n)

StoredAreScanned ==
    /\ \A o \in Owners : EntryIsScanned(children[o], ScanTimeout + TTL)
    /\ EntryIsScanned(index, ScanTimeout)

\* What a handler holds: it is about to prime an entry from the index; or it
\* answers, and what it answers is scanned, or a load goes on, or has ended.
HeldAreScanned ==
    \A r \in Requests :
        /\ at[r] = "prime" => ScannedWithin(cached[r], ScanTimeout + TTL)
        /\ at[r] = "answer" => raced[r] \/ loading \/ ScannedWithin(cached[r], MaxAge)

AgesInv == StoredAreScanned /\ HeldAreScanned

LEMMA AgedIsScanned ==
    ASSUME NEW e \in Entries, NEW n \in Nat, EntryIsScanned(e, n)
    PROVE  EntryIsScanned(Aged(e), n)
<1>1. e.age \in 0..AgeCap /\ e.scan \in 0..Cap
  BY DEF Entries
<1>2. /\ Aged(e).age = Older(e.age, AgeCap) /\ Aged(e).scan = Older(e.scan, Cap)
      /\ Aged(e).failed = e.failed
  BY DEF Aged, Entries
<1>3. /\ Older(e.age, AgeCap) \in 0..AgeCap
      /\ Older(e.age, AgeCap) < AgeCap => Older(e.age, AgeCap) = e.age + 1
      /\ Older(e.scan, Cap) \in 0..Cap /\ Older(e.scan, Cap) <= e.scan + 1
  BY <1>1, Times, OlderIsAnAge
<1>4. CASE Older(e.age, AgeCap) < AgeCap
  BY <1>1, <1>2, <1>3, <1>4, Times DEF EntryIsScanned, ScannedWithin
<1>5. CASE ~(Older(e.age, AgeCap) < AgeCap)
  BY <1>1, <1>2, <1>3, <1>5, Times DEF EntryIsScanned
<1> QED
  BY <1>4, <1>5

LEMMA NilIsExpired == Nil.age > TTL
BY Times DEF Nil

\* Pruning only forgets entries.
LEMMA StoreIsScanned ==
    ASSUME ChildInv, NEW o \in Owners, NEW e \in Entries, Store(o, e),
           EntryIsScanned(e, ScanTimeout + TTL),
           \A p \in Owners : EntryIsScanned(children[p], ScanTimeout + TTL)
    PROVE  \A p \in Owners : EntryIsScanned(children'[p], ScanTimeout + TTL)
<1>1. \A p \in Owners : Pruned[p] = children[p] \/ Pruned[p] = Nil
  BY DEF Pruned
<1>2. Pruned \in [Owners -> Entries]
  BY EntriesThere DEF Pruned, ChildInv
<1>3. \A p \in Owners : children'[p] = IF p = o THEN e ELSE Pruned[p]
  BY <1>2 DEF Store
<1> QED
  BY <1>1, <1>3, NilIsExpired DEF EntryIsScanned

\* A step that leaves the entries alone, and what handlers hold.
LEMMA AgesStay ==
    ASSUME AgesInv, UNCHANGED <<children, index, cached, loading, raced>>,
           \A r \in Requests : at'[r] \in {"prime", "answer"} => at'[r] = at[r]
    PROVE  AgesInv'
BY DEF AgesInv, StoredAreScanned, HeldAreScanned, EntryIsScanned, ScannedWithin

LEMMA ClientAges ==
    ASSUME IInv, AgesInv, NEW u \in Users, Client(u)
    PROVE  AgesInv'
<1>1. PICK to \in {"ready", "lookup", "building", "failed"} : Goes(u, to)
  BY DEF Client, Lookup, Built, BuildFails, Gives
<1>2. UNCHANGED <<children, index, cached, loading, raced>>
  BY DEF Client, Lookup, Built, BuildFails, childVars
<1>3. \A r \in Requests : at'[r] \in {"prime", "answer"} => at'[r] = at[r]
  BY <1>1, UsersDiffer DEF Goes, IInv, ClientInv
<1> QED
  BY <1>2, <1>3, AgesStay

LEMMA NamespacesAges ==
    ASSUME IInv, AgesInv, GetNamespaces \/ Refresh \/ NamespacesChange
    PROVE  AgesInv'
<1>1. UNCHANGED <<children, index, cached, loading, raced>>
  BY DEF GetNamespaces, Refresh, NamespacesSent, RefreshOK, RefreshFails, NamespacesChange,
         childVars
<1>2. at' = at \/ \E to \in {"lookup", "listing", "idle"} : Goes(Refresher, to)
  BY DEF GetNamespaces, Refresh, NamespacesSent, RefreshOK, RefreshFails, NamespacesChange,
         clientVars
<1>3. \A r \in Requests : at'[r] = at[r]
  BY <1>2, UsersDiffer DEF Goes, IInv, ClientInv
<1> QED
  BY <1>1, <1>3, AgesStay

\* Only the handler itself moves, and the loader that it starts.
LEMMA RequestAges ==
    ASSUME IInv, AgesInv, NEW r \in Requests, AskDetail(r) \/ Request(r)
    PROVE  AgesInv'
<1> USE DEF AgesInv
<1>1. \A q \in Requests \ {r} : at'[q] = at[q] /\ cached'[q] = cached[q]
  BY UsersDiffer DEF AskDetail, Request, GetObject, ReadOwner, ReadIndex, Prime, Ensure,
     AnswerDetail, Goes, IInv, ClientInv, ChildInv, childVars
<1>2. \A q \in Requests \ {r} : raced'[q] = raced[q]
  BY DEF AskDetail, Request, GetObject, ReadOwner, ReadIndex, Prime, Ensure,
     AnswerDetail, IInv, ChildInv, childVars
<1>3. loading => loading'
  BY DEF AskDetail, Request, GetObject, ReadOwner, ReadIndex, Prime, Ensure, AnswerDetail,
     childVars
<1>4. r \in Users /\ at \in [Users -> Places] /\ cached \in [Requests -> Entries]
      /\ owner[r] \in Owners /\ ChildInv
  BY UsersDiffer DEF IInv, ClientInv, ChildInv
<1> DEFINE Held == /\ at'[r] = "prime" => ScannedWithin(cached'[r], ScanTimeout + TTL)
                   /\ at'[r] = "answer" =>
                         raced'[r] \/ loading' \/ ScannedWithin(cached'[r], MaxAge)
<1>5. SUFFICES StoredAreScanned' /\ Held
  BY <1>1, <1>2, <1>3 DEF HeldAreScanned, ScannedWithin
<1>6. CASE AskDetail(r) \/ GetObject(r) \/ AnswerDetail(r)
  <2>1. UNCHANGED <<children, index>>
    BY <1>6 DEF AskDetail, GetObject, AnswerDetail, childVars
  <2>2. at'[r] \in {"lookup", "owner", "idle"}
    BY <1>4, <1>6 DEF AskDetail, GetObject, AnswerDetail, Goes
  <2> QED
    BY <2>1, <2>2 DEF StoredAreScanned, EntryIsScanned, ScannedWithin
<1>7. CASE ReadOwner(r)
  <2> DEFINE e == children[owner[r]]
  <2>1. /\ UNCHANGED <<children, index>>
        /\ cached'[r] = e
        /\ at'[r] = IF e.age <= TTL THEN "answer" ELSE "index"
    BY <1>4, <1>7 DEF ReadOwner, Goes
  <2>2. e \in Entries /\ EntryIsScanned(e, ScanTimeout + TTL)
    BY <1>4 DEF ChildInv, StoredAreScanned
  <2>3. e.age <= TTL => ScannedWithin(e, MaxAge)
    BY <2>2, Times DEF EntryIsScanned, ScannedWithin, Entries
  <2> QED
    BY <2>1, <2>3 DEF StoredAreScanned, EntryIsScanned, ScannedWithin
<1>8. CASE ReadIndex(r)
  <2>1. CASE IndexIsFresh
    <3>1. UNCHANGED <<children, index>> /\ cached'[r] = index /\ at'[r] = "prime"
      BY <1>4, <1>8, <2>1 DEF ReadIndex, Goes
    <3>2. ScannedWithin(index, ScanTimeout + TTL)
      BY <1>4, <2>1, Times
      DEF IndexIsFresh, ChildInv, Entries, StoredAreScanned, EntryIsScanned, ScannedWithin
    <3> QED
      BY <3>1, <3>2 DEF StoredAreScanned, EntryIsScanned, ScannedWithin
  <2>2. CASE ~IndexIsFresh
    <3>1. children' = children /\ index' = Nil /\ at'[r] = "ensure"
      BY <1>4, <1>8, <2>2 DEF ReadIndex, Goes
    <3> QED
      BY <3>1, NilIsExpired DEF StoredAreScanned, EntryIsScanned, ScannedWithin
  <2> QED
    BY <2>1, <2>2
<1>9. CASE Prime(r)
  <2> DEFINE e == [cached[r] EXCEPT !.age = 0]
  <2>1. /\ Store(owner[r], e) /\ UNCHANGED <<index, cached>>
        /\ at[r] = "prime" /\ at'[r] = "answer"
    BY <1>4, <1>9 DEF Prime, Goes
  <2>2. ScannedWithin(cached[r], ScanTimeout + TTL)
    BY <2>1 DEF HeldAreScanned
  <2>3. cached[r] \in Entries /\ e \in Entries
    BY <1>4, Times DEF Entries
  <2>4. EntryIsScanned(e, ScanTimeout + TTL)
    BY <2>2, <2>3, Times DEF EntryIsScanned, ScannedWithin, Entries
  <2>5. StoredAreScanned'
    BY <1>4, <2>1, <2>3, <2>4, StoreIsScanned DEF StoredAreScanned, EntryIsScanned, ScannedWithin
  <2>6. ScannedWithin(cached[r], MaxAge)
    BY <2>2, <2>3, Times DEF ScannedWithin, Entries
  <2> QED
    BY <2>1, <2>5, <2>6 DEF ScannedWithin
<1>10. CASE Ensure(r)
  <2>1. UNCHANGED <<children, index>> /\ loading' /\ at'[r] = "answer"
    BY <1>4, <1>10, UsersDiffer DEF Ensure, Goes
  <2> QED
    BY <2>1 DEF StoredAreScanned, EntryIsScanned, ScannedWithin
<1> QED
  BY <1>6, <1>7, <1>8, <1>9, <1>10 DEF Request

\* What a load that ends leaves to the handlers is that it has raced them.
LEMMA LoadAges ==
    ASSUME IInv, AgesInv, Load
    PROVE  AgesInv'
<1> USE DEF AgesInv
<1>1. \A r \in Requests : at'[r] = at[r]
  BY UsersDiffer DEF Load, Scan, StoreIndex, StoreOwner, ClearLoad, Goes, IInv, ClientInv
<1>2. ChildInv /\ cached' = cached
  BY DEF IInv, Load, Scan, StoreIndex, StoreOwner, ClearLoad
<1>3. Scanned \in Entries /\ EntryIsScanned(Scanned, ScanTimeout)
      /\ EntryIsScanned(Scanned, ScanTimeout + TTL)
  <2>1. scan.age \in 0..ScanTimeout /\ scan.failed \in BOOLEAN
    BY <1>2 DEF ChildInv, Scans
  <2> QED
    BY <2>1, Times DEF Scanned, Entries, EntryIsScanned, ScannedWithin
<1>4. CASE Scan
  BY <1>1, <1>2, <1>4, AgesStay DEF Scan
<1>5. CASE StoreIndex
  <2>1. UNCHANGED <<children, loading, raced>> /\ index' \in {index, Scanned}
    BY <1>5 DEF StoreIndex
  <2> QED
    BY <1>1, <1>2, <1>3, <2>1
    DEF StoredAreScanned, HeldAreScanned, EntryIsScanned, ScannedWithin
<1>6. CASE StoreOwner
  <2>1. PICK o \in scan.left : Store(o, Scanned)
    BY <1>6 DEF StoreOwner
  <2>2. UNCHANGED <<index, loading, raced>>
    BY <1>6 DEF StoreOwner
  <2>3. o \in Owners
    BY <1>2, <2>1 DEF ChildInv, Scans
  <2>4. \A p \in Owners : EntryIsScanned(children'[p], ScanTimeout + TTL)
    BY <1>2, <1>3, <2>1, <2>3, StoreIsScanned DEF StoredAreScanned
  <2> QED
    BY <1>1, <1>2, <2>2, <2>4
    DEF StoredAreScanned, HeldAreScanned, EntryIsScanned, ScannedWithin
<1>7. CASE ClearLoad
  <2>1. UNCHANGED <<children, index>>
    BY <1>7 DEF ClearLoad
  <2>2. \A r \in Requests : /\ raced[r] => raced'[r]
                            /\ at[r] = "answer" => raced'[r]
    BY <1>7 DEF ClearLoad
  <2> QED
    BY <1>1, <1>2, <2>1, <2>2
    DEF StoredAreScanned, HeldAreScanned, EntryIsScanned, ScannedWithin
<1> QED
  BY <1>4, <1>5, <1>6, <1>7 DEF Load

LEMMA TickAges ==
    ASSUME IInv, AgesInv, Tick
    PROVE  AgesInv'
<1>1. UNCHANGED <<at, cached, loading, raced>>
  BY DEF Tick, clientVars
<1>2. children \in [Owners -> Entries] /\ index \in Entries
  BY DEF IInv, ChildInv
<1>3. /\ \A o \in Owners : children'[o] = Aged(children[o])
      /\ index' = Aged(index)
  BY DEF Tick
<1>4. ScanTimeout \in Nat /\ ScanTimeout + TTL \in Nat
  BY Times
<1>5. /\ \A o \in Owners : EntryIsScanned(Aged(children[o]), ScanTimeout + TTL)
      /\ EntryIsScanned(Aged(index), ScanTimeout)
  BY <1>2, <1>4, AgedIsScanned DEF AgesInv, StoredAreScanned
<1>6. StoredAreScanned'
  BY <1>3, <1>5 DEF StoredAreScanned, EntryIsScanned, ScannedWithin
<1>7. HeldAreScanned'
  BY <1>1 DEF AgesInv, HeldAreScanned, ScannedWithin
<1> QED
  BY <1>6, <1>7 DEF AgesInv

LEMMA InitAges == Init => AgesInv
BY NilIsExpired, UsersDiffer
DEF Init, AgesInv, StoredAreScanned, HeldAreScanned, EntryIsScanned

LEMMA NextAges == IInv /\ AgesInv /\ [Next]_vars => AgesInv'
<1> SUFFICES ASSUME IInv, AgesInv, [Next]_vars PROVE AgesInv'
  OBVIOUS
<1>1. CASE UNCHANGED vars
  BY <1>1, AgesStay DEF vars, clientVars, childVars
<1> QED
  BY <1>1, ClientAges, RequestAges, NamespacesAges, LoadAges, TickAges DEF Next

-----------------------------------------------------------------------------
(* The marks.  A cache that says it is being filled has a goroutine that   *)
(* will clear the mark: this is what the liveness of the names rests on.   *)

RefresherPlaces == {"idle", "lookup", "building", "ready", "failed", "listing"}
LoaderPlaces    == {"idle", "lookup", "building", "ready", "failed", "index", "store", "clear"}

\* A mark is set exactly while its goroutine is under way, at a place from
\* which it goes on by itself; the loader has an owner left to store.
MarksHaveGoroutines ==
    /\ names.refreshing <=> at[Refresher] # "idle"
    /\ at[Refresher] \in RefresherPlaces
    /\ loading <=> at[Loader] # "idle"
    /\ at[Loader] \in LoaderPlaces
    /\ at[Loader] \in {"index", "store"} => scan.left # {}

\* A step that leaves the two goroutines and their marks alone.
LEMMA MarksStay ==
    ASSUME MarksHaveGoroutines, UNCHANGED <<loading, scan>>,
           names'.refreshing = names.refreshing,
           at'[Loader] = at[Loader], at'[Refresher] = at[Refresher]
    PROVE  MarksHaveGoroutines'
BY DEF MarksHaveGoroutines

LEMMA ClientMarks ==
    ASSUME IInv, MarksHaveGoroutines, NEW u \in Users, Client(u)
    PROVE  MarksHaveGoroutines'
<1>1. PICK to \in {"ready", "lookup", "building", "failed"} : Goes(u, to)
  BY DEF Client, Lookup, Built, BuildFails, Gives
<1>2. /\ at[u] \in {"lookup", "building"} /\ at'[u] = to
      /\ \A v \in Users \ {u} : at'[v] = at[v]
  BY <1>1 DEF Client, Lookup, Built, BuildFails, Goes, IInv, ClientInv
<1>3. UNCHANGED <<names, loading, scan>>
  BY DEF Client, Lookup, Built, BuildFails, nameVars, childVars
<1> QED
  BY <1>2, <1>3, UsersDiffer DEF MarksHaveGoroutines, RefresherPlaces, LoaderPlaces

LEMMA NamespacesMarks ==
    ASSUME IInv, MarksHaveGoroutines, GetNamespaces \/ Refresh \/ NamespacesChange
    PROVE  MarksHaveGoroutines'
<1> USE UsersDiffer
    DEF IInv, ClientInv, NamesInv, NameEntries, MarksHaveGoroutines, RefresherPlaces, Goes
<1>1. UNCHANGED <<loading, scan>>
  BY DEF GetNamespaces, Refresh, NamespacesSent, RefreshOK, RefreshFails, NamespacesChange,
         childVars
<1>2. CASE GetNamespaces
  BY <1>1, <1>2 DEF GetNamespaces
<1>3. CASE NamespacesSent
  BY <1>1, <1>3 DEF NamespacesSent
<1>4. CASE RefreshOK
  BY <1>1, <1>4 DEF RefreshOK
<1>5. CASE RefreshFails
  BY <1>1, <1>5 DEF RefreshFails
<1>6. CASE NamespacesChange
  BY <1>1, <1>6 DEF NamespacesChange, clientVars
<1> QED
  BY <1>2, <1>3, <1>4, <1>5, <1>6 DEF Refresh

LEMMA RequestMarks ==
    ASSUME IInv, MarksHaveGoroutines, NEW r \in Requests, AskDetail(r) \/ Request(r)
    PROVE  MarksHaveGoroutines'
<1>1. names' = names /\ r \in Users /\ at \in [Users -> Places]
  BY UsersDiffer
  DEF AskDetail, Request, GetObject, ReadOwner, ReadIndex, Prime, Ensure, AnswerDetail, nameVars,
      IInv, ClientInv
<1>2. CASE Ensure(r) /\ ~loading
  <2>1. /\ at' = [at EXCEPT ![r] = "answer", ![Loader] = "lookup"]
        /\ loading' = TRUE
    BY <1>2 DEF Ensure
  <2>2. at'[Loader] = "lookup" /\ at'[Refresher] = at[Refresher]
    BY <1>1, <2>1, UsersDiffer
  <2> QED
    BY <1>1, <2>1, <2>2 DEF MarksHaveGoroutines, LoaderPlaces
<1>3. CASE ~(Ensure(r) /\ ~loading)
  <2>1. UNCHANGED <<loading, scan>>
    BY <1>3 DEF AskDetail, Request, GetObject, ReadOwner, ReadIndex, Prime, Ensure, AnswerDetail,
       childVars
  <2>2. \E to : Goes(r, to)
    BY <1>3 DEF AskDetail, Request, GetObject, ReadOwner, ReadIndex, Prime, Ensure, AnswerDetail
  <2>3. at'[Loader] = at[Loader] /\ at'[Refresher] = at[Refresher]
    BY <1>1, <2>2, UsersDiffer DEF Goes
  <2> QED
    BY <1>1, <2>1, <2>3, MarksStay
<1> QED
  BY <1>2, <1>3

LEMMA LoadMarks ==
    ASSUME IInv, MarksHaveGoroutines, Load
    PROVE  MarksHaveGoroutines'
<1> USE UsersDiffer
    DEF IInv, ClientInv, ChildInv, Scans, MarksHaveGoroutines, LoaderPlaces, Goes, nameVars
<1>1. CASE Scan
  <2>1. scan.for \in Owners
    BY <1>1 DEF Scan, LoaderIsMarked
  <2>2. \/ \E some \in SUBSET Owners : scan' = [scan EXCEPT !.left = some \cup {scan.for}]
        \/ scan' = [scan EXCEPT !.left = {scan.for}, !.failed = TRUE]
    BY <1>1 DEF Scan
  <2>3. scan \in Scans
    BY DEF IInv, ChildInv
  <2>4. scan.for \in scan'.left
    <3>1. ASSUME NEW some \in SUBSET Owners, scan' = [scan EXCEPT !.left = some \cup {scan.for}]
          PROVE  scan.for \in scan'.left
      <4>1. scan'.left = some \cup {scan.for}
        BY <2>3, <3>1
      <4> QED
        BY <4>1
    <3>2. CASE scan' = [scan EXCEPT !.left = {scan.for}, !.failed = TRUE]
      <4>1. scan'.left = {scan.for}
        BY <2>3, <3>2
      <4> QED
        BY <4>1
    <3> QED
      BY <2>2, <3>1, <3>2
  <2> QED
    BY <1>1, <2>4 DEF Scan
<1>2. CASE StoreIndex
  BY <1>2 DEF StoreIndex
<1>3. CASE StoreOwner
  <2>1. PICK o \in scan.left :
            /\ scan' = [scan EXCEPT !.left = scan.left \ {o}]
            /\ Goes(Loader, IF scan.left = {o} THEN "clear" ELSE "store")
    BY <1>3 DEF StoreOwner
  <2>2. scan.left # {o} => scan'.left # {}
    BY <2>1
  <2>3. at[Loader] = "store" /\ UNCHANGED <<loading, names>>
    BY <1>3 DEF StoreOwner
  <2> QED
    BY <2>1, <2>2, <2>3
<1>4. CASE ClearLoad
  BY <1>4 DEF ClearLoad
<1> QED
  BY <1>1, <1>2, <1>3, <1>4 DEF Load

LEMMA TickMarks ==
    ASSUME IInv, MarksHaveGoroutines, Tick
    PROVE  MarksHaveGoroutines'
<1>1. names'.refreshing = names.refreshing /\ scan'.left = scan.left
  BY DEF Tick, IInv, NamesInv, NameEntries, ChildInv, Scans
<1>2. UNCHANGED <<at, loading>>
  BY DEF Tick, clientVars
<1> QED
  BY <1>1, <1>2 DEF MarksHaveGoroutines

LEMMA InitMarks == Init => MarksHaveGoroutines
BY UsersDiffer DEF Init, MarksHaveGoroutines, RefresherPlaces, LoaderPlaces

LEMMA NextMarks == IInv /\ MarksHaveGoroutines /\ [Next]_vars => MarksHaveGoroutines'
<1> SUFFICES ASSUME IInv, MarksHaveGoroutines, [Next]_vars PROVE MarksHaveGoroutines'
  OBVIOUS
<1>1. CASE UNCHANGED vars
  BY <1>1, MarksStay DEF vars, clientVars, nameVars, childVars
<1> QED
  BY <1>1, ClientMarks, RequestMarks, NamespacesMarks, LoadMarks, TickMarks DEF Next

-----------------------------------------------------------------------------
(* Theorems.                                                               *)

\* Every reachable state of the caches and the factory is well typed: ages
\* stay within their bounds, a scan within its timeout.
THEOREM TypeCorrect == Spec => []TypeOK
BY Invariance, IInvTypes, PTL

\* However many goroutines miss in the client factory at once, and build with
\* its lock released, all of them get the client that is kept (client_factory.go).
THEOREM OneClientPerContextHolds == Spec => []OneClientPerContext
<1>1. IInv => OneClientPerContext
  <2> SUFFICES ASSUME IInv, NEW f \in Flavours PROVE Cardinality(given[f]) <= 1
    BY DEF OneClientPerContext
  <2>1. given[f] \subseteq {kept[f]}
    BY DEF IInv, ClientInv, GivenIsKept
  <2>2. given[f] = {} \/ given[f] = {kept[f]}
    BY <2>1
  <2>3. Cardinality({}) = 0 /\ Cardinality({kept[f]}) = 1
    BY FS_EmptySet, FS_Singleton
  <2> QED
    BY <2>2, <2>3
<1> QED
  BY <1>1, Invariance, PTL

\* Names that an answer calls LIVE were listed within the threshold and the
\* time of one list, whatever the two are (namespaces/cache.go, buildPayload
\* and the stamp of refresh).
THEOREM LiveNamespacesAreRecentHolds == Spec => []LiveNamespacesAreRecent
<1>1. IInv => LiveNamespacesAreRecent
  <2> SUFFICES ASSUME IInv, State = "LIVE" PROVE names.read < StaleAfter + FetchTimeout
    BY DEF LiveNamespacesAreRecent
  <2>1. ~(names.age >= StaleAfter)
    BY DEF State
  <2>2. names.age \in 0..AgeCap /\ names.read \in 0..Cap /\ ReadBeforeStored
    BY DEF IInv, NamesInv, NameEntries
  <2> QED
    BY <2>1, <2>2, Times DEF ReadBeforeStored
<1> QED
  BY <1>1, Invariance, PTL

\* Children that are answered as complete were scanned at most the timeout of
\* a scan and twice the TTL before, whatever these are and however many owners,
\* requests and evictions there are (resource_detail.go); the exceptions are
\* those that the property names.
THEOREM ChildrenAreScannedHolds == Spec => ChildrenAreScanned
<1>1. Spec => []AgesInv
  BY InitAges, NextAges, Invariance, PTL DEF Spec
<1>2. AgesInv =>
        [\A r \in Requests : at[r] = "answer" /\ at'[r] = "idle" /\ ~loading =>
            raced[r] \/ cached[r].failed \/ cached[r].scan <= MaxAge]_vars
  BY DEF AgesInv, HeldAreScanned, ScannedWithin
<1> QED
  BY <1>1, <1>2, PTL DEF ChildrenAreScanned

\* The refreshing flag of the namespaces and the mark of a scope that is being
\* loaded are set exactly while a goroutine is at work that clears them,
\* whatever fails, and however many handlers look at them (namespaces/cache.go,
\* resource_detail.go): neither is ever left behind.
THEOREM MarksHaveGoroutinesHolds == Spec => []MarksHaveGoroutines
BY InitMarks, NextMarks, Invariance, PTL DEF Spec
=============================================================================
