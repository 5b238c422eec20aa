----------------------------- MODULE ActionGate -----------------------------
(***************************************************************************)
(* An action on a row of a view, from the request to the change in the     *)
(* cluster: normalisation and executeAction of internal/daemon/server.go,  *)
(* the ActionExecutor of internal/kube/actions.go, and how a resource name *)
(* or a CRD filter is resolved to a kind (internal/kube/resources.go).     *)
(*                                                                         *)
(* The handler looks at the view, resolves, gets and updates in steps      *)
(* between which the cluster, the view and other actions go on.  It runs   *)
(* under the background context: a client that gave up stops nothing.      *)
(*                                                                         *)
(* Every object has the one name that the rows have; a place is its        *)
(* namespace.  The cluster is external: what it does with an update of an  *)
(* older version (Conflict) and with a name that is gone (Missing).        *)
(* Discovery may tell of fewer kinds than there are, each time anew.       *)
(***************************************************************************)
EXTENDS FiniteSets, Functions, Naturals, Sequences

CONSTANTS
    Requests,    \* action requests that may run at once
    Kinds,       \* kinds of the cluster (group, version, resource)
    Global,      \* those without namespaces
    Namespaces,
    Means,       \* the kinds the view's resource name stands for, best first
    Scalable,    \* Scale has a typed client for the name
    Restartable, \* RolloutRestart has one
    MaxVersion   \* bound on the versions the cluster gives out

ASSUME KindsAssumption ==
    /\ Global \subseteq Kinds
    /\ Namespaces \cap {"error", "all", "-"} = {}
ASSUME MeansAssumption == Means \in Seq(Kinds) /\ Means # <<>>
ASSUME TypedAssumption == Scalable \in BOOLEAN /\ Restartable \in BOOLEAN
                          /\ (Scalable => Restartable) /\ (Restartable => Means[1] \notin Global)
ASSUME MaxVersionAssumption == MaxVersion \in Nat \ {0}

VARIABLES
    object,    \* the object of a kind in a place
    version,   \* the cluster's last resource version
    namespace, \* the view's namespace, or "all"
    live,      \* the cached view is LIVE, without an error
    step,      \* how far a request is
    query,     \* what it asks for
    target,    \* the kind and place it resolved to
    got,       \* the object it has read
    code,      \* its result
    missed     \* history: discovery lacked the kind its name means first

requestVars == <<step, query, target, got, code, missed>>
vars == <<object, version, namespace, live, requestVars>>

NoPlace == "-"
Places  == Namespaces \cup {NoPlace}
Verbs   == {"delete", "scale", "restart", "label"}  \* label stands for annotate, too
Absent  == [version |-> 0, changes |-> {}]
None    == <<>>
Where   == {w \in Kinds \X Places : (w[1] \in Global) <=> (w[2] = NoPlace)}

\* An object, and the versions whose changes it has.
Objects == [version : 0..MaxVersion, changes : SUBSET (1..MaxVersion)]

\* The query, with the row's place and the kind the row was listed as.
Queries == [verb : Verbs, place : Places, listed : Kinds]

\* What the name may resolve to: the first of its kinds that are found.
Resolved == Range(Means)

\* Mutant: the row's namespace is not looked at.
ActionPlaceOfView(place) ==
    IF namespace = "all" THEN CHOOSE n \in Namespaces : TRUE ELSE namespace

\* resolveActionNamespace: the row's namespace, or else the view's.
ActionPlace(place) ==
    IF place # NoPlace THEN place ELSE IF namespace = "all" THEN "error" ELSE namespace

\* A global kind is addressed without a namespace.
TargetPlace(kind, place) == IF kind \in Global THEN NoPlace ELSE ActionPlace(place)

\* The rows a list of the view may have returned, now or before.
Rows == {w \in Where : w[1] \in Resolved /\ (w[1] \in Global \/ namespace \in {"all", w[2]})}

Init ==
    /\ object = [w \in Where |-> [version |-> 1, changes |-> {}]]
    /\ version = 1
    /\ namespace \in Namespaces \cup {"all"}
    /\ live = FALSE
    /\ step = [r \in Requests |-> "idle"]
    /\ query = [r \in Requests |-> None]
    /\ target = [r \in Requests |-> None]
    /\ got = [r \in Requests |-> Absent]
    /\ code = [r \in Requests |-> "none"]
    /\ missed = [r \in Requests |-> FALSE]

-----------------------------------------------------------------------------
(* The cluster and the view.                                               *)

\* Someone else changes, creates or deletes an object.
ElseWrites ==
    /\ version < MaxVersion
    /\ version' = version + 1
    /\ \E w \in Where :
          object' = [object EXCEPT ![w] =
                        [version |-> version + 1, changes |-> @.changes \cup {version + 1}]]
    /\ UNCHANGED <<namespace, live, requestVars>>

ElseDeletes ==
    /\ \E w \in {x \in Where : object[x] # Absent} : object' = [object EXCEPT ![w] = Absent]
    /\ UNCHANGED <<version, namespace, live, requestVars>>

ViewChanges ==
    /\ live' = ~live
    /\ UNCHANGED <<object, version, namespace, requestVars>>

-----------------------------------------------------------------------------
(* The handler of an action request.                                       *)

\* A client asks for an action on a row that it shows.
Ask(r) ==
    /\ step[r] = "idle"
    /\ \E verb \in Verbs, row \in Rows :
          /\ query' = [query EXCEPT ![r] = [verb |-> verb, place |-> row[2], listed |-> row[1]]]
          /\ missed' = [missed EXCEPT ![r] = row[1] # Means[1]]
    /\ step' = [step EXCEPT ![r] = "asked"]
    /\ code' = [code EXCEPT ![r] = "none"]
    /\ UNCHANGED <<object, version, namespace, live, target, got>>

Goes(r, to) ==
    /\ step' = [step EXCEPT ![r] = to]
    /\ UNCHANGED <<query, code, missed>>

Answer(r, c) ==
    /\ step' = [step EXCEPT ![r] = "idle"]
    /\ code' = [code EXCEPT ![r] = c]
    /\ query' = [query EXCEPT ![r] = None]
    /\ target' = [target EXCEPT ![r] = None]
    /\ got' = [got EXCEPT ![r] = Absent]
    /\ missed' = [missed EXCEPT ![r] = FALSE]

\* A field of the query is missing, or its value is not legal: a negative
\* count, an empty label, a custom resource without the filter.
Invalid(r) ==
    /\ step[r] \in {"asked", "gated"}
    /\ Answer(r, "VALIDATION")
    /\ UNCHANGED <<object, version, namespace, live>>

\* executeAction: the freshness of the view.
Gate(r) ==
    /\ step[r] = "asked"
    /\ \/ live /\ Goes(r, "gated") /\ UNCHANGED <<target, got>>
       \/ ~live /\ Answer(r, "STALE_DATA")
    /\ UNCHANGED <<object, version, namespace, live>>

Typed(verb)       == verb \in {"scale", "restart"}
Unsupported(verb) == \/ verb = "scale" /\ ~Scalable
                     \/ verb = "restart" /\ ~Restartable

\* Typed clients know the kind; the others discover it: the first of the kinds
\* that the name means among those that are found, if any.
ResolveTarget(r) ==
    LET q == query[r]
    IN  /\ step[r] = "gated"
        /\ \/ /\ Unsupported(q.verb)
              /\ Answer(r, "UNSUPPORTED")
           \/ /\ ~Unsupported(q.verb)
              /\ \E kind \in (IF Typed(q.verb) THEN {Means[1]} ELSE Resolved) :
                    LET place == TargetPlace(kind, q.place)
                    IN  IF place = "error"
                        THEN Answer(r, "VALIDATION")
                        ELSE /\ target' = [target EXCEPT ![r] = <<kind, place>>]
                             /\ missed' = [missed EXCEPT ![r] = @ \/ kind # Means[1]]
                             /\ step' = [step EXCEPT ![r] = "resolved"]
                             /\ UNCHANGED <<query, code, got>>
           \/ /\ ~Typed(q.verb)
              /\ Answer(r, "INTERNAL")
        /\ UNCHANGED <<object, version, namespace, live>>

\* The API server refuses, or is not reached.
Refused(r) ==
    /\ step[r] \in {"resolved", "got"}
    /\ \E c \in {"AUTH", "VALIDATION", "INTERNAL"} : Answer(r, c)
    /\ UNCHANGED <<object, version, namespace, live>>

Missing(r) ==
    /\ step[r] \in {"resolved", "got"}
    /\ object[target[r]] = Absent
    /\ Answer(r, "NOT_FOUND")
    /\ UNCHANGED <<object, version, namespace, live>>

\* The cluster has done it; its answer may be lost, or come too late.
Done(r) == \E c \in {"OK", "INTERNAL"} : Answer(r, c)

Delete(r) ==
    /\ step[r] = "resolved" /\ query[r].verb = "delete"
    /\ object[target[r]] # Absent
    /\ object' = [object EXCEPT ![target[r]] = Absent]
    /\ Done(r)
    /\ UNCHANGED <<version, namespace, live>>

\* Get; the change is made to the copy.
Get(r) ==
    /\ step[r] = "resolved" /\ query[r].verb # "delete"
    /\ object[target[r]] # Absent
    /\ got' = [got EXCEPT ![r] = object[target[r]]]
    /\ Goes(r, "got")
    /\ UNCHANGED <<object, version, namespace, live, target>>

\* Mutant: the update is sent without the version that was read.
CurrentAnyway(r) == TRUE

\* Update: the cluster takes it when the object is the one that was read.
Current(r) == got[r].version = object[target[r]].version

Update(r) ==
    /\ step[r] = "got"
    /\ version < MaxVersion
    /\ object[target[r]] # Absent
    /\ Current(r)
    /\ version' = version + 1
    /\ object' = [object EXCEPT ![target[r]] =
          [version |-> version + 1, changes |-> got[r].changes \cup {version + 1}]]
    /\ Done(r)
    /\ UNCHANGED <<namespace, live>>

\* Mutant: a conflict is taken for a success.
ConflictIgnored(r) ==
    /\ step[r] = "got"
    /\ object[target[r]] # Absent
    /\ ~Current(r)
    /\ Answer(r, "OK")
    /\ UNCHANGED <<object, version, namespace, live>>

\* mapActionError has no code of its own for a conflict.
Conflict(r) ==
    /\ step[r] = "got"
    /\ object[target[r]] # Absent
    /\ ~Current(r)
    /\ Answer(r, "INTERNAL")
    /\ UNCHANGED <<object, version, namespace, live>>

-----------------------------------------------------------------------------
Handler(r) == Invalid(r) \/ Gate(r) \/ ResolveTarget(r) \/ Refused(r) \/ Missing(r)
              \/ Delete(r) \/ Get(r) \/ Update(r) \/ Conflict(r)

Next ==
    \/ ElseWrites \/ ElseDeletes \/ ViewChanges
    \/ \E r \in Requests : Ask(r) \/ Handler(r)

Spec == Init /\ [][Next]_vars

-----------------------------------------------------------------------------
(* Properties.                                                             *)

Codes == {"none", "OK", "STALE_DATA", "VALIDATION", "UNSUPPORTED", "AUTH", "NOT_FOUND", "INTERNAL"}

\* Every variable has its type.
TypeOK ==
    /\ object \in [Where -> Objects]
    /\ version \in 1..MaxVersion
    /\ namespace \in Namespaces \cup {"all"} /\ live \in BOOLEAN
    /\ step \in [Requests -> {"idle", "asked", "gated", "resolved", "got"}]
    /\ query \in [Requests -> Queries \cup {None}]
    /\ target \in [Requests -> Where \cup {None}]
    /\ got \in [Requests -> Objects]
    /\ code \in [Requests -> Codes]
    /\ missed \in [Requests -> BOOLEAN]

\* The row and the action name a kind and a namespace on their own, at times
\* of their own (actions.go 418, resources.go 196): what an action changes, in a
\* view of all namespaces, of one, or of a global kind, is the object of the
\* row's kind and namespace, unless discovery, when the row was listed or the
\* action resolved, did not tell of the kind that the name means first.
ActsOnTheRow ==
    [][\A r \in Requests : step'[r] # step[r] =>
          \A w \in Where : object'[w] # object[w] =>
              missed[r] \/ w = <<query[r].listed, query[r].place>>]_vars

\* Another action's or another program's change of an object that is there is
\* never undone by an action that read the object before (actions.go 94, 140,
\* 244, 301): Update carries the version that Get returned.
NoLostChange ==
    [][\A w \in Where : object[w] # Absent /\ object'[w] # Absent =>
          object[w].changes \subseteq object'[w].changes]_vars

\* The result tells what became of the request (server.go 390-523), however
\* the view, the object and the discovery moved between its steps: OK when the
\* cluster has taken it, and when it has not, any other code.  INTERNAL leaves
\* it open: the answer to a change that was made may be lost.  An update that
\* sets what is there already counts as a change.
AnswerTellsTheOutcome ==
    [][\A r \in Requests : step'[r] # step[r] =>
          /\ code'[r] = "OK" => object' # object
          /\ object' # object => code'[r] \in {"OK", "INTERNAL"}]_vars
-----------------------------------------------------------------------------
(* Refinement: reading, changing the copy and writing it back, among others *)
(* who do the same, is one change at one moment.                           *)

Busy == {r \in Requests : step[r] # "idle"}

Atomic == INSTANCE RowActions WITH
    open     <- Busy,
    row      <- [r \in Requests |->
                    IF r \in Busy THEN <<query[r].listed, query[r].place>> ELSE None],
    deleting <- {r \in Busy : query[r].verb = "delete"},
    passed   <- {r \in Busy : step[r] # "asked"},
    astray   <- {r \in Busy : missed[r]}

\* An action is atomic: after its view was found LIVE it changes the object
\* that is there when it takes effect, by its own change only, or deletes it,
\* once, and is answered with that; what is refused, in conflict or missing has
\* changed nothing (server.go 390-523, actions.go 32-355).
IsAtomic == Atomic!Spec
=============================================================================
