----------------------------- MODULE RowActions -----------------------------
(***************************************************************************)
(* What an action on a row amounts to for its user and for everybody else: *)
(* once the view has been seen LIVE it takes effect at one moment, on the  *)
(* object of the row as it is at that moment, or not at all, and its       *)
(* result tells which.  A request goes astray when discovery does not tell *)
(* of the kind that the resource name means first: then the object may be  *)
(* another.                                                                *)
(*                                                                         *)
(* Others write and delete objects as well.                                *)
(***************************************************************************)
EXTENDS Naturals

CONSTANTS
    Requests,
    Where,      \* where objects are: a kind and a place
    Absent,     \* what is there when no object is
    None        \* no row

VARIABLES
    object, version,
    live,       \* is the view LIVE
    open,       \* requests without a result
    row,        \* where the row of one is
    deleting,   \* those that delete; the others change
    passed,     \* those that have found the view LIVE
    astray,
    code        \* the result of the last request

requestVars == <<open, row, deleting, passed, astray, code>>
vars == <<object, version, live, requestVars>>

Refusals == {"STALE_DATA", "VALIDATION", "UNSUPPORTED", "AUTH", "NOT_FOUND", "INTERNAL"}

\* The cluster has done it; INTERNAL when its answer is lost.
Successes == {"OK", "INTERNAL"}

Init ==
    /\ object = [w \in Where |-> [version |-> 1, changes |-> {}]]
    /\ version = 1
    /\ live = FALSE
    /\ open = {}
    /\ row = [r \in Requests |-> None]
    /\ deleting = {}
    /\ passed = {}
    /\ astray = {}
    /\ code = [r \in Requests |-> "none"]

\* A change is an addition to what is there.
Changed(w) == [version |-> version + 1, changes |-> object[w].changes \cup {version + 1}]

ElseWrites(w) ==
    /\ object' = [object EXCEPT ![w] = Changed(w)]
    /\ version' = version + 1
    /\ UNCHANGED <<live, requestVars>>

ElseDeletes(w) ==
    /\ object' = [object EXCEPT ![w] = Absent]
    /\ UNCHANGED <<version, live, requestVars>>

ViewChanges ==
    /\ live' = ~live
    /\ UNCHANGED <<object, version, requestVars>>

Ask(r) ==
    /\ r \notin open
    /\ open' = open \cup {r}
    /\ \E w \in Where : row' = [row EXCEPT ![r] = w]
    /\ deleting' \in {deleting, deleting \cup {r}}
    /\ astray' \in {astray, astray \cup {r}}
    /\ code' = [code EXCEPT ![r] = "none"]
    /\ UNCHANGED <<object, version, live, passed>>

Passes(r) ==
    /\ r \in open
    /\ live
    /\ passed' = passed \cup {r}
    /\ UNCHANGED <<object, version, live, open, row, deleting, astray, code>>

Strays(r) ==
    /\ r \in open
    /\ astray' = astray \cup {r}
    /\ UNCHANGED <<object, version, live, open, row, deleting, passed, code>>

Answer(r, codes) ==
    /\ r \in open
    /\ open' = open \ {r}
    /\ row' = [row EXCEPT ![r] = None]
    /\ deleting' = deleting \ {r}
    /\ passed' = passed \ {r}
    /\ astray' = astray \ {r}
    /\ \E c \in codes : code' = [code EXCEPT ![r] = c]

Hits(r, w) == object[w] # Absent /\ (w = row[r] \/ r \in astray)

Change(r) ==
    /\ r \in passed \ deleting
    /\ \E w \in Where : Hits(r, w) /\ object' = [object EXCEPT ![w] = Changed(w)]
    /\ version' = version + 1
    /\ UNCHANGED live
    /\ Answer(r, Successes)

Delete(r) ==
    /\ r \in passed \cap deleting
    /\ \E w \in Where : Hits(r, w) /\ object' = [object EXCEPT ![w] = Absent]
    /\ UNCHANGED <<version, live>>
    /\ Answer(r, Successes)

Refuse(r) ==
    /\ Answer(r, Refusals)
    /\ UNCHANGED <<object, version, live>>

Next ==
    \/ \E w \in Where : ElseWrites(w) \/ ElseDeletes(w)
    \/ ViewChanges
    \/ \E r \in Requests : Ask(r) \/ Passes(r) \/ Strays(r) \/ Change(r) \/ Delete(r) \/ Refuse(r)

Spec == Init /\ [][Next]_vars
=============================================================================
