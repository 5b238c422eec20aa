-------------------------- MODULE ActionGateProofs --------------------------
(* Theorems about ActionGate, for any number of requests, kinds, namespaces *)
(* and versions.                                                           *)
EXTENDS ActionGate, TLAPS

\* A handler at work knows its query, the row's place and kind fit, it has no
\* result yet, and one that has read the object is not to delete it.
Working ==
    \A r \in Requests : step[r] # "idle" =>
        /\ query[r] \in Queries
        /\ <<query[r].listed, query[r].place>> \in Where
        /\ code[r] = "none"
        /\ ~missed[r] => query[r].listed = Means[1]
        /\ step[r] = "got" => query[r].verb # "delete"

\* What it has resolved to is the row, unless discovery was lacking.
OnTarget ==
    \A r \in Requests : step[r] \in {"resolved", "got"} =>
        /\ target[r] \in Where
        /\ ~missed[r] => target[r] = <<query[r].listed, query[r].place>>

\* The cluster gives out no version twice: an object that still has the
\* version that was read is the one that was read.
VersionsTell ==
    /\ \A w \in Where : object[w].version <= version
    /\ \A r \in Requests : step[r] = "got" =>
          /\ got[r].version <= version
          /\ object[target[r]] # Absent /\ Current(r) =>
                got[r].changes = object[target[r]].changes

IInv == TypeOK /\ Working /\ OnTarget /\ VersionsTell

LEMMA MeansFacts ==
    /\ Means[1] \in Resolved
    /\ Resolved \subseteq Kinds
<1>1. Means \in Seq(Kinds) /\ Means # <<>>
  BY MeansAssumption
<1>2. Len(Means) \in Nat /\ Len(Means) >= 1 /\ DOMAIN Means = 1..Len(Means)
  BY <1>1
<1>3. \A i \in DOMAIN Means : Means[i] \in Kinds
  BY <1>1, <1>2
<1> QED
  BY <1>2, <1>3 DEF Resolved, Range

\* The place of an action is the row's.
LEMMA PlaceOfTarget ==
    ASSUME NEW kind \in Kinds, NEW place \in Places, namespace \in Namespaces \cup {"all"},
           TargetPlace(kind, place) # "error"
    PROVE  /\ <<kind, TargetPlace(kind, place)>> \in Where
           /\ <<kind, place>> \in Where => TargetPlace(kind, place) = place
BY KindsAssumption DEF TargetPlace, ActionPlace, Where, Places, NoPlace

LEMMA InitIInv == Init => IInv
<1> SUFFICES ASSUME Init PROVE IInv
  OBVIOUS
<1>1. object \in [Where -> Objects] /\ version \in 1..MaxVersion
  BY MaxVersionAssumption DEF Init, Objects
<1>2. got \in [Requests -> Objects]
  BY MaxVersionAssumption DEF Init, Objects, Absent
<1>3. TypeOK
  BY <1>1, <1>2 DEF Init, TypeOK, Codes
<1>4. VersionsTell
  BY MaxVersionAssumption DEF Init, VersionsTell
<1> QED
  BY <1>3, <1>4 DEF Init, IInv, Working, OnTarget

\* The request ends, and the cluster is as it was.
LEMMA AnswerIInv ==
    ASSUME IInv, NEW r \in Requests, NEW c \in Codes, Answer(r, c),
           UNCHANGED <<object, version, namespace, live>>
    PROVE  IInv'
<1>1. TypeOK'
  <2>1. Absent \in Objects
    BY MaxVersionAssumption DEF Absent, Objects
  <2> QED
    BY <2>1 DEF IInv, TypeOK, Answer
<1>2. Working'
  BY DEF IInv, TypeOK, Working, Answer
<1>3. OnTarget'
  BY DEF IInv, TypeOK, OnTarget, Answer
<1>4. VersionsTell'
  BY DEF IInv, TypeOK, VersionsTell, Current, Answer
<1> QED
  BY <1>1, <1>2, <1>3, <1>4 DEF IInv

LEMMA CodesUsed ==
    {"OK", "STALE_DATA", "VALIDATION", "UNSUPPORTED", "AUTH", "NOT_FOUND", "INTERNAL"} \subseteq Codes
BY DEF Codes

\* Somebody writes the next version of an object.
LEMMA WriteKeepsVersions ==
    ASSUME IInv, version < MaxVersion, version' = version + 1,
           NEW w \in Where, NEW o \in Objects, o.version = version + 1,
           object' = [object EXCEPT ![w] = o]
    PROVE  /\ object' \in [Where -> Objects]
           /\ version' \in 1..MaxVersion
           /\ \A x \in Where : object'[x].version <= version'
           /\ \A x \in Where : \A v \in Nat :
                 v <= version /\ object'[x].version = v => object'[x] = object[x]
<1>1. version \in 1..MaxVersion /\ object \in [Where -> Objects]
  BY DEF IInv, TypeOK
<1>2. \A x \in Where : object[x].version \in Nat
  BY <1>1, MaxVersionAssumption DEF Objects
<1>3. \A x \in Where : object'[x] = IF x = w THEN o ELSE object[x]
  BY <1>1
<1> QED
  BY <1>1, <1>2, <1>3, MaxVersionAssumption DEF IInv, VersionsTell

LEMMA WrittenIsObject ==
    ASSUME version \in 1..MaxVersion, version < MaxVersion,
           NEW changes \in SUBSET (1..MaxVersion)
    PROVE  [version |-> version + 1, changes |-> changes \cup {version + 1}] \in Objects
BY MaxVersionAssumption DEF Objects

LEMMA NextIInv == IInv /\ [Next]_vars => IInv'
<1> SUFFICES ASSUME IInv, [Next]_vars PROVE IInv'
  OBVIOUS
<1> USE DEF IInv
<1>1. CASE ElseWrites
  <2>1. PICK w \in Where : object' = [object EXCEPT ![w] =
            [version |-> version + 1, changes |-> object[w].changes \cup {version + 1}]]
    BY <1>1 DEF ElseWrites
  <2> DEFINE o == [version |-> version + 1, changes |-> object[w].changes \cup {version + 1}]
  <2>2. version < MaxVersion /\ version' = version + 1
    BY <1>1 DEF ElseWrites
  <2>3. object[w].changes \in SUBSET (1..MaxVersion)
    BY DEF TypeOK, Objects
  <2>4. o \in Objects /\ o.version = version + 1
    BY <2>2, <2>3, WrittenIsObject DEF TypeOK
  <2>5. /\ object' \in [Where -> Objects]
        /\ version' \in 1..MaxVersion
        /\ \A x \in Where : object'[x].version <= version'
        /\ \A x \in Where : \A v \in Nat :
              v <= version /\ object'[x].version = v => object'[x] = object[x]
    BY <2>1, <2>2, <2>4, WriteKeepsVersions
  <2>6. UNCHANGED <<namespace, live, step, query, target, got, code, missed>>
    BY <1>1 DEF ElseWrites, requestVars
  <2>7. TypeOK' /\ Working' /\ OnTarget'
    BY <2>5, <2>6 DEF TypeOK, Working, OnTarget
  <2>8. VersionsTell'
    <3>1. ASSUME NEW r \in Requests, step[r] = "got"
          PROVE  /\ got[r].version <= version'
                 /\ object'[target[r]] # Absent /\ got[r].version = object'[target[r]].version =>
                       got[r].changes = object'[target[r]].changes
      <4>1. got[r].version \in Nat /\ version \in Nat /\ got[r].version <= version /\ target[r] \in Where
        BY <3>1, MaxVersionAssumption DEF TypeOK, Objects, VersionsTell, OnTarget
      <4> QED
        BY <2>2, <2>5, <3>1, <4>1 DEF VersionsTell, Current
    <3> QED
      BY <2>5, <2>6, <3>1 DEF VersionsTell, Current
  <2> QED
    BY <2>7, <2>8
<1>2. CASE ElseDeletes
  <2>1. PICK w \in Where : object' = [object EXCEPT ![w] = Absent]
    BY <1>2 DEF ElseDeletes
  <2>2. UNCHANGED <<version, namespace, live, step, query, target, got, code, missed>>
    BY <1>2 DEF ElseDeletes, requestVars
  <2>3. Absent \in Objects /\ Absent.version = 0
    BY MaxVersionAssumption DEF Absent, Objects
  <2>4. TypeOK' /\ Working' /\ OnTarget'
    BY <2>1, <2>2, <2>3 DEF TypeOK, Working, OnTarget
  <2>5. \A x \in Where : object'[x] = IF x = w THEN Absent ELSE object[x]
    BY <2>1 DEF TypeOK
  <2>6. VersionsTell'
    BY <2>2, <2>3, <2>5, MaxVersionAssumption DEF TypeOK, VersionsTell, OnTarget, Current
  <2> QED
    BY <2>4, <2>6
<1>3. CASE ViewChanges
  BY <1>3 DEF ViewChanges, requestVars, TypeOK, Working, OnTarget, VersionsTell, Current
<1>4. ASSUME NEW r \in Requests, Ask(r) PROVE IInv'
  <2>1. PICK verb \in Verbs, row \in Rows :
            /\ query' = [query EXCEPT ![r] = [verb |-> verb, place |-> row[2], listed |-> row[1]]]
            /\ missed' = [missed EXCEPT ![r] = row[1] # Means[1]]
    BY <1>4 DEF Ask
  <2>2. row \in Where /\ row = <<row[1], row[2]>> /\ row[1] \in Kinds /\ row[2] \in Places
    BY DEF Rows, Where
  <2>3. UNCHANGED <<object, version, namespace, live, target, got>>
    BY <1>4 DEF Ask
  <2>4. step' = [step EXCEPT ![r] = "asked"] /\ code' = [code EXCEPT ![r] = "none"]
    BY <1>4 DEF Ask
  <2>5. TypeOK'
    BY <2>1, <2>2, <2>3, <2>4 DEF TypeOK, Queries, Codes
  <2>6. Working'
    BY <2>1, <2>2, <2>3, <2>4 DEF TypeOK, Working, Queries
  <2>7. OnTarget' /\ VersionsTell'
    BY <2>1, <2>3, <2>4 DEF TypeOK, OnTarget, VersionsTell, Current
  <2> QED
    BY <2>5, <2>6, <2>7
<1>5. ASSUME NEW r \in Requests, Invalid(r) \/ Refused(r) \/ Missing(r) \/ Conflict(r) PROVE IInv'
  <2>1. PICK c \in Codes : Answer(r, c) /\ UNCHANGED <<object, version, namespace, live>>
    BY <1>5, CodesUsed DEF Invalid, Refused, Missing, Conflict
  <2> QED
    BY <2>1, AnswerIInv
<1>6. ASSUME NEW r \in Requests, Gate(r) PROVE IInv'
  <2>1. UNCHANGED <<object, version, namespace, live>>
    BY <1>6 DEF Gate
  <2>2. CASE Answer(r, "STALE_DATA")
    BY <2>1, <2>2, AnswerIInv, CodesUsed
  <2>3. CASE step[r] = "asked" /\ Goes(r, "gated") /\ UNCHANGED <<target, got>>
    BY <2>1, <2>3 DEF Goes, TypeOK, Working, OnTarget, VersionsTell, Current
  <2> QED
    BY <1>6, <2>2, <2>3 DEF Gate
<1>7. ASSUME NEW r \in Requests, ResolveTarget(r) PROVE IInv'
  <2>1. UNCHANGED <<object, version, namespace, live>> /\ step[r] = "gated"
    BY <1>7 DEF ResolveTarget
  <2>2. CASE \E c \in Codes : Answer(r, c)
    BY <2>1, <2>2, AnswerIInv
  <2>3. ASSUME NEW kind \in Kinds,
               TargetPlace(kind, query[r].place) # "error",
               target' = [target EXCEPT ![r] = <<kind, TargetPlace(kind, query[r].place)>>],
               missed' = [missed EXCEPT ![r] = @ \/ kind # Means[1]],
               step' = [step EXCEPT ![r] = "resolved"],
               UNCHANGED <<query, code, got>>
        PROVE  IInv'
    <3>1. /\ query[r].place \in Places
          /\ <<query[r].listed, query[r].place>> \in Where
          /\ ~missed[r] => query[r].listed = Means[1]
      BY <2>1 DEF Working, Queries
    <3> DEFINE t == <<kind, TargetPlace(kind, query[r].place)>>
    <3>2. t \in Where /\ (<<kind, query[r].place>> \in Where => t[2] = query[r].place)
      BY <2>3, <3>1, PlaceOfTarget DEF TypeOK
    <3>3. TypeOK'
      BY <2>1, <2>3, <3>2 DEF TypeOK
    <3>4. Working'
      BY <2>1, <2>3 DEF TypeOK, Working
    <3>5. OnTarget'
      BY <2>1, <2>3, <3>1, <3>2 DEF TypeOK, OnTarget
    <3>6. VersionsTell'
      BY <2>1, <2>3 DEF TypeOK, VersionsTell, Current
    <3> QED
      BY <3>3, <3>4, <3>5, <3>6
  <2> QED
    BY <1>7, <2>2, <2>3, MeansFacts, CodesUsed DEF ResolveTarget
<1>8. ASSUME NEW r \in Requests, Delete(r) PROVE IInv'
  <2>1. PICK c \in Codes : Answer(r, c)
    BY <1>8, CodesUsed DEF Delete, Done
  <2>2. step[r] = "resolved" /\ target[r] \in Where
        /\ object' = [object EXCEPT ![target[r]] = Absent]
        /\ UNCHANGED <<version, namespace, live>>
    BY <1>8 DEF Delete, OnTarget
  <2>3. Absent \in Objects /\ Absent.version = 0
    BY MaxVersionAssumption DEF Absent, Objects
  <2>4. \A x \in Where : object'[x] = IF x = target[r] THEN Absent ELSE object[x]
    BY <2>2 DEF TypeOK
  <2>5. TypeOK' /\ Working' /\ OnTarget'
    BY <2>1, <2>2, <2>3 DEF TypeOK, Working, OnTarget, Answer
  <2>6. VersionsTell'
    BY <2>1, <2>2, <2>3, <2>4, MaxVersionAssumption
       DEF TypeOK, VersionsTell, OnTarget, Current, Answer
  <2> QED
    BY <2>5, <2>6
<1>9. ASSUME NEW r \in Requests, Get(r) PROVE IInv'
  <2>1. step[r] = "resolved" /\ target[r] \in Where
    BY <1>9 DEF Get, OnTarget
  <2>2. TypeOK' /\ Working' /\ OnTarget'
    BY <1>9, <2>1 DEF Get, Goes, TypeOK, Working, OnTarget
  <2>3. VersionsTell'
    BY <1>9, <2>1 DEF Get, Goes, TypeOK, VersionsTell, Current
  <2> QED
    BY <2>2, <2>3
<1>10. ASSUME NEW r \in Requests, Update(r) PROVE IInv'
  <2>1. PICK c \in Codes : Answer(r, c)
    BY <1>10, CodesUsed DEF Update, Done
  <2> DEFINE o == [version |-> version + 1, changes |-> got[r].changes \cup {version + 1}]
  <2>2. /\ step[r] = "got" /\ target[r] \in Where /\ UNCHANGED <<namespace, live>>
        /\ version < MaxVersion /\ version' = version + 1
        /\ object' = [object EXCEPT ![target[r]] = o]
    BY <1>10 DEF Update, OnTarget
  <2>3. o \in Objects /\ o.version = version + 1
    BY <2>2, WrittenIsObject DEF TypeOK, Objects
  <2>4. /\ object' \in [Where -> Objects]
        /\ version' \in 1..MaxVersion
        /\ \A x \in Where : object'[x].version <= version'
        /\ \A x \in Where : \A v \in Nat :
              v <= version /\ object'[x].version = v => object'[x] = object[x]
    BY <2>2, <2>3, WriteKeepsVersions
  <2>5. Absent \in Objects
    BY MaxVersionAssumption DEF Absent, Objects
  <2>6. TypeOK' /\ Working' /\ OnTarget'
    BY <2>1, <2>2, <2>4, <2>5 DEF TypeOK, Working, OnTarget, Answer
  <2>7. VersionsTell'
    <3>1. ASSUME NEW q \in Requests, q # r, step[q] = "got"
          PROVE  /\ got[q].version <= version'
                 /\ object'[target[q]] # Absent /\ got[q].version = object'[target[q]].version =>
                       got[q].changes = object'[target[q]].changes
      <4>1. got[q].version \in Nat /\ version \in Nat /\ got[q].version <= version /\ target[q] \in Where
        BY <3>1, MaxVersionAssumption DEF TypeOK, Objects, VersionsTell, OnTarget
      <4> QED
        BY <2>2, <2>4, <3>1, <4>1 DEF VersionsTell, Current
    <3> QED
      BY <2>1, <2>4, <3>1 DEF TypeOK, VersionsTell, Current, Answer
  <2> QED
    BY <2>6, <2>7
<1>11. CASE UNCHANGED vars
  BY <1>11 DEF vars, requestVars, TypeOK, Working, OnTarget, VersionsTell, Current
<1> QED
  BY <1>1, <1>2, <1>3, <1>4, <1>5, <1>6, <1>7, <1>8, <1>9, <1>10, <1>11 DEF Next, Handler

LEMMA Invariance == Spec => []IInv
<1> QED
  BY InitIInv, NextIInv, PTL DEF Spec

\* Every reachable state of the action handlers, the objects they change and
\* the view they look at is well typed.
THEOREM TypeCorrect == Spec => []TypeOK
<1>1. IInv => TypeOK
  BY DEF IInv
<1> QED
  BY <1>1, Invariance, PTL

-----------------------------------------------------------------------------
(* What the steps do to the objects and to the requests.                   *)

\* Handler steps that leave the cluster alone.
Only(r) == Ask(r) \/ Invalid(r) \/ Gate(r) \/ ResolveTarget(r)
           \/ Refused(r) \/ Missing(r) \/ Get(r) \/ Conflict(r)

LEMMA StepSplit ==
    ASSUME [Next]_vars
    PROVE  \/ (ElseWrites \/ ElseDeletes) /\ UNCHANGED step
           \/ UNCHANGED <<object, step>>
           \/ \E r \in Requests : Only(r) /\ UNCHANGED object
           \/ \E r \in Requests : Delete(r)
           \/ \E r \in Requests : Update(r)
<1>1. CASE ElseWrites \/ ElseDeletes \/ ViewChanges \/ UNCHANGED vars
  BY <1>1 DEF ElseWrites, ElseDeletes, ViewChanges, requestVars, vars
<1>2. ASSUME NEW r \in Requests, Only(r) PROVE UNCHANGED object
  BY <1>2 DEF Only, Ask, Invalid, Gate, ResolveTarget, Refused, Missing, Get, Conflict
<1> QED
  BY <1>1, <1>2 DEF Next, Handler, Only

\* A deletion is of the target, and an update of what was read.
LEMMA DeleteEffect ==
    ASSUME IInv, NEW r \in Requests, Delete(r)
    PROVE  /\ step[r] # "idle" /\ target[r] \in Where
           /\ \A w \in Where : object'[w] = IF w = target[r] THEN Absent ELSE object[w]
           /\ ~missed[r] => target[r] = <<query[r].listed, query[r].place>>
           /\ step' = [step EXCEPT ![r] = "idle"]
           /\ code'[r] \in {"OK", "INTERNAL"}
           /\ object' # object
<1>1. target[r] \in Where /\ (~missed[r] => target[r] = <<query[r].listed, query[r].place>>)
  BY DEF IInv, OnTarget, Delete
<1>2. \A w \in Where : object'[w] = IF w = target[r] THEN Absent ELSE object[w]
  BY <1>1 DEF IInv, TypeOK, Delete
<1>3. object' # object
  BY <1>1, <1>2 DEF Delete
<1> QED
  BY <1>1, <1>2, <1>3 DEF IInv, TypeOK, Delete, Done, Answer

LEMMA UpdateEffect ==
    ASSUME IInv, NEW r \in Requests, Update(r)
    PROVE  /\ step[r] # "idle" /\ target[r] \in Where
           /\ \A w \in Where : w # target[r] => object'[w] = object[w]
           /\ object[target[r]].changes \subseteq object'[target[r]].changes
           /\ ~missed[r] => target[r] = <<query[r].listed, query[r].place>>
           /\ step' = [step EXCEPT ![r] = "idle"]
           /\ code'[r] \in {"OK", "INTERNAL"}
           /\ object' # object
<1>1. target[r] \in Where /\ (~missed[r] => target[r] = <<query[r].listed, query[r].place>>)
  BY DEF IInv, OnTarget, Update
<1>2. /\ \A w \in Where : w # target[r] => object'[w] = object[w]
      /\ object'[target[r]] =
            [version |-> version + 1, changes |-> got[r].changes \cup {version + 1}]
  BY <1>1 DEF IInv, TypeOK, Update
<1>3. got[r].changes = object[target[r]].changes
  BY <1>1 DEF IInv, VersionsTell, Update
<1>4. object[target[r]].version <= version /\ version \in Nat
  BY <1>1, MaxVersionAssumption DEF IInv, TypeOK, VersionsTell
<1>5. object' # object
  BY <1>1, <1>2, <1>4
<1>6. object[target[r]].changes \subseteq object'[target[r]].changes
  BY <1>2, <1>3
<1> QED
  BY <1>1, <1>2, <1>5, <1>6 DEF IInv, TypeOK, Update, Done, Answer

\* No action undoes a change that another action, or another program, has made
\* to an object that is still there (internal/kube/actions.go: Update carries
\* the version that Get returned).
THEOREM NoLostChangeHolds == Spec => NoLostChange
<1>1. IInv /\ [Next]_vars =>
        [\A w \in Where : object[w] # Absent /\ object'[w] # Absent =>
            object[w].changes \subseteq object'[w].changes]_vars
  <2> SUFFICES ASSUME IInv, [Next]_vars, NEW w \in Where,
                      object[w] # Absent, object'[w] # Absent
               PROVE  object[w].changes \subseteq object'[w].changes
    OBVIOUS
  <2>1. CASE ElseWrites
    BY <2>1 DEF ElseWrites, IInv, TypeOK
  <2>2. CASE ElseDeletes
    BY <2>2 DEF ElseDeletes, IInv, TypeOK
  <2>3. CASE UNCHANGED object
    BY <2>3
  <2>4. CASE \E r \in Requests : Delete(r)
    BY <2>4, DeleteEffect
  <2>5. CASE \E r \in Requests : Update(r)
    BY <2>5, UpdateEffect
  <2> QED
    BY <2>1, <2>2, <2>3, <2>4, <2>5, StepSplit
<1> QED
  BY <1>1, Invariance, PTL DEF Spec, NoLostChange

\* A step of a handler changes nothing but the object of the row that the
\* action was asked for, unless discovery lacked the kind that the name means
\* first (resolveActionNamespace, resolveDiscoveredResource).
THEOREM ActsOnTheRowHolds == Spec => ActsOnTheRow
<1>1. IInv /\ [Next]_vars =>
        [\A r \in Requests : step'[r] # step[r] =>
            \A w \in Where : object'[w] # object[w] =>
                missed[r] \/ w = <<query[r].listed, query[r].place>>]_vars
  <2> SUFFICES ASSUME IInv, [Next]_vars, NEW r \in Requests, step'[r] # step[r],
                      NEW w \in Where, object'[w] # object[w], ~missed[r]
               PROVE  w = <<query[r].listed, query[r].place>>
    OBVIOUS
  <2>1. ASSUME NEW q \in Requests, Delete(q) PROVE w = <<query[r].listed, query[r].place>>
    <3>1. q = r
      BY <2>1, DeleteEffect DEF IInv, TypeOK
    <3> QED
      BY <2>1, <3>1, DeleteEffect
  <2>2. ASSUME NEW q \in Requests, Update(q) PROVE w = <<query[r].listed, query[r].place>>
    <3>1. q = r
      BY <2>2, UpdateEffect DEF IInv, TypeOK
    <3> QED
      BY <2>2, <3>1, UpdateEffect
  <2> QED
    BY <2>1, <2>2, StepSplit
<1> QED
  BY <1>1, Invariance, PTL DEF Spec, ActsOnTheRow

\* OK is answered for a change the cluster has taken, and a change it has taken
\* is answered by nothing but OK, or by INTERNAL when its answer was lost
\* (executeAction, mapActionError).
THEOREM AnswerTellsTheOutcomeHolds == Spec => AnswerTellsTheOutcome
<1>1. IInv /\ [Next]_vars =>
        [\A r \in Requests : step'[r] # step[r] =>
            /\ code'[r] = "OK" => object' # object
            /\ object' # object => code'[r] \in {"OK", "INTERNAL"}]_vars
  <2> SUFFICES ASSUME IInv, [Next]_vars, NEW r \in Requests, step'[r] # step[r]
               PROVE  /\ code'[r] = "OK" => object' # object
                      /\ object' # object => code'[r] \in {"OK", "INTERNAL"}
    OBVIOUS
  <2>1. ASSUME NEW q \in Requests, Delete(q)
        PROVE  object' # object /\ code'[r] \in {"OK", "INTERNAL"}
    BY <2>1, DeleteEffect DEF IInv, TypeOK
  <2>2. ASSUME NEW q \in Requests, Update(q)
        PROVE  object' # object /\ code'[r] \in {"OK", "INTERNAL"}
    BY <2>2, UpdateEffect DEF IInv, TypeOK
  <2>3. ASSUME NEW q \in Requests, Only(q), UNCHANGED object PROVE code'[r] # "OK"
    <3>1. q = r
      BY <2>3 DEF Only, Ask, Invalid, Gate, ResolveTarget, Refused, Missing, Get, Conflict,
                  Goes, Answer, IInv, TypeOK
    <3>2. CASE Ask(r)
      BY <3>2 DEF Ask, IInv, TypeOK
    <3>3. CASE Invalid(r) \/ Refused(r) \/ Missing(r) \/ Conflict(r)
      BY <3>3 DEF Invalid, Refused, Missing, Conflict, Answer, IInv, TypeOK
    <3>4. CASE Gate(r)
      BY <3>4 DEF Gate, Goes, Answer, IInv, TypeOK, Working
    <3>5. CASE ResolveTarget(r)
      BY <3>5 DEF ResolveTarget, Answer, IInv, TypeOK, Working
    <3>6. CASE Get(r)
      BY <3>6 DEF Get, Goes, IInv, Working
    <3> QED
      BY <2>3, <3>1, <3>2, <3>3, <3>4, <3>5, <3>6 DEF Only
  <2> QED
    BY <2>1, <2>2, <2>3, StepSplit
<1> QED
  BY <1>1, Invariance, PTL DEF Spec, AnswerTellsTheOutcome
-----------------------------------------------------------------------------
(***************************************************************************)
(* The refinement.  Get is invisible: what counts is that the version it   *)
(* read is still there when Update is taken, so that the copy has all the  *)
(* changes of the object it replaces (VersionsTell).                       *)
(***************************************************************************)
LEMMA AnswerIsAnswer ==
    ASSUME IInv, NEW r \in Requests, step[r] # "idle",
           NEW codes, NEW c \in codes, Answer(r, c)
    PROVE  Atomic!Answer(r, codes)
<1>1. /\ step' = [step EXCEPT ![r] = "idle"]
      /\ query' = [query EXCEPT ![r] = None]
      /\ missed' = [missed EXCEPT ![r] = FALSE]
      /\ code' = [code EXCEPT ![r] = c]
  BY DEF Answer
<1>2. \A q \in Requests : q # r => /\ step'[q] = step[q] /\ query'[q] = query[q]
                                   /\ missed'[q] = missed[q]
  BY <1>1 DEF IInv, TypeOK
<1>3. step'[r] = "idle"
  BY <1>1 DEF IInv, TypeOK
<1>4. r \in Busy /\ Busy' = Busy \ {r}
  BY <1>2, <1>3 DEF Busy
<1>5. [q \in Requests |-> IF q \in Busy THEN <<query[q].listed, query[q].place>> ELSE None]'
      = [[q \in Requests |-> IF q \in Busy THEN <<query[q].listed, query[q].place>> ELSE None]
            EXCEPT ![r] = None]
  BY <1>2, <1>4
<1>6. /\ {q \in Busy : query[q].verb = "delete"}' = {q \in Busy : query[q].verb = "delete"} \ {r}
      /\ {q \in Busy : step[q] # "asked"}' = {q \in Busy : step[q] # "asked"} \ {r}
      /\ {q \in Busy : missed[q]}' = {q \in Busy : missed[q]} \ {r}
  BY <1>2, <1>4 DEF Busy
<1> QED
  BY <1>1, <1>4, <1>5, <1>6 DEF Atomic!Answer

\* A step of one request that stays at work, and of nobody else.
LEMMA GoingOn ==
    ASSUME IInv, NEW r \in Requests, step[r] # "idle", NEW to \in {"gated", "resolved", "got"},
           step' = [step EXCEPT ![r] = to], UNCHANGED query
    PROVE  /\ r \in Busy /\ Busy' = Busy
           /\ {q \in Busy : step[q] # "asked"}' = {q \in Busy : step[q] # "asked"} \cup {r}
           /\ {q \in Busy : query[q].verb = "delete"}' = {q \in Busy : query[q].verb = "delete"}
           /\ [q \in Requests |-> IF q \in Busy THEN <<query[q].listed, query[q].place>>
                                                ELSE None]'
              = [q \in Requests |-> IF q \in Busy THEN <<query[q].listed, query[q].place>>
                                                  ELSE None]
<1>1. \A q \in Requests : step'[q] = IF q = r THEN to ELSE step[q]
  BY DEF IInv, TypeOK
<1>2. r \in Busy /\ Busy' = Busy
  BY <1>1 DEF Busy
<1> QED
  BY <1>1, <1>2 DEF Busy

LEMMA AskIsAsk == ASSUME IInv, NEW r \in Requests, Ask(r) PROVE Atomic!Ask(r)
<1>1. PICK verb \in Verbs, place \in Rows :
          /\ query' = [query EXCEPT ![r] = [verb |-> verb, place |-> place[2],
                                           listed |-> place[1]]]
          /\ missed' = [missed EXCEPT ![r] = place[1] # Means[1]]
  BY DEF Ask
<1>2. place \in Where /\ place = <<place[1], place[2]>>
  BY DEF Rows, Where
<1>3. \A q \in Requests : q # r => /\ step'[q] = step[q] /\ query'[q] = query[q]
                                   /\ missed'[q] = missed[q]
  BY <1>1 DEF Ask, IInv, TypeOK
<1>4. /\ step[r] = "idle" /\ step'[r] = "asked"
      /\ query'[r] = [verb |-> verb, place |-> place[2], listed |-> place[1]]
      /\ missed'[r] = (place[1] # Means[1])
      /\ code' = [code EXCEPT ![r] = "none"]
      /\ UNCHANGED <<object, version, live>>
  BY <1>1 DEF Ask, IInv, TypeOK
<1>5. r \notin Busy /\ Busy' = Busy \cup {r}
  BY <1>3, <1>4 DEF Busy
<1>6. [q \in Requests |-> IF q \in Busy THEN <<query[q].listed, query[q].place>> ELSE None]'
      = [[q \in Requests |-> IF q \in Busy THEN <<query[q].listed, query[q].place>> ELSE None]
            EXCEPT ![r] = place]
  <2>1. <<query'[r].listed, query'[r].place>> = place
    BY <1>2, <1>4
  <2>2. \A q \in Requests :
           (IF q \in Busy THEN <<query[q].listed, query[q].place>> ELSE None)'
           = IF q = r THEN place
             ELSE IF q \in Busy THEN <<query[q].listed, query[q].place>> ELSE None
    BY <1>3, <1>5, <2>1
  <2> QED
    BY <2>2
<1>7. {q \in Busy : query[q].verb = "delete"}' \in
          {{q \in Busy : query[q].verb = "delete"}, {q \in Busy : query[q].verb = "delete"} \cup {r}}
  <2>1. CASE verb = "delete"
    BY <1>3, <1>4, <1>5, <2>1 DEF Busy
  <2>2. CASE verb # "delete"
    BY <1>3, <1>4, <1>5, <2>2 DEF Busy
  <2> QED
    BY <2>1, <2>2
<1>8. {q \in Busy : missed[q]}' \in
          {{q \in Busy : missed[q]}, {q \in Busy : missed[q]} \cup {r}}
  <2>1. CASE place[1] = Means[1]
    BY <1>3, <1>4, <1>5, <2>1 DEF Busy
  <2>2. CASE place[1] # Means[1]
    BY <1>3, <1>4, <1>5, <2>2 DEF Busy
  <2> QED
    BY <2>1, <2>2
<1>9. {q \in Busy : step[q] # "asked"}' = {q \in Busy : step[q] # "asked"}
  BY <1>3, <1>4, <1>5 DEF Busy
<1> QED
  BY <1>2, <1>4, <1>5, <1>6, <1>7, <1>8, <1>9 DEF Atomic!Ask

LEMMA RefusalRefuses ==
    ASSUME IInv, NEW r \in Requests, step[r] # "idle",
           NEW c \in Atomic!Refusals, Answer(r, c), UNCHANGED <<object, version, live>>
    PROVE  Atomic!Refuse(r)
BY AnswerIsAnswer DEF Atomic!Refuse

LEMMA GateIsPass ==
    ASSUME IInv, NEW r \in Requests, Gate(r)
    PROVE  Atomic!Passes(r) \/ Atomic!Refuse(r)
<1>1. CASE Answer(r, "STALE_DATA")
  BY <1>1, RefusalRefuses DEF Gate, Atomic!Refusals
<1>2. CASE live /\ Goes(r, "gated")
  <2>1. /\ step[r] = "asked" /\ step' = [step EXCEPT ![r] = "gated"]
        /\ UNCHANGED <<query, code, missed, object, version, live>>
    BY <1>2 DEF Gate, Goes
  <2> QED
    BY <1>2, <2>1, GoingOn DEF Atomic!Passes
<1> QED
  BY <1>1, <1>2 DEF Gate

\* Resolving to the kind the name means first is invisible.
LEMMA ResolveMayStray ==
    ASSUME IInv, NEW r \in Requests, ResolveTarget(r)
    PROVE  Atomic!Strays(r) \/ Atomic!Refuse(r) \/ UNCHANGED Atomic!vars
<1>1. CASE \E c \in Atomic!Refusals : Answer(r, c)
  BY <1>1, RefusalRefuses DEF ResolveTarget
<1>2. ASSUME NEW kind, missed' = [missed EXCEPT ![r] = @ \/ kind # Means[1]],
             step' = [step EXCEPT ![r] = "resolved"], UNCHANGED <<query, code>>
      PROVE  Atomic!Strays(r) \/ UNCHANGED Atomic!vars
  <2>1. step[r] = "gated" /\ UNCHANGED <<object, version, live>>
    BY DEF ResolveTarget
  <2>2. /\ r \in Busy /\ Busy' = Busy
        /\ {q \in Busy : step[q] # "asked"}' = {q \in Busy : step[q] # "asked"} \cup {r}
        /\ {q \in Busy : query[q].verb = "delete"}' = {q \in Busy : query[q].verb = "delete"}
        /\ [q \in Requests |-> IF q \in Busy THEN <<query[q].listed, query[q].place>> ELSE None]'
           = [q \in Requests |-> IF q \in Busy THEN <<query[q].listed, query[q].place>> ELSE None]
    BY <1>2, <2>1, GoingOn
  <2>3. r \in {q \in Busy : step[q] # "asked"}
    BY <2>1, <2>2
  <2>4. \A q \in Requests : q # r => missed'[q] = missed[q]
    BY <1>2 DEF IInv, TypeOK
  <2>5. missed'[r] = (missed[r] \/ kind # Means[1])
    BY <1>2 DEF IInv, TypeOK
  <2>6. CASE kind = Means[1]
    <3>1. {q \in Busy : missed[q]}' = {q \in Busy : missed[q]}
      BY <2>2, <2>4, <2>5, <2>6 DEF Busy
    <3> QED
      BY <1>2, <2>1, <2>2, <2>3, <3>1 DEF Atomic!vars, Atomic!requestVars
  <2>7. CASE kind # Means[1]
    <3>1. {q \in Busy : missed[q]}' = {q \in Busy : missed[q]} \cup {r}
      BY <2>2, <2>4, <2>5, <2>7 DEF Busy
    <3> QED
      BY <1>2, <2>1, <2>2, <2>3, <3>1 DEF Atomic!Strays
  <2> QED
    BY <2>6, <2>7
<1> QED
  BY <1>1, <1>2 DEF ResolveTarget, Atomic!Refusals

LEMMA GetIsUnseen == ASSUME IInv, NEW r \in Requests, Get(r) PROVE UNCHANGED Atomic!vars
<1>1. /\ step[r] = "resolved" /\ step' = [step EXCEPT ![r] = "got"]
      /\ UNCHANGED <<query, code, missed, object, version, live>>
  BY DEF Get, Goes
<1>2. /\ r \in Busy /\ Busy' = Busy
      /\ {q \in Busy : step[q] # "asked"}' = {q \in Busy : step[q] # "asked"} \cup {r}
      /\ {q \in Busy : query[q].verb = "delete"}' = {q \in Busy : query[q].verb = "delete"}
      /\ [q \in Requests |-> IF q \in Busy THEN <<query[q].listed, query[q].place>> ELSE None]'
         = [q \in Requests |-> IF q \in Busy THEN <<query[q].listed, query[q].place>> ELSE None]
  BY <1>1, GoingOn
<1>3. {q \in Busy : missed[q]}' = {q \in Busy : missed[q]}
  BY <1>1, <1>2
<1>4. r \in {q \in Busy : step[q] # "asked"}
  BY <1>1, <1>2
<1> QED
  BY <1>1, <1>2, <1>3, <1>4 DEF Atomic!vars, Atomic!requestVars

\* What a request at work will change, as the promise has it.
LEMMA HitsItsTarget ==
    ASSUME IInv, NEW r \in Requests, step[r] \in {"resolved", "got"}, object[target[r]] # Absent
    PROVE  /\ target[r] \in Where
           /\ Atomic!Hits(r, target[r])
           /\ r \in {q \in Busy : step[q] # "asked"}
BY DEF IInv, OnTarget, Busy, Atomic!Hits

LEMMA DeleteIsDelete == ASSUME IInv, NEW r \in Requests, Delete(r) PROVE Atomic!Delete(r)
<1>1. /\ step[r] = "resolved" /\ query[r].verb = "delete" /\ object[target[r]] # Absent
      /\ object' = [object EXCEPT ![target[r]] = Absent]
      /\ \E c \in Atomic!Successes : Answer(r, c)
      /\ UNCHANGED <<version, live>>
  BY DEF Delete, Done, Atomic!Successes
<1>2. Atomic!Answer(r, Atomic!Successes)
  BY <1>1, AnswerIsAnswer
<1>3. r \in {q \in Busy : query[q].verb = "delete"}
  BY <1>1 DEF Busy
<1> QED
  BY <1>1, <1>2, <1>3, HitsItsTarget DEF Atomic!Delete

LEMMA UpdateIsChange == ASSUME IInv, NEW r \in Requests, Update(r) PROVE Atomic!Change(r)
<1>1. /\ step[r] = "got" /\ object[target[r]] # Absent /\ Current(r)
      /\ version' = version + 1
      /\ object' = [object EXCEPT ![target[r]] =
            [version |-> version + 1, changes |-> got[r].changes \cup {version + 1}]]
      /\ \E c \in Atomic!Successes : Answer(r, c)
      /\ UNCHANGED live
  BY DEF Update, Done, Atomic!Successes
<1>2. Atomic!Answer(r, Atomic!Successes)
  BY <1>1, AnswerIsAnswer
<1>3. query[r].verb # "delete"
  BY <1>1 DEF IInv, Working
<1>4. got[r].changes = object[target[r]].changes
  BY <1>1 DEF IInv, VersionsTell
<1>5. object' = [object EXCEPT ![target[r]] = Atomic!Changed(target[r])]
  BY <1>1, <1>4 DEF Atomic!Changed
<1>6. r \notin {q \in Busy : query[q].verb = "delete"}
  BY <1>3
<1> QED
  BY <1>1, <1>2, <1>5, <1>6, HitsItsTarget DEF Atomic!Change

LEMMA AtomicNext == ASSUME IInv, [Next]_vars PROVE [Atomic!Next]_(Atomic!vars)
<1>1. ASSUME UNCHANGED requestVars
      PROVE  UNCHANGED Atomic!requestVars
  BY <1>1 DEF requestVars, Busy, Atomic!requestVars
<1>2. CASE ElseWrites
  <2>1. \E w \in Where : Atomic!ElseWrites(w)
    BY <1>1, <1>2 DEF ElseWrites, IInv, TypeOK, Atomic!ElseWrites, Atomic!Changed
  <2> QED
    BY <2>1 DEF Atomic!Next
<1>3. CASE ElseDeletes
  <2>1. \E w \in Where : Atomic!ElseDeletes(w)
    BY <1>1, <1>3 DEF ElseDeletes, Atomic!ElseDeletes
  <2> QED
    BY <2>1 DEF Atomic!Next
<1>4. CASE ViewChanges
  BY <1>1, <1>4 DEF ViewChanges, Atomic!ViewChanges, Atomic!Next
<1>5. ASSUME NEW r \in Requests, Invalid(r) \/ Refused(r) \/ Missing(r) \/ Conflict(r)
      PROVE  Atomic!Refuse(r)
  <2>1. PICK c \in Atomic!Refusals : Answer(r, c)
    BY <1>5 DEF Invalid, Refused, Missing, Conflict, Atomic!Refusals
  <2>2. step[r] # "idle" /\ UNCHANGED <<object, version, live>>
    BY <1>5 DEF Invalid, Refused, Missing, Conflict
  <2> QED
    BY <2>1, <2>2, RefusalRefuses
<1>6. CASE UNCHANGED vars
  BY <1>1, <1>6 DEF vars, Atomic!vars
<1> QED
  BY <1>2, <1>3, <1>4, <1>5, <1>6, AskIsAsk, GateIsPass, ResolveMayStray, GetIsUnseen,
     DeleteIsDelete, UpdateIsChange
  DEF Next, Handler, Atomic!Next

LEMMA AtomicInit == Init => Atomic!Init
BY DEF Init, Busy, Atomic!Init

\* Reading an object, changing the copy and writing it back, among other
\* actions and programs that do the same or delete, amounts to one change of
\* the object as it is when the update is taken; an action that is refused, or
\* meets a conflict, has changed nothing; none takes effect on a view that was
\* not found LIVE (executeAction, ActionExecutor).
THEOREM IsAtomicHolds == Spec => IsAtomic
<1>1. IInv /\ [Next]_vars => [Atomic!Next]_(Atomic!vars)
  BY AtomicNext
<1> QED
  BY <1>1, AtomicInit, Invariance, PTL DEF Spec, IsAtomic, Atomic!Spec
=============================================================================
