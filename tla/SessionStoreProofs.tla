------------------------- MODULE SessionStoreProofs -------------------------
(***************************************************************************)
(* What Load returns is what was renamed into place last, and a client     *)
(* that is told so has saved its own session, for any number of clients    *)
(* and daemons, unless two daemons have been in Save at once.              *)
(*                                                                         *)
(* The argument: the store mutex admits one handler of a daemon, so as     *)
(* long as no two daemons overlap one handler owns the temporary file from *)
(* open to rename, which is never the file at path; what it renames is     *)
(* therefore whole and its own.                                            *)
(***************************************************************************)
EXTENDS SessionStore, TLAPS

Typed ==
    /\ phase \in [Clients -> Phases]
    /\ session \in [Clients -> Sessions]
    /\ request \in [Clients -> Requests]
    /\ daemon \in [Daemons -> {"down", "serving", "closing"}]
    /\ mu \in [Daemons -> Clients \cup {None}]
    /\ fd \in [Daemons -> Inodes \cup {None}]
    /\ path \in Inodes \cup {None} /\ tmp \in Inodes \cup {None}
    /\ data \in [Inodes -> Sessions \cup {"empty", "torn"}]
    /\ starts \in 0..MaxStarts
    /\ replaced \in [Clients -> Sessions \cup {None, "empty", "torn"}]
    /\ newest \in Sessions /\ overlap \in BOOLEAN

\* Between calls there is no request; a handler in Save is of a call that
\* saves, and what it has written or answered is its client's session.
ClientOK(c) ==
    /\ request[c].at = None => request[c] = NoRequest
    /\ phase[c] \notin Calls => request[c] = NoRequest
    /\ request[c].step \in {"opened", "written"} => phase[c] \in Saves
    /\ request[c].step \in {"written", "answer"} /\ phase[c] \in Saves =>
           request[c].val = Normal(session[c])
    /\ request[c].step = "answer" /\ phase[c] = "get" => request[c].val \in Sessions
    /\ request[c].step = "answer" /\ phase[c] \in Saves =>
           overlap \/ replaced[c] = Normal(session[c])

Protocol == \A c \in Clients : ClientOK(c)

\* The handler of c is at a step of Save, in a daemon that has not ended.
InSave(c, step) ==
    request[c].at # None /\ daemon[request[c].at] # "down" /\ request[c].step = step

Mutex ==
    /\ \A c \in Clients : InSave(c, "opened") \/ InSave(c, "written") => mu[request[c].at] = c
    /\ \A c \in Clients : InSave(c, "opened") => fd[request[c].at] # None
    /\ \A c \in Clients : InSave(c, "written") => fd[request[c].at] = None
    /\ \A d \in Daemons : fd[d] # None => mu[d] # None
    /\ ~overlap => \A d, e \in Daemons : mu[d] # None /\ mu[e] # None => d = e

Files ==
    /\ tmp # None => tmp # path
    /\ ~overlap =>
           /\ \A d \in Daemons : fd[d] # None => fd[d] = tmp
           /\ \A c \in Clients : InSave(c, "opened") => tmp # None /\ data[tmp] = "empty"
           /\ \A c \in Clients :
                 InSave(c, "written") => tmp # None /\ data[tmp] = request[c].val
           /\ Stored = newest

IInv == Typed /\ Protocol /\ Mutex /\ Files

LEMMA IInvTypes == IInv => TypeOK
BY DEF IInv, Typed, TypeOK, Mutex, InSave, Handles

LEMMA Names ==
    /\ None \notin Daemons /\ None \notin Clients /\ None \notin Inodes /\ None \notin Sessions
    /\ "empty" \notin Sessions /\ "torn" \notin Sessions
    /\ Default \in Sessions /\ Untidy \in Sessions /\ Default # Untidy
BY DistinctAssumption

LEMMA NormalIsTidy ==
    ASSUME NEW s \in Sessions
    PROVE  Normal(s) \in Sessions /\ Normal(Normal(s)) = Normal(s)
BY Names DEF Normal

LEMMA PhaseFacts ==
    /\ \A p \in Calls : After[p] \in Phases /\ After[p] # p
    /\ \A p \in Saves : p \in Calls /\ p \notin Tolerated /\ After[p] # "failed" /\ p # "get"
    /\ {"failed", "done", "overrides", "ui"} \cap Calls = {}
    /\ Calls \subseteq Phases /\ {"failed", "done", "overrides", "ui"} \subseteq Phases
    /\ "get" \in Calls /\ "suggestions" \in Calls /\ "list" \in Calls
    /\ Tolerated \subseteq Calls
BY DEF After, Calls, Saves, Phases, Tolerated

LEMMA RequestFacts ==
    /\ NoRequest \in Requests /\ NoRequest.at = None /\ NoRequest.step = "none"
    /\ \A q \in Requests : q.at \in Daemons \cup {None} /\ q.val \in Sessions \cup {None}
BY DEF NoRequest, Requests

-----------------------------------------------------------------------------
(* Steps that leave Save and its files alone.                              *)

\* What an action does to one client, the others do not notice.
LEMMA OthersKeep ==
    ASSUME Protocol, NEW c \in Clients, overlap => overlap', ClientOK(c)',
           \A b \in Clients \ {c} :
               /\ phase'[b] = phase[b] /\ session'[b] = session[b]
               /\ request'[b] = request[b] /\ replaced'[b] = replaced[b]
    PROVE  Protocol'
<1>1. ASSUME NEW b \in Clients \ {c} PROVE ClientOK(b)'
  BY <1>1 DEF Protocol, ClientOK
<1> QED
  BY <1>1 DEF Protocol

LEMMA QuietKeeps ==
    ASSUME Mutex, Files, UNCHANGED <<fileVars, newest, overlap>>,
           \A c \in Clients : \A step \in {"opened", "written"} :
               InSave(c, step)' => InSave(c, step) /\ request'[c] = request[c]
    PROVE  Mutex' /\ Files'
<1>1. UNCHANGED <<mu, fd, path, tmp, data, newest, overlap>>
  BY DEF fileVars
<1>2. Mutex'
  BY <1>1 DEF Mutex
<1>3. Stored' = Stored
  BY <1>1 DEF Stored
<1>4. Files'
  BY <1>1, <1>3 DEF Files
<1> QED
  BY <1>2, <1>4

\* A handler moves on: Step sets one client's request.
LEMMA StepSets ==
    ASSUME Typed, NEW c \in Clients, NEW step, NEW val, Step(c, step, val)
    PROVE  /\ request' = [request EXCEPT ![c] = [at |-> request[c].at, step |-> step, val |-> val]]
           /\ request'[c] = [at |-> request[c].at, step |-> step, val |-> val]
           /\ \A b \in Clients \ {c} : request'[b] = request[b]
BY DEF Step, Typed, Requests

LEMMA StepTyped ==
    ASSUME Typed, NEW c \in Clients, NEW val \in Sessions \cup {None},
           NEW step \in {"none", "asked", "opened", "written", "answer", "error"},
           Step(c, step, val)
    PROVE  request' \in [Clients -> Requests]
<1>1. [at |-> request[c].at, step |-> step, val |-> val] \in Requests
  BY DEF Typed, Requests
<1> QED
  BY <1>1, StepSets DEF Typed

\* The call ends without an answer.
LEMMA Fails ==
    ASSUME IInv, NEW c \in Clients, phase[c] \in Calls, Fail(c),
           request' = [request EXCEPT ![c] = NoRequest],
           UNCHANGED <<session, daemonVars, fileVars, newest, overlap, replaced>>
    PROVE  IInv'
<1> USE DEF IInv
<1>1. phase' \in [Clients -> Phases] /\ request' \in [Clients -> Requests]
  BY PhaseFacts, RequestFacts DEF Fail, Typed
<1>2. Typed'
  BY <1>1 DEF Typed, daemonVars, fileVars
<1>3. request'[c] = NoRequest
  BY DEF Typed
<1>4. ClientOK(c)'
  BY <1>3, RequestFacts DEF ClientOK
<1>5. Protocol'
  <2>1. \A b \in Clients \ {c} : phase'[b] = phase[b] /\ request'[b] = request[b]
    BY DEF Fail, Typed
  <2> QED
    BY <1>4, <2>1, OthersKeep
<1>6. Mutex' /\ Files'
  <2>1. ASSUME NEW b \in Clients, NEW step \in {"opened", "written"}, InSave(b, step)'
        PROVE  InSave(b, step) /\ request'[b] = request[b]
    <3>1. b # c
      BY <1>3, <2>1, RequestFacts DEF InSave
    <3> QED
      BY <2>1, <3>1 DEF InSave, Typed, daemonVars
  <2> QED
    BY <2>1, QuietKeeps
<1> QED
  BY <1>2, <1>5, <1>6

\* The client goes on without a call under way.
LEMMA GoesOn ==
    ASSUME IInv, NEW c \in Clients, phase' \in [Clients -> Phases], session' \in [Clients -> Sessions],
           request'[c] = NoRequest,
           \A b \in Clients \ {c} : /\ phase'[b] = phase[b] /\ session'[b] = session[b]
                                    /\ request'[b] = request[b],
           request' \in [Clients -> Requests],
           UNCHANGED <<daemonVars, fileVars, historyVars>>
    PROVE  IInv'
<1> USE DEF IInv
<1>1. UNCHANGED <<daemon, starts, mu, fd, path, tmp, data, replaced, newest, overlap>>
  BY DEF daemonVars, fileVars, historyVars
<1>2. Typed'
  BY <1>1 DEF Typed
<1>3. ClientOK(c)'
  BY RequestFacts DEF ClientOK
<1>4. Protocol'
  BY <1>1, <1>3, OthersKeep
<1>5. Mutex' /\ Files'
  <2>1. ASSUME NEW b \in Clients, NEW step \in {"opened", "written"}, InSave(b, step)'
        PROVE  InSave(b, step) /\ request'[b] = request[b]
    <3>1. b # c
      BY <2>1, RequestFacts DEF InSave
    <3> QED
      BY <1>1, <2>1, <3>1 DEF InSave
  <2>2. UNCHANGED fileVars
    BY DEF fileVars
  <2> QED
    BY <1>1, <2>1, <2>2, QuietKeeps
<1> QED
  BY <1>2, <1>4, <1>5

LEMMA DialKeeps ==
    ASSUME IInv, NEW c \in Clients, Dial(c) PROVE IInv'
<1> USE DEF IInv
<1>1. phase[c] \in Calls /\ request[c] = NoRequest
      /\ UNCHANGED <<session, daemonVars, fileVars, newest, overlap>>
  BY DEF Dial
<1>2. CASE Fail(c) /\ UNCHANGED <<request, replaced>>
  <2>1. request' = [request EXCEPT ![c] = NoRequest]
    BY <1>1, <1>2 DEF Typed
  <2> QED
    BY <1>1, <1>2, <2>1, Fails
<1>3. ASSUME NEW d \in Daemons, daemon[d] = "serving",
             request' = [request EXCEPT ![c] = [at |-> d, step |-> "asked", val |-> None]],
             replaced' = [replaced EXCEPT ![c] = None], UNCHANGED phase
      PROVE  IInv'
  <2>1. [at |-> d, step |-> "asked", val |-> None] \in Requests
    BY DEF Requests
  <2>2. Typed'
    BY <1>1, <1>3, <2>1 DEF Typed, daemonVars, fileVars
  <2>3. request'[c].step = "asked" /\ request'[c].at = d
    BY <1>3 DEF Typed
  <2>4. ClientOK(c)'
    BY <1>1, <1>3, <2>3, Names DEF ClientOK
  <2>5. \A b \in Clients \ {c} : request'[b] = request[b] /\ replaced'[b] = replaced[b]
    BY <1>3 DEF Typed
  <2>6. Protocol'
    BY <1>1, <1>3, <2>4, <2>5, OthersKeep
  <2>7. Mutex' /\ Files'
    <3>1. ASSUME NEW b \in Clients, NEW step \in {"opened", "written"}, InSave(b, step)'
          PROVE  InSave(b, step) /\ request'[b] = request[b]
      <4>1. b # c
        BY <2>3, <3>1 DEF InSave
      <4> QED
        BY <1>1, <2>5, <3>1, <4>1 DEF InSave, daemonVars
    <3> QED
      BY <1>1, <3>1, QuietKeeps
  <2> QED
    BY <2>2, <2>6, <2>7
<1> QED
  BY <1>2, <1>3 DEF Dial

LEMMA UserKeeps ==
    ASSUME IInv, NEW c \in Clients, Override(c) \/ Quit(c) PROVE IInv'
<1>1. phase[c] \in {"overrides", "ui"} /\ UNCHANGED <<request, daemonVars, fileVars, historyVars>>
  BY DEF Override, Quit
<1>2. request[c] = NoRequest
  BY <1>1, PhaseFacts DEF IInv, Protocol, ClientOK
<1>3. /\ phase' \in [Clients -> Phases] /\ session' \in [Clients -> Sessions]
      /\ \A b \in Clients \ {c} : phase'[b] = phase[b] /\ session'[b] = session[b]
  BY DEF Override, Quit, IInv, Typed, Phases, Calls
<1>4. request' \in [Clients -> Requests]
  BY <1>1 DEF IInv, Typed
<1> QED
  BY <1>1, <1>2, <1>3, <1>4, GoesOn

LEMMA BrokenKeeps ==
    ASSUME IInv, NEW c \in Clients, Broken(c) \/ Refuse(c) PROVE IInv'
<1>1. request[c].at # None
  BY DEF Broken, Refuse, Handles
<1>2. phase[c] \in Calls
  BY <1>1, RequestFacts DEF IInv, Protocol, ClientOK
<1>3. Fail(c) /\ request' = [request EXCEPT ![c] = NoRequest]
      /\ UNCHANGED <<session, daemonVars, fileVars, newest, overlap, replaced>>
  BY DEF Broken, Refuse, historyVars
<1> QED
  BY <1>2, <1>3, Fails

LEMMA RespondKeeps ==
    ASSUME IInv, NEW c \in Clients, Respond(c) PROVE IInv'
<1> USE DEF IInv
<1>1. /\ request[c].step = "answer" /\ phase[c] \in Calls
      /\ phase' = [phase EXCEPT ![c] = After[phase[c]]]
      /\ session' = IF phase[c] = "get" THEN [session EXCEPT ![c] = request[c].val] ELSE session
      /\ request' = [request EXCEPT ![c] = NoRequest]
      /\ UNCHANGED <<daemonVars, fileVars, historyVars>>
  BY DEF Respond, Handles
<1>2. phase[c] = "get" => request[c].val \in Sessions
  BY <1>1 DEF Protocol, ClientOK
<1>3. /\ phase' \in [Clients -> Phases]
      /\ \A b \in Clients \ {c} : phase'[b] = phase[b]
  BY <1>1, PhaseFacts DEF Typed
<1>4. /\ session' \in [Clients -> Sessions]
      /\ \A b \in Clients \ {c} : session'[b] = session[b]
  BY <1>1, <1>2 DEF Typed
<1>5. /\ request' \in [Clients -> Requests] /\ request'[c] = NoRequest
      /\ \A b \in Clients \ {c} : request'[b] = request[b]
  BY <1>1, RequestFacts DEF Typed
<1> QED
  BY <1>1, <1>3, <1>4, <1>5, GoesOn

\* Load, Serve, and a file that is denied: an answer or an error, no Save.
LEMMA AnswersKeep ==
    ASSUME IInv, NEW c \in Clients, Load(c) \/ FileDenied(c) \/ Serve(c) PROVE IInv'
<1> USE DEF IInv
<1>1. request[c].at # None /\ UNCHANGED <<clientVars, daemonVars, fileVars, historyVars>>
  BY DEF Load, FileDenied, Serve, Handles
<1>2. UNCHANGED <<phase, session, daemon, starts, mu, fd, path, tmp, data, replaced, newest, overlap>>
  BY <1>1 DEF clientVars, daemonVars, fileVars, historyVars
<1>3. Stored \in Sessions
  BY Names, NormalIsTidy DEF Stored, Typed
<1>4. PICK at \in {"answer", "error"}, val \in Sessions \cup {None} :
        /\ Step(c, at, val)
        /\ at = "answer" => phase[c] \notin Saves /\ (phase[c] = "get" => val \in Sessions)
  BY <1>3, PhaseFacts DEF Load, FileDenied, Serve, Handles, Saves
<1>5. /\ request'[c] = [at |-> request[c].at, step |-> at, val |-> val]
      /\ \A b \in Clients \ {c} : request'[b] = request[b]
  BY <1>4, StepSets
<1>6. Typed'
  BY <1>2, <1>4, StepTyped DEF Typed
<1>7. phase[c] \in Calls
  BY PhaseFacts DEF Load, FileDenied, Serve, Handles
<1>8. ClientOK(c)'
  BY <1>1, <1>2, <1>4, <1>5, <1>7 DEF ClientOK
<1>9. Protocol'
  BY <1>2, <1>5, <1>8, OthersKeep
<1>10. Mutex' /\ Files'
  <2>1. ASSUME NEW b \in Clients, NEW step \in {"opened", "written"}, InSave(b, step)'
        PROVE  InSave(b, step) /\ request'[b] = request[b]
    <3>1. b # c
      BY <1>5, <2>1 DEF InSave
    <3> QED
      BY <1>2, <1>5, <2>1, <3>1 DEF InSave
  <2> QED
    BY <1>1, <1>2, <2>1, QuietKeeps
<1> QED
  BY <1>6, <1>9, <1>10

LEMMA DaemonKeeps ==
    ASSUME IInv, NEW d \in Daemons, StartDaemon(d) \/ StopsAccepting(d) PROVE IInv'
<1> USE DEF IInv
<1>1. UNCHANGED <<phase, session, request, mu, fd, path, tmp, data, replaced, newest, overlap>>
  BY DEF StartDaemon, StopsAccepting, clientVars, fileVars, historyVars
<1>2. PICK to \in {"serving", "closing"} : daemon' = [daemon EXCEPT ![d] = to]
  BY DEF StartDaemon, StopsAccepting
<1>3. starts' \in 0..MaxStarts
  BY MaxStartsAssumption DEF StartDaemon, StopsAccepting, Typed
<1>4. Typed'
  BY <1>1, <1>2, <1>3 DEF Typed
<1>5. Protocol'
  BY <1>1 DEF Protocol, ClientOK
<1>6. Mutex' /\ Files'
  <2>1. ASSUME NEW b \in Clients, NEW step \in {"opened", "written"}, InSave(b, step)'
        PROVE  InSave(b, step) /\ request'[b] = request[b]
    <3>1. CASE request[b].at # d
      BY <1>1, <1>2, <2>1, <3>1, RequestFacts DEF InSave, Typed
    <3>2. CASE request[b].at = d
      <4>1. daemon[d] # "down"
        BY <3>2 DEF StartDaemon, StopsAccepting
      <4> QED
        BY <1>1, <2>1, <3>2, <4>1 DEF InSave
    <3> QED
      BY <3>1, <3>2
  <2>2. UNCHANGED <<fileVars, newest, overlap>>
    BY <1>1 DEF fileVars
  <2> QED
    BY <2>1, <2>2, QuietKeeps
<1> QED
  BY <1>4, <1>5, <1>6

-----------------------------------------------------------------------------
(* The steps of Save.                                                      *)

\* The handlers in Save of other clients are in other daemons, and there are
\* none unless daemons overlap.
LEMMA OneAtATime ==
    ASSUME IInv, NEW c \in Clients, NEW d \in Daemons, d = request[c].at, mu[d] \in {c, None}
    PROVE  \A b \in Clients \ {c} : \A step \in {"opened", "written"} :
               InSave(b, step) => /\ request[b].at \in Daemons \ {d}
                                  /\ mu[request[b].at] # None
<1> SUFFICES ASSUME NEW b \in Clients \ {c}, NEW step \in {"opened", "written"}, InSave(b, step)
             PROVE  request[b].at \in Daemons \ {d} /\ mu[request[b].at] # None
  OBVIOUS
<1>1. mu[request[b].at] = b
  BY DEF IInv, Mutex
<1>2. request[b].at \in Daemons
  BY RequestFacts DEF InSave, IInv, Typed
<1> QED
  BY <1>1, <1>2, Names

LEMMA SaveOpensKeeps ==
    ASSUME IInv, NEW c \in Clients, SaveOpens(c) PROVE IInv'
<1> USE DEF IInv
<1> DEFINE d == request[c].at
           i == IF tmp # None THEN tmp ELSE CHOOSE j \in Inodes : Free(j)
<1>1. /\ request[c].at # None /\ daemon[d] # "down" /\ phase[c] \in Saves /\ mu[d] = None
      /\ mu' = [mu EXCEPT ![d] = c] /\ fd' = [fd EXCEPT ![d] = i] /\ tmp' = i
      /\ data' = [data EXCEPT ![i] = "empty"]
      /\ overlap' = (overlap \/ \E e \in Daemons \ {d} : mu[e] # None)
      /\ Step(c, "opened", None)
      /\ UNCHANGED <<phase, session, daemon, starts, path, replaced, newest>>
  BY DEF SaveOpens, Handles, clientVars, daemonVars
<1>2. d \in Daemons
  BY <1>1, RequestFacts DEF Typed
<1>3. i \in Inodes /\ i # path
  <2>1. CASE tmp # None
    BY <2>1 DEF Files, Typed
  <2>2. CASE tmp = None
    <3>1. \E j \in Inodes : Free(j)
      BY <2>2 DEF SaveOpens
    <3>2. i \in Inodes /\ Free(i)
      BY <2>2, <3>1
    <3> QED
      BY <3>2 DEF Free
  <2> QED
    BY <2>1, <2>2
<1> HIDE DEF i
<1>4. /\ request'[c] = [at |-> d, step |-> "opened", val |-> None]
      /\ \A b \in Clients \ {c} : request'[b] = request[b]
  BY <1>1, StepSets
<1>5. Typed'
  <2>1. request' \in [Clients -> Requests]
    BY <1>1, StepTyped
  <2> QED
    BY <1>1, <1>3, <2>1 DEF Typed
<1>6. Protocol'
  <2>1. ClientOK(c)'
    BY <1>1, <1>4, PhaseFacts DEF ClientOK
  <2> QED
    BY <1>1, <1>4, <2>1, OthersKeep
<1>7. \A b \in Clients \ {c} : \A step \in {"opened", "written"} :
          InSave(b, step)' => /\ InSave(b, step) /\ request[b].at \in Daemons \ {d}
                              /\ mu[request[b].at] # None
  BY <1>1, <1>2, <1>4, OneAtATime DEF InSave
<1>8. ~InSave(c, "written")' /\ request'[c].at = d
  BY <1>4 DEF InSave
<1>9. /\ mu'[d] = c /\ fd'[d] = i
      /\ \A e \in Daemons \ {d} : mu'[e] = mu[e] /\ fd'[e] = fd[e]
  BY <1>1, <1>2 DEF Typed
<1> HIDE DEF d
<1>10. ~overlap' => ~overlap /\ \A e \in Daemons \ {d} : mu[e] = None
  BY <1>1
<1>11. Mutex'
  <2>1. \A b \in Clients : InSave(b, "opened")' \/ InSave(b, "written")' => mu'[request'[b].at] = b
    BY <1>4, <1>7, <1>8, <1>9 DEF Mutex
  <2>2. \A b \in Clients : InSave(b, "opened")' => fd'[request'[b].at] # None
    BY <1>3, <1>4, <1>7, <1>8, <1>9, Names DEF Mutex
  <2>3. \A b \in Clients : InSave(b, "written")' => fd'[request'[b].at] = None
    BY <1>4, <1>7, <1>8, <1>9 DEF Mutex
  <2>4. \A e \in Daemons : fd'[e] # None => mu'[e] # None
    BY <1>9, Names DEF Mutex
  <2>5. ~overlap' => \A e, f \in Daemons : mu'[e] # None /\ mu'[f] # None => e = f
    BY <1>9, <1>10
  <2> QED
    BY <2>1, <2>2, <2>3, <2>4, <2>5 DEF Mutex
<1>12. Files'
  <2>1. tmp' # path'
    BY <1>1, <1>3
  <2>2. Stored' = Stored
    BY <1>1, <1>3, Names DEF Stored, Typed
  <2>3. ASSUME ~overlap'
        PROVE  /\ \A e \in Daemons : fd'[e] # None => fd'[e] = tmp'
               /\ \A b \in Clients \ {c} : ~InSave(b, "opened")' /\ ~InSave(b, "written")'
    BY <1>1, <1>7, <1>9, <1>10, <2>3 DEF Mutex
  <2>4. tmp' # None /\ data'[tmp'] = "empty"
    BY <1>1, <1>3, Names DEF Typed
  <2>5. ~overlap' => Stored' = newest'
    BY <1>1, <1>10, <2>2 DEF Files
  <2> QED
    BY <1>8, <2>1, <2>3, <2>4, <2>5 DEF Files
<1> QED
  BY <1>5, <1>6, <1>11, <1>12

\* The write, whole or not: the temporary file is closed.
LEMMA SaveWritesKeeps ==
    ASSUME IInv, NEW c \in Clients, SaveWrites(c) \/ SaveWriteFails(c) PROVE IInv'
<1> USE DEF IInv
<1> DEFINE d == request[c].at
           s == Normal(session[c])
<1>1. /\ InSave(c, "opened") /\ phase[c] \in Saves
      /\ fd' = [fd EXCEPT ![d] = None]
      /\ UNCHANGED <<phase, session, daemon, starts, path, tmp, replaced, newest, overlap>>
  BY DEF SaveWrites, SaveWriteFails, Handles, InSave, clientVars, daemonVars, historyVars
<1>2. d \in Daemons /\ mu[d] = c /\ fd[d] \in Inodes
  BY <1>1, RequestFacts DEF Typed, Mutex, InSave
<1>3. s \in Sessions
  BY NormalIsTidy DEF Typed
<1>4. PICK after \in {s, "torn"} : data' = [data EXCEPT ![fd[d]] = after]
  BY DEF SaveWrites, SaveWriteFails
<1>5. \/ /\ Step(c, "written", s) /\ mu' = mu
         /\ data[fd[d]] = "empty" => data'[fd[d]] = s
      \/ Step(c, "error", None) /\ mu' = [mu EXCEPT ![d] = None]
  BY <1>2 DEF SaveWrites, SaveWriteFails, Typed
<1>6. /\ request'[c].at = d
      /\ \/ /\ request'[c].step = "written" /\ request'[c].val = s /\ mu' = mu
            /\ data[fd[d]] = "empty" => data'[fd[d]] = s
         \/ request'[c].step = "error" /\ mu' = [mu EXCEPT ![d] = None]
      /\ \A b \in Clients \ {c} : request'[b] = request[b]
  <2>1. CASE Step(c, "written", s) /\ mu' = mu /\ (data[fd[d]] = "empty" => data'[fd[d]] = s)
    <3>1. request'[c] = [at |-> d, step |-> "written", val |-> s]
          /\ \A b \in Clients \ {c} : request'[b] = request[b]
      BY <2>1, StepSets
    <3> QED
      BY <2>1, <3>1
  <2>2. CASE Step(c, "error", None) /\ mu' = [mu EXCEPT ![d] = None]
    <3>1. request'[c] = [at |-> d, step |-> "error", val |-> None]
          /\ \A b \in Clients \ {c} : request'[b] = request[b]
      BY <2>2, StepSets
    <3> QED
      BY <2>2, <3>1
  <2> QED
    BY <1>5, <2>1, <2>2
<1>7. Typed'
  <2>1. request' \in [Clients -> Requests]
    BY <1>3, <1>5, StepTyped
  <2>2. mu' \in [Daemons -> Clients \cup {None}]
    BY <1>5 DEF Typed
  <2>3. data' \in [Inodes -> Sessions \cup {"empty", "torn"}]
    BY <1>2, <1>3, <1>4 DEF Typed
  <2> QED
    BY <1>1, <2>1, <2>2, <2>3 DEF Typed
<1>8. Protocol'
  <2>1. request'[c].at # None
    BY <1>2, <1>6, Names
  <2>2. ClientOK(c)'
    BY <1>1, <1>6, <2>1, PhaseFacts DEF ClientOK
  <2> QED
    BY <1>1, <1>6, <2>2, OthersKeep
<1>9. \A b \in Clients \ {c} : \A step \in {"opened", "written"} :
          InSave(b, step)' => /\ InSave(b, step) /\ request[b].at \in Daemons \ {d}
                              /\ mu[request[b].at] # None
  BY <1>1, <1>2, <1>6, OneAtATime DEF InSave
<1>10. /\ fd'[d] = None
       /\ \A e \in Daemons \ {d} : mu'[e] = mu[e] /\ fd'[e] = fd[e]
       /\ request'[c].step = "written" => mu'[d] = c /\ (data[fd[d]] = "empty" => data'[fd[d]] = s)
       /\ mu'[d] \in {c, None}
  BY <1>1, <1>2, <1>6 DEF Typed
<1>11. ~InSave(c, "opened")' /\ (InSave(c, "written")' => request'[c].step = "written")
  BY <1>6 DEF InSave
<1> HIDE DEF d
<1>12. Mutex'
  <2>1. \A b \in Clients : InSave(b, "opened")' \/ InSave(b, "written")' => mu'[request'[b].at] = b
    BY <1>6, <1>9, <1>10, <1>11 DEF Mutex
  <2>2. \A b \in Clients : InSave(b, "opened")' => fd'[request'[b].at] # None
    BY <1>6, <1>9, <1>10, <1>11 DEF Mutex
  <2>3. \A b \in Clients : InSave(b, "written")' => fd'[request'[b].at] = None
    BY <1>6, <1>9, <1>10, <1>11 DEF Mutex
  <2>4. \A e \in Daemons : fd'[e] # None => mu'[e] # None
    BY <1>10 DEF Mutex
  <2>5. ~overlap' => \A e, f \in Daemons : mu'[e] # None /\ mu'[f] # None => e = f
    BY <1>1, <1>2, <1>10, Names DEF Mutex
  <2> QED
    BY <2>1, <2>2, <2>3, <2>4, <2>5 DEF Mutex
<1>13. Files'
  <2>1. tmp' # None => tmp' # path'
    BY <1>1 DEF Files
  <2>2. ASSUME ~overlap'
        PROVE  /\ fd[d] = tmp /\ data[tmp] = "empty" /\ tmp # path /\ tmp \in Inodes
               /\ \A e \in Daemons \ {d} : mu[e] = None
               /\ \A b \in Clients \ {c} : ~InSave(b, "opened")' /\ ~InSave(b, "written")'
    <3>1. fd[d] = tmp /\ tmp # None /\ data[tmp] = "empty" /\ tmp # path
      BY <1>1, <1>2, <2>2, Names DEF Files
    <3>2. \A e \in Daemons \ {d} : mu[e] = None
      BY <1>1, <1>2, <2>2, Names DEF Mutex
    <3> QED
      BY <1>2, <1>9, <3>1, <3>2
  <2>3. ASSUME ~overlap' PROVE \A e \in Daemons : fd'[e] # None => fd'[e] = tmp'
    BY <1>1, <1>10, <2>2, <2>3 DEF Mutex
  <2>4. ASSUME ~overlap' PROVE InSave(c, "written")' => tmp' # None /\ data'[tmp'] = request'[c].val
    BY <1>1, <1>2, <1>6, <1>10, <1>11, <2>2, <2>4, Names
  <2>5. ASSUME ~overlap' PROVE Stored' = newest'
    <3>1. path = None \/ data'[path] = data[path]
      BY <1>4, <2>2, <2>5 DEF Typed
    <3> QED
      BY <1>1, <2>5, <3>1 DEF Stored, Files
  <2> QED
    BY <1>11, <2>1, <2>2, <2>3, <2>4, <2>5 DEF Files
<1> QED
  BY <1>7, <1>8, <1>12, <1>13

LEMMA SaveRenamesKeeps ==
    ASSUME IInv, NEW c \in Clients, SaveRenames(c) \/ SaveRenameFails(c) PROVE IInv'
<1> USE DEF IInv
<1> DEFINE d   == request[c].at
           val == request[c].val
<1>1. /\ InSave(c, "written") /\ phase[c] \in Saves
      /\ mu' = [mu EXCEPT ![d] = None]
      /\ UNCHANGED <<phase, session, daemon, starts, fd, overlap>>
  BY DEF SaveRenames, SaveRenameFails, Handles, InSave, clientVars, daemonVars, historyVars
<1>2. d \in Daemons /\ mu[d] = c /\ fd[d] = None
  BY <1>1, RequestFacts DEF Typed, Mutex, InSave
<1>3. val = Normal(session[c]) /\ val \in Sessions /\ Normal(val) = val
  BY <1>1, NormalIsTidy DEF Protocol, ClientOK, InSave, Typed
<1> DEFINE Renames ==
         /\ tmp # None /\ path' = tmp /\ tmp' = None
         /\ data' = [i \in Inodes |-> IF Gone(i) THEN "empty" ELSE data[i]]
         /\ replaced' = [replaced EXCEPT ![c] = data[tmp]]
         /\ newest' = val
         /\ Step(c, "answer", val)
           NotRenamed == Step(c, "error", None) /\ UNCHANGED <<path, tmp, data, replaced, newest>>
<1>4. Renames \/ NotRenamed
  BY DEF SaveRenames, SaveRenameFails, historyVars
<1>5. /\ request'[c].at = d /\ request'[c].step \in {"answer", "error"}
      /\ request'[c].step = "answer" =>
            tmp # None /\ replaced'[c] = data[tmp] /\ request'[c].val = val
      /\ request' \in [Clients -> Requests]
      /\ \A b \in Clients \ {c} : request'[b] = request[b]
  <2>1. CASE Renames
    <3>1. request'[c] = [at |-> d, step |-> "answer", val |-> val]
          /\ \A b \in Clients \ {c} : request'[b] = request[b]
      BY <2>1, StepSets
    <3>2. request' \in [Clients -> Requests]
      BY <1>3, <2>1, StepTyped
    <3>3. replaced'[c] = data[tmp]
      BY <2>1 DEF Typed
    <3> QED
      BY <2>1, <3>1, <3>2, <3>3
  <2>2. CASE NotRenamed
    <3>1. request'[c] = [at |-> d, step |-> "error", val |-> None]
          /\ \A b \in Clients \ {c} : request'[b] = request[b]
      BY <2>2, StepSets
    <3>2. request' \in [Clients -> Requests]
      BY <2>2, StepTyped
    <3> QED
      BY <3>1, <3>2
  <2> QED
    BY <1>4, <2>1, <2>2
<1>6. /\ tmp # None => data[tmp] \in Sessions \cup {"empty", "torn"}
      /\ tmp # None => data'[tmp] = data[tmp]
      /\ ~overlap => tmp # None /\ data[tmp] = val
  BY <1>1, <1>4 DEF Typed, Gone, Files
<1>7. Typed'
  <2>1. mu' \in [Daemons -> Clients \cup {None}]
    BY <1>1 DEF Typed
  <2>2. replaced' \in [Clients -> Sessions \cup {None, "empty", "torn"}]
    BY <1>4, <1>6 DEF Typed
  <2>3. data' \in [Inodes -> Sessions \cup {"empty", "torn"}]
    BY <1>4 DEF Typed
  <2>4. path' \in Inodes \cup {None} /\ tmp' \in Inodes \cup {None} /\ newest' \in Sessions
    BY <1>3, <1>4 DEF Typed
  <2> QED
    BY <1>1, <1>5, <2>1, <2>2, <2>3, <2>4 DEF Typed
<1>8. Protocol'
  <2>1. request'[c].at # None
    BY <1>2, <1>5, Names
  <2>2. ClientOK(c)'
    BY <1>1, <1>3, <1>5, <1>6, <2>1, PhaseFacts DEF ClientOK
  <2>3. \A b \in Clients \ {c} : replaced'[b] = replaced[b]
    BY <1>4 DEF Typed
  <2> QED
    BY <1>1, <1>5, <2>2, <2>3, OthersKeep
<1>9. \A b \in Clients \ {c} : \A step \in {"opened", "written"} :
          InSave(b, step)' => /\ InSave(b, step) /\ request[b].at \in Daemons \ {d}
                              /\ mu[request[b].at] # None
  BY <1>1, <1>2, <1>5, OneAtATime DEF InSave
<1>10. /\ mu'[d] = None /\ \A e \in Daemons \ {d} : mu'[e] = mu[e]
       /\ ~InSave(c, "opened")' /\ ~InSave(c, "written")'
  BY <1>1, <1>2, <1>5 DEF Typed, InSave
<1> HIDE DEF d
<1>11. Mutex'
  <2>1. \A b \in Clients : InSave(b, "opened")' \/ InSave(b, "written")' => mu'[request'[b].at] = b
    BY <1>5, <1>9, <1>10 DEF Mutex
  <2>2. \A b \in Clients : InSave(b, "opened")' => fd'[request'[b].at] # None
    BY <1>1, <1>5, <1>9, <1>10 DEF Mutex
  <2>3. \A b \in Clients : InSave(b, "written")' => fd'[request'[b].at] = None
    BY <1>1, <1>5, <1>9, <1>10 DEF Mutex
  <2>4. \A e \in Daemons : fd'[e] # None => mu'[e] # None
    BY <1>1, <1>2, <1>10 DEF Mutex
  <2>5. ~overlap' => \A e, f \in Daemons : mu'[e] # None /\ mu'[f] # None => e = f
    BY <1>1, <1>10 DEF Mutex
  <2> QED
    BY <2>1, <2>2, <2>3, <2>4, <2>5 DEF Mutex
<1>12. Files'
  <2>1. tmp' # None => tmp' # path'
    BY <1>4 DEF Files
  <2>2. ASSUME ~overlap' PROVE \A e \in Daemons : fd'[e] = None /\ (e # d => mu[e] = None)
    BY <1>1, <1>2, <2>2, Names DEF Mutex
  <2>3. ASSUME ~overlap' PROVE \A b \in Clients : ~InSave(b, "opened")' /\ ~InSave(b, "written")'
    BY <1>9, <1>10, <2>2, <2>3
  <2>4. ASSUME ~overlap' PROVE Stored' = newest'
    <3>1. tmp # None /\ data[tmp] = val
      BY <1>1, <1>6, <2>4
    <3>2. CASE Renames
      <4>1. path' = tmp /\ newest' = val /\ data'[tmp] = val
        BY <1>6, <3>1, <3>2
      <4> QED
        BY <1>3, <3>1, <4>1 DEF Stored
    <3>3. CASE NotRenamed
      BY <1>1, <2>4, <3>3 DEF Stored, Files
    <3> QED
      BY <1>4, <3>2, <3>3
  <2> QED
    BY <2>1, <2>2, <2>3, <2>4 DEF Files
<1> QED
  BY <1>7, <1>8, <1>11, <1>12

\* A daemon's handlers end where they are; what they left on disk stays.
LEMMA DaemonEndsKeeps ==
    ASSUME IInv, NEW d \in Daemons, DaemonEnds(d) PROVE IInv'
<1> USE DEF IInv
<1>1. /\ daemon' = [daemon EXCEPT ![d] = "down"]
      /\ mu' = [mu EXCEPT ![d] = None] /\ fd' = [fd EXCEPT ![d] = None]
      /\ UNCHANGED <<phase, session, request, starts, path, tmp, data, replaced, newest, overlap>>
  BY DEF DaemonEnds, clientVars, historyVars
<1>2. Typed'
  BY <1>1 DEF Typed
<1>3. Protocol'
  BY <1>1 DEF Protocol, ClientOK
<1>4. ASSUME NEW b \in Clients, NEW step \in {"opened", "written"}, InSave(b, step)'
      PROVE  /\ InSave(b, step) /\ request[b].at \in Daemons \ {d}
             /\ mu'[request[b].at] = mu[request[b].at] /\ fd'[request[b].at] = fd[request[b].at]
  <2>1. request[b].at \in Daemons
    BY <1>1, <1>4, RequestFacts DEF InSave, Typed
  <2>2. request[b].at # d
    BY <1>1, <1>4 DEF InSave, Typed
  <2> QED
    BY <1>1, <1>4, <2>1, <2>2 DEF InSave, Typed
<1>5. /\ mu'[d] = None /\ fd'[d] = None
      /\ \A e \in Daemons \ {d} : mu'[e] = mu[e] /\ fd'[e] = fd[e]
  BY <1>1 DEF Typed
<1>6. Mutex'
  <2>1. \A b \in Clients : InSave(b, "opened")' \/ InSave(b, "written")' => mu'[request'[b].at] = b
    BY <1>1, <1>4 DEF Mutex
  <2>2. \A b \in Clients : InSave(b, "opened")' => fd'[request'[b].at] # None
    BY <1>1, <1>4 DEF Mutex
  <2>3. \A b \in Clients : InSave(b, "written")' => fd'[request'[b].at] = None
    BY <1>1, <1>4 DEF Mutex
  <2>4. \A e \in Daemons : fd'[e] # None => mu'[e] # None
    BY <1>5 DEF Mutex
  <2>5. ~overlap' => \A e, f \in Daemons : mu'[e] # None /\ mu'[f] # None => e = f
    BY <1>1, <1>5 DEF Mutex
  <2> QED
    BY <2>1, <2>2, <2>3, <2>4, <2>5 DEF Mutex
<1>7. Files'
  <2>1. Stored' = Stored
    BY <1>1 DEF Stored
  <2>2. ASSUME ~overlap' PROVE \A e \in Daemons : fd'[e] # None => fd'[e] = tmp'
    BY <1>1, <1>5, <2>2 DEF Files
  <2>3. ASSUME ~overlap', NEW b \in Clients
        PROVE  /\ InSave(b, "opened")' => tmp' # None /\ data'[tmp'] = "empty"
               /\ InSave(b, "written")' => tmp' # None /\ data'[tmp'] = request'[b].val
    BY <1>1, <1>4, <2>3 DEF Files
  <2> QED
    BY <1>1, <2>1, <2>2, <2>3 DEF Files
<1> QED
  BY <1>2, <1>3, <1>6, <1>7

-----------------------------------------------------------------------------
(* The invariant is inductive.                                             *)

LEMMA InitIInv == Init => IInv
<1> SUFFICES ASSUME Init PROVE IInv
  OBVIOUS
<1>1. \A c \in Clients : request[c] = NoRequest /\ phase[c] = "get"
  BY DEF Init
<1>2. Typed
  <2>1. phase \in [Clients -> Phases] /\ session \in [Clients -> Sessions]
    BY Names, PhaseFacts DEF Init
  <2>2. request \in [Clients -> Requests]
    BY RequestFacts DEF Init
  <2>3. starts \in 0..MaxStarts
    BY MaxStartsAssumption DEF Init
  <2>4. /\ daemon \in [Daemons -> {"down", "serving", "closing"}]
        /\ mu \in [Daemons -> Clients \cup {None}] /\ fd \in [Daemons -> Inodes \cup {None}]
    BY DEF Init
  <2>5. /\ path \in Inodes \cup {None} /\ tmp \in Inodes \cup {None}
        /\ data \in [Inodes -> Sessions \cup {"empty", "torn"}]
        /\ replaced \in [Clients -> Sessions \cup {None, "empty", "torn"}]
        /\ newest \in Sessions /\ overlap \in BOOLEAN
    BY Names DEF Init
  <2> QED
    BY <2>1, <2>2, <2>3, <2>4, <2>5 DEF Typed
<1>3. Protocol
  BY <1>1, RequestFacts DEF Protocol, ClientOK
<1>4. \A c \in Clients : \A step : ~InSave(c, step)
  BY <1>1, RequestFacts DEF InSave
<1>5. Mutex
  BY <1>4 DEF Init, Mutex
<1>6. Files
  BY <1>4 DEF Init, Files, Stored
<1> QED
  BY <1>2, <1>3, <1>5, <1>6 DEF IInv

LEMMA NextIInv == IInv /\ [Next]_vars => IInv'
<1> SUFFICES ASSUME IInv, [Next]_vars PROVE IInv'
  OBVIOUS
<1>1. CASE UNCHANGED vars
  <2>1. UNCHANGED <<phase, session, request, daemon, starts, mu, fd, path, tmp, data, replaced,
                    newest, overlap, fileVars>>
    BY <1>1 DEF vars, clientVars, daemonVars, fileVars, historyVars
  <2>2. Typed' /\ Protocol'
    BY <2>1 DEF IInv, Typed, Protocol, ClientOK
  <2>3. \A c \in Clients : \A step \in {"opened", "written"} :
            InSave(c, step)' => InSave(c, step) /\ request'[c] = request[c]
    BY <2>1 DEF InSave
  <2> QED
    BY <2>1, <2>2, <2>3, QuietKeeps DEF IInv
<1>2. ASSUME NEW c \in Clients, Dial(c) \/ Broken(c) \/ Override(c) \/ Quit(c) PROVE IInv'
  BY <1>2, DialKeeps, BrokenKeeps, UserKeeps
<1>3. ASSUME NEW c \in Clients, Handler(c) PROVE IInv'
  BY <1>3, AnswersKeep, SaveOpensKeeps, SaveWritesKeeps, SaveRenamesKeeps, RespondKeeps,
     BrokenKeeps DEF Handler
<1>4. ASSUME NEW d \in Daemons, StartDaemon(d) \/ StopsAccepting(d) \/ DaemonEnds(d) PROVE IInv'
  BY <1>4, DaemonKeeps, DaemonEndsKeeps
<1> QED
  BY <1>1, <1>2, <1>3, <1>4 DEF Next

LEMMA Invariance == Spec => []IInv
<1> QED
  BY InitIInv, NextIInv, PTL DEF Spec

-----------------------------------------------------------------------------
(* Theorems.                                                               *)

\* Every reachable state is well typed, and a handler in Save holds the mutex
\* of its daemon's store (store.go, Save).
THEOREM TypeCorrect == Spec => []TypeOK
BY Invariance, IInvTypes, PTL

\* Whatever daemons die or fail to write, wherever in Save, Load returns what
\* was renamed into place last, unless two daemons were in Save at once.
THEOREM StoredIsTheLastSavedHolds == Spec => []StoredIsTheLastSaved
<1>1. IInv => StoredIsTheLastSaved
  BY DEF IInv, Files, Typed, StoredIsTheLastSaved
<1> QED
  BY <1>1, Invariance, PTL

LEMMA StepsSaveTheirOwn ==
    ASSUME IInv, [Next]_vars, NEW c \in Clients,
           phase[c] \in Saves, phase'[c] = After[phase[c]]
    PROVE  overlap \/ replaced[c] = Normal(session[c])
<1>1. phase'[c] # phase[c] /\ phase'[c] # "failed"
  BY PhaseFacts
<1>2. ASSUME NEW b \in Clients, Fail(b) PROVE FALSE
  <2>1. phase' = [phase EXCEPT ![b] = IF phase[b] \in Tolerated THEN After[phase[b]] ELSE "failed"]
    BY <1>2 DEF Fail
  <2>2. b = c
    BY <1>1, <2>1 DEF IInv, Typed
  <2> QED
    BY <1>1, <2>1, <2>2, PhaseFacts DEF IInv, Typed
<1>3. PICK b \in Clients : Respond(b)
  <2>1. phase' # phase
    BY <1>1
  <2>2. ASSUME NEW b \in Clients, Override(b) \/ Quit(b) PROVE FALSE
    <3>1. phase[b] \in {"overrides", "ui"} /\ \A a \in Clients \ {b} : phase'[a] = phase[a]
      BY <2>2 DEF Override, Quit, IInv, Typed
    <3> QED
      BY <1>1, <3>1, PhaseFacts
  <2>3. \A b \in Clients : ~Broken(b) /\ ~Refuse(b) /\ ~Dial(b)
    BY <1>2, <2>1 DEF Broken, Refuse, Dial
  <2>4. \A b \in Clients : ~Load(b) /\ ~FileDenied(b) /\ ~Serve(b) /\ ~SaveOpens(b)
                           /\ ~SaveWrites(b) /\ ~SaveWriteFails(b)
                           /\ ~SaveRenames(b) /\ ~SaveRenameFails(b)
    BY <2>1 DEF Load, FileDenied, Serve, SaveOpens, SaveWrites, SaveWriteFails, SaveRenames,
                SaveRenameFails, clientVars
  <2>5. \A d \in Daemons : ~StartDaemon(d) /\ ~StopsAccepting(d) /\ ~DaemonEnds(d)
    BY <2>1 DEF StartDaemon, StopsAccepting, DaemonEnds, clientVars
  <2>6. ~UNCHANGED vars
    BY <2>1 DEF vars, clientVars
  <2> QED
    BY <2>2, <2>3, <2>4, <2>5, <2>6 DEF Next, Handler
<1>4. b = c /\ request[c].step = "answer"
  BY <1>1, <1>3 DEF Respond, Handles, IInv, Typed
<1> QED
  BY <1>4 DEF IInv, Protocol, ClientOK

\* A client that is told so has had its own session renamed into place, whole,
\* unless two daemons were in Save at once (handleSaveSessionState, Save).
THEOREM SavedMeansReplacedHolds == Spec => SavedMeansReplaced
<1>1. IInv /\ [Next]_vars =>
          [\A c \in Clients : phase[c] \in Saves /\ phase'[c] = After[phase[c]] =>
               overlap \/ replaced[c] = Normal(session[c])]_vars
  BY StepsSaveTheirOwn
<1> QED
  BY <1>1, Invariance, PTL DEF Spec, SavedMeansReplaced

-----------------------------------------------------------------------------
(* What keeps a call from waiting for ever: CallsEnd without its fairness. *)

\* A store mutex that is taken is held by a handler of that daemon at a step of
\* Save that it can go on from: no path through Save, and no end of a daemon,
\* a client or a connection, leaves it locked (store.go 47-72).
LockHasHolder ==
    \A d \in Daemons, c \in Clients :
        mu[d] = c => /\ request[c].at = d
                     /\ InSave(c, "opened") \/ InSave(c, "written")

Saving(c) == InSave(c, "opened") \/ InSave(c, "written")

LEMMA HoldersStay ==
    ASSUME LockHasHolder, UNCHANGED mu,
           \A c \in Clients : Saving(c) => Saving(c)' /\ request'[c].at = request[c].at
    PROVE  LockHasHolder'
BY DEF LockHasHolder, Saving

LEMMA LockNext == IInv /\ LockHasHolder /\ [Next]_vars => LockHasHolder'
<1> SUFFICES ASSUME IInv, LockHasHolder, [Next]_vars PROVE LockHasHolder'
  OBVIOUS
<1>1. ASSUME NEW c \in Clients, ~Saving(c), UNCHANGED <<mu, daemon>>,
             \A b \in Clients \ {c} : request'[b] = request[b]
      PROVE  LockHasHolder'
  <2>1. \A b \in Clients : Saving(b) => Saving(b)' /\ request'[b].at = request[b].at
    BY <1>1 DEF Saving, InSave
  <2> QED
    BY <1>1, <2>1, HoldersStay
<1>2. ASSUME NEW c \in Clients,
             Dial(c) \/ Broken(c) \/ Override(c) \/ Quit(c) \/ Load(c) \/ FileDenied(c)
             \/ Serve(c) \/ Respond(c) \/ Refuse(c)
      PROVE  LockHasHolder'
  <2>1. UNCHANGED <<mu, daemon>>
    BY <1>2 DEF Dial, Broken, Override, Quit, Load, FileDenied, Serve, Respond, Refuse,
                daemonVars, fileVars
  <2>2. CASE Override(c) \/ Quit(c)
    BY <2>1, <2>2, HoldersStay DEF Override, Quit, Saving, InSave
  <2>3. CASE Dial(c) \/ Broken(c) \/ Load(c) \/ FileDenied(c) \/ Serve(c) \/ Respond(c) \/ Refuse(c)
    <3>1. ~Saving(c)
      BY <2>3, RequestFacts DEF Dial, Broken, Load, FileDenied, Serve, Respond, Refuse, Handles,
                              Saving, InSave
    <3>2. \A b \in Clients \ {c} : request'[b] = request[b]
      BY <2>3 DEF Dial, Broken, Load, FileDenied, Serve, Respond, Refuse, Step, IInv, Typed
    <3> QED
      BY <1>1, <2>1, <3>1, <3>2
  <2> QED
    BY <1>2, <2>2, <2>3
<1>3. ASSUME NEW c \in Clients, SaveOpens(c) \/ SaveWrites(c) PROVE LockHasHolder'
  <2> DEFINE d == request[c].at
  <2>1. PICK step, val : step \in {"opened", "written"} /\ Step(c, step, val)
    BY <1>3 DEF SaveOpens, SaveWrites
  <2>2. /\ request'[c] = [at |-> d, step |-> step, val |-> val]
        /\ \A b \in Clients \ {c} : request'[b] = request[b]
    BY <2>1, StepSets DEF IInv
  <2>3. d # None /\ daemon[d] # "down" /\ UNCHANGED daemon
    BY <1>3 DEF SaveOpens, SaveWrites, Handles, daemonVars
  <2>4. Saving(c)' /\ request'[c].at = d
    BY <2>1, <2>2, <2>3 DEF Saving, InSave
  <2>5. ASSUME NEW e \in Daemons, NEW b \in Clients, mu'[e] = b
        PROVE  (b = c /\ e = d) \/ (b # c /\ mu[e] = b)
    <3>1. CASE SaveOpens(c)
      <4>1. mu' = [mu EXCEPT ![d] = c] /\ request[c].step = "asked"
        BY <3>1 DEF SaveOpens, Handles
      <4>2. \A f \in Daemons : mu[f] # c
        BY <4>1 DEF LockHasHolder, InSave
      <4> QED
        BY <2>5, <4>1, <4>2 DEF IInv, Typed
    <3>2. CASE SaveWrites(c)
      <4>1. UNCHANGED mu
        BY <3>2 DEF SaveWrites
      <4> QED
        BY <2>5, <4>1 DEF LockHasHolder
    <3> QED
      BY <1>3, <3>1, <3>2
  <2>6. ASSUME NEW e \in Daemons, NEW b \in Clients, b # c, mu[e] = b
        PROVE  request'[b].at = e /\ Saving(b)'
    <3>1. request[b].at = e /\ Saving(b)
      BY <2>6 DEF LockHasHolder, Saving
    <3>2. request'[b] = request[b]
      BY <2>2, <2>6
    <3> QED
      BY <2>3, <3>1, <3>2 DEF Saving, InSave
  <2> HIDE DEF d
  <2> QED
    BY <2>4, <2>5, <2>6 DEF LockHasHolder, Saving
<1>4. ASSUME NEW c \in Clients, SaveWriteFails(c) \/ SaveRenames(c) \/ SaveRenameFails(c)
      PROVE  LockHasHolder'
  <2>1. PICK step, val : Step(c, step, val)
    BY <1>4 DEF SaveWriteFails, SaveRenames, SaveRenameFails
  <2>2. \A b \in Clients \ {c} : request'[b] = request[b]
    BY <2>1, StepSets DEF IInv
  <2>3. mu' = [mu EXCEPT ![request[c].at] = None] /\ UNCHANGED daemon
    BY <1>4 DEF SaveWriteFails, SaveRenames, SaveRenameFails, daemonVars
  <2>4. ASSUME NEW e \in Daemons, NEW b \in Clients, mu'[e] = b
        PROVE  mu[e] = b /\ b # c
    BY <2>3, <2>4, Names DEF LockHasHolder, IInv, Typed
  <2>5. ASSUME NEW e \in Daemons, NEW b \in Clients, b # c, mu[e] = b
        PROVE  request'[b].at = e /\ Saving(b)'
    <3>1. request[b].at = e /\ Saving(b)
      BY <2>5 DEF LockHasHolder, Saving
    <3>2. request'[b] = request[b]
      BY <2>2, <2>5
    <3> QED
      BY <2>3, <3>1, <3>2 DEF Saving, InSave
  <2> QED
    BY <2>4, <2>5 DEF LockHasHolder, Saving
<1>5. ASSUME NEW d \in Daemons, StartDaemon(d) \/ StopsAccepting(d) PROVE LockHasHolder'
  <2>1. UNCHANGED <<mu, request>>
    BY <1>5 DEF StartDaemon, StopsAccepting, fileVars
  <2>2. \A e \in Daemons : daemon'[e] = "down" => daemon[e] = "down"
    BY <1>5 DEF StartDaemon, StopsAccepting, IInv, Typed
  <2>3. \A b \in Clients : Saving(b) => Saving(b)'
    BY <2>1, <2>2, RequestFacts DEF Saving, InSave, IInv, Typed
  <2> QED
    BY <2>1, <2>3, HoldersStay
<1>6. ASSUME NEW d \in Daemons, DaemonEnds(d) PROVE LockHasHolder'
  <2>1. /\ mu' = [mu EXCEPT ![d] = None] /\ UNCHANGED request
        /\ \A e \in Daemons \ {d} : daemon'[e] = daemon[e]
    BY <1>6 DEF DaemonEnds, IInv, Typed
  <2>2. ASSUME NEW e \in Daemons, NEW b \in Clients, mu'[e] = b
        PROVE  e # d /\ mu[e] = b
    BY <2>1, <2>2, Names DEF IInv, Typed
  <2> QED
    BY <2>1, <2>2 DEF LockHasHolder, InSave
<1>7. CASE UNCHANGED vars
  BY <1>7, HoldersStay DEF vars, fileVars, daemonVars, Saving, InSave
<1> QED
  BY <1>2, <1>3, <1>4, <1>5, <1>6, <1>7 DEF Next, Handler

\* A mutex that is taken will be given back by somebody who is there.
THEOREM LockHasHolderHolds == Spec => []LockHasHolder
<1>1. Init => LockHasHolder
  BY Names DEF Init, LockHasHolder
<1> QED
  BY <1>1, LockNext, Invariance, PTL DEF Spec

-----------------------------------------------------------------------------
(***************************************************************************)
(* The refinement.  A load takes effect when the handler reads the file, a *)
(* save when it renames; every other step of Save changes files that Load  *)
(* does not see, which is what Stored = newest says.                       *)
(***************************************************************************)

\* What one client does, the others of the register do not notice.
LEMMA OneClient ==
    ASSUME NEW c \in Clients,
           \A b \in Clients \ {c} : phase'[b] = phase[b] /\ request'[b] = request[b]
    PROVE  /\ [b \in Clients |-> Calling(b)]'
              = [[b \in Clients |-> Calling(b)] EXCEPT ![c] = Calling(c)']
           /\ [b \in Clients |-> Held(b)]'
              = [[b \in Clients |-> Held(b)] EXCEPT ![c] = Held(c)']
<1>1. \A b \in Clients \ {c} : Calling(b)' = Calling(b) /\ Held(b)' = Held(b)
  BY DEF Calling, Held
<1> QED
  BY <1>1

\* A step of one client that the register does not see.
LEMMA Unseen ==
    ASSUME NEW c \in Clients,
           \A b \in Clients \ {c} : phase'[b] = phase[b] /\ request'[b] = request[b],
           UNCHANGED <<Calling(c), Held(c), session, overlap, Stored>>,
           phase'[c] = "failed" <=> phase[c] = "failed"
    PROVE  UNCHANGED Register!vars
<1>1. \A b \in Clients : Calling(b)' = Calling(b) /\ Held(b)' = Held(b)
  BY DEF Calling, Held
<1>2. {b \in Clients : phase[b] = "failed"}' = {b \in Clients : phase[b] = "failed"}
  OBVIOUS
<1> QED
  BY <1>1, <1>2 DEF Register!vars

\* The call ends without an answer: the client gives up, but for a suggestion.
LEMMA FailGivesUp ==
    ASSUME IInv, NEW c \in Clients, phase[c] \in Calls, Fail(c),
           request' = [request EXCEPT ![c] = NoRequest],
           UNCHANGED <<session, overlap, Stored>>
    PROVE  Register!GiveUp(c) \/ UNCHANGED Register!vars
<1>1. /\ phase'[c] = IF phase[c] \in Tolerated THEN After[phase[c]] ELSE "failed"
      /\ \A b \in Clients \ {c} : phase'[b] = phase[b] /\ request'[b] = request[b]
      /\ request'[c] = NoRequest
  BY DEF Fail, IInv, Typed
<1>2. Held(c)' = None
  BY <1>1, RequestFacts DEF Held
<1>3. CASE phase[c] \in Tolerated
  <2>1. phase[c] = "suggestions" /\ phase'[c] = "list"
    BY <1>1, <1>3 DEF Tolerated, After
  <2>2. Calling(c) = "none" /\ Calling(c)' = "none" /\ Held(c) = None
    BY <2>1 DEF Calling, Held, Saves
  <2> QED
    BY <1>1, <1>2, <2>1, <2>2, Unseen
<1>4. CASE phase[c] \notin Tolerated
  <2>1. phase'[c] = "failed" /\ Calling(c)' = "none"
    BY <1>1, <1>4 DEF Calling, Saves
  <2>2. {b \in Clients : phase[b] = "failed"}' = {b \in Clients : phase[b] = "failed"} \cup {c}
    BY <1>1, <2>1
  <2> QED
    BY <1>1, <1>2, <2>1, <2>2, OneClient DEF Register!GiveUp, Register!Ends
<1> QED
  BY <1>3, <1>4

\* The user changes the session, and it will be saved; or does not.
LEMMA UserChanges ==
    ASSUME IInv, NEW c \in Clients, Override(c) \/ Quit(c), UNCHANGED Stored
    PROVE  Register!Change(c) \/ UNCHANGED Register!vars
<1>1. /\ phase[c] \in {"overrides", "ui"} /\ UNCHANGED <<request, overlap>>
      /\ \A b \in Clients \ {c} : phase'[b] = phase[b] /\ request'[b] = request[b]
      /\ \/ /\ phase'[c] \in Saves
            /\ \E s \in Sessions : session' = [session EXCEPT ![c] = s]
         \/ phase'[c] \in {"suggestions", "done"} /\ UNCHANGED session
  BY DEF Override, Quit, historyVars, IInv, Typed, Saves
<1>2. request[c] = NoRequest
  BY <1>1, PhaseFacts DEF IInv, Protocol, ClientOK
<1>3. Held(c) = None /\ Held(c)' = None /\ Calling(c) = "none"
  BY <1>1, <1>2, RequestFacts DEF Held, Calling, Saves
<1>4. CASE phase'[c] \in Saves
  <2>1. Calling(c)' = "save" /\ phase'[c] # "failed" /\ phase[c] # "failed"
    BY <1>1, <1>4 DEF Calling, Saves
  <2>2. {b \in Clients : phase[b] = "failed"}' = {b \in Clients : phase[b] = "failed"}
    BY <1>1, <2>1
  <2>3. [b \in Clients |-> Held(b)]' = [b \in Clients |-> Held(b)]
    BY <1>1, <1>3, OneClient
  <2>4. \E s \in Sessions : session' = [session EXCEPT ![c] = s]
    BY <1>1, <1>4 DEF Saves
  <2> QED
    BY <1>1, <1>3, <2>1, <2>2, <2>3, <2>4, OneClient DEF Register!Change
<1>5. CASE phase'[c] \in {"suggestions", "done"} /\ UNCHANGED session
  <2>1. Calling(c)' = "none" /\ phase'[c] # "failed" /\ phase[c] # "failed"
    BY <1>1, <1>5 DEF Calling, Saves
  <2> QED
    BY <1>1, <1>3, <1>5, <2>1, Unseen
<1> QED
  BY <1>1, <1>4, <1>5

LEMMA LoadLoads ==
    ASSUME IInv, NEW c \in Clients, Load(c), UNCHANGED Stored
    PROVE  Register!Load(c)
<1>1. /\ phase[c] = "get" /\ request[c].step = "asked"
      /\ UNCHANGED <<phase, session>> /\ Step(c, "answer", Stored)
  BY DEF Load, Handles, clientVars
<1>2. /\ request'[c] = [at |-> request[c].at, step |-> "answer", val |-> Stored]
      /\ \A b \in Clients \ {c} : request'[b] = request[b]
  BY <1>1, StepSets DEF IInv
<1>3. Calling(c) = "load" /\ Calling(c)' = "load" /\ Held(c) = None /\ Held(c)' = Stored
  BY <1>1, <1>2 DEF Calling, Held
<1>4. {b \in Clients : phase[b] = "failed"}' = {b \in Clients : phase[b] = "failed"}
      /\ [b \in Clients |-> Calling(b)]' = [b \in Clients |-> Calling(b)]
  BY <1>1 DEF Calling
<1> QED
  BY <1>1, <1>2, <1>3, <1>4, OneClient DEF Register!Load

\* A step of a handler that gives no answer to a load or a save.
LEMMA HandlerIsUnseen ==
    ASSUME IInv, NEW c \in Clients, phase[c] \in Calls, UNCHANGED <<phase, session, overlap, Stored>>,
           \A b \in Clients \ {c} : request'[b] = request[b],
           phase[c] \in {"get"} \cup Saves => request[c].step # "answer" /\ request'[c].step # "answer"
    PROVE  UNCHANGED Register!vars
<1>1. Calling(c)' = Calling(c)
  BY DEF Calling
<1>2. Held(c)' = Held(c)
  BY DEF Held
<1> QED
  BY <1>1, <1>2, Unseen

LEMMA RenameSaves ==
    ASSUME IInv, NEW c \in Clients, SaveRenames(c), Stored' = newest'
    PROVE  Register!Save(c)
<1>1. /\ phase[c] \in Saves /\ request[c].step = "written"
      /\ newest' = request[c].val /\ Step(c, "answer", request[c].val)
      /\ UNCHANGED <<phase, session, overlap>>
  BY DEF SaveRenames, Handles, clientVars
<1>2. /\ request'[c] = [at |-> request[c].at, step |-> "answer", val |-> request[c].val]
      /\ \A b \in Clients \ {c} : request'[b] = request[b]
  BY <1>1, StepSets DEF IInv
<1>3. request[c].val = Normal(session[c])
  BY <1>1 DEF IInv, Protocol, ClientOK
<1>4. phase[c] # "get"
  BY <1>1 DEF Saves
<1>5. /\ Calling(c) = "save" /\ Calling(c)' = "save" /\ Held(c) = None
      /\ Held(c)' = Normal(session[c])
  BY <1>1, <1>2, <1>3, <1>4 DEF Calling, Held
<1>6. {b \in Clients : phase[b] = "failed"}' = {b \in Clients : phase[b] = "failed"}
      /\ [b \in Clients |-> Calling(b)]' = [b \in Clients |-> Calling(b)]
  BY <1>1 DEF Calling
<1>7. Register!Normal(session[c]) = Normal(session[c])
  BY DEF Register!Normal, Normal
<1> QED
  BY <1>1, <1>2, <1>3, <1>5, <1>6, <1>7, OneClient DEF Register!Save

LEMMA RespondReturns ==
    ASSUME IInv, NEW c \in Clients, Respond(c), UNCHANGED Stored
    PROVE  Register!Return(c) \/ UNCHANGED Register!vars
<1>1. /\ request[c].step = "answer" /\ phase[c] \in Calls /\ phase'[c] = After[phase[c]]
      /\ session' = IF phase[c] = "get" THEN [session EXCEPT ![c] = request[c].val] ELSE session
      /\ request'[c] = NoRequest /\ UNCHANGED overlap
      /\ \A b \in Clients \ {c} : phase'[b] = phase[b] /\ request'[b] = request[b]
  BY DEF Respond, Handles, historyVars, IInv, Typed
<1>2. Held(c)' = None /\ Calling(c)' = "none" /\ phase[c] # "failed" /\ phase'[c] # "failed"
  BY <1>1, RequestFacts DEF Held, Calling, Saves, Calls, After
<1>3. CASE phase[c] \in {"get"} \cup Saves
  <2>1. Held(c) = request[c].val
    BY <1>1, <1>3 DEF Held
  <2>2. request[c].val # None
    <3>1. CASE phase[c] = "get"
      BY <1>1, <3>1, Names DEF IInv, Protocol, ClientOK
    <3>2. CASE phase[c] \in Saves
      <4>1. session[c] \in Sessions
        BY DEF IInv, Typed
      <4> QED
        BY <1>1, <3>2, <4>1, Names, NormalIsTidy DEF IInv, Protocol, ClientOK
    <3> QED
      BY <1>3, <3>1, <3>2
  <2>3. (Calling(c) = "load") <=> (phase[c] = "get")
    BY <1>3 DEF Calling
  <2>4. {b \in Clients : phase[b] = "failed"}' = {b \in Clients : phase[b] = "failed"}
    BY <1>1, <1>2
  <2> QED
    BY <1>1, <1>2, <2>1, <2>2, <2>3, <2>4, OneClient DEF Register!Return, Register!Ends
<1>4. CASE phase[c] \notin {"get"} \cup Saves
  <2>1. Held(c) = None /\ Calling(c) = "none" /\ UNCHANGED session
    BY <1>1, <1>4 DEF Held, Calling
  <2> QED
    BY <1>1, <1>2, <2>1, Unseen
<1> QED
  BY <1>3, <1>4

\* Only a rename changes what is stored, as long as no two daemons overlap.
LEMMA StoredStays ==
    ASSUME IInv, IInv', ~overlap', UNCHANGED <<newest, overlap>>
    PROVE  UNCHANGED Stored
BY DEF IInv, Files

LEMMA RegisterNext ==
    ASSUME IInv, IInv', [Next]_vars
    PROVE  [overlap' = TRUE \/ (Register!Next /\ UNCHANGED overlap)]_(Register!vars)
<1> SUFFICES ASSUME ~overlap'
             PROVE  (Register!Next /\ UNCHANGED overlap) \/ UNCHANGED Register!vars
  BY DEF IInv, Typed
<1> DEFINE Goal == (Register!Next /\ UNCHANGED overlap) \/ UNCHANGED Register!vars
<1>1. ASSUME NEW c \in Clients, phase[c] \in Calls, Fail(c),
             request' = [request EXCEPT ![c] = NoRequest], UNCHANGED <<session, newest, overlap>>
      PROVE  Goal
  <2>1. UNCHANGED Stored
    BY <1>1, StoredStays
  <2> QED
    BY <1>1, <2>1, FailGivesUp DEF Register!Next
<1>2. ASSUME NEW c \in Clients, Dial(c) PROVE Goal
  <2>1. /\ phase[c] \in Calls /\ request[c] = NoRequest
        /\ UNCHANGED <<session, newest, overlap>>
    BY <1>2 DEF Dial
  <2>2. CASE Fail(c) /\ UNCHANGED request
    <3>1. request' = [request EXCEPT ![c] = NoRequest]
      BY <2>1, <2>2 DEF IInv, Typed
    <3> QED
      BY <1>1, <2>1, <2>2, <3>1
  <2>3. ASSUME NEW d \in Daemons, UNCHANGED phase,
               request' = [request EXCEPT ![c] = [at |-> d, step |-> "asked", val |-> None]]
        PROVE  Goal
    <3>1. /\ request'[c].step = "asked" /\ request[c].step = "none"
          /\ \A b \in Clients \ {c} : request'[b] = request[b]
      BY <2>1, <2>3, RequestFacts DEF IInv, Typed
    <3>2. UNCHANGED Stored
      BY <2>1, StoredStays
    <3> QED
      BY <2>1, <2>3, <3>1, <3>2, HandlerIsUnseen
  <2> QED
    BY <1>2, <2>2, <2>3 DEF Dial
<1>3. ASSUME NEW c \in Clients, Broken(c) \/ Refuse(c) PROVE Goal
  <2>1. request[c].at # None
    BY <1>3 DEF Broken, Refuse, Handles
  <2>2. phase[c] \in Calls
    BY <2>1, RequestFacts DEF IInv, Protocol, ClientOK
  <2> QED
    BY <1>1, <1>3, <2>2 DEF Broken, Refuse, historyVars
<1>4. ASSUME NEW c \in Clients, Override(c) \/ Quit(c) PROVE Goal
  <2>1. UNCHANGED <<newest, overlap>>
    BY <1>4 DEF Override, Quit, historyVars
  <2> QED
    BY <1>4, <2>1, StoredStays, UserChanges DEF Register!Next
<1>5. ASSUME NEW c \in Clients, Load(c) \/ Respond(c) PROVE Goal
  <2>1. UNCHANGED <<newest, overlap>>
    BY <1>5 DEF Load, Respond, historyVars
  <2> QED
    BY <1>5, <2>1, StoredStays, LoadLoads, RespondReturns DEF Register!Next
<1>6. ASSUME NEW c \in Clients,
             FileDenied(c) \/ Serve(c) \/ SaveOpens(c) \/ SaveWrites(c) \/ SaveWriteFails(c)
             \/ SaveRenameFails(c)
      PROVE  Goal
  <2>1. UNCHANGED <<phase, session, newest>> /\ phase[c] \in Calls
    BY <1>6, PhaseFacts DEF FileDenied, Serve, SaveOpens, SaveWrites, SaveWriteFails,
                            SaveRenameFails, Handles, clientVars, historyVars
  <2>2. UNCHANGED overlap
    <3>1. overlap \in BOOLEAN /\ overlap' \in BOOLEAN
      BY DEF IInv, Typed
    <3> QED
      BY <1>6, <3>1 DEF FileDenied, Serve, SaveOpens, SaveWrites, SaveWriteFails,
                        SaveRenameFails, historyVars
  <2>3. PICK step, val :
            /\ step \in {"answer", "opened", "written", "error"}
            /\ Step(c, step, val)
            /\ step = "answer" => phase[c] \notin {"get"} \cup Saves
    BY <1>6 DEF FileDenied, Serve, SaveOpens, SaveWrites, SaveWriteFails,
                SaveRenameFails, Handles, Saves
  <2>4. request'[c].step = step /\ \A b \in Clients \ {c} : request'[b] = request[b]
    <3>1. Typed /\ Step(c, step, val)
      BY <2>3 DEF IInv
    <3>2. /\ request'[c] = [at |-> request[c].at, step |-> step, val |-> val]
          /\ \A b \in Clients \ {c} : request'[b] = request[b]
      BY <3>1, StepSets
    <3> QED
      BY <3>2
  <2>5. request[c].step # "answer"
    BY <1>6 DEF FileDenied, Serve, SaveOpens, SaveWrites, SaveWriteFails, SaveRenameFails, Handles
  <2>6. UNCHANGED Stored
    BY <2>1, <2>2, StoredStays
  <2> QED
    BY <2>1, <2>2, <2>3, <2>4, <2>5, <2>6, HandlerIsUnseen
<1>7. ASSUME NEW c \in Clients, SaveRenames(c) PROVE Goal
  <2>1. UNCHANGED overlap
    BY <1>7 DEF SaveRenames
  <2>2. Stored' = newest'
    BY <2>1 DEF IInv, Files
  <2> QED
    BY <1>7, <2>1, <2>2, RenameSaves DEF Register!Next
<1>8. ASSUME UNCHANGED <<phase, session, request, newest, overlap>> PROVE Goal
  <2>1. UNCHANGED Stored
    BY <1>8, StoredStays
  <2> QED
    BY <1>8, <2>1 DEF Calling, Held, Register!vars
<1>9. ASSUME NEW d \in Daemons, StartDaemon(d) \/ StopsAccepting(d) \/ DaemonEnds(d) PROVE Goal
  BY <1>8, <1>9 DEF StartDaemon, StopsAccepting, DaemonEnds, clientVars, historyVars
<1>10. CASE UNCHANGED vars
  BY <1>8, <1>10 DEF vars, clientVars, historyVars
<1> QED
  BY <1>2, <1>3, <1>4, <1>5, <1>6, <1>7, <1>9, <1>10 DEF Next, Handler

LEMMA RegisterInit == Init => Register!Init
BY DEF Init, Stored, Calling, Held, NoRequest, Register!Init

\* Until two daemons are in Save at once, what the clients have is an atomic
\* register, whatever daemons end, writes fail or answers are lost (store.go,
\* Load and Save; sendControlRequest).
THEOREM IsRegisterHolds == Spec => IsRegister
<1>1. IInv /\ IInv' /\ [Next]_vars
          => [overlap' = TRUE \/ (Register!Next /\ UNCHANGED overlap)]_(Register!vars)
  BY RegisterNext
<1> QED
  BY <1>1, RegisterInit, Invariance, PTL DEF Spec, IsRegister, Register!Spec
=============================================================================
