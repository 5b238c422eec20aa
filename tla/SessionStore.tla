---------------------------- MODULE SessionStore ----------------------------
(***************************************************************************)
(* The session file, the daemons that read and write it, and the k11s      *)
(* processes that restore their view from it, let the user change it and   *)
(* save it at the end: internal/session/store.go, the session requests of  *)
(* internal/daemon/server.go, sendControlRequest of internal/client, and   *)
(* cmd/k11s/main.go after Bootstrap.                                       *)
(*                                                                         *)
(* A daemon that was asked to stop, or was replaced, no longer accepts but *)
(* its handlers run until the process ends; the next daemon may serve by   *)
(* then.  Both write the same temporary file.  The file system keeps what  *)
(* was written when a process dies (not when the machine does).            *)
(*                                                                         *)
(* Whatever keeps a client from being answered (no daemon, a refusal, a    *)
(* connection that breaks) is an error for it.  Sessions are values; what  *)
(* normalizeState does to them is Normal.                                  *)
(***************************************************************************)
EXTENDS FiniteSets, Naturals

CONSTANTS
    Daemons,     \* daemon processes
    Clients,     \* k11s processes
    Flagged,     \* those that were started with flags
    Sessions,    \* the session states a user can bring about
    Default,     \* DefaultSessionState
    Untidy,      \* one whose fields are blank: normalised, it is the default
    Inodes,      \* of the files at path and at path.tmp
    None,        \* no process, no file
    MaxStarts    \* bound on the daemons that are started

ASSUME DistinctAssumption ==
    /\ {Default, Untidy} \subseteq Sessions /\ Default # Untidy
    /\ {"empty", "torn"} \cap Sessions = {}
    /\ None \notin Daemons \cup Clients \cup Inodes \cup Sessions
ASSUME FlaggedAssumption == Flagged \subseteq Clients
ASSUME MaxStartsAssumption == MaxStarts \in Nat

VARIABLES
    phase,     \* where a client is in bootstrapAndRestore and runTUI
    session,   \* the session it works with
    request,   \* its connection: to which daemon, and how far the handler is
    daemon,    \* a daemon process: down, serving, or no longer accepting
    mu,        \* the client whose handler holds the daemon's store mutex
    fd,        \* the temporary file a daemon has open
    path, tmp, \* what the two names lead to
    data,      \* the content of a file
    starts,    \* daemons started so far
    replaced,  \* history: what a client's save in progress renamed into place
    newest,    \* history: the session renamed into place last
    overlap    \* history: two daemons have been in Save at once

clientVars  == <<phase, session>>
daemonVars  == <<daemon, starts>>
fileVars    == <<mu, fd, path, tmp, data>>
historyVars == <<replaced, newest, overlap>>
vars == <<clientVars, request, daemonVars, fileVars, historyVars>>

\* The requests of a client, in order.  Those for suggestions, namespaces and
\* the names of the CRDs, may fail.
Calls     == {"get", "saveOverrides", "suggestions", "list", "saveExit"}
Tolerated == {"suggestions"}
Saves     == {"saveOverrides", "saveExit"}
Phases    == Calls \cup {"overrides", "ui", "done", "failed"}

After == [get |-> "overrides", saveOverrides |-> "suggestions", suggestions |-> "list",
          list |-> "ui", saveExit |-> "done"]

\* A handler has the request; has the mutex and the file open; has written
\* it; has its answer: what it loaded or saved, or an error.
NoRequest == [at |-> None, step |-> "none", val |-> None]
Requests  == [at : Daemons \cup {None},
              step : {"none", "asked", "opened", "written", "answer", "error"},
              val : Sessions \cup {None}]

Normal(s) == IF s = Untidy THEN Default ELSE s

\* What Load returns: a file that is missing or does not parse is the default.
Stored == IF path = None \/ data[path] \notin Sessions THEN Default ELSE Normal(data[path])

Init ==
    /\ phase    = [c \in Clients |-> "get"]
    /\ session  = [c \in Clients |-> Default]
    /\ request  = [c \in Clients |-> NoRequest]
    /\ daemon = [d \in Daemons |-> "down"]
    /\ mu = [d \in Daemons |-> None]
    /\ fd = [d \in Daemons |-> None]
    /\ path = None /\ tmp = None
    /\ data = [i \in Inodes |-> "empty"]
    /\ starts = 0
    /\ replaced = [c \in Clients |-> None] /\ newest = Default /\ overlap = FALSE

-----------------------------------------------------------------------------
(* Clients.                                                                *)

\* The client takes its next phase, or gives up; one that is optional.
Fail(c) == phase' = [phase EXCEPT ![c] = IF @ \in Tolerated THEN After[@] ELSE "failed"]

Dial(c) ==
    /\ phase[c] \in Calls
    /\ request[c] = NoRequest
    /\ \/ \E d \in Daemons :
            /\ daemon[d] = "serving"
            /\ request' = [request EXCEPT ![c] = [at |-> d, step |-> "asked", val |-> None]]
            /\ replaced' = [replaced EXCEPT ![c] = None]
            /\ UNCHANGED phase
       \/ /\ \A d \in Daemons : daemon[d] # "serving"
          /\ Fail(c)
          /\ UNCHANGED <<request, replaced>>
    /\ UNCHANGED <<session, daemonVars, fileVars, newest, overlap>>

\* The daemon has gone, and the connection with it.
Broken(c) ==
    /\ request[c].at # None
    /\ daemon[request[c].at] = "down"
    /\ Fail(c)
    /\ request' = [request EXCEPT ![c] = NoRequest]
    /\ UNCHANGED <<session, daemonVars, fileVars, historyVars>>

\* applySessionOverrides: the flags given replace fields, and are saved.
Override(c) ==
    /\ phase[c] = "overrides"
    /\ \/ /\ c \in Flagged
          /\ \E s \in Sessions : session' = [session EXCEPT ![c] = s]
          /\ phase' = [phase EXCEPT ![c] = "saveOverrides"]
       \/ /\ phase' = [phase EXCEPT ![c] = "suggestions"]
          /\ UNCHANGED session
    /\ UNCHANGED <<request, daemonVars, fileVars, historyVars>>

\* The user is done: runTUI saves a session that differs from the one the UI
\* started with.
Quit(c) ==
    /\ phase[c] = "ui"
    /\ \E s \in Sessions :
          /\ session' = [session EXCEPT ![c] = s]
          /\ phase' = [phase EXCEPT ![c] = IF s # session[c] THEN "saveExit" ELSE "done"]
    /\ UNCHANGED <<request, daemonVars, fileVars, historyVars>>

-----------------------------------------------------------------------------
(* Handlers.                                                               *)

Handles(c, step, calls) == request[c].at # None /\ daemon[request[c].at] # "down"
                           /\ request[c].step = step /\ phase[c] \in calls

Step(c, step, val) ==
    request' = [request EXCEPT ![c] = [at |-> @.at, step |-> step, val |-> val]]

\* Store.Load under the mutex.
Load(c) ==
    /\ Handles(c, "asked", {"get"})
    /\ mu[request[c].at] = None
    /\ Step(c, "answer", Stored)
    /\ UNCHANGED <<clientVars, daemonVars, fileVars, historyVars>>

\* The session file cannot be read, or its directory or the temporary file
\* not be made.
FileDenied(c) ==
    /\ Handles(c, "asked", Saves \cup {"get"})
    /\ mu[request[c].at] = None
    /\ Step(c, "error", None)
    /\ UNCHANGED <<clientVars, daemonVars, fileVars, historyVars>>

\* Requests that leave the session alone.
Serve(c) ==
    /\ Handles(c, "asked", {"suggestions", "list"})
    /\ Step(c, "answer", None)
    /\ UNCHANGED <<clientVars, daemonVars, fileVars, historyVars>>

\* Mutant: the session file itself is truncated and written.
SaveOpensInPlace(c) ==
    LET d == request[c].at
        i == IF path # None THEN path
             ELSE CHOOSE j \in Inodes : \A e \in Daemons : fd[e] # j
    IN  /\ Handles(c, "asked", Saves)
        /\ mu[d] = None
        /\ mu' = [mu EXCEPT ![d] = c]
        /\ fd' = [fd EXCEPT ![d] = i]
        /\ tmp' = IF path # None THEN tmp ELSE i
        /\ data' = [data EXCEPT ![i] = "empty"]
        /\ overlap' = (overlap \/ \E e \in Daemons \ {d} : mu[e] # None)
        /\ Step(c, "opened", None)
        /\ UNCHANGED <<clientVars, daemonVars, path, replaced, newest>>

\* An inode for a new file; there are always more (bound).
Free(i) == i # path /\ \A d \in Daemons : fd[d] # i

\* Store.Save takes the mutex and opens the temporary file: created, or
\* truncated when it is there.
SaveOpens(c) ==
    LET d == request[c].at
        i == IF tmp # None THEN tmp ELSE CHOOSE j \in Inodes : Free(j)
    IN  /\ Handles(c, "asked", Saves)
        /\ tmp = None => \E j \in Inodes : Free(j)
        /\ mu[d] = None
        /\ mu' = [mu EXCEPT ![d] = c]
        /\ fd' = [fd EXCEPT ![d] = i]
        /\ tmp' = i
        /\ data' = [data EXCEPT ![i] = "empty"]
        /\ overlap' = (overlap \/ \E e \in Daemons \ {d} : mu[e] # None)
        /\ Step(c, "opened", None)
        /\ UNCHANGED <<clientVars, daemonVars, path, replaced, newest>>

\* The file is written through its descriptor, wherever it is by now: over
\* the other daemon's session, of which a longer one leaves a tail.
SaveWrites(c) ==
    LET d == request[c].at
        s == Normal(session[c])
    IN  /\ Handles(c, "opened", Saves)
        /\ \E after \in (IF data[fd[d]] \in {"empty", s} THEN {s} ELSE {s, "torn"}) :
              data' = [data EXCEPT ![fd[d]] = after]
        /\ fd' = [fd EXCEPT ![d] = None]
        /\ Step(c, "written", s)
        /\ UNCHANGED <<clientVars, daemonVars, mu, path, tmp, historyVars>>

\* Mutant: the error is not returned.
SaveWriteFailsUnnoticed(c) ==
    LET d == request[c].at
    IN  /\ Handles(c, "opened", Saves)
        /\ data' = [data EXCEPT ![fd[d]] = "torn"]
        /\ fd' = [fd EXCEPT ![d] = None]
        /\ mu' = [mu EXCEPT ![d] = None]
        /\ Step(c, "answer", Normal(session[c]))
        /\ UNCHANGED <<clientVars, daemonVars, path, tmp, historyVars>>

\* Mutant: the mutex is not unlocked on this path.
SaveWriteFailsLocked(c) ==
    LET d == request[c].at
    IN  /\ Handles(c, "opened", Saves)
        /\ data' = [data EXCEPT ![fd[d]] = "torn"]
        /\ fd' = [fd EXCEPT ![d] = None]
        /\ Step(c, "error", None)
        /\ UNCHANGED <<clientVars, daemonVars, mu, path, tmp, historyVars>>

\* The disk is full: part of the session stays in the file.
SaveWriteFails(c) ==
    LET d == request[c].at
    IN  /\ Handles(c, "opened", Saves)
        /\ data' = [data EXCEPT ![fd[d]] = "torn"]
        /\ fd' = [fd EXCEPT ![d] = None]
        /\ mu' = [mu EXCEPT ![d] = None]
        /\ Step(c, "error", None)
        /\ UNCHANGED <<clientVars, daemonVars, path, tmp, historyVars>>

\* A file without a name or a descriptor.
Gone(i) == i # tmp /\ \A d \in Daemons : fd[d] # i

SaveRenames(c) ==
    /\ Handles(c, "written", Saves)
    /\ tmp # None
    /\ mu' = [mu EXCEPT ![request[c].at] = None]
    /\ path' = tmp /\ tmp' = None
    /\ data' = [i \in Inodes |-> IF Gone(i) THEN "empty" ELSE data[i]]
    /\ replaced' = [replaced EXCEPT ![c] = data[tmp]]
    /\ newest' = request[c].val
    /\ Step(c, "answer", request[c].val)
    /\ UNCHANGED <<clientVars, daemonVars, fd, overlap>>

\* Always when the other daemon has taken the file.
SaveRenameFails(c) ==
    /\ Handles(c, "written", Saves)
    /\ mu' = [mu EXCEPT ![request[c].at] = None]
    /\ Step(c, "error", None)
    /\ UNCHANGED <<clientVars, daemonVars, fd, path, tmp, data, historyVars>>

\* The client takes the answer.
Respond(c) ==
    /\ Handles(c, "answer", Calls)
    /\ phase' = [phase EXCEPT ![c] = After[@]]
    /\ session' = IF phase[c] = "get" THEN [session EXCEPT ![c] = request[c].val] ELSE session
    /\ request' = [request EXCEPT ![c] = NoRequest]
    /\ UNCHANGED <<daemonVars, fileVars, historyVars>>

\* It takes a refusal: the handler's error, or an answer whose RPC version is
\* compared only after the request was carried out; or the deadline of the
\* connection has passed and the answer is lost.
Refuse(c) ==
    /\ \E step \in {"answer", "error"} : Handles(c, step, Calls)
    /\ Fail(c)
    /\ request' = [request EXCEPT ![c] = NoRequest]
    /\ UNCHANGED <<session, daemonVars, fileVars, historyVars>>

-----------------------------------------------------------------------------
(* Daemon processes.                                                       *)

\* Bootstrap starts a daemon when none serves.
StartDaemon(d) ==
    /\ starts < MaxStarts
    /\ daemon[d] = "down"
    /\ \A e \in Daemons : daemon[e] # "serving"
    /\ \A c \in Clients : request[c].at # d
    /\ daemon' = [daemon EXCEPT ![d] = "serving"]
    /\ starts' = starts + 1
    /\ UNCHANGED <<clientVars, request, fileVars, historyVars>>

\* A shutdown request closes the listener.
StopsAccepting(d) ==
    /\ daemon[d] = "serving"
    /\ daemon' = [daemon EXCEPT ![d] = "closing"]
    /\ UNCHANGED <<clientVars, request, starts, fileVars, historyVars>>

\* Run returns, or the process is killed: its handlers end where they are.
DaemonEnds(d) ==
    /\ daemon[d] # "down"
    /\ daemon' = [daemon EXCEPT ![d] = "down"]
    /\ mu' = [mu EXCEPT ![d] = None]
    /\ fd' = [fd EXCEPT ![d] = None]
    /\ UNCHANGED <<clientVars, request, starts, path, tmp, data, historyVars>>

-----------------------------------------------------------------------------
Handler(c) == Load(c) \/ FileDenied(c) \/ Serve(c) \/ SaveOpens(c) \/ SaveWrites(c)
              \/ SaveWriteFails(c) \/ SaveRenames(c) \/ SaveRenameFails(c)
              \/ Respond(c) \/ Refuse(c)

Next ==
    \/ \E c \in Clients : Dial(c) \/ Broken(c) \/ Override(c) \/ Quit(c)
    \/ \E c \in Clients : Handler(c)
    \/ \E d \in Daemons : StartDaemon(d) \/ StopsAccepting(d) \/ DaemonEnds(d)

Spec == Init /\ [][Next]_vars

\* Processes run.  No fairness on the user, on what starts and ends daemons,
\* and none that a write succeeds.
FairSpec == Spec /\ \A c \in Clients : WF_vars(Dial(c) \/ Broken(c) \/ Handler(c))
-----------------------------------------------------------------------------
(* Properties.                                                             *)

\* Every variable has its type, and a handler in Save holds its daemon's
\* mutex: the temporary file is written by one handler of a daemon.
TypeOK ==
    /\ phase \in [Clients -> Phases]
    /\ session \in [Clients -> Sessions]
    /\ request \in [Clients -> Requests]
    /\ daemon \in [Daemons -> {"down", "serving", "closing"}]
    /\ mu \in [Daemons -> Clients \cup {None}]
    /\ fd \in [Daemons -> Inodes \cup {None}]
    /\ path \in Inodes \cup {None} /\ tmp \in Inodes \cup {None}
    /\ data \in [Inodes -> Sessions \cup {"empty", "torn"}]
    /\ starts \in 0..MaxStarts
    /\ replaced \in [Clients -> Sessions \cup {None, "empty", "torn"}]
    /\ newest \in Sessions /\ overlap \in BOOLEAN
    /\ \A c \in Clients : \A step \in {"opened", "written"} :
          Handles(c, step, Calls) => mu[request[c].at] = c

\* Whatever daemon dies or fails to write, and wherever in Save (store.go
\* 63-69), the session on disk is the one that was renamed into place last:
\* never the empty or half-written file of a save that did not finish.  Two
\* daemons in Save at once are the exception: they share the temporary file.
StoredIsTheLastSaved == overlap \/ Stored = newest

\* A client told that its session is saved (main.go 190, 338) had its own
\* session renamed into place, not another client's and not a file that the
\* other daemon emptied; but for two daemons in Save at once.
SavedMeansReplaced ==
    [][\A c \in Clients :
          phase[c] \in Saves /\ phase'[c] = After[phase[c]] =>
              overlap \/ replaced[c] = Normal(session[c])]_vars

\* A client's call ends: it is answered, refused or broken.  A handler that
\* waits for the store mutex gets it, though others take it before.
CallsEnd == \A c \in Clients : []<>(phase[c] \notin Calls)

-----------------------------------------------------------------------------
(* Refinement: files, daemons and their mutexes are one register.          *)

Calling(c) == IF phase[c] = "get" THEN "load"
              ELSE IF phase[c] \in Saves THEN "save" ELSE "none"
Held(c)    == IF request[c].step = "answer" /\ phase[c] \in {"get"} \cup Saves
              THEN request[c].val ELSE None

Register == INSTANCE SessionRegister WITH
    stored  <- Stored,
    calling <- [c \in Clients |-> Calling(c)],
    held    <- [c \in Clients |-> Held(c)],
    failed  <- {c \in Clients : phase[c] = "failed"},
    shared  <- overlap

\* Until two daemons are in Save at once, saving and loading sessions is atomic
\* whatever process dies, whatever write fails and whatever answer is lost
\* (store.go 27-72): a load gives what was saved last, the answer to a save is
\* of a save that was made, and no other step changes what is stored.
IsRegister == Register!Spec
=============================================================================
