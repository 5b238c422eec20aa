------------------------------ MODULE Bootstrap ------------------------------
(***************************************************************************)
(* Clients that start: Bootstrap of src/internal/client/bootstrap.go, with *)
(* the daemons of DaemonSocket.  A client dials the path, starts a daemon  *)
(* when none answers, and replaces one of another version.                 *)
(*                                                                         *)
(* Sleeping between retries is not a step.  The deadlines are long against *)
(* the start and the end of a daemon: a client runs into one only when no  *)
(* daemon is on its way up or down (Settled).  A daemon that accepts       *)
(* answers within ConnectTimeout.                                          *)
(***************************************************************************)
EXTENDS DaemonSocket

CONSTANTS
    Clients,
    Versions,       \* of the binaries
    NoVersion,      \* the empty version string, if it is one of them
    OtherRPC,       \* the versions that speak another RPC version
    SpawnMayFail,   \* clients with no daemon binary beside their own
    Elsewhere,      \* the versions of the binaries that those may find
    NoDaemon        \* the absent value

ASSUME ClientsAssumption ==
    /\ OtherRPC \subseteq Versions
    /\ SpawnMayFail \subseteq Clients
    /\ Elsewhere \subseteq Versions
    /\ NoDaemon \notin Daemons

VARIABLES
    step,       \* where a client is in Bootstrap, or how that ended
    conn,       \* the daemon it is connected to
    old,        \* the daemon it replaces (current.PID), if it does
    version,    \* of the client's binary; never changes
    daemonVersion

clientVars  == <<step, conn, old>>
versionVars == <<version, daemonVersion>>
vars        == <<daemonVars, clientVars, versionVars>>

\* The four places that shake hands or send the shutdown request.
Dialling == {"hello", "askStop", "awaitExit", "awaitReady"}
Outcomes == {"connected", "incompatible", "notReady", "failed"}
Steps    == Dialling \cup {"signal", "spawn"} \cup Outcomes

Compatible(v, w) == v \in OtherRPC <=> w \in OtherRPC

ShouldUpgrade(v, w) == NoVersion \notin {v, w} /\ v # w

Init ==
    /\ DaemonInit
    /\ step = [c \in Clients |-> "hello"]
    /\ conn = [c \in Clients |-> NoDaemon]
    /\ old  = [c \in Clients |-> NoDaemon]
    /\ version \in [Clients -> Versions]
    /\ \E v \in Versions : daemonVersion = [d \in Daemons |-> v]

Move(c, next) == step' = [step EXCEPT ![c] = next]
HangUp(c)     == conn' = [conn EXCEPT ![c] = NoDaemon]
Ask(d)        == asked' = asked \cup {d} /\ UNCHANGED <<path, pc, served>>

-----------------------------------------------------------------------------
(* Dialling.                                                               *)

Dial(c) ==
    /\ step[c] \in Dialling
    /\ conn[c] = NoDaemon
    /\ Reachable
    /\ conn' = [conn EXCEPT ![c] = path]
    /\ UNCHANGED <<daemonVars, step, old, versionVars>>

\* The dial fails.  waitForDaemonExit takes that for the daemon's exit; in
\* waitForDaemonReady the client sleeps and dials again.
Refused(c) ==
    /\ step[c] \in Dialling \ {"awaitReady"}
    /\ conn[c] = NoDaemon
    /\ ~Reachable
    /\ Move(c, IF step[c] = "askStop" THEN "signal" ELSE "spawn")
    /\ UNCHANGED <<daemonVars, conn, old, versionVars>>

\* The daemon exits before it has answered.
Broken(c) ==
    /\ conn[c] # NoDaemon
    /\ step[c] \in Dialling
    /\ pc[conn[c]] \in {"cleanup", "exited"}
    /\ Move(c, CASE step[c] \in {"hello", "awaitReady"} -> "failed"
                 [] step[c] = "askStop"                 -> "signal"
                 [] step[c] = "awaitExit"               -> "awaitExit")
    /\ HangUp(c)
    /\ UNCHANGED <<daemonVars, old, versionVars>>

\* The daemon at the other end can answer.
Answers(c, at) ==
    /\ step[c] = at
    /\ conn[c] \in served
    /\ pc[conn[c]] \in Alive

Agree(c)    == Compatible(version[c], daemonVersion[conn[c]])
Mismatch(c) == ShouldUpgrade(version[c], daemonVersion[conn[c]])

-----------------------------------------------------------------------------
(* Bootstrap and restartDaemon.                                            *)

Hello(c) ==
    /\ Answers(c, "hello")
    /\ \/ ~Agree(c) /\ Move(c, "incompatible") /\ HangUp(c) /\ UNCHANGED old
       \/ /\ Agree(c) /\ Mismatch(c)
          /\ Move(c, "askStop")
          /\ HangUp(c)
          /\ old' = [old EXCEPT ![c] = conn[c]]
       \/ Agree(c) /\ ~Mismatch(c) /\ Move(c, "connected") /\ UNCHANGED <<conn, old>>
    /\ UNCHANGED <<daemonVars, versionVars>>

\* Mutant: the daemon closes its listener before it compares RPC versions.
AskStopBlind(c) ==
    /\ Answers(c, "askStop")
    /\ Ask(conn[c])
    /\ Move(c, IF Agree(c) THEN "awaitExit" ELSE "signal")
    /\ HangUp(c)
    /\ UNCHANGED <<old, versionVars>>

\* The shutdown request reaches the daemon that is behind the path now, not
\* the one whose version was compared.
AskStop(c) ==
    /\ Answers(c, "askStop")
    /\ \/ Agree(c) /\ Ask(conn[c]) /\ Move(c, "awaitExit")
       \/ ~Agree(c) /\ Move(c, "signal") /\ UNCHANGED daemonVars
    /\ HangUp(c)
    /\ UNCHANGED <<old, versionVars>>

\* SIGTERM to the process whose version was compared.
SignalOld(c) ==
    /\ step[c] = "signal"
    /\ \/ pc[old[c]] \in Alive /\ Ask(old[c]) /\ Move(c, "awaitExit")
       \/ pc[old[c]] \notin Alive /\ Move(c, "failed") /\ UNCHANGED daemonVars
    /\ UNCHANGED <<conn, old, versionVars>>

\* Any answer means that a daemon is still there.
StillThere(c) ==
    /\ Answers(c, "awaitExit")
    /\ HangUp(c)
    /\ UNCHANGED <<daemonVars, step, old, versionVars>>

\* A process not yet started; they are alike.
NotStarted == {d \in Daemons : pc[d] = "off"}

\* The versions of the binary that resolveDaemonPath may find: the client's
\* own beside its executable, or what K11SD_PATH or PATH names.
Found(c) == IF c \in SpawnMayFail THEN Elsewhere ELSE {version[c]}

Spawn(c) ==
    /\ step[c] = "spawn"
    /\ NotStarted # {}
    /\ LET d == CHOOSE d \in NotStarted : TRUE
       IN  /\ Goto(d, "lstat")
           /\ \E v \in Found(c) : daemonVersion' = [daemonVersion EXCEPT ![d] = v]
    /\ Move(c, "awaitReady")
    /\ UNCHANGED <<path, asked, served, conn, old, version>>

SpawnFails(c) ==
    /\ step[c] = "spawn"
    /\ c \in SpawnMayFail
    /\ Move(c, "failed")
    /\ UNCHANGED <<daemonVars, conn, old, versionVars>>

\* Mutant: does not look at the version again.
ReadyUnchecked(c) ==
    /\ Answers(c, "awaitReady")
    /\ \/ ~Agree(c) /\ Move(c, "incompatible") /\ HangUp(c)
       \/ Agree(c) /\ Move(c, "connected") /\ UNCHANGED conn
    /\ UNCHANGED <<daemonVars, old, versionVars>>

\* Only restartDaemon compares the version of the daemon that became ready.
Ready(c) ==
    /\ Answers(c, "awaitReady")
    /\ \/ ~Agree(c) /\ Move(c, "incompatible") /\ HangUp(c)
       \/ Agree(c) /\ old[c] # NoDaemon /\ Mismatch(c) /\ Move(c, "failed") /\ HangUp(c)
       \/ /\ Agree(c) /\ (old[c] = NoDaemon \/ ~Mismatch(c))
          /\ Move(c, "connected")
          /\ UNCHANGED conn
    /\ UNCHANGED <<daemonVars, old, versionVars>>

-----------------------------------------------------------------------------
(* The deadlines.                                                          *)

Settled ==
    \A d \in Daemons : pc[d] \in {"off", "exited"} \/ (pc[d] = "serve" /\ d \notin asked)

\* Mutant: keeps dialling.
NotReadyNever(c) == FALSE /\ UNCHANGED vars

NotReady(c) ==
    /\ step[c] = "awaitReady"
    /\ conn[c] = NoDaemon
    /\ ~Reachable
    /\ Settled
    /\ Move(c, "notReady")
    /\ UNCHANGED <<daemonVars, conn, old, versionVars>>

NotStopped(c) ==
    /\ step[c] = "awaitExit"
    /\ conn[c] = NoDaemon
    /\ Settled
    /\ Move(c, "failed")
    /\ UNCHANGED <<daemonVars, conn, old, versionVars>>

-----------------------------------------------------------------------------
ClientStep(c) ==
    \/ Dial(c) \/ Refused(c) \/ Broken(c)
    \/ Hello(c) \/ AskStop(c) \/ SignalOld(c) \/ StillThere(c)
    \/ Spawn(c) \/ SpawnFails(c) \/ Ready(c)
    \/ NotReady(c) \/ NotStopped(c)

Next ==
    \/ \E c \in Clients : ClientStep(c)
    \/ \E d \in Daemons : (DaemonStep(d) \/ Killed(d)) /\ UNCHANGED <<clientVars, versionVars>>

Spec == Init /\ [][Next]_vars

(***************************************************************************)
(* Fairness: processes run, and a client that keeps polling reaches its    *)
(* deadline.                                                               *)
(***************************************************************************)
Fairness ==
    /\ \A d \in Daemons : WF_vars(DaemonStep(d) /\ UNCHANGED <<clientVars, versionVars>>)
    /\ \A c \in Clients :
        /\ WF_vars(ClientStep(c))
        /\ SF_vars(NotReady(c) \/ NotStopped(c))

FairSpec == Spec /\ Fairness

-----------------------------------------------------------------------------
(* Properties.                                                             *)

TypeOK ==
    /\ path \in Daemons \cup {NoSocket, OtherFile}
    /\ pc \in [Daemons -> DaemonPCs]
    /\ asked \subseteq served
    /\ served \subseteq Daemons
    /\ step \in [Clients -> Steps]
    /\ conn \in [Clients -> Daemons \cup {NoDaemon}]
    /\ old \in [Clients -> Daemons \cup {NoDaemon}]
    /\ version \in [Clients -> Versions]
    /\ daemonVersion \in [Daemons -> Versions]

\* A client of another RPC version fails fast and disturbs nothing: a daemon
\* is asked to stop only by a client that speaks its RPC version, also when
\* the daemon behind the path has changed since that client's handshake.
StoppedByItsOwnRPC ==
    [][\A d \in asked' \ asked :
         \E c \in Clients :
            /\ step[c] # step'[c]
            /\ Compatible(version[c], daemonVersion[d])]_vars

\* A daemon that ends without being killed leaves no socket of its own
\* behind, however its start and its end interleave with other daemons'.
NoSocketLeftBehind ==
    \A d \in Daemons \ Mortal : pc[d] = "exited" => path # d

\* A client that restarted the daemon is connected to one of its version,
\* or reports an error, also when clients of other versions start as well.
RestartMatches ==
    \A c \in Clients :
        step[c] = "connected" /\ old[c] # NoDaemon => ~Mismatch(c)

\* docs/FAILURE_POLICY.md, section 1: the client never waits indefinitely.
BootstrapEnds == \A c \in Clients : <>(step[c] \in Outcomes)

\* A daemon that was asked to stop comes to its end.
AskedDaemonExits == \A d \in Daemons : d \in asked ~> pc[d] = "exited"

\* A stale socket file, left by a daemon that was killed, does not stay: once a
\* client that is able to start a daemon comes, it is removed, however many
\* clients start at once.
StaleSocketRemoved ==
    \A d \in Daemons :
        (/\ path = d /\ pc[d] = "exited"
         /\ \E c \in Clients \ SpawnMayFail :
                step[c] = "hello" /\ conn[c] = NoDaemon)
            ~> path # d

\* README.md: "requests graceful daemon shutdown and starts a matching
\* daemon".  No client gives up waiting while a daemon of its version serves.
UpgradeReachesDaemon ==
    \A c \in Clients, d \in Daemons :
        step[c] = "notReady" /\ pc[d] = "serve" => daemonVersion[d] # version[c]

=============================================================================
