--------------------------- MODULE BootstrapProofs ---------------------------
(* Theorems about Bootstrap, for any number of clients, daemons, versions. *)
EXTENDS Bootstrap, TLAPS

DaemonTyped ==
    /\ path \in Daemons \cup {NoSocket, OtherFile}
    /\ pc \in [Daemons -> DaemonPCs]
    /\ asked \subseteq served
    /\ served \subseteq Daemons

ClientTyped ==
    /\ step \in [Clients -> Steps]
    /\ conn \in [Clients -> Daemons \cup {NoDaemon}]
    /\ old \in [Clients -> Daemons \cup {NoDaemon}]
    /\ version \in [Clients -> Versions]
    /\ daemonVersion \in [Daemons -> Versions]

\* A daemon is at the path from its bind to its unlink, and after that only
\* if it was killed.
PathHeld ==
    path \in Daemons =>
        \/ pc[path] \in {"listen", "chmod", "serve", "abort"}
        \/ pc[path] = "exited" /\ path \in Mortal

\* Daemons that a client knows of, or that have served, have been started,
\* so that their version is settled.
Started ==
    /\ \A d \in served : pc[d] # "off"
    /\ \A c \in Clients : conn[c] # NoDaemon => pc[conn[c]] # "off"
    /\ \A c \in Clients : old[c] # NoDaemon => old[c] \in served

\* A client replaces a daemon only after a handshake in its own RPC version.
OldIsCompatible ==
    \A c \in Clients :
        /\ step[c] = "signal" => old[c] # NoDaemon
        /\ step[c] = "askStop" => old[c] # NoDaemon
        /\ step[c] = "connected" => conn[c] # NoDaemon
        /\ old[c] # NoDaemon => Compatible(version[c], daemonVersion[old[c]])

IInv ==
    /\ DaemonTyped /\ ClientTyped
    /\ PathHeld /\ Started /\ OldIsCompatible /\ RestartMatches

Daemon(d) == (DaemonStep(d) \/ Killed(d)) /\ UNCHANGED <<clientVars, versionVars>>

LEMMA NextSplit ==
    ASSUME [Next]_vars
    PROVE  \/ \E c \in Clients : ClientStep(c)
           \/ \E d \in Daemons : Daemon(d)
           \/ UNCHANGED vars
BY DEF Next, Daemon

LEMMA InitIInv == Init => IInv
<1> SUFFICES ASSUME Init PROVE IInv
  OBVIOUS
<1>1. PICK now \in {"off", "serve"} \cup (IF First \in Mortal THEN {"exited"} ELSE {}) :
        /\ pc = [d \in Daemons |-> IF d = First THEN now ELSE "off"]
        /\ served = IF now = "off" THEN {} ELSE {First}
        /\ path \in IF now = "off" THEN {NoSocket, OtherFile} ELSE {First}
  BY DEF Init, DaemonInit
<1>2. now \in {"off", "serve"} \/ (now = "exited" /\ First \in Mortal)
  BY <1>1
<1>3. DaemonTyped
  BY <1>1, <1>2, DaemonsAssumption
  DEF Init, DaemonInit, DaemonTyped, DaemonPCs, Alive, Starting, Listens
<1>4. ClientTyped
  BY DEF Init, ClientTyped, Steps, Dialling
<1>5. PathHeld
  BY <1>1, <1>2, DaemonsAssumption DEF PathHeld
<1>6. Started
  BY <1>1, <1>2, DaemonsAssumption DEF Init, Started
<1>7. OldIsCompatible /\ RestartMatches
  BY DEF Init, OldIsCompatible, RestartMatches
<1> QED BY <1>3, <1>4, <1>5, <1>6, <1>7 DEF IInv

-----------------------------------------------------------------------------
(* Steps of a daemon.                                                      *)

\* What a daemon's step does to the variables it owns.
LEMMA DaemonEffect ==
    ASSUME IInv, NEW d \in Daemons, Daemon(d)
    PROVE  /\ DaemonTyped'
           /\ PathHeld'
           /\ asked' = asked
           /\ served \subseteq served'
           /\ \A e \in Daemons : pc[e] # "off" => pc'[e] # "off"
           /\ \A e \in served' \ served : pc'[e] # "off"
<1> USE DaemonsAssumption
    DEF IInv, DaemonTyped, PathHeld, Started, DaemonPCs, Alive, Starting, Listens, Goto
<1>1. CASE Lstat(d)        BY <1>1 DEF Lstat
<1>2. CASE Probe(d)        BY <1>2 DEF Probe, Reachable, Listening
<1>3. CASE RemoveStale(d)  BY <1>3 DEF RemoveStale
<1>4. CASE Bind(d)         BY <1>4 DEF Bind
<1>5. CASE Listen(d)       BY <1>5 DEF Listen
<1>6. CASE Chmod(d)        BY <1>6 DEF Chmod
<1>7. CASE Unlink(d)       BY <1>7 DEF Unlink
<1>8. CASE Close(d)        BY <1>8 DEF Close
<1>9. CASE Cleanup(d)      BY <1>9 DEF Cleanup
<1>10. CASE Killed(d)      BY <1>10 DEF Killed
<1> QED
  BY <1>1, <1>2, <1>3, <1>4, <1>5, <1>6, <1>7, <1>8, <1>9, <1>10 DEF Daemon, DaemonStep

LEMMA DaemonKeeps ==
    ASSUME IInv, NEW d \in Daemons, Daemon(d)
    PROVE  IInv'
<1>1. UNCHANGED <<step, conn, old, version, daemonVersion>>
  BY DEF Daemon, clientVars, versionVars
<1>2. ClientTyped'
  BY <1>1 DEF IInv, ClientTyped
<1>3. Started'
  BY <1>1, DaemonEffect DEF IInv, DaemonTyped, ClientTyped, Started
<1>4. OldIsCompatible' /\ RestartMatches'
  BY <1>1 DEF IInv, OldIsCompatible, RestartMatches, Mismatch, ShouldUpgrade, Compatible
<1> QED BY <1>2, <1>3, <1>4, DaemonEffect DEF IInv

-----------------------------------------------------------------------------
(* Steps of a client.                                                      *)

LEMMA Symmetric ==
    ASSUME NEW v, NEW w PROVE Compatible(v, w) <=> Compatible(w, v)
BY DEF Compatible

\* What one client's step changes for that client alone.
OthersKeep(c) ==
    \A b \in Clients \ {c} : step'[b] = step[b] /\ conn'[b] = conn[b] /\ old'[b] = old[b]

\* A client's step that leaves versions and daemons as they are and lets the
\* client know only of started and compatible daemons preserves the invariant.
LEMMA ClientMoves ==
    ASSUME IInv, NEW c \in Clients,
           UNCHANGED <<path, pc, served, version, daemonVersion>>,
           asked' \subseteq served, ClientTyped', OthersKeep(c),
           conn'[c] # NoDaemon => pc[conn'[c]] # "off",
           old'[c] # NoDaemon =>
               /\ old'[c] \in served
               /\ Compatible(version[c], daemonVersion[old'[c]]),
           step'[c] \in {"signal", "askStop"} => old'[c] # NoDaemon,
           step'[c] = "connected" =>
               /\ conn'[c] # NoDaemon
               /\ old'[c] # NoDaemon => ~ShouldUpgrade(version[c], daemonVersion[conn'[c]])
    PROVE  IInv'
<1> USE DEF IInv, OthersKeep
<1>1. DaemonTyped' /\ PathHeld'
  BY DEF DaemonTyped, PathHeld
<1>3. Started'
  BY DEF Started, ClientTyped
<1>4. OldIsCompatible'
  BY DEF OldIsCompatible, ClientTyped, Compatible
<1>5. RestartMatches'
  BY DEF RestartMatches, Mismatch, ClientTyped
<1> QED BY <1>1, <1>3, <1>4, <1>5

LEMMA SpawnKeeps ==
    ASSUME IInv, NEW c \in Clients, Spawn(c)
    PROVE  IInv'
<1> USE DEF IInv
<1>1. PICK d \in NotStarted, v \in Found(c) :
        /\ pc' = [pc EXCEPT ![d] = "lstat"]
        /\ daemonVersion' = [daemonVersion EXCEPT ![d] = v]
  BY DEF Spawn, Goto
<1>2. d \in Daemons /\ pc[d] = "off" /\ v \in Versions
  BY <1>1, ClientsAssumption DEF NotStarted, Found, ClientTyped
<1>3. /\ UNCHANGED <<path, asked, served, conn, old, version>>
      /\ step' = [step EXCEPT ![c] = "awaitReady"]
  BY DEF Spawn, Move
<1>4. DaemonTyped' /\ PathHeld'
  BY <1>1, <1>2, <1>3 DEF DaemonTyped, PathHeld, DaemonPCs, Alive, Starting
<1>5. ClientTyped'
  BY <1>1, <1>2, <1>3 DEF ClientTyped, Steps, Dialling
<1>6. Started'
  BY <1>1, <1>2, <1>3 DEF Started, ClientTyped, DaemonTyped
<1>7. OldIsCompatible'
  <2> SUFFICES ASSUME NEW b \in Clients
               PROVE  /\ step'[b] = "signal" => old'[b] # NoDaemon
                      /\ step'[b] = "askStop" => old'[b] # NoDaemon
                      /\ step'[b] = "connected" => conn'[b] # NoDaemon
                      /\ old'[b] # NoDaemon =>
                            Compatible(version'[b], daemonVersion'[old'[b]])
    BY DEF OldIsCompatible
  <2>1. old[b] # NoDaemon => daemonVersion'[old[b]] = daemonVersion[old[b]]
    BY <1>1, <1>2 DEF Started, ClientTyped
  <2> QED BY <1>3, <2>1 DEF OldIsCompatible, ClientTyped
<1>8. RestartMatches'
  <2> SUFFICES ASSUME NEW b \in Clients, step'[b] = "connected", old'[b] # NoDaemon
               PROVE  ~ShouldUpgrade(version'[b], daemonVersion'[conn'[b]])
    BY DEF RestartMatches, Mismatch
  <2>1. step[b] = "connected"
    BY <1>3 DEF ClientTyped
  <2>2. conn[b] \in Daemons /\ daemonVersion'[conn[b]] = daemonVersion[conn[b]]
    BY <1>1, <1>2, <2>1 DEF Started, ClientTyped, OldIsCompatible
  <2> QED BY <1>3, <2>1, <2>2 DEF RestartMatches, Mismatch
<1> QED BY <1>4, <1>5, <1>6, <1>7, <1>8

\* What the invariant says of client c before its step.
LEMMA Known ==
    ASSUME IInv, NEW c \in Clients
    PROVE  /\ conn[c] \in Daemons \cup {NoDaemon}
           /\ conn[c] # NoDaemon => pc[conn[c]] # "off"
           /\ old[c] # NoDaemon =>
                 /\ old[c] \in served
                 /\ Compatible(version[c], daemonVersion[old[c]])
           /\ step[c] \in {"signal", "askStop"} => old[c] # NoDaemon
           /\ asked \subseteq served
BY DEF IInv, DaemonTyped, ClientTyped, Started, OldIsCompatible

LEMMA ClientKeeps ==
    ASSUME IInv, NEW c \in Clients, ClientStep(c)
    PROVE  IInv'
<1> USE Known, ClientsAssumption
    DEF Move, HangUp, Ask, daemonVars, versionVars, OthersKeep, Dialling, Outcomes
<1>1. CASE Dial(c)
  <2>1. ClientTyped' /\ OthersKeep(c)
    BY <1>1 DEF IInv, ClientTyped, Steps, Dial, Reachable, PathHeld
  <2>2. UNCHANGED <<path, pc, served, version, daemonVersion>> /\ asked' \subseteq served
    BY <1>1 DEF Dial
  <2>3. /\ conn'[c] # NoDaemon => pc[conn'[c]] # "off"
        /\ old'[c] # NoDaemon =>
              /\ old'[c] \in served
              /\ Compatible(version[c], daemonVersion[old'[c]])
        /\ step'[c] \in {"signal", "askStop"} => old'[c] # NoDaemon
    BY <1>1 DEF IInv, ClientTyped, Dial, Reachable, PathHeld
  <2>4. step'[c] = "connected" =>
           /\ conn'[c] # NoDaemon
           /\ old'[c] # NoDaemon => ~ShouldUpgrade(version[c], daemonVersion[conn'[c]])
    BY <1>1 DEF IInv, ClientTyped, Dial, Reachable, PathHeld
  <2> QED BY <2>1, <2>2, <2>3, <2>4, ClientMoves
<1>2. CASE Refused(c)
  <2>1. ClientTyped' /\ OthersKeep(c)
    BY <1>2 DEF IInv, ClientTyped, Steps, Refused
  <2>2. UNCHANGED <<path, pc, served, version, daemonVersion>> /\ asked' \subseteq served
    BY <1>2 DEF Refused
  <2>3. /\ conn'[c] # NoDaemon => pc[conn'[c]] # "off"
        /\ old'[c] # NoDaemon =>
              /\ old'[c] \in served
              /\ Compatible(version[c], daemonVersion[old'[c]])
        /\ step'[c] \in {"signal", "askStop"} => old'[c] # NoDaemon
    BY <1>2 DEF IInv, ClientTyped, Refused
  <2>4. step'[c] = "connected" =>
           /\ conn'[c] # NoDaemon
           /\ old'[c] # NoDaemon => ~ShouldUpgrade(version[c], daemonVersion[conn'[c]])
    BY <1>2 DEF IInv, ClientTyped, Refused
  <2> QED BY <2>1, <2>2, <2>3, <2>4, ClientMoves
<1>3. CASE Broken(c)
  <2>1. ClientTyped' /\ OthersKeep(c)
    BY <1>3 DEF IInv, ClientTyped, Steps, Broken
  <2>2. UNCHANGED <<path, pc, served, version, daemonVersion>> /\ asked' \subseteq served
    BY <1>3 DEF Broken
  <2>3. /\ conn'[c] # NoDaemon => pc[conn'[c]] # "off"
        /\ old'[c] # NoDaemon =>
              /\ old'[c] \in served
              /\ Compatible(version[c], daemonVersion[old'[c]])
        /\ step'[c] \in {"signal", "askStop"} => old'[c] # NoDaemon
    BY <1>3 DEF IInv, ClientTyped, Broken
  <2>4. step'[c] = "connected" =>
           /\ conn'[c] # NoDaemon
           /\ old'[c] # NoDaemon => ~ShouldUpgrade(version[c], daemonVersion[conn'[c]])
    BY <1>3 DEF IInv, ClientTyped, Broken
  <2> QED BY <2>1, <2>2, <2>3, <2>4, ClientMoves
<1>4. CASE Hello(c)
  <2>1. ClientTyped' /\ OthersKeep(c)
    BY <1>4 DEF IInv, ClientTyped, Steps, Hello, Answers, Agree, Mismatch, DaemonTyped, Started
  <2>2. UNCHANGED <<path, pc, served, version, daemonVersion>> /\ asked' \subseteq served
    BY <1>4 DEF Hello, Answers, Agree, Mismatch
  <2>3. /\ conn'[c] # NoDaemon => pc[conn'[c]] # "off"
        /\ old'[c] # NoDaemon =>
              /\ old'[c] \in served
              /\ Compatible(version[c], daemonVersion[old'[c]])
        /\ step'[c] \in {"signal", "askStop"} => old'[c] # NoDaemon
    BY <1>4 DEF IInv, ClientTyped, Hello, Answers, Agree, Mismatch, DaemonTyped, Started
  <2>4. step'[c] = "connected" =>
           /\ conn'[c] # NoDaemon
           /\ old'[c] # NoDaemon => ~ShouldUpgrade(version[c], daemonVersion[conn'[c]])
    BY <1>4 DEF IInv, ClientTyped, Hello, Answers, Agree, Mismatch, DaemonTyped, Started
  <2> QED BY <2>1, <2>2, <2>3, <2>4, ClientMoves
<1>5. CASE AskStop(c)
  <2>1. ClientTyped' /\ OthersKeep(c)
    BY <1>5 DEF IInv, ClientTyped, Steps, AskStop, Answers
  <2>2. UNCHANGED <<path, pc, served, version, daemonVersion>> /\ asked' \subseteq served
    BY <1>5 DEF AskStop, Answers
  <2>3. /\ conn'[c] # NoDaemon => pc[conn'[c]] # "off"
        /\ old'[c] # NoDaemon =>
              /\ old'[c] \in served
              /\ Compatible(version[c], daemonVersion[old'[c]])
        /\ step'[c] \in {"signal", "askStop"} => old'[c] # NoDaemon
    BY <1>5 DEF IInv, ClientTyped, AskStop, Answers
  <2>4. step'[c] = "connected" =>
           /\ conn'[c] # NoDaemon
           /\ old'[c] # NoDaemon => ~ShouldUpgrade(version[c], daemonVersion[conn'[c]])
    BY <1>5 DEF IInv, ClientTyped, AskStop, Answers
  <2> QED BY <2>1, <2>2, <2>3, <2>4, ClientMoves
<1>6. CASE SignalOld(c)
  <2>1. ClientTyped' /\ OthersKeep(c)
    BY <1>6 DEF IInv, ClientTyped, Steps, SignalOld
  <2>2. UNCHANGED <<path, pc, served, version, daemonVersion>> /\ asked' \subseteq served
    BY <1>6 DEF SignalOld
  <2>3. /\ conn'[c] # NoDaemon => pc[conn'[c]] # "off"
        /\ old'[c] # NoDaemon =>
              /\ old'[c] \in served
              /\ Compatible(version[c], daemonVersion[old'[c]])
        /\ step'[c] \in {"signal", "askStop"} => old'[c] # NoDaemon
    BY <1>6 DEF IInv, ClientTyped, SignalOld
  <2>4. step'[c] = "connected" =>
           /\ conn'[c] # NoDaemon
           /\ old'[c] # NoDaemon => ~ShouldUpgrade(version[c], daemonVersion[conn'[c]])
    BY <1>6 DEF IInv, ClientTyped, SignalOld
  <2> QED BY <2>1, <2>2, <2>3, <2>4, ClientMoves
<1>7. CASE StillThere(c)
  <2>1. ClientTyped' /\ OthersKeep(c)
    BY <1>7 DEF IInv, ClientTyped, Steps, StillThere, Answers
  <2>2. UNCHANGED <<path, pc, served, version, daemonVersion>> /\ asked' \subseteq served
    BY <1>7 DEF StillThere, Answers
  <2>3. /\ conn'[c] # NoDaemon => pc[conn'[c]] # "off"
        /\ old'[c] # NoDaemon =>
              /\ old'[c] \in served
              /\ Compatible(version[c], daemonVersion[old'[c]])
        /\ step'[c] \in {"signal", "askStop"} => old'[c] # NoDaemon
    BY <1>7 DEF IInv, ClientTyped, StillThere, Answers
  <2>4. step'[c] = "connected" =>
           /\ conn'[c] # NoDaemon
           /\ old'[c] # NoDaemon => ~ShouldUpgrade(version[c], daemonVersion[conn'[c]])
    BY <1>7 DEF IInv, ClientTyped, StillThere, Answers
  <2> QED BY <2>1, <2>2, <2>3, <2>4, ClientMoves
<1>8. CASE Spawn(c)
  BY <1>8, SpawnKeeps
<1>9. CASE SpawnFails(c)
  <2>1. ClientTyped' /\ OthersKeep(c)
    BY <1>9 DEF IInv, ClientTyped, Steps, SpawnFails
  <2>2. UNCHANGED <<path, pc, served, version, daemonVersion>> /\ asked' \subseteq served
    BY <1>9 DEF SpawnFails
  <2>3. /\ conn'[c] # NoDaemon => pc[conn'[c]] # "off"
        /\ old'[c] # NoDaemon =>
              /\ old'[c] \in served
              /\ Compatible(version[c], daemonVersion[old'[c]])
        /\ step'[c] \in {"signal", "askStop"} => old'[c] # NoDaemon
    BY <1>9 DEF IInv, ClientTyped, SpawnFails
  <2>4. step'[c] = "connected" =>
           /\ conn'[c] # NoDaemon
           /\ old'[c] # NoDaemon => ~ShouldUpgrade(version[c], daemonVersion[conn'[c]])
    BY <1>9 DEF IInv, ClientTyped, SpawnFails
  <2> QED BY <2>1, <2>2, <2>3, <2>4, ClientMoves
<1>10. CASE Ready(c)
  <2>1. ClientTyped' /\ OthersKeep(c)
    BY <1>10 DEF IInv, ClientTyped, Steps, Ready, Answers, Mismatch, DaemonTyped, Started
  <2>2. UNCHANGED <<path, pc, served, version, daemonVersion>> /\ asked' \subseteq served
    BY <1>10 DEF Ready, Answers, Mismatch
  <2>3. /\ conn'[c] # NoDaemon => pc[conn'[c]] # "off"
        /\ old'[c] # NoDaemon =>
              /\ old'[c] \in served
              /\ Compatible(version[c], daemonVersion[old'[c]])
        /\ step'[c] \in {"signal", "askStop"} => old'[c] # NoDaemon
    BY <1>10 DEF IInv, ClientTyped, Ready, Answers, Mismatch, DaemonTyped, Started
  <2>4. step'[c] = "connected" =>
           /\ conn'[c] # NoDaemon
           /\ old'[c] # NoDaemon => ~ShouldUpgrade(version[c], daemonVersion[conn'[c]])
    BY <1>10 DEF IInv, ClientTyped, Ready, Answers, Mismatch, DaemonTyped, Started
  <2> QED BY <2>1, <2>2, <2>3, <2>4, ClientMoves
<1>11. CASE NotReady(c)
  <2>1. ClientTyped' /\ OthersKeep(c)
    BY <1>11 DEF IInv, ClientTyped, Steps, NotReady
  <2>2. UNCHANGED <<path, pc, served, version, daemonVersion>> /\ asked' \subseteq served
    BY <1>11 DEF NotReady
  <2>3. /\ conn'[c] # NoDaemon => pc[conn'[c]] # "off"
        /\ old'[c] # NoDaemon =>
              /\ old'[c] \in served
              /\ Compatible(version[c], daemonVersion[old'[c]])
        /\ step'[c] \in {"signal", "askStop"} => old'[c] # NoDaemon
    BY <1>11 DEF IInv, ClientTyped, NotReady
  <2>4. step'[c] = "connected" =>
           /\ conn'[c] # NoDaemon
           /\ old'[c] # NoDaemon => ~ShouldUpgrade(version[c], daemonVersion[conn'[c]])
    BY <1>11 DEF IInv, ClientTyped, NotReady
  <2> QED BY <2>1, <2>2, <2>3, <2>4, ClientMoves
<1>12. CASE NotStopped(c)
  <2>1. ClientTyped' /\ OthersKeep(c)
    BY <1>12 DEF IInv, ClientTyped, Steps, NotStopped
  <2>2. UNCHANGED <<path, pc, served, version, daemonVersion>> /\ asked' \subseteq served
    BY <1>12 DEF NotStopped
  <2>3. /\ conn'[c] # NoDaemon => pc[conn'[c]] # "off"
        /\ old'[c] # NoDaemon =>
              /\ old'[c] \in served
              /\ Compatible(version[c], daemonVersion[old'[c]])
        /\ step'[c] \in {"signal", "askStop"} => old'[c] # NoDaemon
    BY <1>12 DEF IInv, ClientTyped, NotStopped
  <2>4. step'[c] = "connected" =>
           /\ conn'[c] # NoDaemon
           /\ old'[c] # NoDaemon => ~ShouldUpgrade(version[c], daemonVersion[conn'[c]])
    BY <1>12 DEF IInv, ClientTyped, NotStopped
  <2> QED BY <2>1, <2>2, <2>3, <2>4, ClientMoves
<1> QED
  BY <1>1, <1>2, <1>3, <1>4, <1>5, <1>6, <1>7, <1>8, <1>9, <1>10, <1>11, <1>12 DEF ClientStep

LEMMA StutterKeeps == ASSUME IInv, UNCHANGED vars PROVE IInv'
BY DEF vars, daemonVars, clientVars, versionVars, IInv, DaemonTyped, ClientTyped, PathHeld,
       Started, OldIsCompatible, RestartMatches, Mismatch, ShouldUpgrade, Compatible

LEMMA StepKeeps == IInv /\ [Next]_vars => IInv'
BY NextSplit, ClientKeeps, DaemonKeeps, StutterKeeps

LEMMA Invariance == Spec => []IInv
BY InitIInv, StepKeeps, PTL DEF Spec

-----------------------------------------------------------------------------
(* What a waiting client waits for: the safety that the end of every       *)
(* bootstrap rests on.                                                     *)

\* Who is at the other end of a connection listens, or is past its listener,
\* where the connection breaks; a daemon that serves answers; and only where a
\* client dials or has ended is it connected.
ConnectionsEnd ==
    /\ \A c \in Clients :
          /\ conn[c] # NoDaemon => pc[conn[c]] \in Listens \cup {"cleanup", "exited"}
          /\ step[c] \in {"signal", "spawn"} => conn[c] = NoDaemon
    /\ \A d \in Daemons : pc[d] = "serve" => d \in served

\* A daemon that listens, or no longer does, never comes to start again.
LEMMA DaemonGoesOn ==
    ASSUME IInv, NEW d \in Daemons, Daemon(d)
    PROVE  /\ \A e \in Daemons :
                 pc[e] \in Listens \cup {"cleanup", "exited"} =>
                     pc'[e] \in Listens \cup {"cleanup", "exited"}
           /\ \A e \in Daemons : pc'[e] = "serve" => pc[e] = "serve" \/ e \in served'
<1> USE DEF IInv, DaemonTyped, Listens, Goto
<1>1. CASE Lstat(d)        BY <1>1 DEF Lstat
<1>2. CASE Probe(d)        BY <1>2 DEF Probe
<1>3. CASE RemoveStale(d)  BY <1>3 DEF RemoveStale
<1>4. CASE Bind(d)         BY <1>4 DEF Bind
<1>5. CASE Listen(d)       BY <1>5 DEF Listen
<1>6. CASE Chmod(d)        BY <1>6 DEF Chmod
<1>7. CASE Unlink(d)       BY <1>7 DEF Unlink
<1>8. CASE Close(d)        BY <1>8 DEF Close
<1>9. CASE Cleanup(d)      BY <1>9 DEF Cleanup
<1>10. CASE Killed(d)      BY <1>10 DEF Killed
<1> QED
  BY <1>1, <1>2, <1>3, <1>4, <1>5, <1>6, <1>7, <1>8, <1>9, <1>10 DEF Daemon, DaemonStep

\* A client connects only to a daemon that listens.
LEMMA ClientConnects ==
    ASSUME IInv, ConnectionsEnd, NEW c \in Clients, ClientStep(c)
    PROVE  /\ \A b \in Clients \ {c} : step'[b] = step[b] /\ conn'[b] = conn[b]
           /\ \/ conn'[c] = NoDaemon
              \/ conn'[c] = conn[c] /\ step'[c] \notin {"signal", "spawn"}
              \/ /\ conn'[c] \in Daemons /\ pc[conn'[c]] \in Listens
                 /\ step'[c] \notin {"signal", "spawn"}
<1> USE DEF IInv, ClientTyped, ConnectionsEnd, Move, HangUp, Dialling
<1>1. CASE Dial(c)        BY <1>1 DEF Dial, Reachable, Listening
<1>2. CASE Refused(c)     BY <1>2 DEF Refused
<1>3. CASE Broken(c)      BY <1>3 DEF Broken
<1>4. CASE Hello(c)       BY <1>4 DEF Hello, Answers
<1>5. CASE AskStop(c)     BY <1>5 DEF AskStop
<1>6. CASE SignalOld(c)   BY <1>6 DEF SignalOld
<1>7. CASE StillThere(c)  BY <1>7 DEF StillThere
<1>8. CASE Spawn(c)       BY <1>8 DEF Spawn
<1>9. CASE SpawnFails(c)  BY <1>9 DEF SpawnFails
<1>10. CASE Ready(c)      BY <1>10 DEF Ready, Answers
<1>11. CASE NotReady(c)   BY <1>11 DEF NotReady
<1>12. CASE NotStopped(c) BY <1>12 DEF NotStopped
<1> QED
  BY <1>1, <1>2, <1>3, <1>4, <1>5, <1>6, <1>7, <1>8, <1>9, <1>10, <1>11, <1>12 DEF ClientStep

\* A client's step moves no daemon but one that it starts.
LEMMA ClientMovesNoDaemon ==
    ASSUME IInv, NEW c \in Clients, ClientStep(c)
    PROVE  /\ \A e \in Daemons : pc[e] # "off" => pc'[e] = pc[e]
           /\ \A e \in Daemons : pc[e] = "off" => pc'[e] \in {"off", "lstat"}
           /\ served' = served
<1>1. CASE Spawn(c)
  <2>1. PICK d \in NotStarted : pc' = [pc EXCEPT ![d] = "lstat"]
    BY <1>1 DEF Spawn, Goto
  <2>2. served' = served
    BY <1>1 DEF Spawn
  <2> QED
    BY <2>1, <2>2 DEF NotStarted, IInv, DaemonTyped
<1>2. CASE ~Spawn(c)
  BY <1>2 DEF ClientStep, Dial, Refused, Broken, Hello, AskStop, SignalOld, StillThere, SpawnFails,
     Ready, NotReady, NotStopped, Ask, daemonVars
<1> QED
  BY <1>1, <1>2

LEMMA InitConnections == Init => ConnectionsEnd
BY DEF Init, DaemonInit, ConnectionsEnd

LEMMA StepConnections == IInv /\ ConnectionsEnd /\ [Next]_vars => ConnectionsEnd'
<1> SUFFICES ASSUME IInv, ConnectionsEnd, [Next]_vars PROVE ConnectionsEnd'
  OBVIOUS
<1>1. \A c \in Clients : conn[c] \in Daemons \cup {NoDaemon}
  BY DEF IInv, ClientTyped
<1>2. CASE \E d \in Daemons : Daemon(d)
  <2>1. PICK d \in Daemons : Daemon(d)
    BY <1>2
  <2>2. UNCHANGED <<step, conn>> /\ served \subseteq served'
    BY <2>1, DaemonEffect DEF Daemon, clientVars
  <2> QED
    BY <1>1, <2>1, <2>2, DaemonGoesOn DEF ConnectionsEnd
<1>3. CASE \E c \in Clients : ClientStep(c)
  <2>1. PICK c \in Clients : ClientStep(c)
    BY <1>3
  <2>2. \A b \in Clients :
            conn'[b] # NoDaemon =>
                conn'[b] \in Daemons /\ pc[conn'[b]] \in Listens \cup {"cleanup", "exited"}
    BY <1>1, <2>1, ClientConnects DEF ConnectionsEnd
  <2>3. \A b \in Clients : step'[b] \in {"signal", "spawn"} => conn'[b] = NoDaemon
    BY <2>1, ClientConnects DEF ConnectionsEnd
  <2>4. /\ \A e \in Daemons : pc[e] # "off" => pc'[e] = pc[e]
        /\ \A e \in Daemons : pc'[e] = "serve" => e \in served'
    BY <2>1, ClientMovesNoDaemon DEF ConnectionsEnd
  <2> QED
    BY <2>2, <2>3, <2>4 DEF ConnectionsEnd, Listens
<1>4. CASE UNCHANGED vars
  BY <1>4 DEF ConnectionsEnd, vars, daemonVars, clientVars
<1> QED
  BY <1>2, <1>3, <1>4, NextSplit

-----------------------------------------------------------------------------
(* Theorems.                                                               *)

\* Every reachable state is well typed.
THEOREM BootstrapTyped == Spec => []TypeOK
<1>1. IInv => TypeOK
  BY DEF IInv, DaemonTyped, ClientTyped, TypeOK
<1> QED BY <1>1, Invariance, PTL

\* A daemon that ends by itself leaves no socket of its own behind.
THEOREM NoSocketLeftBehindHolds == Spec => []NoSocketLeftBehind
<1>1. IInv => NoSocketLeftBehind
  BY DEF IInv, PathHeld, NoSocketLeftBehind
<1> QED BY <1>1, Invariance, PTL

\* A client that restarted the daemon is never connected to another version.
THEOREM RestartMatchesHolds == Spec => []RestartMatches
<1>1. IInv => RestartMatches
  BY DEF IInv
<1> QED BY <1>1, Invariance, PTL

\* Only a client that speaks a daemon's RPC version ever stops it.
THEOREM StoppedByItsOwnRPCHolds == Spec => StoppedByItsOwnRPC
<1>1. ASSUME IInv, [Next]_vars, NEW d \in asked' \ asked
      PROVE  \E c \in Clients : /\ step[c] # step'[c]
                                /\ Compatible(version[c], daemonVersion[d])
  <2>1. CASE \E e \in Daemons : Daemon(e)
    BY <1>1, <2>1, DaemonEffect
  <2>2. CASE UNCHANGED vars
    BY <1>1, <2>2 DEF vars, daemonVars
  <2>3. CASE \E c \in Clients : ClientStep(c)
    <3>1. PICK c \in Clients : ClientStep(c)
      BY <2>3
    <3>2. AskStop(c) \/ SignalOld(c)
      BY <1>1, <3>1 DEF ClientStep, Dial, Refused, Broken, Hello, StillThere, Spawn,
         SpawnFails, Ready, NotReady, NotStopped, daemonVars
    <3>3. CASE AskStop(c)
      <4>1. d = conn[c] /\ Agree(c)
        BY <1>1, <3>3 DEF AskStop, Ask, daemonVars
      <4>2. step[c] = "askStop" /\ step'[c] = "awaitExit"
        BY <1>1, <3>3, <4>1 DEF AskStop, Answers, Move, Ask, daemonVars, IInv, ClientTyped
      <4> QED BY <4>1, <4>2 DEF Agree
    <3>4. CASE SignalOld(c)
      <4>1. d = old[c] /\ step[c] = "signal" /\ step'[c] = "awaitExit"
        BY <1>1, <3>4 DEF SignalOld, Move, Ask, daemonVars, IInv, ClientTyped
      <4> QED BY <1>1, <4>1 DEF IInv, OldIsCompatible
    <3> QED BY <3>2, <3>3, <3>4
  <2> QED BY <1>1, <2>1, <2>2, <2>3, NextSplit
<1>2. IInv /\ [Next]_vars =>
        [\A d \in asked' \ asked :
           \E c \in Clients : /\ step[c] # step'[c]
                              /\ Compatible(version[c], daemonVersion[d])]_vars
  BY <1>1
<1> QED BY <1>2, Invariance, PTL DEF Spec, StoppedByItsOwnRPC

\* Whoever a starting client is connected to listens, or has stopped so that
\* the connection breaks, and a daemon whose accept loop runs has come to answer
\* (bootstrap.go, server.go): no client waits for a daemon that will not say
\* anything, however daemons come, are replaced and are killed.
THEOREM ConnectionsEndHolds == Spec => []ConnectionsEnd
BY InitConnections, StepConnections, Invariance, PTL DEF Spec

=============================================================================
