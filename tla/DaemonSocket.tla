---------------------------- MODULE DaemonSocket ----------------------------
(***************************************************************************)
(* Daemons and the one file they meet at: the unix socket path.  Run and   *)
(* removeStaleSocket of src/internal/daemon/server.go, from the start of a *)
(* process to its exit, one action per system call on the path.            *)
(*                                                                         *)
(* A socket file is named by the daemon that bound it.  It outlives its    *)
(* daemon when that is killed, and a daemon outlives its file when another *)
(* process removes the path.                                               *)
(***************************************************************************)
CONSTANTS
    Daemons,      \* daemon processes, running or not yet started
    First,        \* the one an earlier client may have left behind
    Mortal,       \* the daemons that may be killed (SIGKILL, power)
    NoSocket,     \* the path does not exist
    OtherFile     \* the path is something that is no socket

ASSUME DaemonsAssumption ==
    /\ First \in Daemons
    /\ Mortal \subseteq Daemons
    /\ NoSocket \notin Daemons
    /\ OtherFile \notin Daemons \cup {NoSocket}

VARIABLES
    path,     \* what the socket path leads to
    pc,       \* per daemon, the call it makes next
    asked,    \* daemons that have been asked to stop, by request or signal
    served    \* daemons whose accept loop has run

daemonVars == <<path, pc, asked, served>>

\* "abort" and "serve" lead to listener.Close, which unlinks the path and
\* closes the descriptor ("close"); "cleanup" is the deferred os.Remove.
Starting  == {"lstat", "dial", "remove", "bind"}
Listens   == {"chmod", "serve", "abort", "close"}
Alive     == Starting \cup {"listen"} \cup Listens \cup {"cleanup"}
DaemonPCs == Alive \cup {"off", "exited"}

Listening(d) == pc[d] \in Listens
Reachable    == path \in Daemons /\ Listening(path)

Goto(d, next) == pc' = [pc EXCEPT ![d] = next]

-----------------------------------------------------------------------------
(* removeStaleSocket.                                                      *)

\* Mutant: an existing socket file is not looked into.
LstatTrusting(d) ==
    /\ pc[d] = "lstat"
    /\ Goto(d, IF path = OtherFile THEN "exited" ELSE "bind")
    /\ UNCHANGED <<path, asked, served>>

Lstat(d) ==
    /\ pc[d] = "lstat"
    /\ Goto(d, CASE path = NoSocket  -> "bind"
                 [] path = OtherFile -> "exited"
                 [] path \in Daemons -> "dial")
    /\ UNCHANGED <<path, asked, served>>

\* "daemon already running" when the dial succeeds.
Probe(d) ==
    /\ pc[d] = "dial"
    /\ Goto(d, IF Reachable THEN "exited" ELSE "remove")
    /\ UNCHANGED <<path, asked, served>>

\* Removes what the path leads to by now, not what was dialled.
RemoveStale(d) ==
    /\ pc[d] = "remove"
    /\ path' = NoSocket
    /\ Goto(d, "bind")
    /\ UNCHANGED <<asked, served>>

-----------------------------------------------------------------------------
(* net.Listen is two system calls, and a dial in between is refused.       *)

Bind(d) ==
    /\ pc[d] = "bind"
    /\ IF path = NoSocket
       THEN path' = d /\ Goto(d, "listen")
       ELSE Goto(d, "exited") /\ UNCHANGED path
    /\ UNCHANGED <<asked, served>>

Listen(d) ==
    /\ pc[d] = "listen"
    /\ Goto(d, "chmod")
    /\ UNCHANGED <<path, asked, served>>

\* Chmod fails when the path has been removed meanwhile.
Chmod(d) ==
    /\ pc[d] = "chmod"
    /\ IF path = NoSocket
       THEN Goto(d, "abort") /\ UNCHANGED served
       ELSE Goto(d, "serve") /\ served' = served \cup {d}
    /\ UNCHANGED <<path, asked>>

-----------------------------------------------------------------------------
(* Shutdown: listener.Close, then Run returns through its deferred calls.  *)

\* Mutant: the process exits on the request, past its deferred calls.
UnlinkNot(d) ==
    /\ pc[d] = "abort" \/ (pc[d] = "serve" /\ d \in asked)
    /\ Goto(d, "exited")
    /\ UNCHANGED <<path, asked, served>>

\* The unlink, like the os.Remove below, does not ask whose file it is.
Unlink(d) ==
    /\ pc[d] = "abort" \/ (pc[d] = "serve" /\ d \in asked)
    /\ path' = NoSocket
    /\ Goto(d, "close")
    /\ UNCHANGED <<asked, served>>

\* Mutant: the accept loop takes the closed listener for a transient error.
CloseKeepsLooping(d) ==
    /\ pc[d] = "close"
    /\ UNCHANGED daemonVars

Close(d) ==
    /\ pc[d] = "close"
    /\ Goto(d, "cleanup")
    /\ UNCHANGED <<path, asked, served>>

Cleanup(d) ==
    /\ pc[d] = "cleanup"
    /\ path' = NoSocket
    /\ Goto(d, "exited")
    /\ UNCHANGED <<asked, served>>

\* The process is killed; its socket file stays.
Killed(d) ==
    /\ d \in Mortal
    /\ pc[d] \in Alive
    /\ Goto(d, "exited")
    /\ UNCHANGED <<path, asked, served>>

-----------------------------------------------------------------------------
DaemonStep(d) ==
    \/ Lstat(d) \/ Probe(d) \/ RemoveStale(d)
    \/ Bind(d) \/ Listen(d) \/ Chmod(d)
    \/ Unlink(d) \/ Close(d) \/ Cleanup(d)

\* At the start the first daemon is running, or was killed and has left its
\* socket file, or there is none.
DaemonInit ==
    /\ asked = {}
    /\ \E now \in {"off", "serve"} \cup (IF First \in Mortal THEN {"exited"} ELSE {}) :
        /\ pc = [d \in Daemons |-> IF d = First THEN now ELSE "off"]
        /\ served = IF now = "off" THEN {} ELSE {First}
        /\ path \in IF now = "off" THEN {NoSocket, OtherFile} ELSE {First}

=============================================================================
