-------------------------- MODULE SessionRegister --------------------------
(***************************************************************************)
(* What the session file is for the k11s processes: one register.  A       *)
(* client loads it once, works with what it got, and saves what its user   *)
(* changes; a load and a save take effect at one moment, a client that is  *)
(* told of the end of one has had its effect, and one that gave up may or  *)
(* may not.  There are no daemons, files, crashes or full disks here.      *)
(*                                                                         *)
(* Two daemons that save at once (shared) are the end of the promise.      *)
(***************************************************************************)
CONSTANTS
    Clients, Sessions,
    Default,
    Untidy,      \* it is stored as the default
    None

VARIABLES
    stored,
    session,     \* what a client works with
    calling,     \* its call: none, load or save
    held,        \* what its call has loaded or saved, None before
    failed,      \* clients that have given up
    shared

vars == <<stored, session, calling, held, failed, shared>>

Normal(s) == IF s = Untidy THEN Default ELSE s

Init ==
    /\ stored = Default
    /\ session = [c \in Clients |-> Default]
    /\ calling = [c \in Clients |-> "load"]
    /\ held = [c \in Clients |-> None]
    /\ failed = {}
    /\ shared = FALSE

Load(c) ==
    /\ calling[c] = "load" /\ held[c] = None
    /\ held' = [held EXCEPT ![c] = stored]
    /\ UNCHANGED <<stored, session, calling, failed>>

Save(c) ==
    /\ calling[c] = "save" /\ held[c] = None
    /\ stored' = Normal(session[c])
    /\ held' = [held EXCEPT ![c] = Normal(session[c])]
    /\ UNCHANGED <<session, calling, failed>>

Ends(c) ==
    /\ calling' = [calling EXCEPT ![c] = "none"]
    /\ held' = [held EXCEPT ![c] = None]

\* A client is told that its call has ended.
Return(c) ==
    /\ held[c] # None
    /\ session' = IF calling[c] = "load" THEN [session EXCEPT ![c] = held[c]] ELSE session
    /\ Ends(c)
    /\ UNCHANGED <<stored, failed>>

GiveUp(c) ==
    /\ failed' = failed \cup {c}
    /\ Ends(c)
    /\ UNCHANGED <<stored, session>>

\* What the user changes is saved: a session has no other way to change.
Change(c) ==
    /\ calling[c] = "none" /\ c \notin failed
    /\ \E s \in Sessions : session' = [session EXCEPT ![c] = s]
    /\ calling' = [calling EXCEPT ![c] = "save"]
    /\ UNCHANGED <<stored, held, failed>>

Next == \E c \in Clients : Load(c) \/ Save(c) \/ Return(c) \/ GiveUp(c) \/ Change(c)

Spec == Init /\ [][shared' = TRUE \/ (Next /\ UNCHANGED shared)]_vars
=============================================================================
