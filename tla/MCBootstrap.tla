---------------------------- MODULE MCBootstrap ----------------------------
(* A smaller instance of Bootstrap for TLC.  The version of a daemon that  *)
(* does not serve shows nowhere (Spawn sets the one that it starts): of    *)
(* the initial states that differ in it alone, one is kept.  FirstVersions *)
(* bounds the version of a daemon that does serve at first.                *)
EXTENDS Bootstrap

CONSTANT FirstVersions

MCInit ==
    /\ Init
    /\ IF pc[First] = "serve"
       THEN daemonVersion[First] \in FirstVersions
       ELSE daemonVersion[First] = CHOOSE v \in FirstVersions : TRUE

MCFairSpec == MCInit /\ [][Next]_vars /\ Fairness
=============================================================================
