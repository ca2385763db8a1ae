-------------------------- MODULE TunnelLifecycle --------------------------
(***************************************************************************)
(* What proxy.Manager promises about the sshuttle tunnels it spawns,       *)
(* stated without locks, goroutines, timers or the singleflight group.     *)
(*                                                                         *)
(* A tunnel is started for one API server, is up once it outlived its      *)
(* startup window, is doomed once the manager has decided to end it, and   *)
(* is gone when the process has exited.  Two things are promised: a        *)
(* tunnel is never started for a server while another one is starting or   *)
(* up for it, and a tunnel that is up stays under the manager's control    *)
(* until it is doomed or gone.                                             *)
(***************************************************************************)
CONSTANTS Tunnels,   \* every tunnel that may ever be started
          Servers,   \* the API servers ("ip:port")
          NoServer   \* the server of a tunnel that was never started

VARIABLES stage, server

vars == <<stage, server>>

Stages == {"none", "starting", "up", "doomed", "gone"}

Init ==
  /\ stage = [p \in Tunnels |-> "none"]
  /\ server = [p \in Tunnels |-> NoServer]

\* A server is served while a tunnel is starting or up for it.
Served(s) == \E q \in Tunnels : stage[q] \in {"starting", "up"} /\ server[q] = s

Start(p, s) ==
  /\ stage[p] = "none"
  /\ ~Served(s)
  /\ stage' = [stage EXCEPT ![p] = "starting"]
  /\ server' = [server EXCEPT ![p] = s]

Establish(p) ==
  /\ stage[p] = "starting"
  /\ stage' = [stage EXCEPT ![p] = "up"]
  /\ UNCHANGED server

Doom(p) ==
  /\ stage[p] = "up"
  /\ stage' = [stage EXCEPT ![p] = "doomed"]
  /\ UNCHANGED server

Die(p) ==
  /\ stage[p] \in {"starting", "up", "doomed"}
  /\ stage' = [stage EXCEPT ![p] = "gone"]
  /\ UNCHANGED server

Next ==
  \E p \in Tunnels :
    \/ \E s \in Servers : Start(p, s)
    \/ Establish(p)
    \/ Doom(p)
    \/ Die(p)

Spec == Init /\ [][Next]_vars
=============================================================================
