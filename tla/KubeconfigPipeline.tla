------------------------- MODULE KubeconfigPipeline -------------------------
(***************************************************************************)
(* How a tool call gets the admin kubeconfig of a workload cluster: the    *)
(* TTL cache and ToolServer.cachedKubeconfig for the daemon's own tools,   *)
(* capiProvider.managerForTarget on top of it for the embedded tools.      *)
(*                                                                         *)
(* The Secret that holds a cluster's kubeconfig is rotated now and then;   *)
(* rotations[k] lists the times at which that happened, so version v of    *)
(* the Secret was replaced at rotations[k][v + 1].  Of the proxy manager   *)
(* there is only when EnsureProxy last succeeded: how long the tunnel is   *)
(* up after that is the matter of ProcessProxy and SystemdProxy.           *)
(*                                                                         *)
(* Time passes in ticks.  No call takes more than CallTime ticks: the code *)
(* has no such deadline, and every answer is as stale as its call is slow. *)
(***************************************************************************)
EXTENDS Naturals, Sequences

CONSTANTS Calls,         \* tool calls, of one target each
          Clusters,      \* workload clusters, that is, kubeconfig cache keys
          None,          \* no cache entry, no manager, no cluster; not restricted
          Always,        \* restricted since before the daemon was started
          TTL,           \* kubeconfig_ttl, of cache entries and of tunnels
          CallTime,      \* bound on the duration of a call
          MaxTime,       \* bound on the clock
          MaxRotations   \* bound on the rotations of a Secret

ASSUME ConstantsAssumption ==
  /\ None # Always
  /\ {None, Always} \cap (Clusters \cup Nat) = {}
  /\ None \notin [version : Nat, expiresAt : Nat, proxied : BOOLEAN]
  /\ {TTL, CallTime, MaxTime, MaxRotations} \subseteq Nat

VARIABLES
  now,        \* the clock
  rotations,  \* when the Secret of a cluster was rotated
  restricted, \* since when its OpenStackCluster has allowedCIDRs and an endpoint
  hosted,     \* the clusters for which an sshuttleHost is configured
  store,      \* Store.Kubeconfig: version, expiresAt and proxied per cluster
  ensured,    \* when EnsureProxy last succeeded for a cluster
  managers,   \* capiProvider.managers: the version a manager was built from
  pc, kind, key,
  since,      \* when a call was made
  got         \* the version a call has in hand, or None

env == <<now, rotations, restricted, hosted>>
local == <<kind, key, since>>
vars == <<env, local, store, ensured, managers, pc, got>>

Init ==
  /\ now = 0
  /\ rotations = [k \in Clusters |-> <<>>]
  /\ restricted \in [Clusters -> {None, Always}]
  /\ hosted \in SUBSET Clusters
  /\ store = [k \in Clusters |-> None]
  /\ ensured = [k \in Clusters |-> None]
  /\ managers = [k \in Clusters |-> None]
  /\ pc = [c \in Calls |-> "idle"]
  /\ kind = [c \in Calls |-> "own"]
  /\ key = [c \in Calls |-> None]
  /\ since = [c \in Calls |-> 0]
  /\ got = [c \in Calls |-> None]

Version(k) == Len(rotations[k])

Busy(c) == pc[c] \notin {"idle", "ok", "err"}

Goto(c, l) == pc' = [pc EXCEPT ![c] = l]

-----------------------------------------------------------------------------
(* The environment.                                                        *)

Tick ==
  /\ now < MaxTime
  /\ \A c \in Calls : Busy(c) => now < since[c] + CallTime
  /\ now' = now + 1
  /\ UNCHANGED <<rotations, restricted, hosted, local, store, ensured, managers, pc, got>>

Rotate(k) ==
  /\ Version(k) < MaxRotations
  /\ rotations' = [rotations EXCEPT ![k] = Append(@, now)]
  /\ UNCHANGED <<now, restricted, hosted, local, store, ensured, managers, pc, got>>

\* A cluster that is being provisioned gets the endpoint that a tunnel is for.
Restrict(k) ==
  /\ restricted[k] = None
  /\ restricted' = [restricted EXCEPT ![k] = now]
  /\ UNCHANGED <<now, rotations, hosted, local, store, ensured, managers, pc, got>>

-----------------------------------------------------------------------------
(* cachedKubeconfig.                                                       *)

Begin(c, k, type) ==
  /\ pc[c] = "idle"
  /\ kind' = [kind EXCEPT ![c] = type]
  /\ key' = [key EXCEPT ![c] = k]
  /\ since' = [since EXCEPT ![c] = now]

\* ResolveTarget or execOneTarget for one of the daemon's own tools.
OwnCall(c, k) ==
  /\ Begin(c, k, "own")
  /\ Goto(c, "get")
  /\ UNCHANGED <<env, store, ensured, managers, got>>

\* An entry is live up to and including the instant it expires at.
Live(k) == store[k] # None /\ now <= store[k].expiresAt

\* TTLCache.Get; a hit of a proxied cluster goes on to refresh its tunnel.
CacheHit(c) ==
  /\ pc[c] = "get"
  /\ Live(key[c])
  /\ got' = [got EXCEPT ![c] = store[key[c]].version]
  /\ Goto(c, IF store[key[c]].proxied THEN "refresh" ELSE "return")
  /\ UNCHANGED <<env, local, store, ensured, managers>>

\* An expired entry is deleted on the way.
CacheMiss(c) ==
  /\ pc[c] = "get"
  /\ ~Live(key[c])
  /\ store' = [store EXCEPT ![key[c]] = None]
  /\ Goto(c, "fetch")
  /\ UNCHANGED <<env, local, ensured, managers, got>>

\* FetchWorkloadKubeconfig and the transforms.  Without an sshuttleHost nobody
\* asks whether the cluster needs a tunnel.
Fetch(c) ==
  /\ pc[c] = "fetch"
  /\ got' = [got EXCEPT ![c] = Version(key[c])]
  /\ Goto(c, IF key[c] \in hosted THEN "info" ELSE "set")
  /\ UNCHANGED <<env, local, store, ensured, managers>>

\* FetchAPIServerInfo says whether the cluster needs a tunnel, as of now.
FetchAPIServerInfo(c) ==
  /\ pc[c] = "info"
  /\ Goto(c, IF restricted[key[c]] = None THEN "set" ELSE "proxy")
  /\ UNCHANGED <<env, local, store, ensured, managers, got>>

\* Mutant: the tunnel of a cached kubeconfig is taken for granted.
EnsureProxyOnMissOnly(c, from, to) ==
  /\ pc[c] = from
  /\ ensured' = IF from = "proxy" THEN [ensured EXCEPT ![key[c]] = now] ELSE ensured
  /\ Goto(c, to)
  /\ UNCHANGED <<env, local, store, managers, got>>

\* proxy.Manager.EnsureProxy starts the tunnel or extends it, and says so; the
\* tunnel may end before the TTL is over, or be ending already.
EnsureProxy(c, from, to) ==
  /\ pc[c] = from
  /\ ensured' = [ensured EXCEPT ![key[c]] = now]
  /\ Goto(c, to)
  /\ UNCHANGED <<env, local, store, managers, got>>

\* The call is over and its variables are gone.
Ends(c, l) ==
  /\ Goto(c, l)
  /\ since' = [since EXCEPT ![c] = 0]
  /\ got' = [got EXCEPT ![c] = None]
  /\ UNCHANGED <<kind, key>>

\* Any step that asks somebody else may fail, and fails the call.
CallFails(c) ==
  /\ pc[c] \in {"fetch", "info", "refresh", "proxy", "build"}
  /\ Ends(c, "err")
  /\ UNCHANGED <<env, store, ensured, managers>>

\* Mutant: an entry that is live keeps its value and gets a new TTL.
CacheKeep(c) ==
  /\ pc[c] \in {"set", "record"}
  /\ store' = [store EXCEPT ![key[c]] =
       [version |-> IF @ = None THEN got[c] ELSE @.version,
        expiresAt |-> now + TTL, proxied |-> pc[c] = "record"]]
  /\ Goto(c, "return")
  /\ UNCHANGED <<env, local, ensured, managers, got>>

\* Mutant: the TTL has the wrong sign.
CacheSetBackwards(c) ==
  /\ pc[c] \in {"set", "record"}
  /\ store' = [store EXCEPT ![key[c]] =
       [version |-> got[c], expiresAt |-> now - TTL, proxied |-> pc[c] = "record"]]
  /\ Goto(c, "return")
  /\ UNCHANGED <<env, local, ensured, managers, got>>

\* TTLCache.Set: the last writer wins, also over an entry with a later version.
\* The entry records whether there is a tunnel to refresh.
CacheSet(c) ==
  /\ pc[c] \in {"set", "record"}
  /\ store' = [store EXCEPT ![key[c]] =
       [version |-> got[c], expiresAt |-> now + TTL, proxied |-> pc[c] = "record"]]
  /\ Goto(c, "return")
  /\ UNCHANGED <<env, local, ensured, managers, got>>

\* The kubeconfig is there; an embedded tool still needs a manager for it.
Return(c) ==
  /\ pc[c] = "return"
  /\ \/ kind[c] = "own" /\ Ends(c, "ok")
     \/ kind[c] = "embedded" /\ Goto(c, "build") /\ UNCHANGED <<local, got>>
  /\ UNCHANGED <<env, store, ensured, managers>>

-----------------------------------------------------------------------------
(* managerForTarget.                                                       *)

\* A manager that exists is used as it is.
EmbeddedCall(c, k) ==
  /\ Begin(c, k, "embedded")
  /\ Goto(c, IF managers[k] = None THEN "get" ELSE "ok")
  /\ UNCHANGED <<env, store, ensured, managers, got>>

\* The last manager built for a target replaces the others.
BuildManager(c) ==
  /\ pc[c] = "build"
  /\ managers' = [managers EXCEPT ![key[c]] = got[c]]
  /\ Ends(c, "ok")
  /\ UNCHANGED <<env, store, ensured>>

Next ==
  \/ Tick
  \/ \E k \in Clusters : Rotate(k) \/ Restrict(k)
  \/ \E c \in Calls :
       \/ \E k \in Clusters : OwnCall(c, k) \/ EmbeddedCall(c, k)
       \/ CacheHit(c) \/ CacheMiss(c) \/ Fetch(c) \/ FetchAPIServerInfo(c)
       \/ EnsureProxy(c, "refresh", "return") \/ EnsureProxy(c, "proxy", "record")
       \/ CallFails(c) \/ CacheSet(c) \/ Return(c) \/ BuildManager(c)

Spec == Init /\ [][Next]_vars

-----------------------------------------------------------------------------
(* Properties.                                                             *)

Versions == 0..MaxRotations

\* The caches, the clock and the calls have their type.
TypeOK ==
  /\ now \in 0..MaxTime
  /\ rotations \in [Clusters -> Seq(0..MaxTime)]
  /\ restricted \in [Clusters -> 0..MaxTime \cup {None, Always}]
  /\ hosted \in SUBSET Clusters
  /\ store \in [Clusters -> {None} \cup
       [version : Versions, expiresAt : Nat, proxied : BOOLEAN]]
  /\ ensured \in [Clusters -> 0..MaxTime \cup {None}]
  /\ managers \in [Clusters -> Versions \cup {None}]
  /\ pc \in [Calls -> {"idle", "get", "refresh", "fetch", "info", "proxy", "set",
                       "record", "return", "build", "ok", "err"}]
  /\ kind \in [Calls -> {"own", "embedded"}]
  /\ key \in [Calls -> Clusters \cup {None}]
  /\ since \in [Calls -> 0..MaxTime]
  /\ got \in [Calls -> Versions \cup {None}]

\* Version v of k's Secret was the current one not longer than d ago.
CurrentWithin(k, v, d) == v = Version(k) \/ now <= rotations[k][v + 1] + d

\* A call of type y is answered in this step.
Answers(c, y) == pc'[c] = "ok" /\ pc[c] # "ok" /\ kind'[c] = y

\* A kubeconfig handed to one of the daemon's own tools was the current one not
\* longer ago than the TTL and the durations of two calls, the one that cached it
\* and the one that is answered, also when calls that fetched different versions
\* race to fill the cache.  The same goes for the kubeconfig a manager for the
\* embedded tools is built from, also when several calls build one for the same
\* target and the last replaces the others.  (The manager is then kept.)
KubeconfigsAreFresh ==
  [][/\ \A c \in Calls :
         Answers(c, "own") => CurrentWithin(key[c], got[c], TTL + 2 * CallTime)
     /\ \A k \in Clusters : managers'[k] # managers[k]
         => CurrentWithin(k, managers'[k], TTL + 2 * CallTime)]_vars

\* k has a host to tunnel through, and has needed a tunnel for longer than the
\* cache may not know of it.
NeedsTunnel(k) ==
  /\ k \in hosted
  /\ \/ restricted[k] = Always
     \/ restricted[k] \notin {None, Always} /\ now > restricted[k] + TTL + 2 * CallTime

\* EnsureProxy has succeeded for k at t or later.
EnsuredSince(k, t) == ensured[k] # None /\ t <= ensured[k]

\* A kubeconfig that needs a tunnel is handed to one of the daemon's own tools
\* only if EnsureProxy has succeeded for the cluster since the call was made, on
\* a cache hit as well as on a miss, never on the strength of a success before
\* it.  A cluster that was cached before it got its endpoint is caught up with
\* when the entry has expired.  (That EnsureProxy has succeeded is all there is:
\* the tunnel may have ended again when the answer is used.)
AnswersAreTunneled ==
  [][\A c \in Calls :
       Answers(c, "own") /\ NeedsTunnel(key[c]) => EnsuredSince(key[c], since[c])]_vars

\* TargetResolver's comment: for the embedded tools a target is fetched, cached
\* and tunneled exactly like for our own.  A tunnel that the daemon spawns itself
\* is not kept for longer than the TTL after EnsureProxy has succeeded, so the
\* least that follows is a success within the TTL.
EmbeddedIsTunneled ==
  [][\A c \in Calls :
       CallTime <= TTL /\ Answers(c, "embedded") /\ NeedsTunnel(key'[c])
         => ensured[key'[c]] # None /\ now <= ensured[key'[c]] + TTL]_vars
=============================================================================
