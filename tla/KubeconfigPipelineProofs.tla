---------------------- MODULE KubeconfigPipelineProofs ----------------------
(***************************************************************************)
(* Proofs about KubeconfigPipeline, for every number of calls and clusters *)
(* and for every TTL, duration of a call and history of rotations.         *)
(*                                                                         *)
(* The two action properties bound an age at the moment of an answer.  The *)
(* invariant carries each bound from where it arises to the answer: from   *)
(* the Secret to a call, from that call to the cache, from the cache to    *)
(* another call.                                                           *)
(***************************************************************************)
EXTENDS KubeconfigPipeline, TLAPS

\* Version v of k's Secret is current or was replaced at t - d or later.
NotReplacedBefore(k, v, t, d) == v = Version(k) \/ t <= rotations[k][v + 1] + d

\* k has no need of a tunnel, no host for one, or has needed it only since t - d
\* or later.
NotRestrictedBefore(k, t, d) ==
  \/ k \notin hosted
  \/ restricted[k] = None
  \/ restricted[k] \in Nat /\ t <= restricted[k] + d

\* A call knows its cluster and is no older than CallTime; only an embedded tool
\* builds a manager.
CallInv ==
  \A c \in Calls :
    /\ Busy(c) => key[c] \in Clusters /\ since[c] <= now /\ now <= since[c] + CallTime
    /\ pc[c] = "build" => kind[c] = "embedded"

\* What was written down was written no later than now.
ClockInv ==
  \A k \in Clusters :
    /\ Version(k) <= MaxRotations
    /\ \A i \in 1 .. Version(k) : rotations[k][i] <= now
    /\ ensured[k] # None => ensured[k] <= now

\* A cache entry expires before its version is too old, and an entry without a
\* tunnel before the tunnel has been needed for too long.
StoreInv ==
  \A k \in Clusters : store[k] # None =>
    /\ store[k].expiresAt <= now + TTL
    /\ store[k].version <= Version(k)
    /\ NotReplacedBefore(k, store[k].version, store[k].expiresAt, TTL + CallTime)
    /\ ~store[k].proxied => NotRestrictedBefore(k, store[k].expiresAt, TTL + CallTime)

\* A version that a call has fetched itself was current during the call; one that
\* it has from the cache is as old as an entry may be.
GotInv ==
  \A c \in Calls :
    /\ pc[c] \in {"info", "proxy", "set", "record", "refresh", "return", "build"} =>
         got[c] \in Nat /\ got[c] <= Version(key[c])
    /\ pc[c] \in {"info", "proxy", "set", "record"} =>
         NotReplacedBefore(key[c], got[c], since[c], 0)
    /\ pc[c] \in {"refresh", "return", "build"} =>
         NotReplacedBefore(key[c], got[c], since[c], TTL + CallTime)

\* A call that records or returns has ensured the tunnel since it was made, or has
\* seen no need of it, itself or through the cache.
TunnelInv ==
  \A c \in Calls :
    /\ pc[c] = "set" => NotRestrictedBefore(key[c], since[c], 0)
    /\ pc[c] = "record" => EnsuredSince(key[c], since[c])
    /\ pc[c] = "return" =>
         \/ EnsuredSince(key[c], since[c])
         \/ NotRestrictedBefore(key[c], since[c], TTL + CallTime)

PipelineInv == TypeOK /\ CallInv /\ ClockInv /\ StoreInv /\ GotInv /\ TunnelInv

-----------------------------------------------------------------------------
(* Every action preserves the invariant.                                   *)

\* The constants, one by one.
LEMMA Constants ==
  /\ TTL \in Nat /\ CallTime \in Nat /\ MaxTime \in Nat /\ MaxRotations \in Nat
  /\ None # Always /\ None \notin Nat /\ Always \notin Nat /\ None \notin Clusters
  /\ None \notin [version : Versions, expiresAt : Nat, proxied : BOOLEAN]
<1>1. /\ TTL \in Nat /\ CallTime \in Nat /\ MaxTime \in Nat /\ MaxRotations \in Nat
      /\ None # Always /\ None \notin Nat /\ Always \notin Nat /\ None \notin Clusters
  BY ConstantsAssumption
<1>2. [version : Versions, expiresAt : Nat, proxied : BOOLEAN]
        \subseteq [version : Nat, expiresAt : Nat, proxied : BOOLEAN]
  BY <1>1 DEF Versions
<1> QED
  BY <1>1, <1>2, ConstantsAssumption

\* Nothing is cached, no tunnel is up and no call has been made.
LEMMA InitInv == Init => PipelineInv
  BY Constants DEF Init, PipelineInv, TypeOK, CallInv, ClockInv, StoreInv, GotInv,
     TunnelInv, Busy, Version, Versions

\* The version that is replaced now was current until now: a rotation keeps every
\* bound that is not in the future.
LEMMA RotateKeepsBound ==
  ASSUME PipelineInv, NEW k \in Clusters, Rotate(k),
         NEW j \in Clusters, NEW v \in Nat, NEW t \in Nat, NEW d \in Nat,
         NotReplacedBefore(j, v, t, d), v <= Version(j), t <= now + d
  PROVE  NotReplacedBefore(j, v, t, d)'
  BY DEF PipelineInv, TypeOK, Rotate, NotReplacedBefore, Version

\* What the type invariant says of times and versions.
LEMMA Numbers ==
  ASSUME PipelineInv
  PROVE  /\ now \in Nat
         /\ \A c \in Calls : since[c] \in Nat
         /\ \A k \in Clusters : /\ rotations[k] \in Seq(Nat) /\ Version(k) \in Nat
                                /\ ensured[k] # None => ensured[k] \in Nat
                                /\ store[k] # None =>
                                     /\ store[k].version \in Nat /\ store[k].expiresAt \in Nat
                                     /\ store[k].proxied \in BOOLEAN
<1>1. now \in Nat /\ \A c \in Calls : since[c] \in Nat
  BY Constants DEF PipelineInv, TypeOK
<1>2. \A k \in Clusters : rotations[k] \in Seq(Nat) /\ Version(k) \in Nat
  BY Constants DEF PipelineInv, TypeOK, Version
<1>3. \A k \in Clusters : ensured[k] # None => ensured[k] \in Nat
  BY Constants DEF PipelineInv, TypeOK
<1>4. \A k \in Clusters : store[k] # None =>
        store[k] \in [version : Nat, expiresAt : Nat, proxied : BOOLEAN]
  BY Constants DEF PipelineInv, TypeOK, Versions
<1> QED
  BY <1>1, <1>2, <1>3, <1>4

\* What is known of a call that is on its way.
LEMMA OnItsWay ==
  ASSUME PipelineInv, NEW c \in Calls, pc[c] \notin {"idle", "ok", "err"}
  PROVE  key[c] \in Clusters /\ since[c] <= now /\ now <= since[c] + CallTime
  BY DEF PipelineInv, CallInv, Busy

\* What is known of an entry that TTLCache.Get returns.
LEMMA Hit ==
  ASSUME PipelineInv, NEW c \in Calls, CacheHit(c)
  PROVE  /\ store[key[c]] # None
         /\ since[c] <= store[key[c]].expiresAt
<1>1. /\ key[c] \in Clusters /\ since[c] <= now
  BY OnItsWay DEF CacheHit
<1>2. store[key[c]] # None /\ now <= store[key[c]].expiresAt
  BY DEF CacheHit, Live
<1> QED
  BY <1>1, <1>2, Numbers

\* Time passes, for calls that are not due yet.
LEMMA TickInv ==
  ASSUME PipelineInv, Tick
  PROVE  PipelineInv'
<1>1. TypeOK'
  BY Constants DEF PipelineInv, TypeOK, ClockInv, CallInv, Busy, GotInv, Tick, env,
                   local, Versions
<1>2. CallInv'
  BY Constants DEF PipelineInv, TypeOK, CallInv, Tick, env, local, Busy
<1>3. ClockInv'
  BY Constants DEF PipelineInv, TypeOK, ClockInv, CallInv, Busy, Tick, env, local,
                   Version
<1>4. StoreInv'
  BY Constants DEF PipelineInv, TypeOK, StoreInv, ClockInv, CallInv, Busy, GotInv,
                   TunnelInv, Tick, env, local, NotReplacedBefore, Version,
                   NotRestrictedBefore, Versions
<1>5. GotInv'
  BY Constants DEF PipelineInv, TypeOK, GotInv, CallInv, Busy, ClockInv, StoreInv,
                   Tick, env, local, NotReplacedBefore, Version, Versions
<1>6. TunnelInv'
  BY Constants DEF PipelineInv, TypeOK, TunnelInv, CallInv, Busy, ClockInv, StoreInv,
                   Tick, env, local, NotRestrictedBefore, EnsuredSince
<1> QED
  BY <1>1, <1>2, <1>3, <1>4, <1>5, <1>6 DEF PipelineInv

\* The version that is replaced now was current until now.
LEMMA RotateInv ==
  ASSUME PipelineInv, NEW k \in Clusters, Rotate(k)
  PROVE  PipelineInv'
<1>1. TypeOK'
  BY Constants DEF PipelineInv, TypeOK, ClockInv, CallInv, Busy, GotInv, Rotate, env,
                   local, Versions
<1>2. CallInv'
  BY Constants DEF PipelineInv, TypeOK, CallInv, Rotate, env, local, Busy
<1>3. ClockInv'
  BY Constants DEF PipelineInv, TypeOK, ClockInv, CallInv, Busy, Rotate, env, local,
                   Version
<1>4. StoreInv'
  <2>1. UNCHANGED <<now, restricted, hosted, store>>
    BY DEF Rotate
  <2>2. \A j \in Clusters : Version(j) <= Version(j)'
    BY DEF PipelineInv, TypeOK, Version, Rotate
  <2> SUFFICES ASSUME NEW j \in Clusters, store[j] # None
               PROVE  /\ store[j].version <= Version(j)'
                      /\ NotReplacedBefore(j, store[j].version, store[j].expiresAt,
                                           TTL + CallTime)'
    BY <2>1 DEF PipelineInv, StoreInv, NotRestrictedBefore
  <2>3. /\ store[j].version \in Nat /\ store[j].expiresAt \in Nat /\ Version(j) \in Nat
        /\ TTL + CallTime \in Nat /\ now \in Nat
    BY Numbers, Constants
  <2>4. /\ store[j].version <= Version(j) /\ store[j].expiresAt <= now + TTL
        /\ NotReplacedBefore(j, store[j].version, store[j].expiresAt, TTL + CallTime)
    BY DEF PipelineInv, StoreInv
  <2>5. store[j].expiresAt <= now + (TTL + CallTime)
    BY <2>3, <2>4, Constants
  <2>6. store[j].version <= Version(j)'
    BY <2>2, <2>3, <2>4 DEF PipelineInv, TypeOK, Version, Rotate
  <2>7. \A v, t, d \in Nat :
          NotReplacedBefore(j, v, t, d) /\ v <= Version(j) /\ t <= now + d
            => v = Len(rotations'[j]) \/ t <= rotations'[j][v + 1] + d
    BY RotateKeepsBound DEF NotReplacedBefore, Version
  <2> QED
    BY <2>1, <2>3, <2>4, <2>5, <2>6, <2>7 DEF NotReplacedBefore, Version
<1>5. GotInv'
  <2>1. UNCHANGED <<now, pc, key, got, since>>
    BY DEF Rotate, local
  <2>2. \A j \in Clusters : /\ Version(j) \in Nat /\ Version(j)' \in Nat
                              /\ Version(j) <= Version(j)'
    BY DEF PipelineInv, TypeOK, Version, Rotate
  <2>3. \A c \in Calls :
          pc[c] \in {"info", "proxy", "set", "record", "refresh", "return", "build"} =>
            key[c] \in Clusters /\ since[c] <= now
    BY OnItsWay
  <2>4. \A c \in Calls : pc[c] \in {"info", "proxy", "set", "record"} =>
          NotReplacedBefore(key[c], got[c], since[c], 0)'
    BY <2>1, <2>3, Numbers, RotateKeepsBound DEF PipelineInv, GotInv
  <2>5. \A c \in Calls : pc[c] \in {"refresh", "return", "build"} =>
          NotReplacedBefore(key[c], got[c], since[c], TTL + CallTime)'
    BY Constants, <2>1, <2>3, Numbers, RotateKeepsBound DEF PipelineInv, GotInv
  <2>6. \A c \in Calls :
          pc[c] \in {"info", "proxy", "set", "record", "refresh", "return", "build"} =>
            got[c] \in Nat /\ got[c] <= Version(key[c])'
    BY <2>1, <2>2, <2>3 DEF PipelineInv, GotInv, Version
  <2> QED
    BY <2>1, <2>4, <2>5, <2>6 DEF GotInv, Version
<1>6. TunnelInv'
  BY Constants DEF PipelineInv, TypeOK, TunnelInv, CallInv, Busy, ClockInv, StoreInv,
                   Rotate, env, local, NotRestrictedBefore, EnsuredSince
<1> QED
  BY <1>1, <1>2, <1>3, <1>4, <1>5, <1>6 DEF PipelineInv

\* A cluster that needs a tunnel from now on.
LEMMA RestrictInv ==
  ASSUME PipelineInv, NEW k \in Clusters, Restrict(k)
  PROVE  PipelineInv'
<1>1. TypeOK'
  BY Constants DEF PipelineInv, TypeOK, ClockInv, CallInv, Busy, GotInv, Restrict, env,
                   local, Versions
<1>2. CallInv'
  BY Constants DEF PipelineInv, TypeOK, CallInv, Restrict, env, local, Busy
<1>3. ClockInv'
  BY Constants DEF PipelineInv, TypeOK, ClockInv, CallInv, Busy, Restrict, env, local,
                   Version
<1>4. StoreInv'
  <2>1. UNCHANGED <<now, rotations, store>>
    BY DEF Restrict
  <2>2. \A j \in Clusters, t, d \in Nat :
          NotRestrictedBefore(j, t, d) /\ t <= now + d => NotRestrictedBefore(j, t, d)'
    BY Constants, Numbers DEF PipelineInv, TypeOK, Restrict, NotRestrictedBefore
  <2>3. \A j \in Clusters : store[j] # None /\ ~store[j].proxied =>
          NotRestrictedBefore(j, store[j].expiresAt, TTL + CallTime)'
    <3> SUFFICES ASSUME NEW j \in Clusters, store[j] # None, ~store[j].proxied
                 PROVE  NotRestrictedBefore(j, store[j].expiresAt, TTL + CallTime)'
      OBVIOUS
    <3>1. /\ NotRestrictedBefore(j, store[j].expiresAt, TTL + CallTime)
          /\ store[j].expiresAt <= now + TTL
      BY DEF PipelineInv, StoreInv
    <3>2. /\ store[j].expiresAt \in Nat /\ TTL + CallTime \in Nat
          /\ store[j].expiresAt <= now + (TTL + CallTime)
      BY <3>1, Numbers, Constants
    <3> QED
      BY <2>1, <2>2, <3>1, <3>2 DEF NotRestrictedBefore
  <2> QED
    BY <2>1, <2>3 DEF PipelineInv, StoreInv, NotReplacedBefore, Version
<1>5. GotInv'
  BY Constants DEF PipelineInv, TypeOK, GotInv, CallInv, Busy, ClockInv, StoreInv,
                   Restrict, env, local, NotReplacedBefore, Version, Versions
<1>6. TunnelInv'
  <2>1. UNCHANGED <<now, pc, key, since, ensured>>
    BY DEF Restrict, local
  <2>2. \A j \in Clusters, t, d \in Nat :
          NotRestrictedBefore(j, t, d) /\ t <= now + d => NotRestrictedBefore(j, t, d)'
    BY Constants, Numbers DEF PipelineInv, TypeOK, Restrict, NotRestrictedBefore
  <2>3. \A c \in Calls :
          pc[c] \in {"set", "record", "return"} => key[c] \in Clusters /\ since[c] <= now
    BY OnItsWay
  <2>4. \A c \in Calls : pc[c] = "set" => NotRestrictedBefore(key[c], since[c], 0)'
    BY <2>1, <2>2, <2>3, Numbers DEF PipelineInv, TunnelInv
  <2>5. \A c \in Calls : pc[c] = "return" /\ ~EnsuredSince(key[c], since[c])
          => NotRestrictedBefore(key[c], since[c], TTL + CallTime)'
    <3> SUFFICES ASSUME NEW c \in Calls, pc[c] = "return", ~EnsuredSince(key[c], since[c])
                 PROVE  NotRestrictedBefore(key[c], since[c], TTL + CallTime)'
      OBVIOUS
    <3>1. NotRestrictedBefore(key[c], since[c], TTL + CallTime)
      BY DEF PipelineInv, TunnelInv
    <3>2. since[c] \in Nat /\ now \in Nat /\ since[c] <= now /\ key[c] \in Clusters
      BY <2>3, Numbers
    <3>3. TTL + CallTime \in Nat /\ since[c] <= now + (TTL + CallTime)
      BY <3>2, Constants
    <3> QED
      BY <2>1, <2>2, <3>1, <3>2, <3>3 DEF NotRestrictedBefore
  <2> QED
    BY <2>1, <2>4, <2>5 DEF PipelineInv, TunnelInv, EnsuredSince
<1> QED
  BY <1>1, <1>2, <1>3, <1>4, <1>5, <1>6 DEF PipelineInv

\* A call for one of the daemon's own tools is made.
LEMMA OwnCallInv ==
  ASSUME PipelineInv, NEW c \in Calls, NEW k \in Clusters, OwnCall(c, k)
  PROVE  PipelineInv'
<1>1. TypeOK'
  BY Constants DEF PipelineInv, TypeOK, ClockInv, CallInv, Busy, GotInv, OwnCall,
                   Begin, Goto, env, local, Versions
<1>2. CallInv'
  BY Constants DEF PipelineInv, TypeOK, CallInv, OwnCall, Begin, Goto, env, local, Busy
<1>3. ClockInv'
  BY Constants DEF PipelineInv, TypeOK, ClockInv, CallInv, Busy, OwnCall, Begin, Goto,
                   env, local, Version
<1>4. StoreInv'
  BY Constants DEF PipelineInv, TypeOK, StoreInv, ClockInv, CallInv, Busy, GotInv,
                   TunnelInv, OwnCall, Begin, Goto, env, local, NotReplacedBefore,
                   Version, NotRestrictedBefore, Versions
<1>5. GotInv'
  BY Constants DEF PipelineInv, TypeOK, GotInv, CallInv, Busy, ClockInv, StoreInv,
                   OwnCall, Begin, Goto, env, local, NotReplacedBefore, Version,
                   Versions
<1>6. TunnelInv'
  BY Constants DEF PipelineInv, TypeOK, TunnelInv, CallInv, Busy, ClockInv, StoreInv,
                   OwnCall, Begin, Goto, env, local, NotRestrictedBefore, EnsuredSince
<1> QED
  BY <1>1, <1>2, <1>3, <1>4, <1>5, <1>6 DEF PipelineInv

\* A call for an embedded tool is made.
LEMMA EmbeddedCallInv ==
  ASSUME PipelineInv, NEW c \in Calls, NEW k \in Clusters, EmbeddedCall(c, k)
  PROVE  PipelineInv'
<1>1. TypeOK'
  BY Constants DEF PipelineInv, TypeOK, ClockInv, CallInv, Busy, GotInv, EmbeddedCall,
                   Begin, Goto, env, local, Versions
<1>2. CallInv'
  BY Constants DEF PipelineInv, TypeOK, CallInv, EmbeddedCall, Begin, Goto, env, local,
                   Busy
<1>3. ClockInv'
  BY Constants DEF PipelineInv, TypeOK, ClockInv, CallInv, Busy, EmbeddedCall, Begin,
                   Goto, env, local, Version
<1>4. StoreInv'
  BY Constants DEF PipelineInv, TypeOK, StoreInv, ClockInv, CallInv, Busy, GotInv,
                   TunnelInv, EmbeddedCall, Begin, Goto, env, local, NotReplacedBefore,
                   Version, NotRestrictedBefore, Versions
<1>5. GotInv'
  BY Constants DEF PipelineInv, TypeOK, GotInv, CallInv, Busy, ClockInv, StoreInv,
                   EmbeddedCall, Begin, Goto, env, local, NotReplacedBefore, Version,
                   Versions
<1>6. TunnelInv'
  BY Constants DEF PipelineInv, TypeOK, TunnelInv, CallInv, Busy, ClockInv, StoreInv,
                   EmbeddedCall, Begin, Goto, env, local, NotRestrictedBefore, EnsuredSince
<1> QED
  BY <1>1, <1>2, <1>3, <1>4, <1>5, <1>6 DEF PipelineInv

\* A live entry is no older than its bound, so what is read from it is not either.
LEMMA CacheHitInv ==
  ASSUME PipelineInv, NEW c \in Calls, CacheHit(c)
  PROVE  PipelineInv'
<1>1. TypeOK'
  BY Constants DEF PipelineInv, TypeOK, ClockInv, CallInv, Busy, GotInv, CacheHit,
                   Live, Goto, env, local, Versions
<1>2. CallInv'
  BY Constants DEF PipelineInv, TypeOK, CallInv, CacheHit, Live, Goto, env, local, Busy
<1>3. ClockInv'
  BY Constants DEF PipelineInv, TypeOK, ClockInv, CallInv, Busy, CacheHit, Live, Goto,
                   env, local, Version
<1>4. StoreInv'
  BY Constants DEF PipelineInv, TypeOK, StoreInv, ClockInv, CallInv, Busy, GotInv,
                   TunnelInv, CacheHit, Live, Goto, env, local, NotReplacedBefore,
                   Version, NotRestrictedBefore, Versions
<1>5. GotInv'
  <2> DEFINE k == key[c]  v == store[k].version
  <2>1. k \in Clusters /\ store[k] # None /\ since[c] <= store[k].expiresAt
    BY OnItsWay, Hit DEF CacheHit
  <2>2. /\ v \in Nat /\ v <= Version(k)
        /\ NotReplacedBefore(k, v, store[k].expiresAt, TTL + CallTime)
    BY <2>1, Numbers DEF PipelineInv, StoreInv
  <2>3. NotReplacedBefore(k, v, since[c], TTL + CallTime)
    <3>1. CASE v = Version(k)
      BY <3>1 DEF NotReplacedBefore
    <3>2. CASE v # Version(k)
      <4>1. rotations[k][v + 1] \in Nat
        <5> HIDE DEF k, v
        <5>1. rotations[k] \in Seq(Nat) /\ v + 1 \in 1 .. Len(rotations[k])
          BY <2>1, <2>2, <3>2, Numbers DEF Version
        <5> QED
          BY <5>1
      <4>2. store[k].expiresAt <= rotations[k][v + 1] + (TTL + CallTime)
        BY <2>2, <3>2 DEF NotReplacedBefore
      <4>3. store[k].expiresAt \in Nat /\ since[c] \in Nat
        BY <2>1, Numbers
      <4> QED
        BY <2>1, <4>1, <4>2, <4>3, Constants DEF NotReplacedBefore
    <3> QED
      BY <3>1, <3>2
  <2>4. /\ \A d \in Calls \ {c} : pc'[d] = pc[d] /\ got'[d] = got[d]
        /\ pc'[c] \in {"refresh", "return"} /\ got'[c] = v
        /\ UNCHANGED <<key, since, rotations>>
    BY DEF PipelineInv, TypeOK, CacheHit, Goto, env, local
  <2> QED
    BY <2>1, <2>2, <2>3, <2>4 DEF PipelineInv, GotInv, NotReplacedBefore, Version
<1>6. TunnelInv'
  <2>1. key[c] \in Clusters /\ store[key[c]] # None /\ since[c] <= store[key[c]].expiresAt
    BY OnItsWay, Hit DEF CacheHit
  <2>2. store[key[c]].expiresAt \in Nat /\ since[c] \in Nat
    BY <2>1, Numbers
  <2>3. ~store[key[c]].proxied => NotRestrictedBefore(key[c], since[c], TTL + CallTime)
    BY <2>1, <2>2, Constants DEF PipelineInv, StoreInv, NotRestrictedBefore
  <2>4. /\ \A d \in Calls \ {c} : pc'[d] = pc[d]
        /\ pc'[c] = IF store[key[c]].proxied THEN "refresh" ELSE "return"
        /\ UNCHANGED <<key, since, restricted, hosted, ensured>>
    BY DEF PipelineInv, TypeOK, CacheHit, Goto, env, local
  <2> QED
    BY <2>3, <2>4 DEF PipelineInv, TunnelInv, EnsuredSince, NotRestrictedBefore
<1> QED
  BY <1>1, <1>2, <1>3, <1>4, <1>5, <1>6 DEF PipelineInv

\* An entry that is not live is dropped.
LEMMA CacheMissInv ==
  ASSUME PipelineInv, NEW c \in Calls, CacheMiss(c)
  PROVE  PipelineInv'
<1>1. TypeOK'
  BY Constants DEF PipelineInv, TypeOK, ClockInv, CallInv, Busy, GotInv, CacheMiss,
                   Live, Goto, env, local, Versions
<1>2. CallInv'
  BY Constants DEF PipelineInv, TypeOK, CallInv, CacheMiss, Live, Goto, env, local,
                   Busy
<1>3. ClockInv'
  BY Constants DEF PipelineInv, TypeOK, ClockInv, CallInv, Busy, CacheMiss, Live, Goto,
                   env, local, Version
<1>4. StoreInv'
  BY Constants DEF PipelineInv, TypeOK, StoreInv, ClockInv, CallInv, Busy, GotInv,
                   TunnelInv, CacheMiss, Live, Goto, env, local, NotReplacedBefore,
                   Version, NotRestrictedBefore, Versions
<1>5. GotInv'
  BY Constants DEF PipelineInv, TypeOK, GotInv, CallInv, Busy, ClockInv, StoreInv,
                   CacheMiss, Live, Goto, env, local, NotReplacedBefore, Version,
                   Versions
<1>6. TunnelInv'
  BY Constants DEF PipelineInv, TypeOK, TunnelInv, CallInv, Busy, ClockInv, StoreInv,
                   CacheMiss, Live, Goto, env, local, NotRestrictedBefore, EnsuredSince
<1> QED
  BY <1>1, <1>2, <1>3, <1>4, <1>5, <1>6 DEF PipelineInv

\* The version that is fetched is the current one.
LEMMA FetchInv ==
  ASSUME PipelineInv, NEW c \in Calls, Fetch(c)
  PROVE  PipelineInv'
<1>1. TypeOK'
  <2>1. Version(key[c]) \in Versions
    BY OnItsWay, Numbers, Constants DEF PipelineInv, Fetch, ClockInv, Versions
  <2> QED
    BY <2>1 DEF PipelineInv, TypeOK, Fetch, Goto, env, local
<1>2. CallInv'
  BY Constants DEF PipelineInv, TypeOK, CallInv, Fetch, Version, Goto, env, local, Busy
<1>3. ClockInv'
  BY Constants DEF PipelineInv, TypeOK, ClockInv, CallInv, Busy, Fetch, Version, Goto,
                   env, local
<1>4. StoreInv'
  BY Constants DEF PipelineInv, TypeOK, StoreInv, ClockInv, CallInv, Busy, GotInv,
                   TunnelInv, Fetch, Version, Goto, env, local, NotReplacedBefore,
                   NotRestrictedBefore, Versions
<1>5. GotInv'
  BY Constants DEF PipelineInv, TypeOK, GotInv, CallInv, Busy, ClockInv, StoreInv,
                   Fetch, Version, Goto, env, local, NotReplacedBefore, Versions
<1>6. TunnelInv'
  BY Constants DEF PipelineInv, TypeOK, TunnelInv, CallInv, Busy, ClockInv, StoreInv,
                   Fetch, Version, Goto, env, local, NotRestrictedBefore, EnsuredSince
<1> QED
  BY <1>1, <1>2, <1>3, <1>4, <1>5, <1>6 DEF PipelineInv

\* The need of a tunnel is seen as of now.
LEMMA FetchAPIServerInfoInv ==
  ASSUME PipelineInv, NEW c \in Calls, FetchAPIServerInfo(c)
  PROVE  PipelineInv'
<1>1. TypeOK'
  BY Constants DEF PipelineInv, TypeOK, ClockInv, CallInv, Busy, GotInv,
                   FetchAPIServerInfo, Goto, env, local, Versions
<1>2. CallInv'
  BY Constants DEF PipelineInv, TypeOK, CallInv, FetchAPIServerInfo, Goto, env, local,
                   Busy
<1>3. ClockInv'
  BY Constants DEF PipelineInv, TypeOK, ClockInv, CallInv, Busy, FetchAPIServerInfo,
                   Goto, env, local, Version
<1>4. StoreInv'
  BY Constants DEF PipelineInv, TypeOK, StoreInv, ClockInv, CallInv, Busy, GotInv,
                   TunnelInv, FetchAPIServerInfo, Goto, env, local, NotReplacedBefore,
                   Version, NotRestrictedBefore, Versions
<1>5. GotInv'
  BY Constants DEF PipelineInv, TypeOK, GotInv, CallInv, Busy, ClockInv, StoreInv,
                   FetchAPIServerInfo, Goto, env, local, NotReplacedBefore, Version,
                   Versions
<1>6. TunnelInv'
  BY Constants DEF PipelineInv, TypeOK, TunnelInv, CallInv, Busy, ClockInv, StoreInv,
                   FetchAPIServerInfo, Goto, env, local, NotRestrictedBefore, EnsuredSince
<1> QED
  BY <1>1, <1>2, <1>3, <1>4, <1>5, <1>6 DEF PipelineInv

\* The tunnel of a cached kubeconfig is extended.
LEMMA RefreshInv ==
  ASSUME PipelineInv, NEW c \in Calls, EnsureProxy(c, "refresh", "return")
  PROVE  PipelineInv'
<1>1. TypeOK'
  <2>1. now \in 0 .. MaxTime
    BY DEF PipelineInv, TypeOK
  <2> QED
    BY <2>1 DEF PipelineInv, TypeOK, EnsureProxy, Goto, env, local
<1>2. CallInv'
  BY Constants DEF PipelineInv, TypeOK, CallInv, EnsureProxy, Goto, env, local, Busy
<1>3. ClockInv'
  BY Constants DEF PipelineInv, TypeOK, ClockInv, CallInv, Busy, EnsureProxy, Goto,
                   env, local, Version
<1>4. StoreInv'
  BY Constants DEF PipelineInv, TypeOK, StoreInv, ClockInv, CallInv, Busy, GotInv,
                   TunnelInv, EnsureProxy, Goto, env, local, NotReplacedBefore,
                   Version, NotRestrictedBefore, Versions
<1>5. GotInv'
  BY Constants DEF PipelineInv, TypeOK, GotInv, CallInv, Busy, ClockInv, StoreInv,
                   EnsureProxy, Goto, env, local, NotReplacedBefore, Version, Versions
<1>6. TunnelInv'
  <2>1. key[c] \in Clusters /\ since[c] <= now
    BY OnItsWay DEF EnsureProxy
  <2>2. /\ ensured'[key[c]] = now
        /\ \A j \in Clusters \ {key[c]} : ensured'[j] = ensured[j]
        /\ \A d \in Calls \ {c} : pc'[d] = pc[d]
        /\ pc'[c] = "return"
        /\ UNCHANGED <<key, since, restricted, hosted>>
    BY <2>1 DEF PipelineInv, TypeOK, EnsureProxy, Goto, env, local
  <2>3. \A j \in Clusters, t \in Nat : EnsuredSince(j, t) => EnsuredSince(j, t)'
    BY <2>2, Numbers, Constants DEF PipelineInv, ClockInv, EnsuredSince
  <2>4. EnsuredSince(key[c], since[c])'
    BY <2>1, <2>2, Numbers, Constants DEF EnsuredSince
  <2>5. \A d \in Calls : pc[d] \in {"record", "return"} =>
          key[d] \in Clusters /\ since[d] \in Nat
    BY OnItsWay, Numbers
  <2>6. \A d \in Calls \ {c} :
          pc[d] \in {"record", "return"} /\ EnsuredSince(key[d], since[d])
            => EnsuredSince(key[d], since[d])'
    BY <2>2, <2>3, <2>5 DEF EnsuredSince
  <2> QED
    BY <2>2, <2>4, <2>6 DEF PipelineInv, TunnelInv, EnsuredSince, NotRestrictedBefore
<1> QED
  BY <1>1, <1>2, <1>3, <1>4, <1>5, <1>6 DEF PipelineInv

\* The tunnel of a fetched kubeconfig is started or extended.
LEMMA ProxyInv ==
  ASSUME PipelineInv, NEW c \in Calls, EnsureProxy(c, "proxy", "record")
  PROVE  PipelineInv'
<1>1. TypeOK'
  <2>1. now \in 0 .. MaxTime
    BY DEF PipelineInv, TypeOK
  <2> QED
    BY <2>1 DEF PipelineInv, TypeOK, EnsureProxy, Goto, env, local
<1>2. CallInv'
  BY Constants DEF PipelineInv, TypeOK, CallInv, EnsureProxy, Goto, env, local, Busy
<1>3. ClockInv'
  BY Constants DEF PipelineInv, TypeOK, ClockInv, CallInv, Busy, EnsureProxy, Goto,
                   env, local, Version
<1>4. StoreInv'
  BY Constants DEF PipelineInv, TypeOK, StoreInv, ClockInv, CallInv, Busy, GotInv,
                   TunnelInv, EnsureProxy, Goto, env, local, NotReplacedBefore,
                   Version, NotRestrictedBefore, Versions
<1>5. GotInv'
  BY Constants DEF PipelineInv, TypeOK, GotInv, CallInv, Busy, ClockInv, StoreInv,
                   EnsureProxy, Goto, env, local, NotReplacedBefore, Version, Versions
<1>6. TunnelInv'
  <2>1. key[c] \in Clusters /\ since[c] <= now
    BY OnItsWay DEF EnsureProxy
  <2>2. /\ ensured'[key[c]] = now
        /\ \A j \in Clusters \ {key[c]} : ensured'[j] = ensured[j]
        /\ \A d \in Calls \ {c} : pc'[d] = pc[d]
        /\ pc'[c] = "record"
        /\ UNCHANGED <<key, since, restricted, hosted>>
    BY <2>1 DEF PipelineInv, TypeOK, EnsureProxy, Goto, env, local
  <2>3. \A j \in Clusters, t \in Nat : EnsuredSince(j, t) => EnsuredSince(j, t)'
    BY <2>2, Numbers, Constants DEF PipelineInv, ClockInv, EnsuredSince
  <2>4. EnsuredSince(key[c], since[c])'
    BY <2>1, <2>2, Numbers, Constants DEF EnsuredSince
  <2>5. \A d \in Calls : pc[d] \in {"record", "return"} =>
          key[d] \in Clusters /\ since[d] \in Nat
    BY OnItsWay, Numbers
  <2>6. \A d \in Calls \ {c} :
          pc[d] \in {"record", "return"} /\ EnsuredSince(key[d], since[d])
            => EnsuredSince(key[d], since[d])'
    BY <2>2, <2>3, <2>5 DEF EnsuredSince
  <2> QED
    BY <2>2, <2>4, <2>6 DEF PipelineInv, TunnelInv, EnsuredSince, NotRestrictedBefore
<1> QED
  BY <1>1, <1>2, <1>3, <1>4, <1>5, <1>6 DEF PipelineInv

\* A call that fails leaves the caches alone.
LEMMA CallFailsInv ==
  ASSUME PipelineInv, NEW c \in Calls, CallFails(c)
  PROVE  PipelineInv'
<1>1. TypeOK'
  BY Constants DEF PipelineInv, TypeOK, ClockInv, CallInv, Busy, GotInv, CallFails,
                   Ends, Goto, env, local, Versions
<1>2. CallInv'
  BY Constants DEF PipelineInv, TypeOK, CallInv, CallFails, Ends, Goto, env, local,
                   Busy
<1>3. ClockInv'
  BY Constants DEF PipelineInv, TypeOK, ClockInv, CallInv, Busy, CallFails, Ends, Goto,
                   env, local, Version
<1>4. StoreInv'
  BY Constants DEF PipelineInv, TypeOK, StoreInv, ClockInv, CallInv, Busy, GotInv,
                   TunnelInv, CallFails, Ends, Goto, env, local, NotReplacedBefore,
                   Version, NotRestrictedBefore, Versions
<1>5. GotInv'
  BY Constants DEF PipelineInv, TypeOK, GotInv, CallInv, Busy, ClockInv, StoreInv,
                   CallFails, Ends, Goto, env, local, NotReplacedBefore, Version,
                   Versions
<1>6. TunnelInv'
  BY Constants DEF PipelineInv, TypeOK, TunnelInv, CallInv, Busy, ClockInv, StoreInv,
                   CallFails, Ends, Goto, env, local, NotRestrictedBefore, EnsuredSince
<1> QED
  BY <1>1, <1>2, <1>3, <1>4, <1>5, <1>6 DEF PipelineInv

\* The entry gets the bounds of the call that fills it.
LEMMA CacheSetInv ==
  ASSUME PipelineInv, NEW c \in Calls, CacheSet(c)
  PROVE  PipelineInv'
<1>1. TypeOK'
  <2>1. key[c] \in Clusters /\ now + TTL \in Nat /\ (pc[c] = "record") \in BOOLEAN
    BY OnItsWay, Numbers, Constants DEF CacheSet
  <2>2. got[c] \in Versions
    BY Constants DEF PipelineInv, TypeOK, GotInv, CacheSet, Versions
  <2>3. store' \in [Clusters -> {None} \cup
          [version : Versions, expiresAt : Nat, proxied : BOOLEAN]]
    BY <2>1, <2>2 DEF PipelineInv, TypeOK, CacheSet
  <2>4. pc' \in [Calls -> {"idle", "get", "refresh", "fetch", "info", "proxy", "set",
                           "record", "return", "build", "ok", "err"}]
    BY DEF PipelineInv, TypeOK, CacheSet, Goto
  <2> QED
    BY <2>3, <2>4 DEF PipelineInv, TypeOK, CacheSet, env, local
<1>2. CallInv'
  BY Constants DEF PipelineInv, TypeOK, CallInv, CacheSet, Goto, env, local, Busy
<1>3. ClockInv'
  BY Constants DEF PipelineInv, TypeOK, ClockInv, CallInv, Busy, CacheSet, Goto, env,
                   local, Version
<1>4. StoreInv'
  <2> DEFINE k == key[c]
             entry == [version |-> got[c], expiresAt |-> now + TTL,
                       proxied |-> pc[c] = "record"]
  <2>1. k \in Clusters /\ since[c] <= now /\ now <= since[c] + CallTime
    BY OnItsWay DEF CacheSet
  <2>2. now \in Nat /\ since[c] \in Nat
    BY Numbers
  <2>3. /\ got[c] \in Nat /\ got[c] <= Version(k)
        /\ NotReplacedBefore(k, got[c], since[c], 0)
    BY DEF PipelineInv, GotInv, CacheSet
  <2>4. /\ store' = [store EXCEPT ![k] = entry]
        /\ UNCHANGED <<now, rotations, restricted, hosted>>
    BY DEF CacheSet, env
  <2>5. NotReplacedBefore(k, got[c], now + TTL, TTL + CallTime)
    <3>1. CASE got[c] = Version(k)
      BY <3>1 DEF NotReplacedBefore
    <3>2. CASE got[c] # Version(k)
      <4>1. rotations[k][got[c] + 1] \in Nat
        BY <2>1, <2>3, <3>2, Numbers DEF Version
      <4>2. since[c] <= rotations[k][got[c] + 1] + 0
        BY <2>3, <3>2 DEF NotReplacedBefore
      <4> QED
        BY <2>1, <2>2, <4>1, <4>2, Constants DEF NotReplacedBefore
    <3> QED
      BY <3>1, <3>2
  <2>6. pc[c] # "record" => NotRestrictedBefore(k, now + TTL, TTL + CallTime)
    <3>1. pc[c] # "record" => NotRestrictedBefore(k, since[c], 0)
      BY DEF PipelineInv, TunnelInv, CacheSet
    <3> QED
      BY <3>1, <2>1, <2>2, Constants DEF NotRestrictedBefore
  <2>7. /\ entry.version = got[c] /\ entry.expiresAt = now + TTL
        /\ ~entry.proxied => pc[c] # "record"
    OBVIOUS
  <2>8. now + TTL <= now + TTL
    BY <2>2, Constants
  <2>9. \A j \in Clusters : store'[j] = IF j = k THEN entry ELSE store[j]
    BY <2>4 DEF PipelineInv, TypeOK
  <2> HIDE DEF entry, k
  <2> SUFFICES ASSUME NEW j \in Clusters, store'[j] # None
      PROVE  /\ store'[j].expiresAt <= now + TTL
             /\ store'[j].version <= Version(j)
             /\ NotReplacedBefore(j, store'[j].version, store'[j].expiresAt, TTL + CallTime)
             /\ ~store'[j].proxied =>
                  NotRestrictedBefore(j, store'[j].expiresAt, TTL + CallTime)
    BY <2>4 DEF StoreInv, NotReplacedBefore, NotRestrictedBefore, Version
  <2>10. CASE j = k
    BY <2>3, <2>5, <2>6, <2>7, <2>8, <2>9, <2>10
  <2>11. CASE j # k
    BY <2>9, <2>11 DEF PipelineInv, StoreInv
  <2> QED
    BY <2>10, <2>11
<1>5. GotInv'
  <2>1. key[c] \in Clusters
    BY OnItsWay DEF CacheSet
  <2>2. /\ got[c] \in Nat /\ got[c] <= Version(key[c])
        /\ NotReplacedBefore(key[c], got[c], since[c], 0)
    BY DEF PipelineInv, GotInv, CacheSet
  <2>3. NotReplacedBefore(key[c], got[c], since[c], TTL + CallTime)
    <3>1. CASE got[c] = Version(key[c])
      BY <3>1 DEF NotReplacedBefore
    <3>2. CASE got[c] # Version(key[c])
      <4>1. rotations[key[c]][got[c] + 1] \in Nat
        BY <2>1, <2>2, <3>2, Numbers DEF Version
      <4>2. since[c] <= rotations[key[c]][got[c] + 1] + 0
        BY <2>2, <3>2 DEF NotReplacedBefore
      <4> QED
        BY <4>1, <4>2, Numbers, Constants DEF NotReplacedBefore
    <3> QED
      BY <3>1, <3>2
  <2>4. /\ \A d \in Calls \ {c} : pc'[d] = pc[d]
        /\ pc'[c] = "return"
        /\ UNCHANGED <<key, since, rotations, got>>
    BY DEF PipelineInv, TypeOK, CacheSet, Goto, env, local
  <2> QED
    BY <2>2, <2>3, <2>4 DEF PipelineInv, GotInv, NotReplacedBefore, Version
<1>6. TunnelInv'
  BY Constants DEF PipelineInv, TypeOK, TunnelInv, CallInv, Busy, ClockInv, StoreInv,
                   CacheSet, Goto, env, local, NotRestrictedBefore, EnsuredSince
<1> QED
  BY <1>1, <1>2, <1>3, <1>4, <1>5, <1>6 DEF PipelineInv

\* The call ends or goes on to build a manager.
LEMMA ReturnInv ==
  ASSUME PipelineInv, NEW c \in Calls, Return(c)
  PROVE  PipelineInv'
<1>1. TypeOK'
  <2>1. CASE kind[c] = "own" /\ Ends(c, "ok")
    BY <2>1, Constants DEF PipelineInv, TypeOK, Return, Ends, Goto, env
  <2>2. CASE kind[c] = "embedded" /\ Goto(c, "build") /\ UNCHANGED <<local, got>>
    BY <2>2 DEF PipelineInv, TypeOK, Return, Goto, env, local
  <2> QED
    BY <2>1, <2>2 DEF Return
<1>2. CallInv'
  BY Constants DEF PipelineInv, TypeOK, CallInv, Return, Ends, Goto, env, local, Busy
<1>3. ClockInv'
  BY Constants DEF PipelineInv, TypeOK, ClockInv, CallInv, Busy, Return, Ends, Goto,
                   env, local, Version
<1>4. StoreInv'
  BY Constants DEF PipelineInv, TypeOK, StoreInv, ClockInv, CallInv, Busy, GotInv,
                   TunnelInv, Return, Ends, Goto, env, local, NotReplacedBefore,
                   Version, NotRestrictedBefore, Versions
<1>5. GotInv'
  <2>1. CASE kind[c] = "own" /\ Ends(c, "ok")
    BY <2>1 DEF PipelineInv, TypeOK, GotInv, NotReplacedBefore, Version, Return, Ends,
                Goto, env
  <2>2. CASE kind[c] = "embedded" /\ Goto(c, "build") /\ UNCHANGED <<local, got>>
    BY <2>2 DEF PipelineInv, TypeOK, GotInv, NotReplacedBefore, Version, Return, Goto,
                env, local
  <2> QED
    BY <2>1, <2>2 DEF Return
<1>6. TunnelInv'
  <2>1. CASE kind[c] = "own" /\ Ends(c, "ok")
    <3>1. \A d \in Calls : pc'[d] \in {"set", "record", "return"} => pc[d] = pc'[d] /\ d # c
      BY <2>1 DEF PipelineInv, TypeOK, Return, Ends, Goto
    <3>2. /\ UNCHANGED <<key, restricted, hosted, ensured>>
          /\ \A d \in Calls : d # c => since'[d] = since[d]
      BY <2>1 DEF PipelineInv, TypeOK, Return, Ends, env
    <3> QED
      BY <3>1, <3>2 DEF PipelineInv, TunnelInv, EnsuredSince, NotRestrictedBefore
  <2>2. CASE kind[c] = "embedded" /\ Goto(c, "build") /\ UNCHANGED <<local, got>>
    <3>1. \A d \in Calls : pc'[d] \in {"set", "record", "return"} => pc[d] = pc'[d]
      BY <2>2 DEF PipelineInv, TypeOK, Goto
    <3>2. UNCHANGED <<key, since, restricted, hosted, ensured>>
      BY <2>2 DEF Return, env, local
    <3> QED
      BY <3>1, <3>2 DEF PipelineInv, TunnelInv, EnsuredSince, NotRestrictedBefore
  <2> QED
    BY <2>1, <2>2 DEF Return
<1> QED
  BY <1>1, <1>2, <1>3, <1>4, <1>5, <1>6 DEF PipelineInv

\* The manager takes the version in hand.
LEMMA BuildManagerInv ==
  ASSUME PipelineInv, NEW c \in Calls, BuildManager(c)
  PROVE  PipelineInv'
<1>1. TypeOK'
  <2>1. got[c] \in Versions
    BY Constants DEF PipelineInv, TypeOK, GotInv, BuildManager
  <2>2. managers' \in [Clusters -> Versions \cup {None}]
    BY <2>1 DEF PipelineInv, TypeOK, BuildManager
  <2> QED
    BY <2>2, Constants DEF PipelineInv, TypeOK, BuildManager, Ends, Goto, env
<1>2. CallInv'
  BY Constants DEF PipelineInv, TypeOK, CallInv, BuildManager, Ends, Goto, env, local,
                   Busy
<1>3. ClockInv'
  BY Constants DEF PipelineInv, TypeOK, ClockInv, CallInv, Busy, BuildManager, Ends,
                   Goto, env, local, Version
<1>4. StoreInv'
  BY Constants DEF PipelineInv, TypeOK, StoreInv, ClockInv, CallInv, Busy, GotInv,
                   TunnelInv, BuildManager, Ends, Goto, env, local, NotReplacedBefore,
                   Version, NotRestrictedBefore, Versions
<1>5. GotInv'
  BY Constants DEF PipelineInv, TypeOK, GotInv, CallInv, Busy, ClockInv, StoreInv,
                   BuildManager, Ends, Goto, env, local, NotReplacedBefore, Version,
                   Versions
<1>6. TunnelInv'
  BY Constants DEF PipelineInv, TypeOK, TunnelInv, CallInv, Busy, ClockInv, StoreInv,
                   BuildManager, Ends, Goto, env, local, NotRestrictedBefore, EnsuredSince
<1> QED
  BY <1>1, <1>2, <1>3, <1>4, <1>5, <1>6 DEF PipelineInv

\* Every step of the specification preserves the invariant.
LEMMA NextInv == PipelineInv /\ [Next]_vars => PipelineInv'
<1> SUFFICES ASSUME PipelineInv, [Next]_vars PROVE PipelineInv'
  OBVIOUS
<1>1. CASE Tick
  BY <1>1, TickInv
<1>2. CASE \E k \in Clusters : Rotate(k) \/ Restrict(k)
  BY <1>2, RotateInv, RestrictInv
<1>3. ASSUME NEW c \in Calls, \E k \in Clusters : OwnCall(c, k) \/ EmbeddedCall(c, k)
      PROVE  PipelineInv'
  BY <1>3, OwnCallInv, EmbeddedCallInv
<1>4. ASSUME NEW c \in Calls,
             \/ CacheHit(c) \/ CacheMiss(c) \/ Fetch(c) \/ FetchAPIServerInfo(c)
             \/ EnsureProxy(c, "refresh", "return") \/ EnsureProxy(c, "proxy", "record")
             \/ CallFails(c) \/ CacheSet(c) \/ Return(c) \/ BuildManager(c)
      PROVE  PipelineInv'
  BY <1>4, CacheHitInv, CacheMissInv, FetchInv, FetchAPIServerInfoInv, RefreshInv, ProxyInv,
     CallFailsInv, CacheSetInv, ReturnInv, BuildManagerInv
<1>5. CASE UNCHANGED vars
  BY <1>5 DEF vars, env, local, PipelineInv, TypeOK, CallInv, Busy, ClockInv, Version,
              StoreInv, NotReplacedBefore, NotRestrictedBefore, GotInv, TunnelInv,
              EnsuredSince
<1> QED
  BY <1>1, <1>2, <1>3, <1>4, <1>5 DEF Next

-----------------------------------------------------------------------------
(* Theorems.                                                               *)

\* The invariant holds of every behaviour.
THEOREM Invariance == Spec => []PipelineInv
  BY InitInv, NextInv, PTL DEF Spec

\* The clock, the caches and the calls have their types.
THEOREM TypeCorrect == Spec => []TypeOK
<1>1. PipelineInv => TypeOK
  BY DEF PipelineInv
<1> QED
  BY <1>1, Invariance, PTL

\* A call of the daemon's own tools is answered by Return alone, and a manager
\* is replaced by BuildManager alone.
LEMMA WhoAnswers ==
  ASSUME PipelineInv, [Next]_vars
  PROVE  /\ \A c \in Calls : Answers(c, "own") => pc[c] = "return"
         /\ \A k \in Clusters : managers'[k] # managers[k] =>
              \E c \in Calls : pc[c] = "build" /\ key[c] = k /\ managers'[k] = got[c]
<1>1. CASE \/ UNCHANGED vars \/ Tick \/ \E k \in Clusters : Rotate(k) \/ Restrict(k)
  BY <1>1 DEF vars, Tick, Rotate, Restrict, local, Answers
<1>2. ASSUME NEW c \in Calls, NEW k \in Clusters, OwnCall(c, k) \/ EmbeddedCall(c, k)
      PROVE  /\ managers' = managers
             /\ \A d \in Calls : Answers(d, "own") => pc[d] = "return"
  BY <1>2 DEF OwnCall, EmbeddedCall, Begin, Goto, Answers, PipelineInv, TypeOK
<1>3. ASSUME NEW c \in Calls,
             \/ CacheHit(c) \/ CacheMiss(c) \/ Fetch(c) \/ FetchAPIServerInfo(c)
             \/ EnsureProxy(c, "refresh", "return") \/ EnsureProxy(c, "proxy", "record")
             \/ CallFails(c) \/ CacheSet(c) \/ Return(c)
      PROVE  /\ managers' = managers
             /\ \A d \in Calls : Answers(d, "own") => pc[d] = "return"
  BY <1>3 DEF CacheHit, CacheMiss, Fetch, FetchAPIServerInfo, EnsureProxy, CallFails, CacheSet,
              Return, Ends, Goto, local, Answers, PipelineInv, TypeOK
<1>4. ASSUME NEW c \in Calls, BuildManager(c)
      PROVE  /\ \A d \in Calls : Answers(d, "own") => pc[d] = "return"
             /\ \A k \in Clusters : managers'[k] # managers[k] =>
                  pc[c] = "build" /\ key[c] = k /\ managers'[k] = got[c]
  BY <1>4 DEF BuildManager, Ends, Goto, Answers, PipelineInv, TypeOK, CallInv
<1> QED
  BY <1>1, <1>2, <1>3, <1>4 DEF Next

\* A version in the hands of a call that has it from the cache or is about to
\* hand it out is at most TTL and two call times out of date.
LEMMA InHandIsFresh ==
  ASSUME PipelineInv, NEW c \in Calls, pc[c] \in {"return", "build"}
  PROVE  CurrentWithin(key[c], got[c], TTL + 2 * CallTime)
<1>1. key[c] \in Clusters /\ now <= since[c] + CallTime
  BY OnItsWay
<1>2. /\ got[c] \in Nat /\ got[c] <= Version(key[c])
      /\ NotReplacedBefore(key[c], got[c], since[c], TTL + CallTime)
  BY DEF PipelineInv, GotInv
<1>3. CASE got[c] # Version(key[c])
  <2>1. rotations[key[c]][got[c] + 1] \in Nat
    BY <1>1, <1>2, <1>3, Numbers DEF Version
  <2>2. since[c] <= rotations[key[c]][got[c] + 1] + (TTL + CallTime)
    BY <1>2, <1>3 DEF NotReplacedBefore
  <2>3. now <= rotations[key[c]][got[c] + 1] + (TTL + 2 * CallTime)
    <3> DEFINE r == rotations[key[c]][got[c] + 1]
    <3>1. r \in Nat /\ now \in Nat /\ since[c] \in Nat
      BY <2>1, Numbers
    <3>2. now <= since[c] + CallTime /\ since[c] <= r + (TTL + CallTime)
      BY <1>1, <2>2
    <3> HIDE DEF r
    <3>3. now <= r + (TTL + 2 * CallTime)
      BY <3>1, <3>2, Constants
    <3> QED
      BY <3>3 DEF r
  <2> QED
    BY <2>3 DEF CurrentWithin
<1> QED
  BY <1>3 DEF CurrentWithin

\* A kubeconfig handed to one of the daemon's own tools, and one that a manager
\* for the embedded tools is built from, was current within the TTL and twice the
\* time a call may take, also when calls race to fill the cache.
THEOREM KubeconfigsAreFreshTheorem == Spec => KubeconfigsAreFresh
<1>1. PipelineInv /\ [Next]_vars =>
        /\ \A c \in Calls :
             Answers(c, "own") => CurrentWithin(key[c], got[c], TTL + 2 * CallTime)
        /\ \A k \in Clusters : managers'[k] # managers[k]
             => CurrentWithin(k, managers'[k], TTL + 2 * CallTime)
  BY WhoAnswers, InHandIsFresh
<1> QED
  BY <1>1, Invariance, PTL DEF Spec, KubeconfigsAreFresh

\* A kubeconfig that needs a tunnel is handed to the daemon's own tools only if
\* EnsureProxy has succeeded for the cluster since the call was made, on a hit as
\* on a miss; a need that arose after the entry was made is known when the TTL
\* and two call times are over.
THEOREM AnswersAreTunneledTheorem == Spec => AnswersAreTunneled
<1>1. ASSUME PipelineInv, [Next]_vars, NEW c \in Calls,
             Answers(c, "own"), NeedsTunnel(key[c])
      PROVE  EnsuredSince(key[c], since[c])
  <2>1. pc[c] = "return"
    BY <1>1, WhoAnswers
  <2>2. key[c] \in Clusters /\ now <= since[c] + CallTime
    BY <1>1, <2>1, OnItsWay
  <2>3. now \in Nat /\ since[c] \in Nat
    BY <1>1, Numbers
  <2>4. ~NotRestrictedBefore(key[c], since[c], TTL + CallTime)
    BY <1>1, <2>2, <2>3, Constants DEF NotRestrictedBefore, NeedsTunnel
  <2> QED
    BY <1>1, <2>1, <2>4 DEF PipelineInv, TunnelInv
<1>2. PipelineInv /\ [Next]_vars =>
        \A c \in Calls :
          Answers(c, "own") /\ NeedsTunnel(key[c]) => EnsuredSince(key[c], since[c])
  BY <1>1
<1> QED
  BY <1>2, Invariance, PTL DEF Spec, AnswersAreTunneled
=============================================================================
