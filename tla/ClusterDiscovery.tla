-------------------------- MODULE ClusterDiscovery --------------------------
(***************************************************************************)
(* ToolServer.allResolvedClusters: how a tool call learns which clusters   *)
(* there are.  It goes through the configured kubeconfigs in order, finds  *)
(* out the contexts of each, and lists the clusters of every context, from *)
(* the cache of cluster lists if it can.  Several calls do so at a time.   *)
(*                                                                         *)
(* A name is the sequence of its parts between colons, so that joining     *)
(* names with a colon is concatenation.  A place is a kubeconfig's name    *)
(* with a context's.  The Clusters of a place change now and then;         *)
(* changes[p] lists the times at which they did, and version v of them was *)
(* replaced at changes[p][v + 1].                                          *)
(*                                                                         *)
(* Time passes in ticks.  No call takes more than CallTime ticks: the code *)
(* has no such deadline, and every answer is as stale as its call is slow. *)
(***************************************************************************)
EXTENDS Naturals, SequencesExt

CONSTANTS Calls,        \* tool calls that list clusters
          Sources,      \* sortedKubeconfigs: the names, in order
          RawContexts,  \* what the configuration has under contexts, per source
          Files,        \* what a kubeconfig file may define: sequences of contexts
          Lists,        \* the Clusters of a place, per version
          None,         \* no cache entry, no custom field
          NotString,    \* an entry of a YAML list that is not a string
          Unreadable,   \* a kubeconfig file that cannot be read or parsed
          EmptyName,    \* the empty string as a context's name
          TTL,          \* cluster_list_ttl
          CallTime, MaxTime, MaxChanges, MaxEdits   \* bounds

SourceNames == ToSet(Sources)
Places == DOMAIN Lists
Contexts == {p.context : p \in Places}

IsSequence(s) == s \in Seq(ToSet(s))

\* config.Load refuses a configuration without kubeconfigs.
ASSUME ConstantsAssumption ==
  /\ {TTL, CallTime, MaxTime, MaxChanges, MaxEdits} \subseteq Nat
  /\ IsSequence(Sources) /\ Sources # <<>>
  /\ Places = [name : SourceNames, context : Contexts]
  /\ \A s \in SourceNames :
       /\ RawContexts[s].kind = "list" => RawContexts[s].items \in Seq(Contexts \cup {NotString})
       /\ Unreadable \in Files[s] /\ Files[s] \subseteq Seq(Contexts) \cup {Unreadable}
  /\ \A p \in Places :
       /\ Len(Lists[p]) > MaxChanges
       /\ \A v \in 1 .. (MaxChanges + 1) :
            /\ IsSequence(Lists[p][v])
            /\ \A i \in DOMAIN Lists[p][v] : IsSequence(Lists[p][v][i].objects)

VARIABLES
  now,      \* the clock
  changes,  \* when the Clusters of a place changed
  file,     \* the contexts in the kubeconfig file of a source
  edits,    \* how often a file has been edited
  store,    \* Store.ClusterList: a list and its expiresAt, per key
  pc,       \* where each call is
  since,    \* when it began
  source,   \* the index in Sources of the kubeconfig it is at
  todo,     \* the contexts of that kubeconfig it has still to list
  plan,     \* the places it has met so far
  got,      \* the list it has in hand
  answer    \* local variable result: a list per place

env == <<now, changes, file, edits>>
local == <<since, source, todo, plan>>
vars == <<env, store, pc, local, got, answer>>

\* Mutant: the contexts of all kubeconfigs share the cache.
ContextKey(p) == p.context

ClusterListKey(p) == p.name \o p.context

Keys == {ClusterListKey(p) : p \in Places}

Init ==
  /\ now = 0
  /\ changes = [p \in Places |-> <<>>]
  /\ file \in [SourceNames -> UNION {Files[s] : s \in SourceNames}]
  /\ \A s \in SourceNames : file[s] \in Files[s]
  /\ edits = 0
  /\ store = [k \in Keys |-> None]
  /\ pc = [c \in Calls |-> "idle"]
  /\ since = [c \in Calls |-> 0]
  /\ source = [c \in Calls |-> 1]
  /\ todo = [c \in Calls |-> <<>>]
  /\ plan = [c \in Calls |-> <<>>]
  /\ got = [c \in Calls |-> None]
  /\ answer = [c \in Calls |-> <<>>]

Busy(c) == pc[c] \notin {"idle", "ok", "err"}

-----------------------------------------------------------------------------
(* The environment.                                                        *)

Tick ==
  /\ now < MaxTime
  /\ \A c \in Calls : Busy(c) => now < since[c] + CallTime
  /\ now' = now + 1
  /\ UNCHANGED <<changes, file, edits, store, pc, local, got, answer>>

Version(p) == Len(changes[p])

ClustersChange(p) ==
  /\ \A q \in Places : Version(q) < MaxChanges
  /\ changes' = [changes EXCEPT ![p] = Append(@, now)]
  /\ UNCHANGED <<now, file, edits, store, pc, local, got, answer>>

EditFile(s) ==
  /\ edits < MaxEdits
  /\ edits' = edits + 1
  /\ \E f \in Files[s] \ {file[s]} : file' = [file EXCEPT ![s] = f]
  /\ UNCHANGED <<now, changes, store, pc, local, got, answer>>

-----------------------------------------------------------------------------
(* The pure parts.                                                         *)

\* parseContexts: the strings of a YAML list; anything else is no restriction.
ParseContexts(raw) ==
  IF raw.kind = "list"
  THEN FlattenSeq([i \in DOMAIN raw.items |->
                     IF raw.items[i] # NotString THEN <<raw.items[i]>> ELSE <<>>])
  ELSE <<>>

\* evalCustomFields: one query over all items, [.items[] | {k: (expression)}].
\* An expression gives an item as many objects as it has outputs for it.
EvalCustomFields(items) == FlattenSeq([i \in 1 .. Len(items) |-> items[i].objects])

\* ListClustersForContext: the i-th object belongs to the i-th cluster.
ListClustersForContext(items) ==
  LET fields == EvalCustomFields(items) IN
  [i \in 1 .. Len(items) |->
     [cluster |-> items[i].cluster,
      fields |-> IF i <= Len(fields) THEN fields[i] ELSE None]]

\* What a place has to list while version v of its Clusters is the current one.
ListOf(p, v) ==
  [of |-> p, version |-> v, clusters |-> ListClustersForContext(Lists[p][v + 1])]

-----------------------------------------------------------------------------
(* allResolvedClusters.                                                    *)

Begin(c) ==
  /\ pc[c] = "idle"
  /\ pc' = [pc EXCEPT ![c] = "contexts"]
  /\ since' = [since EXCEPT ![c] = now]
  /\ UNCHANGED <<env, store, source, todo, plan, got, answer>>

Place(c) == [name |-> Sources[source[c]], context |-> Head(todo[c])]

\* Where a call is when it has contexts still to list from its i-th kubeconfig.
Goto(c, i, contexts) ==
  LET next == IF contexts = <<>> THEN i + 1 ELSE i IN
  /\ source' = [source EXCEPT ![c] = next]
  /\ todo' = [todo EXCEPT ![c] = contexts]
  /\ pc' = [pc EXCEPT ![c] = CASE contexts # <<>> -> "get"
                               [] contexts = <<>> /\ next <= Len(Sources) -> "contexts"
                               [] contexts = <<>> /\ next > Len(Sources) -> "ok"]

\* resolveContexts: the configured contexts, or those of the file as it is now.
ResolveContexts(s) ==
  LET configured == ParseContexts(RawContexts[s]) IN
  IF configured # <<>> THEN configured ELSE file[s]

NextSource(c) ==
  LET s == Sources[source[c]]
      contexts == ResolveContexts(s)
  IN /\ pc[c] = "contexts"
     /\ contexts # Unreadable
     /\ plan' = [plan EXCEPT ![c] =
          @ \o [i \in 1 .. Len(contexts) |-> [name |-> s, context |-> contexts[i]]]]
     /\ Goto(c, source[c], contexts)
     /\ UNCHANGED <<env, store, since, got, answer>>

\* The list of the place the call is at is complete; on to the next.
Collect(c, list) ==
  /\ answer' = [answer EXCEPT ![c] = Append(@, list)]
  /\ Goto(c, source[c], Tail(todo[c]))
  /\ UNCHANGED <<since, plan>>

\* Mutant: entries do not expire.
LiveForEver(k) == store[k] # None

\* An entry is live up to and including the instant it expires at.
Live(k) == store[k] # None /\ now <= store[k].expiresAt

CacheHit(c) ==
  /\ pc[c] = "get"
  /\ Live(ClusterListKey(Place(c)))
  /\ Collect(c, store[ClusterListKey(Place(c))].list)
  /\ UNCHANGED <<env, store, got>>

\* An expired entry is deleted on the way.
CacheMiss(c) ==
  /\ pc[c] = "get"
  /\ ~Live(ClusterListKey(Place(c)))
  /\ store' = [store EXCEPT ![ClusterListKey(Place(c))] = None]
  /\ pc' = [pc EXCEPT ![c] = "list"]
  /\ UNCHANGED <<env, local, got, answer>>

\* The file defines the context a client is built for: by its name, or as the
\* file's current-context if the name is empty.
Defines(s, context) ==
  /\ file[s] # Unreadable
  /\ context = EmptyName \/ Contains(file[s], context)

\* clientsForContext, which reads the file again, and ListClustersForContext.
ListClusters(c) ==
  LET p == Place(c) IN
  /\ pc[c] = "list"
  /\ Defines(p.name, p.context)
  /\ got' = [got EXCEPT ![c] = ListOf(p, Version(p))]
  /\ pc' = [pc EXCEPT ![c] = "set"]
  /\ UNCHANGED <<env, store, local, answer>>

\* Mutant: the TTL is added twice.
CacheSetTwice(c) ==
  /\ pc[c] = "set"
  /\ store' = [store EXCEPT ![ClusterListKey(Place(c))] =
       [list |-> got[c], expiresAt |-> now + TTL + TTL]]
  /\ Collect(c, got[c])
  /\ got' = [got EXCEPT ![c] = None]
  /\ UNCHANGED env

\* TTLCache.Set: the last writer wins.
CacheSet(c) ==
  /\ pc[c] = "set"
  /\ store' = [store EXCEPT ![ClusterListKey(Place(c))] =
       [list |-> got[c], expiresAt |-> now + TTL]]
  /\ Collect(c, got[c])
  /\ got' = [got EXCEPT ![c] = None]
  /\ UNCHANGED env

\* Mutant: a context that cannot be listed is left out.
SkipsContext(c) ==
  /\ pc[c] = "list"
  /\ Goto(c, source[c], Tail(todo[c]))
  /\ UNCHANGED <<env, store, since, plan, got, answer>>

\* A file that cannot be read, a context that it does not define, a failing
\* request or jq expression: the whole call fails.
CallFails(c) ==
  /\ \/ pc[c] = "contexts" /\ ResolveContexts(Sources[source[c]]) = Unreadable
     \/ pc[c] = "list"
  /\ pc' = [pc EXCEPT ![c] = "err"]
  /\ answer' = [answer EXCEPT ![c] = <<>>]
  /\ UNCHANGED <<env, store, local, got>>

Next ==
  \/ Tick
  \/ \E p \in Places : ClustersChange(p)
  \/ \E s \in SourceNames : EditFile(s)
  \/ \E c \in Calls :
       \/ Begin(c) \/ NextSource(c) \/ CacheHit(c) \/ CacheMiss(c)
       \/ ListClusters(c) \/ CacheSet(c) \/ CallFails(c)

Spec == Init /\ [][Next]_vars

-----------------------------------------------------------------------------
(* Properties.                                                             *)

ClusterLists == {ListOf(p, v) : p \in Places, v \in 0 .. MaxChanges}

\* The clock, the files, the cache and the calls have their types: every list is
\* what some place had to list at some time.
TypeOK ==
  /\ now \in 0 .. MaxTime
  /\ changes \in [Places -> Seq(0 .. MaxTime)]
  /\ \A p \in Places : Version(p) <= MaxChanges
  /\ DOMAIN file = SourceNames /\ \A s \in SourceNames : file[s] \in Files[s]
  /\ edits \in 0 .. MaxEdits
  /\ store \in [Keys -> [list : ClusterLists, expiresAt : 0 .. (MaxTime + TTL)] \cup {None}]
  /\ pc \in [Calls -> {"idle", "contexts", "get", "list", "set", "ok", "err"}]
  /\ since \in [Calls -> 0 .. MaxTime]
  /\ source \in [Calls -> 1 .. (Len(Sources) + 1)]
  /\ todo \in [Calls -> Seq(Contexts)]
  /\ plan \in [Calls -> Seq(Places)]
  /\ got \in [Calls -> ClusterLists \cup {None}]
  /\ answer \in [Calls -> Seq(ClusterLists)]

\* A successful answer leaves nothing out and invents nothing: it has one list
\* for every context of every kubeconfig, in order, as the configuration or the
\* file named them when the call came to that kubeconfig, and none for a context
\* that a configured list, if it has a string at all, does not name, whatever the
\* file defines.  A failure along the way fails the call, also when other calls
\* have filled the cache meanwhile.
AllOrNothing ==
  \A c \in Calls :
    /\ pc[c] = "ok" =>
         /\ Len(answer[c]) = Len(plan[c])
         /\ \A s \in SourceNames :
              <<>> \in Files[s] \/ \E i \in DOMAIN plan[c] : plan[c][i].name = s
         /\ \A i \in DOMAIN plan[c] :
              LET raw == RawContexts[plan[c][i].name] IN
              raw.kind = "list" /\ (\E k \in DOMAIN raw.items : raw.items[k] # NotString) =>
                Contains(raw.items, plan[c][i].context)
    /\ pc[c] = "err" => answer[c] = <<>>

\* The objects that the configured expressions have for a cluster of a list.
OwnObjects(l, i) == Lists[l.of][l.version + 1][i].objects

\* The list of a place comes from that place, whatever other calls put into the
\* cache, but for places whose keys are the same once joined with a colon.  When
\* the expressions have exactly one output for every cluster of the list, each
\* cluster has its own custom fields.
OwnLists ==
  \A c \in Calls : \A j \in DOMAIN answer[c] :
    LET l == answer[c][j]
        p == plan[c][j]
    IN /\ l.of = p \/ p.name \o p.context = l.of.name \o l.of.context
       /\ (\A i \in DOMAIN l.clusters : Len(OwnObjects(l, i)) = 1) =>
            \A i \in DOMAIN l.clusters : l.clusters[i].fields = OwnObjects(l, i)[1]

\* Version v of the Clusters of p was the current one not longer than d ago.
CurrentWithin(p, v, d) == v = Version(p) \/ now <= changes[p][v + 1] + d

\* A list that is handed out was the current one not longer ago than the TTL and
\* the durations of two calls, the one that cached it and the one answered.
ListsAreFresh ==
  [][\A c \in Calls : pc'[c] = "ok" /\ pc[c] # "ok" =>
       \A i \in DOMAIN answer'[c] :
         CurrentWithin(answer'[c][i].of, answer'[c][i].version, TTL + 2 * CallTime)]_vars

\* evalCustomFields' comment: it returns one map per item.  So a cluster has no
\* custom fields but its own.
OneMapPerItem ==
  \A c \in Calls : \A j \in DOMAIN answer[c] :
    LET l == answer[c][j] IN
    \A i \in DOMAIN l.clusters :
      l.clusters[i].fields # None => Contains(OwnObjects(l, i), l.clusters[i].fields)
=============================================================================
