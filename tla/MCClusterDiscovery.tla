------------------------- MODULE MCClusterDiscovery -------------------------
(***************************************************************************)
(* ClusterDiscovery with two kubeconfigs.  The first, a, may define the    *)
(* contexts c and b:c in its file; the second, a:b, is restricted to c and *)
(* the empty name, which stands for its file's current-context.            *)
(* The two places a with b:c and a:b with c share the cache key a:b:c.     *)
(***************************************************************************)
EXTENDS ClusterDiscovery

CONSTANT Objects   \* how many objects the expressions have for the cluster y

MCa == <<"a">>
MCab == <<"a", "b">>
MCc == <<"c">>
MCbc == <<"b", "c">>
MCEmpty == <<"">>

MCSources == <<MCa, MCab>>

\* Neither a list without a string nor anything else is a restriction.
MCRawContexts ==
  (MCa :> [kind |-> "list", items |-> <<NotString>>]) @@
  (MCab :> [kind |-> "list", items |-> <<NotString, MCc, MCEmpty>>])

MCScalarContexts ==
  (MCa :> [kind |-> "scalar"]) @@
  (MCab :> [kind |-> "list", items |-> <<NotString, MCc, MCEmpty>>])

MCFiles ==
  (MCa :> {<<MCc>>, <<MCbc, MCc>>, Unreadable}) @@ (MCab :> {<<MCc, MCbc>>, Unreadable})

MCPlaces == {[name |-> s, context |-> x] : s \in {MCa, MCab}, x \in {MCc, MCbc, MCEmpty}}

Item(cluster, n) == [cluster |-> cluster, objects |-> [i \in 1 .. n |-> cluster]]

MCLists == [p \in MCPlaces |-> <<<<Item("x", 1)>>, <<Item("y", Objects), Item("z", 1)>>>>]

Symmetry == Permutations(Calls)
=============================================================================
