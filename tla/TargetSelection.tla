--------------------------- MODULE TargetSelection ---------------------------
(***************************************************************************)
(* Which clusters a tool call runs against: the "clusters" argument of the *)
(* daemon's own tools (package server) and of the embedded tools (wrapped  *)
(* by package embed), resolved against the clusters that are known.        *)
(***************************************************************************)
EXTENDS Targets

CONSTANTS Known,      \* the lists of clusters that allResolvedClusters may return
          Arguments,  \* values of the "clusters" argument: sequences of strings
          Omitted     \* the argument is absent

ASSUME ArgumentsAssumption ==
  /\ Known \subseteq Seq(CAPICluster)
  /\ Arguments \subseteq Seq(Strings)
  /\ Omitted \notin Arguments

VARIABLES
  known,      \* the clusters the kubeconfigs lead to, in listing order
  listable,   \* whether listing them succeeds
  tool,       \* the tool of the last call, and its argument
  argument,
  answer      \* what that call was told: see Selected and Refused in Targets

vars == <<known, listable, tool, argument, answer>>

Init ==
  /\ known \in Known
  /\ listable \in BOOLEAN
  /\ tool = "none"
  /\ argument = Omitted
  /\ answer = Refused(FALSE)

\* An absent argument of our own tools is a nil slice, like an empty array.
Patterns(arg) == IF arg = Omitted THEN <<>> ELSE arg

\* A selection depends on no earlier one: a behaviour has one call.
Call(t, arg, a) ==
  /\ tool = "none"
  /\ tool' = t /\ argument' = arg /\ answer' = a
  /\ UNCHANGED <<known, listable>>

-----------------------------------------------------------------------------
(* Our own tools.                                                          *)

Targets == [i \in DOMAIN known |-> FormatTarget(known[i])]

\* list_clusters lists first, and then keeps what the patterns select.
Listing(arg) ==
  LET resolved == ResolvePartial(Patterns(arg), known, TRUE)
  IN CASE ~listable -> Refused(TRUE)
       [] listable /\ Len(Patterns(arg)) = 0 -> Selected(Targets, TRUE)
       [] listable /\ Len(Patterns(arg)) > 0 /\ resolved.error -> Refused(TRUE)
       [] OTHER -> Selected(KeepAt(Targets, {i \in DOMAIN Targets :
                                               Contains(resolved.targets, Targets[i])}), TRUE)

ListClusters(arg) == Call("list_clusters", arg, Listing(arg))

GetClusterKubeconfig(arg) ==
  Call("get_cluster_kubeconfig", arg, ResolvePartial(Patterns(arg), known, listable))

ExecSelection(arg) ==
  IF Len(Patterns(arg)) = 0 THEN Refused(FALSE) ELSE ResolveStrict(Patterns(arg))

ExecInCluster(arg) == Call("exec_in_cluster", arg, ExecSelection(arg))

-----------------------------------------------------------------------------
(* Embedded tools.                                                         *)

\* Mutant: the known targets are taken apart in the wrong order.
ListKnownSwapped ==
  LET parsed == KeepAt(Targets, {i \in DOMAIN Targets : IsTarget(Targets[i])})
      swap(c) == [c EXCEPT !.context = c.namespace, !.namespace = c.context]
  IN [i \in DOMAIN parsed |-> swap(ParseTarget(parsed[i]))]

\* listKnownClusters: a known target that does not parse is left out.
ListKnownClusters ==
  LET parsed == KeepAt(Targets, {i \in DOMAIN Targets : IsTarget(Targets[i])})
  IN [i \in DOMAIN parsed |-> ParseTarget(parsed[i])]

ReadOnlySelection(arg) ==
  CASE arg = Omitted -> IF listable THEN Selected(Targets, TRUE) ELSE Refused(TRUE)
    [] arg # Omitted /\ Contains(Patterns(arg), NoString) -> Refused(FALSE)
    [] OTHER -> ResolvePartial(Patterns(arg), ListKnownClusters, listable)

DestructiveSelection(arg) ==
  CASE arg = Omitted -> Refused(FALSE)
    [] arg # Omitted /\ Contains(Patterns(arg), NoString) -> Refused(FALSE)
    [] OTHER -> ResolveStrict(Patterns(arg))

\* Mutant: a tool is read-only unless it says that it is not.
ReadOnlyUnlessDenied(hint) == hint # "no"

\* MountTools: a tool is wrapped as read-only when it has a ReadOnlyHint and the
\* hint is true; the hint is a pointer and may be unset.
ReadOnlyHint(hint) == hint = "yes"

EmbeddedTool(hint) ==
  CASE hint = "yes" -> "embedded_readonly"
    [] hint = "no" -> "embedded_destructive"
    [] hint = "unset" -> "embedded_unhinted"

EmbeddedCall(hint, arg) ==
  Call(EmbeddedTool(hint), arg,
       IF ReadOnlyHint(hint) THEN ReadOnlySelection(arg) ELSE DestructiveSelection(arg))

Next ==
  \E arg \in Arguments \cup {Omitted} :
    \/ ListClusters(arg) \/ GetClusterKubeconfig(arg) \/ ExecInCluster(arg)
    \/ \E hint \in {"yes", "no", "unset"} : EmbeddedCall(hint, arg)

Spec == Init /\ [][Next]_vars

-----------------------------------------------------------------------------
(* Properties.                                                             *)

PartialTools == {"list_clusters", "get_cluster_kubeconfig", "embedded_readonly"}
StrictTools  == {"exec_in_cluster", "embedded_destructive", "embedded_unhinted"}

\* The last call, its argument and its answer have their type: a Go error comes
\* with no targets.
TypeOK ==
  /\ known \in Known
  /\ listable \in BOOLEAN
  /\ tool \in PartialTools \cup StrictTools \cup {"none"}
  /\ argument \in Arguments \cup {Omitted}
  /\ answer.error \in BOOLEAN /\ answer.listed \in BOOLEAN
  /\ answer.error => answer.targets = <<>>

\* The names of a cluster, from the widest scope to the narrowest.
Path(c) == <<c.kubeconfig, c.context, c.namespace, c.name>>

\* The string p as a path of slash-free names.
Names(p) == [i \in DOMAIN p |-> <<p[i]>>]

HasSlash(c) == ~IsTarget(FormatTarget(c))

\* The clusters that a tool may expand patterns to.
Expandable == {c \in ToSet(known) : tool = "embedded_readonly" => ~HasSlash(c)}

\* What the pattern p stands for: those of the clusters whose path begins with it,
\* and the target it spells out if it is a full path, known or not.
SelectedBy(p, clusters) ==
  {FormatTarget(c) : c \in {d \in clusters : IsPrefix(Names(p), Path(d))}}
  \cup {t \in {p} : IsTarget(t)}

\* A tool that accepts partial patterns selects exactly what its patterns stand
\* for, except that list_clusters reports known clusters only.
SelectsWhatMatches ==
  tool \in PartialTools /\ ~answer.error /\ Len(Patterns(argument)) > 0 =>
    ToSet(answer.targets) =
      {t \in UNION {SelectedBy(argument[i], Expandable) : i \in DOMAIN argument} :
         tool = "list_clusters" => t \in ToSet(Targets)}

\* A tool that may change a cluster, an embedded one without a hint included,
\* runs against nothing that was not spelled out as a full path, whatever is
\* known, and never runs when the argument is left out.
StrictNeverWidens ==
  tool \in StrictTools =>
    /\ ToSet(answer.targets) \subseteq {t \in ToSet(Patterns(argument)) : IsTarget(t)}
    /\ argument = Omitted => answer.error

\* No cluster is selected twice through overlapping patterns, and what an
\* earlier pattern stands for comes before what only a later one does.
FirstSeenOrder ==
  tool # "list_clusters" /\ argument # Omitted =>
    LET first(t) == CHOOSE i \in DOMAIN argument :
                      /\ t \in SelectedBy(argument[i], Expandable)
                      /\ \A j \in 1..(i - 1) : t \notin SelectedBy(argument[j], Expandable)
    IN \A i, j \in DOMAIN answer.targets :
         i < j => /\ answer.targets[i] # answer.targets[j]
                  /\ first(answer.targets[i]) <= first(answer.targets[j])

\* The clusters, which may have to be listed anew in every kubeconfig, are
\* listed only for an argument that is left out or has a partial pattern.
ListsOnlyWhenNeeded ==
  answer.listed /\ tool # "list_clusters" =>
    argument = Omitted \/ \E i \in DOMAIN argument : ~IsTarget(argument[i])

\* As long as no name contains a slash, the embedded read-only tools select the
\* same clusters as get_cluster_kubeconfig for any list of patterns, the empty one
\* included.  When the argument is left out they part: the embedded tools select
\* what list_clusters does, every known cluster, and get_cluster_kubeconfig none.
EmbeddedAgrees ==
  (\A c \in ToSet(known) : ~HasSlash(c)) =>
    /\ argument # Omitted =>
         ReadOnlySelection(argument) = ResolvePartial(argument, known, listable)
    /\ argument = Omitted =>
         /\ ReadOnlySelection(argument) = Listing(argument)
         /\ ResolvePartial(Patterns(argument), known, listable).targets = <<>>
=============================================================================
