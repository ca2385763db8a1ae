------------------------------- MODULE Targets -------------------------------
(***************************************************************************)
(* Composite targets and target patterns (package capi).                   *)
(*                                                                         *)
(* A string is the sequence of its slash-separated segments, as            *)
(* strings.Split returns it: "k/c" is <<"k", "c">> and the empty string is *)
(* <<Empty>>.  A cluster's fields are such strings too, because nothing    *)
(* keeps a slash out of the name of a kubeconfig entry or of a context:    *)
(* joining fields with "/" is then the concatenation of their segments.    *)
(***************************************************************************)
EXTENDS Naturals, SequencesExt

CONSTANTS Segments,  \* the strings without a slash
          Empty      \* the empty one

ASSUME SegmentsAssumption == Empty \in Segments

Strings == Seq(Segments) \ {<<>>}

Fields == {"kubeconfig", "context", "namespace", "name"}

\* CAPICluster, as far as it identifies a cluster.
CAPICluster == [kubeconfig : Strings, context : Strings, namespace : Strings, name : Strings]

NoString == <<Empty>>

-----------------------------------------------------------------------------
(* target.go                                                               *)

FormatTarget(c) == c.kubeconfig \o c.context \o c.namespace \o c.name

IsTarget(t) == Len(t) = 4

ParseTarget(t) ==
  [kubeconfig |-> <<t[1]>>, context |-> <<t[2]>>, namespace |-> <<t[3]>>, name |-> <<t[4]>>]

-----------------------------------------------------------------------------
(* target_pattern.go                                                       *)

IsTargetPattern(t) == Len(t) \in 1..4 /\ ~Contains(t, Empty)

ParseTargetPattern(t) ==
  LET field(i) == IF i <= Len(t) THEN <<t[i]>> ELSE NoString
  IN [kubeconfig |-> field(1), context |-> field(2), namespace |-> field(3), name |-> field(4)]

IsExact(p) == \A f \in Fields \ {"kubeconfig"} : p[f] # NoString

\* Mutant: the namespace of a pattern is not compared.
MatchesAnyNamespace(p, c) ==
  /\ c.kubeconfig = p.kubeconfig
  /\ \A f \in {"context", "name"} : p[f] # NoString => c[f] = p[f]

Matches(p, c) ==
  /\ c.kubeconfig = p.kubeconfig
  /\ \A f \in Fields : p[f] # NoString => c[f] = p[f]

\* The elements of s at the positions in I, in order: a loop that appends some of
\* what it meets.  (By FlattenSeq, which unlike SelectSeq the proofs can unfold.)
KeepAt(s, I) == FlattenSeq([i \in 1 .. Len(s) |-> IF i \in I THEN <<s[i]>> ELSE <<>>])

ExpandTargetPattern(p, all) ==
  LET matching == KeepAt(all, {i \in DOMAIN all : Matches(p, all[i])})
  IN [i \in DOMAIN matching |-> FormatTarget(matching[i])]

-----------------------------------------------------------------------------
(* resolve_patterns.go.  What a tool is told: the targets it runs against, *)
(* or an error, and whether the clusters had to be listed for that.        *)

Selected(ts, l) == [error |-> FALSE, targets |-> ts, listed |-> l]
Refused(l) == [error |-> TRUE, targets |-> <<>>, listed |-> l]

\* Mutant: duplicates stay.
DedupeNothing(s) == s

\* What has been seen at an earlier position is left out.
DedupePreserveOrder(s) == KeepAt(s, {i \in DOMAIN s : \A j \in 1 .. (i - 1) : s[j] # s[i]})

\* Mutant: the clusters are listed for exact patterns too.
ExpansionAlways(parsed) == Len(parsed) > 0

NeedsExpansion(parsed) == \E i \in DOMAIN parsed : ~IsExact(parsed[i])

\* Mutant: what parsed is returned next to the error.
ResolveStrictSome(patterns) ==
  IF \A i \in DOMAIN patterns : IsTarget(patterns[i])
  THEN Selected(DedupePreserveOrder(patterns), FALSE)
  ELSE [error |-> TRUE, targets |-> SelectSeq(patterns, IsTarget), listed |-> FALSE]

ResolveStrict(patterns) ==
  IF \A i \in DOMAIN patterns : IsTarget(patterns[i])
  THEN Selected(DedupePreserveOrder(patterns), FALSE)
  ELSE Refused(FALSE)

ResolvePartial(patterns, known, listable) ==
  LET parsed == [i \in DOMAIN patterns |-> ParseTargetPattern(patterns[i])]
      lists == NeedsExpansion(parsed)
      targets(p) == IF IsExact(p) THEN <<FormatTarget(p)>> ELSE ExpandTargetPattern(p, known)
  IN CASE \E i \in DOMAIN patterns : ~IsTargetPattern(patterns[i]) -> Refused(FALSE)
       [] (\A i \in DOMAIN patterns : IsTargetPattern(patterns[i])) /\ lists /\ ~listable
            -> Refused(TRUE)
       [] OTHER -> Selected(DedupePreserveOrder(
                     FlattenSeq([i \in DOMAIN parsed |-> targets(parsed[i])])), lists)
=============================================================================
