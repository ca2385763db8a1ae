------------------------- MODULE MCTargetSelection -------------------------
(***************************************************************************)
(* TargetSelection with two names per level.  The strings are all those of *)
(* at most two segments, and longer ones around the known clusters:        *)
(* prefixes, siblings, unknown clusters, an empty level, a level too many. *)
(***************************************************************************)
EXTENDS TargetSelection

CONSTANTS a, b

Plain(k, c, n, m) == [kubeconfig |-> <<k>>, context |-> <<c>>, namespace |-> <<n>>, name |-> <<m>>]

\* A context whose name contains a slash.
Slashed == [kubeconfig |-> <<a>>, context |-> <<a, b>>, namespace |-> <<a>>, name |-> <<a>>]

PlainKnown ==
  {<<>>, <<Plain(a, a, a, a), Plain(a, a, b, a), Plain(a, b, a, b), Plain(b, a, a, a)>>}

SlashedKnown == {<<Plain(a, a, a, a), Slashed>>}

MCStrings ==
  [1..1 -> {a, b, Empty}] \cup [1..2 -> {a, b, Empty}]
  \cup {<<a, a, a>>, <<a, a, b>>, <<a, b, b>>, <<b, Empty, a>>,
        <<a, a, a, a>>, <<a, a, b, a>>, <<b, b, b, b>>, <<a, Empty, a, a>>,
        <<a, a, b, a, a>>}

\* Three patterns at a time, from prefixes that overlap and targets known or not.
Overlapping == {<<a>>, <<b>>, <<a, b>>, <<a, a, b, a>>, <<a, b, b, b>>}

AllArguments ==
  {<<>>} \cup [1..1 -> MCStrings] \cup [1..2 -> MCStrings] \cup [1..3 -> Overlapping]

AllKnown == PlainKnown \cup SlashedKnown
=============================================================================
