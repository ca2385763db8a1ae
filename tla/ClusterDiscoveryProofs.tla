----------------------- MODULE ClusterDiscoveryProofs -----------------------
(***************************************************************************)
(* Proofs about ClusterDiscovery, for any number of calls and kubeconfigs, *)
(* any configured contexts, any files and lists and any sequence of        *)
(* changes to them.                                                        *)
(*                                                                         *)
(* The invariant follows a call through its kubeconfigs: what it has met   *)
(* (plan), what it has of that (answer) and what is left (todo) fit        *)
(* together at every step, whatever happens to the cache meanwhile.  The   *)
(* bound on the age of a list is carried from the call that made it into   *)
(* the cache and from there to the call that gets it.                      *)
(***************************************************************************)
EXTENDS ClusterDiscovery, WellFoundedInduction, TLAPS

-----------------------------------------------------------------------------
(* Induction, and FlattenSeq.                                              *)

\* Induction over the natural numbers, in a form that needs no operator: the
\* numbers for which a formula holds are a set.
Less == {ss \in Nat \X Nat : ss[1] < ss[2]}

\* There is no infinite descent in the natural numbers.
LEMMA LessWellFounded == IsWellFoundedOn(Less, Nat)
  BY NatLessThanWellFounded DEF OpToRel, Less

\* A set of numbers that has an element has a least one.
LEMMA LeastNumber ==
  ASSUME NEW T \in SUBSET Nat, T # {}
  PROVE  \E x \in T : \A y \in T : x <= y
<1>1. PICK x \in T : \A y \in T : ~(<<y, x>> \in Less)
  BY LessWellFounded, WFMin
<1>2. ASSUME NEW y \in T PROVE x <= y
  <2>1. y < x => <<y, x>> \in Less
    BY DEF Less
  <2>2. ~(y < x) /\ x \in Nat /\ y \in Nat
    BY <1>1, <2>1
  <2> QED
    BY <2>2
<1> QED
  BY <1>2

\* A set with 0 and with the successors of its elements has all numbers.
LEMMA Induction ==
  ASSUME NEW T \in SUBSET Nat, 0 \in T, \A n \in T : n + 1 \in T
  PROVE  T = Nat
<1> SUFFICES ASSUME Nat \ T # {} PROVE FALSE
  OBVIOUS
<1>1. PICK x \in Nat \ T : \A y \in Nat \ T : x <= y
  BY LeastNumber
<1>2. x # 0 /\ x - 1 \in Nat /\ (x - 1) + 1 = x
  BY <1>1
<1>3. x - 1 \in T
  BY <1>1, <1>2
<1> QED
  BY <1>2, <1>3

\* f is the function that FlattenSeq(ss) defines for the first n sequences.
Flattens(f, ss, n) ==
  f = [i \in 1 .. n |-> IF i = 1 THEN ss[i] ELSE f[i - 1] \o ss[i]]

\* The recursion has a solution for any number of sequences.
LEMMA FlattensExists ==
  ASSUME NEW ss
  PROVE  \A n \in Nat : \E f : Flattens(f, ss, n)
<1> DEFINE T == {n \in Nat : \E f : Flattens(f, ss, n)}
<1>1. 0 \in T
  <2>1. Flattens([i \in 1 .. 0 |-> <<>>], ss, 0)
    BY DEF Flattens
  <2> QED
    BY <2>1
<1>2. ASSUME NEW n \in T PROVE n + 1 \in T
  <2>1. n \in Nat
    OBVIOUS
  <2>2. PICK f : Flattens(f, ss, n)
    OBVIOUS
  <2> DEFINE g == [i \in 1 .. (n + 1) |-> IF i = 1 THEN ss[i] ELSE f[i - 1] \o ss[i]]
  <2>3. ASSUME NEW i \in 1 .. n PROVE g[i] = f[i]
    <3>1. f[i] = IF i = 1 THEN ss[i] ELSE f[i - 1] \o ss[i]
      BY <2>2 DEF Flattens
    <3>2. i \in 1 .. (n + 1)
      BY <2>1
    <3> QED
      BY <3>1, <3>2
  <2>4. \A i \in 1 .. (n + 1) : i # 1 => i - 1 \in 1 .. n
    BY <2>1
  <2>5. \A i \in 1 .. (n + 1) : i # 1 => g[i - 1] = f[i - 1]
    BY <2>3, <2>4
  <2>6. g = [i \in 1 .. (n + 1) |-> IF i = 1 THEN ss[i] ELSE f[i - 1] \o ss[i]]
    OBVIOUS
  <2>7. Flattens(g, ss, n + 1)
    <3> HIDE DEF g
    <3> QED
      BY <2>5, <2>6 DEF Flattens
  <2> QED
    BY <2>1, <2>7
<1>3. T \in SUBSET Nat
  OBVIOUS
<1> HIDE DEF T
<1>4. T = Nat
  BY <1>1, <1>2, <1>3, Induction
<1> QED
  BY <1>4 DEF T

\* FlattenSeq is the last value of that solution.
LEMMA FlattenSeqUnfolds ==
  ASSUME NEW ss, Len(ss) \in Nat \ {0}
  PROVE  \E f : Flattens(f, ss, Len(ss)) /\ FlattenSeq(ss) = f[Len(ss)]
<1> DEFINE F == CHOOSE f : Flattens(f, ss, Len(ss))
<1>1. Flattens(F, ss, Len(ss))
  BY FlattensExists
<1>2. FlattenSeq(ss) = F[Len(ss)]
  BY DEF FlattenSeq, Flattens
<1> QED
  BY <1>1, <1>2

\* The recursion, step by step.
LEMMA FlattensAt ==
  ASSUME NEW ss, NEW n \in Nat, n # 0, NEW f, Flattens(f, ss, n)
  PROVE  /\ f[1] = ss[1]
         /\ \A i \in 2 .. n : f[i] = f[i - 1] \o ss[i]
<1>1. f[1] = ss[1]
  <2>1. 1 \in 1 .. n
    OBVIOUS
  <2> QED
    BY <2>1 DEF Flattens
<1>2. ASSUME NEW i \in 2 .. n PROVE f[i] = f[i - 1] \o ss[i]
  <2>1. i \in 1 .. n /\ i # 1
    OBVIOUS
  <2> QED
    BY <2>1 DEF Flattens
<1> QED
  BY <1>1, <1>2

\* There is one sequence of length 0.
LEMMA EmptyIsEmpty == ASSUME NEW S, NEW t \in Seq(S), Len(t) = 0 PROVE t = <<>>
  OBVIOUS

\* What the joined sequences have: elements of S, at least as many as any of the
\* sequences has, and one for each of them if each has one.
LEMMA FlattenSeqFacts ==
  ASSUME NEW S, NEW ss \in Seq(Seq(S))
  PROVE  /\ FlattenSeq(ss) \in Seq(S)
         /\ \A i \in 1 .. Len(ss) : Len(ss[i]) <= Len(FlattenSeq(ss))
         /\ (\A i \in 1 .. Len(ss) : Len(ss[i]) = 1) =>
              /\ Len(FlattenSeq(ss)) = Len(ss)
              /\ \A i \in 1 .. Len(ss) : FlattenSeq(ss)[i] = ss[i][1]
<1>0. Len(ss) \in Nat /\ \A i \in 1 .. Len(ss) : ss[i] \in Seq(S) /\ Len(ss[i]) \in Nat
  OBVIOUS
<1>1. CASE Len(ss) = 0
  <2>1. ss = <<>> /\ FlattenSeq(ss) = <<>>
    BY <1>1 DEF FlattenSeq
  <2>2. <<>> \in Seq(S) /\ Len(<<>>) = 0
    OBVIOUS
  <2>3. FlattenSeq(ss) \in Seq(S) /\ Len(FlattenSeq(ss)) = Len(ss)
    BY <1>1, <2>1, <2>2
  <2>4. 1 .. Len(ss) = {}
    BY <1>1
  <2> QED
    BY <2>3, <2>4
<1>2. CASE Len(ss) # 0
  <2>1. PICK f : Flattens(f, ss, Len(ss)) /\ FlattenSeq(ss) = f[Len(ss)]
    BY <1>0, <1>2, FlattenSeqUnfolds
  <2>2. /\ f[1] = ss[1]
        /\ \A i \in 2 .. Len(ss) : f[i] = f[i - 1] \o ss[i]
    BY <1>0, <1>2, <2>1, FlattensAt
  <2> DEFINE ones == \A i \in 1 .. Len(ss) : Len(ss[i]) = 1
             P(n) == /\ f[n] \in Seq(S)
                     /\ \A i \in 1 .. n : Len(ss[i]) <= Len(f[n])
                     /\ ones => Len(f[n]) = n /\ \A i \in 1 .. n : f[n][i] = ss[i][1]
             T == {n \in Nat : n + 1 <= Len(ss) => P(n + 1)}
  <2>3. 0 \in T
    <3>1. 1 \in 1 .. Len(ss) /\ 1 .. 1 = {1}
      BY <1>0, <1>2
    <3>2. P(1)
      BY <1>0, <2>2, <3>1
    <3> HIDE DEF P
    <3> QED
      BY <3>2
  <2>4. ASSUME NEW n \in T PROVE n + 1 \in T
    <3> DEFINE m == n + 1
    <3> SUFFICES ASSUME m + 1 <= Len(ss) PROVE P(m + 1)
      OBVIOUS
    <3>1. m \in Nat /\ m <= Len(ss) /\ m # 0
      BY <1>0
    <3>2. P(m)
      BY <3>1
    <3>3. m + 1 \in 2 .. Len(ss) /\ m + 1 \in 1 .. Len(ss) /\ (m + 1) - 1 = m
      BY <1>0, <3>1
    <3> DEFINE s == ss[m + 1]
    <3>4. f[m + 1] = f[m] \o s /\ s \in Seq(S) /\ Len(s) \in Nat
      BY <1>0, <2>2, <3>3
    <3> HIDE DEF T, m, s
    <3>5. f[m] \in Seq(S) /\ Len(f[m]) \in Nat
      BY <3>2
    <3>6. f[m + 1] \in Seq(S) /\ Len(f[m + 1]) = Len(f[m]) + Len(s)
      BY <3>4, <3>5
    <3>7. \A i \in 1 .. (m + 1) : i \in 1 .. m \/ i = m + 1
      BY <3>1
    <3>8. ASSUME NEW i \in 1 .. (m + 1) PROVE Len(ss[i]) <= Len(f[m + 1])
      <4>1. CASE i \in 1 .. m
        <5>1. Len(ss[i]) <= Len(f[m]) /\ i \in 1 .. Len(ss)
          BY <1>0, <3>1, <3>2, <4>1
        <5>2. Len(ss[i]) \in Nat
          BY <1>0, <5>1
        <5> QED
          BY <3>4, <3>5, <3>6, <5>1, <5>2
      <4>2. CASE i = m + 1
        <5>1. Len(s) <= Len(f[m + 1])
          BY <3>4, <3>5, <3>6
        <5> QED
          BY <4>2, <5>1 DEF s
      <4> QED
        BY <3>7, <4>1, <4>2
    <3>9. ASSUME ones PROVE Len(f[m + 1]) = m + 1 /\ \A i \in 1 .. (m + 1) : f[m + 1][i] = ss[i][1]
      <4>1. Len(s) = 1 /\ Len(f[m]) = m /\ \A i \in 1 .. m : f[m][i] = ss[i][1]
        BY <3>2, <3>3, <3>9 DEF s
      <4>2. \A i \in 1 .. m : f[m + 1][i] = f[m][i]
        BY <3>4, <3>5, <4>1
      <4>3. f[m + 1][m + 1] = s[1]
        <5>1. /\ m + 1 \in 1 .. (Len(f[m]) + Len(s)) /\ ~(m + 1 <= Len(f[m]))
              /\ (m + 1) - Len(f[m]) = 1
          BY <3>1, <4>1
        <5>2. (f[m] \o s)[m + 1] = s[(m + 1) - Len(f[m])]
          BY <3>4, <3>5, <5>1
        <5> QED
          BY <3>4, <5>1, <5>2
      <4>4. Len(f[m + 1]) = m + 1
        BY <3>6, <4>1
      <4> QED
        BY <3>7, <4>1, <4>2, <4>3, <4>4 DEF s
    <3> QED
      BY <3>6, <3>8, <3>9
  <2>5. T \in SUBSET Nat
    OBVIOUS
  <2>6. T = Nat
    <3> HIDE DEF T
    <3> QED
      BY <2>3, <2>4, <2>5, Induction
  <2>7. Len(ss) - 1 \in T /\ (Len(ss) - 1) + 1 = Len(ss)
    <3>1. Len(ss) - 1 \in Nat /\ (Len(ss) - 1) + 1 = Len(ss)
      BY <1>0, <1>2
    <3> HIDE DEF T
    <3> QED
      BY <2>6, <3>1
  <2>8. P(Len(ss))
    <3> HIDE DEF P
    <3> QED
      BY <1>0, <2>7
  <2> QED
    BY <2>1, <2>8
<1> QED
  BY <1>1, <1>2

-----------------------------------------------------------------------------
(* The inductive invariant.                                                *)

AtPlace == {"get", "list", "set"}

\* How far a call is that is at label at of its i-th kubeconfig.  Between two
\* kubeconfigs it has a list for every place it has met; within one it has still
\* to list the contexts in left, which are the last that it has met.
Progress(at, i, left, met, have) ==
  /\ at = "idle" => have = <<>> /\ met = <<>> /\ i = 1
  /\ at \notin {"idle", "ok", "err"} => i \in 1 .. Len(Sources)
  /\ at = "ok" => i = Len(Sources) + 1
  /\ at = "err" => have = <<>>
  /\ at \in {"idle", "contexts", "ok"} => Len(met) = Len(have)
  /\ at \in AtPlace =>
       /\ Len(left) > 0
       /\ Len(met) = Len(have) + Len(left)
       /\ \A k \in 1 .. Len(left) :
            met[Len(have) + k] = [name |-> Sources[i], context |-> left[k]]

ProgressInv ==
  \A c \in Calls : Progress(pc[c], source[c], todo[c], plan[c], answer[c])

\* A kubeconfig that the call has been at is in its plan, or has no contexts.
CoverInv ==
  \A c \in Calls : \A i \in 1 .. Len(Sources) :
    i < source[c] \/ (i = source[c] /\ pc[c] \in AtPlace) =>
      <<>> \in Files[Sources[i]] \/ \E j \in DOMAIN plan[c] : plan[c][j].name = Sources[i]

\* The list of contexts in the configuration restricts anything.
Restricts(raw) == raw.kind = "list" /\ \E k \in DOMAIN raw.items : raw.items[k] # NotString

\* A restricted kubeconfig is in the plan with configured contexts only.
RestrictInv ==
  \A c \in Calls : \A i \in DOMAIN plan[c] :
    LET raw == RawContexts[plan[c][i].name]
    IN Restricts(raw) => Contains(raw.items, plan[c][i].context)

\* A list that was cached under a key, or is about to be, belongs to it.
KeyInv ==
  /\ \A k \in Keys : store[k] # None => ClusterListKey(store[k].list.of) = k
  /\ \A c \in Calls : pc[c] = "set" => got[c] \in ClusterLists /\ got[c].of = Place(c)
  /\ \A c \in Calls : \A j \in DOMAIN answer[c] :
       j \in DOMAIN plan[c] /\ ClusterListKey(answer[c][j].of) = ClusterListKey(plan[c][j])

\* A call is no older than CallTime.
CallInv ==
  \A c \in Calls : since[c] <= now /\ (Busy(c) => now <= since[c] + CallTime)

\* The list l is current or was replaced at t - d or later.
NotReplacedBefore(l, t, d) ==
  /\ l.version <= Version(l.of)
  /\ l.version = Version(l.of) \/ t <= changes[l.of][l.version + 1] + d

\* A cache entry expires before its list is too old; a list that a call has made
\* itself was current during the call, one from the cache is as old as an entry
\* may be.
FreshInv ==
  /\ \A k \in Keys : store[k] # None =>
       /\ store[k].expiresAt <= now + TTL
       /\ NotReplacedBefore(store[k].list, store[k].expiresAt, TTL + CallTime)
  /\ \A c \in Calls : pc[c] = "set" => NotReplacedBefore(got[c], since[c], 0)
  /\ \A c \in Calls : \A j \in DOMAIN answer[c] :
       NotReplacedBefore(answer[c][j], since[c], TTL + CallTime)

DiscoveryInv ==
  /\ TypeOK /\ ProgressInv /\ CoverInv /\ RestrictInv /\ KeyInv /\ CallInv /\ FreshInv

-----------------------------------------------------------------------------
(* The constants and the pure parts.                                       *)

\* The constants, one by one.
LEMMA Constants ==
  /\ TTL \in Nat /\ CallTime \in Nat /\ MaxTime \in Nat /\ MaxChanges \in Nat /\ MaxEdits \in Nat
  /\ Sources \in Seq(SourceNames) /\ Len(Sources) \in Nat \ {0}
  /\ \A i \in 1 .. Len(Sources) : Sources[i] \in SourceNames
  /\ \A s \in SourceNames : \E i \in 1 .. Len(Sources) : s = Sources[i]
  /\ Places = [name : SourceNames, context : Contexts]
  /\ \A s \in SourceNames : Files[s] \subseteq Seq(Contexts) \cup {Unreadable}
<1>1. TTL \in Nat /\ CallTime \in Nat /\ MaxTime \in Nat /\ MaxChanges \in Nat /\ MaxEdits \in Nat
  BY ConstantsAssumption
<1>2. Sources \in Seq(SourceNames) /\ Sources # <<>>
  BY ConstantsAssumption DEF IsSequence, SourceNames
<1>3. Len(Sources) \in Nat \ {0}
  BY <1>2, EmptyIsEmpty
<1>4. \A s \in SourceNames : \E i \in 1 .. Len(Sources) : s = Sources[i]
  BY <1>2 DEF SourceNames, ToSet
<1>5. \A i \in 1 .. Len(Sources) : Sources[i] \in SourceNames
  BY <1>2
<1>6. /\ Places = [name : SourceNames, context : Contexts]
      /\ \A s \in SourceNames : Files[s] \subseteq Seq(Contexts) \cup {Unreadable}
  BY ConstantsAssumption
<1> QED
  BY <1>1, <1>2, <1>3, <1>4, <1>5, <1>6

\* parseContexts has exactly the strings of a list.
LEMMA ParseContextsFacts ==
  ASSUME NEW s \in SourceNames
  PROVE  LET raw == RawContexts[s]
             contexts == ParseContexts(raw)
         IN /\ contexts \in Seq(Contexts)
            /\ Restricts(raw) => contexts # <<>>
            /\ \A i \in DOMAIN contexts : Contains(raw.items, contexts[i])
<1> DEFINE raw == RawContexts[s]
           items == raw.items
           contexts == ParseContexts(raw)
<1>1. CASE raw.kind # "list"
  <2>1. contexts = <<>>
    BY <1>1 DEF ParseContexts
  <2>2. <<>> \in Seq(Contexts) /\ DOMAIN <<>> = {}
    OBVIOUS
  <2>3. ~Restricts(raw)
    BY <1>1 DEF Restricts
  <2> QED
    BY <2>1, <2>2, <2>3
<1>2. CASE raw.kind = "list"
  <2> DEFINE S == {items[i] : i \in {j \in DOMAIN items : items[j] # NotString}}
             ss == [i \in DOMAIN items |-> IF items[i] # NotString THEN <<items[i]>> ELSE <<>>]
  <2>1. items \in Seq(Contexts \cup {NotString})
    BY <1>2, ConstantsAssumption
  <2>2. DOMAIN items = 1 .. Len(items) /\ Len(items) \in Nat
    BY <2>1
  <2>3. \A i \in 1 .. Len(items) : items[i] # NotString => <<items[i]>> \in Seq(S)
    BY <2>2
  <2>4. <<>> \in Seq(S)
    OBVIOUS
  <2>5. ss = [i \in 1 .. Len(items) |-> IF items[i] # NotString THEN <<items[i]>> ELSE <<>>]
    BY <2>2
  <2>6. \A i \in 1 .. Len(items) : ss[i] = IF items[i] # NotString THEN <<items[i]>> ELSE <<>>
    BY <2>5
  <2>7. S \subseteq Contexts
    BY <2>1
  <2>8. \A x \in S : Contains(items, x)
    BY <2>2 DEF Contains
  <2>9. contexts = FlattenSeq(ss)
    BY <1>2 DEF ParseContexts
  <2> HIDE DEF S
  <2>10. \A i \in 1 .. Len(items) : ss[i] \in Seq(S)
    BY <2>3, <2>4, <2>6
  <2>11. ss \in Seq(Seq(S)) /\ Len(ss) = Len(items)
    <3>1. ss = [i \in 1 .. Len(items) |-> ss[i]]
      BY <2>5
    <3> HIDE DEF ss, items
    <3>2. ss \in [1 .. Len(items) -> Seq(S)]
      BY <2>10, <3>1
    <3> QED
      BY <2>2, <3>2
  <2> HIDE DEF ss, contexts
  <2>12. contexts \in Seq(S) /\ \A i \in 1 .. Len(items) : Len(ss[i]) <= Len(contexts)
    BY <2>9, <2>11, FlattenSeqFacts
  <2>13. contexts \in Seq(Contexts)
    BY <2>7, <2>12
  <2>14. \A i \in DOMAIN contexts : contexts[i] \in S
    BY <2>12
  <2>15. ASSUME Restricts(raw) PROVE contexts # <<>>
    <3>1. PICK i \in 1 .. Len(items) : items[i] # NotString
      BY <2>2, <2>15 DEF Restricts
    <3>2. ss[i] = <<items[i]>>
      BY <2>6, <3>1
    <3>3. Len(ss[i]) = 1
      BY <3>2
    <3>4. 1 <= Len(contexts)
      BY <2>12, <3>3
    <3> QED
      BY <3>4
  <2> QED
    BY <2>8, <2>13, <2>14, <2>15 DEF contexts
<1> QED
  BY <1>1, <1>2

\* resolveContexts has configured contexts if there are any.
LEMMA ResolveContextsFacts ==
  ASSUME TypeOK, NEW s \in SourceNames, ResolveContexts(s) # Unreadable
  PROVE  LET raw == RawContexts[s]
             contexts == ResolveContexts(s)
         IN /\ contexts \in Seq(Contexts)
            /\ contexts = <<>> => <<>> \in Files[s]
            /\ Restricts(raw) => \A i \in DOMAIN contexts : Contains(raw.items, contexts[i])
<1> DEFINE raw == RawContexts[s]
           contexts == ResolveContexts(s)
           configured == ParseContexts(raw)
<1>1. /\ configured \in Seq(Contexts)
      /\ Restricts(raw) => configured # <<>>
      /\ \A i \in DOMAIN configured : Contains(raw.items, configured[i])
  BY ParseContextsFacts
<1>2. contexts = IF configured # <<>> THEN configured ELSE file[s]
  BY DEF ResolveContexts
<1>3. file[s] \in Files[s] /\ Files[s] \subseteq Seq(Contexts) \cup {Unreadable}
  BY Constants DEF TypeOK
<1> HIDE DEF configured, contexts
<1>4. CASE configured # <<>>
  BY <1>1, <1>2, <1>4 DEF contexts
<1>5. CASE configured = <<>>
  <2>1. contexts = file[s] /\ contexts # Unreadable
    BY <1>2, <1>5 DEF contexts
  <2>2. contexts \in Seq(Contexts)
    BY <1>3, <2>1
  <2> QED
    BY <1>1, <1>3, <1>5, <2>1, <2>2 DEF contexts
<1> QED
  BY <1>4, <1>5

\* A list is that of its place and version.
LEMMA ListFacts ==
  ASSUME NEW l \in ClusterLists
  PROVE  /\ l.of \in Places /\ l.version \in 0 .. MaxChanges /\ l.version \in Nat
         /\ l = ListOf(l.of, l.version)
<1>1. PICK p \in Places, v \in 0 .. MaxChanges : l = ListOf(p, v)
  BY DEF ClusterLists
<1>2. l.of = p /\ l.version = v
  BY <1>1 DEF ListOf
<1> QED
  BY <1>1, <1>2, Constants

\* With one object per cluster, each cluster has its own.
LEMMA OwnFields ==
  ASSUME NEW l \in ClusterLists,
         \A i \in DOMAIN l.clusters : Len(OwnObjects(l, i)) = 1
  PROVE  \A i \in DOMAIN l.clusters : l.clusters[i].fields = OwnObjects(l, i)[1]
<1> DEFINE items == Lists[l.of][l.version + 1]
           n == Len(items)
           ss == [i \in 1 .. n |-> items[i].objects]
           S == UNION {ToSet(items[i].objects) : i \in 1 .. n}
           fields == EvalCustomFields(items)
<1>1. l.of \in Places /\ l.version + 1 \in 1 .. (MaxChanges + 1) /\ l = ListOf(l.of, l.version)
  <2>1. \A v, m \in Nat : v \in 0 .. m => v + 1 \in 1 .. (m + 1)
    OBVIOUS
  <2> QED
    BY <2>1, ListFacts, Constants
<1>2. /\ IsSequence(items)
      /\ \A i \in DOMAIN items : IsSequence(items[i].objects)
  BY <1>1, ConstantsAssumption
<1>3. l.clusters = ListClustersForContext(items)
  BY <1>1 DEF ListOf
<1>4. fields = FlattenSeq(ss)
  BY DEF EvalCustomFields
<1> HIDE DEF items
<1>5. DOMAIN items = 1 .. n /\ n \in Nat
  BY <1>2 DEF IsSequence
<1>6. /\ DOMAIN l.clusters = 1 .. n
      /\ \A i \in 1 .. n : l.clusters[i].fields = IF i <= Len(fields) THEN fields[i] ELSE None
  BY <1>3 DEF ListClustersForContext
<1>7. \A i \in 1 .. n : OwnObjects(l, i) = ss[i] /\ ss[i] = items[i].objects
  BY DEF OwnObjects, items
<1>8. \A i \in 1 .. n : Len(ss[i]) = 1
  BY <1>6, <1>7
<1>9. ASSUME NEW i \in 1 .. n PROVE ss[i] \in Seq(S)
  <2>1. items[i].objects \in Seq(ToSet(items[i].objects))
    BY <1>2, <1>5 DEF IsSequence
  <2>2. ToSet(items[i].objects) \subseteq S
    OBVIOUS
  <2> HIDE DEF S
  <2>3. \A A, B : A \subseteq B => Seq(A) \subseteq Seq(B)
    OBVIOUS
  <2> QED
    BY <1>7, <2>1, <2>2, <2>3
<1> HIDE DEF S, fields
<1>10. ss \in Seq(Seq(S)) /\ Len(ss) = n
  <2>1. ss = [i \in 1 .. n |-> ss[i]]
    OBVIOUS
  <2> HIDE DEF ss, n
  <2>2. ss \in [1 .. n -> Seq(S)]
    BY <1>9, <2>1
  <2> QED
    BY <1>5, <2>2
<1> HIDE DEF ss
<1>11. Len(fields) = n /\ \A i \in 1 .. n : fields[i] = ss[i][1]
  BY <1>4, <1>8, <1>10, FlattenSeqFacts
<1>12. ASSUME NEW i \in 1 .. n PROVE l.clusters[i].fields = OwnObjects(l, i)[1]
  <2>1. i <= n
    BY <1>5
  <2> QED
    BY <1>6, <1>7, <1>11, <2>1
<1> QED
  BY <1>6, <1>12

-----------------------------------------------------------------------------
(* Every action preserves the invariant.                                   *)

\* What the type invariant says of numbers and lists.
LEMMA Numbers ==
  ASSUME DiscoveryInv
  PROVE  /\ now \in Nat
         /\ \A c \in Calls : since[c] \in Nat /\ source[c] \in Nat
         /\ \A p \in Places : changes[p] \in Seq(Nat) /\ Version(p) \in Nat
         /\ \A k \in Keys : store[k] # None =>
              store[k].list \in ClusterLists /\ store[k].expiresAt \in Nat
         /\ \A c \in Calls : answer[c] \in Seq(ClusterLists)
         /\ \A c \in Calls : \A j \in DOMAIN answer[c] : answer[c][j] \in ClusterLists
<1>1. now \in Nat /\ \A c \in Calls : since[c] \in Nat /\ source[c] \in Nat
  BY Constants DEF DiscoveryInv, TypeOK
<1>2. ASSUME NEW p \in Places PROVE changes[p] \in Seq(Nat) /\ Version(p) \in Nat
  <2>1. changes[p] \in Seq(0 .. MaxTime)
    BY DEF DiscoveryInv, TypeOK
  <2>2. 0 .. MaxTime \subseteq Nat
    BY Constants
  <2>3. \A S, T : S \subseteq T => Seq(S) \subseteq Seq(T)
    OBVIOUS
  <2>4. changes[p] \in Seq(Nat)
    BY <2>1, <2>2, <2>3
  <2> QED
    BY <2>4 DEF Version
<1>3. ASSUME NEW k \in Keys, store[k] # None
      PROVE  store[k].list \in ClusterLists /\ store[k].expiresAt \in Nat
  <2>1. store[k] \in [list : ClusterLists, expiresAt : 0 .. (MaxTime + TTL)]
    BY <1>3 DEF DiscoveryInv, TypeOK
  <2>2. store[k].list \in ClusterLists /\ store[k].expiresAt \in 0 .. (MaxTime + TTL)
    BY <2>1
  <2> QED
    BY <2>2
<1>4. \A c \in Calls : answer[c] \in Seq(ClusterLists)
  BY DEF DiscoveryInv, TypeOK
<1> QED
  BY <1>1, <1>2, <1>3, <1>4

\* Nothing is cached and no call has been made.
LEMMA InitInv == Init => DiscoveryInv
<1> SUFFICES ASSUME Init PROVE DiscoveryInv
  OBVIOUS
<1>1. TypeOK
  <2>1. changes \in [Places -> Seq(0 .. MaxTime)] /\ \A p \in Places : Version(p) <= MaxChanges
    BY Constants DEF Init, Version
  <2>2. 0 \in 0 .. MaxTime /\ 0 \in 0 .. MaxEdits /\ 1 \in 1 .. (Len(Sources) + 1)
    BY Constants
  <2>3. /\ DOMAIN file = SourceNames /\ \A s \in SourceNames : file[s] \in Files[s]
        /\ now = 0 /\ edits = 0
    BY DEF Init
  <2>4. store \in [Keys -> [list : ClusterLists, expiresAt : 0 .. (MaxTime + TTL)] \cup {None}]
    BY DEF Init
  <2>5. /\ pc \in [Calls -> {"idle", "contexts", "get", "list", "set", "ok", "err"}]
        /\ since \in [Calls -> 0 .. MaxTime] /\ source \in [Calls -> 1 .. (Len(Sources) + 1)]
        /\ got \in [Calls -> ClusterLists \cup {None}]
    BY <2>2 DEF Init
  <2>6. /\ todo \in [Calls -> Seq(Contexts)] /\ plan \in [Calls -> Seq(Places)]
        /\ answer \in [Calls -> Seq(ClusterLists)]
    BY DEF Init
  <2> QED
    BY <2>1, <2>2, <2>3, <2>4, <2>5, <2>6 DEF TypeOK
<1>2. ASSUME NEW c \in Calls
      PROVE  /\ pc[c] = "idle" /\ since[c] = 0 /\ source[c] = 1 /\ todo[c] = <<>>
             /\ plan[c] = <<>> /\ answer[c] = <<>>
  BY DEF Init
<1>3. ProgressInv
  BY <1>2 DEF ProgressInv, Progress, AtPlace
<1>4. CoverInv
  <2>1. \A i \in 1 .. Len(Sources) : ~(i < 1)
    OBVIOUS
  <2> QED
    BY <1>2, <2>1 DEF CoverInv, AtPlace
<1>5. RestrictInv
  BY <1>2 DEF RestrictInv
<1>6. KeyInv
  BY <1>2 DEF Init, KeyInv
<1>7. CallInv
  BY <1>2 DEF Init, CallInv, Busy
<1>8. FreshInv
  BY <1>2 DEF Init, FreshInv
<1> QED
  BY <1>1, <1>3, <1>4, <1>5, <1>6, <1>7, <1>8 DEF DiscoveryInv

\* Time passes, for calls that are not due yet.
LEMMA TickInv ==
  ASSUME DiscoveryInv, Tick
  PROVE  DiscoveryInv'
<1>1. /\ UNCHANGED <<changes, file, edits, store, pc, since, source, todo, plan, got, answer>>
      /\ now' = now + 1 /\ now < MaxTime
      /\ \A c \in Calls : Busy(c) => now < since[c] + CallTime
  BY DEF Tick, local
<1>2. TypeOK'
  <2>1. now' \in 0 .. MaxTime
    BY <1>1, Numbers, Constants
  <2> QED
    BY <1>1, <2>1 DEF DiscoveryInv, TypeOK, Version
<1>3. ProgressInv' /\ CoverInv' /\ RestrictInv'
  BY <1>1 DEF DiscoveryInv, ProgressInv, CoverInv, RestrictInv
<1>4. KeyInv'
  BY <1>1 DEF DiscoveryInv, KeyInv, Place
<1>5. CallInv'
  <2> SUFFICES ASSUME NEW c \in Calls
               PROVE  since[c] <= now' /\ (Busy(c) => now' <= since[c] + CallTime)
    BY <1>1 DEF CallInv, Busy
  <2>1. now \in Nat /\ since[c] \in Nat /\ CallTime \in Nat
    BY Numbers, Constants
  <2>2. since[c] <= now
    BY DEF DiscoveryInv, CallInv
  <2> QED
    BY <1>1, <2>1, <2>2
<1>6. FreshInv'
  <2>1. ASSUME NEW k \in Keys, store[k] # None PROVE store[k].expiresAt <= now' + TTL
    <3>1. store[k].expiresAt <= now + TTL
      BY <2>1 DEF DiscoveryInv, FreshInv
    <3>2. now \in Nat /\ TTL \in Nat /\ store[k].expiresAt \in Nat
      BY <2>1, Numbers, Constants
    <3> QED
      BY <1>1, <3>1, <3>2
  <2> QED
    BY <1>1, <2>1 DEF DiscoveryInv, FreshInv, NotReplacedBefore, Version
<1> QED
  BY <1>2, <1>3, <1>4, <1>5, <1>6 DEF DiscoveryInv

\* What is replaced now was current until now.
LEMMA ChangeKeepsBound ==
  ASSUME DiscoveryInv, NEW p \in Places, ClustersChange(p),
         NEW l \in ClusterLists, NEW t \in Nat, NEW d \in Nat,
         NotReplacedBefore(l, t, d), t <= now + d
  PROVE  /\ l.version <= Len(changes'[l.of])
         /\ l.version = Len(changes'[l.of]) \/ t <= changes'[l.of][l.version + 1] + d
<1>1. l.of \in Places /\ l.version \in Nat /\ now \in Nat
  BY ListFacts, Numbers
<1> DEFINE v == l.version
           q == l.of
<1>2. changes[q] \in Seq(Nat) /\ Version(q) = Len(changes[q])
  BY <1>1, Numbers DEF Version
<1>3. /\ v <= Len(changes[q])
      /\ v = Len(changes[q]) \/ t <= changes[q][v + 1] + d
  BY DEF NotReplacedBefore, Version
<1>4. changes'[q] = IF q = p THEN Append(changes[q], now) ELSE changes[q]
  BY <1>1 DEF DiscoveryInv, TypeOK, ClustersChange
<1> HIDE DEF v, q
<1>5. CASE q # p
  BY <1>3, <1>4, <1>5 DEF v, q
<1>6. CASE q = p
  <2>1. changes'[q] = Append(changes[q], now)
    BY <1>4, <1>6
  <2>2. /\ Len(changes'[q]) = Len(changes[q]) + 1
        /\ changes'[q][Len(changes[q]) + 1] = now
        /\ \A i \in 1 .. Len(changes[q]) : changes'[q][i] = changes[q][i]
    BY <1>1, <1>2, <2>1
  <2>3. v \in Nat /\ Len(changes[q]) \in Nat
    BY <1>1, <1>2 DEF v
  <2>4. CASE v = Len(changes[q])
    BY <2>2, <2>3, <2>4 DEF v, q
  <2>5. CASE v # Len(changes[q])
    <3>1. v + 1 \in 1 .. Len(changes[q])
      BY <1>3, <2>3, <2>5
    <3> QED
      BY <1>3, <2>2, <2>3, <2>5, <3>1 DEF v, q
  <2> QED
    BY <2>4, <2>5
<1> QED
  BY <1>5, <1>6

\* The Clusters of a place change.
LEMMA ClustersChangeInv ==
  ASSUME DiscoveryInv, NEW p \in Places, ClustersChange(p)
  PROVE  DiscoveryInv'
<1>1. /\ UNCHANGED <<now, file, edits, store, pc, since, source, todo, plan, got, answer>>
      /\ changes' = [changes EXCEPT ![p] = Append(@, now)]
      /\ \A q \in Places : Version(q) < MaxChanges
  BY DEF ClustersChange, local
<1>2. TypeOK'
  <2>1. changes \in [Places -> Seq(0 .. MaxTime)] /\ now \in 0 .. MaxTime
    BY DEF DiscoveryInv, TypeOK
  <2>2. ASSUME NEW q \in Places
        PROVE  changes'[q] \in Seq(0 .. MaxTime) /\ Len(changes'[q]) <= MaxChanges
    <3>1. changes[q] \in Seq(0 .. MaxTime) /\ Len(changes[q]) < MaxChanges
      BY <1>1, <2>1 DEF Version
    <3>2. changes'[q] = IF q = p THEN Append(changes[q], now) ELSE changes[q]
      BY <1>1, <2>1
    <3>3. Append(changes[q], now) \in Seq(0 .. MaxTime)
          /\ Len(Append(changes[q], now)) = Len(changes[q]) + 1
      BY <2>1, <3>1
    <3>4. Len(changes[q]) \in Nat /\ MaxChanges \in Nat
      <4>1. Len(changes[q]) \in Nat
        BY <3>1
      <4> QED
        BY <4>1, Constants
    <3>5. Len(changes[q]) + 1 <= MaxChanges /\ Len(changes[q]) <= MaxChanges
      <4>1. \A m, n \in Nat : m < n => m + 1 <= n /\ m <= n
        OBVIOUS
      <4> QED
        BY <3>1, <3>4, <4>1
    <3>6. CASE q = p
      BY <3>2, <3>3, <3>5, <3>6
    <3>7. CASE q # p
      BY <3>1, <3>2, <3>5, <3>7
    <3> QED
      BY <3>6, <3>7
  <2>3. changes' \in [Places -> Seq(0 .. MaxTime)]
    BY <1>1, <2>1, <2>2
  <2>4. \A q \in Places : Len(changes'[q]) <= MaxChanges
    BY <2>2
  <2> QED
    BY <1>1, <2>3, <2>4 DEF DiscoveryInv, TypeOK, Version
<1>3. ProgressInv' /\ CoverInv' /\ RestrictInv'
  BY <1>1 DEF DiscoveryInv, ProgressInv, CoverInv, RestrictInv
<1>4. KeyInv'
  BY <1>1 DEF DiscoveryInv, KeyInv, Place
<1>5. CallInv'
  BY <1>1 DEF DiscoveryInv, CallInv, Busy
<1>6. FreshInv'
  <2>1. /\ now \in Nat /\ TTL \in Nat /\ CallTime \in Nat /\ TTL + CallTime \in Nat
        /\ \A c \in Calls : since[c] \in Nat /\ since[c] <= now
    <3>1. \A c \in Calls : since[c] <= now
      BY DEF DiscoveryInv, CallInv
    <3>2. TTL \in Nat /\ CallTime \in Nat
      BY Constants
    <3>3. TTL + CallTime \in Nat
      BY <3>2
    <3> QED
      BY <3>1, <3>2, <3>3, Numbers
  <2>2. ASSUME NEW k \in Keys, store[k] # None
        PROVE  /\ store[k].expiresAt <= now + TTL
               /\ NotReplacedBefore(store[k].list, store[k].expiresAt, TTL + CallTime)'
    <3>1. /\ store[k].expiresAt <= now + TTL
          /\ NotReplacedBefore(store[k].list, store[k].expiresAt, TTL + CallTime)
      BY <2>2 DEF DiscoveryInv, FreshInv
    <3>2. store[k].list \in ClusterLists /\ store[k].expiresAt \in Nat
      BY <2>2, Numbers
    <3>3. store[k].expiresAt <= now + (TTL + CallTime)
      BY <2>1, <3>1, <3>2
    <3> QED
      BY <1>1, <2>1, <3>1, <3>2, <3>3, ChangeKeepsBound DEF NotReplacedBefore, Version
  <2>3. ASSUME NEW c \in Calls, pc[c] = "set"
        PROVE  NotReplacedBefore(got[c], since[c], 0)'
    <3>1. got[c] \in ClusterLists /\ NotReplacedBefore(got[c], since[c], 0)
      BY <2>3 DEF DiscoveryInv, KeyInv, FreshInv
    <3>2. since[c] <= now + 0
      BY <2>1
    <3> QED
      BY <1>1, <2>1, <3>1, <3>2, ChangeKeepsBound DEF NotReplacedBefore, Version
  <2>4. ASSUME NEW c \in Calls, NEW j \in DOMAIN answer[c]
        PROVE  NotReplacedBefore(answer[c][j], since[c], TTL + CallTime)'
    <3>1. NotReplacedBefore(answer[c][j], since[c], TTL + CallTime)
      BY DEF DiscoveryInv, FreshInv
    <3>2. answer[c][j] \in ClusterLists
      BY Numbers
    <3>3. since[c] <= now + (TTL + CallTime)
      BY <2>1
    <3> QED
      BY <1>1, <2>1, <3>1, <3>2, <3>3, ChangeKeepsBound DEF NotReplacedBefore, Version
  <2> QED
    BY <1>1, <2>2, <2>3, <2>4 DEF FreshInv, NotReplacedBefore, Version
<1> QED
  BY <1>2, <1>3, <1>4, <1>5, <1>6 DEF DiscoveryInv

\* A kubeconfig file is edited.
LEMMA EditFileInv ==
  ASSUME DiscoveryInv, NEW s \in SourceNames, EditFile(s)
  PROVE  DiscoveryInv'
<1>1. /\ UNCHANGED <<now, changes, store, pc, since, source, todo, plan, got, answer>>
      /\ edits < MaxEdits /\ edits' = edits + 1
  BY DEF EditFile, local
<1>2. TypeOK'
  <2>1. PICK f \in Files[s] : file' = [file EXCEPT ![s] = f]
    BY DEF EditFile
  <2>2. DOMAIN file' = SourceNames /\ \A r \in SourceNames : file'[r] \in Files[r]
    BY <2>1 DEF DiscoveryInv, TypeOK
  <2>3. edits' \in 0 .. MaxEdits
    BY <1>1, Constants DEF DiscoveryInv, TypeOK
  <2> QED
    BY <1>1, <2>2, <2>3 DEF DiscoveryInv, TypeOK, Version
<1>3. ProgressInv' /\ CoverInv' /\ RestrictInv'
  BY <1>1 DEF DiscoveryInv, ProgressInv, CoverInv, RestrictInv
<1>4. KeyInv'
  BY <1>1 DEF DiscoveryInv, KeyInv, Place
<1>5. CallInv'
  BY <1>1 DEF DiscoveryInv, CallInv, Busy
<1>6. FreshInv'
  BY <1>1 DEF DiscoveryInv, FreshInv, NotReplacedBefore, Version
<1> QED
  BY <1>2, <1>3, <1>4, <1>5, <1>6 DEF DiscoveryInv

\* Where Goto leads.
LEMMA GotoFacts ==
  ASSUME TypeOK, NEW c \in Calls, NEW i \in 1 .. Len(Sources), NEW contexts \in Seq(Contexts),
         Goto(c, i, contexts)
  PROVE  /\ source' \in [Calls -> 1 .. (Len(Sources) + 1)]
         /\ todo' \in [Calls -> Seq(Contexts)]
         /\ pc' \in [Calls -> {"idle", "contexts", "get", "list", "set", "ok", "err"}]
         /\ \A d \in Calls : d # c =>
              source'[d] = source[d] /\ todo'[d] = todo[d] /\ pc'[d] = pc[d]
         /\ todo'[c] = contexts
         /\ Len(contexts) # 0 => source'[c] = i /\ pc'[c] = "get"
         /\ Len(contexts) = 0 =>
              /\ source'[c] = i + 1
              /\ pc'[c] \in {"contexts", "ok"}
              /\ pc'[c] = "contexts" => i + 1 \in 1 .. Len(Sources)
              /\ pc'[c] = "ok" => i = Len(Sources)
<1> DEFINE next == IF contexts = <<>> THEN i + 1 ELSE i
           label == CASE contexts # <<>> -> "get"
                      [] contexts = <<>> /\ next <= Len(Sources) -> "contexts"
                      [] contexts = <<>> /\ next > Len(Sources) -> "ok"
<1>1. /\ source' = [source EXCEPT ![c] = next]
      /\ todo' = [todo EXCEPT ![c] = contexts]
      /\ pc' = [pc EXCEPT ![c] = label]
  BY DEF Goto
<1>2. Len(contexts) = 0 <=> contexts = <<>>
  BY EmptyIsEmpty
<1>3. Len(Sources) \in Nat /\ i \in Nat
  BY Constants
<1>4. CASE contexts # <<>>
  <2>1. next = i /\ label = "get" /\ i \in 1 .. (Len(Sources) + 1)
    BY <1>3, <1>4
  <2> HIDE DEF next, label
  <2> QED
    BY <1>1, <1>2, <1>4, <2>1 DEF TypeOK
<1>5. CASE contexts = <<>>
  <2>1. /\ next = i + 1 /\ i + 1 \in 1 .. (Len(Sources) + 1)
        /\ \/ i + 1 <= Len(Sources) /\ label = "contexts"
           \/ i + 1 > Len(Sources) /\ label = "ok"
    <3>1. i + 1 <= Len(Sources) \/ i + 1 > Len(Sources)
      BY <1>3
    <3>2. next = i + 1 /\ i + 1 \in 1 .. (Len(Sources) + 1)
      BY <1>3, <1>5
    <3>3. i + 1 <= Len(Sources) => label = "contexts"
      BY <1>5, <3>2
    <3>4. i + 1 > Len(Sources) => label = "ok"
      BY <1>3, <1>5, <3>2
    <3> QED
      BY <3>1, <3>2, <3>3, <3>4
  <2>2. /\ i + 1 <= Len(Sources) => i + 1 \in 1 .. Len(Sources)
        /\ i + 1 > Len(Sources) => i = Len(Sources)
    BY <1>3
  <2> HIDE DEF next, label
  <2>3. /\ source'[c] = i + 1 /\ pc'[c] = label /\ todo'[c] = contexts
        /\ \A d \in Calls : d # c =>
              source'[d] = source[d] /\ todo'[d] = todo[d] /\ pc'[d] = pc[d]
    BY <1>1, <2>1 DEF TypeOK
  <2>4. /\ source' \in [Calls -> 1 .. (Len(Sources) + 1)]
        /\ todo' \in [Calls -> Seq(Contexts)]
        /\ pc' \in [Calls -> {"idle", "contexts", "get", "list", "set", "ok", "err"}]
    BY <1>1, <2>1 DEF TypeOK
  <2> QED
    BY <1>2, <1>5, <2>1, <2>2, <2>3, <2>4
<1> QED
  BY <1>4, <1>5

\* The place a call is at is a place.
LEMMA AtAPlace ==
  ASSUME DiscoveryInv, NEW c \in Calls, pc[c] \in AtPlace
  PROVE  /\ Place(c) \in Places /\ ClusterListKey(Place(c)) \in Keys
         /\ source[c] \in 1 .. Len(Sources)
         /\ todo[c] \in Seq(Contexts) /\ Len(todo[c]) > 0 /\ Head(todo[c]) = todo[c][1]
         /\ Busy(c)
<1>1. Busy(c)
  BY DEF AtPlace, Busy
<1>2. source[c] \in 1 .. Len(Sources) /\ Len(todo[c]) > 0 /\ todo[c] \in Seq(Contexts)
  BY <1>1 DEF DiscoveryInv, ProgressInv, Progress, TypeOK, Busy
<1>3. Head(todo[c]) = todo[c][1] /\ todo[c][1] \in Contexts
  BY <1>2
<1>4. Sources[source[c]] \in SourceNames
  BY <1>2, Constants
<1>5. Place(c) \in Places
  BY <1>3, <1>4, Constants DEF Place
<1> QED
  BY <1>1, <1>2, <1>3, <1>5 DEF Keys

\* A call begins.
LEMMA BeginInv ==
  ASSUME DiscoveryInv, NEW c \in Calls, Begin(c)
  PROVE  DiscoveryInv'
<1>1. /\ UNCHANGED <<now, changes, file, edits, store, source, todo, plan, got, answer>>
      /\ pc[c] = "idle"
      /\ pc' = [pc EXCEPT ![c] = "contexts"] /\ since' = [since EXCEPT ![c] = now]
  BY DEF Begin, env
<1>2. /\ pc'[c] = "contexts" /\ since'[c] = now
      /\ \A d \in Calls : d # c => pc'[d] = pc[d] /\ since'[d] = since[d]
  BY <1>1 DEF DiscoveryInv, TypeOK
<1>3. answer[c] = <<>> /\ plan[c] = <<>> /\ source[c] = 1
  BY <1>1 DEF DiscoveryInv, ProgressInv, Progress
<1>4. TypeOK'
  BY <1>1 DEF DiscoveryInv, TypeOK, Version
<1>5. ProgressInv'
  <2> SUFFICES ASSUME NEW d \in Calls
               PROVE  Progress(pc'[d], source[d], todo[d], plan[d], answer[d])
    BY <1>1 DEF ProgressInv
  <2>1. CASE d = c
    <3>1. 1 \in 1 .. Len(Sources)
      BY Constants
    <3> QED
      BY <1>2, <1>3, <2>1, <3>1 DEF Progress, AtPlace
  <2>2. CASE d # c
    BY <1>2, <2>2 DEF DiscoveryInv, ProgressInv
  <2> QED
    BY <2>1, <2>2
<1>6. CoverInv'
  <2>1. \A d \in Calls : pc'[d] \in AtPlace => pc[d] \in AtPlace
    BY <1>2 DEF AtPlace
  <2> QED
    BY <1>1, <2>1 DEF DiscoveryInv, CoverInv
<1>7. RestrictInv'
  BY <1>1 DEF DiscoveryInv, RestrictInv
<1>8. KeyInv'
  <2>1. \A d \in Calls : pc'[d] = "set" => pc[d] = "set"
    BY <1>2
  <2> QED
    BY <1>1, <2>1 DEF DiscoveryInv, KeyInv, Place
<1>9. CallInv'
  <2>1. now \in Nat /\ CallTime \in Nat /\ now <= now /\ now <= now + CallTime
    BY Numbers, Constants
  <2> QED
    BY <1>1, <1>2, <2>1 DEF DiscoveryInv, CallInv, Busy
<1>10. FreshInv'
  <2>1. \A d \in Calls : pc'[d] = "set" => pc[d] = "set" /\ since'[d] = since[d]
    BY <1>2
  <2>2. \A d \in Calls : \A j \in DOMAIN answer[d] : since'[d] = since[d]
    BY <1>2, <1>3
  <2> QED
    BY <1>1, <2>1, <2>2 DEF DiscoveryInv, FreshInv, NotReplacedBefore, Version
<1> QED
  BY <1>4, <1>5, <1>6, <1>7, <1>8, <1>9, <1>10 DEF DiscoveryInv

\* A call comes to its next kubeconfig.
LEMMA NextSourceInv ==
  ASSUME DiscoveryInv, NEW c \in Calls, NextSource(c)
  PROVE  DiscoveryInv'
<1> DEFINE s == Sources[source[c]]
           contexts == ResolveContexts(s)
           n == Len(contexts)
           new == [i \in 1 .. n |-> [name |-> s, context |-> contexts[i]]]
           P == plan[c]
           m == Len(P)
<1>1. /\ UNCHANGED <<now, changes, file, edits, store, since, got, answer>>
      /\ pc[c] = "contexts" /\ contexts # Unreadable
      /\ plan' = [plan EXCEPT ![c] = P \o new]
      /\ Goto(c, source[c], contexts)
  BY DEF NextSource, env
<1>2. source[c] \in 1 .. Len(Sources) /\ Len(P) = Len(answer[c])
  BY <1>1 DEF DiscoveryInv, ProgressInv, Progress
<1>3. s \in SourceNames /\ TypeOK
  BY <1>2, Constants DEF DiscoveryInv
<1>4. /\ contexts \in Seq(Contexts)
      /\ contexts = <<>> => <<>> \in Files[s]
      /\ Restricts(RawContexts[s]) =>
           \A i \in DOMAIN contexts : Contains(RawContexts[s].items, contexts[i])
  BY <1>1, <1>3, ResolveContextsFacts
<1> HIDE DEF contexts, s
<1>5. /\ source' \in [Calls -> 1 .. (Len(Sources) + 1)]
      /\ todo' \in [Calls -> Seq(Contexts)]
      /\ pc' \in [Calls -> {"idle", "contexts", "get", "list", "set", "ok", "err"}]
      /\ \A d \in Calls : d # c =>
           source'[d] = source[d] /\ todo'[d] = todo[d] /\ pc'[d] = pc[d]
      /\ todo'[c] = contexts
      /\ n # 0 => source'[c] = source[c] /\ pc'[c] = "get"
      /\ n = 0 => /\ source'[c] = source[c] + 1
                  /\ pc'[c] \in {"contexts", "ok"}
                  /\ pc'[c] = "contexts" => source[c] + 1 \in 1 .. Len(Sources)
                  /\ pc'[c] = "ok" => source[c] = Len(Sources)
  BY <1>1, <1>2, <1>3, <1>4, GotoFacts
<1>6. n \in Nat /\ DOMAIN contexts = 1 .. n /\ \A i \in 1 .. n : contexts[i] \in Contexts
  BY <1>4
<1>7. /\ new \in Seq(Places) /\ Len(new) = n
      /\ \A i \in 1 .. n : new[i] = [name |-> s, context |-> contexts[i]]
  <2>1. \A i \in 1 .. n : [name |-> s, context |-> contexts[i]] \in Places
    BY <1>3, <1>6, Constants
  <2> QED
    BY <1>6, <2>1
<1>8. P \in Seq(Places) /\ m \in Nat /\ DOMAIN P = 1 .. m
  BY DEF DiscoveryInv, TypeOK
<1> HIDE DEF new, n, P, m
<1> DEFINE Q == P \o new
<1>9. /\ Q \in Seq(Places) /\ Len(Q) = m + n /\ DOMAIN Q = 1 .. (m + n)
      /\ \A i \in 1 .. m : Q[i] = P[i]
      /\ \A i \in 1 .. n : Q[m + i] = new[i]
  BY <1>7, <1>8, <1>6 DEF m
<1>10. plan'[c] = Q /\ \A d \in Calls : d # c => plan'[d] = plan[d]
  BY <1>1 DEF DiscoveryInv, TypeOK
<1>11. plan' \in [Calls -> Seq(Places)]
  BY <1>1, <1>9 DEF DiscoveryInv, TypeOK
<1> HIDE DEF Q
<1>12. TypeOK'
  BY <1>1, <1>5, <1>11 DEF DiscoveryInv, TypeOK, Version
<1>13. ProgressInv'
  <2> SUFFICES ASSUME NEW d \in Calls
               PROVE  Progress(pc'[d], source'[d], todo'[d], plan'[d], answer[d])
    BY <1>1 DEF ProgressInv
  <2>1. CASE d # c
    BY <1>5, <1>10, <2>1 DEF DiscoveryInv, ProgressInv
  <2>2. CASE d = c /\ n # 0
    <3>1. /\ pc'[c] = "get" /\ source'[c] = source[c] /\ todo'[c] = contexts
          /\ Len(answer[c]) = m /\ Len(contexts) = n /\ Len(contexts) > 0
      BY <1>2, <1>5, <1>6, <2>2 DEF m, n, P
    <3>2. Len(Q) = Len(answer[c]) + Len(contexts)
      BY <1>9, <3>1
    <3>3. \A k \in 1 .. Len(contexts) :
            Q[Len(answer[c]) + k] = [name |-> Sources[source[c]], context |-> contexts[k]]
      BY <1>7, <1>9, <3>1 DEF s
    <3> QED
      BY <1>2, <1>10, <2>2, <3>1, <3>2, <3>3 DEF Progress, AtPlace
  <2>3. CASE d = c /\ n = 0
    <3>1. Len(Q) = Len(answer[c])
      BY <1>2, <1>8, <1>9, <2>3 DEF m, P
    <3> QED
      BY <1>5, <1>10, <2>3, <3>1 DEF Progress, AtPlace
  <2> QED
    BY <2>1, <2>2, <2>3
<1>14. CoverInv'
  <2> SUFFICES ASSUME NEW d \in Calls, NEW i \in 1 .. Len(Sources),
                      i < source'[d] \/ (i = source'[d] /\ pc'[d] \in AtPlace)
               PROVE  \/ <<>> \in Files[Sources[i]]
                      \/ \E j \in DOMAIN plan'[d] : plan'[d][j].name = Sources[i]
    BY DEF CoverInv
  <2>1. CASE d # c
    <3>1. source'[d] = source[d] /\ pc'[d] = pc[d] /\ plan'[d] = plan[d]
      BY <1>5, <1>10, <2>1
    <3>2. i < source[d] \/ (i = source[d] /\ pc[d] \in AtPlace)
      BY <3>1
    <3> QED
      BY <3>1, <3>2 DEF DiscoveryInv, CoverInv
  <2>2. CASE d = c /\ i < source[c]
    <3>1. \/ <<>> \in Files[Sources[i]]
          \/ \E j \in DOMAIN P : P[j].name = Sources[i]
      BY <2>2 DEF DiscoveryInv, CoverInv, P
    <3>2. \A j \in DOMAIN P : j \in DOMAIN Q /\ Q[j] = P[j]
      BY <1>6, <1>8, <1>9
    <3> QED
      BY <1>10, <2>2, <3>1, <3>2
  <2>3. CASE d = c /\ ~(i < source[c])
    <3>1. i = source[c] /\ Sources[i] = s
      <4>1. source'[c] = source[c] \/ source'[c] = source[c] + 1
        BY <1>5
      <4>2. i < source'[c] \/ i = source'[c]
        BY <2>3, Constants
      <4>3. ~(i < source[c]) /\ source[c] \in Nat /\ i \in Nat
        BY <1>2, <2>3, Constants
      <4>4. CASE source'[c] = source[c]
        BY <4>2, <4>3, <4>4 DEF s
      <4>5. CASE source'[c] = source[c] + 1
        <5>1. n = 0
          BY <1>5, <4>3, <4>5
        <5>2. pc'[c] \notin AtPlace
          BY <1>5, <5>1 DEF AtPlace
        <5>3. i < source[c] + 1
          BY <2>3, <4>5, <5>2
        <5>4. i = source[c]
          BY <4>3, <5>3
        <5> QED
          BY <5>4 DEF s
      <4> QED
        BY <4>1, <4>4, <4>5
    <3>2. CASE n = 0
      <4>1. contexts = <<>>
        BY <1>4, <3>2, EmptyIsEmpty DEF n
      <4> QED
        BY <1>4, <3>1, <4>1
    <3>3. CASE n # 0
      <4>1. 1 \in 1 .. n /\ m + 1 \in 1 .. (m + n)
        BY <1>6, <1>8, <3>3
      <4>2. Q[m + 1] = [name |-> s, context |-> contexts[1]] /\ m + 1 \in DOMAIN Q
        BY <1>7, <1>9, <4>1
      <4>3. Q[m + 1].name = s
        BY <4>2
      <4> QED
        BY <1>10, <2>3, <3>1, <4>2, <4>3
    <3> QED
      BY <3>2, <3>3
  <2> QED
    BY <2>1, <2>2, <2>3
<1>15. RestrictInv'
  <2> SUFFICES ASSUME NEW d \in Calls, NEW i \in DOMAIN plan'[d],
                      Restricts(RawContexts[plan'[d][i].name])
               PROVE  Contains(RawContexts[plan'[d][i].name].items, plan'[d][i].context)
    BY DEF RestrictInv
  <2>1. CASE d # c
    BY <1>10, <2>1 DEF DiscoveryInv, RestrictInv
  <2>2. CASE d = c /\ i \in 1 .. m
    <3>1. plan'[d][i] = plan[c][i] /\ i \in DOMAIN plan[c]
      BY <1>8, <1>9, <1>10, <2>2 DEF P
    <3> QED
      BY <3>1 DEF DiscoveryInv, RestrictInv
  <2>3. CASE d = c /\ ~(i \in 1 .. m)
    <3>1. i - m \in 1 .. n /\ m + (i - m) = i
      BY <1>6, <1>8, <1>9, <1>10, <2>3
    <3>2. plan'[d][i] = [name |-> s, context |-> contexts[i - m]]
      BY <1>7, <1>9, <1>10, <2>3, <3>1
    <3>3. plan'[d][i].name = s /\ plan'[d][i].context = contexts[i - m]
      BY <3>2
    <3> QED
      BY <1>4, <1>6, <3>1, <3>3
  <2> QED
    BY <2>1, <2>2, <2>3
<1>16. KeyInv'
  <2>1. ASSUME NEW d \in Calls, pc'[d] = "set"
        PROVE  got[d] \in ClusterLists
               /\ got[d].of = [name |-> Sources[source'[d]], context |-> Head(todo'[d])]
    <3>1. d # c
      BY <1>5, <2>1
    <3> QED
      BY <1>5, <2>1, <3>1 DEF DiscoveryInv, KeyInv, Place
  <2>2. ASSUME NEW d \in Calls, NEW j \in DOMAIN answer[d]
        PROVE  /\ j \in DOMAIN plan'[d]
               /\ ClusterListKey(answer[d][j].of) = ClusterListKey(plan'[d][j])
    <3>1. j \in DOMAIN plan[d] /\ ClusterListKey(answer[d][j].of) = ClusterListKey(plan[d][j])
      BY DEF DiscoveryInv, KeyInv
    <3>2. CASE d # c
      BY <1>10, <3>1, <3>2
    <3>3. CASE d = c
      <4>1. j \in DOMAIN Q /\ Q[j] = plan[c][j]
        BY <1>6, <1>8, <1>9, <3>1, <3>3 DEF P
      <4> QED
        BY <1>10, <3>1, <3>3, <4>1
    <3> QED
      BY <3>2, <3>3
  <2> QED
    BY <1>1, <2>1, <2>2 DEF DiscoveryInv, KeyInv, Place
<1>17. CallInv'
  <2>1. \A d \in Calls : Busy(d)' => Busy(d)
    BY <1>1, <1>5 DEF Busy
  <2> QED
    BY <1>1, <2>1 DEF DiscoveryInv, CallInv
<1>18. FreshInv'
  <2>1. \A d \in Calls : pc'[d] = "set" => pc[d] = "set"
    BY <1>5
  <2> QED
    BY <1>1, <2>1 DEF DiscoveryInv, FreshInv, NotReplacedBefore, Version
<1> QED
  BY <1>12, <1>13, <1>14, <1>15, <1>16, <1>17, <1>18 DEF DiscoveryInv

\* The part of the invariant that a call has of its own.
CollectedInv ==
  /\ ProgressInv /\ CoverInv /\ RestrictInv
  /\ \A c \in Calls : \A j \in DOMAIN answer[c] :
       /\ j \in DOMAIN plan[c] /\ ClusterListKey(answer[c][j].of) = ClusterListKey(plan[c][j])
       /\ NotReplacedBefore(answer[c][j], since[c], TTL + CallTime)

\* The list of a place is complete, from the cache or not.
LEMMA CollectInv ==
  ASSUME DiscoveryInv, NEW c \in Calls, pc[c] \in AtPlace, NEW l \in ClusterLists,
         Collect(c, l), UNCHANGED env,
         ClusterListKey(l.of) = ClusterListKey(Place(c)),
         NotReplacedBefore(l, since[c], TTL + CallTime)
  PROVE  /\ source' \in [Calls -> 1 .. (Len(Sources) + 1)]
         /\ todo' \in [Calls -> Seq(Contexts)]
         /\ pc' \in [Calls -> {"idle", "contexts", "get", "list", "set", "ok", "err"}]
         /\ answer' \in [Calls -> Seq(ClusterLists)]
         /\ UNCHANGED <<since, plan>>
         /\ \A d \in Calls : d # c =>
              source'[d] = source[d] /\ todo'[d] = todo[d] /\ pc'[d] = pc[d]
         /\ pc'[c] \in {"get", "contexts", "ok"}
         /\ CollectedInv'
<1> DEFINE A == answer[c]
           a == Len(A)
           B == Append(A, l)
           T == todo[c]
           U == Tail(T)
           n == Len(U)
<1>1. /\ UNCHANGED <<now, changes, since, plan>>
      /\ answer' = [answer EXCEPT ![c] = B]
      /\ Goto(c, source[c], U)
  BY DEF Collect, env
<1>2. /\ source[c] \in 1 .. Len(Sources) /\ T \in Seq(Contexts) /\ Len(T) > 0
      /\ Place(c) = [name |-> Sources[source[c]], context |-> T[1]]
  BY AtAPlace DEF Place
<1>3. /\ Len(plan[c]) = a + Len(T)
      /\ \A k \in 1 .. Len(T) :
           plan[c][a + k] = [name |-> Sources[source[c]], context |-> T[k]]
  BY DEF DiscoveryInv, ProgressInv, Progress
<1>4. A \in Seq(ClusterLists) /\ a \in Nat /\ DOMAIN A = 1 .. a
  BY DEF DiscoveryInv, TypeOK
<1>5. plan[c] \in Seq(Places) /\ DOMAIN plan[c] = 1 .. Len(plan[c])
  BY DEF DiscoveryInv, TypeOK
<1>6. U \in Seq(Contexts) /\ n \in Nat /\ Len(T) = n + 1 /\ \A k \in 1 .. n : U[k] = T[k + 1]
  BY <1>2
<1>7. /\ B \in Seq(ClusterLists) /\ Len(B) = a + 1 /\ DOMAIN B = 1 .. (a + 1)
      /\ B[a + 1] = l /\ \A j \in 1 .. a : B[j] = A[j]
  BY <1>4
<1> HIDE DEF A, a, B, T, U, n
<1>8. /\ source' \in [Calls -> 1 .. (Len(Sources) + 1)]
      /\ todo' \in [Calls -> Seq(Contexts)]
      /\ pc' \in [Calls -> {"idle", "contexts", "get", "list", "set", "ok", "err"}]
      /\ \A d \in Calls : d # c =>
           source'[d] = source[d] /\ todo'[d] = todo[d] /\ pc'[d] = pc[d]
      /\ todo'[c] = U
      /\ n # 0 => source'[c] = source[c] /\ pc'[c] = "get"
      /\ n = 0 => /\ source'[c] = source[c] + 1
                  /\ pc'[c] \in {"contexts", "ok"}
                  /\ pc'[c] = "contexts" => source[c] + 1 \in 1 .. Len(Sources)
                  /\ pc'[c] = "ok" => source[c] = Len(Sources)
  BY <1>1, <1>2, <1>6, GotoFacts DEF DiscoveryInv, n
<1>9. /\ answer'[c] = B /\ \A d \in Calls : d # c => answer'[d] = answer[d]
      /\ answer' \in [Calls -> Seq(ClusterLists)]
  BY <1>1, <1>7 DEF DiscoveryInv, TypeOK
<1>10. ProgressInv'
  <2> SUFFICES ASSUME NEW d \in Calls
               PROVE  Progress(pc'[d], source'[d], todo'[d], plan[d], answer'[d])
    BY <1>1 DEF ProgressInv
  <2>1. CASE d # c
    BY <1>8, <1>9, <2>1 DEF DiscoveryInv, ProgressInv
  <2>2. CASE d = c /\ n # 0
    <3>1. /\ pc'[c] = "get" /\ source'[c] = source[c] /\ todo'[c] = U /\ Len(U) = n
          /\ Len(U) > 0
      BY <1>6, <1>8, <2>2 DEF n
    <3>2. Len(plan[c]) = Len(B) + Len(U)
      BY <1>3, <1>4, <1>6, <1>7, <3>1
    <3>3. ASSUME NEW k \in 1 .. Len(U)
          PROVE  plan[c][Len(B) + k] = [name |-> Sources[source[c]], context |-> U[k]]
      <4>1. k \in 1 .. n /\ k + 1 \in 1 .. Len(T) /\ Len(B) + k = a + (k + 1)
        BY <1>4, <1>6, <1>7, <3>1
      <4> QED
        BY <1>3, <1>6, <4>1
    <3> QED
      BY <1>2, <1>9, <2>2, <3>1, <3>2, <3>3 DEF Progress, AtPlace
  <2>3. CASE d = c /\ n = 0
    <3>1. Len(plan[c]) = Len(B)
      BY <1>3, <1>4, <1>6, <1>7, <2>3
    <3> QED
      BY <1>8, <1>9, <2>3, <3>1 DEF Progress, AtPlace
  <2> QED
    BY <2>1, <2>2, <2>3
<1>11. CoverInv'
  <2> SUFFICES ASSUME NEW d \in Calls, NEW i \in 1 .. Len(Sources),
                      i < source'[d] \/ (i = source'[d] /\ pc'[d] \in AtPlace)
               PROVE  i < source[d] \/ (i = source[d] /\ pc[d] \in AtPlace)
    BY <1>1 DEF DiscoveryInv, CoverInv
  <2>1. CASE d # c
    BY <1>8, <2>1
  <2>2. CASE d = c
    <3>1. i \in Nat /\ source[c] \in Nat
      BY Numbers
    <3>2. CASE n # 0
      BY <1>8, <2>2, <3>2
    <3>3. CASE n = 0
      <4>1. source'[c] = source[c] + 1 /\ pc'[c] \notin AtPlace
        BY <1>8, <3>3 DEF AtPlace
      <4>2. i < source[c] + 1
        BY <2>2, <4>1
      <4>3. i < source[c] \/ i = source[c]
        BY <3>1, <4>2
      <4> QED
        BY <2>2, <4>3
    <3> QED
      BY <3>2, <3>3
  <2> QED
    BY <2>1, <2>2
<1>12. RestrictInv'
  BY <1>1 DEF DiscoveryInv, RestrictInv
<1>13. ASSUME NEW d \in Calls, NEW j \in DOMAIN answer'[d]
       PROVE  /\ j \in DOMAIN plan[d]
              /\ ClusterListKey(answer'[d][j].of) = ClusterListKey(plan[d][j])
              /\ NotReplacedBefore(answer'[d][j], since[d], TTL + CallTime)
  <2>1. CASE d # c
    BY <1>9, <2>1 DEF DiscoveryInv, KeyInv, FreshInv
  <2>2. CASE d = c /\ j \in 1 .. a
    <3>1. answer'[d][j] = answer[d][j] /\ j \in DOMAIN answer[d]
      BY <1>4, <1>7, <1>9, <2>2 DEF A
    <3> QED
      BY <3>1 DEF DiscoveryInv, KeyInv, FreshInv
  <2>3. CASE d = c /\ ~(j \in 1 .. a)
    <3>1. j = a + 1
      BY <1>4, <1>7, <1>9, <2>3
    <3>2. answer'[d][j] = l
      BY <1>7, <1>9, <2>3, <3>1
    <3>3. 1 \in 1 .. Len(T) /\ j \in 1 .. Len(plan[c])
      BY <1>3, <1>4, <1>6, <3>1
    <3>4. plan[c][j] = Place(c)
      BY <1>2, <1>3, <3>1, <3>3
    <3> QED
      BY <1>5, <2>3, <3>2, <3>3, <3>4
  <2> QED
    BY <2>1, <2>2, <2>3
<1>14. CollectedInv'
  BY <1>1, <1>10, <1>11, <1>12, <1>13 DEF CollectedInv, NotReplacedBefore, Version
<1>15. pc'[c] \in {"get", "contexts", "ok"}
  BY <1>8
<1> QED
  BY <1>1, <1>8, <1>9, <1>14, <1>15

\* The list of the place is in the cache.
LEMMA CacheHitInv ==
  ASSUME DiscoveryInv, NEW c \in Calls, CacheHit(c)
  PROVE  DiscoveryInv'
<1> DEFINE k == ClusterListKey(Place(c))
           l == store[k].list
<1>1. /\ pc[c] \in AtPlace /\ store[k] # None /\ now <= store[k].expiresAt
      /\ Collect(c, l) /\ UNCHANGED env /\ UNCHANGED <<store, got>>
      /\ UNCHANGED <<now, changes, file, edits>>
  BY DEF CacheHit, Live, AtPlace, env
<1>2. k \in Keys
  BY <1>1, AtAPlace
<1>3. /\ l \in ClusterLists /\ ClusterListKey(l.of) = k
      /\ NotReplacedBefore(l, store[k].expiresAt, TTL + CallTime)
  BY <1>1, <1>2, Numbers DEF DiscoveryInv, KeyInv, FreshInv
<1>4. NotReplacedBefore(l, since[c], TTL + CallTime)
  <2>1. since[c] <= now /\ since[c] \in Nat /\ now \in Nat /\ store[k].expiresAt \in Nat
    BY <1>1, <1>2, Numbers DEF DiscoveryInv, CallInv
  <2>2. since[c] <= store[k].expiresAt
    BY <1>1, <2>1
  <2>3. l.of \in Places /\ l.version \in Nat /\ TTL + CallTime \in Nat
    <3>1. TTL \in Nat /\ CallTime \in Nat
      BY Constants
    <3> QED
      BY <1>3, <3>1, ListFacts
  <2>4. changes[l.of] \in Seq(Nat) /\ Version(l.of) = Len(changes[l.of])
    BY <2>3, Numbers DEF Version
  <2>5. CASE l.version = Version(l.of)
    BY <1>3, <2>5 DEF NotReplacedBefore
  <2>6. CASE l.version # Version(l.of)
    <3>1. /\ l.version <= Version(l.of)
          /\ store[k].expiresAt <= changes[l.of][l.version + 1] + (TTL + CallTime)
      BY <1>3, <2>6 DEF NotReplacedBefore
    <3>2. l.version + 1 \in 1 .. Len(changes[l.of])
      <4>1. \A v, m \in Nat : v <= m /\ v # m => v + 1 \in 1 .. m
        OBVIOUS
      <4>2. l.version \in Nat /\ Len(changes[l.of]) \in Nat
        BY <2>3, <2>4
      <4> QED
        BY <2>4, <2>6, <3>1, <4>1, <4>2
    <3>3. changes[l.of][l.version + 1] \in Nat
      BY <2>4, <3>2
    <3>4. since[c] <= changes[l.of][l.version + 1] + (TTL + CallTime)
      BY <2>1, <2>2, <2>3, <3>1, <3>3
    <3> QED
      BY <3>1, <3>4 DEF NotReplacedBefore
  <2> QED
    BY <2>5, <2>6
<1> HIDE DEF l, k
<1>5. /\ source' \in [Calls -> 1 .. (Len(Sources) + 1)]
      /\ todo' \in [Calls -> Seq(Contexts)]
      /\ pc' \in [Calls -> {"idle", "contexts", "get", "list", "set", "ok", "err"}]
      /\ answer' \in [Calls -> Seq(ClusterLists)]
      /\ UNCHANGED <<since, plan>>
      /\ \A d \in Calls : d # c =>
           source'[d] = source[d] /\ todo'[d] = todo[d] /\ pc'[d] = pc[d]
      /\ pc'[c] \in {"get", "contexts", "ok"}
      /\ CollectedInv'
  BY <1>1, <1>3, <1>4, CollectInv DEF k
<1>6. TypeOK'
  BY <1>1, <1>5 DEF DiscoveryInv, TypeOK, Version
<1>7. \A d \in Calls : pc'[d] = "set" => d # c /\ pc[d] = "set"
  BY <1>5
<1>8. KeyInv'
  <2>1. \A d \in Calls : pc'[d] = "set" =>
          got[d] \in ClusterLists
          /\ got[d].of = [name |-> Sources[source'[d]], context |-> Head(todo'[d])]
    BY <1>5, <1>7 DEF DiscoveryInv, KeyInv, Place
  <2> QED
    BY <1>1, <1>5, <2>1 DEF DiscoveryInv, KeyInv, CollectedInv, Place
<1>9. CallInv'
  <2>1. \A d \in Calls : Busy(d)' => Busy(d)
    BY <1>1, <1>5 DEF Busy, AtPlace
  <2> QED
    BY <1>1, <1>5, <2>1 DEF DiscoveryInv, CallInv
<1>10. FreshInv'
  BY <1>1, <1>5, <1>7 DEF DiscoveryInv, FreshInv, CollectedInv, NotReplacedBefore, Version
<1> QED
  BY <1>5, <1>6, <1>8, <1>9, <1>10 DEF DiscoveryInv, CollectedInv

\* A step of a call from one label to another that leaves what it has collected
\* alone.
LEMMA LabelInv ==
  ASSUME DiscoveryInv, NEW c \in Calls, pc[c] \in AtPlace, NEW at \in AtPlace,
         pc' = [pc EXCEPT ![c] = at], UNCHANGED <<changes, local, answer>>
  PROVE  /\ pc' \in [Calls -> {"idle", "contexts", "get", "list", "set", "ok", "err"}]
         /\ pc'[c] = at /\ \A d \in Calls : d # c => pc'[d] = pc[d]
         /\ \A d \in Calls : Busy(d)' => Busy(d)
         /\ CollectedInv'
<1>1. UNCHANGED <<changes, since, source, todo, plan, answer>>
  BY DEF local
<1>2. /\ pc' \in [Calls -> {"idle", "contexts", "get", "list", "set", "ok", "err"}]
      /\ pc'[c] = at /\ \A d \in Calls : d # c => pc'[d] = pc[d]
  BY DEF DiscoveryInv, TypeOK, AtPlace
<1>3. \A d \in Calls : Busy(d)' => Busy(d)
  BY <1>2 DEF Busy, AtPlace
<1>4. ProgressInv'
  <2> SUFFICES ASSUME NEW d \in Calls
               PROVE  Progress(pc'[d], source[d], todo[d], plan[d], answer[d])
    BY <1>1 DEF ProgressInv
  <2>1. Progress(pc[d], source[d], todo[d], plan[d], answer[d])
    BY DEF DiscoveryInv, ProgressInv
  <2>2. CASE d # c
    BY <1>2, <2>1, <2>2
  <2>3. CASE d = c
    BY <1>2, <2>1, <2>3 DEF Progress, AtPlace
  <2> QED
    BY <2>2, <2>3
<1>5. CoverInv'
  <2>1. \A d \in Calls : pc'[d] \in AtPlace => pc[d] \in AtPlace
    BY <1>2
  <2> QED
    BY <1>1, <2>1 DEF DiscoveryInv, CoverInv
<1>6. RestrictInv'
  BY <1>1 DEF DiscoveryInv, RestrictInv
<1>7. \A d \in Calls : \A j \in DOMAIN answer[d] :
        /\ j \in DOMAIN plan[d] /\ ClusterListKey(answer[d][j].of) = ClusterListKey(plan[d][j])
        /\ NotReplacedBefore(answer[d][j], since[d], TTL + CallTime)
  BY DEF DiscoveryInv, KeyInv, FreshInv
<1>8. CollectedInv'
  BY <1>1, <1>4, <1>5, <1>6, <1>7 DEF CollectedInv, NotReplacedBefore, Version
<1> QED
  BY <1>2, <1>3, <1>8

\* The list of the place is not in the cache, or no longer.
LEMMA CacheMissInv ==
  ASSUME DiscoveryInv, NEW c \in Calls, CacheMiss(c)
  PROVE  DiscoveryInv'
<1> DEFINE k == ClusterListKey(Place(c))
<1>1. /\ pc[c] \in AtPlace /\ "list" \in AtPlace
      /\ store' = [store EXCEPT ![k] = None] /\ pc' = [pc EXCEPT ![c] = "list"]
      /\ UNCHANGED <<now, changes, file, edits, since, source, todo, plan, got, answer>>
      /\ UNCHANGED <<changes, local, answer>>
  BY DEF CacheMiss, AtPlace, env, local
<1>2. /\ pc' \in [Calls -> {"idle", "contexts", "get", "list", "set", "ok", "err"}]
      /\ pc'[c] = "list" /\ \A d \in Calls : d # c => pc'[d] = pc[d]
      /\ \A d \in Calls : Busy(d)' => Busy(d)
      /\ CollectedInv'
  BY <1>1, LabelInv
<1>3. /\ \A i \in Keys : store'[i] # None => store[i] # None /\ store'[i] = store[i]
      /\ store' \in [Keys -> [list : ClusterLists, expiresAt : 0 .. (MaxTime + TTL)] \cup {None}]
  BY <1>1 DEF DiscoveryInv, TypeOK
<1>4. TypeOK'
  BY <1>1, <1>2, <1>3 DEF DiscoveryInv, TypeOK, Version
<1>5. \A d \in Calls : pc'[d] = "set" => pc[d] = "set"
  BY <1>2
<1>6. KeyInv'
  BY <1>1, <1>2, <1>3, <1>5 DEF DiscoveryInv, KeyInv, CollectedInv, Place
<1>7. CallInv'
  BY <1>1, <1>2 DEF DiscoveryInv, CallInv
<1>8. FreshInv'
  BY <1>1, <1>2, <1>3, <1>5 DEF DiscoveryInv, FreshInv, CollectedInv, NotReplacedBefore, Version
<1> QED
  BY <1>2, <1>4, <1>6, <1>7, <1>8 DEF DiscoveryInv, CollectedInv

\* The place is asked for its clusters.
LEMMA ListClustersInv ==
  ASSUME DiscoveryInv, NEW c \in Calls, ListClusters(c)
  PROVE  DiscoveryInv'
<1> DEFINE p == Place(c)
           l == ListOf(p, Version(p))
<1>1. /\ pc[c] \in AtPlace /\ "set" \in AtPlace
      /\ got' = [got EXCEPT ![c] = l] /\ pc' = [pc EXCEPT ![c] = "set"]
      /\ UNCHANGED <<now, changes, file, edits, store, since, source, todo, plan, answer>>
      /\ UNCHANGED <<changes, local, answer>>
  BY DEF ListClusters, AtPlace, env, local
<1>2. /\ pc' \in [Calls -> {"idle", "contexts", "get", "list", "set", "ok", "err"}]
      /\ pc'[c] = "set" /\ \A d \in Calls : d # c => pc'[d] = pc[d]
      /\ \A d \in Calls : Busy(d)' => Busy(d)
      /\ CollectedInv'
  BY <1>1, LabelInv
<1>3. p \in Places
  BY <1>1, AtAPlace
<1>4. l \in ClusterLists /\ l.of = p /\ l.version = Version(p)
  <2>1. Version(p) \in 0 .. MaxChanges
    <3>1. Version(p) <= MaxChanges /\ Version(p) \in Nat /\ MaxChanges \in Nat
      BY <1>3, Numbers, Constants DEF DiscoveryInv, TypeOK
    <3> QED
      BY <3>1
  <2>2. l \in ClusterLists
    BY <1>3, <2>1 DEF ClusterLists
  <2>3. l.of = p /\ l.version = Version(p)
    BY DEF ListOf
  <2> QED
    BY <2>2, <2>3
<1> HIDE DEF l
<1>5. /\ got'[c] = l /\ \A d \in Calls : d # c => got'[d] = got[d]
      /\ got' \in [Calls -> ClusterLists \cup {None}]
  BY <1>1, <1>4 DEF DiscoveryInv, TypeOK
<1>6. TypeOK'
  BY <1>1, <1>2, <1>5 DEF DiscoveryInv, TypeOK, Version
<1>7. KeyInv'
  <2>1. ASSUME NEW d \in Calls, pc'[d] = "set"
        PROVE  got'[d] \in ClusterLists /\ got'[d].of = Place(d)
    <3>1. CASE d = c
      BY <1>4, <1>5, <3>1
    <3>2. CASE d # c
      BY <1>2, <1>5, <2>1, <3>2 DEF DiscoveryInv, KeyInv
    <3> QED
      BY <3>1, <3>2
  <2> QED
    BY <1>1, <1>2, <2>1 DEF DiscoveryInv, KeyInv, CollectedInv, Place
<1>8. CallInv'
  BY <1>1, <1>2 DEF DiscoveryInv, CallInv
<1>9. FreshInv'
  <2>1. ASSUME NEW d \in Calls, pc'[d] = "set"
        PROVE  NotReplacedBefore(got'[d], since[d], 0)
    <3>1. CASE d = c
      <4>1. Version(p) \in Nat
        BY <1>3, Numbers
      <4>2. l.version <= Version(l.of) /\ l.version = Version(l.of)
        BY <1>4, <4>1
      <4> QED
        BY <1>5, <3>1, <4>2 DEF NotReplacedBefore
    <3>2. CASE d # c
      BY <1>2, <1>5, <2>1, <3>2 DEF DiscoveryInv, FreshInv
    <3> QED
      BY <3>1, <3>2
  <2> QED
    BY <1>1, <1>2, <2>1 DEF DiscoveryInv, FreshInv, CollectedInv, NotReplacedBefore, Version
<1> QED
  BY <1>2, <1>6, <1>7, <1>8, <1>9 DEF DiscoveryInv, CollectedInv

\* The list is cached.
LEMMA CacheSetInv ==
  ASSUME DiscoveryInv, NEW c \in Calls, CacheSet(c)
  PROVE  DiscoveryInv'
<1> DEFINE k == ClusterListKey(Place(c))
           l == got[c]
           e == [list |-> l, expiresAt |-> now + TTL]
<1>1. /\ pc[c] = "set" /\ pc[c] \in AtPlace
      /\ store' = [store EXCEPT ![k] = e] /\ got' = [got EXCEPT ![c] = None]
      /\ Collect(c, l) /\ UNCHANGED env
      /\ UNCHANGED <<now, changes, file, edits>>
  BY DEF CacheSet, AtPlace, env
<1>2. k \in Keys
  BY <1>1, AtAPlace
<1>3. l \in ClusterLists /\ l.of = Place(c) /\ NotReplacedBefore(l, since[c], 0)
  BY <1>1 DEF DiscoveryInv, KeyInv, FreshInv
<1>4. /\ TTL \in Nat /\ CallTime \in Nat /\ now \in 0 .. MaxTime /\ now \in Nat /\ MaxTime \in Nat
      /\ since[c] \in Nat /\ since[c] <= now /\ now <= since[c] + CallTime
  BY <1>1, AtAPlace, Numbers, Constants DEF DiscoveryInv, CallInv, TypeOK
<1>5. /\ NotReplacedBefore(l, since[c], TTL + CallTime)
      /\ NotReplacedBefore(l, now + TTL, TTL + CallTime)
  <2>1. l.of \in Places /\ l.version \in Nat
    BY <1>3, ListFacts
  <2>2. changes[l.of] \in Seq(Nat) /\ Version(l.of) = Len(changes[l.of])
    BY <2>1, Numbers DEF Version
  <2>3. CASE l.version = Version(l.of)
    BY <1>3, <2>3 DEF NotReplacedBefore
  <2>4. CASE l.version # Version(l.of)
    <3> DEFINE x == changes[l.of][l.version + 1]
    <3>1. l.version <= Version(l.of) /\ since[c] <= x + 0
      BY <1>3, <2>4 DEF NotReplacedBefore
    <3>2. l.version + 1 \in 1 .. Len(changes[l.of])
      BY <2>1, <2>2, <2>4, <3>1
    <3>3. x \in Nat
      BY <2>2, <3>2
    <3> HIDE DEF x
    <3>4. since[c] <= x + (TTL + CallTime) /\ now + TTL <= x + (TTL + CallTime)
      BY <1>4, <3>1, <3>3
    <3> QED
      BY <3>1, <3>4 DEF NotReplacedBefore, x
  <2> QED
    BY <2>3, <2>4
<1>6. e \in [list : ClusterLists, expiresAt : 0 .. (MaxTime + TTL)]
  <2>1. now + TTL \in 0 .. (MaxTime + TTL)
    BY <1>4
  <2> QED
    BY <1>3, <2>1
<1>7. e.list = l /\ e.expiresAt = now + TTL
  OBVIOUS
<1> HIDE DEF l, k, e
<1>8. /\ source' \in [Calls -> 1 .. (Len(Sources) + 1)]
      /\ todo' \in [Calls -> Seq(Contexts)]
      /\ pc' \in [Calls -> {"idle", "contexts", "get", "list", "set", "ok", "err"}]
      /\ answer' \in [Calls -> Seq(ClusterLists)]
      /\ UNCHANGED <<since, plan>>
      /\ \A d \in Calls : d # c =>
           source'[d] = source[d] /\ todo'[d] = todo[d] /\ pc'[d] = pc[d]
      /\ pc'[c] \in {"get", "contexts", "ok"}
      /\ CollectedInv'
  BY <1>1, <1>3, <1>5, CollectInv DEF k
<1>9. /\ store'[k] = e /\ \A i \in Keys : i # k => store'[i] = store[i]
      /\ store' \in [Keys -> [list : ClusterLists, expiresAt : 0 .. (MaxTime + TTL)] \cup {None}]
  BY <1>1, <1>2, <1>6 DEF DiscoveryInv, TypeOK
<1>10. /\ \A d \in Calls : d # c => got'[d] = got[d]
       /\ got' \in [Calls -> ClusterLists \cup {None}]
  BY <1>1 DEF DiscoveryInv, TypeOK
<1>11. TypeOK'
  BY <1>1, <1>8, <1>9, <1>10 DEF DiscoveryInv, TypeOK, Version
<1>12. \A d \in Calls : pc'[d] = "set" => d # c /\ pc[d] = "set" /\ got'[d] = got[d]
  BY <1>8, <1>10
<1>13. KeyInv'
  <2>1. \A d \in Calls : pc'[d] = "set" =>
          got'[d] \in ClusterLists
          /\ got'[d].of = [name |-> Sources[source'[d]], context |-> Head(todo'[d])]
    BY <1>8, <1>12 DEF DiscoveryInv, KeyInv, Place
  <2>2. ASSUME NEW i \in Keys, store'[i] # None PROVE ClusterListKey(store'[i].list.of) = i
    <3>1. CASE i = k
      BY <1>3, <1>7, <1>9, <3>1 DEF k
    <3>2. CASE i # k
      BY <1>9, <2>2, <3>2 DEF DiscoveryInv, KeyInv
    <3> QED
      BY <3>1, <3>2
  <2> QED
    BY <1>8, <2>1, <2>2 DEF KeyInv, CollectedInv, Place
<1>14. CallInv'
  <2>1. \A d \in Calls : Busy(d)' => Busy(d)
    BY <1>1, <1>8 DEF Busy, AtPlace
  <2> QED
    BY <1>1, <1>8, <2>1 DEF DiscoveryInv, CallInv
<1>15. FreshInv'
  <2>1. ASSUME NEW i \in Keys, store'[i] # None
        PROVE  /\ store'[i].expiresAt <= now + TTL
               /\ NotReplacedBefore(store'[i].list, store'[i].expiresAt, TTL + CallTime)
    <3>1. CASE i = k
      <4>1. now + TTL <= now + TTL
        BY <1>4
      <4> QED
        BY <1>5, <1>7, <1>9, <3>1, <4>1
    <3>2. CASE i # k
      BY <1>9, <2>1, <3>2 DEF DiscoveryInv, FreshInv
    <3> QED
      BY <3>1, <3>2
  <2>2. \A d \in Calls : pc'[d] = "set" => NotReplacedBefore(got'[d], since[d], 0)
    BY <1>12 DEF DiscoveryInv, FreshInv
  <2> QED
    BY <1>1, <1>8, <2>1, <2>2 DEF FreshInv, CollectedInv, NotReplacedBefore, Version
<1> QED
  BY <1>8, <1>11, <1>13, <1>14, <1>15 DEF DiscoveryInv, CollectedInv

\* Something fails, and with it the call.
LEMMA CallFailsInv ==
  ASSUME DiscoveryInv, NEW c \in Calls, CallFails(c)
  PROVE  DiscoveryInv'
<1>1. /\ pc[c] \in {"contexts", "list"}
      /\ pc' = [pc EXCEPT ![c] = "err"] /\ answer' = [answer EXCEPT ![c] = <<>>]
      /\ UNCHANGED <<now, changes, file, edits, store, since, source, todo, plan, got>>
  BY DEF CallFails, env, local
<1>2. <<>> \in Seq(ClusterLists)
  OBVIOUS
<1>3. /\ pc'[c] = "err" /\ answer'[c] = <<>>
      /\ \A d \in Calls : d # c => pc'[d] = pc[d] /\ answer'[d] = answer[d]
      /\ pc' \in [Calls -> {"idle", "contexts", "get", "list", "set", "ok", "err"}]
      /\ answer' \in [Calls -> Seq(ClusterLists)]
  BY <1>1, <1>2 DEF DiscoveryInv, TypeOK
<1>4. TypeOK'
  BY <1>1, <1>3 DEF DiscoveryInv, TypeOK, Version
<1>5. ProgressInv'
  <2> SUFFICES ASSUME NEW d \in Calls
               PROVE  Progress(pc'[d], source[d], todo[d], plan[d], answer'[d])
    BY <1>1 DEF ProgressInv
  <2>1. CASE d = c
    BY <1>3, <2>1 DEF Progress, AtPlace
  <2>2. CASE d # c
    BY <1>3, <2>2 DEF DiscoveryInv, ProgressInv
  <2> QED
    BY <2>1, <2>2
<1>6. CoverInv'
  <2>1. \A d \in Calls : pc'[d] \in AtPlace => pc[d] \in AtPlace
    BY <1>3 DEF AtPlace
  <2> QED
    BY <1>1, <2>1 DEF DiscoveryInv, CoverInv
<1>7. RestrictInv'
  BY <1>1 DEF DiscoveryInv, RestrictInv
<1>8. /\ \A d \in Calls : pc'[d] = "set" => pc[d] = "set"
      /\ \A d \in Calls : \A j \in DOMAIN answer'[d] :
           j \in DOMAIN answer[d] /\ answer'[d][j] = answer[d][j]
  <2>1. DOMAIN <<>> = {}
    OBVIOUS
  <2> QED
    BY <1>3, <2>1
<1>9. KeyInv'
  BY <1>1, <1>8 DEF DiscoveryInv, KeyInv, Place
<1>10. CallInv'
  <2>1. \A d \in Calls : Busy(d)' => Busy(d)
    BY <1>3 DEF Busy
  <2> QED
    BY <1>1, <2>1 DEF DiscoveryInv, CallInv
<1>11. FreshInv'
  BY <1>1, <1>8 DEF DiscoveryInv, FreshInv, NotReplacedBefore, Version
<1> QED
  BY <1>4, <1>5, <1>6, <1>7, <1>9, <1>10, <1>11 DEF DiscoveryInv

\* A step of anything else.
LEMMA StutterInv ==
  ASSUME DiscoveryInv, UNCHANGED vars
  PROVE  DiscoveryInv'
<1>1. UNCHANGED <<now, changes, file, edits, store, pc, since, source, todo, plan, got, answer>>
  BY DEF vars, env, local
<1>2. TypeOK'
  BY <1>1 DEF DiscoveryInv, TypeOK, Version
<1>3. ProgressInv' /\ CoverInv' /\ RestrictInv'
  BY <1>1 DEF DiscoveryInv, ProgressInv, CoverInv, RestrictInv
<1>4. KeyInv'
  BY <1>1 DEF DiscoveryInv, KeyInv, Place
<1>5. CallInv'
  BY <1>1 DEF DiscoveryInv, CallInv, Busy
<1>6. FreshInv'
  BY <1>1 DEF DiscoveryInv, FreshInv, NotReplacedBefore, Version
<1> QED
  BY <1>2, <1>3, <1>4, <1>5, <1>6 DEF DiscoveryInv

-----------------------------------------------------------------------------
(* The theorems.                                                           *)

\* Every step of the specification preserves the invariant.
LEMMA NextInv == DiscoveryInv /\ [Next]_vars => DiscoveryInv'
<1> SUFFICES ASSUME DiscoveryInv, [Next]_vars PROVE DiscoveryInv'
  OBVIOUS
<1>1. CASE Tick
  BY <1>1, TickInv
<1>2. ASSUME NEW p \in Places, ClustersChange(p) PROVE DiscoveryInv'
  BY <1>2, ClustersChangeInv
<1>3. ASSUME NEW s \in SourceNames, EditFile(s) PROVE DiscoveryInv'
  BY <1>3, EditFileInv
<1>4. ASSUME NEW c \in Calls, Begin(c) PROVE DiscoveryInv'
  BY <1>4, BeginInv
<1>5. ASSUME NEW c \in Calls, NextSource(c) PROVE DiscoveryInv'
  BY <1>5, NextSourceInv
<1>6. ASSUME NEW c \in Calls, CacheHit(c) PROVE DiscoveryInv'
  BY <1>6, CacheHitInv
<1>7. ASSUME NEW c \in Calls, CacheMiss(c) PROVE DiscoveryInv'
  BY <1>7, CacheMissInv
<1>8. ASSUME NEW c \in Calls, ListClusters(c) PROVE DiscoveryInv'
  BY <1>8, ListClustersInv
<1>9. ASSUME NEW c \in Calls, CacheSet(c) PROVE DiscoveryInv'
  BY <1>9, CacheSetInv
<1>10. ASSUME NEW c \in Calls, CallFails(c) PROVE DiscoveryInv'
  BY <1>10, CallFailsInv
<1>11. CASE UNCHANGED vars
  BY <1>11, StutterInv
<1> QED
  BY <1>1, <1>2, <1>3, <1>4, <1>5, <1>6, <1>7, <1>8, <1>9, <1>10, <1>11 DEF Next

\* What a call of allResolvedClusters has met, has and has still to do fit
\* together, and lists are no older than their place in the cache or in an
\* answer allows, whatever the other calls do (src/internal/server/resolve.go).
THEOREM Invariance == Spec => []DiscoveryInv
  BY InitInv, NextInv, PTL DEF Spec

\* The clock, the files, the cache of cluster lists and the calls have their
\* types; every list is what some place had to list at some time.
THEOREM TypeCorrect == Spec => []TypeOK
<1>1. DiscoveryInv => TypeOK
  BY DEF DiscoveryInv
<1> QED
  BY <1>1, Invariance, PTL

\* allResolvedClusters answers with a list for every context of every kubeconfig
\* or fails, and lists no context that the configuration rules out.
THEOREM AllOrNothingTheorem == Spec => []AllOrNothing
<1>1. DiscoveryInv => AllOrNothing
  <2> SUFFICES ASSUME DiscoveryInv, NEW c \in Calls
               PROVE  /\ pc[c] = "ok" =>
                           /\ Len(answer[c]) = Len(plan[c])
                           /\ \A s \in SourceNames :
                                \/ <<>> \in Files[s]
                                \/ \E i \in DOMAIN plan[c] : plan[c][i].name = s
                      /\ \A i \in DOMAIN plan[c] :
                           LET raw == RawContexts[plan[c][i].name]
                           IN Restricts(raw) => Contains(raw.items, plan[c][i].context)
                      /\ pc[c] = "err" => answer[c] = <<>>
    BY DEF AllOrNothing, Restricts
  <2>1. Progress(pc[c], source[c], todo[c], plan[c], answer[c])
    BY DEF DiscoveryInv, ProgressInv
  <2>2. pc[c] = "ok" => Len(answer[c]) = Len(plan[c])
    BY <2>1 DEF Progress
  <2>3. pc[c] = "err" => answer[c] = <<>>
    BY <2>1 DEF Progress
  <2>4. ASSUME pc[c] = "ok", NEW s \in SourceNames
        PROVE  <<>> \in Files[s] \/ \E i \in DOMAIN plan[c] : plan[c][i].name = s
    <3>1. PICK i \in 1 .. Len(Sources) : s = Sources[i]
      BY Constants
    <3>2. i < source[c]
      <4>1. source[c] = Len(Sources) + 1
        BY <2>1, <2>4 DEF Progress
      <4> QED
        BY <4>1, Constants
    <3> QED
      BY <3>1, <3>2 DEF DiscoveryInv, CoverInv
  <2>5. \A i \in DOMAIN plan[c] :
          LET raw == RawContexts[plan[c][i].name]
          IN Restricts(raw) => Contains(raw.items, plan[c][i].context)
    BY DEF DiscoveryInv, RestrictInv
  <2> QED
    BY <2>2, <2>3, <2>4, <2>5
<1> QED
  BY <1>1, Invariance, PTL

\* A cached list is handed out for the place it was made for, or for one with
\* the same joined key (src/internal/capi/store.go), and with one output of the
\* expressions per cluster every cluster has its own custom fields.
THEOREM OwnListsTheorem == Spec => []OwnLists
<1>1. DiscoveryInv => OwnLists
  <2> SUFFICES ASSUME DiscoveryInv, NEW c \in Calls, NEW j \in DOMAIN answer[c]
               PROVE  LET l == answer[c][j]
                          p == plan[c][j]
                      IN /\ l.of = p \/ p.name \o p.context = l.of.name \o l.of.context
                         /\ (\A i \in DOMAIN l.clusters : Len(OwnObjects(l, i)) = 1) =>
                              \A i \in DOMAIN l.clusters :
                                l.clusters[i].fields = OwnObjects(l, i)[1]
    BY DEF OwnLists
  <2> DEFINE l == answer[c][j]
             p == plan[c][j]
  <2>1. l \in ClusterLists
    BY Numbers
  <2>2. p.name \o p.context = l.of.name \o l.of.context
    BY DEF DiscoveryInv, KeyInv, ClusterListKey
  <2>3. ASSUME \A i \in DOMAIN l.clusters : Len(OwnObjects(l, i)) = 1
        PROVE  \A i \in DOMAIN l.clusters : l.clusters[i].fields = OwnObjects(l, i)[1]
    BY <2>1, <2>3, OwnFields
  <2> QED
    BY <2>2, <2>3
<1> QED
  BY <1>1, Invariance, PTL

\* The step with which a call succeeds is a step of a busy call, and takes no time.
LEMMA Success ==
  ASSUME DiscoveryInv, Next, NEW c \in Calls, pc'[c] = "ok", pc[c] # "ok"
  PROVE  Busy(c) /\ UNCHANGED <<now, changes, since>>
<1>1. \/ UNCHANGED pc
      \/ \E d \in Calls :
           \/ Begin(d) \/ NextSource(d) \/ CacheHit(d) \/ CacheMiss(d)
           \/ ListClusters(d) \/ CacheSet(d) \/ CallFails(d)
  BY DEF Next, Tick, ClustersChange, EditFile
<1>2. PICK d \in Calls :
        \/ Begin(d) \/ NextSource(d) \/ CacheHit(d) \/ CacheMiss(d)
        \/ ListClusters(d) \/ CacheSet(d) \/ CallFails(d)
  BY <1>1
<1>3. pc \in [Calls -> {"idle", "contexts", "get", "list", "set", "ok", "err"}]
  BY DEF DiscoveryInv, TypeOK
<1>4. \E at : pc' = [pc EXCEPT ![d] = at]
  BY <1>2 DEF Begin, NextSource, CacheHit, CacheMiss, ListClusters, CacheSet, CallFails,
              Collect, Goto
<1>5. d = c
  BY <1>3, <1>4
<1>6. ~Begin(c) /\ ~CacheMiss(c) /\ ~ListClusters(c) /\ ~CallFails(c)
  BY <1>3 DEF Begin, CacheMiss, ListClusters, CallFails
<1>7. NextSource(c) \/ CacheHit(c) \/ CacheSet(c)
  BY <1>2, <1>5, <1>6
<1>8. UNCHANGED <<now, changes, since>>
  BY <1>7 DEF NextSource, CacheHit, CacheSet, Collect, env
<1>9. Busy(c)
  BY <1>7 DEF NextSource, CacheHit, CacheSet, Busy
<1> QED
  BY <1>8, <1>9

\* A list of an answer was current at most the TTL and two calls' time before
\* the call succeeded: the call that cached it may have been slow, its entry
\* lives for cluster_list_ttl, and the call answered may have been slow as well
\* (src/internal/cache/cache.go, src/internal/server/resolve.go).
THEOREM ListsAreFreshTheorem == Spec => ListsAreFresh
<1>1. ASSUME DiscoveryInv, DiscoveryInv', Next, NEW c \in Calls, pc'[c] = "ok", pc[c] # "ok",
             NEW i \in DOMAIN answer'[c]
      PROVE  CurrentWithin(answer'[c][i].of, answer'[c][i].version, TTL + 2 * CallTime)
  <2> DEFINE l == answer'[c][i]
             v == l.version
             x == changes[l.of][v + 1]
  <2>1. Busy(c) /\ UNCHANGED <<now, changes, since>>
    BY <1>1, Success
  <2>2. /\ now \in Nat /\ since[c] \in Nat /\ TTL \in Nat /\ CallTime \in Nat
        /\ now <= since[c] + CallTime
    BY <1>1, <2>1, Numbers, Constants DEF DiscoveryInv, CallInv
  <2>3. /\ v <= Version(l.of)
        /\ v = Version(l.of) \/ since[c] <= x + (TTL + CallTime)
    BY <1>1, <2>1 DEF DiscoveryInv, FreshInv, NotReplacedBefore, Version
  <2>4. l.of \in Places /\ v \in Nat
    <3>1. answer' \in [Calls -> Seq(ClusterLists)]
      BY <1>1 DEF DiscoveryInv, TypeOK
    <3>2. l \in ClusterLists
      BY <1>1, <3>1
    <3> QED
      BY <3>2, ListFacts
  <2>5. changes[l.of] \in Seq(Nat) /\ Version(l.of) = Len(changes[l.of])
    BY <1>1, <2>4, Numbers DEF Version
  <2>6. CASE v = Version(l.of)
    BY <2>6 DEF CurrentWithin
  <2>7. CASE v # Version(l.of)
    <3>1. v + 1 \in 1 .. Len(changes[l.of])
      BY <2>3, <2>4, <2>5, <2>7
    <3>2. x \in Nat
      BY <2>5, <3>1
    <3>3. since[c] <= x + (TTL + CallTime)
      BY <2>3, <2>7
    <3> HIDE DEF x
    <3>4. now <= x + (TTL + 2 * CallTime)
      BY <2>2, <3>2, <3>3
    <3> QED
      BY <3>4 DEF CurrentWithin, x
  <2> QED
    BY <2>6, <2>7
<1>2. DiscoveryInv /\ DiscoveryInv' /\ [Next]_vars =>
        [\A c \in Calls : pc'[c] = "ok" /\ pc[c] # "ok" =>
           \A i \in DOMAIN answer'[c] :
             CurrentWithin(answer'[c][i].of, answer'[c][i].version, TTL + 2 * CallTime)]_vars
  BY <1>1
<1> QED
  BY <1>2, Invariance, PTL DEF Spec, ListsAreFresh

=============================================================================
