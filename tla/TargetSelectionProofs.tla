----------------------- MODULE TargetSelectionProofs -----------------------
(***************************************************************************)
(* Proofs about Targets and TargetSelection, for strings of any length,    *)
(* any number of patterns and any list of known clusters.                  *)
(*                                                                         *)
(* What a call selects is computed by FlattenSeq, a recursive function, so *)
(* the first part is an induction over the length of a sequence: where in  *)
(* the flattened sequence an element comes from.  From there the proof     *)
(* goes up through KeepAt and DedupePreserveOrder to the two resolvers, to *)
(* the selection of each tool, and to the invariant of the calls.          *)
(***************************************************************************)
EXTENDS TargetSelection, WellFoundedInduction, TLAPS

-----------------------------------------------------------------------------
(* Induction, and FlattenSeq.                                              *)

\* Induction over the natural numbers, in a form that needs no operator: the
\* numbers for which a formula holds are a set.
Less == {ss \in Nat \X Nat : ss[1] < ss[2]}

\* There is no infinite descent in the natural numbers.
LEMMA LessWellFounded == IsWellFoundedOn(Less, Nat)
  BY NatLessThanWellFounded DEF OpToRel, Less

\* A set of numbers that has an element has a least one.
LEMMA LeastNumber ==
  ASSUME NEW T \in SUBSET Nat, T # {}
  PROVE  \E x \in T : \A y \in T : x <= y
<1>1. PICK x \in T : \A y \in T : ~(<<y, x>> \in Less)
  BY LessWellFounded, WFMin
<1>2. ASSUME NEW y \in T PROVE x <= y
  <2>1. y < x => <<y, x>> \in Less
    BY DEF Less
  <2>2. ~(y < x) /\ x \in Nat /\ y \in Nat
    BY <1>1, <2>1
  <2> QED
    BY <2>2
<1> QED
  BY <1>2

\* A set with 0 and with the successors of its elements has all numbers.
LEMMA Induction ==
  ASSUME NEW T \in SUBSET Nat, 0 \in T, \A n \in T : n + 1 \in T
  PROVE  T = Nat
<1> SUFFICES ASSUME Nat \ T # {} PROVE FALSE
  OBVIOUS
<1>1. PICK x \in Nat \ T : \A y \in Nat \ T : x <= y
  BY LeastNumber
<1>2. x # 0 /\ x - 1 \in Nat /\ (x - 1) + 1 = x
  BY <1>1
<1>3. x - 1 \in T
  BY <1>1, <1>2
<1> QED
  BY <1>2, <1>3

\* f is the function that FlattenSeq(ss) defines for the first n sequences.
Flattens(f, ss, n) ==
  f = [i \in 1 .. n |-> IF i = 1 THEN ss[i] ELSE f[i - 1] \o ss[i]]

\* The recursion has a solution for any number of sequences.
LEMMA FlattensExists ==
  ASSUME NEW ss
  PROVE  \A n \in Nat : \E f : Flattens(f, ss, n)
<1> DEFINE T == {n \in Nat : \E f : Flattens(f, ss, n)}
<1>1. 0 \in T
  <2>1. Flattens([i \in 1 .. 0 |-> <<>>], ss, 0)
    BY DEF Flattens
  <2> QED
    BY <2>1
<1>2. ASSUME NEW n \in T PROVE n + 1 \in T
  <2>1. n \in Nat
    OBVIOUS
  <2>2. PICK f : Flattens(f, ss, n)
    OBVIOUS
  <2> DEFINE g == [i \in 1 .. (n + 1) |-> IF i = 1 THEN ss[i] ELSE f[i - 1] \o ss[i]]
  <2>3. ASSUME NEW i \in 1 .. n PROVE g[i] = f[i]
    <3>1. f[i] = IF i = 1 THEN ss[i] ELSE f[i - 1] \o ss[i]
      BY <2>2 DEF Flattens
    <3>2. i \in 1 .. (n + 1)
      BY <2>1
    <3> QED
      BY <3>1, <3>2
  <2>4. \A i \in 1 .. (n + 1) : i # 1 => i - 1 \in 1 .. n
    BY <2>1
  <2>5. \A i \in 1 .. (n + 1) : i # 1 => g[i - 1] = f[i - 1]
    BY <2>3, <2>4
  <2>6. g = [i \in 1 .. (n + 1) |-> IF i = 1 THEN ss[i] ELSE f[i - 1] \o ss[i]]
    OBVIOUS
  <2>7. Flattens(g, ss, n + 1)
    <3> HIDE DEF g
    <3> QED
      BY <2>5, <2>6 DEF Flattens
  <2> QED
    BY <2>1, <2>7
<1>3. T \in SUBSET Nat
  OBVIOUS
<1> HIDE DEF T
<1>4. T = Nat
  BY <1>1, <1>2, <1>3, Induction
<1> QED
  BY <1>4 DEF T

\* FlattenSeq is the last value of that solution.
LEMMA FlattenSeqUnfolds ==
  ASSUME NEW ss, Len(ss) \in Nat \ {0}
  PROVE  \E f : Flattens(f, ss, Len(ss)) /\ FlattenSeq(ss) = f[Len(ss)]
<1> DEFINE F == CHOOSE f : Flattens(f, ss, Len(ss))
<1>1. Flattens(F, ss, Len(ss))
  BY FlattensExists
<1>2. FlattenSeq(ss) = F[Len(ss)]
  BY DEF FlattenSeq, Flattens
<1> QED
  BY <1>1, <1>2

\* fl has exactly the elements of the first n sequences of ss: the k-th comes
\* from position h[k] of the g[k]-th, in this order, and none is missing.
Joins(fl, ss, n, g, h) ==
  /\ \A k \in 1 .. Len(fl) :
       g[k] \in 1 .. n /\ h[k] \in 1 .. Len(ss[g[k]]) /\ fl[k] = ss[g[k]][h[k]]
  /\ \A k, l \in 1 .. Len(fl) : k < l => g[k] < g[l] \/ (g[k] = g[l] /\ h[k] < h[l])
  /\ \A i \in 1 .. n : \A j \in 1 .. Len(ss[i]) : \E k \in 1 .. Len(fl) : g[k] = i /\ h[k] = j

\* One more sequence is joined.
LEMMA JoinsStep ==
  ASSUME NEW S, NEW ss \in Seq(Seq(S)), NEW n \in Nat, n + 1 <= Len(ss),
         NEW fl \in Seq(S), NEW g, NEW h, Joins(fl, ss, n, g, h)
  PROVE  fl \o ss[n + 1] \in Seq(S) /\ \E gg, hh : Joins(fl \o ss[n + 1], ss, n + 1, gg, hh)
<1> DEFINE t == ss[n + 1]
           L == Len(fl)
           M == Len(t)
           r == fl \o t
           gg == [k \in 1 .. (L + M) |-> IF k <= L THEN g[k] ELSE n + 1]
           hh == [k \in 1 .. (L + M) |-> IF k <= L THEN h[k] ELSE k - L]
<1>1. t \in Seq(S) /\ L \in Nat /\ M \in Nat
  OBVIOUS
<1>2. r \in Seq(S) /\ Len(r) = L + M
  BY <1>1
<1>3. /\ \A k \in 1 .. L : r[k] = fl[k]
      /\ \A k \in 1 .. (L + M) : ~(k <= L) => k - L \in 1 .. M /\ r[k] = t[k - L]
  BY <1>1
<1>4. \A k \in 1 .. (L + M) : k <= L => k \in 1 .. L
  BY <1>1
<1>5. /\ \A k \in 1 .. (L + M) : k <= L => gg[k] = g[k] /\ hh[k] = h[k]
      /\ \A k \in 1 .. (L + M) : ~(k <= L) => gg[k] = n + 1 /\ hh[k] = k - L
  OBVIOUS
<1> HIDE DEF r, gg, hh
<1>6. \A k \in 1 .. Len(r) :
        gg[k] \in 1 .. (n + 1) /\ hh[k] \in 1 .. Len(ss[gg[k]]) /\ r[k] = ss[gg[k]][hh[k]]
  <2> SUFFICES ASSUME NEW k \in 1 .. (L + M)
               PROVE  /\ gg[k] \in 1 .. (n + 1) /\ hh[k] \in 1 .. Len(ss[gg[k]])
                      /\ r[k] = ss[gg[k]][hh[k]]
    BY <1>2
  <2>1. CASE k <= L
    <3>1. k \in 1 .. L /\ gg[k] = g[k] /\ hh[k] = h[k] /\ r[k] = fl[k]
      BY <2>1, <1>3, <1>4, <1>5
    <3> HIDE DEF L, M, t
    <3>2. g[k] \in 1 .. n /\ h[k] \in 1 .. Len(ss[g[k]]) /\ fl[k] = ss[g[k]][h[k]]
      BY <3>1 DEF Joins, L
    <3>3. g[k] \in 1 .. (n + 1)
      BY <3>2
    <3> QED
      BY <3>1, <3>2, <3>3
  <2>2. CASE ~(k <= L)
    <3>1. gg[k] = n + 1 /\ hh[k] = k - L /\ k - L \in 1 .. M /\ r[k] = t[k - L]
      BY <2>2, <1>3, <1>5
    <3>2. n + 1 \in 1 .. (n + 1)
      OBVIOUS
    <3> QED
      BY <3>1, <3>2
  <2> QED
    BY <2>1, <2>2
<1>7. \A k, l \in 1 .. Len(r) : k < l =>
        gg[k] < gg[l] \/ (gg[k] = gg[l] /\ hh[k] < hh[l])
  <2> SUFFICES ASSUME NEW k \in 1 .. (L + M), NEW l \in 1 .. (L + M), k < l
               PROVE  gg[k] < gg[l] \/ (gg[k] = gg[l] /\ hh[k] < hh[l])
    BY <1>2
  <2>1. CASE l <= L
    <3>1. k <= L
      BY <2>1, <1>1
    <3>2. /\ k \in 1 .. L /\ l \in 1 .. L
          /\ gg[k] = g[k] /\ hh[k] = h[k] /\ gg[l] = g[l] /\ hh[l] = h[l]
      BY <2>1, <3>1, <1>4, <1>5
    <3> QED
      BY <3>2 DEF Joins
  <2>2. CASE ~(l <= L) /\ k <= L
    <3>1. k \in 1 .. L /\ gg[k] = g[k] /\ gg[l] = n + 1
      BY <2>2, <1>4, <1>5
    <3>2. g[k] \in 1 .. n
      BY <3>1 DEF Joins
    <3> QED
      BY <3>1, <3>2
  <2>3. CASE ~(l <= L) /\ ~(k <= L)
    BY <2>3, <1>1, <1>5
  <2> QED
    BY <2>1, <2>2, <2>3
<1>8. \A i \in 1 .. (n + 1) : \A j \in 1 .. Len(ss[i]) :
        \E k \in 1 .. Len(r) : gg[k] = i /\ hh[k] = j
  <2> SUFFICES ASSUME NEW i \in 1 .. (n + 1), NEW j \in 1 .. Len(ss[i])
               PROVE  \E k \in 1 .. (L + M) : gg[k] = i /\ hh[k] = j
    BY <1>2
  <2>1. CASE i = n + 1
    <3>1. j \in 1 .. M
      BY <2>1
    <3>2. L + j \in 1 .. (L + M) /\ ~(L + j <= L) /\ (L + j) - L = j
      BY <3>1, <1>1
    <3> QED
      BY <2>1, <3>2, <1>5
  <2>2. CASE i # n + 1
    <3>1. i \in 1 .. n
      BY <2>2
    <3>2. PICK k \in 1 .. L : g[k] = i /\ h[k] = j
      BY <3>1 DEF Joins
    <3>3. k \in 1 .. (L + M) /\ k <= L
      BY <1>1
    <3> QED
      BY <3>2, <3>3, <1>5
  <2> QED
    BY <2>1, <2>2
<1>9. Joins(r, ss, n + 1, gg, hh)
  BY <1>6, <1>7, <1>8 DEF Joins
<1> QED
  BY <1>2, <1>9 DEF r

\* The recursion, step by step.
LEMMA FlattensAt ==
  ASSUME NEW ss, NEW n \in Nat, n # 0, NEW f, Flattens(f, ss, n)
  PROVE  /\ f[1] = ss[1]
         /\ \A i \in 2 .. n : f[i] = f[i - 1] \o ss[i]
<1>1. f[1] = ss[1]
  <2>1. 1 \in 1 .. n
    OBVIOUS
  <2> QED
    BY <2>1 DEF Flattens
<1>2. ASSUME NEW i \in 2 .. n PROVE f[i] = f[i - 1] \o ss[i]
  <2>1. i \in 1 .. n /\ i # 1
    OBVIOUS
  <2> QED
    BY <2>1 DEF Flattens
<1> QED
  BY <1>1, <1>2

\* There is one sequence of length 0.
LEMMA EmptyIsEmpty == ASSUME NEW S, NEW t \in Seq(S), Len(t) = 0 PROVE t = <<>>
  OBVIOUS

\* What FlattenSeq does with sequences over S.
LEMMA FlattenSeqJoins ==
  ASSUME NEW S, NEW ss \in Seq(Seq(S))
  PROVE  /\ FlattenSeq(ss) \in Seq(S)
         /\ \E g, h : Joins(FlattenSeq(ss), ss, Len(ss), g, h)
<1>1. CASE Len(ss) = 0
  <2>1. ss = <<>> /\ FlattenSeq(ss) = <<>>
    BY <1>1 DEF FlattenSeq
  <2>2. Joins(<<>>, ss, Len(ss), <<>>, <<>>)
    BY <2>1 DEF Joins
  <2>3. FlattenSeq(ss) \in Seq(S)
    <3>1. <<>> \in Seq(S)
      OBVIOUS
    <3> QED
      BY <2>1, <3>1
  <2>4. Joins(FlattenSeq(ss), ss, Len(ss), <<>>, <<>>)
    BY <2>1, <2>2
  <2> QED
    BY <2>3, <2>4
<1>2. CASE Len(ss) # 0
  <2>1. PICK f : Flattens(f, ss, Len(ss)) /\ FlattenSeq(ss) = f[Len(ss)]
    BY <1>2, FlattenSeqUnfolds
  <2>2. /\ f[1] = ss[1]
        /\ \A i \in 2 .. Len(ss) : f[i] = f[i - 1] \o ss[i]
    <3>1. Len(ss) \in Nat
      OBVIOUS
    <3> QED
      BY <1>2, <2>1, <3>1, FlattensAt
  <2> DEFINE P(n) == n + 1 <= Len(ss) =>
                       f[n + 1] \in Seq(S) /\ \E g, h : Joins(f[n + 1], ss, n + 1, g, h)
             T == {n \in Nat : P(n)}
  <2>3. 0 \in T
    <3>1. ss[1] \in Seq(S)
      BY <1>2
    <3> DEFINE g == [k \in 1 .. Len(ss[1]) |-> 1]
               h == [k \in 1 .. Len(ss[1]) |-> k]
    <3>a. \A k \in 1 .. Len(ss[1]) : g[k] = 1 /\ h[k] = k
      OBVIOUS
    <3> HIDE DEF g, h
    <3>b. 1 .. 1 = {1} /\ Len(ss[1]) \in Nat
      BY <3>1
    <3>c. \A i \in 1 .. 1 : \A j \in 1 .. Len(ss[i]) :
            \E k \in 1 .. Len(ss[1]) : g[k] = i /\ h[k] = j
      BY <3>a, <3>b
    <3>2. Joins(ss[1], ss, 1, g, h)
      BY <3>a, <3>b, <3>c DEF Joins
    <3> QED
      BY <2>2, <3>1, <3>2
  <2>4. ASSUME NEW n \in T PROVE n + 1 \in T
    <3> SUFFICES ASSUME (n + 1) + 1 <= Len(ss)
                 PROVE  /\ f[(n + 1) + 1] \in Seq(S)
                        /\ \E g, h : Joins(f[(n + 1) + 1], ss, (n + 1) + 1, g, h)
      OBVIOUS
    <3>1. n \in Nat /\ n + 1 \in Nat /\ n + 1 <= Len(ss)
      OBVIOUS
    <3>2. f[n + 1] \in Seq(S) /\ \E g, h : Joins(f[n + 1], ss, n + 1, g, h)
      BY <3>1
    <3>3. /\ (n + 1) + 1 \in 2 .. Len(ss) /\ ((n + 1) + 1) - 1 = n + 1
      BY <3>1
    <3>4. f[(n + 1) + 1] = f[n + 1] \o ss[(n + 1) + 1]
      BY <2>2, <3>3
    <3> HIDE DEF T
    <3> QED
      BY <3>1, <3>2, <3>4, JoinsStep
  <2>5. T \in SUBSET Nat
    OBVIOUS
  <2>6. T = Nat
    <3> HIDE DEF T
    <3> QED
      BY <2>3, <2>4, <2>5, Induction
  <2>7. Len(ss) - 1 \in T /\ (Len(ss) - 1) + 1 = Len(ss)
    <3>1. Len(ss) - 1 \in Nat /\ (Len(ss) - 1) + 1 = Len(ss)
      BY <1>2
    <3> HIDE DEF T
    <3> QED
      BY <2>6, <3>1
  <2> QED
    BY <2>1, <2>7
<1> QED
  BY <1>1, <1>2

\* Sequences of one element each.
LEMMA FlattenSeqSingletons ==
  ASSUME NEW S, NEW t \in Seq(S), NEW ss,
         ss = [i \in 1 .. Len(t) |-> <<t[i]>>]
  PROVE  FlattenSeq(ss) = t
<1>0. ss \in Seq(Seq(S)) /\ Len(ss) = Len(t) /\ Len(t) \in Nat
  OBVIOUS
<1>1. CASE Len(ss) = 0
  <2>1. t = <<>>
    BY <1>0, <1>1, EmptyIsEmpty
  <2>2. ss = <<>>
    BY <1>0, <1>1, EmptyIsEmpty
  <2> QED
    BY <1>1, <2>1, <2>2 DEF FlattenSeq
<1>2. CASE Len(ss) # 0
  <2>1. PICK f : Flattens(f, ss, Len(ss)) /\ FlattenSeq(ss) = f[Len(ss)]
    BY <1>0, <1>2, FlattenSeqUnfolds
  <2>2. /\ f[1] = ss[1]
        /\ \A i \in 2 .. Len(ss) : f[i] = f[i - 1] \o ss[i]
    <3>1. Len(ss) \in Nat
      BY <1>0
    <3> QED
      BY <1>2, <2>1, <3>1, FlattensAt
  <2> DEFINE T == {n \in Nat : n + 1 <= Len(t) =>
                     f[n + 1] \in Seq(S) /\ Len(f[n + 1]) = n + 1
                     /\ \A i \in 1 .. (n + 1) : f[n + 1][i] = t[i]}
  <2>3. 0 \in T
    <3>1. ss[1] = <<t[1]>> /\ t[1] \in S
      BY <1>0, <1>2
    <3>2. <<t[1]>> \in Seq(S) /\ Len(<<t[1]>>) = 1 /\ \A i \in 1 .. 1 : <<t[1]>>[i] = t[i]
      BY <3>1
    <3>3. f[1] = <<t[1]>>
      BY <2>2, <3>1
    <3>4. f[1] \in Seq(S) /\ Len(f[1]) = 1 /\ \A i \in 1 .. 1 : f[1][i] = t[i]
      BY <3>2, <3>3
    <3> QED
      BY <3>4
  <2>4. ASSUME NEW n \in T PROVE n + 1 \in T
    <3> DEFINE m == n + 1
    <3> SUFFICES ASSUME m + 1 <= Len(t)
                 PROVE  /\ f[m + 1] \in Seq(S) /\ Len(f[m + 1]) = m + 1
                        /\ \A i \in 1 .. (m + 1) : f[m + 1][i] = t[i]
      OBVIOUS
    <3>1. m \in Nat /\ m <= Len(t)
      BY <1>0
    <3>2. f[m] \in Seq(S) /\ Len(f[m]) = m /\ \A i \in 1 .. m : f[m][i] = t[i]
      BY <3>1
    <3>3. m + 1 \in 2 .. Len(ss) /\ (m + 1) - 1 = m
      BY <1>0, <3>1
    <3>4. f[m + 1] = f[m] \o <<t[m + 1]>> /\ t[m + 1] \in S
      <4>1. ss[m + 1] = <<t[m + 1]>> /\ t[m + 1] \in S
        BY <1>0, <3>3
      <4>2. f[m + 1] = f[m] \o ss[m + 1]
        BY <2>2, <3>3
      <4> QED
        BY <4>1, <4>2
    <3> HIDE DEF T, m
    <3> QED
      BY <3>1, <3>2, <3>4
  <2>5. T \in SUBSET Nat
    OBVIOUS
  <2>6. T = Nat
    <3> HIDE DEF T
    <3> QED
      BY <2>3, <2>4, <2>5, Induction
  <2>7. Len(t) - 1 \in T /\ (Len(t) - 1) + 1 = Len(t)
    <3>1. Len(t) - 1 \in Nat /\ (Len(t) - 1) + 1 = Len(t)
      BY <1>0, <1>2
    <3> HIDE DEF T
    <3> QED
      BY <2>6, <3>1
  <2>8. /\ f[Len(t)] \in Seq(S) /\ Len(f[Len(t)]) = Len(t)
        /\ \A i \in 1 .. Len(t) : f[Len(t)][i] = t[i]
    BY <1>0, <2>7
  <2>9. FlattenSeq(ss) = f[Len(t)]
    BY <1>0, <2>1
  <2> HIDE DEF T
  <2> QED
    BY <2>8, <2>9
<1> QED
  BY <1>1, <1>2

-----------------------------------------------------------------------------
(* KeepAt and DedupePreserveOrder.                                         *)

\* r has the elements of s at the positions in I: the k-th of them is that of
\* position g[k], in this order, and none is missing.
Keeps(r, s, I, g) ==
  /\ \A k \in 1 .. Len(r) : g[k] \in 1 .. Len(s) /\ g[k] \in I /\ r[k] = s[g[k]]
  /\ \A k, l \in 1 .. Len(r) : k < l => g[k] < g[l]
  /\ \A i \in 1 .. Len(s) : i \in I => \E k \in 1 .. Len(r) : g[k] = i

\* KeepAt keeps what it should, in order.
LEMMA KeepAtKeeps ==
  ASSUME NEW S, NEW s \in Seq(S), NEW I
  PROVE  /\ KeepAt(s, I) \in Seq(S)
         /\ \E g : Keeps(KeepAt(s, I), s, I, g)
<1> DEFINE ss == [i \in 1 .. Len(s) |-> IF i \in I THEN <<s[i]>> ELSE <<>>]
           r == KeepAt(s, I)
<1>1. ss \in Seq(Seq(S)) /\ Len(ss) = Len(s) /\ Len(s) \in Nat
  <2>1. \A i \in 1 .. Len(s) : <<s[i]>> \in Seq(S)
    OBVIOUS
  <2>2. <<>> \in Seq(S)
    OBVIOUS
  <2>3. \A i \in 1 .. Len(s) : (IF i \in I THEN <<s[i]>> ELSE <<>>) \in Seq(S)
    BY <2>1, <2>2
  <2> QED
    BY <2>3
<1>2. \A i \in 1 .. Len(s) : ss[i] = IF i \in I THEN <<s[i]>> ELSE <<>>
  OBVIOUS
<1>3. r = FlattenSeq(ss)
  BY DEF KeepAt
<1> HIDE DEF ss, r
<1>4. r \in Seq(S) /\ \E g, h : Joins(r, ss, Len(s), g, h)
  BY <1>1, <1>3, FlattenSeqJoins
<1>5. PICK g, h : Joins(r, ss, Len(s), g, h)
  BY <1>4
<1>6. ASSUME NEW k \in 1 .. Len(r)
      PROVE  g[k] \in 1 .. Len(s) /\ g[k] \in I /\ h[k] = 1 /\ r[k] = s[g[k]]
  <2>1. g[k] \in 1 .. Len(s) /\ h[k] \in 1 .. Len(ss[g[k]]) /\ r[k] = ss[g[k]][h[k]]
    BY <1>5 DEF Joins
  <2>2. CASE g[k] \in I
    <3>1. ss[g[k]] = <<s[g[k]]>>
      BY <1>2, <2>1, <2>2
    <3>2. Len(ss[g[k]]) = 1 /\ ss[g[k]][1] = s[g[k]]
      BY <3>1
    <3>3. h[k] = 1
      BY <2>1, <3>2
    <3> QED
      BY <2>1, <2>2, <3>2, <3>3
  <2>3. CASE g[k] \notin I
    <3>1. ss[g[k]] = <<>>
      BY <1>2, <2>1, <2>3
    <3>2. Len(ss[g[k]]) = 0
      BY <3>1
    <3> QED
      BY <2>1, <3>2
  <2> QED
    BY <2>2, <2>3
<1>7. ASSUME NEW k \in 1 .. Len(r), NEW l \in 1 .. Len(r), k < l
      PROVE  g[k] < g[l]
  <2>1. g[k] < g[l] \/ (g[k] = g[l] /\ h[k] < h[l])
    BY <1>5, <1>7 DEF Joins
  <2>2. h[k] = 1 /\ h[l] = 1
    BY <1>6
  <2> QED
    BY <2>1, <2>2
<1>8. ASSUME NEW i \in 1 .. Len(s), i \in I
      PROVE  \E k \in 1 .. Len(r) : g[k] = i
  <2>1. ss[i] = <<s[i]>>
    BY <1>2, <1>8
  <2>2. 1 \in 1 .. Len(ss[i])
    BY <2>1
  <2> QED
    BY <1>5, <2>2 DEF Joins
<1>9. Keeps(r, s, I, g)
  BY <1>6, <1>7, <1>8 DEF Keeps
<1> QED
  BY <1>4, <1>9 DEF r

\* The elements that KeepAt keeps, as a set.
LEMMA KeepAtRange ==
  ASSUME NEW S, NEW s \in Seq(S), NEW I
  PROVE  ToSet(KeepAt(s, I)) = {s[i] : i \in {j \in DOMAIN s : j \in I}}
<1> DEFINE r == KeepAt(s, I)
<1>1. r \in Seq(S) /\ \E g : Keeps(r, s, I, g)
  BY KeepAtKeeps
<1> HIDE DEF r
<1>2. PICK g : Keeps(r, s, I, g)
  BY <1>1
<1>3. DOMAIN r = 1 .. Len(r) /\ DOMAIN s = 1 .. Len(s)
  BY <1>1
<1>4. ASSUME NEW x \in ToSet(r) PROVE \E i \in DOMAIN s : i \in I /\ x = s[i]
  <2>1. PICK k \in 1 .. Len(r) : x = r[k]
    BY <1>3 DEF ToSet
  <2> QED
    BY <1>2, <1>3, <2>1 DEF Keeps
<1>5. ASSUME NEW i \in DOMAIN s, i \in I PROVE s[i] \in ToSet(r)
  <2>1. PICK k \in 1 .. Len(r) : g[k] = i
    BY <1>2, <1>3, <1>5 DEF Keeps
  <2>2. r[k] = s[i]
    BY <1>2, <2>1 DEF Keeps
  <2> QED
    BY <1>3, <2>2 DEF ToSet
<1>6. ToSet(r) = {s[i] : i \in {j \in DOMAIN s : j \in I}}
  BY <1>4, <1>5
<1> QED
  BY <1>6 DEF r

\* KeepAt with all positions keeps the sequence.
LEMMA KeepAtAll ==
  ASSUME NEW S, NEW s \in Seq(S), NEW I, DOMAIN s \subseteq I
  PROVE  KeepAt(s, I) = s
<1> DEFINE ss == [i \in 1 .. Len(s) |-> IF i \in I THEN <<s[i]>> ELSE <<>>]
<1>1. ss = [i \in 1 .. Len(s) |-> <<s[i]>>]
  <2>1. \A i \in 1 .. Len(s) : i \in I
    OBVIOUS
  <2> QED
    BY <2>1
<1>2. KeepAt(s, I) = FlattenSeq(ss)
  BY DEF KeepAt
<1> HIDE DEF ss
<1> QED
  BY <1>1, <1>2, FlattenSeqSingletons

\* The position i is the first at which its element occurs in s.
FirstOccurrence(s, i) == \A j \in 1 .. (i - 1) : s[j] # s[i]

\* dedupePreserveOrder keeps every element, at its first occurrence.
LEMMA DedupeKeeps ==
  ASSUME NEW S, NEW s \in Seq(S)
  PROVE  /\ DedupePreserveOrder(s) \in Seq(S)
         /\ ToSet(DedupePreserveOrder(s)) = ToSet(s)
         /\ \E g : Keeps(DedupePreserveOrder(s), s,
                         {i \in DOMAIN s : FirstOccurrence(s, i)}, g)
<1> DEFINE I == {i \in DOMAIN s : FirstOccurrence(s, i)}
<1>1. DedupePreserveOrder(s) = KeepAt(s, I)
  BY DEF DedupePreserveOrder, FirstOccurrence
<1>2. ToSet(s) = {s[i] : i \in {j \in DOMAIN s : j \in I}}
  <2>1. ASSUME NEW n \in DOMAIN s
        PROVE  \E i \in DOMAIN s : i \in I /\ s[n] = s[i]
    <3> DEFINE T == {i \in DOMAIN s : s[i] = s[n]}
    <3>1. DOMAIN s = 1 .. Len(s) /\ Len(s) \in Nat
      OBVIOUS
    <3>2. T \in SUBSET Nat /\ T # {}
      BY <3>1
    <3>3. PICK i \in T : \A j \in T : i <= j
      <4> HIDE DEF T
      <4> QED
        BY <3>2, LeastNumber
    <3>4. i \in 1 .. Len(s) /\ s[i] = s[n]
      BY <3>1
    <3>5. ASSUME NEW j \in 1 .. (i - 1), s[j] = s[i] PROVE FALSE
      <4>1. j \in 1 .. Len(s) /\ ~(i <= j)
        BY <3>1, <3>4
      <4> QED
        BY <3>1, <3>3, <3>4, <3>5, <4>1
    <3> QED
      BY <3>1, <3>4, <3>5 DEF FirstOccurrence
  <2> HIDE DEF I
  <2> QED
    BY <2>1 DEF ToSet
<1> HIDE DEF I
<1>3. KeepAt(s, I) \in Seq(S) /\ \E g : Keeps(KeepAt(s, I), s, I, g)
  BY KeepAtKeeps
<1>4. ToSet(KeepAt(s, I)) = ToSet(s)
  BY <1>2, KeepAtRange
<1>5. \E g : Keeps(DedupePreserveOrder(s), s, I, g)
  BY <1>1, <1>3
<1>6. DedupePreserveOrder(s) \in Seq(S) /\ ToSet(DedupePreserveOrder(s)) = ToSet(s)
  BY <1>1, <1>3, <1>4
<1> QED
  BY <1>5, <1>6 DEF I

\* What stands in F[i] and in no F[j] before it is first there at i.
FirstIn(F, t, i) == t \in F[i] /\ \A j \in 1 .. (i - 1) : t \notin F[j]

\* Without duplicates, and by the first of the sets F[1], F[2], ..., F[n] that an
\* element is in.
Ordered(r, F, n) ==
  /\ \A k \in DOMAIN r : \E i \in 1 .. n : FirstIn(F, r[k], i)
  /\ \A k, l \in DOMAIN r : k < l =>
       /\ r[k] # r[l]
       /\ \A i, j \in 1 .. n : FirstIn(F, r[k], i) /\ FirstIn(F, r[l], j) => i <= j

\* Sequences joined and deduplicated, as ResolveClusterPatterns does it.
LEMMA DedupeFlattenOrdered ==
  ASSUME NEW S, NEW ss \in Seq(Seq(S)), NEW F,
         \A i \in 1 .. Len(ss) : F[i] = ToSet(ss[i])
  PROVE  LET r == DedupePreserveOrder(FlattenSeq(ss))
         IN /\ r \in Seq(S)
            /\ ToSet(r) = UNION {F[i] : i \in 1 .. Len(ss)}
            /\ Ordered(r, F, Len(ss))
<1> DEFINE fl == FlattenSeq(ss)
           r == DedupePreserveOrder(fl)
           n == Len(ss)
           I == {i \in DOMAIN fl : FirstOccurrence(fl, i)}
<1>1. fl \in Seq(S) /\ \E g, h : Joins(fl, ss, n, g, h)
  BY FlattenSeqJoins
<1>2. PICK g, h : Joins(fl, ss, n, g, h)
  BY <1>1
<1> HIDE DEF fl
<1>3. r \in Seq(S) /\ ToSet(r) = ToSet(fl) /\ \E e : Keeps(r, fl, I, e)
  BY <1>1, DedupeKeeps
<1>4. PICK e : Keeps(r, fl, I, e)
  BY <1>3
<1> HIDE DEF r
<1>5. /\ DOMAIN r = 1 .. Len(r) /\ DOMAIN fl = 1 .. Len(fl) /\ Len(r) \in Nat /\ Len(fl) \in Nat
      /\ n \in Nat /\ \A i \in 1 .. n : ss[i] \in Seq(S) /\ DOMAIN ss[i] = 1 .. Len(ss[i])
  BY <1>1, <1>3
<1>6. ASSUME NEW k \in 1 .. Len(fl)
      PROVE  g[k] \in 1 .. n /\ fl[k] \in F[g[k]]
  <2>1. g[k] \in 1 .. n /\ h[k] \in 1 .. Len(ss[g[k]]) /\ fl[k] = ss[g[k]][h[k]]
    BY <1>2 DEF Joins
  <2>2. F[g[k]] = ToSet(ss[g[k]]) /\ DOMAIN ss[g[k]] = 1 .. Len(ss[g[k]])
    BY <1>5, <2>1
  <2> QED
    BY <2>1, <2>2 DEF ToSet
<1>7. ASSUME NEW i \in 1 .. n, NEW t \in F[i]
      PROVE  \E k \in 1 .. Len(fl) : g[k] = i /\ fl[k] = t
  <2>1. PICK j \in 1 .. Len(ss[i]) : t = ss[i][j]
    BY <1>5 DEF ToSet
  <2>2. PICK k \in 1 .. Len(fl) : g[k] = i /\ h[k] = j
    BY <1>2 DEF Joins
  <2>3. fl[k] = ss[i][j]
    BY <1>2, <2>2 DEF Joins
  <2> QED
    BY <2>1, <2>2, <2>3
<1>8. ASSUME NEW k \in 1 .. Len(fl), NEW l \in 1 .. Len(fl), k <= l
      PROVE  g[k] <= g[l]
  <2>1. g[k] \in 1 .. n /\ g[l] \in 1 .. n
    BY <1>6
  <2>2. k < l => g[k] <= g[l]
    <3>1. k < l => g[k] < g[l] \/ g[k] = g[l]
      BY <1>2 DEF Joins
    <3> QED
      BY <2>1, <3>1
  <2>3. k = l => g[k] <= g[l]
    BY <2>1
  <2> QED
    BY <1>5, <1>8, <2>2, <2>3
<1>9. ASSUME NEW k \in 1 .. Len(r)
      PROVE  /\ e[k] \in 1 .. Len(fl) /\ r[k] = fl[e[k]]
             /\ \A j \in 1 .. (e[k] - 1) : fl[j] # r[k]
  BY <1>4 DEF Keeps, I, FirstOccurrence
<1>10. ASSUME NEW k \in 1 .. Len(r) PROVE \E i \in 1 .. n : FirstIn(F, r[k], i)
  <2> DEFINE T == {i \in 1 .. n : r[k] \in F[i]}
  <2>1. g[e[k]] \in T
    BY <1>6, <1>9
  <2>2. T \in SUBSET Nat /\ T # {}
    BY <2>1
  <2>3. PICK i \in T : \A j \in T : i <= j
    <3> HIDE DEF T
    <3> QED
      BY <2>2, LeastNumber
  <2>4. i \in 1 .. n /\ r[k] \in F[i]
    OBVIOUS
  <2>5. ASSUME NEW j \in 1 .. (i - 1), r[k] \in F[j] PROVE FALSE
    <3>1. j \in 1 .. n /\ ~(i <= j)
      BY <1>5, <2>4
    <3> QED
      BY <2>3, <2>5, <3>1
  <2> QED
    BY <2>4, <2>5 DEF FirstIn
<1>11. ASSUME NEW k \in 1 .. Len(r), NEW l \in 1 .. Len(r), k < l
       PROVE  /\ r[k] # r[l]
              /\ \A i, j \in 1 .. n : FirstIn(F, r[k], i) /\ FirstIn(F, r[l], j) => i <= j
  <2>1. e[k] < e[l] /\ e[k] \in 1 .. Len(fl) /\ e[l] \in 1 .. Len(fl)
    BY <1>4, <1>9, <1>11 DEF Keeps
  <2>2. e[k] \in 1 .. (e[l] - 1)
    BY <1>5, <2>1
  <2>3. r[k] # r[l]
    BY <1>9, <2>2
  <2>4. ASSUME NEW i \in 1 .. n, NEW j \in 1 .. n, FirstIn(F, r[k], i), FirstIn(F, r[l], j)
        PROVE  i <= j
    <3>1. PICK m \in 1 .. Len(fl) : g[m] = j /\ fl[m] = r[l]
      BY <1>7, <2>4 DEF FirstIn
    <3>2. ~(m \in 1 .. (e[l] - 1))
      BY <1>9, <3>1
    <3>3. e[k] <= m
      BY <1>5, <2>1, <3>2
    <3>4. g[e[k]] <= j
      BY <1>8, <2>1, <3>1, <3>3
    <3>5. g[e[k]] \in 1 .. n /\ r[k] \in F[g[e[k]]]
      BY <1>6, <1>9, <2>1
    <3>6. ~(g[e[k]] \in 1 .. (i - 1))
      BY <2>4, <3>5 DEF FirstIn
    <3> QED
      BY <1>5, <3>4, <3>5, <3>6
  <2> QED
    BY <2>3, <2>4
<1>12. Ordered(r, F, n)
  BY <1>5, <1>10, <1>11 DEF Ordered
<1>13. ToSet(fl) = UNION {F[i] : i \in 1 .. n}
  <2>1. ASSUME NEW x \in ToSet(fl) PROVE \E i \in 1 .. n : x \in F[i]
    BY <1>5, <1>6 DEF ToSet
  <2>2. ASSUME NEW i \in 1 .. n, NEW x \in F[i] PROVE x \in ToSet(fl)
    BY <1>5, <1>7 DEF ToSet
  <2> QED
    BY <2>1, <2>2
<1> QED
  BY <1>3, <1>12, <1>13 DEF r, fl

-----------------------------------------------------------------------------
(* Targets and patterns.                                                   *)

\* A string is a sequence of at least one segment.
LEMMA StringFacts ==
  ASSUME NEW t \in Strings
  PROVE  /\ t \in Seq(Segments) /\ Len(t) \in Nat \ {0} /\ DOMAIN t = 1 .. Len(t)
         /\ \A i \in 1 .. Len(t) : t[i] \in Segments
<1>1. t \in Seq(Segments) /\ t # <<>>
  BY DEF Strings
<1>2. Len(t) # 0
  BY <1>1, EmptyIsEmpty
<1> QED
  BY <1>1, <1>2

\* The fields of a cluster.
LEMMA ClusterFacts ==
  ASSUME NEW c \in CAPICluster
  PROVE  /\ c.kubeconfig \in Strings /\ c.context \in Strings
         /\ c.namespace \in Strings /\ c.name \in Strings
         /\ c = [kubeconfig |-> c.kubeconfig, context |-> c.context,
                 namespace |-> c.namespace, name |-> c.name]
  BY DEF CAPICluster

\* Four strings joined with slashes.
LEMMA JoinedStrings ==
  ASSUME NEW u \in Strings, NEW v \in Strings, NEW w \in Strings, NEW x \in Strings
  PROVE  /\ u \o v \o w \o x \in Strings
         /\ Len(u \o v \o w \o x) = Len(u) + Len(v) + Len(w) + Len(x)
<1>1. /\ u \in Seq(Segments) /\ Len(u) \in Nat \ {0}
      /\ v \in Seq(Segments) /\ Len(v) \in Nat \ {0}
      /\ w \in Seq(Segments) /\ Len(w) \in Nat \ {0}
      /\ x \in Seq(Segments) /\ Len(x) \in Nat \ {0}
  BY StringFacts
<1>2. u \o v \in Seq(Segments) /\ Len(u \o v) = Len(u) + Len(v)
  BY <1>1
<1>3. u \o v \o w \in Seq(Segments) /\ Len(u \o v \o w) = Len(u) + Len(v) + Len(w)
  BY <1>1, <1>2
<1>4. /\ u \o v \o w \o x \in Seq(Segments)
      /\ Len(u \o v \o w \o x) = Len(u) + Len(v) + Len(w) + Len(x)
  BY <1>1, <1>3
<1>5. Len(u \o v \o w \o x) # 0
  BY <1>1, <1>4
<1>6. u \o v \o w \o x # <<>>
  BY <1>5
<1> QED
  BY <1>4, <1>6 DEF Strings

\* A formatted target is a string.
LEMMA FormatTargetType ==
  ASSUME NEW c \in CAPICluster
  PROVE  FormatTarget(c) \in Strings
  BY ClusterFacts, JoinedStrings DEF FormatTarget

\* A string of one segment.
LEMMA OneSegment ==
  ASSUME NEW t \in Strings, Len(t) = 1
  PROVE  t = <<t[1]>>
  BY StringFacts

\* A segment is a string.
LEMMA SegmentString ==
  ASSUME NEW s \in Segments
  PROVE  <<s>> \in Strings /\ Len(<<s>>) = 1 /\ <<s>>[1] = s
<1>1. <<s>> \in Seq(Segments) /\ Len(<<s>>) = 1 /\ <<s>>[1] = s
  OBVIOUS
<1>2. <<s>> # <<>>
  OBVIOUS
<1> QED
  BY <1>1, <1>2 DEF Strings

\* A string of four segments is what its segments join to.
LEMMA FourSegments ==
  ASSUME NEW t \in Strings, Len(t) = 4
  PROVE  <<t[1]>> \o <<t[2]>> \o <<t[3]>> \o <<t[4]>> = t
<1>1. t \in Seq(Segments) /\ \A i \in 1 .. 4 : t[i] \in Segments
  BY StringFacts
<1>2. t = <<t[1], t[2], t[3], t[4]>>
  BY <1>1
<1> QED
  BY <1>1, <1>2

\* FormatTarget undoes ParseTarget.
LEMMA FormatsWhatParses ==
  ASSUME NEW t \in Strings, IsTarget(t)
  PROVE  ParseTarget(t) \in CAPICluster /\ FormatTarget(ParseTarget(t)) = t
<1>1. \A i \in 1 .. 4 : t[i] \in Segments
  BY StringFacts DEF IsTarget
<1>2. <<t[1]>> \in Strings /\ <<t[2]>> \in Strings /\ <<t[3]>> \in Strings /\ <<t[4]>> \in Strings
  BY <1>1, SegmentString
<1>3. ParseTarget(t) \in CAPICluster
  BY <1>2 DEF ParseTarget, CAPICluster
<1> QED
  BY <1>3, FourSegments DEF IsTarget, FormatTarget, ParseTarget

\* Without a slash in a name, ParseTarget undoes FormatTarget.
LEMMA ParsesWhatFormats ==
  ASSUME NEW c \in CAPICluster, IsTarget(FormatTarget(c))
  PROVE  ParseTarget(FormatTarget(c)) = c
<1> DEFINE u == c.kubeconfig  v == c.context  w == c.namespace  x == c.name
           t == FormatTarget(c)
<1>1. u \in Strings /\ v \in Strings /\ w \in Strings /\ x \in Strings
  BY ClusterFacts
<1>2. /\ Len(u) \in Nat \ {0} /\ Len(v) \in Nat \ {0}
      /\ Len(w) \in Nat \ {0} /\ Len(x) \in Nat \ {0}
  BY <1>1, StringFacts
<1>3. t = u \o v \o w \o x /\ Len(t) = 4
  BY DEF FormatTarget, IsTarget
<1> HIDE DEF u, v, w, x, t
<1>4. Len(u) + Len(v) + Len(w) + Len(x) = 4
  BY <1>1, <1>3, JoinedStrings
<1>5. Len(u) = 1 /\ Len(v) = 1 /\ Len(w) = 1 /\ Len(x) = 1
  <2>1. \A i, j, k, l \in Nat \ {0} : i + j + k + l = 4 => i = 1 /\ j = 1 /\ k = 1 /\ l = 1
    OBVIOUS
  <2> QED
    BY <1>2, <1>4, <2>1
<1>6. u = <<u[1]>> /\ v = <<v[1]>> /\ w = <<w[1]>> /\ x = <<x[1]>>
  BY <1>1, <1>5, OneSegment
<1>7. t = <<u[1]>> \o <<v[1]>> \o <<w[1]>> \o <<x[1]>>
  BY <1>3, <1>6
<1>8. t[1] = u[1] /\ t[2] = v[1] /\ t[3] = w[1] /\ t[4] = x[1]
  <2>1. u[1] \in Segments /\ v[1] \in Segments /\ w[1] \in Segments /\ x[1] \in Segments
    BY <1>1, <1>5, StringFacts
  <2> DEFINE s == <<u[1], v[1], w[1], x[1]>>
  <2>2. s \in Seq(Segments) /\ Len(s) = 4
    BY <2>1
  <2>3. s[1] = u[1] /\ s[2] = v[1] /\ s[3] = w[1] /\ s[4] = x[1]
    OBVIOUS
  <2> HIDE DEF s
  <2>4. s \in Strings
    <3>1. s = <<>> => Len(s) = 0
      OBVIOUS
    <3> QED
      BY <2>2, <3>1 DEF Strings
  <2>5. t = s
    BY <1>7, <2>2, <2>3, <2>4, FourSegments
  <2> QED
    BY <2>3, <2>5
<1>9. ParseTarget(t) = [kubeconfig |-> u, context |-> v, namespace |-> w, name |-> x]
  BY <1>6, <1>8 DEF ParseTarget
<1> QED
  BY <1>9, ClusterFacts DEF t, u, v, w, x

-----------------------------------------------------------------------------

\* A pattern has up to four segments, none of them empty.
LEMMA PatternFacts ==
  ASSUME NEW p \in Strings, IsTargetPattern(p)
  PROVE  /\ Len(p) \in 1 .. 4
         /\ \A i \in 1 .. Len(p) : p[i] \in Segments /\ <<p[i]>> # NoString
<1>1. Len(p) \in 1 .. 4 /\ \A i \in 1 .. Len(p) : p[i] # Empty
  BY DEF IsTargetPattern, Contains
<1>2. \A i \in 1 .. Len(p) : p[i] \in Segments
  BY StringFacts
<1>3. ASSUME NEW i \in 1 .. Len(p) PROVE <<p[i]>> # NoString
  <2>1. p[i] # Empty
    BY <1>1
  <2> QED
    BY <2>1 DEF NoString
<1> QED
  BY <1>1, <1>2, <1>3

\* A pattern with four segments, and no other, is exact, and stands for itself.
LEMMA ExactPattern ==
  ASSUME NEW p \in Strings, IsTargetPattern(p)
  PROVE  /\ IsExact(ParseTargetPattern(p)) <=> IsTarget(p)
         /\ IsTarget(p) => FormatTarget(ParseTargetPattern(p)) = p
<1> DEFINE q == ParseTargetPattern(p)
<1>1. Len(p) \in 1 .. 4 /\ \A i \in 1 .. Len(p) : <<p[i]>> # NoString
  BY PatternFacts
<1>2. CASE Len(p) = 4
  <2>1. q = [kubeconfig |-> <<p[1]>>, context |-> <<p[2]>>,
             namespace |-> <<p[3]>>, name |-> <<p[4]>>]
    BY <1>2 DEF ParseTargetPattern
  <2>2. /\ q.kubeconfig = <<p[1]>> /\ q.context = <<p[2]>>
        /\ q.namespace = <<p[3]>> /\ q.name = <<p[4]>>
    BY <2>1
  <2>3. <<p[2]>> # NoString /\ <<p[3]>> # NoString /\ <<p[4]>> # NoString
    BY <1>1, <1>2
  <2>4. IsExact(q)
    BY <2>2, <2>3 DEF IsExact, Fields
  <2>5. FormatTarget(q) = p
    BY <1>2, <2>2, FourSegments DEF FormatTarget
  <2> QED
    BY <1>2, <2>4, <2>5 DEF IsTarget
<1>3. CASE Len(p) # 4
  <2>1. ~(4 <= Len(p))
    <3>1. \A n \in 1 .. 4 : n # 4 => ~(4 <= n)
      OBVIOUS
    <3> QED
      BY <1>1, <1>3, <3>1
  <2>2. q.name = NoString
    BY <2>1 DEF ParseTargetPattern
  <2>3. ~IsExact(q)
    BY <2>2 DEF IsExact, Fields
  <2> QED
    BY <1>3, <2>3 DEF IsTarget
<1> QED
  BY <1>2, <1>3

\* IsPrefix, name by name.
LEMMA PrefixNames ==
  ASSUME NEW p \in Strings, NEW c \in CAPICluster
  PROVE  IsPrefix(Names(p), Path(c)) <=>
           Len(p) <= 4 /\ \A i \in 1 .. Len(p) : Path(c)[i] = <<p[i]>>
<1>1. Len(p) \in Nat /\ DOMAIN p = 1 .. Len(p) /\ \A i \in 1 .. Len(p) : <<p[i]>> \in Strings
  BY StringFacts, SegmentString
<1>2. /\ Names(p) \in Seq(Strings) /\ Len(Names(p)) = Len(p)
      /\ \A i \in 1 .. Len(p) : Names(p)[i] = <<p[i]>>
  BY <1>1 DEF Names
<1>3. Path(c) \in Seq(Strings) /\ Len(Path(c)) = 4
  BY ClusterFacts DEF Path
<1> DEFINE N == Names(p)
           P == Path(c)
           n == Len(p)
<1> HIDE DEF N, P, n
<1>4. N \in Seq(Strings) /\ Len(N) = n /\ P \in Seq(Strings) /\ Len(P) = 4 /\ n \in Nat
  BY <1>1, <1>2, <1>3 DEF N, P, n
<1>5. CASE n <= 4
  <2>1. SubSeq(N, 1, n) \in Seq(Strings) /\ Len(SubSeq(N, 1, n)) = n
        /\ \A i \in 1 .. n : SubSeq(N, 1, n)[i] = N[i]
    BY <1>4
  <2>2. SubSeq(P, 1, n) \in Seq(Strings) /\ Len(SubSeq(P, 1, n)) = n
        /\ \A i \in 1 .. n : SubSeq(P, 1, n)[i] = P[i]
    BY <1>4, <1>5
  <2>3. SubSeq(N, 1, n) = SubSeq(P, 1, n) <=> \A i \in 1 .. n : P[i] = N[i]
    BY <2>1, <2>2
  <2>4. IsPrefix(N, P) <=> \A i \in 1 .. n : P[i] = N[i]
    BY <1>4, <1>5, <2>3 DEF IsPrefix
  <2> QED
    BY <1>2, <1>5, <2>4 DEF N, P, n
<1>6. CASE ~(n <= 4)
  <2>1. ~IsPrefix(N, P)
    BY <1>4, <1>6 DEF IsPrefix
  <2> QED
    BY <1>6, <2>1 DEF N, P, n
<1> QED
  BY <1>5, <1>6

\* A pattern matches the clusters whose path begins with its names.
LEMMA MatchesPrefix ==
  ASSUME NEW p \in Strings, IsTargetPattern(p), NEW c \in CAPICluster
  PROVE  Matches(ParseTargetPattern(p), c) <=> IsPrefix(Names(p), Path(c))
<1> DEFINE q == ParseTargetPattern(p)
           n == Len(p)
           f(i) == IF i <= n THEN <<p[i]>> ELSE NoString
<1>1. n \in 1 .. 4 /\ \A i \in 1 .. n : <<p[i]>> # NoString
  BY PatternFacts
<1>2. q.kubeconfig = f(1) /\ q.context = f(2) /\ q.namespace = f(3) /\ q.name = f(4)
  BY DEF ParseTargetPattern
<1>3. /\ Path(c)[1] = c.kubeconfig /\ Path(c)[2] = c.context
      /\ Path(c)[3] = c.namespace /\ Path(c)[4] = c.name
  BY DEF Path
<1>4. IsPrefix(Names(p), Path(c)) <=> \A i \in 1 .. n : Path(c)[i] = <<p[i]>>
  BY <1>1, PrefixNames
<1>5. Matches(q, c) <=> /\ c.kubeconfig = q.kubeconfig
                        /\ q.context # NoString => c.context = q.context
                        /\ q.namespace # NoString => c.namespace = q.namespace
                        /\ q.name # NoString => c.name = q.name
  BY DEF Matches, Fields
<1> HIDE DEF q
<1>6. \A i \in 1 .. 4 : i <= n => f(i) = <<p[i]>> /\ f(i) # NoString
  BY <1>1
<1>7. \A i \in 1 .. 4 : ~(i <= n) => f(i) = NoString
  OBVIOUS
<1>8. 1 <= n /\ f(1) = <<p[1]>>
  BY <1>1
<1>9. Matches(q, c) <=> \A i \in 1 .. 4 : i <= n => Path(c)[i] = <<p[i]>>
  <2>1. Matches(q, c) <=> /\ Path(c)[1] = <<p[1]>>
                          /\ 2 <= n => Path(c)[2] = <<p[2]>>
                          /\ 3 <= n => Path(c)[3] = <<p[3]>>
                          /\ 4 <= n => Path(c)[4] = <<p[4]>>
    BY <1>2, <1>3, <1>5, <1>6, <1>7, <1>8
  <2>2. (\A i \in 1 .. 4 : i <= n => Path(c)[i] = <<p[i]>>)
          <=> /\ 1 <= n => Path(c)[1] = <<p[1]>>
              /\ 2 <= n => Path(c)[2] = <<p[2]>>
              /\ 3 <= n => Path(c)[3] = <<p[3]>>
              /\ 4 <= n => Path(c)[4] = <<p[4]>>
    <3>1. 1 .. 4 = {1, 2, 3, 4}
      OBVIOUS
    <3> QED
      BY <3>1
  <2> QED
    BY <1>8, <2>1, <2>2
<1>10. /\ \A i \in 1 .. n : i \in 1 .. 4 /\ i <= n
       /\ \A i \in 1 .. 4 : i <= n => i \in 1 .. n
  <2>1. \A m \in 1 .. 4 :
          /\ \A i \in 1 .. m : i \in 1 .. 4 /\ i <= m
          /\ \A i \in 1 .. 4 : i <= m => i \in 1 .. m
    OBVIOUS
  <2> HIDE DEF n
  <2> QED
    BY <1>1, <2>1
<1> QED
  BY <1>4, <1>9, <1>10 DEF q

\* A full path selects itself.
LEMMA TargetSelectsItself ==
  ASSUME NEW p \in Strings, IsTarget(p), NEW clusters \in SUBSET CAPICluster
  PROVE  SelectedBy(p, clusters) = {p}
<1>1. ASSUME NEW c \in clusters, IsPrefix(Names(p), Path(c))
      PROVE  FormatTarget(c) = p
  <2>1. c \in CAPICluster /\ Len(p) = 4
    BY DEF IsTarget
  <2>2. \A i \in 1 .. 4 : Path(c)[i] = <<p[i]>>
    BY <1>1, <2>1, PrefixNames
  <2>3. /\ c.kubeconfig = <<p[1]>> /\ c.context = <<p[2]>>
        /\ c.namespace = <<p[3]>> /\ c.name = <<p[4]>>
    BY <2>2 DEF Path
  <2> QED
    BY <2>1, <2>3, FourSegments DEF FormatTarget
<1> QED
  BY <1>1 DEF SelectedBy

-----------------------------------------------------------------------------
(* What the resolvers return.                                              *)

\* The sets that the patterns stand for, in order.
SelectedSets(patterns, clusters) ==
  [i \in 1 .. Len(patterns) |-> SelectedBy(patterns[i], clusters)]

\* The targets are those that the patterns stand for, by the first pattern.
Selection(targets, patterns, clusters) ==
  LET F == SelectedSets(patterns, clusters)
  IN /\ targets \in Seq(Strings)
     /\ ToSet(targets) = UNION {F[i] : i \in 1 .. Len(patterns)}
     /\ Ordered(targets, F, Len(patterns))

\* What a list of clusters contains.
LEMMA KnownSet ==
  ASSUME NEW all \in Seq(CAPICluster)
  PROVE  ToSet(all) \in SUBSET CAPICluster
  BY DEF ToSet

\* ExpandTargetPattern has what a partial pattern stands for.
LEMMA ExpandSelects ==
  ASSUME NEW p \in Strings, IsTargetPattern(p), ~IsTarget(p), NEW all \in Seq(CAPICluster)
  PROVE  /\ ExpandTargetPattern(ParseTargetPattern(p), all) \in Seq(Strings)
         /\ ToSet(ExpandTargetPattern(ParseTargetPattern(p), all)) = SelectedBy(p, ToSet(all))
<1> DEFINE q == ParseTargetPattern(p)
           I == {i \in DOMAIN all : Matches(q, all[i])}
           m == KeepAt(all, I)
           e == ExpandTargetPattern(q, all)
<1>1. m \in Seq(CAPICluster) /\ ToSet(m) = {all[i] : i \in {j \in DOMAIN all : j \in I}}
  BY KeepAtKeeps, KeepAtRange
<1>2. e = [i \in DOMAIN m |-> FormatTarget(m[i])]
  BY DEF ExpandTargetPattern
<1>3. \A c \in CAPICluster : Matches(q, c) <=> IsPrefix(Names(p), Path(c))
  BY MatchesPrefix
<1>4. ToSet(m) = {c \in ToSet(all) : IsPrefix(Names(p), Path(c))}
  <2>1. \A i \in DOMAIN all : all[i] \in CAPICluster
    OBVIOUS
  <2>2. \A i \in DOMAIN all : i \in I <=> IsPrefix(Names(p), Path(all[i]))
    BY <1>3, <2>1
  <2> HIDE DEF m, I
  <2> QED
    BY <1>1, <2>2 DEF ToSet
<1> HIDE DEF m, e
<1>5. DOMAIN m = 1 .. Len(m) /\ Len(m) \in Nat /\ \A i \in DOMAIN m : FormatTarget(m[i]) \in Strings
  BY <1>1, FormatTargetType
<1>6. e \in Seq(Strings) /\ DOMAIN e = DOMAIN m
  BY <1>2, <1>5
<1>7. ToSet(e) = {FormatTarget(c) : c \in ToSet(m)}
  BY <1>2, <1>6 DEF ToSet
<1>8. {t \in {p} : IsTarget(t)} = {}
  OBVIOUS
<1>9. SelectedBy(p, ToSet(all)) = {FormatTarget(c) : c \in ToSet(m)}
  BY <1>4, <1>8 DEF SelectedBy
<1> QED
  BY <1>6, <1>7, <1>9 DEF e

\* ResolveClusterPatterns, strict: all the targets, each once, or none.
LEMMA ResolveStrictSelects ==
  ASSUME NEW patterns \in Seq(Strings), NEW clusters \in SUBSET CAPICluster
  PROVE  LET a == ResolveStrict(patterns)
         IN /\ a.error \in BOOLEAN /\ a.listed = FALSE
            /\ a.error => a.targets = <<>>
            /\ ~a.error => /\ \A i \in DOMAIN patterns : IsTarget(patterns[i])
                           /\ Selection(a.targets, patterns, clusters)
                           /\ ToSet(a.targets) = ToSet(patterns)
<1>1. CASE \A i \in DOMAIN patterns : IsTarget(patterns[i])
  <2> DEFINE F == SelectedSets(patterns, clusters)
             ss == [i \in 1 .. Len(patterns) |-> <<patterns[i]>>]
             n == Len(patterns)
  <2>1. /\ n \in Nat /\ DOMAIN patterns = 1 .. n
        /\ \A i \in 1 .. n : patterns[i] \in Strings /\ <<patterns[i]>> \in Seq(Strings)
    OBVIOUS
  <2>2. ss \in Seq(Seq(Strings)) /\ Len(ss) = n
    BY <2>1
  <2>3. ASSUME NEW i \in 1 .. Len(ss) PROVE F[i] = ToSet(ss[i])
    <3>1. i \in 1 .. n /\ patterns[i] \in Strings /\ IsTarget(patterns[i])
      BY <1>1, <2>1, <2>2
    <3>2. F[i] = {patterns[i]}
      BY <3>1, TargetSelectsItself DEF SelectedSets
    <3>3. ss[i] = <<patterns[i]>> /\ DOMAIN <<patterns[i]>> = {1}
      BY <3>1
    <3>4. ToSet(<<patterns[i]>>) = {patterns[i]}
      BY <3>3 DEF ToSet
    <3> QED
      BY <3>2, <3>3, <3>4
  <2>4. FlattenSeq(ss) = patterns
    BY FlattenSeqSingletons
  <2> HIDE DEF F, ss
  <2> DEFINE d == DedupePreserveOrder(patterns)
  <2>5. /\ d \in Seq(Strings) /\ ToSet(d) = UNION {F[i] : i \in 1 .. n} /\ Ordered(d, F, n)
    BY <2>2, <2>3, <2>4, DedupeFlattenOrdered
  <2>6. ToSet(d) = ToSet(patterns)
    BY DedupeKeeps
  <2>7. ResolveStrict(patterns) = [error |-> FALSE, targets |-> d, listed |-> FALSE]
    BY <1>1 DEF ResolveStrict, Selected
  <2>8. Selection(d, patterns, clusters)
    BY <2>5 DEF Selection, F
  <2> HIDE DEF d
  <2> QED
    BY <1>1, <2>6, <2>7, <2>8
<1>2. CASE ~\A i \in DOMAIN patterns : IsTarget(patterns[i])
  BY <1>2 DEF ResolveStrict, Refused
<1> QED
  BY <1>1, <1>2

\* ResolveClusterPatterns, not strict: exactly what the patterns stand for among the known clusters,
\* listed only if one of them is partial.
LEMMA ResolvePartialSelects ==
  ASSUME NEW patterns \in Seq(Strings), NEW all \in Seq(CAPICluster), NEW can \in BOOLEAN
  PROVE  LET a == ResolvePartial(patterns, all, can)
         IN /\ a.error \in BOOLEAN /\ a.listed \in BOOLEAN
            /\ a.error => a.targets = <<>>
            /\ a.listed => \E i \in DOMAIN patterns : ~IsTarget(patterns[i])
            /\ ~a.error => Selection(a.targets, patterns, ToSet(all))
<1> DEFINE a == ResolvePartial(patterns, all, can)
           n == Len(patterns)
           parsed == [i \in DOMAIN patterns |-> ParseTargetPattern(patterns[i])]
           lists == NeedsExpansion(parsed)
           targets(p) == IF IsExact(p) THEN <<FormatTarget(p)>> ELSE ExpandTargetPattern(p, all)
           ss == [i \in DOMAIN parsed |-> targets(parsed[i])]
           valid == \A i \in DOMAIN patterns : IsTargetPattern(patterns[i])
           d == DedupePreserveOrder(FlattenSeq(ss))
<1>1. n \in Nat /\ DOMAIN patterns = 1 .. n /\ DOMAIN parsed = 1 .. n
      /\ \A i \in 1 .. n : patterns[i] \in Strings
  OBVIOUS
<1>2. /\ ~valid => a = Refused(FALSE)
      /\ valid /\ lists /\ ~can => a = Refused(TRUE)
      /\ valid /\ ~(lists /\ ~can) => a = Selected(d, lists)
  BY DEF ResolvePartial
<1>3. lists \in BOOLEAN
  BY DEF NeedsExpansion
<1>4. CASE ~valid
  <2>1. a = [error |-> TRUE, targets |-> <<>>, listed |-> FALSE]
    BY <1>2, <1>4 DEF Refused
  <2> QED
    BY <2>1
<1>5. CASE valid
  <2>1. ASSUME NEW i \in 1 .. n
        PROVE  /\ parsed[i] = ParseTargetPattern(patterns[i])
               /\ patterns[i] \in Strings /\ IsTargetPattern(patterns[i])
               /\ IsExact(parsed[i]) <=> IsTarget(patterns[i])
    <3>1. /\ parsed[i] = ParseTargetPattern(patterns[i])
          /\ patterns[i] \in Strings /\ IsTargetPattern(patterns[i])
      BY <1>1, <1>5
    <3> QED
      BY <3>1, ExactPattern
  <2>2. lists => \E i \in DOMAIN patterns : ~IsTarget(patterns[i])
    BY <1>1, <2>1 DEF NeedsExpansion
  <2>3. CASE lists /\ ~can
    <3>1. a = [error |-> TRUE, targets |-> <<>>, listed |-> TRUE]
      BY <1>2, <1>5, <2>3 DEF Refused
    <3> HIDE DEF a, lists
    <3> QED
      BY <2>2, <2>3, <3>1 DEF a
  <2>4. CASE ~(lists /\ ~can)
    <3> DEFINE F == SelectedSets(patterns, ToSet(all))
    <3>1. ASSUME NEW i \in 1 .. n
          PROVE  targets(parsed[i]) \in Seq(Strings) /\ F[i] = ToSet(targets(parsed[i]))
      <4>1. F[i] = SelectedBy(patterns[i], ToSet(all))
        BY DEF SelectedSets
      <4>2. CASE IsTarget(patterns[i])
        <5>1. targets(parsed[i]) = <<patterns[i]>>
          BY <2>1, <4>2, ExactPattern
        <5>2. F[i] = {patterns[i]}
          BY <2>1, <4>1, <4>2, KnownSet, TargetSelectsItself
        <5>3. <<patterns[i]>> \in Seq(Strings) /\ DOMAIN <<patterns[i]>> = {1}
          BY <2>1
        <5>4. ToSet(<<patterns[i]>>) = {patterns[i]}
          BY <5>3 DEF ToSet
        <5> QED
          BY <5>1, <5>2, <5>3, <5>4
      <4>3. CASE ~IsTarget(patterns[i])
        <5>1. targets(parsed[i]) = ExpandTargetPattern(ParseTargetPattern(patterns[i]), all)
          BY <2>1, <4>3
        <5> QED
          BY <2>1, <4>1, <4>3, <5>1, ExpandSelects
      <4> QED
        BY <4>2, <4>3
    <3>2. \A i \in 1 .. n : ss[i] = targets(parsed[i])
      BY <1>1
    <3>3. ss \in Seq(Seq(Strings)) /\ Len(ss) = n
      <4>1. ss = [i \in 1 .. n |-> ss[i]]
        BY <1>1
      <4>2. \A i \in 1 .. n : ss[i] \in Seq(Strings)
        BY <3>1, <3>2
      <4> HIDE DEF ss
      <4>3. ss \in [1 .. n -> Seq(Strings)]
        BY <4>1, <4>2
      <4> QED
        BY <1>1, <4>3
    <3>4. \A i \in 1 .. Len(ss) : F[i] = ToSet(ss[i])
      BY <3>1, <3>2, <3>3
    <3> HIDE DEF F, ss
    <3>5. /\ d \in Seq(Strings) /\ ToSet(d) = UNION {F[i] : i \in 1 .. n} /\ Ordered(d, F, n)
      BY <3>3, <3>4, DedupeFlattenOrdered
    <3>6. Selection(d, patterns, ToSet(all))
      BY <3>5 DEF Selection, F
    <3>7. a = [error |-> FALSE, targets |-> d, listed |-> lists]
      BY <1>2, <1>5, <2>4 DEF Selected
    <3> HIDE DEF a, d, lists
    <3> QED
      BY <1>3, <2>2, <3>6, <3>7 DEF a
  <2> QED
    BY <2>3, <2>4
<1> QED
  BY <1>4, <1>5

-----------------------------------------------------------------------------
(* The theorems.                                                           *)

\* The patterns of an argument.
LEMMA PatternsType ==
  ASSUME NEW arg \in Arguments \cup {Omitted}
  PROVE  /\ Patterns(arg) \in Seq(Strings)
         /\ arg # Omitted => arg \in Arguments /\ Patterns(arg) = arg
         /\ arg = Omitted => Patterns(arg) = <<>>
<1>1. <<>> \in Seq(Strings)
  OBVIOUS
<1> QED
  BY <1>1, ArgumentsAssumption DEF Patterns

\* The known clusters and their targets.
LEMMA KnownType ==
  ASSUME known \in Known
  PROVE  /\ known \in Seq(CAPICluster) /\ Targets \in Seq(Strings)
         /\ DOMAIN Targets = DOMAIN known
         /\ \A i \in DOMAIN known : known[i] \in CAPICluster /\ Targets[i] = FormatTarget(known[i])
<1>1. known \in Seq(CAPICluster)
  BY ArgumentsAssumption
<1>2. \A i \in DOMAIN known : known[i] \in CAPICluster /\ FormatTarget(known[i]) \in Strings
  BY <1>1, FormatTargetType
<1> QED
  BY <1>1, <1>2 DEF Targets

\* listKnownClusters has the known clusters without a slash in a name, and all
\* of them in order if none has one.
LEMMA ListKnownClustersType ==
  ASSUME known \in Known
  PROVE  /\ ListKnownClusters \in Seq(CAPICluster)
         /\ ToSet(ListKnownClusters) = {c \in ToSet(known) : ~HasSlash(c)}
         /\ (\A c \in ToSet(known) : ~HasSlash(c)) => ListKnownClusters = known
<1> DEFINE I == {i \in DOMAIN Targets : IsTarget(Targets[i])}
           r == KeepAt(Targets, I)
<1>1. /\ known \in Seq(CAPICluster) /\ Targets \in Seq(Strings)
      /\ DOMAIN Targets = DOMAIN known
      /\ \A i \in DOMAIN known : known[i] \in CAPICluster /\ Targets[i] = FormatTarget(known[i])
  BY KnownType
<1>2. r \in Seq(Strings) /\ ToSet(r) = {Targets[i] : i \in {j \in DOMAIN Targets : j \in I}}
  BY <1>1, KeepAtKeeps, KeepAtRange
<1>3. ListKnownClusters = [i \in DOMAIN r |-> ParseTarget(r[i])]
  BY DEF ListKnownClusters
<1>4. \A i \in DOMAIN known : i \in I <=> ~HasSlash(known[i])
  BY <1>1 DEF HasSlash
<1>5. (\A c \in ToSet(known) : ~HasSlash(c)) => r = Targets
  <2>1. ASSUME \A c \in ToSet(known) : ~HasSlash(c) PROVE DOMAIN Targets \subseteq I
    BY <1>1, <1>4, <2>1 DEF ToSet
  <2> HIDE DEF I
  <2> QED
    BY <1>1, <2>1, KeepAtAll
<1> HIDE DEF r, I
<1>6. ASSUME NEW i \in DOMAIN known, i \in I
      PROVE  ParseTarget(Targets[i]) = known[i]
  BY <1>1, <1>4, <1>6, ParsesWhatFormats DEF HasSlash
<1>7. ASSUME NEW k \in DOMAIN r
      PROVE  \E i \in DOMAIN known : i \in I /\ r[k] = Targets[i] /\ ParseTarget(r[k]) = known[i]
  <2>1. r[k] \in ToSet(r)
    BY DEF ToSet
  <2>2. PICK i \in DOMAIN known : i \in I /\ r[k] = Targets[i]
    BY <1>1, <1>2, <2>1
  <2> QED
    BY <1>6, <2>2
<1>8. DOMAIN r = 1 .. Len(r) /\ Len(r) \in Nat
  BY <1>2
<1>9. ListKnownClusters \in Seq(CAPICluster) /\ DOMAIN ListKnownClusters = DOMAIN r
  <2>1. \A k \in DOMAIN r : ParseTarget(r[k]) \in CAPICluster
    BY <1>1, <1>7
  <2> QED
    BY <1>3, <1>8, <2>1
<1>10. ToSet(ListKnownClusters) = {c \in ToSet(known) : ~HasSlash(c)}
  <2>1. ASSUME NEW c \in ToSet(ListKnownClusters) PROVE c \in ToSet(known) /\ ~HasSlash(c)
    <3>1. PICK k \in DOMAIN r : c = ParseTarget(r[k])
      BY <1>3, <1>9 DEF ToSet
    <3>2. PICK i \in DOMAIN known : i \in I /\ c = known[i]
      BY <1>7, <3>1
    <3> QED
      BY <1>4, <3>2 DEF ToSet
  <2>2. ASSUME NEW c \in ToSet(known), ~HasSlash(c) PROVE c \in ToSet(ListKnownClusters)
    <3>1. PICK i \in DOMAIN known : c = known[i]
      BY DEF ToSet
    <3>2. i \in I /\ i \in DOMAIN Targets
      BY <1>1, <1>4, <2>2, <3>1
    <3>3. Targets[i] \in ToSet(r)
      BY <1>2, <3>2
    <3>4. PICK k \in DOMAIN r : r[k] = Targets[i]
      BY <3>3 DEF ToSet
    <3>5. ParseTarget(r[k]) = c
      BY <1>6, <3>1, <3>2, <3>4
    <3> QED
      BY <1>3, <1>9, <3>5 DEF ToSet
  <2> QED
    BY <2>1, <2>2
<1>11. ASSUME \A c \in ToSet(known) : ~HasSlash(c) PROVE ListKnownClusters = known
  <2>1. r = Targets /\ \A i \in DOMAIN known : i \in I
    BY <1>4, <1>5, <1>11 DEF ToSet
  <2>2. \A i \in DOMAIN known : ParseTarget(r[i]) = known[i]
    BY <1>6, <2>1
  <2>3. ListKnownClusters = [i \in DOMAIN known |-> known[i]]
    BY <1>1, <1>3, <2>1, <2>2
  <2> QED
    BY <1>1, <2>3
<1> QED
  BY <1>9, <1>10, <1>11

\* The embedded read-only tools and get_cluster_kubeconfig select the same
\* clusters, for all strings, patterns and known clusters without a slash in a
\* name.
LEMMA Agreement ==
  ASSUME known \in Known, listable \in BOOLEAN, NEW arg \in Arguments, arg # Omitted,
         \A c \in ToSet(known) : ~HasSlash(c)
  PROVE  ReadOnlySelection(arg) = ResolvePartial(arg, known, listable)
<1>1. arg \in Seq(Strings) /\ Patterns(arg) = arg
  BY PatternsType, ArgumentsAssumption
<1>2. ListKnownClusters = known
  BY ListKnownClustersType
<1>3. CASE Contains(arg, NoString)
  <2>1. PICK i \in 1 .. Len(arg) : arg[i] = NoString
    BY <1>3 DEF Contains
  <2>2. ~IsTargetPattern(NoString)
    <3>1. Len(NoString) = 1 /\ NoString[1] = Empty
      BY DEF NoString
    <3> QED
      BY <3>1 DEF IsTargetPattern, Contains
  <2>3. i \in DOMAIN arg
    BY <1>1
  <2>4. \E j \in DOMAIN arg : ~IsTargetPattern(arg[j])
    BY <2>1, <2>2, <2>3
  <2>5. ResolvePartial(arg, known, listable) = Refused(FALSE)
    BY <2>4 DEF ResolvePartial
  <2>6. ReadOnlySelection(arg) = Refused(FALSE)
    BY <1>1, <1>3 DEF ReadOnlySelection
  <2> QED
    BY <2>5, <2>6
<1>4. CASE ~Contains(arg, NoString)
  BY <1>1, <1>2, <1>4 DEF ReadOnlySelection
<1> QED
  BY <1>3, <1>4

\* What a call does, tool by tool.
LEMMA StepCases ==
  ASSUME TypeOK, Next
  PROVE  /\ tool = "none" /\ known' = known /\ listable' = listable
         /\ argument' \in Arguments \cup {Omitted}
         /\ \/ tool' = "list_clusters" /\ answer' = Listing(argument')
            \/ /\ tool' = "get_cluster_kubeconfig"
               /\ answer' = ResolvePartial(Patterns(argument'), known, listable)
            \/ tool' = "exec_in_cluster" /\ answer' = ExecSelection(argument')
            \/ tool' = "embedded_readonly" /\ answer' = ReadOnlySelection(argument')
            \/ /\ tool' \in {"embedded_destructive", "embedded_unhinted"}
               /\ answer' = DestructiveSelection(argument')
<1>1. PICK arg \in Arguments \cup {Omitted} :
        \/ ListClusters(arg) \/ GetClusterKubeconfig(arg) \/ ExecInCluster(arg)
        \/ \E hint \in {"yes", "no", "unset"} : EmbeddedCall(hint, arg)
  BY DEF Next
<1>2. CASE ListClusters(arg)
  BY <1>2 DEF ListClusters, Call
<1>3. CASE GetClusterKubeconfig(arg)
  BY <1>3 DEF GetClusterKubeconfig, Call
<1>4. CASE ExecInCluster(arg)
  BY <1>4 DEF ExecInCluster, Call
<1>5. ASSUME NEW hint \in {"yes", "no", "unset"}, EmbeddedCall(hint, arg)
      PROVE  /\ tool = "none" /\ known' = known /\ listable' = listable /\ argument' = arg
             /\ \/ tool' = "embedded_readonly" /\ answer' = ReadOnlySelection(arg)
                \/ /\ tool' \in {"embedded_destructive", "embedded_unhinted"}
                   /\ answer' = DestructiveSelection(arg)
  BY <1>5 DEF EmbeddedCall, EmbeddedTool, ReadOnlyHint, Call
<1> QED
  BY <1>1, <1>2, <1>3, <1>4, <1>5

\* A selection, or an error without targets.
Answer(a, patterns, clusters) ==
  /\ a.error \in BOOLEAN /\ a.listed \in BOOLEAN
  /\ a.error => a.targets = <<>>
  /\ ~a.error => Selection(a.targets, patterns, clusters)

\* An error is an answer.
LEMMA RefusedAnswer ==
  ASSUME NEW patterns, NEW clusters, NEW l \in BOOLEAN
  PROVE  /\ Answer(Refused(l), patterns, clusters)
         /\ Refused(l).error = TRUE /\ Refused(l).targets = <<>> /\ Refused(l).listed = l
  BY DEF Answer, Refused

\* get_cluster_kubeconfig.
LEMMA PartialAnswer ==
  ASSUME TypeOK, NEW arg \in Arguments \cup {Omitted}
  PROVE  LET a == ResolvePartial(Patterns(arg), known, listable)
         IN /\ Answer(a, Patterns(arg), ToSet(known))
            /\ a.listed => \E i \in DOMAIN Patterns(arg) : ~IsTarget(Patterns(arg)[i])
<1>1. Patterns(arg) \in Seq(Strings) /\ known \in Seq(CAPICluster) /\ listable \in BOOLEAN
  BY PatternsType, KnownType DEF TypeOK
<1> QED
  BY <1>1, ResolvePartialSelects DEF Answer

\* The embedded read-only tools.
LEMMA ReadOnlyAnswer ==
  ASSUME TypeOK, NEW arg \in Arguments \cup {Omitted}
  PROVE  LET a == ReadOnlySelection(arg)
         IN /\ arg # Omitted => /\ Answer(a, arg, {c \in ToSet(known) : ~HasSlash(c)})
                                /\ a.listed => \E i \in DOMAIN arg : ~IsTarget(arg[i])
            /\ a.error \in BOOLEAN /\ a.listed \in BOOLEAN /\ (a.error => a.targets = <<>>)
<1> DEFINE a == ReadOnlySelection(arg)
<1>1. /\ Patterns(arg) \in Seq(Strings) /\ listable \in BOOLEAN
      /\ arg # Omitted => Patterns(arg) = arg
  BY PatternsType DEF TypeOK
<1>2. /\ ListKnownClusters \in Seq(CAPICluster)
      /\ ToSet(ListKnownClusters) = {c \in ToSet(known) : ~HasSlash(c)}
  BY ListKnownClustersType DEF TypeOK
<1>3. CASE arg = Omitted
  <2>1. a = IF listable THEN Selected(Targets, TRUE) ELSE Refused(TRUE)
    BY <1>3 DEF ReadOnlySelection
  <2>2. a.error \in BOOLEAN /\ a.listed \in BOOLEAN /\ (a.error => a.targets = <<>>)
    BY <2>1 DEF Selected, Refused
  <2> QED
    BY <1>3, <2>2
<1>4. CASE arg # Omitted /\ Contains(Patterns(arg), NoString)
  <2>1. a = Refused(FALSE)
    BY <1>4 DEF ReadOnlySelection
  <2> HIDE DEF a
  <2> QED
    BY <1>4, <2>1, RefusedAnswer DEF a
<1>5. CASE arg # Omitted /\ ~Contains(Patterns(arg), NoString)
  <2>1. a = ResolvePartial(arg, ListKnownClusters, listable)
    BY <1>1, <1>5 DEF ReadOnlySelection
  <2>2. /\ a.error \in BOOLEAN /\ a.listed \in BOOLEAN
        /\ a.error => a.targets = <<>>
        /\ a.listed => \E i \in DOMAIN arg : ~IsTarget(arg[i])
        /\ ~a.error => Selection(a.targets, arg, ToSet(ListKnownClusters))
    <3> HIDE DEF a
    <3> QED
      BY <1>1, <1>2, <1>5, <2>1, ResolvePartialSelects
  <2> HIDE DEF a
  <2> QED
    BY <1>2, <2>2 DEF Answer, a
<1> QED
  BY <1>3, <1>4, <1>5

\* exec_in_cluster and the embedded tools that are not read-only.
LEMMA StrictAnswer ==
  ASSUME TypeOK, NEW arg \in Arguments \cup {Omitted},
         NEW a \in {ExecSelection(arg), DestructiveSelection(arg)}
  PROVE  /\ Answer(a, Patterns(arg), ToSet(known))
         /\ ToSet(a.targets) \subseteq {t \in ToSet(Patterns(arg)) : IsTarget(t)}
         /\ arg = Omitted => a.error
         /\ a.listed = FALSE
<1>1. /\ Patterns(arg) \in Seq(Strings) /\ ToSet(known) \in SUBSET CAPICluster
      /\ arg = Omitted => Patterns(arg) = <<>>
  BY PatternsType, KnownType, KnownSet DEF TypeOK
<1>2. \/ a = Refused(FALSE)
      \/ a = ResolveStrict(Patterns(arg)) /\ arg # Omitted
  <2>1. a = ExecSelection(arg) => \/ a = Refused(FALSE)
                                  \/ a = ResolveStrict(Patterns(arg)) /\ arg # Omitted
    <3>1. arg = Omitted => Len(Patterns(arg)) = 0
      BY <1>1
    <3> QED
      BY <3>1 DEF ExecSelection
  <2>2. a = DestructiveSelection(arg) => \/ a = Refused(FALSE)
                                         \/ a = ResolveStrict(Patterns(arg)) /\ arg # Omitted
    BY DEF DestructiveSelection
  <2> QED
    BY <2>1, <2>2
<1>3. CASE a = Refused(FALSE)
  <2>1. ToSet(<<>>) = {}
    BY DEF ToSet
  <2> QED
    BY <1>3, <2>1, RefusedAnswer
<1>4. CASE a = ResolveStrict(Patterns(arg)) /\ arg # Omitted
  <2>1. /\ a.error \in BOOLEAN /\ a.listed = FALSE
        /\ a.error => a.targets = <<>>
        /\ ~a.error => /\ Selection(a.targets, Patterns(arg), ToSet(known))
                       /\ ToSet(a.targets) = ToSet(Patterns(arg))
    BY <1>1, <1>4, ResolveStrictSelects
  <2>2. ToSet(<<>>) = {}
    BY DEF ToSet
  <2>3. ~a.error => \A i \in DOMAIN Patterns(arg) : IsTarget(Patterns(arg)[i])
    BY <1>4 DEF ResolveStrict, Refused, Selected
  <2>4. ~a.error => \A t \in ToSet(Patterns(arg)) : IsTarget(t)
    BY <2>3 DEF ToSet
  <2>5. ToSet(a.targets) \subseteq {t \in ToSet(Patterns(arg)) : IsTarget(t)}
    BY <2>1, <2>2, <2>4
  <2> QED
    BY <1>4, <2>1, <2>5 DEF Answer
<1> QED
  BY <1>2, <1>3, <1>4

\* list_clusters: the known clusters, or those of them that the patterns stand
\* for.
LEMMA ListingAnswer ==
  ASSUME TypeOK, NEW arg \in Arguments \cup {Omitted}
  PROVE  LET a == Listing(arg)
             F == SelectedSets(Patterns(arg), ToSet(known))
         IN /\ a.error \in BOOLEAN /\ a.listed \in BOOLEAN
            /\ a.error => a.targets = <<>>
            /\ ~a.error /\ Len(Patterns(arg)) > 0 =>
                 ToSet(a.targets) = {t \in UNION {F[i] : i \in 1 .. Len(Patterns(arg))} :
                                       t \in ToSet(Targets)}
<1> DEFINE a == Listing(arg)
           F == SelectedSets(Patterns(arg), ToSet(known))
           n == Len(Patterns(arg))
           resolved == ResolvePartial(Patterns(arg), known, TRUE)
           I == {i \in DOMAIN Targets : Contains(resolved.targets, Targets[i])}
<1>1. /\ Patterns(arg) \in Seq(Strings) /\ n \in Nat
      /\ known \in Seq(CAPICluster) /\ Targets \in Seq(Strings) /\ TRUE \in BOOLEAN
  BY PatternsType, KnownType DEF TypeOK
<1>2. /\ resolved.error \in BOOLEAN
      /\ ~resolved.error => Selection(resolved.targets, Patterns(arg), ToSet(known))
  BY <1>1, ResolvePartialSelects
<1>3. \/ a = Refused(TRUE)
      \/ a = Selected(Targets, TRUE) /\ n = 0
      \/ a = Selected(KeepAt(Targets, I), TRUE) /\ ~resolved.error
  <2>1. a = CASE ~listable -> Refused(TRUE)
              [] listable /\ n = 0 -> Selected(Targets, TRUE)
              [] listable /\ n > 0 /\ resolved.error -> Refused(TRUE)
              [] OTHER -> Selected(KeepAt(Targets, I), TRUE)
    BY DEF Listing
  <2>2. n = 0 \/ n > 0
    BY <1>1
  <2> HIDE DEF a, resolved, I, n
  <2>3. CASE ~listable
    BY <2>1, <2>3
  <2>4. CASE listable /\ n = 0
    BY <2>1, <2>4
  <2>5. CASE listable /\ n # 0 /\ resolved.error
    <3>1. n > 0
      BY <2>2, <2>5
    <3> QED
      BY <2>1, <2>5, <3>1
  <2>6. CASE listable /\ n # 0 /\ ~resolved.error
    BY <2>1, <2>6
  <2> QED
    BY <2>3, <2>4, <2>5, <2>6
<1>4. CASE a = Refused(TRUE)
  <2>1. a.error = TRUE /\ a.targets = <<>> /\ a.listed = TRUE
    BY <1>4, RefusedAnswer
  <2> QED
    BY <2>1
<1>5. CASE a = Selected(Targets, TRUE) /\ n = 0
  <2>1. a.error = FALSE /\ a.listed = TRUE
    BY <1>5 DEF Selected
  <2>2. ~(n > 0)
    BY <1>1, <1>5
  <2> HIDE DEF a, F
  <2> QED
    BY <2>1, <2>2 DEF a
<1>6. CASE a = Selected(KeepAt(Targets, I), TRUE) /\ ~resolved.error
  <2>1. a.error = FALSE /\ a.listed = TRUE /\ a.targets = KeepAt(Targets, I)
    BY <1>6 DEF Selected
  <2>2. ToSet(KeepAt(Targets, I)) = {Targets[i] : i \in {j \in DOMAIN Targets : j \in I}}
    <3> HIDE DEF I
    <3> QED
      BY <1>1, KeepAtRange
  <2>3. /\ resolved.targets \in Seq(Strings)
        /\ ToSet(resolved.targets) = UNION {F[i] : i \in 1 .. n}
    BY <1>2, <1>6 DEF Selection
  <2> HIDE DEF resolved, F, n
  <2>4. \A t : Contains(resolved.targets, t) <=> t \in ToSet(resolved.targets)
    BY <2>3 DEF Contains, ToSet
  <2>5. \A i \in DOMAIN Targets : i \in I <=> Targets[i] \in UNION {F[j] : j \in 1 .. n}
    BY <2>3, <2>4
  <2>6. ToSet(KeepAt(Targets, I)) =
          {t \in UNION {F[i] : i \in 1 .. n} : t \in ToSet(Targets)}
    <3> DEFINE U == UNION {F[i] : i \in 1 .. n}
    <3> HIDE DEF I, U
    <3>1. \A i \in DOMAIN Targets : i \in I <=> Targets[i] \in U
      BY <2>5 DEF U
    <3>2. {Targets[i] : i \in {j \in DOMAIN Targets : j \in I}} = {t \in U : t \in ToSet(Targets)}
      BY <3>1 DEF ToSet
    <3> QED
      BY <2>2, <3>2 DEF U
  <2> HIDE DEF I, a
  <2> QED
    BY <2>1, <2>6 DEF a, F, n
<1> QED
  BY <1>3, <1>4, <1>5, <1>6

\* The inductive invariant: what the last call was told.  The theorems about the
\* partial tools follow from its second and third parts.
AnswerInv ==
  tool # "list_clusters" /\ argument # Omitted => Answer(answer, argument, Expandable)

ListingInv ==
  tool = "list_clusters" /\ ~answer.error /\ Len(Patterns(argument)) > 0 =>
    LET F == SelectedSets(argument, ToSet(known))
    IN ToSet(answer.targets) =
         {t \in UNION {F[i] : i \in 1 .. Len(argument)} : t \in ToSet(Targets)}

SelectionInv ==
  TypeOK /\ AnswerInv /\ ListingInv /\ StrictNeverWidens /\ ListsOnlyWhenNeeded

\* Before a call there is no selection.
LEMMA InitEstablishes == Init => SelectionInv
<1> SUFFICES ASSUME Init PROVE SelectionInv
  OBVIOUS
<1>1. /\ tool = "none" /\ argument = Omitted /\ known \in Known /\ listable \in BOOLEAN
      /\ answer.error = TRUE /\ answer.targets = <<>> /\ answer.listed = FALSE
  BY RefusedAnswer DEF Init
<1>2. TypeOK
  BY <1>1 DEF TypeOK
<1>3. AnswerInv /\ ListingInv /\ StrictNeverWidens /\ ListsOnlyWhenNeeded
  BY <1>1 DEF AnswerInv, ListingInv, StrictNeverWidens, StrictTools, ListsOnlyWhenNeeded
<1> QED
  BY <1>2, <1>3 DEF SelectionInv

\* A call, tool by tool.
LEMMA NextPreserves ==
  ASSUME SelectionInv, Next
  PROVE  SelectionInv'
<1> DEFINE arg == argument'
           a == answer'
<1>1. TypeOK
  BY DEF SelectionInv
<1>2. /\ known' = known /\ listable' = listable /\ arg \in Arguments \cup {Omitted}
      /\ \/ tool' = "list_clusters" /\ a = Listing(arg)
         \/ /\ tool' = "get_cluster_kubeconfig"
            /\ a = ResolvePartial(Patterns(arg), known, listable)
         \/ tool' = "exec_in_cluster" /\ a = ExecSelection(arg)
         \/ tool' = "embedded_readonly" /\ a = ReadOnlySelection(arg)
         \/ /\ tool' \in {"embedded_destructive", "embedded_unhinted"}
            /\ a = DestructiveSelection(arg)
  BY <1>1, StepCases
<1>3. /\ arg # Omitted => Patterns(arg) = arg
      /\ arg = Omitted => Patterns(arg) = <<>>
      /\ arg \in Arguments \cup {Omitted}
  BY <1>2, PatternsType
<1>4. Targets' = Targets
  BY <1>2 DEF Targets
<1>5. Expandable' = {c \in ToSet(known) : tool' = "embedded_readonly" => ~HasSlash(c)}
  BY <1>2 DEF Expandable
<1>6. SUFFICES /\ tool' \in PartialTools \cup StrictTools
               /\ a.error \in BOOLEAN /\ a.listed \in BOOLEAN /\ (a.error => a.targets = <<>>)
               /\ AnswerInv' /\ ListingInv' /\ StrictNeverWidens' /\ ListsOnlyWhenNeeded'
  BY <1>1, <1>2 DEF SelectionInv, TypeOK
<1>7. CASE tool' = "list_clusters" /\ a = Listing(arg)
  <2> DEFINE F == SelectedSets(Patterns(arg), ToSet(known))
  <2>1. /\ a.error \in BOOLEAN /\ a.listed \in BOOLEAN /\ (a.error => a.targets = <<>>)
        /\ ~a.error /\ Len(Patterns(arg)) > 0 =>
             ToSet(a.targets) = {t \in UNION {F[i] : i \in 1 .. Len(Patterns(arg))} :
                                   t \in ToSet(Targets)}
    BY <1>1, <1>3, <1>7, ListingAnswer
  <2>2. Len(Patterns(arg)) > 0 => Patterns(arg) = arg
    <3>1. arg = Omitted => Len(Patterns(arg)) = 0
      BY <1>3
    <3> QED
      BY <1>3, <3>1
  <2>3. ListingInv'
    BY <1>2, <1>4, <2>1, <2>2 DEF ListingInv
  <2>4. AnswerInv' /\ StrictNeverWidens' /\ ListsOnlyWhenNeeded'
    BY <1>7 DEF AnswerInv, StrictNeverWidens, StrictTools, ListsOnlyWhenNeeded
  <2> QED
    BY <1>7, <2>1, <2>3, <2>4 DEF PartialTools
<1>8. CASE tool' = "get_cluster_kubeconfig" /\ a = ResolvePartial(Patterns(arg), known, listable)
  <2>1. /\ Answer(a, Patterns(arg), ToSet(known))
        /\ a.listed => \E i \in DOMAIN Patterns(arg) : ~IsTarget(Patterns(arg)[i])
    BY <1>1, <1>3, <1>8, PartialAnswer
  <2>2. Expandable' = ToSet(known)
    BY <1>5, <1>8
  <2>3. AnswerInv'
    BY <1>3, <2>1, <2>2 DEF AnswerInv
  <2>4. ListsOnlyWhenNeeded'
    BY <1>3, <2>1 DEF ListsOnlyWhenNeeded
  <2>5. ListingInv' /\ StrictNeverWidens'
    BY <1>8 DEF ListingInv, StrictNeverWidens, StrictTools
  <2> QED
    BY <1>8, <2>1, <2>3, <2>4, <2>5 DEF Answer, PartialTools
<1>9. CASE tool' = "embedded_readonly" /\ a = ReadOnlySelection(arg)
  <2>1. /\ arg # Omitted => /\ Answer(a, arg, {c \in ToSet(known) : ~HasSlash(c)})
                            /\ a.listed => \E i \in DOMAIN arg : ~IsTarget(arg[i])
        /\ a.error \in BOOLEAN /\ a.listed \in BOOLEAN /\ (a.error => a.targets = <<>>)
    BY <1>1, <1>3, <1>9, ReadOnlyAnswer
  <2>2. Expandable' = {c \in ToSet(known) : ~HasSlash(c)}
    BY <1>5, <1>9
  <2>3. AnswerInv'
    BY <2>1, <2>2 DEF AnswerInv
  <2>4. ListsOnlyWhenNeeded'
    BY <2>1 DEF ListsOnlyWhenNeeded
  <2>5. ListingInv' /\ StrictNeverWidens'
    BY <1>9 DEF ListingInv, StrictNeverWidens, StrictTools
  <2> QED
    BY <1>9, <2>1, <2>3, <2>4, <2>5 DEF PartialTools
<1>10. CASE /\ tool' \in StrictTools
            /\ a \in {ExecSelection(arg), DestructiveSelection(arg)}
  <2>1. /\ Answer(a, Patterns(arg), ToSet(known))
        /\ ToSet(a.targets) \subseteq {t \in ToSet(Patterns(arg)) : IsTarget(t)}
        /\ arg = Omitted => a.error
        /\ a.listed = FALSE
    BY <1>1, <1>3, <1>10, StrictAnswer
  <2>2. Expandable' = ToSet(known)
    BY <1>5, <1>10 DEF StrictTools
  <2>3. AnswerInv'
    BY <1>3, <2>1, <2>2 DEF AnswerInv
  <2>4. StrictNeverWidens'
    BY <2>1 DEF StrictNeverWidens, Patterns
  <2>5. ListingInv' /\ ListsOnlyWhenNeeded'
    BY <1>10, <2>1 DEF ListingInv, ListsOnlyWhenNeeded, StrictTools
  <2> QED
    BY <1>10, <2>1, <2>3, <2>4, <2>5 DEF Answer
<1> QED
  BY <1>2, <1>7, <1>8, <1>9, <1>10 DEF StrictTools

\* A step of anything else.
LEMMA StutterPreserves ==
  ASSUME SelectionInv, UNCHANGED vars
  PROVE  SelectionInv'
<1>1. /\ known' = known /\ listable' = listable /\ tool' = tool
      /\ argument' = argument /\ answer' = answer
  BY DEF vars
<1>2. TypeOK'
  BY <1>1 DEF SelectionInv, TypeOK
<1>3. Expandable' = Expandable /\ Targets' = Targets
  BY <1>1 DEF Expandable, Targets
<1>4. AnswerInv' /\ ListingInv'
  BY <1>1, <1>3 DEF SelectionInv, AnswerInv, ListingInv
<1>5. StrictNeverWidens' /\ ListsOnlyWhenNeeded'
  BY <1>1 DEF SelectionInv, StrictNeverWidens, ListsOnlyWhenNeeded
<1> QED
  BY <1>2, <1>4, <1>5 DEF SelectionInv

\* The inductive invariant holds in every reachable state.
THEOREM Invariance == Spec => []SelectionInv
<1>1. SelectionInv /\ [Next]_vars => SelectionInv'
  BY NextPreserves, StutterPreserves
<1> QED
  BY <1>1, InitEstablishes, PTL DEF Spec

\* Types: the tools that select clusters (src/internal/server/tools.go,
\* src/internal/embed/fanout.go) answer with targets or with an error, never both.
THEOREM TypeCorrect == Spec => []TypeOK
<1>1. SelectionInv => TypeOK
  BY DEF SelectionInv
<1> QED
  BY <1>1, Invariance, PTL

\* The tools that may change a cluster resolve their patterns strictly
\* (src/internal/capi/resolve_patterns.go): they run against nothing that was not
\* spelled out as a full path, and not at all when the argument is left out.
THEOREM StrictNeverWidensTheorem == Spec => []StrictNeverWidens
<1>1. SelectionInv => StrictNeverWidens
  BY DEF SelectionInv
<1> QED
  BY <1>1, Invariance, PTL

\* ResolveClusterPatterns (src/internal/capi/resolve_patterns.go) calls listKnown
\* for partial patterns only.
THEOREM ListsOnlyWhenNeededTheorem == Spec => []ListsOnlyWhenNeeded
<1>1. SelectionInv => ListsOnlyWhenNeeded
  BY DEF SelectionInv
<1> QED
  BY <1>1, Invariance, PTL

\* SelectsWhatMatches is a consequence of the invariant.
LEMMA InvSelectsWhatMatches == SelectionInv => SelectsWhatMatches
<1> SUFFICES ASSUME SelectionInv, tool \in PartialTools, ~answer.error, Len(Patterns(argument)) > 0
             PROVE  ToSet(answer.targets) =
                      {t \in UNION {SelectedBy(argument[i], Expandable) : i \in DOMAIN argument} :
                         tool = "list_clusters" => t \in ToSet(Targets)}
  BY DEF SelectsWhatMatches
<1> DEFINE n == Len(argument)
           F == SelectedSets(argument, Expandable)
<1>1. argument # Omitted /\ argument \in Seq(Strings) /\ DOMAIN argument = 1 .. n
  <2>1. argument = Omitted => Len(Patterns(argument)) = 0
    BY DEF Patterns
  <2>2. argument # Omitted
    BY <2>1
  <2>3. argument \in Seq(Strings)
    BY <2>2, ArgumentsAssumption DEF SelectionInv, TypeOK
  <2> QED
    BY <2>2, <2>3
<1>2. UNION {SelectedBy(argument[i], Expandable) : i \in DOMAIN argument}
        = UNION {F[i] : i \in 1 .. n}
  <2>1. \A i \in 1 .. n : F[i] = SelectedBy(argument[i], Expandable)
    BY DEF SelectedSets
  <2> HIDE DEF F
  <2> QED
    BY <1>1, <2>1
<1>3. CASE tool = "list_clusters"
  <2>1. Expandable = ToSet(known)
    BY <1>3 DEF Expandable
  <2>2. ToSet(answer.targets) = {t \in UNION {F[i] : i \in 1 .. n} : t \in ToSet(Targets)}
    BY <1>3, <2>1 DEF SelectionInv, ListingInv
  <2> QED
    BY <1>2, <1>3, <2>2
<1>4. CASE tool # "list_clusters"
  <2>1. Selection(answer.targets, argument, Expandable)
    BY <1>1, <1>4 DEF SelectionInv, AnswerInv, Answer
  <2>2. ToSet(answer.targets) = UNION {F[i] : i \in 1 .. n}
    BY <2>1 DEF Selection
  <2> QED
    BY <1>2, <1>4, <2>2
<1> QED
  BY <1>3, <1>4

\* ExpandTargetPattern and Matches (src/internal/capi/target_pattern.go) select,
\* for any strings and any known clusters, exactly the clusters whose path begins
\* with a pattern, and what is spelled out in full.
THEOREM SelectsWhatMatchesTheorem == Spec => []SelectsWhatMatches
  BY InvSelectsWhatMatches, Invariance, PTL

\* FirstSeenOrder is a consequence of the invariant.
LEMMA InvFirstSeenOrder == SelectionInv => FirstSeenOrder
<1> SUFFICES ASSUME SelectionInv, tool # "list_clusters", argument # Omitted
             PROVE  LET first(t) == CHOOSE i \in DOMAIN argument :
                          /\ t \in SelectedBy(argument[i], Expandable)
                          /\ \A j \in 1..(i - 1) : t \notin SelectedBy(argument[j], Expandable)
                    IN \A i, j \in DOMAIN answer.targets :
                         i < j => /\ answer.targets[i] # answer.targets[j]
                                  /\ first(answer.targets[i]) <= first(answer.targets[j])
  BY DEF FirstSeenOrder
<1> DEFINE n == Len(argument)
           r == answer.targets
           F == SelectedSets(argument, Expandable)
           first(t) == CHOOSE i \in DOMAIN argument :
                         /\ t \in SelectedBy(argument[i], Expandable)
                         /\ \A j \in 1..(i - 1) : t \notin SelectedBy(argument[j], Expandable)
<1>1. argument \in Seq(Strings) /\ DOMAIN argument = 1 .. n /\ n \in Nat
  <2>1. argument \in Seq(Strings)
    BY ArgumentsAssumption DEF SelectionInv, TypeOK
  <2> QED
    BY <2>1
<1>2. Answer(answer, argument, Expandable)
  BY DEF SelectionInv, AnswerInv
<1>3. CASE answer.error
  <2>1. r = <<>>
    BY <1>2, <1>3 DEF Answer
  <2>2. DOMAIN r = {}
    BY <2>1
  <2> QED
    BY <2>2
<1>4. CASE ~answer.error
  <2>1. Ordered(r, F, n)
    BY <1>2, <1>4 DEF Answer, Selection
  <2>2. \A i \in 1 .. n : F[i] = SelectedBy(argument[i], Expandable)
    BY DEF SelectedSets
  <2>3. ASSUME NEW t, NEW i \in 1 .. n
        PROVE  FirstIn(F, t, i) <=>
                 /\ t \in SelectedBy(argument[i], Expandable)
                 /\ \A j \in 1..(i - 1) : t \notin SelectedBy(argument[j], Expandable)
    <3>1. \A j \in 1 .. (i - 1) : j \in 1 .. n
      BY <1>1
    <3> HIDE DEF F
    <3> QED
      BY <2>2, <3>1 DEF FirstIn
  <2> HIDE DEF F
  <2>4. ASSUME NEW t, \E i \in 1 .. n : FirstIn(F, t, i)
        PROVE  first(t) \in 1 .. n /\ FirstIn(F, t, first(t))
    <3>1. \E i \in DOMAIN argument :
            /\ t \in SelectedBy(argument[i], Expandable)
            /\ \A j \in 1..(i - 1) : t \notin SelectedBy(argument[j], Expandable)
      BY <1>1, <2>3, <2>4
    <3>2. /\ first(t) \in DOMAIN argument
          /\ t \in SelectedBy(argument[first(t)], Expandable)
          /\ \A j \in 1..(first(t) - 1) : t \notin SelectedBy(argument[j], Expandable)
      BY <3>1
    <3> HIDE DEF first
    <3> QED
      BY <1>1, <2>3, <3>2
  <2> HIDE DEF first, r
  <2>5. ASSUME NEW i \in DOMAIN r, NEW j \in DOMAIN r, i < j
        PROVE  r[i] # r[j] /\ first(r[i]) <= first(r[j])
    <3>1. /\ first(r[i]) \in 1 .. n /\ FirstIn(F, r[i], first(r[i]))
          /\ first(r[j]) \in 1 .. n /\ FirstIn(F, r[j], first(r[j]))
      BY <2>1, <2>4 DEF Ordered
    <3> QED
      BY <2>1, <2>5, <3>1 DEF Ordered
  <2> QED
    BY <2>5 DEF first, r
<1> QED
  BY <1>3, <1>4

\* dedupePreserveOrder (src/internal/capi/resolve_patterns.go) keeps the first of
\* equal targets: no cluster twice, and in the order of the patterns.
THEOREM FirstSeenOrderTheorem == Spec => []FirstSeenOrder
  BY InvFirstSeenOrder, Invariance, PTL

\* What the tools select when the argument is left out: the embedded read-only
\* tools what list_clusters does, get_cluster_kubeconfig nothing.
LEMMA OmittedSelections ==
  ASSUME TypeOK, argument = Omitted
  PROVE  /\ ReadOnlySelection(argument) = Listing(argument)
         /\ ResolvePartial(Patterns(argument), known, listable).targets = <<>>
<1> DEFINE a == ResolvePartial(Patterns(argument), known, listable)
<1>1. /\ Patterns(argument) = <<>> /\ Len(Patterns(argument)) = 0 /\ listable \in BOOLEAN
      /\ argument \in Arguments \cup {Omitted}
  BY PatternsType DEF TypeOK
<1>2. ReadOnlySelection(argument) = Listing(argument)
  <2>1. ReadOnlySelection(argument) = IF listable THEN Selected(Targets, TRUE) ELSE Refused(TRUE)
    BY DEF ReadOnlySelection
  <2>2. ~listable => Listing(argument) = Refused(TRUE)
    BY DEF Listing
  <2>3. listable => Listing(argument) = Selected(Targets, TRUE)
    BY <1>1 DEF Listing
  <2> QED
    BY <1>1, <2>1, <2>2, <2>3
<1>3. Answer(a, Patterns(argument), ToSet(known))
  BY <1>1, PartialAnswer
<1>4. CASE a.error
  BY <1>2, <1>3, <1>4 DEF Answer
<1>5. CASE ~a.error
  <2>1. Selection(a.targets, Patterns(argument), ToSet(known))
    BY <1>3, <1>5 DEF Answer
  <2>2. a.targets \in Seq(Strings) /\ ToSet(a.targets) = {}
    BY <1>1, <2>1 DEF Selection
  <2> HIDE DEF a
  <2>3. Len(a.targets) = 0
    <3>1. \A t \in Seq(Strings) : Len(t) # 0 => t[1] \in ToSet(t)
      BY DEF ToSet
    <3> QED
      BY <2>2, <3>1
  <2>4. a.targets = <<>>
    BY <2>2, <2>3, EmptyIsEmpty
  <2> QED
    BY <1>2, <2>4 DEF a
<1> QED
  BY <1>4, <1>5

\* listKnownClusters (src/internal/embed/fanout.go), which takes formatted targets
\* apart again, loses nothing as long as no name contains a slash: for any list of
\* patterns the embedded read-only tools select what get_cluster_kubeconfig does.
\* Without the argument the former select every known cluster, the latter none.
THEOREM EmbeddedAgreesTheorem == Spec => []EmbeddedAgrees
<1>1. SelectionInv => EmbeddedAgrees
  BY Agreement, OmittedSelections DEF SelectionInv, TypeOK, EmbeddedAgrees
<1> QED
  BY <1>1, Invariance, PTL
=============================================================================
