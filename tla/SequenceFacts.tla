--------------------------- MODULE SequenceFacts ---------------------------
(***************************************************************************)
(* What the other proofs need of sequences of any length: induction, and   *)
(* what the recursive functions over them compute (ItemsAt, FlattenSeq).   *)
(*                                                                         *)
(* The induction theorems of the library take an operator as parameter;    *)
(* those here take a set, and follow from a minimal element of what is not *)
(* in it.  A recursive function is the CHOOSE of a function that satisfies *)
(* an equation, so that each needs a function that does (RecursionExists). *)
(***************************************************************************)
EXTENDS Integers, Subsequences, SequencesExt, SequenceTheorems, FiniteSetTheorems,
        WellFoundedInduction, TLAPS

(* Every set of numbers that is not empty has a least one.                 *)
LEMMA LeastNumber ==
  ASSUME NEW S \in SUBSET Nat, S # {}
  PROVE  \E n \in S : \A m \in S : n <= m
<1>1. PICK x \in S : \A y \in S : ~ (<<y, x>> \in OpToRel(<, Nat))
  BY NatLessThanWellFounded, WFMin
<1>2. ASSUME NEW y \in S PROVE x <= y
  <2>1. x \in Nat /\ y \in Nat OBVIOUS
  <2>2. ~ (y < x)
    <3>1. <<y, x>> \in OpToRel(<, Nat) \/ ~ (y < x)
      BY <2>1 DEF OpToRel
    <3>. QED BY <3>1, <1>1
  <2>. QED BY <2>1, <2>2
<1>. QED BY <1>2

(* Induction, for a set of numbers: it needs no operator as parameter.     *)
LEMMA InductionOnNat ==
  ASSUME NEW Good, 0 \in Good, \A n \in Nat : n \in Good => n + 1 \in Good
  PROVE  Nat \subseteq Good
<1>. SUFFICES ASSUME ~ (Nat \subseteq Good) PROVE FALSE
  OBVIOUS
<1>. DEFINE Bad == {n \in Nat : n \notin Good}
<1>1. PICK n \in Bad : \A m \in Bad : n <= m
  <2>1. Bad \in SUBSET Nat /\ Bad # {} OBVIOUS
  <2>. HIDE DEF Bad
  <2>. QED BY <2>1, LeastNumber
<1>2. n \in Nat /\ n # 0
  OBVIOUS
<1>3. n - 1 \in Nat /\ n - 1 \in Good
  BY <1>1, <1>2
<1>. QED BY <1>3, <1>2

(* Induction over the length, for a set of sequences.                      *)
LEMMA InductionOnSeq ==
  ASSUME NEW X, NEW Good, << >> \in Good,
         \A s \in Seq(X) : s \in Good => \A x \in X : Append(s, x) \in Good
  PROVE  Seq(X) \subseteq Good
<1>. DEFINE Lengths == {n \in Nat : \A s \in Seq(X) : Len(s) = n => s \in Good}
<1>1. 0 \in Lengths
  BY EmptySeq
<1>2. ASSUME NEW n \in Nat, n \in Lengths PROVE n + 1 \in Lengths
  <2>1. ASSUME NEW s \in Seq(X), Len(s) = n + 1 PROVE s \in Good
    <3>1. s # << >> BY <2>1, EmptySeq
    <3>. DEFINE t == SubSeq(s, 1, Len(s) - 1)
    <3>2. t \in Seq(X) /\ s[Len(s)] \in X /\ Len(t) = n /\ \A i \in 1 .. n : t[i] = s[i]
      <4>1. \A i \in 1 .. n + 1 : s[i] \in X
        BY <2>1, LenProperties
      <4>. QED BY <2>1, <4>1, SubSeqProperties
    <3>3. s = Append(t, s[Len(s)])
      BY <2>1, <3>2
    <3>. HIDE DEF t
    <3>. QED BY <3>2, <3>3, <1>2
  <2>. QED BY <2>1
<1>3. Nat \subseteq Lengths
  <2>. HIDE DEF Lengths
  <2>. QED BY <1>1, <1>2, InductionOnNat
<1>4. ASSUME NEW s \in Seq(X) PROVE s \in Good
  BY <1>3, LenProperties
<1>. QED BY <1>4

(* g is what a recursion that begins with base computes up to n.           *)
Computes(g, n, base, step) ==
  g[0] = base /\ \A i \in 1 .. n : g[i] = step[i][g[i - 1]]

(* A recursive function whose every step stays in a set exists ...         *)
LEMMA RecursionExists ==
  ASSUME NEW S, NEW N \in Nat, NEW base \in S, NEW step \in [1 .. N -> [S -> S]]
  PROVE  \E g \in [0 .. N -> S] : Computes(g, N, base, step)
<1>. DEFINE Good(g, n) == Computes(g, n, base, step)
            Reached == {n \in Nat : n <= N => \E g \in [0 .. n -> S] : Good(g, n)}
<1>. USE DEF Computes
<1>1. 0 \in Reached
  <2>1. [i \in 0 .. 0 |-> base] \in [0 .. 0 -> S] /\ Good([i \in 0 .. 0 |-> base], 0)
    OBVIOUS
  <2>. QED BY <2>1
<1>2. ASSUME NEW n \in Nat, n \in Reached PROVE n + 1 \in Reached
  <2>. SUFFICES ASSUME n + 1 <= N PROVE \E g \in [0 .. n + 1 -> S] : Good(g, n + 1)
    OBVIOUS
  <2>1. PICK g \in [0 .. n -> S] : Good(g, n)
    BY <1>2
  <2>2. step[n + 1][g[n]] \in S
    OBVIOUS
  <2>. DEFINE h == [i \in 0 .. n + 1 |-> IF i = n + 1 THEN step[n + 1][g[n]] ELSE g[i]]
  <2>3. h \in [0 .. n + 1 -> S]
    BY <2>2
  <2>4. h[0] = base
    BY <2>1
  <2>5. ASSUME NEW i \in 1 .. n + 1 PROVE h[i] = step[i][h[i - 1]]
    <3>1. i - 1 \in 0 .. n /\ h[i - 1] = g[i - 1] OBVIOUS
    <3>2. CASE i = n + 1 
      <4>1. h[i] = step[n + 1][g[n]] BY <3>2
      <4>. QED BY <3>1, <3>2, <4>1
    <3>3. CASE i # n + 1
      <4>1. i \in 1 .. n /\ h[i] = g[i] BY <3>3
      <4>. QED BY <2>1, <3>1, <4>1
    <3>. QED BY <3>2, <3>3
  <2>. HIDE DEF h
  <2>. QED BY <2>3, <2>4, <2>5
<1>3. Nat \subseteq Reached
  <2>. HIDE DEF Reached
  <2>. QED BY <1>1, <1>2, InductionOnNat
<1>4. N \in Reached
  BY <1>3
<1>. HIDE DEF Computes
<1>. QED BY <1>4

(* ... and two of them that begin and step alike are the same.             *)
StepAlike(g, h, N) ==
  g[0] = h[0] /\ \A n \in 1 .. N : g[n - 1] = h[n - 1] => g[n] = h[n]

LEMMA RecursionIsUnique ==
  ASSUME NEW N \in Nat, NEW g, NEW h, StepAlike(g, h, N)
  PROVE  \A n \in 0 .. N : g[n] = h[n]
<1>. USE DEF StepAlike
<1>. DEFINE Same == {n \in Nat : n <= N => g[n] = h[n]}
<1>1. 0 \in Same OBVIOUS
<1>2. ASSUME NEW n \in Nat, n \in Same PROVE n + 1 \in Same
  <2>. SUFFICES ASSUME n + 1 <= N PROVE g[n + 1] = h[n + 1] OBVIOUS
  <2>1. n + 1 \in 1 .. N /\ (n + 1) - 1 = n OBVIOUS
  <2>. QED BY <1>2, <2>1
<1>3. Nat \subseteq Same
  <2>. HIDE DEF Same
  <2>. QED BY <1>1, <1>2, InductionOnNat
<1>. QED BY <1>3

(* What the recursive function of ItemsAt satisfies,                       *)
Accumulates(g, s, I) ==
  /\ g[0] = << >>
  /\ \A n \in 1 .. Len(s) : g[n] = IF n \in I THEN Append(g[n - 1], s[n]) ELSE g[n - 1]

(* ... and that it does.                                                   *)
LEMMA ItemsAtRecursion ==
  ASSUME NEW X, NEW s \in Seq(X), NEW I
  PROVE  \E g \in [0 .. Len(s) -> Seq(X)] : Accumulates(g, s, I) /\ ItemsAt(s, I) = g[Len(s)]
<1>. DEFINE N == Len(s)
            step == [n \in 1 .. N |-> [t \in Seq(X) |-> IF n \in I THEN Append(t, s[n]) ELSE t]]
            Rec(f) == [n \in 0 .. N |->
                         IF n = 0 THEN << >>
                         ELSE IF n \in I THEN Append(f[n - 1], s[n]) ELSE f[n - 1]]
            f == CHOOSE f : f = Rec(f)
<1>1. N \in Nat /\ << >> \in Seq(X) /\ \A n \in 1 .. N : s[n] \in X
  BY LenProperties, EmptySeq
<1>2. ASSUME NEW n \in 1 .. N, NEW t \in Seq(X)
      PROVE  (IF n \in I THEN Append(t, s[n]) ELSE t) \in Seq(X)
  BY <1>1, AppendProperties
<1>3. step \in [1 .. N -> [Seq(X) -> Seq(X)]]
  BY <1>2
<1>4. \E g \in [0 .. N -> Seq(X)] : Computes(g, N, << >>, step)
  <2>. HIDE DEF step, N
  <2>. QED BY <1>1, <1>3, RecursionExists
<1>5. PICK g \in [0 .. N -> Seq(X)] : Computes(g, N, << >>, step)
  BY <1>4
<1>6. ASSUME NEW n \in 1 .. N
      PROVE  g[n] = IF n \in I THEN Append(g[n - 1], s[n]) ELSE g[n - 1]
  <2>1. n - 1 \in 0 .. N
    <3>. HIDE DEF N
    <3>. QED BY <1>1
  <2>2. g[n - 1] \in Seq(X) 
    <3>. HIDE DEF N
    <3>. QED BY <2>1
  <2>3. g[n] = step[n][g[n - 1]]
    <3>. HIDE DEF step
    <3>. QED BY <1>5 DEF Computes
  <2>. QED BY <2>2, <2>3
<1>7. Accumulates(g, s, I)
  BY <1>5, <1>6 DEF Accumulates, Computes
<1>8. g = Rec(g)
  <2>1. ASSUME NEW n \in 0 .. N PROVE g[n] = Rec(g)[n]
    <3>1. CASE n = 0 BY <1>5, <3>1 DEF Computes
    <3>2. CASE n # 0
      <4>1. n \in 1 .. N BY <1>1, <3>2
      <4>. QED BY <1>6, <3>2, <4>1
    <3>. QED BY <3>1, <3>2
  <2>2. DOMAIN g = 0 .. N /\ DOMAIN Rec(g) = 0 .. N OBVIOUS
  <2>. QED BY <2>1, <2>2
<1>9. f = Rec(f)
  <2>. HIDE DEF Rec
  <2>. QED BY <1>8
<1>10. ItemsAt(s, I) = f[N]
  BY DEF ItemsAt
<1>. HIDE DEF f, step
<1>11. \A n \in 0 .. N : g[n] = f[n]
  <2>1. ASSUME NEW n \in 1 .. N, g[n - 1] = f[n - 1] PROVE g[n] = f[n]
    <3>1. f[n] = IF n \in I THEN Append(f[n - 1], s[n]) ELSE f[n - 1]
      <4>1. n # 0 /\ n \in 0 .. N BY <1>1
      <4>2. f[n] = Rec(f)[n] BY <1>9
      <4>3. Rec(f)[n] = IF n \in I THEN Append(f[n - 1], s[n]) ELSE f[n - 1] 
        BY <4>1
      <4>. QED BY <4>2, <4>3
    <3>. QED BY <1>6, <2>1, <3>1
  <2>2. g[0] = f[0]
    BY <1>1, <1>9, <1>5 DEF Computes
  <2>3. StepAlike(g, f, N) BY <2>1, <2>2 DEF StepAlike
  <2>. HIDE DEF N
  <2>. QED BY <1>1, <2>3, RecursionIsUnique
<1>. QED BY <1>1, <1>7, <1>10, <1>11

-----------------------------------------------------------------------------
(* ItemsAt, element by element.                                            *)

LEMMA ItemsAtEmpty == ASSUME NEW I PROVE ItemsAt(<< >>, I) = << >>
<1>1. PICK X, e : X = {0} /\ e = << >> OBVIOUS
<1>2. e \in Seq(X) /\ Len(e) = 0 BY <1>1, EmptySeq
<1>3. PICK g \in [0 .. Len(e) -> Seq(X)] : Accumulates(g, e, I) /\ ItemsAt(e, I) = g[Len(e)]
  BY <1>2, ItemsAtRecursion, Zenon
<1>4. g[0] = << >> BY <1>3 DEF Accumulates
<1>. QED BY <1>1, <1>2, <1>3, <1>4

LEMMA ItemsAtType ==
  ASSUME NEW X, NEW s \in Seq(X), NEW I PROVE ItemsAt(s, I) \in Seq(X)
<1>1. PICK g \in [0 .. Len(s) -> Seq(X)] : ItemsAt(s, I) = g[Len(s)]
  BY ItemsAtRecursion
<1>. QED BY <1>1, LenProperties

(* Only which positions of s are in I matters.                             *)
LEMMA ItemsAtSame ==
  ASSUME NEW X, NEW s \in Seq(X), NEW I, NEW J,
         \A n \in 1 .. Len(s) : n \in I <=> n \in J
  PROVE  ItemsAt(s, I) = ItemsAt(s, J)
<1>1. PICK g \in [0 .. Len(s) -> Seq(X)] : Accumulates(g, s, I) /\ ItemsAt(s, I) = g[Len(s)]
  BY ItemsAtRecursion
<1>2. PICK h \in [0 .. Len(s) -> Seq(X)] : Accumulates(h, s, J) /\ ItemsAt(s, J) = h[Len(s)]
  BY ItemsAtRecursion
<1>3. Len(s) \in Nat BY LenProperties
<1>4. g[0] = h[0] BY <1>1, <1>2 DEF Accumulates
<1>5. ASSUME NEW n \in 1 .. Len(s), g[n - 1] = h[n - 1] PROVE g[n] = h[n]
  BY <1>1, <1>2, <1>5 DEF Accumulates
<1>6. \A n \in 0 .. Len(s) : g[n] = h[n]
  <2>1. StepAlike(g, h, Len(s)) BY <1>4, <1>5 DEF StepAlike
  <2>. QED BY <1>3, <2>1, RecursionIsUnique
<1>. QED BY <1>1, <1>2, <1>3, <1>6

LEMMA ItemsAtAppend ==
  ASSUME NEW X, NEW s \in Seq(X), NEW x \in X, NEW I
  PROVE  ItemsAt(Append(s, x), I) =
           IF Len(s) + 1 \in I THEN Append(ItemsAt(s, I), x) ELSE ItemsAt(s, I)
<1>. DEFINE t == Append(s, x)
<1>1. t \in Seq(X) /\ Len(t) = Len(s) + 1 /\ (\A i \in 1 .. Len(s) : t[i] = s[i])
        /\ t[Len(s) + 1] = x
  BY AppendProperties
<1>. HIDE DEF t
<1>2. PICK g \in [0 .. Len(s) -> Seq(X)] : Accumulates(g, s, I) /\ ItemsAt(s, I) = g[Len(s)]
  BY ItemsAtRecursion
<1>3. PICK h \in [0 .. Len(t) -> Seq(X)] : Accumulates(h, t, I) /\ ItemsAt(t, I) = h[Len(t)]
  BY <1>1, ItemsAtRecursion
<1>4. Len(s) \in Nat BY LenProperties
<1>5. g[0] = h[0] BY <1>2, <1>3 DEF Accumulates
<1>6. ASSUME NEW n \in 1 .. Len(s), g[n - 1] = h[n - 1] PROVE g[n] = h[n]
  <2>1. n \in 1 .. Len(t) /\ t[n] = s[n] BY <1>1, <1>4
  <2>2. g[n] = IF n \in I THEN Append(g[n - 1], s[n]) ELSE g[n - 1]
    BY <1>2 DEF Accumulates
  <2>3. h[n] = IF n \in I THEN Append(h[n - 1], t[n]) ELSE h[n - 1]
    BY <1>3, <2>1 DEF Accumulates
  <2>. QED BY <1>6, <2>1, <2>2, <2>3
<1>7. \A n \in 0 .. Len(s) : g[n] = h[n]
  <2>1. StepAlike(g, h, Len(s)) BY <1>5, <1>6 DEF StepAlike
  <2>. QED BY <1>4, <2>1, RecursionIsUnique
<1>8. h[Len(t)] = IF Len(s) + 1 \in I THEN Append(h[Len(s)], x) ELSE h[Len(s)]
  <2>1. Len(t) \in 1 .. Len(t) /\ Len(t) - 1 = Len(s) BY <1>1, <1>4
  <2>2. h[Len(t)] = IF Len(t) \in I THEN Append(h[Len(t) - 1], t[Len(t)]) ELSE h[Len(t) - 1]
    BY <1>3, <2>1 DEF Accumulates
  <2>. QED BY <1>1, <2>1, <2>2
<1>. QED BY <1>2, <1>3, <1>4, <1>7, <1>8 DEF t

(* Every element of the selection is an element of s at a position of I.   *)
LEMMA ItemsAtElements ==
  ASSUME NEW X, NEW s \in Seq(X), NEW I
  PROVE  ItemsAt(s, I) \in Seq({s[i] : i \in {j \in 1 .. Len(s) : j \in I}})
<1>. DEFINE From(t) == {t[i] : i \in {j \in 1 .. Len(t) : j \in I}}
            Good == {t \in Seq(X) : ItemsAt(t, I) \in Seq(From(t))}
<1>1. << >> \in Good
  BY ItemsAtEmpty, EmptySeq
<1>2. ASSUME NEW t \in Seq(X), t \in Good, NEW x \in X PROVE Append(t, x) \in Good
  <2>1. Append(t, x) \in Seq(X) /\ Len(Append(t, x)) = Len(t) + 1 /\ Append(t, x)[Len(t) + 1] = x
          /\ \A i \in 1 .. Len(t) : Append(t, x)[i] = t[i]
    BY AppendProperties
  <2>2. Len(t) \in Nat BY LenProperties
  <2>3. From(t) \subseteq From(Append(t, x))
    BY <2>1, <2>2
  <2>4. ItemsAt(t, I) \in Seq(From(Append(t, x)))
    <3>1. ItemsAt(t, I) \in Seq(From(t)) BY <1>2
    <3>. HIDE DEF From
    <3>. QED BY <2>3, <3>1, SeqMonotonic
  <2>5. CASE Len(t) + 1 \in I
    <3>1. x \in From(Append(t, x))
      BY <2>1, <2>2, <2>5
    <3>2. Append(ItemsAt(t, I), x) \in Seq(From(Append(t, x)))
      <4>. HIDE DEF From
      <4>. QED BY <2>4, <3>1, AppendProperties
    <3>. QED BY <2>1, <2>5, <3>2, ItemsAtAppend
  <2>6. CASE ~ (Len(t) + 1 \in I)
    <3>1. ItemsAt(Append(t, x), I) = ItemsAt(t, I)
      BY <2>6, ItemsAtAppend
    <3>. HIDE DEF From
    <3>. QED BY <2>1, <2>4, <3>1
  <2>. QED BY <2>5, <2>6
<1>3. Seq(X) \subseteq Good
  <2>. HIDE DEF Good
  <2>. QED BY <1>1, <1>2, InductionOnSeq
<1>. QED BY <1>3

(* The selection from a concatenation is that of its halves.               *)
LEMMA ItemsAtConcat ==
  ASSUME NEW X, NEW s \in Seq(X), NEW t \in Seq(X), NEW I, NEW J,
         \A n \in 1 .. Len(t) : Len(s) + n \in I <=> n \in J
  PROVE  ItemsAt(s \o t, I) = ItemsAt(s, I) \o ItemsAt(t, J)
<1>. DEFINE Shifted == {n \in Nat : Len(s) + n \in I}
            Good == {u \in Seq(X) : ItemsAt(s \o u, I) = ItemsAt(s, I) \o ItemsAt(u, Shifted)}
<1>1. << >> \in Good
  <2>1. s \o << >> = s BY ConcatEmptySeq
  <2>2. ItemsAt(s, I) \o << >> = ItemsAt(s, I) BY ItemsAtType, ConcatEmptySeq
  <2>. QED BY <2>1, <2>2, ItemsAtEmpty, EmptySeq
<1>2. ASSUME NEW u \in Seq(X), u \in Good, NEW x \in X PROVE Append(u, x) \in Good
  <2>1. s \o Append(u, x) = Append(s \o u, x) OBVIOUS
  <2>2. s \o u \in Seq(X) /\ Len(s \o u) = Len(s) + Len(u) /\ Append(u, x) \in Seq(X)
    BY ConcatProperties, AppendProperties
  <2>3. Len(s) + Len(u) + 1 \in I <=> Len(u) + 1 \in Shifted
    BY LenProperties
  <2>4. ItemsAt(s \o u, I) = ItemsAt(s, I) \o ItemsAt(u, Shifted) BY <1>2
  <2>5. ItemsAt(s, I) \in Seq(X) /\ ItemsAt(u, Shifted) \in Seq(X)
    BY ItemsAtType
  <2>6. ItemsAt(s, I) \o Append(ItemsAt(u, Shifted), x)
          = Append(ItemsAt(s, I) \o ItemsAt(u, Shifted), x)
    BY <2>5
  <2>. HIDE DEF Shifted
  <2>7. ItemsAt(Append(s \o u, x), I)
          = IF Len(s) + Len(u) + 1 \in I THEN Append(ItemsAt(s \o u, I), x) ELSE ItemsAt(s \o u, I)
    <3>. DEFINE v == s \o u
    <3>1. v \in Seq(X) /\ Len(v) = Len(s) + Len(u) BY <2>2
    <3>. HIDE DEF v
    <3>2. ItemsAt(Append(v, x), I) = IF Len(v) + 1 \in I THEN Append(ItemsAt(v, I), x) ELSE ItemsAt(v, I)
      BY <3>1, ItemsAtAppend
    <3>. QED BY <3>1, <3>2 DEF v
  <2>8. ItemsAt(Append(u, x), Shifted)
          = IF Len(u) + 1 \in Shifted THEN Append(ItemsAt(u, Shifted), x) ELSE ItemsAt(u, Shifted)
    BY ItemsAtAppend
  <2>9. ItemsAt(s \o Append(u, x), I) = ItemsAt(s, I) \o ItemsAt(Append(u, x), Shifted)
    BY <2>1, <2>3, <2>4, <2>6, <2>7, <2>8
  <2>. QED BY <2>2, <2>9
<1>3. Seq(X) \subseteq Good
  <2>. HIDE DEF Good
  <2>. QED BY <1>1, <1>2, InductionOnSeq
<1>4. ItemsAt(s \o t, I) = ItemsAt(s, I) \o ItemsAt(t, Shifted)
  BY <1>3
<1>5. ItemsAt(t, Shifted) = ItemsAt(t, J)
  <2>1. \A n \in 1 .. Len(t) : n \in Shifted <=> n \in J
    BY LenProperties
  <2>. HIDE DEF Shifted
  <2>. QED BY <2>1, ItemsAtSame
<1>. QED BY <1>4, <1>5

-----------------------------------------------------------------------------
(* FlattenSeq.                                                             *)

Joins(g, s) == g[0] = << >> /\ \A n \in 1 .. Len(s) : g[n] = g[n - 1] \o s[n]

LEMMA FlattenRecursion ==
  ASSUME NEW X, NEW s \in Seq(Seq(X))
  PROVE  \E g \in [0 .. Len(s) -> Seq(X)] : Joins(g, s) /\ FlattenSeq(s) = g[Len(s)]
<1>. DEFINE N == Len(s)
            step == [n \in 1 .. N |-> [t \in Seq(X) |-> t \o s[n]]]
            Rec(f) == [i \in 1 .. N |-> IF i = 1 THEN s[i] ELSE f[i - 1] \o s[i]]
            f == CHOOSE f : f = Rec(f)
<1>1. N \in Nat /\ << >> \in Seq(X) /\ \A n \in 1 .. N : s[n] \in Seq(X)
  BY LenProperties, EmptySeq
<1>2. step \in [1 .. N -> [Seq(X) -> Seq(X)]]
  <2>1. ASSUME NEW n \in 1 .. N, NEW t \in Seq(X) PROVE t \o s[n] \in Seq(X)
    BY <1>1, ConcatProperties
  <2>. QED BY <2>1
<1>3. \E g \in [0 .. N -> Seq(X)] : Computes(g, N, << >>, step)
  <2>. HIDE DEF step, N
  <2>. QED BY <1>1, <1>2, RecursionExists
<1>4. PICK g \in [0 .. N -> Seq(X)] : Computes(g, N, << >>, step)
  BY <1>3
<1>5. ASSUME NEW n \in 1 .. N PROVE g[n] = g[n - 1] \o s[n]
  <2>1. n - 1 \in 0 .. N
    <3>. HIDE DEF N
    <3>. QED BY <1>1
  <2>2. g[n - 1] \in Seq(X)
    <3>. HIDE DEF N
    <3>. QED BY <2>1
  <2>3. g[n] = step[n][g[n - 1]]
    <3>. HIDE DEF step
    <3>. QED BY <1>4 DEF Computes
  <2>. QED BY <2>2, <2>3
<1>6. g[0] = << >> BY <1>4 DEF Computes
<1>7. Joins(g, s) BY <1>5, <1>6 DEF Joins
<1>8. CASE N = 0
  <2>1. s = << >> BY <1>8, EmptySeq
  <2>2. FlattenSeq(s) = << >> BY <1>8, <2>1 DEF FlattenSeq
  <2>. QED BY <1>4, <1>6, <1>7, <1>8, <2>2
<1>9. CASE N # 0
  <2>. DEFINE h == [n \in 1 .. N |-> g[n]]
  <2>1. h = Rec(h)
    <3>1. ASSUME NEW n \in 1 .. N PROVE h[n] = Rec(h)[n]
      <4>1. CASE n = 1
        <5>1. g[1] = << >> \o s[1]
          <6>1. g[1] = g[1 - 1] \o s[1] BY <1>5, <4>1
          <6>2. 1 - 1 = 0 OBVIOUS
          <6>. QED BY <1>6, <6>1, <6>2
        <5>2. << >> \o s[1] = s[1] BY <1>1, <4>1, ConcatEmptySeq
        <5>. QED BY <4>1, <5>1, <5>2
      <4>2. CASE n # 1
        <5>1. n - 1 \in 1 .. N BY <1>1, <4>2
        <5>. QED BY <1>5, <4>2, <5>1
      <4>. QED BY <4>1, <4>2
    <3>2. DOMAIN h = 1 .. N /\ DOMAIN Rec(h) = 1 .. N OBVIOUS
    <3>. QED BY <3>1, <3>2
  <2>2. f = Rec(f)
    <3>. HIDE DEF Rec, h
    <3>. QED BY <2>1
  <2>3. FlattenSeq(s) = f[N]
    BY <1>9 DEF FlattenSeq
  <2>. HIDE DEF f, step
  <2>. DEFINE e == [n \in 0 .. N |-> IF n = 0 THEN << >> ELSE f[n]]
  <2>4. ASSUME NEW n \in 1 .. N, g[n - 1] = e[n - 1] PROVE g[n] = e[n]
    <3>1. f[n] = Rec(f)[n] BY <2>2
    <3>2. f[n] = IF n = 1 THEN s[n] ELSE f[n - 1] \o s[n] BY <3>1
    <3>3. n \in 0 .. N /\ n # 0 /\ e[n] = f[n] BY <1>1
    <3>4. CASE n = 1
      <4>1. << >> \o s[n] = s[n] BY <1>1, ConcatEmptySeq
      <4>2. g[n] = g[n - 1] \o s[n] BY <1>5
      <4>3. n - 1 = 0 BY <3>4
      <4>. QED BY <1>6, <3>2, <3>3, <3>4, <4>1, <4>2, <4>3
    <3>5. CASE n # 1
      <4>1. n - 1 \in 0 .. N /\ n - 1 # 0 /\ e[n - 1] = f[n - 1] BY <1>1, <3>5
      <4>. QED BY <1>5, <2>4, <3>2, <3>3, <3>5, <4>1
    <3>. QED BY <3>4, <3>5
  <2>5. g[0] = e[0] BY <1>1, <1>6
  <2>6. StepAlike(g, e, N)
    <3>. HIDE DEF e
    <3>. QED BY <2>4, <2>5 DEF StepAlike
  <2>7. g[N] = e[N]
    <3>. HIDE DEF e, N
    <3>. QED BY <1>1, <2>6, RecursionIsUnique
  <2>8. N \in 0 .. N /\ e[N] = f[N] BY <1>1, <1>9
  <2>. QED BY <1>4, <1>7, <2>3, <2>7, <2>8
<1>. QED BY <1>8, <1>9

LEMMA FlattenType ==
  ASSUME NEW X, NEW s \in Seq(Seq(X)) PROVE FlattenSeq(s) \in Seq(X)
<1>1. PICK g \in [0 .. Len(s) -> Seq(X)] : FlattenSeq(s) = g[Len(s)]
  BY FlattenRecursion
<1>. QED BY <1>1, LenProperties

LEMMA FlattenEmpty == FlattenSeq(<< >>) = << >>
BY EmptySeq DEF FlattenSeq

LEMMA FlattenAppend ==
  ASSUME NEW X, NEW s \in Seq(Seq(X)), NEW x \in Seq(X)
  PROVE  FlattenSeq(Append(s, x)) = FlattenSeq(s) \o x
<1>. DEFINE t == Append(s, x)
<1>1. t \in Seq(Seq(X)) /\ Len(t) = Len(s) + 1 /\ (\A i \in 1 .. Len(s) : t[i] = s[i])
        /\ t[Len(s) + 1] = x
  BY AppendProperties
<1>. HIDE DEF t
<1>2. PICK g \in [0 .. Len(s) -> Seq(X)] : Joins(g, s) /\ FlattenSeq(s) = g[Len(s)]
  BY FlattenRecursion
<1>3. PICK h \in [0 .. Len(t) -> Seq(X)] : Joins(h, t) /\ FlattenSeq(t) = h[Len(t)]
  BY <1>1, FlattenRecursion
<1>4. Len(s) \in Nat BY LenProperties
<1>5. g[0] = h[0] BY <1>2, <1>3 DEF Joins
<1>6. ASSUME NEW n \in 1 .. Len(s), g[n - 1] = h[n - 1] PROVE g[n] = h[n]
  <2>1. g[n] = g[n - 1] \o s[n] BY <1>2 DEF Joins
  <2>2. n \in 1 .. Len(t) /\ t[n] = s[n] BY <1>1, <1>4
  <2>3. h[n] = h[n - 1] \o t[n] BY <1>3, <2>2 DEF Joins
  <2>. QED BY <1>6, <2>1, <2>2, <2>3
<1>7. \A n \in 0 .. Len(s) : g[n] = h[n]
  <2>1. StepAlike(g, h, Len(s)) BY <1>5, <1>6 DEF StepAlike
  <2>. QED BY <1>4, <2>1, RecursionIsUnique
<1>8. h[Len(t)] = h[Len(s)] \o x
  <2>1. Len(t) \in 1 .. Len(t) /\ Len(t) - 1 = Len(s) BY <1>1, <1>4
  <2>2. h[Len(t)] = h[Len(t) - 1] \o t[Len(t)]
    BY <1>3, <2>1 DEF Joins
  <2>. QED BY <1>1, <2>1, <2>2
<1>9. Len(s) \in 0 .. Len(s) BY <1>4
<1>10. FlattenSeq(t) = FlattenSeq(s) \o x BY <1>2, <1>3, <1>7, <1>8, <1>9
<1>. QED BY <1>10 DEF t

LEMMA FlattenConcat ==
  ASSUME NEW X, NEW s \in Seq(Seq(X)), NEW t \in Seq(Seq(X))
  PROVE  FlattenSeq(s \o t) = FlattenSeq(s) \o FlattenSeq(t)
<1>. DEFINE Good == {u \in Seq(Seq(X)) : FlattenSeq(s \o u) = FlattenSeq(s) \o FlattenSeq(u)}
<1>1. << >> \in Good
  <2>1. s \o << >> = s BY ConcatEmptySeq
  <2>2. FlattenSeq(s) \o << >> = FlattenSeq(s) BY FlattenType, ConcatEmptySeq
  <2>. QED BY <2>1, <2>2, FlattenEmpty, EmptySeq
<1>2. ASSUME NEW u \in Seq(Seq(X)), u \in Good, NEW x \in Seq(X) PROVE Append(u, x) \in Good
  <2>1. s \o Append(u, x) = Append(s \o u, x) OBVIOUS
  <2>2. s \o u \in Seq(Seq(X)) /\ Append(u, x) \in Seq(Seq(X))
    BY ConcatProperties, AppendProperties
  <2>3. FlattenSeq(Append(s \o u, x)) = FlattenSeq(s \o u) \o x
    <3>. DEFINE v == s \o u
    <3>1. v \in Seq(Seq(X)) BY <2>2
    <3>. HIDE DEF v
    <3>2. FlattenSeq(Append(v, x)) = FlattenSeq(v) \o x BY <3>1, FlattenAppend
    <3>. QED BY <3>2 DEF v
  <2>4. FlattenSeq(Append(u, x)) = FlattenSeq(u) \o x BY FlattenAppend
  <2>5. FlattenSeq(s \o u) = FlattenSeq(s) \o FlattenSeq(u) BY <1>2
  <2>6. (FlattenSeq(s) \o FlattenSeq(u)) \o x = FlattenSeq(s) \o (FlattenSeq(u) \o x)
    <3>1. PICK a, b : a = FlattenSeq(s) /\ b = FlattenSeq(u) OBVIOUS
    <3>2. a \in Seq(X) /\ b \in Seq(X) BY <3>1, FlattenType
    <3>3. (a \o b) \o x = a \o (b \o x) BY <3>2, ConcatAssociative
    <3>. QED BY <3>1, <3>3
  <2>. QED BY <2>1, <2>2, <2>3, <2>4, <2>5, <2>6
<1>3. Seq(Seq(X)) \subseteq Good
  <2>. HIDE DEF Good
  <2>. QED BY <1>1, <1>2, InductionOnSeq
<1>. QED BY <1>3

LEMMA FlattenOne == ASSUME NEW X, NEW x \in Seq(X) PROVE FlattenSeq(<< x >>) = x
<1>1. << >> \in Seq(Seq(X)) /\ Append(<< >>, x) = << x >> BY EmptySeq
<1>2. FlattenSeq(Append(<< >>, x)) = FlattenSeq(<< >>) \o x BY <1>1, FlattenAppend
<1>. QED BY <1>1, <1>2, FlattenEmpty, ConcatEmptySeq

-----------------------------------------------------------------------------
(* A prefix is what something was appended to.                             *)
LEMMA PrefixIsConcat ==
  ASSUME NEW X, NEW s \in Seq(X), NEW t \in Seq(X)
  PROVE  IsPrefix(s, t) <=> \E u \in Seq(X) : t = s \o u
<1>1. ASSUME IsPrefix(s, t) PROVE \E u \in Seq(X) : t = s \o u
  <2>. DEFINE u == SubSeq(t, Len(s) + 1, Len(t))
  <2>1. Len(s) \in Nat /\ Len(t) \in Nat /\ Len(s) <= Len(t)
    BY <1>1, LenProperties DEF IsPrefix
  <2>2. \A i \in Len(s) + 1 .. Len(t) : t[i] \in X BY <2>1
  <2>3. u \in Seq(X) BY <2>1, <2>2, SubSeqProperties
  <2>4. SubSeq(s, 1, Len(s)) = s /\ SubSeq(t, 1, Len(t)) = t BY SubSeqFull
  <2>5. t = SubSeq(t, 1, Len(s)) \o u
    <3>1. 1 \in 1 .. Len(t) + 1 /\ Len(s) \in 1 - 1 .. Len(t) /\ Len(t) \in Len(s) .. Len(t)
      BY <2>1
    <3>. QED BY <2>4, <3>1, ConcatAdjacentSubSeq
  <2>6. SubSeq(t, 1, Len(s)) = s BY <1>1, <2>4 DEF IsPrefix
  <2>. HIDE DEF u
  <2>. QED BY <2>3, <2>5, <2>6
<1>2. ASSUME NEW u \in Seq(X), t = s \o u PROVE IsPrefix(s, t)
  <2>1. Len(t) = Len(s) + Len(u) /\ \A i \in 1 .. Len(s) : t[i] = s[i]
    BY <1>2, ConcatProperties
  <2>2. Len(s) \in Nat /\ Len(t) \in Nat /\ Len(s) <= Len(t)
    BY <2>1, LenProperties
  <2>3. SubSeq(t, 1, Len(s)) = SubSeq(s, 1, Len(s))
    BY <2>1, <2>2
  <2>. QED BY <2>2, <2>3 DEF IsPrefix
<1>. QED BY <1>1, <1>2

-----------------------------------------------------------------------------
(* Sequences mapped to sequences and joined.                               *)
Mapped(f, s) == [n \in DOMAIN s |-> f[s[n]]]
FlatMap(f, s) == FlattenSeq(Mapped(f, s))
IsMap(f, S, T) == f \in [S -> T]

(* A concatenation by another name.                                        *)
LEMMA OfConcat ==
  ASSUME NEW X, NEW s \in Seq(X), NEW t \in Seq(X), NEW u, u = s \o t
  PROVE  /\ u \in Seq(X) /\ Len(u) = Len(s) + Len(t)
         /\ \A n \in 1 .. Len(s) : u[n] = s[n]
         /\ \A n \in 1 .. Len(t) : u[Len(s) + n] = t[n]
<1>1. s \o t \in Seq(X) /\ Len(s \o t) = Len(s) + Len(t) BY ConcatProperties
<1>2. \A n \in 1 .. Len(s) : (s \o t)[n] = s[n] BY ConcatProperties, LenProperties
<1>3. \A n \in 1 .. Len(t) : (s \o t)[Len(s) + n] = t[n] BY LenProperties
<1>. QED BY <1>1, <1>2, <1>3

LEMMA MappedType ==
  ASSUME NEW S, NEW T, NEW f, IsMap(f, S, T), NEW s \in Seq(S)
  PROVE  Mapped(f, s) \in Seq(T) /\ Len(Mapped(f, s)) = Len(s)
<1>1. Len(s) \in Nat /\ DOMAIN s = 1 .. Len(s) /\ \A n \in 1 .. Len(s) : s[n] \in S
  BY LenProperties, ElementOfSeq
<1>2. Mapped(f, s) \in [1 .. Len(s) -> T] BY <1>1 DEF Mapped, IsMap
<1>. QED BY <1>1, <1>2

LEMMA MappedConcat ==
  ASSUME NEW S, NEW T, NEW f, IsMap(f, S, T), NEW s \in Seq(S), NEW t \in Seq(S)
  PROVE  Mapped(f, s \o t) = Mapped(f, s) \o Mapped(f, t)
<1>1. PICK a, b, u : a = Mapped(f, s) /\ b = Mapped(f, t) /\ u = s \o t OBVIOUS
<1>2. a \in Seq(T) /\ b \in Seq(T) /\ Len(a) = Len(s) /\ Len(b) = Len(t) BY <1>1, MappedType
<1>3. u \in Seq(S) /\ Len(u) = Len(s) + Len(t) /\ Len(s) \in Nat /\ Len(t) \in Nat
  BY <1>1, ConcatProperties, LenProperties
<1>4. \A i \in 1 .. Len(s) : u[i] = s[i] BY <1>1, ConcatProperties
<1>5. \A i \in 1 .. Len(t) : u[Len(s) + i] = t[i] BY <1>1, <1>3
<1>6. PICK v : v = Mapped(f, u) OBVIOUS
<1>7. v \in Seq(T) /\ Len(v) = Len(s) + Len(t) BY <1>3, <1>6, MappedType
<1>8. a \o b \in Seq(T) /\ Len(a \o b) = Len(s) + Len(t) BY <1>2
<1>9. ASSUME NEW i \in 1 .. Len(s) + Len(t) PROVE v[i] = (a \o b)[i]
  <2>1. v[i] = f[u[i]] BY <1>3, <1>6 DEF Mapped
  <2>2. CASE i \in 1 .. Len(s)
    <3>1. (a \o b)[i] = a[i] BY <1>2, <2>2
    <3>2. a[i] = f[s[i]] BY <1>1, <2>2 DEF Mapped
    <3>. QED BY <1>4, <2>1, <2>2, <3>1, <3>2
  <2>3. CASE i \notin 1 .. Len(s)
    <3>1. PICK j : j = i - Len(s) OBVIOUS
    <3>2. j \in 1 .. Len(t) /\ i = Len(s) + j BY <1>3, <2>3, <3>1
    <3>3. (a \o b)[i] = b[j] BY <1>2, <1>3, <3>2
    <3>4. b[j] = f[t[j]] BY <1>1, <3>2 DEF Mapped
    <3>. QED BY <1>5, <2>1, <3>2, <3>3, <3>4
  <2>. QED BY <2>2, <2>3
<1>10. v = a \o b BY <1>3, <1>7, <1>8, <1>9, SeqEqual
<1>. QED BY <1>1, <1>6, <1>10

LEMMA FlatMapType ==
  ASSUME NEW S, NEW X, NEW f, IsMap(f, S, Seq(X)), NEW s \in Seq(S)
  PROVE  FlatMap(f, s) \in Seq(X)
<1>1. PICK a : a = Mapped(f, s) OBVIOUS
<1>2. a \in Seq(Seq(X)) BY <1>1, MappedType
<1>. QED BY <1>1, <1>2, FlattenType DEF FlatMap

LEMMA FlatMapEmpty == ASSUME NEW f PROVE FlatMap(f, << >>) = << >>
<1>1. Mapped(f, << >>) = << >> BY DEF Mapped
<1>. QED BY <1>1, FlattenEmpty DEF FlatMap

LEMMA FlatMapOne ==
  ASSUME NEW S, NEW X, NEW f, IsMap(f, S, Seq(X)), NEW x \in S
  PROVE  FlatMap(f, << x >>) = f[x]
<1>1. Mapped(f, << x >>) = << f[x] >> BY DEF Mapped
<1>2. PICK y : y = f[x] OBVIOUS
<1>3. y \in Seq(X) BY <1>2 DEF IsMap
<1>. QED BY <1>1, <1>2, <1>3, FlattenOne DEF FlatMap

LEMMA FlatMapConcat ==
  ASSUME NEW S, NEW X, NEW f, IsMap(f, S, Seq(X)), NEW s \in Seq(S), NEW t \in Seq(S)
  PROVE  FlatMap(f, s \o t) = FlatMap(f, s) \o FlatMap(f, t)
<1>1. PICK a, b : a = Mapped(f, s) /\ b = Mapped(f, t) OBVIOUS
<1>2. a \in Seq(Seq(X)) /\ b \in Seq(Seq(X)) BY <1>1, MappedType
<1>3. Mapped(f, s \o t) = a \o b
  <2>1. PICK T : T = Seq(X) OBVIOUS
  <2>2. IsMap(f, S, T) BY <2>1
  <2>3. Mapped(f, s \o t) = Mapped(f, s) \o Mapped(f, t) BY <2>2, MappedConcat
  <2>. QED BY <1>1, <2>3
<1>4. FlattenSeq(a \o b) = FlattenSeq(a) \o FlattenSeq(b) BY <1>2, FlattenConcat
<1>. QED BY <1>1, <1>3, <1>4 DEF FlatMap

LEMMA FlattenPrefix ==
  ASSUME NEW X, NEW s \in Seq(Seq(X)), NEW t \in Seq(Seq(X)), IsPrefix(s, t)
  PROVE  IsPrefix(FlattenSeq(s), FlattenSeq(t))
<1>1. PICK u \in Seq(Seq(X)) : t = s \o u BY PrefixIsConcat
<1>2. PICK a, b, c : a = FlattenSeq(s) /\ b = FlattenSeq(u) /\ c = FlattenSeq(t) OBVIOUS
<1>3. a \in Seq(X) /\ b \in Seq(X) /\ c \in Seq(X) BY <1>1, <1>2, FlattenType
<1>4. c = a \o b BY <1>1, <1>2, FlattenConcat
<1>. QED BY <1>2, <1>3, <1>4, PrefixIsConcat

LEMMA FlatMapPrefix ==
  ASSUME NEW S, NEW X, NEW f, IsMap(f, S, Seq(X)), NEW s \in Seq(S),
         NEW t \in Seq(S), IsPrefix(s, t)
  PROVE  IsPrefix(FlatMap(f, s), FlatMap(f, t))
<1>1. PICK u \in Seq(S) : t = s \o u BY PrefixIsConcat
<1>2. PICK a, b, c : a = FlatMap(f, s) /\ b = FlatMap(f, u) /\ c = FlatMap(f, t) OBVIOUS
<1>3. a \in Seq(X) /\ b \in Seq(X) /\ c \in Seq(X) BY <1>1, <1>2, FlatMapType
<1>4. c = a \o b
  <2>1. FlatMap(f, s \o u) = FlatMap(f, s) \o FlatMap(f, u) BY FlatMapConcat
  <2>. QED BY <1>1, <1>2, <2>1
<1>. QED BY <1>2, <1>3, <1>4, PrefixIsConcat

(* A prefix of a prefix, and the beginnings of a sequence.                 *)
LEMMA PrefixOfPrefix ==
  ASSUME NEW X, NEW s \in Seq(X), NEW t \in Seq(X), NEW u \in Seq(X), IsPrefix(s, t), IsPrefix(t, u)
  PROVE  IsPrefix(s, u)
<1>1. PICK v \in Seq(X) : t = s \o v BY PrefixIsConcat
<1>2. PICK w \in Seq(X) : u = t \o w BY PrefixIsConcat
<1>3. (s \o v) \o w = s \o (v \o w) BY ConcatAssociative
<1>4. v \o w \in Seq(X) BY ConcatProperties
<1>. QED BY <1>1, <1>2, <1>3, <1>4, PrefixIsConcat

LEMMA BeginningIsPrefix ==
  ASSUME NEW X, NEW s \in Seq(X), NEW n \in 0 .. Len(s)
  PROVE  /\ SubSeq(s, 1, n) \in Seq(X) /\ Len(SubSeq(s, 1, n)) = n
         /\ \A i \in 1 .. n : SubSeq(s, 1, n)[i] = s[i]
         /\ IsPrefix(SubSeq(s, 1, n), s)
<1>1. Len(s) \in Nat /\ n \in Nat /\ n <= Len(s) /\ \A i \in 1 .. n : s[i] \in X
  BY LenProperties, ElementOfSeq
<1>2. PICK t : t = SubSeq(s, 1, n) OBVIOUS
<1>3. t \in Seq(X) /\ Len(t) = n /\ \A i \in 1 .. n : t[i] = s[i]
  BY <1>1, <1>2, SubSeqProperties
<1>4. SubSeq(t, 1, n) = t BY <1>3, SubSeqFull
<1>5. IsPrefix(t, s) BY <1>1, <1>2, <1>3, <1>4 DEF IsPrefix
<1>. QED BY <1>2, <1>3, <1>5

LEMMA PrefixIsBeginning ==
  ASSUME NEW X, NEW s \in Seq(X), NEW t \in Seq(X), IsPrefix(s, t)
  PROVE  Len(s) \in 0 .. Len(t) /\ s = SubSeq(t, 1, Len(s)) /\ \A i \in 1 .. Len(s) : s[i] = t[i]
<1>1. Len(s) \in Nat /\ Len(t) \in Nat /\ Len(s) <= Len(t) BY LenProperties DEF IsPrefix
<1>2. SubSeq(s, 1, Len(s)) = s BY SubSeqFull
<1>3. s = SubSeq(t, 1, Len(s)) BY <1>2 DEF IsPrefix
<1>4. Len(s) \in 0 .. Len(t) BY <1>1
<1>5. \A i \in 1 .. Len(s) : SubSeq(t, 1, Len(s))[i] = t[i] BY <1>4, BeginningIsPrefix
<1>. QED BY <1>3, <1>4, <1>5

(* Beginnings of beginnings.                                               *)
LEMMA BeginningsNest ==
  ASSUME NEW X, NEW s \in Seq(X), NEW n \in 0 .. Len(s), NEW m \in 0 .. n
  PROVE  IsPrefix(SubSeq(s, 1, m), SubSeq(s, 1, n))
<1>1. Len(s) \in Nat BY LenProperties
<1>2. m \in 0 .. Len(s) BY <1>1
<1>3. PICK t, u : t = SubSeq(s, 1, n) /\ u = SubSeq(s, 1, m) OBVIOUS
<1>4. t \in Seq(X) /\ Len(t) = n /\ \A i \in 1 .. n : t[i] = s[i] BY <1>3, BeginningIsPrefix
<1>5. u \in Seq(X) /\ Len(u) = m /\ \A i \in 1 .. m : u[i] = s[i] BY <1>2, <1>3, BeginningIsPrefix
<1>6. PICK v : v = SubSeq(t, 1, m) OBVIOUS
<1>7. v \in Seq(X) /\ Len(v) = m /\ (\A i \in 1 .. m : v[i] = t[i]) /\ IsPrefix(v, t)
  BY <1>4, <1>6, BeginningIsPrefix
<1>8. u = v
  <2>1. \A i \in 1 .. m : i \in 1 .. n OBVIOUS
  <2>2. \A i \in 1 .. Len(u) : u[i] = v[i] BY <1>4, <1>5, <1>7, <2>1
  <2>. QED BY <1>5, <1>7, <2>2, SeqEqual
<1>. QED BY <1>3, <1>7, <1>8

LEMMA PrefixOfItself ==
  ASSUME NEW X, NEW s \in Seq(X) PROVE IsPrefix(s, s)
<1>1. << >> \in Seq(X) /\ s = s \o << >> BY EmptySeq, ConcatEmptySeq
<1>. QED BY <1>1, PrefixIsConcat

(* Joining first and mapping then is the same as the other way round.      *)
LEMMA FlatMapFlatten ==
  ASSUME NEW S, NEW X, NEW f, IsMap(f, S, Seq(X)), NEW s \in Seq(Seq(S))
  PROVE  FlatMap(f, FlattenSeq(s)) = FlattenSeq([n \in DOMAIN s |-> FlatMap(f, s[n])])
<1>. DEFINE F == [x \in Seq(S) |-> FlatMap(f, x)]
            Good == {t \in Seq(Seq(S)) : FlatMap(f, FlattenSeq(t)) = FlatMap(F, t)}
<1>1. IsMap(F, Seq(S), Seq(X)) BY FlatMapType DEF IsMap
<1>2. \A x \in Seq(S) : F[x] = FlatMap(f, x) OBVIOUS
<1>. HIDE DEF F
<1>3. << >> \in Good BY FlattenEmpty, FlatMapEmpty, EmptySeq
<1>4. ASSUME NEW t \in Seq(Seq(S)), t \in Good, NEW x \in Seq(S) PROVE Append(t, x) \in Good
  <2>1. PICK a, u, y : a = FlattenSeq(t) /\ u = << x >> /\ y = Append(t, x) OBVIOUS
  <2>2. a \in Seq(S) /\ u \in Seq(Seq(S)) /\ y \in Seq(Seq(S)) /\ y = t \o u
    BY <2>1, FlattenType, AppendProperties, AppendIsConcat
  <2>3. FlattenSeq(y) = a \o x BY <2>1, FlattenAppend
  <2>4. FlatMap(f, a \o x) = FlatMap(f, a) \o FlatMap(f, x) BY <2>2, FlatMapConcat
  <2>5. FlatMap(F, y) = FlatMap(F, t) \o FlatMap(F, u)
    BY <1>1, <2>2, FlatMapConcat
  <2>6. FlatMap(F, u) = FlatMap(f, x)
    <3>1. FlatMap(F, << x >>) = F[x] BY <1>1, FlatMapOne
    <3>. QED BY <1>2, <2>1, <3>1
  <2>7. FlatMap(f, a) = FlatMap(F, t) BY <1>4, <2>1
  <2>. QED BY <2>1, <2>2, <2>3, <2>4, <2>5, <2>6, <2>7
<1>5. Seq(Seq(S)) \subseteq Good
  <2>. HIDE DEF Good
  <2>. QED BY <1>3, <1>4, InductionOnSeq
<1>6. Mapped(F, s) = [n \in DOMAIN s |-> FlatMap(f, s[n])]
  <2>1. \A n \in DOMAIN s : s[n] \in Seq(S) BY ElementOfSeq
  <2>. QED BY <1>2, <2>1 DEF Mapped
<1>. QED BY <1>5, <1>6 DEF FlatMap

(* The elements one by one.                                                *)
Singles(s) == [n \in DOMAIN s |-> << s[n] >>]

LEMMA FlattenSingles ==
  ASSUME NEW S, NEW s \in Seq(S)
  PROVE  Singles(s) \in Seq(Seq(S)) /\ Len(Singles(s)) = Len(s) /\ FlattenSeq(Singles(s)) = s
<1>. DEFINE F == [x \in S |-> << x >>]
            Good == {t \in Seq(S) : FlatMap(F, t) = t}
<1>1. IsMap(F, S, Seq(S)) /\ \A x \in S : F[x] = << x >> BY DEF IsMap
<1>. HIDE DEF F
<1>2. << >> \in Good BY FlatMapEmpty, EmptySeq
<1>3. ASSUME NEW t \in Seq(S), t \in Good, NEW x \in S PROVE Append(t, x) \in Good
  <2>1. PICK u : u = << x >> OBVIOUS
  <2>2. u \in Seq(S) /\ Append(t, x) = t \o u /\ Append(t, x) \in Seq(S)
    BY <2>1, AppendProperties, AppendIsConcat
  <2>3. FlatMap(F, t \o u) = FlatMap(F, t) \o FlatMap(F, u) BY <1>1, <2>2, FlatMapConcat
  <2>4. FlatMap(F, u) = u BY <1>1, <2>1, FlatMapOne
  <2>. QED BY <1>3, <2>2, <2>3, <2>4
<1>4. Seq(S) \subseteq Good
  <2>. HIDE DEF Good
  <2>. QED BY <1>2, <1>3, InductionOnSeq
<1>5. Mapped(F, s) = Singles(s)
  <2>1. \A n \in DOMAIN s : s[n] \in S BY ElementOfSeq
  <2>. QED BY <1>1, <2>1 DEF Mapped, Singles
<1>6. Mapped(F, s) \in Seq(Seq(S)) /\ Len(Mapped(F, s)) = Len(s) BY <1>1, MappedType
<1>. QED BY <1>4, <1>5, <1>6 DEF FlatMap
(* The greatest number of a set.                                           *)
LEMMA MaxIsGreatest ==
  ASSUME NEW S \in SUBSET Nat, NEW m \in S, \A n \in S : n <= m
  PROVE  Max(S) = m
<1>1. \A y \in S : m >= y
  OBVIOUS
<1>2. Max(S) \in S /\ \A y \in S : Max(S) >= y
  BY <1>1, Zenon DEF Max
<1>3. Max(S) >= m /\ Max(S) <= m
  BY <1>2
<1>4. Max(S) \in Nat /\ m \in Nat
  BY <1>2
<1> QED  BY <1>3, <1>4

(* A set of positions has a last.                                          *)
LEMMA GreatestBelow ==
  ASSUME NEW N \in Nat, NEW S \in SUBSET (1 .. N), S # {}
  PROVE  \E m \in S : \A i \in S : i <= m
<1> DEFINE Bounds == {n \in Nat : \A i \in S : i <= n}
<1>1. N \in Bounds
  OBVIOUS
<1>2. PICK m \in Bounds : \A n \in Bounds : m <= n
  BY <1>1, LeastNumber
<1>3. m \in S
  <2> SUFFICES ASSUME m \notin S PROVE FALSE
    OBVIOUS
  <2>1. \A i \in S : i <= m /\ i # m /\ i \in 1 .. N
    BY <1>2
  <2>2. m # 0
    <3>1. PICK i \in S : i \in 1 .. N
      OBVIOUS
    <3>2. i <= m /\ i >= 1
      BY <2>1, <3>1
    <3> QED  BY <3>1, <3>2
  <2>3. m - 1 \in Nat /\ \A i \in S : i <= m - 1
    BY <1>2, <2>1, <2>2
  <2>4. m <= m - 1
    BY <1>2, <2>3
  <2> QED  BY <1>2, <2>4
<1> QED  BY <1>2, <1>3

-----------------------------------------------------------------------------
(* The positions that a selection takes, as a list.                        *)

(* e lists the numbers of I, from the least to the greatest.               *)
Lists(e, I) ==
  /\ e \in Seq(Nat)
  /\ \A m, n \in 1 .. Len(e) : m < n => e[m] < e[n]
  /\ I = {e[n] : n \in 1 .. Len(e)}

(* A list is strictly increasing both ways, and has no number twice.       *)
LEMMA ListOrder ==
  ASSUME NEW I, NEW e, Lists(e, I), NEW m \in 1 .. Len(e), NEW n \in 1 .. Len(e)
  PROVE  e[m] \in Nat /\ e[m] \in I /\ (m < n <=> e[m] < e[n]) /\ (m = n <=> e[m] = e[n])
<1>1. e[m] \in Nat /\ e[n] \in Nat /\ m \in Int /\ n \in Int BY LenProperties DEF Lists
<1>2. e[m] \in I BY DEF Lists
<1>3. (m < n => e[m] < e[n]) /\ (n < m => e[n] < e[m]) BY DEF Lists
<1>. QED BY <1>1, <1>2, <1>3

(* Without its last number a list is a list.                               *)
WithoutLast(d, J, e, I, N) == d = SubSeq(e, 1, Len(e) - 1) /\ J = {i \in I : i # N + 1}

WithinFirst(I, N) == I \in SUBSET (1 .. N)

LEMMA ShorterList ==
  ASSUME NEW N \in Nat, NEW I, WithinFirst(I, N + 1), NEW e, Lists(e, I), N + 1 \in I,
         NEW d, NEW J, WithoutLast(d, J, e, I, N)
  PROVE  /\ Len(e) \in Nat /\ Len(e) # 0 /\ e[Len(e)] = N + 1
         /\ Lists(d, J) /\ Len(d) = Len(e) - 1 /\ WithinFirst(J, N)
         /\ \A n \in 1 .. Len(e) - 1 : d[n] = e[n] /\ e[n] \in 1 .. N
<1>. USE DEF WithoutLast, WithinFirst
<1>. DEFINE L == Len(e)
<1>1. L \in Nat /\ e \in Seq(Nat) BY LenProperties DEF Lists
<1>2. PICK k \in 1 .. L : e[k] = N + 1 BY DEF Lists
<1>3. L \in 1 .. L /\ L # 0 BY <1>1, <1>2
<1>4. e[L] \in 1 .. N + 1 BY <1>3 DEF Lists
<1>5. k = L
  <2>1. ~ (k < L) 
    <3>1. k < L => e[k] < e[L] BY <1>2, <1>3, ListOrder
    <3>. QED BY <3>1, <1>2, <1>4
  <2>. QED BY <2>1, <1>1
<1>6. d \in Seq(Nat) /\ Len(d) = L - 1 /\ \A n \in 1 .. L - 1 : d[n] = e[n]
  <2>1. L - 1 \in 0 .. L BY <1>1, <1>3
  <2>2. ASSUME NEW j \in 0 .. L PROVE SubSeq(e, 1, j) \in Seq(Nat) /\ Len(SubSeq(e, 1, j)) = j
              /\ \A n \in 1 .. j : SubSeq(e, 1, j)[n] = e[n]
    BY <1>1, BeginningIsPrefix
  <2>. QED BY <2>1, <2>2
<1>. HIDE DEF L
<1>7. ASSUME NEW n \in 1 .. L - 1 PROVE e[n] \in 1 .. N
  <2>1. n \in 1 .. L /\ n < L BY <1>1
  <2>2. e[n] < e[L] BY <2>1, <1>3, ListOrder DEF L
  <2>3. e[n] \in 1 .. N + 1 BY <2>1 DEF Lists, L
  <2>. QED BY <2>2, <2>3, <1>2, <1>5
<1>8. \A m, n \in 1 .. L - 1 : m < n => d[m] < d[n]
  <2>1. ASSUME NEW m \in 1 .. L - 1, NEW n \in 1 .. L - 1, m < n PROVE d[m] < d[n]
    <3>1. m \in 1 .. L /\ n \in 1 .. L BY <1>1
    <3>2. e[m] < e[n] BY <2>1, <3>1, ListOrder DEF L
    <3>. QED BY <3>2, <1>6
  <2>. QED BY <2>1
<1>9. J = {d[n] : n \in 1 .. L - 1}
  <2>1. ASSUME NEW i \in I, i # N + 1 PROVE i \in {d[n] : n \in 1 .. L - 1}
    <3>1. PICK n \in 1 .. L : e[n] = i BY DEF Lists, L
    <3>2. n # L BY <3>1, <2>1, <1>2, <1>5
    <3>3. n \in 1 .. L - 1 BY <3>2, <1>1
    <3>. QED BY <3>1, <3>3, <1>6
  <2>2. ASSUME NEW n \in 1 .. L - 1 PROVE d[n] \in I /\ d[n] # N + 1
    <3>1. n \in 1 .. L /\ d[n] = e[n] /\ e[n] # N + 1 BY <1>1, <1>6, <1>7
    <3>. QED BY <3>1 DEF Lists, L
  <2>. QED BY <2>1, <2>2
<1>10. Lists(d, J)
  BY <1>6, <1>8, <1>9 DEF Lists
<1>11. WithinFirst(J, N)
  <2>1. ASSUME NEW i \in J PROVE i \in 1 .. N
    <3>1. i \in 1 .. N + 1 /\ i # N + 1 OBVIOUS
    <3>. QED BY <3>1
  <2>. QED BY <2>1
<1>. QED BY <1>11, <1>10, <1>1, <1>2, <1>3, <1>5, <1>6, <1>7 DEF L

LEMMA ListExists ==
  ASSUME NEW M \in Nat, NEW K \in SUBSET (1 .. M) PROVE \E e : Lists(e, K)
<1>. DEFINE Good == {N \in Nat : \A I \in SUBSET (1 .. N) : \E e : Lists(e, I)}
<1>1. 0 \in Good
  <2>1. Lists(<< >>, {}) BY EmptySeq DEF Lists
  <2>2. \A I \in SUBSET (1 .. 0) : I = {} OBVIOUS
  <2>. QED BY <2>1, <2>2
<1>2. ASSUME NEW N \in Nat, N \in Good PROVE N + 1 \in Good
  <2>. SUFFICES ASSUME NEW I \in SUBSET (1 .. N + 1) PROVE \E e : Lists(e, I) OBVIOUS
  <2>1. CASE N + 1 \notin I
    <3>1. I \in SUBSET (1 .. N) BY <2>1
    <3>. QED BY <3>1, <1>2
  <2>2. CASE N + 1 \in I
    <3>1. PICK e : Lists(e, I \ {N + 1})
      <4>1. I \ {N + 1} \in SUBSET (1 .. N) OBVIOUS
      <4>. QED BY <4>1, <1>2
    <3>2. e \in Seq(Nat) /\ Len(e) \in Nat BY <3>1, LenProperties DEF Lists
    <3>3. PICK d : d = Append(e, N + 1) OBVIOUS
    <3>4. d \in Seq(Nat) /\ Len(d) = Len(e) + 1 /\ d[Len(e) + 1] = N + 1
            /\ \A n \in 1 .. Len(e) : d[n] = e[n]
      BY <3>2, <3>3, AppendProperties
    <3>5. \A n \in 1 .. Len(e) : e[n] \in 1 .. N /\ e[n] \in I BY <3>1 DEF Lists
    <3>6. ASSUME NEW m \in 1 .. Len(d), NEW n \in 1 .. Len(d), m < n PROVE d[m] < d[n]
      <4>1. m \in 1 .. Len(e) BY <3>2, <3>4, <3>6
      <4>2. CASE n = Len(e) + 1 BY <4>1, <4>2, <3>4, <3>5
      <4>3. CASE n # Len(e) + 1
        <5>1. n \in 1 .. Len(e) BY <3>2, <3>4, <4>3
        <5>2. e[m] < e[n] BY <3>1, <4>1, <5>1, <3>6 DEF Lists
        <5>. QED BY <5>1, <5>2, <4>1, <3>4
      <4>. QED BY <4>2, <4>3
    <3>7. ASSUME NEW i \in I PROVE i \in {d[n] : n \in 1 .. Len(d)}
      <4>1. CASE i = N + 1
        <5>1. Len(e) + 1 \in 1 .. Len(d) BY <3>2, <3>4
        <5>. QED BY <5>1, <4>1, <3>4
      <4>2. CASE i # N + 1
        <5>1. PICK n \in 1 .. Len(e) : e[n] = i BY <4>2, <3>1 DEF Lists
        <5>2. n \in 1 .. Len(d) /\ d[n] = i BY <5>1, <3>2, <3>4
        <5>. QED BY <5>2
      <4>. QED BY <4>1, <4>2
    <3>8. ASSUME NEW n \in 1 .. Len(d) PROVE d[n] \in I
      <4>1. CASE n = Len(e) + 1 BY <4>1, <3>4, <2>2
      <4>2. CASE n # Len(e) + 1
        <5>1. n \in 1 .. Len(e) BY <3>2, <3>4, <4>2
        <5>. QED BY <5>1, <3>4, <3>5
      <4>. QED BY <4>1, <4>2
    <3>9. I = {d[n] : n \in 1 .. Len(d)} BY <3>7, <3>8
    <3>10. Lists(d, I) BY <3>4, <3>6, <3>9 DEF Lists
    <3>. QED BY <3>10
  <2>. QED BY <2>1, <2>2
<1>3. Nat \subseteq Good
  <2>. HIDE DEF Good
  <2>. QED BY <1>1, <1>2, InductionOnNat
<1>4. M \in Good BY <1>3
<1>. QED BY <1>4

(* The selection, by the list of its positions.                            *)
LEMMA ItemsAtListed ==
  ASSUME NEW X, NEW r \in Seq(X), NEW K \in SUBSET (1 .. Len(r)), NEW f, Lists(f, K)
  PROVE  ItemsAt(r, K) = [n \in 1 .. Len(f) |-> r[f[n]]]
<1>. DEFINE Picked(s, e) == [n \in 1 .. Len(e) |-> s[e[n]]]
            Works(s) == \A I \in SUBSET (1 .. Len(s)), e \in Seq(Nat) :
                          Lists(e, I) => ItemsAt(s, I) = Picked(s, e)
            Good == {s \in Seq(X) : Works(s)}
<1>1. << >> \in Good
  <2>1. << >> \in Seq(X) /\ Len(<< >>) = 0 BY EmptySeq
  <2>2. ASSUME NEW I \in SUBSET (1 .. 0), NEW e \in Seq(Nat), Lists(e, I)
        PROVE  << >> = Picked(<< >>, e)
    <3>1. I = {} OBVIOUS
    <3>2. Len(e) \in Nat BY LenProperties
    <3>3. Len(e) = 0 
      <4>1. ~ (1 \in 1 .. Len(e)) BY <3>1, <2>2 DEF Lists
      <4>. QED BY <4>1, <3>2
    <3>. QED BY <3>3
  <2>3. \A I : ItemsAt(<< >>, I) = << >> BY ItemsAtEmpty
  <2>4. Works(<< >>)
    <3>. SUFFICES ASSUME NEW I \in SUBSET (1 .. Len(<< >>)), NEW e \in Seq(Nat), Lists(e, I)
                  PROVE  ItemsAt(<< >>, I) = Picked(<< >>, e)
      OBVIOUS
    <3>. HIDE DEF Picked
    <3>. QED BY <2>1, <2>2, <2>3
  <2>. HIDE DEF Works
  <2>. QED BY <2>1, <2>4
<1>2. ASSUME NEW t \in Seq(X), t \in Good, NEW x \in X PROVE Append(t, x) \in Good
  <2>1. PICK s : s = Append(t, x) OBVIOUS
  <2>2. s \in Seq(X) /\ Len(s) = Len(t) + 1 /\ s[Len(t) + 1] = x
          /\ \A n \in 1 .. Len(t) : s[n] = t[n]
    BY <2>1, AppendProperties
  <2>3. Len(t) \in Nat BY LenProperties
  <2>4. ASSUME NEW I \in SUBSET (1 .. Len(t) + 1), NEW e \in Seq(Nat), Lists(e, I)
        PROVE  ItemsAt(s, I) = Picked(s, e)
    <3>0. ItemsAt(s, I) = IF Len(t) + 1 \in I THEN Append(ItemsAt(t, I), x) ELSE ItemsAt(t, I)
      BY <2>1, ItemsAtAppend
    <3>1. CASE Len(t) + 1 \notin I
      <4>1. I \in SUBSET (1 .. Len(t)) BY <3>1
      <4>2. ItemsAt(t, I) = Picked(t, e) BY <4>1, <1>2, <2>4
      <4>3. \A n \in 1 .. Len(e) : s[e[n]] = t[e[n]] BY <4>1, <2>2, <2>4 DEF Lists
      <4>. QED BY <4>2, <4>3, <3>0, <3>1
    <3>2. CASE Len(t) + 1 \in I
      <4>1. PICK d : d = SubSeq(e, 1, Len(e) - 1) OBVIOUS
      <4>2. PICK J : J = {i \in I : i # Len(t) + 1} OBVIOUS
      <4>0. WithoutLast(d, J, e, I, Len(t)) /\ WithinFirst(I, Len(t) + 1)
        BY <4>1, <4>2 DEF WithoutLast, WithinFirst
      <4>3. Len(e) \in Nat /\ Len(e) # 0 /\ e[Len(e)] = Len(t) + 1 /\ Lists(d, J) /\ Len(d) = Len(e) - 1
              /\ WithinFirst(J, Len(t))
              /\ \A n \in 1 .. Len(e) - 1 : d[n] = e[n] /\ e[n] \in 1 .. Len(t)
        BY <2>3, <2>4, <3>2, <4>0, ShorterList
      <4>4. J \in SUBSET (1 .. Len(t)) BY <4>3 DEF WithinFirst
      <4>5. ItemsAt(t, J) = Picked(t, d)
        <5>1. d \in Seq(Nat) BY <4>3 DEF Lists
        <5>. QED BY <5>1, <4>3, <4>4, <1>2
      <4>6. ItemsAt(t, I) = ItemsAt(t, J)
        <5>1. \A n \in 1 .. Len(t) : n \in I <=> n \in J BY <4>2, <2>3
        <5>. QED BY <5>1, ItemsAtSame
      <4>7. PICK p : p = Picked(t, d) OBVIOUS
      <4>8. p \in Seq(X) 
        <5>1. ItemsAt(t, J) \in Seq(X) BY ItemsAtType
        <5>. QED BY <5>1, <4>5, <4>7
      <4>9. Len(p) = Len(e) - 1 /\ \A n \in 1 .. Len(e) - 1 : p[n] = s[e[n]]
        <5>1. Len(e) - 1 \in Nat BY <4>3
        <5>2. Len(p) = Len(e) - 1
          <6>1. DOMAIN p = 1 .. Len(e) - 1 BY <4>3, <4>7
          <6>. QED BY <6>1, <5>1, <4>8, LenProperties
        <5>. QED BY <5>2, <4>3, <4>7, <2>2
      <4>10. PICK q : q = Append(p, x) OBVIOUS
      <4>11. q \in Seq(X) /\ Len(q) = Len(e) /\ q[Len(e)] = x /\ \A n \in 1 .. Len(e) - 1 : q[n] = p[n]
        <5>1. q \in Seq(X) /\ Len(q) = Len(p) + 1 /\ q[Len(p) + 1] = x /\ \A n \in 1 .. Len(p) : q[n] = p[n]
          BY <4>8, <4>10, AppendProperties
        <5>2. Len(p) = Len(e) - 1 /\ Len(p) + 1 = Len(e) BY <4>3, <4>9
        <5>. QED BY <5>1, <5>2
      <4>12. \A n \in 1 .. Len(e) : q[n] = s[e[n]]
        <5>1. \A n \in 1 .. Len(e) : n = Len(e) \/ n \in 1 .. Len(e) - 1 BY <4>3
        <5>. QED BY <5>1, <4>3, <4>9, <4>11, <2>2
      <4>13. q = [n \in 1 .. Len(e) |-> q[n]]
        <5>1. DOMAIN q = 1 .. Len(e) BY <4>11, LenProperties
        <5>2. q = [n \in DOMAIN q |-> q[n]] BY <4>11
        <5>. QED BY <5>1, <5>2
      <4>14. q = Picked(s, e) BY <4>12, <4>13
      <4>. QED BY <3>0, <3>2, <4>5, <4>6, <4>7, <4>10, <4>14
    <3>. QED BY <3>1, <3>2
  <2>5. Works(s)
    <3>. HIDE DEF Picked
    <3>. QED BY <2>2, <2>4
  <2>. HIDE DEF Works
  <2>. QED BY <2>1, <2>2, <2>5
<1>3. Seq(X) \subseteq Good
  <2>. HIDE DEF Good
  <2>. QED BY <1>1, <1>2, InductionOnSeq
<1>4. r \in Good /\ f \in Seq(Nat) BY <1>3 DEF Lists
<1>. QED BY <1>4

(* The list of the positions of a selection, and what it selects.          *)
Selects(e, r, s, I) ==
  /\ Lists(e, {i \in 1 .. Len(s) : i \in I})
  /\ Len(r) = Len(e) /\ DOMAIN r = 1 .. Len(e)
  /\ \A n \in 1 .. Len(e) : e[n] \in 1 .. Len(s) /\ e[n] \in I /\ r[n] = s[e[n]]

LEMMA ListSelects ==
  ASSUME NEW X, NEW s \in Seq(X), NEW I, NEW e, Lists(e, {i \in 1 .. Len(s) : i \in I})
  PROVE  Selects(e, ItemsAt(s, I), s, I)
<1>1. PICK K : K = {i \in 1 .. Len(s) : i \in I} OBVIOUS
<1>2. PICK r : r = ItemsAt(s, I) OBVIOUS
<1>3. \A n \in 1 .. Len(s) : n \in I <=> n \in K BY <1>1
<1>4. r = ItemsAt(s, K) BY <1>2, <1>3, ItemsAtSame
<1>5. Lists(e, K) BY <1>1
<1>6. K \in SUBSET (1 .. Len(s)) BY <1>1
<1>7. r = [n \in 1 .. Len(e) |-> s[e[n]]] BY <1>4, <1>5, <1>6, ItemsAtListed
<1>8. r \in Seq(X) BY <1>2, ItemsAtType
<1>9. Len(e) \in Nat BY <1>5, LenProperties DEF Lists
<1>10. Len(r) = Len(e) BY <1>7, <1>8, <1>9, LenProperties
<1>11. \A n \in 1 .. Len(e) : e[n] \in K BY <1>5 DEF Lists
<1>. QED BY <1>1, <1>2, <1>7, <1>10, <1>11 DEF Selects

LEMMA SelectionHasList ==
  ASSUME NEW X, NEW s \in Seq(X), NEW I
  PROVE  \E e : Selects(e, ItemsAt(s, I), s, I)
<1>1. PICK K : K = {i \in 1 .. Len(s) : i \in I} OBVIOUS
<1>2. K \in SUBSET (1 .. Len(s)) /\ Len(s) \in Nat BY <1>1, LenProperties
<1>3. PICK e : Lists(e, K) BY <1>2, ListExists
<1>4. Selects(e, ItemsAt(s, I), s, I) BY <1>1, <1>3, ListSelects
<1>. QED BY <1>4

(* The indices selected by I are the list of I.                            *)
LEMMA IndicesAreList ==
  ASSUME NEW N \in Nat, NEW I \in SUBSET (1 .. N)
  PROVE  Lists(ItemsAt([i \in 1 .. N |-> i], I), I)
<1>1. PICK s : s = [i \in 1 .. N |-> i] OBVIOUS
<1>2. s \in Seq(Nat) /\ Len(s) = N BY <1>1
<1>3. PICK r : r = ItemsAt(s, I) OBVIOUS
<1>4. PICK e : Selects(e, r, s, I) BY <1>2, <1>3, SelectionHasList
<1>5. PICK K : K = {i \in 1 .. Len(s) : i \in I} OBVIOUS
<1>6. Lists(e, K) BY <1>4, <1>5 DEF Selects
<1>7. \A i : i \in K <=> i \in I BY <1>2, <1>5
<1>8. K = I BY <1>7
<1>9. \A n \in 1 .. Len(e) : r[n] = e[n] BY <1>1, <1>2, <1>4 DEF Selects
<1>10. e \in Seq(Nat) /\ r \in Seq(Nat) /\ Len(r) = Len(e)
  BY <1>2, <1>3, <1>4, <1>6, ItemsAtType DEF Selects, Lists
<1>11. r = e BY <1>9, <1>10, SeqEqual
<1>. QED BY <1>1, <1>3, <1>6, <1>8, <1>11

LEMMA ItemsAtAll ==
  ASSUME NEW X, NEW s \in Seq(X), NEW I, \A i \in 1 .. Len(s) : i \in I
  PROVE  ItemsAt(s, I) = s
<1>1. PICK e : e = [i \in 1 .. Len(s) |-> i] OBVIOUS
<1>2. Len(s) \in Nat BY LenProperties
<1>3. e \in Seq(Nat) /\ Len(e) = Len(s) BY <1>1, <1>2
<1>4. PICK K : K = {i \in 1 .. Len(s) : i \in I} OBVIOUS
<1>5. K = {e[n] : n \in 1 .. Len(e)} 
  <2>1. \A i : i \in K <=> i \in 1 .. Len(s) BY <1>4
  <2>2. \A n \in 1 .. Len(s) : e[n] = n BY <1>1
  <2>. QED BY <2>1, <2>2, <1>3
<1>6. \A m, n \in 1 .. Len(e) : m < n => e[m] < e[n] BY <1>1, <1>3
<1>7. Lists(e, K) BY <1>3, <1>5, <1>6 DEF Lists
<1>8. PICK r : r = ItemsAt(s, I) OBVIOUS
<1>9. Selects(e, r, s, I) BY <1>4, <1>7, <1>8, ListSelects
<1>10. r \in Seq(X) BY <1>8, ItemsAtType
<1>11. \A n \in 1 .. Len(s) : r[n] = s[n] BY <1>1, <1>3, <1>9 DEF Selects
<1>12. Len(r) = Len(s) BY <1>9, <1>3 DEF Selects
<1>. QED BY <1>8, <1>10, <1>11, <1>12, SeqEqual

LEMMA ItemsAtNone ==
  ASSUME NEW X, NEW s \in Seq(X), NEW I, \A i \in 1 .. Len(s) : i \notin I
  PROVE  ItemsAt(s, I) = << >>
<1>1. PICK r : r = ItemsAt(s, I) OBVIOUS
<1>2. PICK e : Selects(e, r, s, I) BY <1>1, SelectionHasList
<1>3. r \in Seq(X) BY <1>1, ItemsAtType
<1>4. ~ (1 \in 1 .. Len(r)) BY <1>2 DEF Selects
<1>5. Len(r) \in Nat BY <1>3, LenProperties
<1>6. Len(r) = 0 BY <1>4, <1>5
<1>. QED BY <1>1, <1>3, <1>6, EmptySeq

(* A selection from a selection: the list of a list's numbers at a list of *)
(* positions.                                                              *)
LEMMA ListOfList ==
  ASSUME NEW I, NEW e, Lists(e, I), NEW J, NEW f, Lists(f, J), J \subseteq 1 .. Len(e),
         NEW g, g = [n \in 1 .. Len(f) |-> e[f[n]]], NEW K, K = {e[j] : j \in J}
  PROVE  Lists(g, K) /\ Len(g) = Len(f)
<1>1. e \in Seq(Nat) /\ f \in Seq(Nat) /\ Len(f) \in Nat BY LenProperties DEF Lists
<1>2. \A n \in 1 .. Len(f) : f[n] \in J /\ f[n] \in 1 .. Len(e) BY DEF Lists
<1>3. \A n \in 1 .. Len(f) : e[f[n]] \in Nat BY <1>1, <1>2, LenProperties
<1>4. g \in Seq(Nat) /\ Len(g) = Len(f) BY <1>1, <1>3
<1>5. ASSUME NEW m \in 1 .. Len(g), NEW n \in 1 .. Len(g), m < n PROVE g[m] < g[n]
  <2>1. m \in 1 .. Len(f) /\ n \in 1 .. Len(f) BY <1>4
  <2>2. f[m] < f[n] BY <2>1, <1>5 DEF Lists
  <2>3. e[f[m]] < e[f[n]] BY <2>1, <2>2, <1>2 DEF Lists
  <2>. QED BY <2>1, <2>3
<1>6. K = {g[n] : n \in 1 .. Len(g)}
  <2>1. ASSUME NEW j \in J PROVE e[j] \in {g[n] : n \in 1 .. Len(g)}
    <3>1. PICK n \in 1 .. Len(f) : f[n] = j BY DEF Lists
    <3>2. n \in 1 .. Len(g) /\ g[n] = e[j] BY <3>1, <1>4
    <3>. QED BY <3>2
  <2>2. ASSUME NEW n \in 1 .. Len(g) PROVE g[n] \in K
    <3>1. n \in 1 .. Len(f) BY <1>4
    <3>2. PICK j : j = f[n] OBVIOUS
    <3>3. j \in J /\ g[n] = e[j] BY <3>1, <3>2, <1>2
    <3>4. e[j] \in K BY <3>3
    <3>. QED BY <3>3, <3>4
  <2>. QED BY <2>1, <2>2
<1>. QED BY <1>4, <1>5, <1>6 DEF Lists

LEMMA ItemsOfItems ==
  ASSUME NEW X, NEW s \in Seq(X), NEW I, NEW e, NEW r, r = ItemsAt(s, I), Selects(e, r, s, I),
         NEW J, NEW K, \A i \in 1 .. Len(s) : i \in K <=> \E n \in 1 .. Len(e) : n \in J /\ e[n] = i
  PROVE  ItemsAt(r, J) = ItemsAt(s, K)
<1>0. r \in Seq(X) /\ Len(r) = Len(e) /\ Len(r) \in Nat BY ItemsAtType, LenProperties DEF Selects
<1>1. PICK H : H = {i \in 1 .. Len(r) : i \in J} OBVIOUS
<1>2. PICK f : Lists(f, H)
  <2>1. H \in SUBSET (1 .. Len(r)) BY <1>1
  <2>. QED BY <1>0, <2>1, ListExists
<1>3. PICK q : q = ItemsAt(r, J) OBVIOUS
<1>4. Selects(f, q, r, J) BY <1>0, <1>1, <1>2, <1>3, ListSelects
<1>5. PICK g : g = [n \in 1 .. Len(f) |-> e[f[n]]] OBVIOUS
<1>6. PICK G : G = {e[j] : j \in H} OBVIOUS
<1>7. PICK L : L = {i \in 1 .. Len(s) : i \in I} OBVIOUS
<1>8. Lists(e, L) BY <1>7 DEF Selects
<1>9. H \subseteq 1 .. Len(e) BY <1>0, <1>1
<1>10. Lists(g, G) /\ Len(g) = Len(f) BY <1>2, <1>5, <1>6, <1>8, <1>9, ListOfList
<1>11. PICK M : M = {i \in 1 .. Len(s) : i \in K} OBVIOUS
<1>12. G = M
  <2>1. ASSUME NEW j \in H PROVE e[j] \in M
    <3>1. j \in 1 .. Len(e) /\ j \in J BY <1>0, <1>1
    <3>2. e[j] \in 1 .. Len(s) BY <3>1 DEF Selects
    <3>. QED BY <3>1, <3>2, <1>11
  <2>2. ASSUME NEW i \in M PROVE i \in G
    <3>1. PICK n \in 1 .. Len(e) : n \in J /\ e[n] = i BY <1>11
    <3>2. n \in H BY <3>1, <1>0, <1>1
    <3>. QED BY <3>1, <3>2, <1>6
  <2>. QED BY <2>1, <2>2, <1>6
<1>13. PICK p : p = ItemsAt(s, K) OBVIOUS
<1>14. Selects(g, p, s, K)
  <2>1. Lists(g, M) BY <1>10, <1>12
  <2>. QED BY <2>1, <1>11, <1>13, ListSelects
<1>15. p \in Seq(X) /\ q \in Seq(X) BY <1>0, <1>3, <1>13, ItemsAtType
<1>16. Len(p) = Len(q) BY <1>4, <1>10, <1>14 DEF Selects
<1>17. ASSUME NEW n \in 1 .. Len(p) PROVE p[n] = q[n]
  <2>1. n \in 1 .. Len(f) /\ n \in 1 .. Len(g) BY <1>10, <1>14 DEF Selects
  <2>2. p[n] = s[g[n]] BY <2>1, <1>14 DEF Selects
  <2>3. q[n] = r[f[n]] /\ f[n] \in 1 .. Len(r) BY <2>1, <1>4 DEF Selects
  <2>4. r[f[n]] = s[e[f[n]]] BY <2>3, <1>0 DEF Selects
  <2>. QED BY <2>1, <2>2, <2>3, <2>4, <1>5
<1>. QED BY <1>3, <1>13, <1>15, <1>16, <1>17, SeqEqual

(* Sequences that agree at the positions have the same selection.          *)
LEMMA ItemsAtAgree ==
  ASSUME NEW X, NEW s \in Seq(X), NEW t \in Seq(X), Len(s) = Len(t), NEW I,
         \A i \in 1 .. Len(s) : i \in I => s[i] = t[i]
  PROVE  ItemsAt(s, I) = ItemsAt(t, I)
<1>1. PICK q, r : q = ItemsAt(s, I) /\ r = ItemsAt(t, I) OBVIOUS
<1>2. PICK e : Selects(e, q, s, I) BY <1>1, SelectionHasList
<1>3. Lists(e, {i \in 1 .. Len(t) : i \in I}) BY <1>2 DEF Selects
<1>4. Selects(e, r, t, I) BY <1>1, <1>3, ListSelects
<1>5. q \in Seq(X) /\ r \in Seq(X) BY <1>1, ItemsAtType
<1>6. Len(q) = Len(r) /\ \A n \in 1 .. Len(q) : q[n] = r[n] BY <1>2, <1>4 DEF Selects
<1>. QED BY <1>1, <1>5, <1>6, SeqEqual
=============================================================================
