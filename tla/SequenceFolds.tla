---------------------------- MODULE SequenceFolds ---------------------------
(***************************************************************************)
(* What the folds of the community modules compute, one element at a time, *)
(* for any operation and start value: the proofs instantiate this module   *)
(* with the operation of each fold they speak of.                          *)
(*                                                                         *)
(* A fold is defined by a recursive function, that is by a CHOOSE.  Each   *)
(* lemma first shows that such a function exists, by induction over the    *)
(* naturals in the form of a set that holds 0 and every successor.         *)
(***************************************************************************)
EXTENDS Integers, Sequences, SequencesExt, SequenceTheorems,
        WellFoundedInduction, TLAPS

CONSTANT Op(_, _)

-----------------------------------------------------------------------------
(* Induction.                                                              *)

LEMMA NatSetInduction ==
    ASSUME NEW T, 0 \in T, \A n \in Nat : n \in T => n + 1 \in T
    PROVE  Nat \subseteq T
  <1> SUFFICES ASSUME Nat \ T # {} PROVE FALSE
    OBVIOUS
  <1>1. PICK x \in Nat \ T : \A y \in Nat \ T : ~(<<y, x>> \in OpToRel(<, Nat))
    BY NatLessThanWellFounded, WFMin
  <1>2. ASSUME NEW y \in Nat \ T, y < x PROVE FALSE
    BY <1>1, <1>2 DEF OpToRel
  <1>3. x - 1 \in Nat \ T
    OBVIOUS
  <1> QED
    BY <1>2, <1>3

LEMMA SeqSetInduction ==
    ASSUME NEW S, NEW T, <<>> \in T,
           \A s \in Seq(S), x \in S : s \in T => Append(s, x) \in T
    PROVE  Seq(S) \subseteq T
  <1> DEFINE N == {n \in Nat : \A s \in Seq(S) : Len(s) = n => s \in T}
  <1>1. 0 \in N
    OBVIOUS
  <1>2. \A n \in Nat : n \in N => n + 1 \in N
    <2> SUFFICES ASSUME NEW n \in Nat, n \in N, NEW s \in Seq(S),
                        Len(s) = n + 1
                 PROVE  s \in T
      OBVIOUS
    <2>1. PICK q \in Seq(S), x \in S : s = Append(q, x)
      <3>1. s # <<>>
        OBVIOUS
      <3> QED
        BY <3>1, SequenceEmptyOrAppend
    <2>2. Len(q) = n
      BY <2>1
    <2> QED
      BY <2>1, <2>2
  <1>3. Nat \subseteq N
    <2> HIDE DEF N
    <2> QED
      BY <1>1, <1>2, NatSetInduction
  <1> QED
    BY <1>3

\* The prefixes of a sequence outlive what is appended to it.
LEMMA PrefixesOfAppend ==
    ASSUME NEW S, NEW s \in Seq(S), NEW x \in S
    PROVE  /\ SubSeq(s, 1, Len(s)) = s
           /\ \A m \in 0..Len(s) : SubSeq(Append(s, x), 1, m) = SubSeq(s, 1, m)
  <1> DEFINE a == Append(s, x)
             n == Len(s)
  <1>1. /\ n \in Nat /\ a \in Seq(S) /\ DOMAIN a = 1..(n + 1)
        /\ DOMAIN s = 1..n /\ \A i \in 1..n : a[i] = s[i]
    OBVIOUS
  <1>2. SubSeq(s, 1, n) = s
    BY SubSeqFull
  <1> HIDE DEF a, n
  <1>3. ASSUME NEW m \in 0..n
        PROVE  SubSeq(a, 1, m) = SubSeq(s, 1, m)
    <2>1. \A i \in 1..m : a[i] \in S /\ s[i] \in S /\ a[i] = s[i]
      BY <1>1
    <2>2. /\ SubSeq(a, 1, m) \in Seq(S)
          /\ Len(SubSeq(a, 1, m)) = m
          /\ \A i \in 1..m : SubSeq(a, 1, m)[i] = a[i]
      BY <1>1, <2>1, SubSeqProperties
    <2>3. /\ SubSeq(s, 1, m) \in Seq(S)
          /\ Len(SubSeq(s, 1, m)) = m
          /\ \A i \in 1..m : SubSeq(s, 1, m)[i] = s[i]
      BY <1>1, <2>1, SubSeqProperties
    <2> QED
      BY <2>1, <2>2, <2>3, SeqEqual
  <1> QED
    BY <1>2, <1>3 DEF a, n

-----------------------------------------------------------------------------
(* FoldLeft.                                                               *)

Fold(base, s) == FoldLeft(Op, base, s)

Pass(base, g, s, t) ==
    IF t = {} THEN base ELSE Op(g[t \ {Max(t)}], s[Max(t)])
IsPass(base, g, s, k) ==
    g = [t \in SUBSET (1..k) |-> Pass(base, g, s, t)]
Folded(base, s, k) == CHOOSE g : IsPass(base, g, s, k)

LEMMA MaxIsLast ==
    ASSUME NEW k \in Nat, NEW t \in SUBSET (1..(k + 1)), k + 1 \in t
    PROVE  Max(t) = k + 1
  <1>1. \A y \in t : k + 1 >= y
    OBVIOUS
  <1>2. \A x \in t : (\A y \in t : x >= y) => x = k + 1
    OBVIOUS
  <1> QED
    BY <1>1, <1>2 DEF Max

LEMMA FoldIsFolded ==
    ASSUME NEW base, NEW S, NEW s \in Seq(S)
    PROVE  Fold(base, s) = Folded(base, s, Len(s))[1..Len(s)]
  <1>1. DOMAIN s = 1..Len(s)
    OBVIOUS
  <1> QED
    BY <1>1, Zenon DEF Fold, FoldLeft, MapThenFoldSet, Folded, IsPass, Pass

LEMMA PassExists ==
    ASSUME NEW base
    PROVE  \A k \in Nat : \A s : \E g : IsPass(base, g, s, k)
  <1> DEFINE T == {k \in Nat : \A s : \E g : IsPass(base, g, s, k)}
  <1>1. 0 \in T
    <2> SUFFICES ASSUME NEW s PROVE \E g : IsPass(base, g, s, 0)
      OBVIOUS
    <2> DEFINE g == [t \in SUBSET (1..0) |-> base]
    <2>1. IsPass(base, g, s, 0)
      BY DEF IsPass, Pass
    <2> QED
      BY <2>1
  <1>2. ASSUME NEW k \in T PROVE k + 1 \in T
    <2> SUFFICES ASSUME NEW s PROVE \E g : IsPass(base, g, s, k + 1)
      OBVIOUS
    <2>1. PICK g : IsPass(base, g, s, k)
      OBVIOUS
    <2> DEFINE h == [t \in SUBSET (1..(k + 1)) |->
                        IF k + 1 \in t THEN Op(g[t \ {k + 1}], s[k + 1])
                                       ELSE g[t]]
    <2>2. ASSUME NEW t \in SUBSET (1..(k + 1))
          PROVE  h[t] = Pass(base, h, s, t)
      <3>1. CASE k + 1 \in t
        <4>1. /\ t \ {k + 1} \in SUBSET (1..(k + 1))
              /\ k + 1 \notin t \ {k + 1}
          OBVIOUS
        <4>2. h[t \ {k + 1}] = g[t \ {k + 1}]
          BY <4>1
        <4> QED
          BY <3>1, <4>2, MaxIsLast DEF Pass
      <3>2. CASE k + 1 \notin t
        <4>1. t \in SUBSET (1..k)
          BY <3>2
        <4>2. h[t] = Pass(base, g, s, t)
          BY <2>1, <3>2, <4>1 DEF IsPass
        <4>3. /\ t \ {Max(t)} \in SUBSET (1..(k + 1))
              /\ k + 1 \notin t \ {Max(t)}
          BY <3>2
        <4>4. h[t \ {Max(t)}] = g[t \ {Max(t)}]
          BY <4>3
        <4> QED
          BY <4>2, <4>4 DEF Pass
      <3> QED
        BY <3>1, <3>2
    <2>3. IsPass(base, h, s, k + 1)
      <3> HIDE DEF h
      <3>1. h = [t \in SUBSET (1..(k + 1)) |-> h[t]]
        BY DEF h
      <3> QED
        BY <2>2, <3>1 DEF IsPass
    <2> QED
      BY <2>3
  <1>3. Nat \subseteq T
    <2> HIDE DEF T
    <2>1. \A n \in Nat : n \in T => n + 1 \in T
      BY <1>2
    <2> QED
      BY <1>1, <2>1, NatSetInduction
  <1> QED
    BY <1>3

LEMMA FoldedStep ==
    ASSUME NEW base, NEW n \in Nat, NEW s
    PROVE  /\ Folded(base, s, n)[1..0] = base
           /\ \A k \in 0..(n - 1) :
                 Folded(base, s, n)[1..(k + 1)] =
                    Op(Folded(base, s, n)[1..k], s[k + 1])
  <1> DEFINE f == Folded(base, s, n)
  <1>1. \A t \in SUBSET (1..n) : f[t] = Pass(base, f, s, t)
    <2>1. IsPass(base, f, s, n)
      BY PassExists DEF Folded
    <2> HIDE DEF f
    <2>2. f = [t \in SUBSET (1..n) |-> Pass(base, f, s, t)]
      BY <2>1 DEF IsPass
    <2> QED
      BY <2>2
  <1>2. f[1..0] = base
    <2>1. 1..0 = {} /\ 1..0 \in SUBSET (1..n)
      OBVIOUS
    <2> QED
      BY <1>1, <2>1 DEF Pass
  <1>3. ASSUME NEW k \in 0..(n - 1)
        PROVE  f[1..(k + 1)] = Op(f[1..k], s[k + 1])
    <2>1. /\ 1..(k + 1) \in SUBSET (1..n) /\ k + 1 \in 1..(k + 1)
          /\ (1..(k + 1)) \ {k + 1} = 1..k
          /\ 1..(k + 1) # {}
      OBVIOUS
    <2>2. Max(1..(k + 1)) = k + 1
      BY <2>1, MaxIsLast
    <2> HIDE DEF f
    <2> QED
      BY <1>1, <2>1, <2>2 DEF Pass
  <1> QED
    BY <1>2, <1>3

\* Nothing folds to the start value.
THEOREM FoldEmpty ==
    ASSUME NEW base
    PROVE  Fold(base, <<>>) = base
  <1>1. <<>> \in Seq({}) /\ Len(<<>>) = 0
    OBVIOUS
  <1>2. Fold(base, <<>>) = Folded(base, <<>>, 0)[1..0]
    BY <1>1, FoldIsFolded
  <1> QED
    BY <1>2, FoldedStep

\* One more element is one more application of the operation.
THEOREM FoldAppend ==
    ASSUME NEW base, NEW S, NEW s \in Seq(S), NEW x \in S
    PROVE  Fold(base, Append(s, x)) = Op(Fold(base, s), x)
  <1> DEFINE n == Len(s)
             a == Append(s, x)
             f == Folded(base, s, n)
             g == Folded(base, a, n + 1)
             T == {k \in Nat : k <= n => f[1..k] = g[1..k]}
  <1>1. /\ n \in Nat /\ a \in Seq(S) /\ Len(a) = n + 1
        /\ a[n + 1] = x /\ \A i \in 1..n : a[i] = s[i]
    OBVIOUS
  <1> HIDE DEF n, a
  <1>2. /\ g[1..0] = base
        /\ \A k \in 0..n : g[1..(k + 1)] = Op(g[1..k], a[k + 1])
    BY <1>1, FoldedStep
  <1>3. /\ f[1..0] = base
        /\ \A k \in 0..(n - 1) : f[1..(k + 1)] = Op(f[1..k], s[k + 1])
    BY <1>1, FoldedStep
  <1> HIDE DEF f, g
  <1>4. 0 \in T
    BY <1>2, <1>3
  <1>5. \A k \in Nat : k \in T => k + 1 \in T
    <2> SUFFICES ASSUME NEW k \in Nat, k \in T, k + 1 <= n
                 PROVE  f[1..(k + 1)] = g[1..(k + 1)]
      OBVIOUS
    <2>1. k \in 0..(n - 1) /\ k \in 0..n /\ k + 1 \in 1..n /\ k <= n
      BY <1>1
    <2>2. f[1..k] = g[1..k] /\ a[k + 1] = s[k + 1]
      BY <1>1, <2>1
    <2> QED
      BY <1>2, <1>3, <2>1, <2>2
  <1>6. f[1..n] = g[1..n]
    <2>1. Nat \subseteq T
      <3> HIDE DEF T
      <3> QED
        BY <1>4, <1>5, NatSetInduction
    <2> QED
      BY <1>1, <2>1
  <1>7. Fold(base, s) = f[1..n]
    BY FoldIsFolded DEF f, n
  <1>8. Fold(base, a) = g[1..(n + 1)]
    BY <1>1, FoldIsFolded DEF g
  <1>9. g[1..(n + 1)] = Op(g[1..n], x)
    BY <1>1, <1>2
  <1> QED
    BY <1>6, <1>7, <1>8, <1>9 DEF a

-----------------------------------------------------------------------------
(* FlattenSeq.                                                             *)

Join(g, ss, i) == IF i = 1 THEN ss[i] ELSE g[i - 1] \o ss[i]
IsJoin(g, ss, n) == g = [i \in 1..n |-> Join(g, ss, i)]
Joined(ss, n) == CHOOSE g : IsJoin(g, ss, n)

LEMMA JoinExists == \A n \in Nat : \A ss : \E g : IsJoin(g, ss, n)
  <1> DEFINE T == {n \in Nat : \A ss : \E g : IsJoin(g, ss, n)}
  <1>1. 0 \in T
    <2> SUFFICES ASSUME NEW ss PROVE \E g : IsJoin(g, ss, 0)
      OBVIOUS
    <2> DEFINE g == [i \in 1..0 |-> ss]
    <2>1. IsJoin(g, ss, 0)
      BY DEF IsJoin
    <2> QED
      BY <2>1
  <1>2. ASSUME NEW n \in T PROVE n + 1 \in T
    <2> SUFFICES ASSUME NEW ss PROVE \E g : IsJoin(g, ss, n + 1)
      OBVIOUS
    <2>1. PICK g : IsJoin(g, ss, n)
      OBVIOUS
    <2> DEFINE h == [i \in 1..(n + 1) |->
                        IF i = n + 1 THEN Join(g, ss, i) ELSE g[i]]
    <2>2. ASSUME NEW i \in 1..(n + 1)
          PROVE  h[i] = Join(h, ss, i)
      <3>1. h[i] = Join(g, ss, i)
        BY <2>1 DEF IsJoin
      <3>2. i # 1 => h[i - 1] = g[i - 1]
        OBVIOUS
      <3> QED
        BY <3>1, <3>2 DEF Join
    <2>3. IsJoin(h, ss, n + 1)
      <3> HIDE DEF h
      <3>1. h = [i \in 1..(n + 1) |-> h[i]]
        BY DEF h
      <3> QED
        BY <2>2, <3>1 DEF IsJoin
    <2> QED
      BY <2>3
  <1>3. Nat \subseteq T
    <2> HIDE DEF T
    <2>1. \A n \in Nat : n \in T => n + 1 \in T
      BY <1>2
    <2> QED
      BY <1>1, <2>1, NatSetInduction
  <1> QED
    BY <1>3

LEMMA JoinedStep ==
    ASSUME NEW n \in Nat, NEW ss, NEW i \in 1..n
    PROVE  Joined(ss, n)[i] = Join(Joined(ss, n), ss, i)
  <1>1. IsJoin(Joined(ss, n), ss, n)
    BY JoinExists DEF Joined
  <1> QED
    BY <1>1 DEF IsJoin

LEMMA FlattenIsJoined ==
    ASSUME NEW S, NEW ss \in Seq(S), ss # <<>>
    PROVE  FlattenSeq(ss) = Joined(ss, Len(ss))[Len(ss)]
  <1>1. Len(ss) # 0
    OBVIOUS
  <1> QED
    BY <1>1 DEF FlattenSeq, Joined, IsJoin, Join

THEOREM FlattenEmpty == FlattenSeq(<<>>) = <<>>
  <1>1. Len(<<>>) = 0
    OBVIOUS
  <1> QED
    BY <1>1 DEF FlattenSeq

\* One more sequence is appended to what the ones before it amount to.
THEOREM FlattenAppend ==
    ASSUME NEW S, NEW ss \in Seq(Seq(S)), NEW x \in Seq(S)
    PROVE  FlattenSeq(Append(ss, x)) = FlattenSeq(ss) \o x
  <1> DEFINE n == Len(ss)
             a == Append(ss, x)
             f == Joined(ss, n)
             g == Joined(a, n + 1)
             T == {k \in Nat : k \in 1..n => f[k] = g[k]}
  <1> DEFINE Q == Seq(S)
  <1>0. ss \in Seq(Q) /\ x \in Q
    OBVIOUS
  <1> HIDE DEF Q
  <1>1. /\ n \in Nat /\ a \in Seq(Q) /\ Len(a) = n + 1 /\ a # <<>>
        /\ a[n + 1] = x /\ \A i \in 1..n : a[i] = ss[i]
    BY <1>0
  <1>2. n = 0 <=> ss = <<>>
    BY <1>0
  <1> HIDE DEF n, a
  <1>3. \A i \in 1..(n + 1) : g[i] = Join(g, a, i)
    BY <1>1, JoinedStep
  <1>4. \A i \in 1..n : f[i] = Join(f, ss, i)
    BY <1>1, JoinedStep
  <1> HIDE DEF f, g
  <1>5. \A k \in Nat : k \in T => k + 1 \in T
    <2> SUFFICES ASSUME NEW k \in Nat, k \in T, k + 1 \in 1..n
                 PROVE  f[k + 1] = g[k + 1]
      OBVIOUS
    <2>1. k + 1 # 1 => f[k] = g[k]
      BY <1>1
    <2>2. a[k + 1] = ss[k + 1] /\ k + 1 \in 1..(n + 1)
      BY <1>1
    <2> QED
      BY <1>1, <1>3, <1>4, <2>1, <2>2 DEF Join
  <1>6. n # 0 => f[n] = g[n]
    <2>1. Nat \subseteq T
      <3>1. 0 \in T
        OBVIOUS
      <3> HIDE DEF T
      <3> QED
        BY <1>5, <3>1, NatSetInduction
    <2> QED
      BY <1>1, <2>1
  <1>7. FlattenSeq(a) = g[n + 1]
    BY <1>1, FlattenIsJoined DEF g
  <1>8. CASE n = 0
    <2>1. g[n + 1] = x
      BY <1>1, <1>3, <1>8 DEF Join
    <2>2. FlattenSeq(ss) = <<>>
      BY <1>2, <1>8, FlattenEmpty
    <2> QED
      BY <1>7, <2>1, <2>2 DEF a
  <1>9. CASE n # 0
    <2>1. FlattenSeq(ss) = f[n]
      BY <1>0, <1>2, <1>9, FlattenIsJoined DEF f, n
    <2>2. g[n + 1] = g[n] \o x
      <3>1. n + 1 \in 1..(n + 1) /\ n + 1 # 1 /\ (n + 1) - 1 = n
        BY <1>1, <1>9
      <3>2. g[n + 1] = Join(g, a, n + 1)
        BY <1>3, <3>1
      <3> QED
        BY <1>1, <3>1, <3>2 DEF Join
    <2> QED
      BY <1>6, <1>7, <1>9, <2>1, <2>2 DEF a
  <1> QED
    BY <1>8, <1>9
=============================================================================
