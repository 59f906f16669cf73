--------------------------- MODULE SseInfer_proofs --------------------------
(***************************************************************************)
(* Theorems about ContextBuilder and SseInfer, for all requests, sizes and *)
(* limits, and every way a provider's answer is cut into chunks.           *)
(***************************************************************************)
EXTENDS SseInfer, SequenceTheorems, TLAPS

Filing   == INSTANCE SequenceFolds WITH Op <- FileUnderKind
Placing  == INSTANCE SequenceFolds WITH Op <- Place
Counting == INSTANCE SequenceFolds WITH Op <- CountWhole
Showing  == INSTANCE SequenceFolds WITH Op <- ShowEvent
Telling  == INSTANCE SequenceFolds WITH Op <- TellEvent

NoFiles == [k \in ToSet(Kinds) |-> <<>>]

-----------------------------------------------------------------------------
(* Sequences and the sets of their elements.                               *)

LEMMA ToSetAppend ==
    ASSUME NEW S, NEW s \in Seq(S), NEW x \in S
    PROVE  ToSet(Append(s, x)) = ToSet(s) \cup {x}
  <1>1. /\ DOMAIN s = 1..Len(s) /\ Len(s) \in Nat
        /\ DOMAIN Append(s, x) = 1..(Len(s) + 1)
        /\ \A i \in 1..Len(s) : Append(s, x)[i] = s[i]
        /\ Append(s, x)[Len(s) + 1] = x
    OBVIOUS
  <1>2. \A y \in ToSet(Append(s, x)) : y \in ToSet(s) \cup {x}
    BY <1>1 DEF ToSet
  <1>3. \A y \in ToSet(s) \cup {x} : y \in ToSet(Append(s, x))
    BY <1>1 DEF ToSet
  <1> QED
    BY <1>2, <1>3

LEMMA ToSetType ==
    ASSUME NEW S, NEW s \in Seq(S)
    PROVE  ToSet(s) \in SUBSET S
  BY DEF ToSet

LEMMA ToSetEmpty == ToSet(<<>>) = {}
  BY DEF ToSet

LEMMA ConcatFacts ==
    ASSUME NEW S, NEW s \in Seq(S), NEW t \in Seq(S), NEW u, u = s \o t
    PROVE  /\ u \in Seq(S) /\ Len(u) = Len(s) + Len(t)
           /\ Len(s) \in Nat /\ Len(t) \in Nat
           /\ \A i \in 1..Len(s) : u[i] = s[i]
           /\ \A i \in 1..Len(t) : u[Len(s) + i] = t[i]
  <1>1. /\ s \o t \in Seq(S) /\ Len(s \o t) = Len(s) + Len(t)
        /\ Len(s) \in Nat /\ Len(t) \in Nat
    OBVIOUS
  <1>2. \A i \in 1..Len(s) : (s \o t)[i] = s[i]
    OBVIOUS
  <1>3. \A i \in 1..Len(t) : (s \o t)[Len(s) + i] = t[i]
    OBVIOUS
  <1> QED
    BY <1>1, <1>2, <1>3

-----------------------------------------------------------------------------
(* The context builder: sections and their order.                          *)

KindNames == ToSet(Kinds)
Pieces(From) == [kind : KindNames, from : From, tokens : Nat, whole : BOOLEAN]
Offers(From) == {s \in Pieces(From) : s.whole}

Sorted(sections) ==
    \A i, j \in DOMAIN sections :
        i < j => Rank(sections[i]) <= Rank(sections[j])

LEMMA KindFacts ==
    /\ DOMAIN Kinds = 1..6 /\ Len(Kinds) = 6
    /\ \A i, j \in 1..6 : Kinds[i] = Kinds[j] => i = j
    /\ \A i \in 1..6 : Kinds[i] \in KindNames
    /\ \A k \in KindNames : \E i \in 1..6 : Kinds[i] = k
  BY DEF Kinds, KindNames, ToSet

LEMMA RankOfKind ==
    ASSUME NEW i \in 1..6, NEW s, s.kind = Kinds[i]
    PROVE  Rank(s) = i
  BY KindFacts DEF Rank

LEMMA SameKindSameRank ==
    ASSUME NEW s, NEW t, s.kind = t.kind
    PROVE  Rank(s) = Rank(t)
  BY DEF Rank

LEMMA FoldsOfTheBuilder ==
    \A s : /\ ByKind(s) = Filing!Fold(NoFiles, s)
           /\ TokensOfWhole(s) = Counting!Fold(0, s)
           /\ Build(s) = Placing!Fold(NothingBuilt, ByPriority(s)).result
  <1>1. \A s : ByKind(s) = Filing!Fold(NoFiles, s)
    BY DEF ByKind, NoFiles, Filing!Fold, FoldLeft, Filing!FoldLeft,
           MapThenFoldSet, Filing!MapThenFoldSet, Max, Filing!Max, ToSet, Filing!ToSet
  <1>2. \A s : TokensOfWhole(s) = Counting!Fold(0, s)
    BY DEF TokensOfWhole, Counting!Fold, FoldLeft, Counting!FoldLeft,
           MapThenFoldSet, Counting!MapThenFoldSet, Max, Counting!Max
  <1>3. \A s : Build(s) = Placing!Fold(NothingBuilt, ByPriority(s)).result
    BY DEF Build, Placing!Fold, FoldLeft, Placing!FoldLeft, MapThenFoldSet,
           Placing!MapThenFoldSet, Max, Placing!Max
  <1> QED
    BY <1>1, <1>2, <1>3

LEMMA FlattenPieces ==
    /\ FlattenSeq(<<>>) = <<>>
    /\ \A S : \A ss \in Seq(Seq(S)), x \in Seq(S) :
          FlattenSeq(Append(ss, x)) = FlattenSeq(ss) \o x
  <1>1. \A ss : FlattenSeq(ss) = Filing!FlattenSeq(ss)
    BY DEF FlattenSeq, Filing!FlattenSeq
  <1>2. FlattenSeq(<<>>) = <<>>
    BY <1>1, Filing!FlattenEmpty
  <1>3. ASSUME NEW S, NEW ss \in Seq(Seq(S)), NEW x \in Seq(S)
        PROVE  FlattenSeq(Append(ss, x)) = FlattenSeq(ss) \o x
    <2>1. Filing!FlattenSeq(Append(ss, x)) = Filing!FlattenSeq(ss) \o x
      BY Filing!FlattenAppend
    <2> QED
      BY <1>1, <2>1
  <1> QED
    BY <1>2, <1>3

\* Sections are filed under their kinds, each once.
LEMMA FiledByKind ==
    ASSUME NEW From, NEW sections \in Seq(Offers(From))
    PROVE  LET files == ByKind(sections)
           IN  /\ files \in [KindNames -> Seq(Offers(From))]
               /\ \A k \in KindNames : \A i \in DOMAIN files[k] :
                     files[k][i].kind = k
               /\ \A s \in ToSet(sections) : s \in ToSet(files[s.kind])
               /\ \A k \in KindNames : ToSet(files[k]) \subseteq ToSet(sections)
  <1> DEFINE Filed(ss) ==
                LET files == Filing!Fold(NoFiles, ss)
                IN  /\ files \in [KindNames -> Seq(Offers(From))]
                    /\ \A k \in KindNames : \A i \in DOMAIN files[k] :
                          files[k][i].kind = k
                    /\ \A s \in ToSet(ss) : s \in ToSet(files[s.kind])
                    /\ \A k \in KindNames : ToSet(files[k]) \subseteq ToSet(ss)
             T == {ss \in Seq(Offers(From)) : Filed(ss)}
  <1>1. <<>> \in T
    <2>1. Filing!Fold(NoFiles, <<>>) = [k \in KindNames |-> <<>>]
      BY Filing!FoldEmpty DEF KindNames, NoFiles
    <2>2. DOMAIN <<>> = {} /\ <<>> \in Seq(Offers(From))
      OBVIOUS
    <2> QED
      BY <2>1, <2>2, ToSetEmpty
  <1>2. ASSUME NEW ss \in Seq(Offers(From)), NEW x \in Offers(From), ss \in T
        PROVE  Append(ss, x) \in T
    <2> DEFINE a == Append(ss, x)
               f == Filing!Fold(NoFiles, ss)
               g == Filing!Fold(NoFiles, a)
    <2>1. g = [f EXCEPT ![x.kind] = Append(f[x.kind], x)]
      BY Filing!FoldAppend DEF FileUnderKind
    <2>2. /\ Filed(ss)
          /\ x.kind \in KindNames
      BY <1>2 DEF Offers, Pieces
    <2> HIDE DEF f, g
    <2>3. f \in [KindNames -> Seq(Offers(From))]
      BY <2>2 DEF f
    <2>4. g \in [KindNames -> Seq(Offers(From))]
      BY <2>1, <2>2, <2>3
    <2>5. /\ \A k \in KindNames \ {x.kind} : g[k] = f[k]
          /\ g[x.kind] = Append(f[x.kind], x)
      BY <2>1, <2>2, <2>3
    <2>6. /\ ToSet(a) = ToSet(ss) \cup {x}
          /\ ToSet(Append(f[x.kind], x)) = ToSet(f[x.kind]) \cup {x}
      <3>1. f[x.kind] \in Seq(Offers(From))
        BY <2>2, <2>3
      <3> QED
        BY <3>1, ToSetAppend
    <2>7. ASSUME NEW k \in KindNames, NEW i \in DOMAIN g[k]
          PROVE  g[k][i].kind = k
      <3>1. CASE k # x.kind
        BY <2>2, <2>5, <3>1 DEF f
      <3>2. CASE k = x.kind
        <4>1. /\ f[k] \in Seq(Offers(From))
              /\ \A j \in DOMAIN f[k] : f[k][j].kind = k
          BY <2>2, <2>3 DEF f
        <4>2. i \in 1..(Len(f[k]) + 1)
          BY <2>5, <3>2, <4>1
        <4> QED
          BY <2>5, <3>2, <4>1, <4>2
      <3> QED
        BY <3>1, <3>2
    <2>8. ASSUME NEW s \in ToSet(a)
          PROVE  s \in ToSet(g[s.kind])
      <3>1. \A t \in ToSet(ss) : t \in ToSet(f[t.kind]) /\ t.kind \in KindNames
        <4>1. ToSet(ss) \subseteq Offers(From)
          BY ToSetType
        <4>2. \A t \in Offers(From) : t.kind \in KindNames
          BY DEF Offers, Pieces
        <4> QED
          BY <2>2, <4>1, <4>2 DEF f
      <3> QED
        BY <2>2, <2>5, <2>6, <3>1
    <2>9. ASSUME NEW k \in KindNames
          PROVE  ToSet(g[k]) \subseteq ToSet(a)
      <3>1. ToSet(f[k]) \subseteq ToSet(ss)
        BY <2>2 DEF f
      <3> QED
        BY <2>5, <2>6, <3>1
    <2>10. Filed(a)
      BY <2>4, <2>7, <2>8, <2>9 DEF g
    <2> QED
      BY <2>10
  <1>3. Seq(Offers(From)) \subseteq T
    <2> HIDE DEF T
    <2> QED
      BY <1>1, <1>2, Filing!SeqSetInduction
  <1> QED
    BY <1>3, FoldsOfTheBuilder

\* ByPriority is a stable sort: what was offered, and sorted.
LEMMA OrderedByPriority ==
    ASSUME NEW From, NEW sections \in Seq(Offers(From))
    PROVE  LET ordered == ByPriority(sections)
           IN  /\ ordered \in Seq(Offers(From))
               /\ ToSet(ordered) = ToSet(sections)
               /\ Sorted(ordered)
  <1> DEFINE S == Offers(From)
             files == ByKind(sections)
             head(n) == [i \in 1..n |-> files[Kinds[i]]]
             flat(n) == FlattenSeq(head(n))
             Ordered(n) ==
                /\ flat(n) \in Seq(S)
                /\ \A s : s \in ToSet(flat(n)) <=>
                            \E i \in 1..n : s \in ToSet(files[Kinds[i]])
                /\ \A i \in DOMAIN flat(n) : Rank(flat(n)[i]) \in 1..n
                /\ Sorted(flat(n))
             T == {n \in Nat : n <= 6 => Ordered(n)}
  <1>1. /\ files \in [KindNames -> Seq(S)]
        /\ \A k \in KindNames : \A i \in DOMAIN files[k] : files[k][i].kind = k
        /\ \A s \in ToSet(sections) : s \in ToSet(files[s.kind])
        /\ \A k \in KindNames : ToSet(files[k]) \subseteq ToSet(sections)
    BY FiledByKind
  <1> HIDE DEF S, files
  <1>2. 0 \in T
    <2>1. head(0) = <<>>
      OBVIOUS
    <2>2. flat(0) = <<>>
      BY <2>1, FlattenPieces
    <2> HIDE DEF flat
    <2>3. <<>> \in Seq(S) /\ DOMAIN <<>> = {} /\ 1..0 = {}
      OBVIOUS
    <2>4. Sorted(<<>>)
      BY <2>3 DEF Sorted
    <2> QED
      BY <2>2, <2>3, <2>4, ToSetEmpty
  <1>3. ASSUME NEW n \in Nat, n \in T PROVE n + 1 \in T
    <2> SUFFICES ASSUME n + 1 <= 6 PROVE Ordered(n + 1)
      OBVIOUS
    <2> DEFINE x == files[Kinds[n + 1]]
    <2>1. /\ Kinds[n + 1] \in KindNames /\ n + 1 \in 1..6
          /\ \A i \in 1..n : Kinds[i] \in KindNames
      BY KindFacts
    <2>2. x \in Seq(S) /\ \A i \in DOMAIN x : x[i].kind = Kinds[n + 1]
      BY <1>1, <2>1
    <2>3. flat(n + 1) = flat(n) \o x
      <3> DEFINE Q == Seq(S)
      <3>1. \A i \in 1..n : files[Kinds[i]] \in Q
        BY <1>1, <2>1
      <3>2. x \in Q
        BY <2>2
      <3> HIDE DEF x, Q
      <3>3. head(n) \in Seq(Q)
        BY <3>1
      <3>4. head(n + 1) = Append(head(n), x)
        <4>1. Len(head(n)) = n
          OBVIOUS
        <4> QED
          BY <3>3, <4>1 DEF x
      <3> HIDE DEF head
      <3> QED
        BY <3>2, <3>3, <3>4, FlattenPieces DEF Q
    <2>4. Ordered(n)
      BY <1>3
    <2> HIDE DEF flat, x
    <2>5. \A i \in DOMAIN x : Rank(x[i]) = n + 1
      BY <2>1, <2>2, RankOfKind
    <2>6. /\ flat(n) \in Seq(S) /\ flat(n + 1) \in Seq(S)
          /\ Len(flat(n + 1)) = Len(flat(n)) + Len(x)
          /\ \A i \in 1..Len(flat(n)) : flat(n + 1)[i] = flat(n)[i]
          /\ \A i \in 1..Len(x) : flat(n + 1)[Len(flat(n)) + i] = x[i]
      <3>1. flat(n) \in Seq(S) /\ x \in Seq(S)
        BY <2>2, <2>4
      <3> DEFINE p == flat(n)
                 q == flat(n + 1)
      <3>2. q = p \o x /\ p \in Seq(S)
        BY <2>3, <3>1
      <3> HIDE DEF p, q
      <3>3. /\ q \in Seq(S) /\ Len(q) = Len(p) + Len(x)
            /\ \A i \in 1..Len(p) : q[i] = p[i]
            /\ \A i \in 1..Len(x) : q[Len(p) + i] = x[i]
        BY <3>1, <3>2, ConcatFacts
      <3> QED
        BY <3>1, <3>3 DEF p, q
    <2>7. ASSUME NEW i \in DOMAIN flat(n + 1)
          PROVE  \/ /\ i \in DOMAIN flat(n)
                    /\ flat(n + 1)[i] = flat(n)[i]
                 \/ /\ i - Len(flat(n)) \in DOMAIN x
                    /\ flat(n + 1)[i] = x[i - Len(flat(n))]
      <3>1. i \in 1..(Len(flat(n)) + Len(x))
        BY <2>6
      <3>2. CASE i <= Len(flat(n))
        BY <2>6, <3>1, <3>2
      <3>3. CASE i > Len(flat(n))
        <4>1. i - Len(flat(n)) \in 1..Len(x)
          BY <2>2, <2>6, <3>1, <3>3
        <4> QED
          BY <2>2, <2>6, <4>1
      <3> QED
        BY <2>6, <3>1, <3>2, <3>3
    <2>8. \A i \in DOMAIN flat(n + 1) : Rank(flat(n + 1)[i]) \in 1..(n + 1)
      BY <2>4, <2>5, <2>7
    <2>9. Sorted(flat(n + 1))
      <3> SUFFICES ASSUME NEW i \in DOMAIN flat(n + 1),
                          NEW j \in DOMAIN flat(n + 1), i < j
                   PROVE  Rank(flat(n + 1)[i]) <= Rank(flat(n + 1)[j])
        BY DEF Sorted
      <3>1. CASE j \in DOMAIN flat(n)
        <4>1. i \in 1..Len(flat(n)) /\ j \in 1..Len(flat(n))
          BY <2>6, <3>1
        <4>2. Rank(flat(n)[i]) <= Rank(flat(n)[j])
          BY <2>4, <2>6, <4>1 DEF Sorted
        <4> QED
          BY <2>6, <4>1, <4>2
      <3>2. CASE j \notin DOMAIN flat(n)
        <4>1. Rank(flat(n + 1)[j]) = n + 1
          BY <2>5, <2>7, <3>2
        <4> QED
          BY <2>8, <4>1
      <3> QED
        BY <3>1, <3>2
    <2>10. ASSUME NEW s
           PROVE  s \in ToSet(flat(n + 1)) <=>
                    s \in ToSet(flat(n)) \/ s \in ToSet(x)
      <3>1. s \in ToSet(flat(n + 1)) => s \in ToSet(flat(n)) \/ s \in ToSet(x)
        BY <2>7 DEF ToSet
      <3>2. s \in ToSet(flat(n)) => s \in ToSet(flat(n + 1))
        BY <2>6 DEF ToSet
      <3>3. s \in ToSet(x) => s \in ToSet(flat(n + 1))
        <4> SUFFICES ASSUME NEW i \in 1..Len(x)
                     PROVE  x[i] \in ToSet(flat(n + 1))
          BY <2>2 DEF ToSet
        <4>1. Len(flat(n)) + i \in DOMAIN flat(n + 1)
          BY <2>2, <2>6
        <4> QED
          BY <2>6, <4>1 DEF ToSet
      <3> QED
        BY <3>1, <3>2, <3>3
    <2>11. \A s : s \in ToSet(flat(n + 1)) <=>
                    \E i \in 1..(n + 1) : s \in ToSet(files[Kinds[i]])
      <3>1. \A s : s \in ToSet(flat(n)) <=>
                    \E i \in 1..n : s \in ToSet(files[Kinds[i]])
        BY <2>4
      <3> QED
        BY <2>10, <3>1 DEF x
    <2> QED
      BY <2>6, <2>8, <2>9, <2>11
  <1>4. Ordered(6)
    <2>1. Nat \subseteq T
      <3> HIDE DEF T
      <3> QED
        BY <1>2, <1>3, Filing!NatSetInduction
    <2> HIDE DEF Ordered
    <2> QED
      BY <2>1
  <1>5. ByPriority(sections) = flat(6)
    BY KindFacts DEF ByPriority, files
  <1>6. ToSet(flat(6)) = ToSet(sections)
    <2> HIDE DEF flat
    <2>1. ASSUME NEW s \in ToSet(flat(6)) PROVE s \in ToSet(sections)
      BY <1>1, <1>4, KindFacts
    <2>2. ASSUME NEW s \in ToSet(sections) PROVE s \in ToSet(flat(6))
      <3>1. s.kind \in KindNames
        BY ToSetType DEF Offers, Pieces, S
      <3>2. PICK i \in 1..6 : Kinds[i] = s.kind
        BY <3>1, KindFacts
      <3>3. s \in ToSet(files[Kinds[i]])
        BY <1>1, <3>2
      <3> QED
        BY <1>4, <3>3
    <2> QED
      BY <2>1, <2>2
  <1> QED
    <2> HIDE DEF flat
    <2> QED
      BY <1>4, <1>5, <1>6 DEF S

\* Every section fits into what the whole ones before it left.
Fitting(sections) ==
    \A i \in DOMAIN sections :
        Counting!Fold(0, SubSeq(sections, 1, i - 1)) + sections[i].tokens
            <= Window

LEMMA AppendFitting ==
    ASSUME NEW S, NEW s \in Seq(S), NEW x \in S, Fitting(s),
           Counting!Fold(0, s) + x.tokens <= Window
    PROVE  Fitting(Append(s, x))
  <1> DEFINE a == Append(s, x)
             n == Len(s)
  <1>1. /\ n \in Nat /\ DOMAIN a = 1..(n + 1) /\ DOMAIN s = 1..n
        /\ a[n + 1] = x /\ \A i \in 1..n : a[i] = s[i]
    OBVIOUS
  <1>2. /\ SubSeq(s, 1, n) = s
        /\ \A m \in 0..n : SubSeq(a, 1, m) = SubSeq(s, 1, m)
    BY Counting!PrefixesOfAppend
  <1> HIDE DEF a, n
  <1>3. ASSUME NEW i \in 1..(n + 1)
        PROVE  Counting!Fold(0, SubSeq(a, 1, i - 1)) + a[i].tokens <= Window
    <2>1. CASE i = n + 1
      <3>1. i - 1 = n /\ SubSeq(a, 1, n) = s
        BY <1>1, <1>2, <2>1
      <3> QED
        BY <1>1, <2>1, <3>1
    <2>2. CASE i \in 1..n
      <3>1. SubSeq(a, 1, i - 1) = SubSeq(s, 1, i - 1)
        BY <1>1, <1>2, <2>2
      <3> QED
        BY <1>1, <2>2, <3>1 DEF Fitting
    <2> QED
      BY <1>1, <2>1, <2>2
  <1> QED
    BY <1>1, <1>3 DEF Fitting, a

\* What Place keeps about the sections placed so far, b, and those that went
\* through it, p.
Placed(From, b, p) ==
    /\ b = [used |-> b.used, result |-> b.result]
    /\ b.used \in 0..Window
    /\ b.result \in Seq(Pieces(From))
    /\ Counting!Fold(0, b.result) = b.used
    /\ Fitting(b.result)
    /\ \A s \in ToSet(p) : s \notin ToSet(b.result) => b.used + s.tokens > Window
    /\ \A i \in DOMAIN b.result : \E j \in DOMAIN p : b.result[i].kind = p[j].kind
    /\ Sorted(p) => Sorted(b.result)

LEMMA AppendSorted ==
    ASSUME NEW S, NEW s \in Seq(S), NEW x \in S, Sorted(s),
           \A i \in DOMAIN s : Rank(s[i]) <= Rank(x)
    PROVE  Sorted(Append(s, x))
  <1> SUFFICES ASSUME NEW i \in DOMAIN Append(s, x),
                      NEW j \in DOMAIN Append(s, x), i < j
               PROVE  Rank(Append(s, x)[i]) <= Rank(Append(s, x)[j])
    BY DEF Sorted
  <1>1. /\ Len(s) \in Nat /\ DOMAIN s = 1..Len(s)
        /\ DOMAIN Append(s, x) = 1..(Len(s) + 1)
        /\ \A k \in 1..Len(s) : Append(s, x)[k] = s[k]
        /\ Append(s, x)[Len(s) + 1] = x
    OBVIOUS
  <1>2. i \in 1..Len(s) /\ (j \in 1..Len(s) \/ j = Len(s) + 1)
    BY <1>1
  <1> QED
    BY <1>1, <1>2 DEF Sorted

LEMMA SortedPrefix ==
    ASSUME NEW S, NEW s \in Seq(S), NEW x \in S, Sorted(Append(s, x))
    PROVE  Sorted(s) /\ \A i \in DOMAIN s : Rank(s[i]) <= Rank(x)
  <1>1. /\ Len(s) \in Nat /\ DOMAIN s = 1..Len(s)
        /\ DOMAIN Append(s, x) = 1..(Len(s) + 1)
        /\ \A k \in 1..Len(s) : Append(s, x)[k] = s[k]
        /\ Append(s, x)[Len(s) + 1] = x
    OBVIOUS
  <1>2. Sorted(s)
    BY <1>1 DEF Sorted
  <1>3. ASSUME NEW i \in DOMAIN s PROVE Rank(s[i]) <= Rank(x)
    <2>1. i < Len(s) + 1 /\ i \in 1..(Len(s) + 1)
      BY <1>1
    <2> QED
      BY <1>1, <2>1 DEF Sorted
  <1> QED
    BY <1>2, <1>3

\* One turn of the loop keeps it.
LEMMA PlaceOne ==
    ASSUME NEW From, NEW b, NEW p \in Seq(Offers(From)), NEW x \in Offers(From),
           Placed(From, b, p)
    PROVE  Placed(From, Place(b, x), Append(p, x))
  <1> DEFINE a == Append(p, x)
             rest == Window - b.used
             cut == Cut(x, rest)
             fits == b.used + x.tokens <= Window
             skip == ~fits /\ (x.kind = "system" \/ b.used >= Window)
  <1>1. /\ x \in Pieces(From) /\ x.whole = TRUE /\ x.tokens \in Nat
        /\ x.kind \in KindNames
    BY DEF Offers, Pieces
  <1>2. b.used \in Nat /\ b.used <= Window /\ Window \in Nat
    BY WindowAssumption DEF Placed
  <1>3. /\ DOMAIN p = 1..Len(p) /\ Len(p) \in Nat
        /\ DOMAIN a = 1..(Len(p) + 1)
        /\ \A i \in 1..Len(p) : a[i] = p[i]
        /\ a[Len(p) + 1] = x
        /\ ToSet(a) = ToSet(p) \cup {x}
    BY ToSetAppend
  <1>4. ASSUME NEW y \in Pieces(From), y.kind = x.kind,
               b.used + y.tokens <= Window
        PROVE  LET r == Append(b.result, y)
               IN  /\ r \in Seq(Pieces(From))
                   /\ ToSet(r) = ToSet(b.result) \cup {y}
                   /\ Counting!Fold(0, r) = CountWhole(b.used, y)
                   /\ Fitting(r)
                   /\ \A i \in DOMAIN r : \E j \in DOMAIN a : r[i].kind = a[j].kind
                   /\ Sorted(a) => Sorted(r)
    <2> DEFINE r == Append(b.result, y)
    <2>1. b.result \in Seq(Pieces(From)) /\ Counting!Fold(0, b.result) = b.used
      BY DEF Placed
    <2>2. /\ r \in Seq(Pieces(From))
          /\ ToSet(r) = ToSet(b.result) \cup {y}
          /\ Counting!Fold(0, r) = CountWhole(b.used, y)
      <3>1. Counting!Fold(0, r) = CountWhole(Counting!Fold(0, b.result), y)
        BY <2>1, Counting!FoldAppend
      <3> QED
        BY <2>1, <3>1, ToSetAppend
    <2>3. /\ DOMAIN b.result = 1..Len(b.result) /\ Len(b.result) \in Nat
          /\ DOMAIN r = 1..(Len(b.result) + 1)
          /\ \A i \in 1..Len(b.result) : r[i] = b.result[i]
          /\ r[Len(b.result) + 1] = y
      BY <2>1
    <2>6. Fitting(r)
      <3>1. Fitting(b.result)
        BY DEF Placed
      <3> QED
        BY <1>4, <2>1, <3>1, AppendFitting
    <2> HIDE DEF r
    <2>4. ASSUME NEW i \in DOMAIN r
          PROVE  \E j \in DOMAIN a : r[i].kind = a[j].kind
      <3>1. CASE i \in DOMAIN b.result
        <4>1. PICK j \in DOMAIN p : b.result[i].kind = p[j].kind
          BY <3>1 DEF Placed
        <4> QED
          BY <1>3, <2>3, <3>1, <4>1
      <3>2. CASE i = Len(b.result) + 1
        BY <1>3, <1>4, <2>3, <3>2
      <3> QED
        BY <2>3, <3>1, <3>2
    <2>5. Sorted(a) => Sorted(r)
      <3> SUFFICES ASSUME Sorted(a) PROVE Sorted(r)
        OBVIOUS
      <3>1. Sorted(p) /\ \A i \in DOMAIN p : Rank(p[i]) <= Rank(x)
        BY SortedPrefix
      <3>2. Rank(y) = Rank(x)
        BY <1>4, SameKindSameRank
      <3>3. ASSUME NEW i \in DOMAIN b.result
            PROVE  Rank(b.result[i]) <= Rank(y)
        <4>1. PICK j \in DOMAIN p : b.result[i].kind = p[j].kind
          BY DEF Placed
        <4> QED
          BY <3>1, <3>2, <4>1, SameKindSameRank
      <3>4. Sorted(b.result)
        BY <3>1 DEF Placed
      <3> QED
        BY <2>1, <3>2, <3>3, <3>4, AppendSorted DEF r
    <2> QED
      BY <2>2, <2>4, <2>5, <2>6 DEF r
  <1>5. CASE fits
    <2> DEFINE c == [used |-> b.used + x.tokens, result |-> Append(b.result, x)]
    <2>1. Place(b, x) = c
      BY <1>1, <1>2, <1>5 DEF Place
    <2>2. /\ c.result \in Seq(Pieces(From))
          /\ ToSet(c.result) = ToSet(b.result) \cup {x}
          /\ Counting!Fold(0, c.result) = c.used
          /\ Fitting(c.result)
          /\ \A i \in DOMAIN c.result :
                \E j \in DOMAIN a : c.result[i].kind = a[j].kind
          /\ Sorted(a) => Sorted(c.result)
      BY <1>1, <1>4, <1>5 DEF CountWhole
    <2>3. c = [used |-> c.used, result |-> c.result] /\ c.used \in 0..Window
      BY <1>1, <1>2, <1>5
    <2>4. ASSUME NEW s \in ToSet(a), s \notin ToSet(c.result)
          PROVE  c.used + s.tokens > Window
      <3>1. s \in ToSet(p) /\ s \notin ToSet(b.result)
        BY <1>3, <2>2, <2>4
      <3>2. b.used + s.tokens > Window
        BY <3>1 DEF Placed
      <3>3. s.tokens \in Nat
        BY <3>1, ToSetType DEF Offers, Pieces
      <3> QED
        BY <1>1, <1>2, <3>2, <3>3
    <2> HIDE DEF c
    <2> QED
      BY <2>1, <2>2, <2>3, <2>4 DEF Placed
  <1>6. CASE skip
    <2>1. Place(b, x) = b
      BY <1>1, <1>2, <1>6 DEF Place
    <2>2. \A i \in DOMAIN b.result :
             \E j \in DOMAIN a : b.result[i].kind = a[j].kind
      BY <1>3 DEF Placed
    <2>3. Sorted(a) => Sorted(b.result)
      BY SortedPrefix DEF Placed
    <2>4. \A s \in ToSet(a) :
             s \notin ToSet(b.result) => b.used + s.tokens > Window
      BY <1>1, <1>2, <1>3, <1>6 DEF Placed
    <2> QED
      BY <2>1, <2>2, <2>3, <2>4 DEF Placed
  <1>7. CASE ~fits /\ ~skip
    <2> DEFINE c == [used |-> b.used, result |-> Append(b.result, cut)]
    <2>1. Place(b, x) = c
      BY <1>1, <1>2, <1>7 DEF Place
    <2>2. /\ c.used = b.used /\ c.result = Append(b.result, cut)
          /\ c = [used |-> c.used, result |-> c.result]
      OBVIOUS
    <2>3. /\ cut \in Pieces(From) /\ cut.kind = x.kind /\ ~cut.whole
          /\ b.used + cut.tokens <= Window
      <3>1. rest \in Nat
        BY <1>1, <1>2, <1>7
      <3>2. b.used + rest = Window
        BY <1>2
      <3> HIDE DEF rest
      <3>3. cut \in Pieces(From) /\ cut.kind = x.kind /\ ~cut.whole
        BY <1>1, <3>1 DEF Pieces, Cut
      <3>4. cut.tokens = rest
        BY DEF Cut
      <3> QED
        BY <1>2, <3>1, <3>2, <3>3, <3>4
    <2> HIDE DEF c, cut
    <2>4. /\ c.used = b.used
          /\ c.result \in Seq(Pieces(From))
          /\ ToSet(c.result) = ToSet(b.result) \cup {cut}
          /\ Counting!Fold(0, c.result) = c.used
          /\ Fitting(c.result)
          /\ \A i \in DOMAIN c.result :
                \E j \in DOMAIN a : c.result[i].kind = a[j].kind
          /\ Sorted(a) => Sorted(c.result)
      <3>1. CountWhole(b.used, cut) = b.used
        BY <2>3 DEF CountWhole
      <3> HIDE DEF a
      <3>2. /\ c.result \in Seq(Pieces(From))
            /\ ToSet(c.result) = ToSet(b.result) \cup {cut}
            /\ Counting!Fold(0, c.result) = CountWhole(b.used, cut)
            /\ Fitting(c.result)
            /\ Sorted(a) => Sorted(c.result)
        BY <1>4, <2>2, <2>3
      <3>3. \A i \in DOMAIN c.result :
                \E j \in DOMAIN a : c.result[i].kind = a[j].kind
        BY <1>4, <2>2, <2>3
      <3> QED
        BY <2>2, <3>1, <3>2, <3>3
    <2>5. \A s \in ToSet(a) :
             s \notin ToSet(c.result) => c.used + s.tokens > Window
      BY <1>1, <1>2, <1>3, <1>7, <2>4 DEF Placed
    <2> QED
      BY <1>2, <2>1, <2>2, <2>4, <2>5 DEF Placed
  <1> QED
    BY <1>5, <1>6, <1>7

\* Whatever sections are offered, what build makes of them is well built.
THEOREM BuildsWell ==
    ASSUME NEW From, NEW sections \in Seq(Offers(From))
    PROVE  WellBuilt(Build(sections), sections)
  <1> DEFINE T == {p \in Seq(Offers(From)) :
                       Placed(From, Placing!Fold(NothingBuilt, p), p)}
             ordered == ByPriority(sections)
             b == Placing!Fold(NothingBuilt, ordered)
  <1>1. <<>> \in T
    <2>1. Placing!Fold(NothingBuilt, <<>>) = NothingBuilt
      BY Placing!FoldEmpty
    <2>2. Counting!Fold(0, <<>>) = 0
      BY Counting!FoldEmpty
    <2>3. /\ <<>> \in Seq(Offers(From)) /\ <<>> \in Seq(Pieces(From))
          /\ DOMAIN <<>> = {}
      OBVIOUS
    <2>4. Sorted(<<>>) /\ Fitting(<<>>)
      BY <2>3 DEF Sorted, Fitting
    <2>5. NothingBuilt.used = 0 /\ NothingBuilt.result = <<>>
          /\ NothingBuilt = [used |-> 0, result |-> <<>>]
      BY DEF NothingBuilt
    <2>6. Placed(From, NothingBuilt, <<>>)
      BY <2>2, <2>3, <2>4, <2>5, ToSetEmpty, WindowAssumption DEF Placed
    <2> QED
      BY <2>1, <2>3, <2>6
  <1>2. \A p \in Seq(Offers(From)), x \in Offers(From) :
           p \in T => Append(p, x) \in T
    <2> SUFFICES ASSUME NEW p \in Seq(Offers(From)), NEW x \in Offers(From),
                        Placed(From, Placing!Fold(NothingBuilt, p), p)
                 PROVE  Append(p, x) \in T
      OBVIOUS
    <2>1. Placing!Fold(NothingBuilt, Append(p, x)) =
             Place(Placing!Fold(NothingBuilt, p), x)
      BY Placing!FoldAppend
    <2> QED
      BY <2>1, PlaceOne
  <1>3. Seq(Offers(From)) \subseteq T
    <2> HIDE DEF T
    <2> QED
      BY <1>1, <1>2, Placing!SeqSetInduction
  <1>4. /\ ordered \in Seq(Offers(From)) /\ ToSet(ordered) = ToSet(sections)
        /\ Sorted(ordered)
    BY OrderedByPriority
  <1>5. Placed(From, b, ordered)
    BY <1>3, <1>4
  <1>6. /\ Build(sections) = b.result
        /\ \A s : TokensOfWhole(s) = Counting!Fold(0, s)
    BY FoldsOfTheBuilder
  <1> HIDE DEF b, ordered
  <1> QED
    BY <1>4, <1>5, <1>6 DEF Placed, WellBuilt, Sorted, Fitting

-----------------------------------------------------------------------------
(* The inductive invariant of the route.                                   *)

Lines == [delta : 0..MaxDeltas, finish : BOOLEAN]
Tokens == {Token(n) : n \in Positions}
Messages ==
    [role : {"user", "assistant"}, by : Requests,
     text : SeqUpTo(Positions, MaxDeltas), tokens : Nat]

SseTypes ==
    /\ messages \in Seq(Messages)
    /\ pc       \in [Requests -> Labels]
    /\ size     \in [Requests -> Sizes \cup {0}]
    /\ found    \in [Requests -> Seq(Memories)]
    /\ history  \in [Requests -> Seq(Messages)]
    /\ context  = [r \in Requests |-> context[r]]
    /\ provider \in [Requests -> Seq(Lines)]
    /\ events   \in [Requests -> Seq(Tokens \cup {Done})]
    /\ full     \in [Requests -> Seq(Positions)]
    /\ sent     \in [Requests -> Seq(Tokens \cup {Done, ErrorEvent})]

\* What comes in order: the positions of an answer ascend, and nothing but
\* further ends follows an end.
LinesInOrder(lines) ==
    \A i, j \in DOMAIN lines : i < j =>
        /\ lines[i].finish => lines[j].delta = 0
        /\ lines[j].delta # 0 => lines[i].delta < lines[j].delta
EventsInOrder(es) ==
    \A i, j \in DOMAIN es : i < j =>
        /\ es[i] = Done => es[j] = Done
        /\ es[j] # Done => es[i][2] < es[j][2]
After(n, es, lines) ==
    /\ \A i \in DOMAIN es : es[i] # Done => n < es[i][2]
    /\ \A i \in DOMAIN lines : lines[i].delta # 0 => n < lines[i].delta
NoTextIn(es, lines) ==
    /\ \A i \in DOMAIN es : es[i] = Done
    /\ \A i \in DOMAIN lines : lines[i].delta = 0

InOrder(r) ==
    /\ LinesInOrder(provider[r])
    /\ EventsInOrder(events[r])
    /\ \A i \in DOMAIN events[r] :
          IF events[r][i] = Done THEN NoTextIn(<<>>, provider[r])
                                 ELSE After(events[r][i][2], <<>>, provider[r])
    /\ \A i \in DOMAIN full[r] :
          i <= full[r][i] /\ After(full[r][i], events[r], provider[r])

Early == {"idle", "save", "search", "list", "history", "start"}
Final(r) == pc[r] \in {"store", "done"} \/ Told(r) # <<>>

Answering(r) ==
    /\ Shown(r) = full[r]
    /\ Told(r) \in Seq({"complete", "error"})
    /\ pc[r] \in Early =>
          /\ full[r] = <<>> /\ Told(r) = <<>> /\ Stored(r) = {}
    /\ pc[r] \in Early \cup {"read"} => events[r] = <<>>
    /\ pc[r] \in {"handle", "store", "done"} => events[r] # <<>>
    /\ pc[r] \in {"store", "done"} => events[r][1] = Done
    /\ pc[r] # "end" /\ Final(r) => NoTextIn(events[r], provider[r])
    /\ Stored(r) \subseteq {full[r]}
    /\ pc[r] \in {"read", "handle", "store"} /\ Stored(r) # {}
          => Told(r) # <<>>
    /\ pc[r] = "done" => Stored(r) # {} \/ r \in Unlucky

Reading(r) ==
    /\ Len(found[r]) <= MaxFound
    /\ Len(history[r]) <= HistoryLimit
    /\ ToSet(history[r]) \subseteq ToSet(messages)
    /\ pc[r] = "start" =>
          context[r] = Build(Offered(found[r], history[r], size[r]))

SseInv ==
    \A r \in Requests : InOrder(r) /\ Answering(r) /\ Reading(r)

-----------------------------------------------------------------------------
(* Texts, replies and messages, one event or message at a time.            *)

Results == Tokens \cup {Done, ErrorEvent}

LEMMA TextFolds ==
    /\ \A r : Shown(r) = Showing!Fold(<<>>, sent[r])
    /\ \A r : Told(r) = Telling!Fold(<<>>, sent[r])
  <1>1. \A r : Shown(r) = Showing!Fold(<<>>, sent[r])
    BY DEF Shown, Showing!Fold, FoldLeft, Showing!FoldLeft, MapThenFoldSet,
           Showing!MapThenFoldSet, Max, Showing!Max
  <1>2. \A r : Told(r) = Telling!Fold(<<>>, sent[r])
    BY DEF Told, Telling!Fold, FoldLeft, Telling!FoldLeft, MapThenFoldSet,
           Telling!MapThenFoldSet, Max, Telling!Max
  <1> QED
    BY <1>1, <1>2

LEMMA EventFacts ==
    /\ \A n \in Positions : /\ Token(n) # Done /\ Token(n)[1] = "token"
                            /\ Token(n)[2] = n
    /\ Done[1] = "done" /\ ErrorEvent[1] = "error" /\ ErrorEvent # Done
    /\ \A e \in Tokens \cup {Done} :
          e # Done => e[2] \in Positions /\ e[1] = "token" /\ e = Token(e[2])
  BY DEF Tokens, Token, Done, ErrorEvent

LEMMA SendOne ==
    ASSUME SseTypes, NEW r \in Requests, NEW e \in Results, Send(r, e)
    PROVE  /\ sent' \in [Requests -> Seq(Results)]
           /\ Shown(r)' = ShowEvent(Shown(r), e)
           /\ Told(r)' = TellEvent(Told(r), e)
           /\ \A q \in Requests \ {r} : sent'[q] = sent[q]
  <1>1. sent \in [Requests -> Seq(Results)]
    BY DEF SseTypes, Results
  <1>2. /\ sent'[r] = Append(sent[r], e)
        /\ \A q \in Requests \ {r} : sent'[q] = sent[q]
        /\ sent' \in [Requests -> Seq(Results)]
    BY <1>1 DEF Send
  <1>3. /\ Showing!Fold(<<>>, Append(sent[r], e)) =
              ShowEvent(Showing!Fold(<<>>, sent[r]), e)
        /\ Telling!Fold(<<>>, Append(sent[r], e)) =
              TellEvent(Telling!Fold(<<>>, sent[r]), e)
    BY <1>1, Showing!FoldAppend, Telling!FoldAppend
  <1>4. /\ Shown(r)' = Showing!Fold(<<>>, sent'[r])
        /\ Told(r)' = Telling!Fold(<<>>, sent'[r])
    BY DEF Shown, Showing!Fold, FoldLeft, Showing!FoldLeft, MapThenFoldSet,
           Showing!MapThenFoldSet, Max, Showing!Max,
           Told, Telling!Fold, Telling!FoldLeft, Telling!MapThenFoldSet,
           Telling!Max
  <1> QED
    BY <1>2, <1>3, <1>4, TextFolds

LEMMA SameTexts ==
    ASSUME NEW q, sent'[q] = sent[q]
    PROVE  Shown(q)' = Shown(q) /\ Told(q)' = Told(q)
  BY DEF Shown, Told

LEMMA SameStored ==
    ASSUME NEW q, UNCHANGED messages
    PROVE  Stored(q)' = Stored(q)
  BY DEF Stored

LEMMA SeqUpToFacts ==
    ASSUME NEW S, NEW n \in Nat, NEW s \in SeqUpTo(S, n)
    PROVE  s \in Seq(S) /\ Len(s) <= n
  BY DEF SeqUpTo

LEMMA EmptyText == <<>> \in SeqUpTo(Positions, MaxDeltas)
  <1>1. <<>> \in [1..0 -> Positions] /\ MaxDeltas \in Nat
    BY SseAssumption
  <1> QED
    BY <1>1 DEF SeqUpTo

LEMMA GrownText ==
    ASSUME NEW S, NEW s \in Seq(S), NEW x \in S
    PROVE  /\ Len(Append(s, x)) = Len(s) + 1
           /\ SubSeq(Append(s, x), 1, Len(s)) = s
  <1> DEFINE t == SubSeq(Append(s, x), 1, Len(s))
  <1>1. /\ t \in Seq(S) /\ Len(t) = Len(s)
        /\ \A i \in 1..Len(s) : t[i] = s[i]
    OBVIOUS
  <1> HIDE DEF t
  <1>2. t = s
    BY <1>1, SeqEqual
  <1> QED
    BY <1>2 DEF t

LEMMA StoredAppend ==
    ASSUME messages \in Seq(Messages), NEW m \in Messages,
           messages' = Append(messages, m), NEW q
    PROVE  Stored(q)' = Stored(q) \cup
              IF m.role = "assistant" /\ m.by = q THEN {m.text} ELSE {}
  <1> DEFINE own == m.role = "assistant" /\ m.by = q
             new == IF own THEN {m.text} ELSE {}
             n == Len(messages)
  <1>1. /\ DOMAIN messages = 1..n /\ n \in Nat
        /\ DOMAIN messages' = 1..(n + 1)
        /\ \A i \in 1..n : messages'[i] = messages[i]
        /\ messages'[n + 1] = m
    OBVIOUS
  <1>2. ASSUME NEW x \in Stored(q)' PROVE x \in Stored(q) \cup new
    <2>1. PICK i \in DOMAIN messages' :
             /\ messages'[i].role = "assistant" /\ messages'[i].by = q
             /\ x = messages'[i].text
      BY <1>2 DEF Stored
    <2>2. CASE i \in 1..n
      BY <1>1, <2>1, <2>2 DEF Stored
    <2>3. CASE i = n + 1
      BY <1>1, <2>1, <2>3
    <2> QED
      BY <1>1, <2>2, <2>3
  <1>3. ASSUME NEW x \in Stored(q) PROVE x \in Stored(q)'
    <2>1. PICK i \in DOMAIN messages :
             /\ messages[i].role = "assistant" /\ messages[i].by = q
             /\ x = messages[i].text
      BY <1>3 DEF Stored
    <2>2. i \in DOMAIN messages' /\ messages'[i] = messages[i]
      BY <1>1
    <2> QED
      BY <2>1, <2>2 DEF Stored
  <1>4. ASSUME own PROVE m.text \in Stored(q)'
    <2>1. n + 1 \in DOMAIN messages' /\ messages'[n + 1] = m
      BY <1>1
    <2> QED
      BY <1>4, <2>1 DEF Stored
  <1> QED
    BY <1>2, <1>3, <1>4

LEMMA MessageCreated ==
    ASSUME SseTypes, NEW r \in Requests, NEW role \in {"user", "assistant"},
           NEW text \in SeqUpTo(Positions, MaxDeltas), NEW n \in Nat,
           CreateMessage(r, role, text, n)
    PROVE  /\ messages' \in Seq(Messages)
           /\ ToSet(messages) \subseteq ToSet(messages')
           /\ \A q : q # r \/ role = "user" => Stored(q)' = Stored(q)
           /\ role = "assistant" =>
                 \/ Stored(r)' = Stored(r) \cup {text}
                 \/ r \in Unlucky /\ Stored(r)' = Stored(r)
  <1> USE DEF SseTypes
  <1> DEFINE m == [role |-> role, by |-> r, text |-> text, tokens |-> n]
  <1>1. CASE UNCHANGED messages /\ r \in Unlucky
    BY <1>1, SameStored
  <1>2. CASE messages' = Append(messages, m)
    <2>1. m \in Messages
      BY DEF Messages
    <2>2. m.role = role /\ m.by = r /\ m.text = text
      OBVIOUS
    <2> HIDE DEF m
    <2>3. /\ messages' \in Seq(Messages)
          /\ ToSet(messages') = ToSet(messages) \cup {m}
      BY <1>2, <2>1, ToSetAppend
    <2>4. ASSUME NEW q
          PROVE  Stored(q)' = Stored(q) \cup
                    IF role = "assistant" /\ r = q THEN {text} ELSE {}
      BY <1>2, <2>1, <2>2, StoredAppend
    <2> QED
      BY <2>3, <2>4
  <1> QED
    BY <1>1, <1>2 DEF CreateMessage

\* The positions of an answer ascend: it has no more than there are.
LEMMA TextBounded ==
    ASSUME SseTypes, NEW r \in Requests, InOrder(r)
    PROVE  full[r] \in SeqUpTo(Positions, MaxDeltas)
  <1>1. /\ full[r] \in Seq(Positions) /\ Len(full[r]) \in Nat
        /\ DOMAIN full[r] = 1..Len(full[r]) /\ MaxDeltas \in Nat
    BY SseAssumption DEF SseTypes
  <1>2. Len(full[r]) <= MaxDeltas
    <2> SUFFICES ASSUME Len(full[r]) # 0 PROVE Len(full[r]) <= MaxDeltas
      BY <1>1
    <2>1. Len(full[r]) \in DOMAIN full[r]
      BY <1>1
    <2>2. /\ full[r][Len(full[r])] \in Positions
          /\ Len(full[r]) <= full[r][Len(full[r])]
      BY <1>1, <2>1 DEF InOrder
    <2> QED
      BY <1>1, <2>2 DEF Positions
  <1>3. full[r] \in [1..Len(full[r]) -> Positions]
    BY <1>1
  <1> QED
    BY <1>1, <1>2, <1>3 DEF SeqUpTo

-----------------------------------------------------------------------------
(* Each step keeps the invariant.  What a step of one request leaves alone *)
(* of the others:                                                          *)

Alone(r) ==
    \A q \in Requests \ {r} :
        /\ pc'[q] = pc[q] /\ size'[q] = size[q] /\ found'[q] = found[q]
        /\ history'[q] = history[q] /\ context'[q] = context[q]
        /\ provider'[q] = provider[q] /\ events'[q] = events[q]
        /\ full'[q] = full[q] /\ sent'[q] = sent[q]
        /\ Stored(q)' = Stored(q)

LEMMA OthersKept ==
    ASSUME SseInv, NEW r \in Requests, Alone(r),
           ToSet(messages) \subseteq ToSet(messages'),
           InOrder(r)', Answering(r)', Reading(r)'
    PROVE  SseInv'
  <1> SUFFICES ASSUME NEW q \in Requests \ {r}
               PROVE  InOrder(q)' /\ Answering(q)' /\ Reading(q)'
    BY DEF SseInv
  <1>1. /\ pc'[q] = pc[q] /\ size'[q] = size[q] /\ found'[q] = found[q]
        /\ history'[q] = history[q] /\ context'[q] = context[q]
        /\ provider'[q] = provider[q] /\ events'[q] = events[q]
        /\ full'[q] = full[q] /\ Stored(q)' = Stored(q)
        /\ Shown(q)' = Shown(q) /\ Told(q)' = Told(q)
    BY SameTexts DEF Alone
  <1>2. InOrder(q) /\ Answering(q) /\ Reading(q)
    BY DEF SseInv
  <1>3. InOrder(q)'
    BY <1>1, <1>2 DEF InOrder
  <1>4. Answering(q)'
    BY <1>1, <1>2 DEF Answering, Final
  <1>5. Reading(q)'
    BY <1>1, <1>2 DEF Reading
  <1> QED
    BY <1>3, <1>4, <1>5

LEMMA ReceiveKeeps ==
    ASSUME SseTypes, SseInv, NEW r \in Requests, Receive(r)
    PROVE  SseTypes' /\ SseInv' /\ Alone(r)
  <1> USE DEF SseTypes, Receive, Goto
  <1>1. SseTypes'
    BY DEF Labels
  <1>2. Alone(r) /\ Stored(r)' = Stored(r)
    BY SameStored DEF Alone
  <1>3. pc[r] = "idle" /\ pc'[r] = "save"
    OBVIOUS
  <1>4. InOrder(r) /\ Answering(r) /\ Reading(r)
    BY DEF SseInv
  <1>5. InOrder(r)'
    BY <1>4 DEF InOrder
  <1>6. Answering(r)'
    BY <1>2, <1>3, <1>4, SameTexts DEF Answering, Final, Early
  <1>7. Reading(r)'
    BY <1>3, <1>4 DEF Reading
  <1> QED
    BY <1>1, <1>2, <1>5, <1>6, <1>7, OthersKept

LEMMA SaveUserMessageKeeps ==
    ASSUME SseTypes, SseInv, NEW r \in Requests, SaveUserMessage(r)
    PROVE  SseTypes' /\ SseInv' /\ Alone(r)
  <1> USE DEF SseTypes, SaveUserMessage, Goto
  <1>1. /\ messages' \in Seq(Messages)
        /\ ToSet(messages) \subseteq ToSet(messages')
        /\ \A q : Stored(q)' = Stored(q)
    <2>1. size[r] \in Nat
      BY SseAssumption
    <2>2. <<>> \in SeqUpTo(Positions, MaxDeltas)
      BY EmptyText
    <2> QED
      BY <2>1, <2>2, MessageCreated
  <1>2. SseTypes'
    BY <1>1 DEF Labels
  <1>3. pc[r] = "save" /\ pc'[r] = "search"
    OBVIOUS
  <1>4. InOrder(r) /\ Answering(r) /\ Reading(r)
    BY DEF SseInv
  <1>5. InOrder(r)'
    BY <1>4 DEF InOrder
  <1>6. Answering(r)'
    BY <1>1, <1>3, <1>4, SameTexts DEF Answering, Final, Early
  <1>7. Reading(r)'
    BY <1>1, <1>3, <1>4 DEF Reading
  <1>8. Alone(r)
    BY <1>1 DEF Alone
  <1> QED
    BY <1>1, <1>2, <1>5, <1>6, <1>7, <1>8, OthersKept

LEMMA SearchKeeps ==
    ASSUME SseTypes, SseInv, NEW r \in Requests, Search(r)
    PROVE  SseTypes' /\ SseInv' /\ Alone(r)
  <1> USE DEF SseTypes, Search, Goto
  <1>1. /\ found' \in [Requests -> Seq(Memories)]
        /\ Len(found'[r]) <= MaxFound
        /\ \A q \in Requests \ {r} : found'[q] = found[q]
    <2>1. CASE UNCHANGED found
      BY <2>1 DEF SseInv, Reading
    <2>2. ASSUME NEW m \in SeqUpTo(Memories, MaxFound),
                 found' = [found EXCEPT ![r] = m]
          PROVE  <1>1!1 /\ <1>1!2 /\ <1>1!3
      <3>1. m \in Seq(Memories) /\ Len(m) <= MaxFound
        BY SeqUpToFacts, SseAssumption
      <3> QED
        BY <2>2, <3>1
    <2> QED
      BY <2>1, <2>2
  <1>2. SseTypes'
    BY <1>1 DEF Labels
  <1>3. Alone(r) /\ Stored(r)' = Stored(r)
    BY <1>1, SameStored DEF Alone
  <1>4. pc[r] \in {"search", "list"} /\ pc'[r] \in {"list", "history"}
    OBVIOUS
  <1>5. InOrder(r) /\ Answering(r) /\ Reading(r)
    BY DEF SseInv
  <1>6. InOrder(r)'
    BY <1>5 DEF InOrder
  <1>7. Answering(r)'
    BY <1>3, <1>4, <1>5, SameTexts DEF Answering, Final, Early
  <1>8. Reading(r)'
    BY <1>1, <1>4, <1>5 DEF Reading
  <1> QED
    BY <1>2, <1>3, <1>6, <1>7, <1>8, OthersKept

\* get_recent_messages returns some of the messages, no more than the limit.
LEMMA RecentFacts ==
    ASSUME NEW ms \in Seq(Messages)
    PROVE  /\ Recent(ms) \in Seq(Messages)
           /\ Len(Recent(ms)) <= HistoryLimit
           /\ ToSet(Recent(ms)) \subseteq ToSet(ms)
  <1> DEFINE first == IF Len(ms) > HistoryLimit
                      THEN Len(ms) - HistoryLimit + 1 ELSE 1
             rs == SubSeq(ms, first, Len(ms))
  <1>1. /\ HistoryLimit \in Nat /\ Len(ms) \in Nat
        /\ first \in 1..(Len(ms) + 1)
        /\ Len(ms) - first + 1 <= HistoryLimit
    BY SseAssumption
  <1> HIDE DEF first
  <1>2. /\ rs \in Seq(Messages)
        /\ Len(rs) = IF first <= Len(ms) THEN Len(ms) - first + 1 ELSE 0
        /\ \A i \in 1..Len(rs) : rs[i] = ms[first + i - 1]
    BY <1>1
  <1>3. Len(rs) <= HistoryLimit
    BY <1>1, <1>2
  <1>4. ASSUME NEW i \in DOMAIN rs PROVE rs[i] \in ToSet(ms)
    <2>1. i \in 1..Len(rs) /\ DOMAIN ms = 1..Len(ms)
      BY <1>2
    <2>2. first + i - 1 \in DOMAIN ms
      BY <1>1, <1>2, <2>1
    <2> QED
      BY <1>2, <2>1, <2>2 DEF ToSet
  <1>5. ToSet(rs) \subseteq ToSet(ms)
    BY <1>4 DEF ToSet
  <1> QED
    BY <1>2, <1>3, <1>5 DEF Recent, first

LEMMA LoadHistoryKeeps ==
    ASSUME SseTypes, SseInv, NEW r \in Requests, LoadHistory(r)
    PROVE  SseTypes' /\ SseInv' /\ Alone(r)
  <1> USE DEF SseTypes, LoadHistory, Goto
  <1>1. InOrder(r) /\ Answering(r) /\ Reading(r)
    BY DEF SseInv
  <1>2. /\ history' \in [Requests -> Seq(Messages)]
        /\ Len(history'[r]) <= HistoryLimit
        /\ ToSet(history'[r]) \subseteq ToSet(messages)
        /\ \A q \in Requests \ {r} : history'[q] = history[q]
    <2>1. CASE UNCHANGED history
      BY <1>1, <2>1 DEF Reading
    <2>2. CASE history' = [history EXCEPT ![r] = Recent(messages)]
      BY <2>2, RecentFacts
    <2> QED
      BY <2>1, <2>2
  <1>3. /\ context'[r] = Build(Offered(found'[r], history'[r], size'[r]))
        /\ \A q \in Requests \ {r} : context'[q] = context[q]
        /\ context' = [q \in Requests |-> context'[q]]
    OBVIOUS
  <1>4. SseTypes'
    BY <1>2, <1>3 DEF Labels
  <1>5. Alone(r) /\ Stored(r)' = Stored(r)
    BY <1>2, <1>3, SameStored DEF Alone
  <1>6. pc[r] = "history" /\ pc'[r] = "start"
    OBVIOUS
  <1>7. InOrder(r)'
    BY <1>1 DEF InOrder
  <1>8. Answering(r)'
    BY <1>1, <1>5, <1>6, SameTexts DEF Answering, Final, Early
  <1>9. Reading(r)'
    BY <1>1, <1>2, <1>3 DEF Reading
  <1> QED
    BY <1>4, <1>5, <1>7, <1>8, <1>9, OthersKept

-----------------------------------------------------------------------------
(* What a provider sends, and what a chunk of it parses to.                *)

LEMMA LineFacts ==
    /\ \A n \in 0..MaxDeltas :
          /\ Line(n) \in Lines /\ LastLine(n) \in Lines
          /\ Line(n).delta = n /\ LastLine(n).delta = n
          /\ ~Line(n).finish
    /\ Finish \in Lines /\ Finish.delta = 0
  <1>1. MaxDeltas \in Nat
    BY SseAssumption
  <1> QED
    BY <1>1 DEF Line, LastLine, Lines, Finish

\* A response has n deltas, none of which but the last may end it, and then
\* only ends.
Shaped(lines, n) ==
    /\ lines \in Seq(Lines) /\ n <= Len(lines)
    /\ \A i \in 1..n : lines[i].delta = i /\ (i < n => ~lines[i].finish)
    /\ \A i \in (n + 1)..Len(lines) : lines[i].delta = 0

LEMMA ShapedInOrder ==
    ASSUME NEW n \in Nat, NEW lines, Shaped(lines, n)
    PROVE  LinesInOrder(lines)
  <1> SUFFICES ASSUME NEW i \in DOMAIN lines, NEW j \in DOMAIN lines, i < j
               PROVE  /\ lines[i].finish => lines[j].delta = 0
                      /\ lines[j].delta # 0 => lines[i].delta < lines[j].delta
    BY DEF LinesInOrder
  <1>1. i \in 1..Len(lines) /\ j \in 1..Len(lines) /\ Len(lines) \in Nat
    BY DEF Shaped
  <1>2. CASE j <= n
    <2>1. i \in 1..n /\ j \in 1..n /\ i < n
      BY <1>1, <1>2
    <2> QED
      BY <2>1 DEF Shaped
  <1>3. CASE j > n
    <2>1. j \in (n + 1)..Len(lines)
      BY <1>1, <1>3
    <2> QED
      BY <2>1 DEF Shaped
  <1> QED
    BY <1>1, <1>2, <1>3

LEMMA ShapedEnd ==
    ASSUME NEW n \in Nat, NEW lines, Shaped(lines, n)
    PROVE  Shaped(Append(lines, Finish), n)
  <1>1. Finish \in Lines /\ Finish.delta = 0
    BY LineFacts
  <1>2. /\ Append(lines, Finish) \in Seq(Lines) /\ Len(lines) \in Nat
        /\ Len(Append(lines, Finish)) = Len(lines) + 1
        /\ \A i \in 1..Len(lines) : Append(lines, Finish)[i] = lines[i]
        /\ Append(lines, Finish)[Len(lines) + 1] = Finish
    BY <1>1 DEF Shaped
  <1> QED
    BY <1>1, <1>2 DEF Shaped

LEMMA DeltasFacts ==
    ASSUME NEW n \in Nat, n <= MaxDeltas
    PROVE  /\ Deltas(n) \in Seq(Lines) /\ Len(Deltas(n)) = n
           /\ \A i \in 1..n : Deltas(n)[i] = Line(i)
           /\ Shaped(Deltas(n), n)
  <1>1. MaxDeltas \in Nat
    BY SseAssumption
  <1>2. \A i \in 1..n : /\ Line(i) \in Lines
                        /\ Line(i).delta = i
                        /\ ~Line(i).finish
    BY <1>1, LineFacts
  <1>3. Deltas(n) = [i \in 1..n |-> Line(i)]
    BY DEF Deltas
  <1>4. /\ Deltas(n) \in Seq(Lines) /\ Len(Deltas(n)) = n
        /\ \A i \in 1..n : Deltas(n)[i] = Line(i)
    BY <1>2, <1>3
  <1> QED
    BY <1>2, <1>4 DEF Shaped

\* The finish_reason in the last delta's line.
LEMMA EndedDeltasShaped ==
    ASSUME NEW n \in Nat, n > 0, n <= MaxDeltas
    PROVE  EndedDeltas(n) \in Seq(Lines) /\ Shaped(EndedDeltas(n), n)
  <1> DEFINE k == n - 1
             d == Deltas(k)
             x == LastLine(n)
             s == Append(d, x)
  <1>1. MaxDeltas \in Nat /\ k \in Nat /\ k <= MaxDeltas /\ n = k + 1
    BY SseAssumption
  <1> HIDE DEF k
  <1>2. /\ d \in Seq(Lines) /\ Len(d) = k
        /\ \A i \in 1..k : d[i] = Line(i)
    BY <1>1, DeltasFacts
  <1>3. x \in Lines /\ x.delta = n
    BY <1>1, LineFacts
  <1>4. \A i \in 1..k : Line(i).delta = i /\ ~Line(i).finish
    BY <1>1, LineFacts
  <1> HIDE DEF d, x
  <1>5. /\ s \in Seq(Lines) /\ Len(s) = n
        /\ \A i \in 1..k : s[i] = d[i]
        /\ s[n] = x
    BY <1>1, <1>2, <1>3
  <1> HIDE DEF s
  <1>6. \A i \in 1..n : s[i].delta = i /\ (i < n => ~s[i].finish)
    BY <1>1, <1>2, <1>3, <1>4, <1>5
  <1>7. s \in Seq(Lines) /\ Shaped(s, n)
    BY <1>1, <1>5, <1>6 DEF Shaped
  <1> QED
    BY <1>7 DEF EndedDeltas, s, d, x, k

LEMMA ResponseFacts ==
    ASSUME NEW lines \in Responses
    PROVE  lines \in Seq(Lines) /\ LinesInOrder(lines)
  <1>0. MaxDeltas \in Nat
    BY SseAssumption
  <1>1. \/ \E n \in 0..MaxDeltas :
              lines \in {Deltas(n), Append(Deltas(n), Finish),
                         Append(Append(Deltas(n), Finish), Finish)}
        \/ \E n \in 1..MaxDeltas :
              lines \in {EndedDeltas(n), Append(EndedDeltas(n), Finish)}
    BY DEF Responses
  <1>2. \E n \in Nat : Shaped(lines, n)
    <2>1. ASSUME NEW n \in 0..MaxDeltas,
                 lines \in {Deltas(n), Append(Deltas(n), Finish),
                            Append(Append(Deltas(n), Finish), Finish)}
          PROVE  Shaped(lines, n) /\ n \in Nat
      <3> DEFINE d == Deltas(n)
      <3>1. n \in Nat /\ n <= MaxDeltas
        BY <1>0
      <3>2. Shaped(d, n)
        BY <3>1, DeltasFacts
      <3> HIDE DEF d
      <3>3. /\ Shaped(Append(d, Finish), n)
            /\ Shaped(Append(Append(d, Finish), Finish), n)
        BY <3>1, <3>2, ShapedEnd
      <3> QED
        BY <2>1, <3>1, <3>2, <3>3 DEF d
    <2>2. ASSUME NEW n \in 1..MaxDeltas,
                 lines \in {EndedDeltas(n), Append(EndedDeltas(n), Finish)}
          PROVE  Shaped(lines, n) /\ n \in Nat
      <3>1. n \in Nat /\ n > 0 /\ n <= MaxDeltas
        BY <1>0
      <3>2. Shaped(EndedDeltas(n), n)
        BY <3>1, EndedDeltasShaped
      <3> QED
        BY <2>2, <3>1, <3>2, ShapedEnd
    <2> QED
      BY <1>1, <2>1, <2>2
  <1> QED
    BY <1>2, ShapedInOrder DEF Shaped

ParsedEvents(lines, n) == FlattenSeq([i \in 1..n |-> Parse(lines[i])])

\* A line parses to its delta, then to its end.
LEMMA ParseFacts ==
    ASSUME NEW line \in Lines
    PROVE  /\ Parse(line) \in Seq(Tokens \cup {Done})
           /\ EventsInOrder(Parse(line))
           /\ \A i \in DOMAIN Parse(line) :
                 IF Parse(line)[i] = Done THEN line.finish
                 ELSE line.delta # 0 /\ Parse(line)[i][2] = line.delta
  <1>1. /\ line.delta \in 0..MaxDeltas /\ line.finish \in BOOLEAN
        /\ MaxDeltas \in Nat
    BY SseAssumption DEF Lines
  <1> DEFINE E == Tokens \cup {Done}
             d == line.delta
  <1>2. /\ Done \in E
        /\ d # 0 => /\ Token(d) \in E /\ Token(d) # Done /\ Token(d)[2] = d
                    /\ d \in Positions
    BY <1>1, EventFacts DEF Tokens, Positions
  <1> HIDE DEF E
  <1>3. \/ d # 0 /\ line.finish /\ Parse(line) = <<Token(d), Done>>
        \/ d # 0 /\ ~line.finish /\ Parse(line) = <<Token(d)>>
        \/ d = 0 /\ line.finish /\ Parse(line) = <<Done>>
        \/ d = 0 /\ ~line.finish /\ Parse(line) = <<>>
    <2> DEFINE t == Token(d)
    <2>1. d # 0 => t \in E
      BY <1>2
    <2>2. Parse(line) = (IF d # 0 THEN <<t>> ELSE <<>>)
                        \o (IF line.finish THEN <<Done>> ELSE <<>>)
      BY DEF Parse
    <2> HIDE DEF d, t
    <2>3. \A x \in E, y \in E :
             /\ <<x>> \o <<y>> = <<x, y>> /\ <<x>> \o <<>> = <<x>>
             /\ <<>> \o <<y>> = <<y>> /\ <<>> \o <<>> = <<>>
      <3> SUFFICES ASSUME NEW x \in E, NEW y \in E
                   PROVE  /\ <<x>> \o <<y>> = <<x, y>> /\ <<x>> \o <<>> = <<x>>
                          /\ <<>> \o <<y>> = <<y>> /\ <<>> \o <<>> = <<>>
        OBVIOUS
      <3>1. <<x>> \in Seq(E) /\ <<y>> \in Seq(E) /\ <<>> \in Seq(E)
        OBVIOUS
      <3>2. <<x>> \o <<y>> = Append(<<x>>, y) /\ Append(<<x>>, y) = <<x, y>>
        <4>1. <<x>> \o <<y>> = Append(<<x>>, y)
          BY <3>1, AppendIsConcat
        <4>2. Append(<<x>>, y) = <<x, y>>
          <5> DEFINE u == Append(<<x>>, y)
                     v == <<x, y>>
          <5>1. u \in Seq(E) /\ v \in Seq(E) /\ Len(u) = 2 /\ Len(v) = 2
            BY <3>1
          <5>2. u[1] = x /\ u[2] = y /\ v[1] = x /\ v[2] = y
            BY <3>1
          <5>3. \A i \in 1..2 : u[i] = v[i]
            BY <5>2
          <5> HIDE DEF u, v
          <5>4. u = v
            BY <5>1, <5>3, SeqEqual
          <5> QED
            BY <5>4 DEF u, v
        <4> QED
          BY <4>1, <4>2
      <3>3. /\ <<x>> \o <<>> = <<x>> /\ <<>> \o <<y>> = <<y>>
            /\ <<>> \o <<>> = <<>>
        BY <3>1, ConcatEmptySeq
      <3> QED
        BY <3>2, <3>3
    <2>4. line.finish \/ ~line.finish
      OBVIOUS
    <2> QED
      BY <1>2, <2>1, <2>2, <2>3, <2>4 DEF t
  <1> HIDE DEF d
  <1>4. Parse(line) \in Seq(E)
    <2>1. CASE d = 0
      <3>1. <<Done>> \in Seq(E) /\ <<>> \in Seq(E)
        BY <1>2
      <3> QED
        BY <1>3, <2>1, <3>1
    <2>2. CASE d # 0
      <3> DEFINE t == Token(d)
      <3>1. t \in E
        BY <1>2, <2>2
      <3>2. Parse(line) = <<t, Done>> \/ Parse(line) = <<t>>
        BY <1>3, <2>2
      <3> HIDE DEF t
      <3>3. <<t, Done>> \in Seq(E) /\ <<t>> \in Seq(E)
        BY <1>2, <3>1
      <3> QED
        BY <3>2, <3>3
    <2> QED
      BY <2>1, <2>2
  <1>5. EventsInOrder(Parse(line))
    BY <1>2, <1>3 DEF EventsInOrder
  <1>6. \A i \in DOMAIN Parse(line) :
           IF Parse(line)[i] = Done THEN line.finish
           ELSE d # 0 /\ Parse(line)[i][2] = d
    BY <1>2, <1>3
  <1> QED
    BY <1>4, <1>5, <1>6 DEF E, d

ComesFrom(e, line) ==
    IF e = Done THEN line.finish ELSE line.delta # 0 /\ e[2] = line.delta

\* Events that come from lines in order are in order.
LEMMA AppendChunk ==
    ASSUME NEW p \in Seq(Tokens \cup {Done}), NEW x \in Seq(Tokens \cup {Done}),
           NEW lines \in Seq(Lines), LinesInOrder(lines),
           NEW n \in Nat, n + 1 \in 1..Len(lines),
           EventsInOrder(p), EventsInOrder(x),
           \A i \in DOMAIN p : \E j \in 1..n : ComesFrom(p[i], lines[j]),
           \A i \in DOMAIN x : ComesFrom(x[i], lines[n + 1])
    PROVE  /\ p \o x \in Seq(Tokens \cup {Done})
           /\ EventsInOrder(p \o x)
           /\ \A i \in DOMAIN (p \o x) :
                 \E j \in 1..(n + 1) : ComesFrom((p \o x)[i], lines[j])
  <1> DEFINE E == Tokens \cup {Done}
             u == p \o x
             a == Len(p)
             b == Len(x)
  <1>1. /\ u \in Seq(E) /\ Len(u) = a + b /\ a \in Nat /\ b \in Nat
        /\ \A i \in 1..a : u[i] = p[i]
        /\ \A i \in 1..b : u[a + i] = x[i]
    BY ConcatFacts
  <1>2. /\ DOMAIN u = 1..(a + b) /\ DOMAIN p = 1..a /\ DOMAIN x = 1..b
        /\ DOMAIN lines = 1..Len(lines) /\ Len(lines) \in Nat
    BY <1>1
  <1> HIDE DEF u, a, b
  <1>3. ASSUME NEW i \in DOMAIN u
        PROVE  \/ i \in 1..a /\ u[i] = p[i]
               \/ i > a /\ i - a \in 1..b /\ u[i] = x[i - a]
    BY <1>1, <1>2
  <1>4. ASSUME NEW i \in DOMAIN u
        PROVE  \E j \in 1..(n + 1) : ComesFrom(u[i], lines[j])
    <2>1. CASE i \in 1..a /\ u[i] = p[i]
      BY <1>2, <2>1
    <2>2. CASE i > a /\ i - a \in 1..b /\ u[i] = x[i - a]
      BY <1>2, <2>2
    <2> QED
      BY <1>3, <2>1, <2>2
  <1>5. ASSUME NEW i \in DOMAIN u, NEW j \in DOMAIN u, i < j
        PROVE  /\ u[i] = Done => u[j] = Done
               /\ u[j] # Done => u[i][2] < u[j][2]
    <2>1. CASE j \in 1..a
      <3>1. i \in 1..a /\ u[i] = p[i] /\ u[j] = p[j]
        BY <1>1, <1>2, <1>5, <2>1
      <3> QED
        BY <1>2, <1>5, <2>1, <3>1 DEF EventsInOrder
    <2>2. CASE i > a /\ i - a \in 1..b /\ u[i] = x[i - a]
      <3>1. j - a \in 1..b /\ u[j] = x[j - a] /\ i - a < j - a
        BY <1>1, <1>2, <1>3, <1>5, <2>2
      <3> QED
        BY <1>2, <2>2, <3>1 DEF EventsInOrder
    <2>3. CASE i \in 1..a /\ u[i] = p[i] /\ j \notin 1..a
      <3>1. j - a \in 1..b /\ u[j] = x[j - a]
        BY <1>3, <2>3
      <3>2. ComesFrom(u[j], lines[n + 1])
        BY <1>2, <3>1
      <3>3. PICK k \in 1..n : ComesFrom(u[i], lines[k])
        BY <1>2, <2>3
      <3>4. /\ lines[k].finish => lines[n + 1].delta = 0
            /\ lines[n + 1].delta # 0 => lines[k].delta < lines[n + 1].delta
        <4>1. k \in DOMAIN lines /\ n + 1 \in DOMAIN lines /\ k < n + 1
          BY <1>2
        <4> QED
          BY <4>1 DEF LinesInOrder
      <3>5. Done[2] = 0 /\ lines[n + 1].delta \in Nat
        <4>1. lines[n + 1] \in Lines /\ MaxDeltas \in Nat
          BY SseAssumption
        <4> QED
          BY <4>1 DEF Done, Lines
      <3>6. u[j] # Done => u[i] # Done
        BY <3>2, <3>3, <3>4 DEF ComesFrom
      <3>7. u[j] # Done => u[i][2] < u[j][2]
        BY <3>2, <3>3, <3>4, <3>6 DEF ComesFrom
      <3> QED
        BY <3>6, <3>7
    <2> QED
      BY <1>3, <2>1, <2>2, <2>3
  <1>6. EventsInOrder(u)
    BY <1>5 DEF EventsInOrder
  <1> QED
    BY <1>1, <1>4, <1>6 DEF u

LEMMA ChunkFacts ==
    ASSUME NEW lines \in Seq(Lines), LinesInOrder(lines),
           NEW n \in Nat, n <= Len(lines)
    PROVE  LET es == ParsedEvents(lines, n)
           IN  /\ es \in Seq(Tokens \cup {Done})
               /\ EventsInOrder(es)
               /\ \A i \in DOMAIN es : \E j \in 1..n : ComesFrom(es[i], lines[j])
  <1> DEFINE E == Tokens \cup {Done}
             es(k) == ParsedEvents(lines, k)
             Good(k) ==
                /\ es(k) \in Seq(E)
                /\ EventsInOrder(es(k))
                /\ \A i \in DOMAIN es(k) :
                      \E j \in 1..k : ComesFrom(es(k)[i], lines[j])
             T == {k \in Nat : k <= Len(lines) => Good(k)}
  <1>1. 0 \in T
    <2>1. [i \in 1..0 |-> Parse(lines[i])] = <<>>
      OBVIOUS
    <2>2. es(0) = <<>>
      BY <2>1, FlattenPieces DEF ParsedEvents
    <2> HIDE DEF es
    <2>3. <<>> \in Seq(E) /\ DOMAIN <<>> = {}
      OBVIOUS
    <2> QED
      BY <2>2, <2>3 DEF EventsInOrder
  <1>2. ASSUME NEW k \in Nat, k \in T PROVE k + 1 \in T
    <2> SUFFICES ASSUME k + 1 <= Len(lines) PROVE Good(k + 1)
      OBVIOUS
    <2> DEFINE x == Parse(lines[k + 1])
               p == es(k)
    <2>1. /\ \A i \in 1..(k + 1) : lines[i] \in Lines
          /\ k + 1 \in 1..Len(lines) /\ Len(lines) \in Nat
      OBVIOUS
    <2>2. /\ x \in Seq(E) /\ EventsInOrder(x)
          /\ \A i \in DOMAIN x : ComesFrom(x[i], lines[k + 1])
      BY <2>1, ParseFacts DEF ComesFrom
    <2>3. es(k + 1) = p \o x
      <3> DEFINE Q == Seq(E)
                 head(m) == [i \in 1..m |-> Parse(lines[i])]
      <3>1. \A i \in 1..k : Parse(lines[i]) \in Q
        BY <2>1, ParseFacts
      <3>2. x \in Q
        BY <2>2
      <3> HIDE DEF x, Q
      <3>3. head(k) \in Seq(Q)
        BY <3>1
      <3>4. head(k + 1) = Append(head(k), x)
        <4>1. Len(head(k)) = k
          OBVIOUS
        <4> QED
          BY <3>3, <4>1 DEF x
      <3>5. es(k) = FlattenSeq(head(k)) /\ es(k + 1) = FlattenSeq(head(k + 1))
        BY DEF ParsedEvents
      <3> HIDE DEF head, es
      <3>6. FlattenSeq(Append(head(k), x)) = FlattenSeq(head(k)) \o x
        BY <3>2, <3>3, FlattenPieces DEF Q
      <3> QED
        BY <3>4, <3>5, <3>6
    <2>4. Good(k)
      BY <1>2
    <2>5. /\ p \in Seq(E) /\ EventsInOrder(p)
          /\ \A i \in DOMAIN p : \E j \in 1..k : ComesFrom(p[i], lines[j])
      BY <2>4
    <2> HIDE DEF p, x, es
    <2>6. /\ p \o x \in Seq(E) /\ EventsInOrder(p \o x)
          /\ \A i \in DOMAIN (p \o x) :
                \E j \in 1..(k + 1) : ComesFrom((p \o x)[i], lines[j])
      BY <2>1, <2>2, <2>5, AppendChunk
    <2> QED
      BY <2>3, <2>6
  <1>3. Good(n)
    <2>1. Nat \subseteq T
      <3> HIDE DEF T
      <3> QED
        BY <1>1, <1>2, Filing!NatSetInduction
    <2> HIDE DEF Good
    <2> QED
      BY <2>1
  <1> QED
    BY <1>3

LEMMA StartKeeps ==
    ASSUME SseTypes, SseInv, NEW r \in Requests, Start(r)
    PROVE  SseTypes' /\ SseInv' /\ Alone(r)
  <1> USE DEF SseTypes, Start, Goto
  <1>1. InOrder(r) /\ Answering(r) /\ Reading(r)
    BY DEF SseInv
  <1>2. pc[r] = "start" /\ full[r] = <<>> /\ events[r] = <<>>
        /\ Told(r) = <<>> /\ Shown(r) = <<>> /\ Stored(r) = {}
    BY <1>1 DEF Answering, Early
  <1>3. /\ provider' \in [Requests -> Seq(Lines)]
        /\ LinesInOrder(provider'[r])
        /\ \A q \in Requests \ {r} : provider'[q] = provider[q]
    <2>1. CASE UNCHANGED provider
      BY <1>1, <2>1 DEF InOrder
    <2>2. ASSUME NEW lines \in Responses,
                 provider' = [provider EXCEPT ![r] = lines]
          PROVE  <1>3!1 /\ <1>3!2 /\ <1>3!3
      BY <2>2, ResponseFacts
    <2> QED
      BY <2>1, <2>2
  <1>4. /\ sent' \in [Requests -> Seq(Results)]
        /\ \A q \in Requests \ {r} : sent'[q] = sent[q]
        /\ Shown(r)' = <<>>
        /\ \/ pc'[r] = "read" /\ Told(r)' = <<>>
           \/ pc'[r] = "end" /\ Told(r)' = <<"error">>
    <2>1. CASE UNCHANGED sent /\ pc'[r] = "read"
      BY <1>2, <2>1, SameTexts DEF Results
    <2>2. CASE Send(r, ErrorEvent) /\ pc'[r] = "end"
      <3>1. ErrorEvent \in Results
        BY DEF Results
      <3>2. /\ Shown(r)' = ShowEvent(Shown(r), ErrorEvent)
            /\ Told(r)' = TellEvent(Told(r), ErrorEvent)
            /\ sent' \in [Requests -> Seq(Results)]
            /\ \A q \in Requests \ {r} : sent'[q] = sent[q]
        BY <2>2, <3>1, SendOne
      <3>3. Append(<<>>, "error") = <<"error">>
        OBVIOUS
      <3>4. /\ ShowEvent(<<>>, ErrorEvent) = <<>>
            /\ TellEvent(<<>>, ErrorEvent) = <<"error">>
        BY <3>3 DEF ShowEvent, TellEvent, ErrorEvent
      <3> QED
        BY <1>2, <2>2, <3>2, <3>4
    <2> QED
      BY <2>1, <2>2
  <1>5. /\ found' \in [Requests -> Seq(Memories)]
        /\ history' \in [Requests -> Seq(Messages)]
        /\ context' = [q \in Requests |-> context'[q]]
        /\ pc' \in [Requests -> Labels]
        /\ found'[r] = <<>> /\ history'[r] = <<>>
    <2>1. <<>> \in Seq(Memories) /\ <<>> \in Seq(Messages)
      OBVIOUS
    <2>2. /\ found' \in [Requests -> Seq(Memories)] /\ found'[r] = <<>>
          /\ history' \in [Requests -> Seq(Messages)] /\ history'[r] = <<>>
      BY <2>1
    <2>3. context' = [q \in Requests |-> context'[q]]
      OBVIOUS
    <2>4. pc' \in [Requests -> Labels]
      BY DEF Labels
    <2> QED
      BY <2>2, <2>3, <2>4
  <1>6. SseTypes'
    BY <1>3, <1>4, <1>5 DEF Results
  <1>7. Alone(r) /\ Stored(r)' = Stored(r)
    BY <1>3, <1>4, SameStored DEF Alone
  <1>8. /\ pc'[r] \in {"read", "end"} /\ full'[r] = <<>> /\ events'[r] = <<>>
        /\ DOMAIN <<>> = {}
    BY <1>2
  <1>9. InOrder(r)'
    BY <1>3, <1>8 DEF InOrder, EventsInOrder
  <1>10. Answering(r)'
    <2>1. <<"error">> \in Seq({"complete", "error"})
          /\ <<>> \in Seq({"complete", "error"})
      OBVIOUS
    <2>2. Shown(r)' = full'[r] /\ Stored(r)' = {}
      BY <1>2, <1>4, <1>7, <1>8
    <2>3. CASE pc'[r] = "read" /\ Told(r)' = <<>>
      BY <1>8, <2>1, <2>2, <2>3 DEF Answering, Final, Early
    <2>4. CASE pc'[r] = "end" /\ Told(r)' = <<"error">>
      BY <1>8, <2>1, <2>2, <2>4 DEF Answering, Final, Early
    <2> QED
      BY <1>4, <2>3, <2>4
  <1>11. Reading(r)'
    <2>1. Len(<<>>) = 0 /\ {MaxFound, HistoryLimit} \subseteq Nat
      BY SseAssumption
    <2> QED
      BY <1>5, <1>8, <2>1, ToSetEmpty DEF Reading
  <1> QED
    BY <1>6, <1>7, <1>9, <1>10, <1>11, OthersKept

LEMMA ReadChunkKeeps ==
    ASSUME SseTypes, SseInv, NEW r \in Requests, ReadChunk(r)
    PROVE  SseTypes' /\ SseInv' /\ Alone(r)
  <1> DEFINE E == Tokens \cup {Done}
             lines == provider[r]
             rest == provider'[r]
             es == events'[r]
  <1>1. InOrder(r) /\ Answering(r) /\ Reading(r)
    BY DEF SseInv
  <1>2. /\ lines \in Seq(Lines) /\ LinesInOrder(lines) /\ Len(lines) \in Nat
        /\ DOMAIN lines = 1..Len(lines)
    BY <1>1 DEF SseTypes, InOrder
  <1>3. PICK n \in 0..MaxLines, cut \in {0, 1} :
           /\ n + cut \in 1..Len(provider[r])
           /\ events' = [events EXCEPT ![r] =
                FlattenSeq([i \in 1..n |-> Parse(provider[r][i])])]
           /\ provider' = [provider EXCEPT ![r] =
                SubSeq(@, n + cut + 1, Len(@))]
    BY DEF ReadChunk
  <1>4. n \in Nat /\ n <= Len(lines) /\ MaxLines \in Nat
    BY <1>2, <1>3, SseAssumption
  <1>5. /\ es = ParsedEvents(lines, n)
        /\ rest = SubSeq(lines, n + cut + 1, Len(lines))
        /\ \A q \in Requests \ {r} : /\ events'[q] = events[q]
                                     /\ provider'[q] = provider[q]
    BY <1>3 DEF SseTypes, ParsedEvents
  <1>6. /\ es \in Seq(E) /\ EventsInOrder(es)
        /\ \A i \in DOMAIN es : \E j \in 1..n : ComesFrom(es[i], lines[j])
    BY <1>2, <1>4, <1>5, ChunkFacts
  <1>7. /\ rest \in Seq(Lines)
        /\ \A i \in DOMAIN rest : /\ n + cut + i \in DOMAIN lines
                                  /\ rest[i] = lines[n + cut + i]
                                  /\ i \in Nat /\ i > 0
    <2> DEFINE m == n + cut + 1
    <2>1. m \in Nat /\ m > 0 /\ m <= Len(lines) + 1 /\ n + cut \in Nat
      BY <1>2, <1>3, <1>4
    <2>2. n + cut = m - 1
      BY <2>1
    <2> HIDE DEF m
    <2>3. /\ rest = SubSeq(lines, m, Len(lines))
          /\ rest \in Seq(Lines)
          /\ Len(rest) = Len(lines) - m + 1
          /\ \A i \in 1..Len(rest) : rest[i] = lines[m + i - 1]
      <3> HIDE DEF lines, rest
      <3>1. rest = SubSeq(lines, m, Len(lines))
        BY <1>5 DEF m
      <3> QED
        BY <1>2, <2>1, <3>1
    <2>4. ASSUME NEW i \in DOMAIN rest
          PROVE  m + i - 1 \in DOMAIN lines /\ i \in Nat /\ i > 0
                 /\ rest[i] = lines[m + i - 1]
      BY <1>2, <2>1, <2>3
    <2>5. ASSUME NEW i \in DOMAIN rest
          PROVE  /\ n + cut + i \in DOMAIN lines
                 /\ rest[i] = lines[n + cut + i]
                 /\ i \in Nat /\ i > 0
      <3> HIDE DEF lines, rest
      <3>1. n + cut + i = m + i - 1
        BY <2>1, <2>2, <2>4
      <3> QED
        BY <2>4, <3>1
    <2> HIDE DEF lines, rest
    <2> QED
      BY <2>3, <2>5
  <1>8. /\ pc[r] = "read" /\ events[r] = <<>> /\ full'[r] = full[r]
        /\ pc'[r] = IF es = <<>> THEN "read" ELSE "handle"
        /\ \A q \in Requests \ {r} : pc'[q] = pc[q]
        /\ pc' \in [Requests -> Labels]
    BY <1>1 DEF SseTypes, ReadChunk, Goto, Answering, Labels
  <1>9. UNCHANGED <<messages, size, found, history, context, full, sent>>
    BY DEF ReadChunk
  <1> HIDE DEF lines, rest, es
  <1>10. SseTypes'
    <2>1. /\ events' \in [Requests -> Seq(E)]
          /\ provider' \in [Requests -> Seq(Lines)]
      <3>1. events' = [events EXCEPT ![r] = es]
        BY <1>3, <1>5 DEF ParsedEvents, es, lines
      <3>2. provider' = [provider EXCEPT ![r] = rest]
        BY <1>3, <1>5 DEF rest, lines
      <3> QED
        BY <1>6, <1>7, <3>1, <3>2 DEF SseTypes
    <2> QED
      BY <1>8, <1>9, <2>1 DEF SseTypes
  <1>11. Alone(r) /\ Stored(r)' = Stored(r)
    BY <1>5, <1>8, <1>9, SameStored DEF Alone
  <1>12. LinesInOrder(rest)
    <2> SUFFICES ASSUME NEW i \in DOMAIN rest, NEW j \in DOMAIN rest, i < j
                 PROVE  /\ rest[i].finish => rest[j].delta = 0
                        /\ rest[j].delta # 0 => rest[i].delta < rest[j].delta
      BY DEF LinesInOrder
    <2>1. n + cut + i < n + cut + j
      BY <1>4, <1>7
    <2> QED
      BY <1>2, <1>7, <2>1 DEF LinesInOrder
  <1>13. ASSUME NEW i \in DOMAIN es
         PROVE  IF es[i] = Done THEN NoTextIn(<<>>, rest)
                                ELSE After(es[i][2], <<>>, rest)
    <2>1. PICK k \in 1..n : ComesFrom(es[i], lines[k])
      BY <1>6
    <2>2. ASSUME NEW j \in DOMAIN rest
          PROVE  /\ lines[k].finish => rest[j].delta = 0
                 /\ rest[j].delta # 0 => lines[k].delta < rest[j].delta
      <3>1. k \in DOMAIN lines /\ k < n + cut + j
        BY <1>2, <1>4, <1>7
      <3> QED
        BY <1>2, <1>7, <3>1 DEF LinesInOrder
    <2>3. DOMAIN <<>> = {}
      OBVIOUS
    <2> QED
      BY <2>1, <2>2, <2>3 DEF ComesFrom, NoTextIn, After
  <1>14. ASSUME NEW i \in DOMAIN full[r]
         PROVE  i <= full[r][i] /\ After(full[r][i], es, rest)
    <2>1. i <= full[r][i] /\ After(full[r][i], <<>>, lines)
      BY <1>1, <1>8 DEF InOrder, lines
    <2>2. \A j \in DOMAIN lines :
             lines[j].delta # 0 => full[r][i] < lines[j].delta
      BY <2>1 DEF After
    <2>3. \A j \in 1..n : j \in DOMAIN lines
      BY <1>2, <1>4
    <2>4. \A j \in DOMAIN es : es[j] # Done => full[r][i] < es[j][2]
      BY <1>6, <2>2, <2>3 DEF ComesFrom
    <2>5. \A j \in DOMAIN rest :
             rest[j].delta # 0 => full[r][i] < rest[j].delta
      BY <1>7, <2>2
    <2> QED
      BY <2>1, <2>4, <2>5 DEF After
  <1>15. InOrder(r)'
    BY <1>6, <1>8, <1>9, <1>12, <1>13, <1>14 DEF InOrder, es, rest
  <1>16. Final(r) => NoTextIn(es, rest)
    <2> SUFFICES ASSUME Final(r) PROVE NoTextIn(es, rest)
      OBVIOUS
    <2>1. NoTextIn(<<>>, lines)
      BY <1>1, <1>8 DEF Answering, lines
    <2>2. \A j \in DOMAIN lines : lines[j].delta = 0
      BY <2>1 DEF NoTextIn
    <2>3. \A j \in 1..n : j \in DOMAIN lines
      BY <1>2, <1>4
    <2> QED
      BY <1>6, <1>7, <2>2, <2>3 DEF ComesFrom, NoTextIn
  <1>17. Answering(r)'
    <2>1. /\ Shown(r)' = Shown(r) /\ Told(r)' = Told(r)
      BY <1>9, SameTexts
    <2>2. Final(r)' => Final(r)
      BY <1>8, <2>1 DEF Final
    <2>3. events'[r] = es /\ provider'[r] = rest
      BY DEF es, rest
    <2> QED
      BY <1>1, <1>8, <1>9, <1>11, <1>16, <2>1, <2>2, <2>3
         DEF Answering, Final, Early
  <1>18. Reading(r)'
    BY <1>1, <1>8, <1>9 DEF Reading
  <1> QED
    BY <1>9, <1>10, <1>11, <1>15, <1>17, <1>18, OthersKept

\* Once a request is over, nothing is left to be shown.
LEMMA EndKeeps ==
    ASSUME SseTypes, SseInv, NEW r \in Requests,
           ConnectionBreaks(r) \/ ResponseEnds(r) \/ Disconnect(r)
    PROVE  SseTypes' /\ SseInv' /\ Alone(r)
  <1>1. InOrder(r) /\ Answering(r) /\ Reading(r)
    BY DEF SseInv
  <1>2. /\ UNCHANGED <<messages, size, found, history, context, provider,
                       events, full>>
        /\ Goto(r, "end") /\ pc[r] # "end"
        /\ Send(r, ErrorEvent) \/ UNCHANGED sent
    BY DEF ConnectionBreaks, ResponseEnds, Disconnect
  <1>3. /\ sent' \in [Requests -> Seq(Results)]
        /\ \A q \in Requests \ {r} : sent'[q] = sent[q]
        /\ Shown(r)' = Shown(r) /\ Told(r)' \in Seq({"complete", "error"})
    <2>1. CASE UNCHANGED sent
      BY <1>1, <2>1, SameTexts DEF Results, SseTypes, Answering
    <2>2. CASE Send(r, ErrorEvent)
      <3>1. ErrorEvent \in Results
        BY DEF Results
      <3>2. /\ Shown(r)' = ShowEvent(Shown(r), ErrorEvent)
            /\ Told(r)' = TellEvent(Told(r), ErrorEvent)
            /\ sent' \in [Requests -> Seq(Results)]
            /\ \A q \in Requests \ {r} : sent'[q] = sent[q]
        BY <2>2, <3>1, SendOne
      <3>3. /\ ShowEvent(Shown(r), ErrorEvent) = Shown(r)
            /\ TellEvent(Told(r), ErrorEvent) = Append(Told(r), "error")
        BY DEF ShowEvent, TellEvent, ErrorEvent
      <3>4. Append(Told(r), "error") \in Seq({"complete", "error"})
        BY <1>1 DEF Answering
      <3> QED
        BY <1>2, <3>1, <3>2, <3>3, <3>4
    <2> QED
      BY <1>2, <2>1, <2>2
  <1>4. /\ pc' \in [Requests -> Labels] /\ pc'[r] = "end"
        /\ \A q \in Requests \ {r} : pc'[q] = pc[q]
    BY <1>2 DEF SseTypes, Goto, Labels
  <1>5. SseTypes'
    BY <1>2, <1>3, <1>4 DEF SseTypes, Results
  <1>6. Alone(r) /\ Stored(r)' = Stored(r)
    BY <1>2, <1>3, <1>4, SameStored DEF Alone
  <1>7. InOrder(r)'
    BY <1>1, <1>2 DEF InOrder
  <1>8. Answering(r)'
    BY <1>1, <1>2, <1>3, <1>4, <1>6 DEF Answering, Early
  <1>9. Reading(r)'
    BY <1>1, <1>2, <1>4 DEF Reading
  <1> QED
    BY <1>2, <1>5, <1>6, <1>7, <1>8, <1>9, OthersKept

LEMMA HandleTokenKeeps ==
    ASSUME SseTypes, SseInv, NEW r \in Requests, HandleEvent(r),
           Head(events[r]) # Done
    PROVE  SseTypes' /\ SseInv' /\ Alone(r)
  <1> DEFINE E == Tokens \cup {Done}
             es == events[r]
             e == Head(es)
             rest == Tail(es)
             text == full[r]
  <1>1. InOrder(r) /\ Answering(r) /\ Reading(r)
    BY DEF SseInv
  <1>2. /\ pc[r] = "handle"
        /\ full' = [full EXCEPT ![r] = Append(text, e[2])]
        /\ Send(r, e)
        /\ events' = [events EXCEPT ![r] = rest]
        /\ Goto(r, IF rest = <<>> THEN "read" ELSE "handle")
        /\ UNCHANGED <<messages, size, found, history, context, provider>>
    BY DEF HandleEvent
  <1>3. es # <<>> /\ es \in Seq(E) /\ text \in Seq(Positions)
    BY <1>1, <1>2 DEF SseTypes, Answering
  <1>4. /\ es[1] = e /\ e \in E /\ rest \in Seq(E) /\ Len(es) \in Nat
        /\ DOMAIN es = 1..Len(es) /\ Len(es) >= 1
        /\ \A i \in DOMAIN rest : /\ i + 1 \in DOMAIN es /\ i + 1 > 1
                                  /\ rest[i] = es[i + 1]
    BY <1>3
  <1>5. e # Done /\ e[2] \in Positions /\ e[1] = "token" /\ e \in Results
    BY <1>4, EventFacts DEF Results
  <1>6. /\ Len(text) \in Nat /\ DOMAIN text = 1..Len(text)
        /\ Append(text, e[2]) \in Seq(Positions)
        /\ DOMAIN Append(text, e[2]) = 1..(Len(text) + 1)
        /\ \A i \in 1..Len(text) : Append(text, e[2])[i] = text[i]
        /\ Append(text, e[2])[Len(text) + 1] = e[2]
    BY <1>3, <1>5
  <1>7. /\ full'[r] = Append(text, e[2]) /\ events'[r] = rest
        /\ pc'[r] = IF rest = <<>> THEN "read" ELSE "handle"
        /\ full' \in [Requests -> Seq(Positions)]
        /\ events' \in [Requests -> Seq(E)]
        /\ pc' \in [Requests -> Labels]
        /\ \A q \in Requests \ {r} : /\ full'[q] = full[q]
                                     /\ events'[q] = events[q]
                                     /\ pc'[q] = pc[q]
    BY <1>2, <1>4, <1>6 DEF SseTypes, Goto, Labels
  <1>8. /\ Shown(r)' = Append(text, e[2]) /\ Told(r)' = Told(r)
        /\ sent' \in [Requests -> Seq(Results)]
        /\ \A q \in Requests \ {r} : sent'[q] = sent[q]
    <2>1. /\ Shown(r)' = ShowEvent(Shown(r), e)
          /\ Told(r)' = TellEvent(Told(r), e)
          /\ sent' \in [Requests -> Seq(Results)]
          /\ \A q \in Requests \ {r} : sent'[q] = sent[q]
      BY <1>2, <1>5, SendOne
    <2> QED
      BY <1>1, <1>5, <2>1 DEF ShowEvent, TellEvent, Answering
  <1> HIDE DEF es, e, rest, text
  <1>9. ~Final(r) /\ Stored(r) = {}
    <2>1. ~NoTextIn(es, provider[r])
      BY <1>4, <1>5 DEF NoTextIn
    <2>2. ~Final(r)
      BY <1>1, <1>2, <2>1 DEF Answering, es
    <2> QED
      BY <1>1, <1>2, <2>2 DEF Answering, Final
  <1>10. SseTypes'
    BY <1>2, <1>7, <1>8 DEF SseTypes, Results
  <1>11. Alone(r) /\ Stored(r)' = {}
    BY <1>2, <1>7, <1>8, <1>9, SameStored DEF Alone
  <1>12. After(e[2], rest, provider[r])
    <2>1. \A i \in DOMAIN rest : rest[i] # Done => e[2] < rest[i][2]
      <3> SUFFICES ASSUME NEW i \in DOMAIN rest, rest[i] # Done
                   PROVE  e[2] < rest[i][2]
        OBVIOUS
      <3>1. 1 \in DOMAIN es /\ i + 1 \in DOMAIN es /\ 1 < i + 1
        BY <1>4
      <3>2. EventsInOrder(es)
        BY <1>1 DEF InOrder, es
      <3>3. es[i + 1] # Done => es[1][2] < es[i + 1][2]
        BY <3>1, <3>2 DEF EventsInOrder
      <3> QED
        BY <1>4, <3>3
    <2>2. \A i \in DOMAIN provider[r] :
             provider[r][i].delta # 0 => e[2] < provider[r][i].delta
      BY <1>1, <1>4, <1>5 DEF InOrder, After, es
    <2> QED
      BY <2>1, <2>2 DEF After
  <1>13. ASSUME NEW i \in 1..(Len(text) + 1)
         PROVE  LET n == Append(text, e[2])[i]
                IN  i <= n /\ After(n, rest, provider[r])
    <2>1. CASE i \in 1..Len(text)
      <3>1. i <= text[i] /\ After(text[i], es, provider[r])
        BY <1>1, <1>6, <2>1 DEF InOrder, es, text
      <3>2. After(text[i], rest, provider[r])
        BY <1>4, <3>1 DEF After
      <3> QED
        BY <1>6, <2>1, <3>1, <3>2
    <2>2. CASE i = Len(text) + 1
      <3>1. i <= e[2]
        <4>1. CASE Len(text) = 0
          BY <1>5, <2>2, <4>1, SseAssumption DEF Positions
        <4>2. CASE Len(text) # 0
          <5>1. /\ Len(text) \in DOMAIN text
                /\ Len(text) <= text[Len(text)]
                /\ After(text[Len(text)], es, provider[r])
            BY <1>1, <1>6, <4>2 DEF InOrder, es, text
          <5>2. text[Len(text)] < e[2]
            BY <1>4, <1>5, <5>1 DEF After
          <5>3. text[Len(text)] \in Nat /\ e[2] \in Nat
            BY <1>3, <1>5, <5>1, SseAssumption DEF Positions, text
          <5> QED
            BY <1>6, <2>2, <5>1, <5>2, <5>3
        <4> QED
          BY <4>1, <4>2
      <3> QED
        BY <1>6, <1>12, <2>2, <3>1
    <2> QED
      BY <1>6, <2>1, <2>2
  <1>14. EventsInOrder(rest)
    <2> SUFFICES ASSUME NEW i \in DOMAIN rest, NEW j \in DOMAIN rest, i < j
                 PROVE  /\ rest[i] = Done => rest[j] = Done
                        /\ rest[j] # Done => rest[i][2] < rest[j][2]
      BY DEF EventsInOrder
    <2>1. i + 1 < j + 1
      BY <1>4
    <2> QED
      BY <1>1, <1>4, <2>1 DEF InOrder, EventsInOrder, es
  <1>15. InOrder(r)'
    <2>1. \A i \in DOMAIN rest :
             IF rest[i] = Done THEN NoTextIn(<<>>, provider[r])
                               ELSE After(rest[i][2], <<>>, provider[r])
      BY <1>1, <1>4 DEF InOrder, es
    <2> QED
      BY <1>1, <1>2, <1>6, <1>7, <1>13, <1>14, <2>1 DEF InOrder
  <1>16. Answering(r)'
    <2>1. ~Final(r)'
      BY <1>7, <1>8, <1>9 DEF Final
    <2> QED
      BY <1>1, <1>7, <1>8, <1>11, <2>1 DEF Answering, Early
  <1>17. Reading(r)'
    BY <1>1, <1>2, <1>7 DEF Reading
  <1> QED
    BY <1>2, <1>10, <1>11, <1>15, <1>16, <1>17, OthersKept

LEMMA HandleDoneKeeps ==
    ASSUME SseTypes, SseInv, NEW r \in Requests, HandleEvent(r),
           Head(events[r]) = Done
    PROVE  SseTypes' /\ SseInv' /\ Alone(r)
  <1>1. InOrder(r) /\ Answering(r) /\ Reading(r)
    BY DEF SseInv
  <1>2. /\ pc[r] = "handle" /\ Goto(r, "store")
        /\ UNCHANGED <<messages, size, found, history, context, provider,
                       events, full, sent>>
    BY DEF HandleEvent
  <1>3. /\ events[r] # <<>> /\ events[r] \in Seq(Tokens \cup {Done})
        /\ events[r][1] = Done
        /\ DOMAIN events[r] = 1..Len(events[r]) /\ Len(events[r]) \in Nat
        /\ 1 \in DOMAIN events[r]
    BY <1>1, <1>2 DEF SseTypes, Answering
  <1>4. pc' \in [Requests -> Labels] /\ pc'[r] = "store"
        /\ \A q \in Requests \ {r} : pc'[q] = pc[q]
    BY <1>2 DEF SseTypes, Goto, Labels
  <1>5. SseTypes'
    BY <1>2, <1>4 DEF SseTypes
  <1>6. Alone(r) /\ Stored(r)' = Stored(r)
    BY <1>2, <1>4, SameStored DEF Alone
  <1>7. NoTextIn(events[r], provider[r])
    <2>1. NoTextIn(<<>>, provider[r])
      BY <1>1, <1>3 DEF InOrder
    <2>2. ASSUME NEW i \in DOMAIN events[r] PROVE events[r][i] = Done
      <3>1. i = 1 \/ 1 < i
        BY <1>3
      <3> QED
        BY <1>1, <1>3, <3>1 DEF InOrder, EventsInOrder
    <2> QED
      BY <2>1, <2>2 DEF NoTextIn
  <1>8. InOrder(r)'
    BY <1>1, <1>2 DEF InOrder
  <1>9. Answering(r)'
    <2>1. Shown(r)' = Shown(r) /\ Told(r)' = Told(r)
      BY <1>2, SameTexts
    <2> QED
      BY <1>1, <1>2, <1>3, <1>4, <1>6, <1>7, <2>1 DEF Answering, Early
  <1>10. Reading(r)'
    BY <1>1, <1>2, <1>4 DEF Reading
  <1> QED
    BY <1>2, <1>5, <1>6, <1>8, <1>9, <1>10, OthersKept

LEMMA StoreAnswerKeeps ==
    ASSUME SseTypes, SseInv, NEW r \in Requests, StoreAnswer(r)
    PROVE  SseTypes' /\ SseInv' /\ Alone(r)
  <1>1. InOrder(r) /\ Answering(r) /\ Reading(r)
    BY DEF SseInv
  <1>2. /\ pc[r] = "store" /\ Goto(r, "done")
        /\ UNCHANGED <<size, found, history, context, provider, events, full,
                       sent>>
    BY DEF StoreAnswer
  <1>3. /\ messages' \in Seq(Messages)
        /\ ToSet(messages) \subseteq ToSet(messages')
        /\ \A q : q # r => Stored(q)' = Stored(q)
        /\ \/ Stored(r)' = Stored(r) \cup {full[r]}
           \/ r \in Unlucky /\ Stored(r)' = Stored(r)
    <2>1. full[r] \in SeqUpTo(Positions, MaxDeltas) /\ Len(full[r]) \in Nat
      BY <1>1, TextBounded DEF SseTypes
    <2>2. CreateMessage(r, "assistant", full[r], Len(full[r]))
      BY DEF StoreAnswer
    <2> QED
      BY <2>1, <2>2, MessageCreated
  <1>4. pc' \in [Requests -> Labels] /\ pc'[r] = "done"
        /\ \A q \in Requests \ {r} : pc'[q] = pc[q]
    BY <1>2 DEF SseTypes, Goto, Labels
  <1>5. SseTypes'
    BY <1>2, <1>3, <1>4 DEF SseTypes
  <1>6. Alone(r)
    BY <1>2, <1>3, <1>4 DEF Alone
  <1>7. InOrder(r)'
    BY <1>1, <1>2 DEF InOrder
  <1>8. Answering(r)'
    <2>1. Shown(r)' = Shown(r) /\ Told(r)' = Told(r)
      BY <1>2, SameTexts
    <2>2. Final(r)
      BY <1>2 DEF Final
    <2> QED
      BY <1>1, <1>2, <1>3, <1>4, <2>1, <2>2 DEF Answering, Early
  <1>9. Reading(r)'
    BY <1>1, <1>2, <1>3, <1>4 DEF Reading
  <1> QED
    BY <1>3, <1>5, <1>6, <1>7, <1>8, <1>9, OthersKept

LEMMA SendDoneKeeps ==
    ASSUME SseTypes, SseInv, NEW r \in Requests, SendDone(r)
    PROVE  SseTypes' /\ SseInv' /\ Alone(r)
  <1> DEFINE E == Tokens \cup {Done}
             es == events[r]
             rest == Tail(es)
  <1>1. InOrder(r) /\ Answering(r) /\ Reading(r)
    BY DEF SseInv
  <1>2. /\ pc[r] = "done" /\ Send(r, Done)
        /\ events' = [events EXCEPT ![r] = rest]
        /\ Goto(r, IF Len(es) = 1 THEN "read" ELSE "handle")
        /\ UNCHANGED <<messages, size, found, history, context, provider, full>>
    BY DEF SendDone
  <1>3. es # <<>> /\ es \in Seq(E) /\ Final(r)
    BY <1>1, <1>2 DEF SseTypes, Answering, Final
  <1>4. /\ rest \in Seq(E) /\ Len(es) \in Nat
        /\ DOMAIN es = 1..Len(es) /\ Len(es) >= 1
        /\ (Len(es) = 1 <=> rest = <<>>)
        /\ \A i \in DOMAIN rest : /\ i + 1 \in DOMAIN es /\ i \in Nat
                                  /\ rest[i] = es[i + 1]
    <2>1. /\ rest \in Seq(E) /\ Len(es) \in Nat /\ Len(rest) = Len(es) - 1
          /\ DOMAIN es = 1..Len(es) /\ Len(es) >= 1
          /\ \A i \in DOMAIN rest : /\ i + 1 \in DOMAIN es /\ i \in Nat
                                    /\ rest[i] = es[i + 1]
      BY <1>3
    <2>2. Len(rest) = 0 <=> rest = <<>>
      BY <2>1, EmptySeq
    <2> QED
      BY <2>1, <2>2
  <1>5. /\ events'[r] = rest
        /\ pc'[r] = IF rest = <<>> THEN "read" ELSE "handle"
        /\ events' \in [Requests -> Seq(E)]
        /\ pc' \in [Requests -> Labels]
        /\ \A q \in Requests \ {r} : events'[q] = events[q] /\ pc'[q] = pc[q]
    BY <1>2, <1>4 DEF SseTypes, Goto, Labels
  <1>6. /\ Shown(r)' = Shown(r) /\ Told(r)' = Append(Told(r), "complete")
        /\ Told(r)' \in Seq({"complete", "error"}) /\ Told(r)' # <<>>
        /\ sent' \in [Requests -> Seq(Results)]
        /\ \A q \in Requests \ {r} : sent'[q] = sent[q]
    <2>1. Done \in Results
      BY DEF Results
    <2>2. /\ Shown(r)' = ShowEvent(Shown(r), Done)
          /\ Told(r)' = TellEvent(Told(r), Done)
          /\ sent' \in [Requests -> Seq(Results)]
          /\ \A q \in Requests \ {r} : sent'[q] = sent[q]
      BY <1>2, <2>1, SendOne
    <2>3. /\ ShowEvent(Shown(r), Done) = Shown(r)
          /\ TellEvent(Told(r), Done) = Append(Told(r), "complete")
      BY DEF ShowEvent, TellEvent, Done
    <2>4. /\ Append(Told(r), "complete") \in Seq({"complete", "error"})
          /\ Append(Told(r), "complete") # <<>>
      BY <1>1 DEF Answering
    <2> QED
      BY <2>2, <2>3, <2>4
  <1> HIDE DEF es, rest
  <1>7. SseTypes'
    BY <1>2, <1>5, <1>6 DEF SseTypes, Results
  <1>8. Alone(r) /\ Stored(r)' = Stored(r)
    BY <1>2, <1>5, <1>6, SameStored DEF Alone
  <1>9. NoTextIn(rest, provider[r]) /\ \A i \in DOMAIN rest : rest[i] = Done
    BY <1>1, <1>2, <1>3, <1>4 DEF Answering, NoTextIn, es
  <1>10. InOrder(r)'
    <2>1. EventsInOrder(rest)
      BY <1>9 DEF EventsInOrder
    <2>2. \A i \in DOMAIN rest : NoTextIn(<<>>, provider[r])
      BY <1>9 DEF NoTextIn
    <2>3. \A i \in DOMAIN full[r] :
             i <= full[r][i] /\ After(full[r][i], rest, provider[r])
      BY <1>1, <1>9 DEF InOrder, After
    <2> QED
      BY <1>1, <1>2, <1>5, <1>9, <2>1, <2>2, <2>3 DEF InOrder
  <1>11. Answering(r)'
    BY <1>1, <1>2, <1>5, <1>6, <1>8, <1>9 DEF Answering, Early
  <1>12. Reading(r)'
    BY <1>1, <1>2, <1>5 DEF Reading
  <1> QED
    BY <1>2, <1>7, <1>8, <1>10, <1>11, <1>12, OthersKept

-----------------------------------------------------------------------------
(* What follows for every behaviour.                                       *)

LEMMA SseStarts == Init => SseTypes /\ SseInv
  <1> SUFFICES ASSUME Init PROVE SseTypes /\ SseInv
    OBVIOUS
  <1>1. \A S : <<>> \in Seq(S)
    OBVIOUS
  <1>2. SseTypes
    BY <1>1 DEF Init, SseTypes, Labels
  <1>3. ASSUME NEW r \in Requests
        PROVE  InOrder(r) /\ Answering(r) /\ Reading(r)
    <2>1. /\ pc[r] = "idle" /\ provider[r] = <<>> /\ events[r] = <<>>
          /\ full[r] = <<>> /\ found[r] = <<>> /\ history[r] = <<>>
          /\ sent[r] = <<>> /\ messages = <<>>
      BY DEF Init
    <2>2. Shown(r) = <<>> /\ Told(r) = <<>>
      BY <2>1, TextFolds, Showing!FoldEmpty, Telling!FoldEmpty
    <2>3. DOMAIN <<>> = {} /\ Len(<<>>) = 0
      OBVIOUS
    <2>4. Stored(r) = {}
      BY <2>1, <2>3 DEF Stored
    <2>5. {MaxFound, HistoryLimit} \subseteq Nat
      BY SseAssumption
    <2>6. InOrder(r)
      BY <2>1, <2>3 DEF InOrder, LinesInOrder, EventsInOrder
    <2>7. Answering(r)
      BY <1>1, <2>1, <2>2, <2>4 DEF Answering, Final, Early
    <2>8. Reading(r)
      BY <2>1, <2>3, <2>5, ToSetEmpty DEF Reading
    <2> QED
      BY <2>6, <2>7, <2>8
  <1> QED
    BY <1>2, <1>3 DEF SseInv

\* The inductive invariant: what has been read, parsed and shown of an answer
\* is in order, and nothing but ends follows an end.
THEOREM SseInvariant == Spec => [](SseTypes /\ SseInv)
  <1>1. ASSUME SseTypes /\ SseInv, [Next]_vars PROVE (SseTypes /\ SseInv)'
    <2>1. CASE UNCHANGED vars
      <3>1. /\ UNCHANGED <<messages, pc, size, found, history, context, provider,
                           events, full, sent>>
        BY <2>1 DEF vars, requestVars
      <3>2. SseTypes'
        BY <1>1, <3>1 DEF SseTypes
      <3>3. \A r \in Requests : Alone(r) /\ Stored(r)' = Stored(r)
                                /\ Shown(r)' = Shown(r) /\ Told(r)' = Told(r)
        BY <3>1, SameStored, SameTexts DEF Alone
      <3>4. ASSUME NEW r \in Requests
            PROVE  InOrder(r)' /\ Answering(r)' /\ Reading(r)'
        <4>1. InOrder(r) /\ Answering(r) /\ Reading(r)
          BY <1>1 DEF SseInv
        <4>2. InOrder(r)'
          BY <3>1, <4>1 DEF InOrder
        <4>3. Answering(r)'
          BY <3>1, <3>3, <4>1 DEF Answering, Final
        <4>4. Reading(r)'
          BY <3>1, <4>1 DEF Reading
        <4> QED
          BY <4>2, <4>3, <4>4
      <3> QED
        BY <3>2, <3>4 DEF SseInv
    <2>2. ASSUME NEW r \in Requests,
                 \/ Receive(r) \/ SaveUserMessage(r) \/ Search(r)
                 \/ LoadHistory(r) \/ Start(r) \/ ReadChunk(r)
                 \/ ConnectionBreaks(r) \/ ResponseEnds(r) \/ HandleEvent(r)
                 \/ StoreAnswer(r) \/ SendDone(r) \/ Disconnect(r)
          PROVE  SseTypes' /\ SseInv'
      BY <1>1, <2>2, ReceiveKeeps, SaveUserMessageKeeps, SearchKeeps,
         LoadHistoryKeeps, StartKeeps, ReadChunkKeeps, EndKeeps,
         HandleTokenKeeps, HandleDoneKeeps, StoreAnswerKeeps, SendDoneKeeps
    <2> QED
      BY <1>1, <2>1, <2>2 DEF Next
  <1> QED
    BY <1>1, SseStarts, PTL DEF Spec

\* Every message and local variable stays in its range, however many requests
\* share the session.
THEOREM TypeCorrect == Spec => []TypeOK
  <1>1. SseTypes /\ SseInv => TypeOK
    <2> SUFFICES ASSUME SseTypes, SseInv PROVE TypeOK
      OBVIOUS
    <2>1. \A i \in DOMAIN messages :
             /\ messages[i].role \in {"user", "assistant"}
             /\ messages[i].by \in Requests
             /\ messages[i].text \in SeqUpTo(Positions, MaxDeltas)
      <3>1. \A i \in DOMAIN messages : messages[i] \in Messages
        BY DEF SseTypes
      <3> QED
        BY <3>1 DEF Messages
    <2>2. ASSUME NEW r \in Requests
          PROVE  /\ ToSet(found[r]) \subseteq Memories
                 /\ Len(found[r]) <= MaxFound
                 /\ ToSet(history[r]) \subseteq ToSet(messages)
                 /\ Len(history[r]) <= HistoryLimit
                 /\ ToSet(events[r]) \cup ToSet(sent[r]) \subseteq Events
                 /\ full[r] \in SeqUpTo(Positions, MaxDeltas)
                 /\ pc[r] \in {"handle", "store", "done"} => events[r] # <<>>
      <3>1. InOrder(r) /\ Answering(r) /\ Reading(r)
        BY DEF SseInv
      <3>2. full[r] \in SeqUpTo(Positions, MaxDeltas)
        BY <3>1, TextBounded
      <3>3. Results \subseteq Events
        BY SseAssumption
           DEF Results, Events, Tokens, Token, Done, ErrorEvent, Positions
      <3>4. events[r] \in Seq(Results) /\ sent[r] \in Seq(Results)
        BY DEF SseTypes, Results
      <3>5. /\ ToSet(events[r]) \subseteq Results /\ ToSet(sent[r]) \subseteq Results
            /\ ToSet(found[r]) \subseteq Memories
        BY <3>4, ToSetType DEF SseTypes
      <3> QED
        BY <3>1, <3>2, <3>3, <3>5 DEF Reading, Answering
    <2> QED
      BY <2>1, <2>2 DEF TypeOK, SseTypes
  <1> QED
    BY <1>1, SseInvariant, PTL

\* What is stored as an answer is the whole text the client was shown, however
\* the provider's answer was cut into chunks.
THEOREM WholeAnswerStored == Spec => []StoredIsShown
  <1>1. SseInv => StoredIsShown
    BY DEF SseInv, Answering, StoredIsShown
  <1> QED
    BY <1>1, SseInvariant, PTL

LEMMA OfferedFacts ==
    ASSUME NEW memories \in Seq(Memories), NEW ms \in Seq(Messages), NEW n \in Nat
    PROVE  Offered(memories, ms, n) \in
              Seq(Offers({"prompt", "memory", "input"}
                         \cup ({"user", "assistant"} \X Requests)))
  <1> DEFINE From == {"prompt", "memory", "input"}
                     \cup ({"user", "assistant"} \X Requests)
             S == Offers(From)
             a == [i \in DOMAIN memories |->
                      Section(memories[i].tier, "memory", memories[i].tokens)]
             b == [i \in DOMAIN ms |->
                      Section("history", <<ms[i].role, ms[i].by>>, ms[i].tokens)]
             x == Section("system", "prompt", 1)
             y == Section("user", "input", n)
  <1>1. \A kind \in KindNames, from \in From, k \in Nat :
           Section(kind, from, k) \in S
    BY DEF Section, Offers, Pieces
  <1>2. /\ {"system", "user", "history"} \subseteq KindNames
        /\ Tiers \subseteq KindNames
    BY DEF KindNames, Kinds, ToSet, Tiers
  <1>3. {"prompt", "memory", "input"} \subseteq From
    OBVIOUS
  <1>4. x \in S /\ y \in S
    BY <1>1, <1>2, <1>3
  <1>5. \A i \in DOMAIN memories :
           Section(memories[i].tier, "memory", memories[i].tokens) \in S
    <2> SUFFICES ASSUME NEW i \in DOMAIN memories
                 PROVE  Section(memories[i].tier, "memory", memories[i].tokens)
                           \in S
      OBVIOUS
    <2>1. memories[i] \in Memories
      OBVIOUS
    <2>2. memories[i].tier \in Tiers /\ memories[i].tokens \in Nat
      BY <2>1, SseAssumption DEF Memories
    <2> QED
      BY <1>1, <1>2, <1>3, <2>2
  <1>6. \A i \in DOMAIN ms :
           Section("history", <<ms[i].role, ms[i].by>>, ms[i].tokens) \in S
    <2> SUFFICES ASSUME NEW i \in DOMAIN ms
                 PROVE  Section("history", <<ms[i].role, ms[i].by>>,
                                ms[i].tokens) \in S
      OBVIOUS
    <2>1. ms[i] \in Messages
      OBVIOUS
    <2>2. <<ms[i].role, ms[i].by>> \in From /\ ms[i].tokens \in Nat
      BY <2>1 DEF Messages
    <2> QED
      BY <1>1, <1>2, <2>2
  <1> HIDE DEF S
  <1>7. a \in Seq(S) /\ b \in Seq(S)
    <2>1. DOMAIN memories = 1..Len(memories) /\ DOMAIN ms = 1..Len(ms)
          /\ Len(memories) \in Nat /\ Len(ms) \in Nat
      OBVIOUS
    <2> QED
      BY <1>5, <1>6, <2>1
  <1>8. Offered(memories, ms, n) = <<x>> \o a \o b \o <<y>>
    BY DEF Offered
  <1> HIDE DEF a, b, x, y
  <1>9. <<x>> \in Seq(S) /\ <<y>> \in Seq(S)
    BY <1>4
  <1>10. <<x>> \o a \o b \o <<y>> \in Seq(S)
    BY <1>7, <1>9
  <1> QED
    BY <1>8, <1>10 DEF S

\* The context of an answer is well built from whatever was found and from
\* whatever the session held when its history was read.
THEOREM ContextsFit == Spec => []ContextFits
  <1>1. SseTypes /\ SseInv => ContextFits
    <2> SUFFICES ASSUME SseTypes, SseInv, NEW r \in Requests, pc[r] = "start"
                 PROVE  WellBuilt(context[r],
                                  Offered(found[r], history[r], size[r]))
      BY DEF ContextFits
    <2>1. context[r] = Build(Offered(found[r], history[r], size[r]))
      BY DEF SseInv, Reading
    <2>2. /\ found[r] \in Seq(Memories) /\ history[r] \in Seq(Messages)
          /\ size[r] \in Nat
      BY SseAssumption DEF SseTypes
    <2> QED
      BY <2>1, <2>2, OfferedFacts, BuildsWell
  <1> QED
    BY <1>1, SseInvariant, PTL

-----------------------------------------------------------------------------
(* Requests keep the promise of AnswerPromise.  The answer of another      *)
(* request is not touched:                                                 *)

LEMMA OtherPhases ==
    ASSUME NEW r, Alone(r)
    PROVE  \A q \in Requests \ {r} :
              /\ Phase(q)' = Phase(q) /\ Shown(q)' = Shown(q)
              /\ Told(q)' = Told(q) /\ Stored(q)' = Stored(q)
  <1> SUFFICES ASSUME NEW q \in Requests \ {r}
               PROVE  /\ Phase(q)' = Phase(q) /\ Shown(q)' = Shown(q)
                      /\ Told(q)' = Told(q) /\ Stored(q)' = Stored(q)
    OBVIOUS
  <1>1. /\ pc'[q] = pc[q] /\ Stored(q)' = Stored(q)
        /\ Shown(q)' = Shown(q) /\ Told(q)' = Told(q)
    BY SameTexts DEF Alone
  <1> QED
    BY <1>1 DEF Phase

\* A step of one request changes nothing that was promised to the others.
LEMMA PromiseStep ==
    ASSUME NEW r \in Requests, Alone(r), NEW from, NEW to,
           Phase(r) \in from, Phase(r)' = to
    PROVE  /\ Promise!Enter(r, from, to)
           /\ Shown(r)' = Shown(r) =>
                 UNCHANGED [q \in Requests |-> Shown(q)]
           /\ Stored(r)' = Stored(r) =>
                 UNCHANGED [q \in Requests |-> Stored(q)]
           /\ Told(r)' = Told(r) =>
                 UNCHANGED [q \in Requests |-> Told(q)]
  BY OtherPhases DEF Promise!Enter

LEMMA Unpromised ==
    ASSUME NEW r \in Requests, Alone(r), Phase(r)' = Phase(r),
           Shown(r)' = Shown(r), Stored(r)' = Stored(r), Told(r)' = Told(r)
    PROVE  UNCHANGED Promise!answerVars
  BY OtherPhases DEF Promise!answerVars

LEMMA PhaseOf ==
    ASSUME SseInv, NEW r \in Requests
    PROVE  /\ pc[r] = "idle" => Phase(r) = "none"
           /\ pc[r] \in Early \ {"idle"} => Phase(r) = "open"
           /\ pc[r] \in {"read", "handle"} =>
                 Phase(r) = IF Told(r) # <<>> THEN "final" ELSE "open"
           /\ pc[r] \in {"store", "done"} => Phase(r) = "final"
           /\ pc[r] = "end" => Phase(r) = "over"
           /\ Phase(r) \in {"none", "open", "final", "over"}
           /\ pc[r] # "idle" <=> Phase(r) # "none"
  BY DEF SseInv, Answering, Phase, Early

LEMMA AskPromised ==
    ASSUME SseTypes, SseInv, NEW r \in Requests, Receive(r)
    PROVE  Promise!Next
  <1>1. SseTypes' /\ SseInv' /\ Alone(r)
    BY ReceiveKeeps
  <1>2. /\ pc[r] = "idle" /\ pc'[r] = "save" /\ UNCHANGED <<messages, sent>>
    BY DEF Receive, Goto, SseTypes
  <1>3. Phase(r) = "none" /\ Phase(r)' = "open"
    BY <1>1, <1>2, PhaseOf, SameTexts DEF SseInv, Answering, Early, Phase
  <1>4. /\ Shown(r)' = Shown(r) /\ Told(r)' = Told(r) /\ Stored(r)' = Stored(r)
    BY <1>2, SameTexts, SameStored
  <1>5. Promise!Ask(r)
    BY <1>1, <1>3, <1>4, PromiseStep DEF Promise!Ask
  <1> QED
    BY <1>5 DEF Promise!Next

\* Before the stream starts, and while chunks are read, nothing is shown.
LEMMA QuietPromised ==
    ASSUME SseTypes, SseInv, NEW r \in Requests,
           \/ SaveUserMessage(r) \/ Search(r) \/ LoadHistory(r)
           \/ ReadChunk(r) \/ (Start(r) /\ UNCHANGED sent)
    PROVE  UNCHANGED Promise!answerVars
  <1>1. SseTypes' /\ SseInv' /\ Alone(r)
    BY SaveUserMessageKeeps, SearchKeeps, LoadHistoryKeeps, ReadChunkKeeps,
       StartKeeps
  <1>2. sent' = sent /\ Stored(r)' = Stored(r)
    <2>1. CASE SaveUserMessage(r)
      <3>1. size[r] \in Nat
        BY SseAssumption DEF SseTypes
      <3> QED
        BY <2>1, <3>1, EmptyText, MessageCreated DEF SaveUserMessage
    <2> QED
      BY <2>1, SameStored DEF Search, LoadHistory, ReadChunk, Start
  <1>3. Shown(r)' = Shown(r) /\ Told(r)' = Told(r)
    BY <1>2, SameTexts
  <1>4. \/ pc[r] \in Early \ {"idle"} /\ pc'[r] \in (Early \ {"idle"})
        \/ pc[r] = "start" /\ pc'[r] = "read"
        \/ pc[r] = "read" /\ pc'[r] \in {"read", "handle"}
    <2>1. CASE SaveUserMessage(r) \/ Search(r) \/ LoadHistory(r)
      BY <2>1 DEF SseTypes, SaveUserMessage, Search, LoadHistory, Goto, Early
    <2>2. CASE ReadChunk(r)
      BY <2>2 DEF SseTypes, ReadChunk, Goto
    <2>3. CASE Start(r) /\ UNCHANGED sent
      <3>1. ~Send(r, ErrorEvent)
        <4>1. sent[r] # Append(sent[r], ErrorEvent)
          <5>1. sent[r] \in Seq(Results) /\ ErrorEvent \in Results
            BY DEF SseTypes, Results
          <5> QED
            BY <5>1, AppendProperties
        <4> QED
          BY <2>3, <4>1 DEF Send, SseTypes
      <3> QED
        BY <2>3, <3>1 DEF Start, Goto, SseTypes
    <2> QED
      BY <2>1, <2>2, <2>3
  <1>5. pc[r] = "start" => Told(r) = <<>>
    BY DEF SseInv, Answering, Early
  <1>6. Phase(r)' = Phase(r)
    BY <1>3, <1>4, <1>5, PhaseOf DEF Phase, Early
  <1> QED
    BY <1>1, <1>2, <1>3, <1>6, Unpromised

LEMMA ShowPromised ==
    ASSUME SseTypes, SseInv, NEW r \in Requests, HandleEvent(r),
           Head(events[r]) # Done
    PROVE  Promise!Next
  <1> DEFINE e == Head(events[r])
  <1>1. SseTypes' /\ SseInv' /\ Alone(r)
    BY HandleTokenKeeps
  <1>2. /\ pc[r] = "handle" /\ pc'[r] \in {"read", "handle"}
        /\ Send(r, e) /\ UNCHANGED messages
        /\ events[r] # <<>> /\ events[r] \in Seq(Tokens \cup {Done})
    BY DEF SseTypes, HandleEvent, Goto, SseInv, Answering
  <1>3. e \in Tokens \cup {Done} /\ events[r][1] = e /\ 1 \in DOMAIN events[r]
    BY <1>2
  <1>4. e # Done /\ e[1] = "token" /\ e[2] \in Positions /\ e \in Results
    BY <1>3, EventFacts DEF Results
  <1> HIDE DEF e
  <1>5. /\ Shown(r)' = Append(Shown(r), e[2]) /\ Told(r)' = Told(r)
    BY <1>2, <1>4, SendOne DEF ShowEvent, TellEvent
  <1>6. Told(r) = <<>>
    <2>1. ~NoTextIn(events[r], provider[r])
      BY <1>3, <1>4 DEF NoTextIn
    <2> QED
      BY <1>2, <2>1 DEF SseInv, Answering, Final
  <1>7. Phase(r) = "open" /\ Phase(r)' = "open"
    BY <1>2, <1>5, <1>6, PhaseOf DEF Phase
  <1>8. Stored(r)' = Stored(r)
    BY <1>2, SameStored
  <1>9. /\ Promise!Enter(r, {"open"}, "open")
        /\ UNCHANGED <<[q \in Requests |-> Stored(q)],
                       [q \in Requests |-> Told(q)]>>
    BY <1>1, <1>5, <1>7, <1>8, PromiseStep
  <1> DEFINE text == [q \in Requests |-> Shown(q)]
  <1>10. text' = [text EXCEPT ![r] = text'[r]]
    BY <1>1, OtherPhases
  <1>11. text[r] = Shown(r) /\ text'[r] = Append(Shown(r), e[2])
    BY <1>5
  <1>12. Shown(r) \in Seq(Positions)
    BY DEF SseInv, Answering, SseTypes
  <1>13. /\ Len(text'[r]) = Len(text[r]) + 1
         /\ SubSeq(text'[r], 1, Len(text[r])) = text[r]
    BY <1>4, <1>11, <1>12, GrownText
  <1>14. Promise!Show(r)
    BY <1>9, <1>10, <1>13 DEF Promise!Show
  <1> QED
    BY <1>14 DEF Promise!Next

LEMMA FinishPromised ==
    ASSUME SseTypes, SseInv, NEW r \in Requests, HandleEvent(r),
           Head(events[r]) = Done
    PROVE  Promise!Next \/ UNCHANGED Promise!answerVars
  <1>1. SseTypes' /\ SseInv' /\ Alone(r)
    BY HandleDoneKeeps
  <1>2. /\ pc[r] = "handle" /\ pc'[r] = "store" /\ UNCHANGED <<messages, sent>>
    BY DEF SseTypes, HandleEvent, Goto
  <1>3. /\ Shown(r)' = Shown(r) /\ Told(r)' = Told(r) /\ Stored(r)' = Stored(r)
    BY <1>2, SameTexts, SameStored
  <1>4. Phase(r)' = "final" /\ Phase(r) \in {"open", "final"}
    BY <1>2, PhaseOf DEF Phase
  <1>5. CASE Phase(r) = "final"
    BY <1>1, <1>3, <1>4, <1>5, Unpromised
  <1>6. CASE Phase(r) = "open"
    <2>1. Promise!Finish(r)
      BY <1>1, <1>3, <1>4, <1>6, PromiseStep DEF Promise!Finish
    <2> QED
      BY <2>1 DEF Promise!Next
  <1> QED
    BY <1>4, <1>5, <1>6

LEMMA KeepPromised ==
    ASSUME SseTypes, SseInv, NEW r \in Requests, StoreAnswer(r)
    PROVE  Promise!Next \/ UNCHANGED Promise!answerVars
  <1>1. SseTypes' /\ SseInv' /\ Alone(r)
    BY StoreAnswerKeeps
  <1>2. /\ pc[r] = "store" /\ pc'[r] = "done" /\ UNCHANGED sent
    BY DEF SseTypes, StoreAnswer, Goto
  <1>3. Shown(r)' = Shown(r) /\ Told(r)' = Told(r)
    BY <1>2, SameTexts
  <1>4. Phase(r)' = "final" /\ Phase(r) = "final"
    BY <1>2, PhaseOf DEF Phase
  <1>5. \/ Stored(r)' = Stored(r) \cup {Shown(r)}
        \/ Stored(r)' = Stored(r)
    <2>1. /\ full[r] \in SeqUpTo(Positions, MaxDeltas) /\ Len(full[r]) \in Nat
          /\ full[r] = Shown(r)
      BY TextBounded DEF SseTypes, SseInv, Answering
    <2>2. CreateMessage(r, "assistant", full[r], Len(full[r]))
      BY DEF StoreAnswer
    <2> QED
      BY <2>1, <2>2, MessageCreated
  <1>6. CASE Stored(r)' = Stored(r)
    BY <1>1, <1>3, <1>4, <1>6, Unpromised
  <1>7. CASE Stored(r)' = Stored(r) \cup {Shown(r)}
    <2> DEFINE kept == [q \in Requests |-> Stored(q)]
    <2>1. kept' = [kept EXCEPT ![r] = kept[r] \cup {[q \in Requests |-> Shown(q)][r]}]
      BY <1>1, <1>7, OtherPhases
    <2>2. /\ Promise!Enter(r, {"final"}, "final")
          /\ UNCHANGED <<[q \in Requests |-> Shown(q)],
                         [q \in Requests |-> Told(q)]>>
      BY <1>1, <1>3, <1>4, PromiseStep
    <2>3. Promise!Keep(r)
      BY <2>1, <2>2 DEF Promise!Keep
    <2> QED
      BY <2>3 DEF Promise!Next
  <1> QED
    BY <1>5, <1>6, <1>7

LEMMA CompletePromised ==
    ASSUME SseTypes, SseInv, NEW r \in Requests, SendDone(r)
    PROVE  Promise!Next
  <1>1. SseTypes' /\ SseInv' /\ Alone(r)
    BY SendDoneKeeps
  <1>2. /\ pc[r] = "done" /\ pc'[r] \in {"read", "handle"}
        /\ Send(r, Done) /\ UNCHANGED messages
    BY DEF SseTypes, SendDone, Goto
  <1>3. /\ Shown(r)' = Shown(r) /\ Told(r)' = Append(Told(r), "complete")
        /\ Stored(r)' = Stored(r)
    <2>1. Done \in Results
      BY DEF Results
    <2> QED
      BY <1>2, <2>1, SendOne, SameStored DEF ShowEvent, TellEvent, Done
  <1>4. Told(r)' # <<>>
    BY <1>3 DEF SseInv, Answering
  <1>5. Phase(r)' = "final" /\ Phase(r) = "final"
    BY <1>2, <1>4, PhaseOf DEF Phase
  <1>6. [q \in Requests |-> Stored(q)][r] # {} \/ r \in Unlucky
    BY <1>2 DEF SseInv, Answering
  <1> DEFINE told == [q \in Requests |-> Told(q)]
  <1>7. told' = [told EXCEPT ![r] = Append(told[r], "complete")]
    BY <1>1, <1>3, OtherPhases
  <1>8. /\ Promise!Enter(r, {"final"}, "final")
        /\ UNCHANGED <<[q \in Requests |-> Shown(q)],
                       [q \in Requests |-> Stored(q)]>>
    BY <1>1, <1>3, <1>5, PromiseStep
  <1>9. Promise!Complete(r)
    BY <1>6, <1>7, <1>8 DEF Promise!Complete
  <1> QED
    BY <1>9 DEF Promise!Next

LEMMA FailPromised ==
    ASSUME SseTypes, SseInv, NEW r \in Requests, Start(r) \/ ConnectionBreaks(r),
           Send(r, ErrorEvent), pc'[r] = "end"
    PROVE  Promise!Next
  <1>1. Alone(r)
    BY StartKeeps, EndKeeps
  <1>2. pc[r] \in {"start", "read"} /\ UNCHANGED messages
    BY DEF Start, ConnectionBreaks
  <1>3. /\ Shown(r)' = Shown(r) /\ Told(r)' = Append(Told(r), "error")
        /\ Stored(r)' = Stored(r)
    <2>1. ErrorEvent \in Results
      BY DEF Results
    <2> QED
      BY <1>2, <2>1, SendOne, SameStored DEF ShowEvent, TellEvent, ErrorEvent
  <1>4. Phase(r)' = "over" /\ Phase(r) \in {"open", "final"}
    BY <1>2, PhaseOf DEF Phase, Early
  <1> DEFINE told == [q \in Requests |-> Told(q)]
  <1>5. told' = [told EXCEPT ![r] = Append(told[r], "error")]
    BY <1>1, <1>3, OtherPhases
  <1>6. /\ Promise!Enter(r, {"open", "final"}, "over")
        /\ UNCHANGED <<[q \in Requests |-> Shown(q)],
                       [q \in Requests |-> Stored(q)]>>
    BY <1>1, <1>3, <1>4, PromiseStep
  <1>7. Promise!Fail(r)
    BY <1>5, <1>6 DEF Promise!Fail
  <1> QED
    BY <1>7 DEF Promise!Next

LEMMA LosePromised ==
    ASSUME SseTypes, SseInv, NEW r \in Requests, ResponseEnds(r) \/ Disconnect(r)
    PROVE  Promise!Next
  <1>1. Alone(r)
    BY EndKeeps
  <1>2. /\ pc[r] # "idle" /\ pc'[r] = "end" /\ UNCHANGED <<messages, sent>>
    BY DEF ResponseEnds, Disconnect, SseTypes, Goto
  <1>3. /\ Shown(r)' = Shown(r) /\ Told(r)' = Told(r) /\ Stored(r)' = Stored(r)
    BY <1>2, SameTexts, SameStored
  <1>4. Phase(r)' = "over" /\ Phase(r) # "none"
    BY <1>2, PhaseOf DEF Phase
  <1> DEFINE phase == [q \in Requests |-> Phase(q)]
  <1>5. phase' = [q \in Requests |-> IF q \in {r} /\ phase[q] # "none"
                                     THEN "over" ELSE phase[q]]
    BY <1>1, <1>4, OtherPhases
  <1>6. UNCHANGED <<[q \in Requests |-> Shown(q)],
                    [q \in Requests |-> Stored(q)],
                    [q \in Requests |-> Told(q)]>>
    BY <1>1, <1>3, OtherPhases
  <1>7. Promise!Lose
    <2>1. {r} \in SUBSET Requests
      OBVIOUS
    <2> QED
      BY <1>5, <1>6, <2>1 DEF Promise!Lose
  <1> QED
    BY <1>7 DEF Promise!Next

LEMMA InitPromised == Init => Promise!Init
  <1> SUFFICES ASSUME Init PROVE Promise!Init
    OBVIOUS
  <1>1. ASSUME NEW r \in Requests
        PROVE  /\ Phase(r) = "none" /\ Shown(r) = <<>> /\ Stored(r) = {}
               /\ Told(r) = <<>>
    BY SseStarts, PhaseOf DEF Init, SseInv, Answering, Early
  <1> QED
    BY <1>1 DEF Promise!Init

\* Whatever the chunks, the failures and the other requests: a client is shown
\* a text that only grows, that text and no other is stored, and the client is
\* told that the answer is complete only when it is stored.
THEOREM PromiseKept == Spec => AnswersPromised
  <1>1. ASSUME SseTypes /\ SseInv, [Next]_vars
        PROVE  [Promise!Next]_(Promise!answerVars)
    <2>1. CASE UNCHANGED vars
      <3>1. UNCHANGED <<messages, pc, sent>>
        BY <2>1 DEF vars, requestVars
      <3>2. \A q : /\ Shown(q)' = Shown(q) /\ Told(q)' = Told(q)
                   /\ Stored(q)' = Stored(q) /\ Phase(q)' = Phase(q)
        BY <3>1, SameTexts, SameStored DEF Phase
      <3> QED
        BY <3>2 DEF Promise!answerVars
    <2>2. ASSUME NEW r \in Requests, Start(r)
          PROVE  Promise!Next \/ UNCHANGED Promise!answerVars
      <3>1. \/ UNCHANGED sent
            \/ Send(r, ErrorEvent) /\ pc'[r] = "end"
        BY <1>1, <2>2 DEF Start, Goto, SseTypes
      <3> QED
        BY <1>1, <2>2, <3>1, QuietPromised, FailPromised
    <2>3. ASSUME NEW r \in Requests, ConnectionBreaks(r)
          PROVE  Promise!Next
      <3>1. Send(r, ErrorEvent) /\ pc'[r] = "end"
        BY <1>1, <2>3 DEF ConnectionBreaks, Goto, SseTypes
      <3> QED
        BY <1>1, <2>3, <3>1, FailPromised
    <2> QED
      BY <1>1, <2>1, <2>2, <2>3, AskPromised, QuietPromised, ShowPromised,
         FinishPromised, KeepPromised, CompletePromised, LosePromised DEF Next
  <1> QED
    BY <1>1, InitPromised, SseInvariant, PTL
       DEF Spec, AnswersPromised, Promise!Spec

\* What a client of the route may rely on: done is sent of a text that is
\* stored as it was shown, unless its statements may fail, and an error is
\* followed by neither done nor another error.
COROLLARY CompleteIsStored ==
    Spec => [](Promise!CompleteIsKept /\ Promise!LastWord)
  BY PromiseKept, Promise!PromiseHolds, PTL DEF AnswersPromised

=============================================================================
