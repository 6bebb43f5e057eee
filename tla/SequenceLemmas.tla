---------------------------- MODULE SequenceLemmas ----------------------------
(***************************************************************************)
(* What the proofs of several modules need of numbers and of sequences.    *)
(***************************************************************************)
EXTENDS SequencesExt, SequenceTheorems, WellFoundedInduction, TLAPS

\* A set of numbers has a least one.
LEMMA LeastNumber ==
    ASSUME NEW T \in SUBSET Nat, T # {}
    PROVE  \E x \in T : \A y \in T : x <= y
  <1> DEFINE R == OpToRel(<, Nat)
  <1>1. \E x \in T : \A y \in T : ~ (<<y, x>> \in R)
    <2>1. IsWellFoundedOn(R, Nat)
      BY NatLessThanWellFounded
    <2> HIDE DEF R
    <2> QED
      BY <2>1, WFMin
  <1>2. ASSUME NEW x \in Nat, NEW y \in Nat, ~ (<<y, x>> \in R)
        PROVE  x <= y
    BY <1>2 DEF OpToRel
  <1> QED
    BY <1>1, <1>2

-----------------------------------------------------------------------------
(* FlattenSeq, one element after the other. *)

Join(s, t) == s \o t

\* f is the flattening of the first n of seqs, at each of them.
Flattens(f, seqs, n) == f = [i \in 1..n |-> IF i = 1 THEN seqs[i] ELSE Join(f[i - 1], seqs[i])]

LEMMA FlatteningExists ==
    ASSUME NEW seqs, NEW n \in Nat
    PROVE  \E f : Flattens(f, seqs, n)
  <1> DEFINE Missing == {m \in Nat : ~ \E f : Flattens(f, seqs, m)}
  <1>1. Flattens([i \in 1..0 |-> <<>>], seqs, 0)
    BY DEF Flattens
  <1>2. ASSUME NEW m \in Nat, NEW f, Flattens(f, seqs, m)
        PROVE  \E h : Flattens(h, seqs, m + 1)
    <2> DEFINE h == [i \in 1..(m + 1) |-> IF i <= m THEN f[i]
                                          ELSE IF i = 1 THEN seqs[i] ELSE Join(f[m], seqs[i])]
    <2>1. ASSUME NEW i \in 1..(m + 1)
          PROVE  h[i] = IF i = 1 THEN seqs[i] ELSE Join(h[i - 1], seqs[i])
      <3>1. CASE i <= m
        BY <1>2, <3>1 DEF Flattens
      <3>2. CASE i = m + 1
        BY <3>2
      <3> QED
        BY <3>1, <3>2
    <2>2. Flattens(h, seqs, m + 1)
      BY <2>1 DEF Flattens
    <2> QED
      BY <2>2
  <1>3. Missing = {}
    <2> SUFFICES ASSUME Missing # {} PROVE FALSE
      OBVIOUS
    <2>1. PICK m \in Missing : \A k \in Missing : m <= k
      BY LeastNumber
    <2>2. m # 0
      BY <1>1
    <2>3. m - 1 \in Nat /\ m - 1 \notin Missing
      BY <2>1, <2>2
    <2>4. PICK f : Flattens(f, seqs, m - 1)
      BY <2>3
    <2>5. \E h : Flattens(h, seqs, (m - 1) + 1)
      BY <1>2, <2>3, <2>4
    <2> QED
      BY <2>1, <2>5
  <1> QED
    BY <1>3

\* Flattenings agree where their sequences do, and are sequences.
LEMMA FlatteningIsOne ==
    ASSUME NEW X, NEW s \in Seq(Seq(X)), NEW t \in Seq(Seq(X)), NEW n \in Nat,
           n <= Len(s), n <= Len(t), \A i \in 1..n : s[i] = t[i],
           NEW m \in Nat, n <= m, NEW f, NEW g, Flattens(f, s, n), Flattens(g, t, m)
    PROVE  \A i \in 1..n : f[i] = g[i] /\ f[i] \in Seq(X)
  <1> DEFINE Wrong == {i \in 1..n : ~(f[i] = g[i] /\ f[i] \in Seq(X))}
  <1>1. ASSUME NEW i \in 1..n
        PROVE  /\ f[i] = IF i = 1 THEN s[i] ELSE Join(f[i - 1], s[i])
               /\ g[i] = IF i = 1 THEN s[i] ELSE Join(g[i - 1], s[i])
               /\ s[i] \in Seq(X)
    <2>1. s[i] \in Seq(X)
      OBVIOUS
    <2>2. f[i] = IF i = 1 THEN s[i] ELSE Join(f[i - 1], s[i])
      BY DEF Flattens
    <2>3. i \in 1..m /\ t[i] = s[i]
      OBVIOUS
    <2>4. g[i] = IF i = 1 THEN t[i] ELSE Join(g[i - 1], t[i])
      BY <2>3 DEF Flattens
    <2> QED
      BY <2>1, <2>2, <2>3, <2>4
  <1>2. Wrong = {}
    <2> SUFFICES ASSUME Wrong # {} PROVE FALSE
      OBVIOUS
    <2>1. PICK i \in Wrong : \A k \in Wrong : i <= k
      <3>1. Wrong \in SUBSET Nat
        OBVIOUS
      <3> QED
        BY <3>1, LeastNumber
    <2>2. i # 1
      BY <1>1
    <2>3. i - 1 \in 1..n /\ i - 1 \notin Wrong
      BY <2>1, <2>2
    <2>4. f[i - 1] = g[i - 1] /\ f[i - 1] \in Seq(X)
      BY <2>3
    <2>5. Join(f[i - 1], s[i]) \in Seq(X)
      BY <1>1, <2>4, ConcatProperties DEF Join
    <2>6. /\ f[i] = Join(f[i - 1], s[i]) /\ g[i] = Join(g[i - 1], s[i])
      BY <1>1, <2>2
    <2>7. f[i] = g[i] /\ f[i] \in Seq(X)
      BY <2>4, <2>5, <2>6
    <2> QED
      BY <2>1, <2>7
  <1> QED
    BY <1>2

LEMMA FlattenOfNothing == FlattenSeq(<<>>) = <<>>
  BY DEF FlattenSeq

LEMMA FlattenTyped ==
    ASSUME NEW X, NEW s \in Seq(Seq(X))
    PROVE  FlattenSeq(s) \in Seq(X)
  <1>1. CASE Len(s) = 0
    BY <1>1 DEF FlattenSeq
  <1>2. CASE Len(s) # 0
    <2> DEFINE f == CHOOSE g : Flattens(g, s, Len(s))
    <2>1. Flattens(f, s, Len(s))
      <3>1. Len(s) \in Nat
        OBVIOUS
      <3>2. \E g : Flattens(g, s, Len(s))
        BY <3>1, FlatteningExists
      <3> QED
        BY <3>2
    <2>2. FlattenSeq(s) = f[Len(s)]
      BY <1>2 DEF FlattenSeq, Flattens, Join
    <2> HIDE DEF f
    <2>3. \A i \in 1..Len(s) : f[i] \in Seq(X)
      BY <2>1, FlatteningIsOne
    <2> QED
      BY <1>2, <2>2, <2>3
  <1> QED
    BY <1>1, <1>2

LEMMA FlattenOneMore ==
    ASSUME NEW X, NEW s \in Seq(Seq(X)), NEW x \in Seq(X)
    PROVE  FlattenSeq(Append(s, x)) = FlattenSeq(s) \o x
  <1> DEFINE t == Append(s, x)
             n == Len(s)
             f == CHOOSE g : Flattens(g, s, n)
             h == CHOOSE g : Flattens(g, t, n + 1)
  <1>0. n \in Nat
    OBVIOUS
  <1>1. /\ t \in Seq(Seq(X)) /\ Len(t) = n + 1 /\ t[n + 1] = x
        /\ \A i \in 1..n : t[i] = s[i]
    BY AppendProperties
  <1>2. Flattens(f, s, n) /\ Flattens(h, t, n + 1)
    <2>1. n \in Nat /\ n + 1 \in Nat
      BY <1>0
    <2>2. (\E g : Flattens(g, s, n)) /\ (\E g : Flattens(g, t, n + 1))
      BY <2>1, FlatteningExists
    <2> QED
      BY <2>2
  <1>3. FlattenSeq(t) = h[n + 1]
    <2>1. Len(t) = n + 1 /\ Len(t) # 0
      BY <1>0, <1>1
    <2> HIDE DEF t, n
    <2> QED
      BY <2>1 DEF FlattenSeq, Flattens, Join
  <1>4. n # 0 => FlattenSeq(s) = f[n]
    BY DEF FlattenSeq, Flattens, Join
  <1> HIDE DEF t, n, f, h
  <1>5. h[n + 1] = IF n = 0 THEN x ELSE Join(h[n], x)
    <2>1. h[n + 1] = IF n + 1 = 1 THEN t[n + 1] ELSE Join(h[(n + 1) - 1], t[n + 1])
      <3>1. n + 1 \in 1..(n + 1)
        BY <1>0
      <3> QED
        BY <1>2, <3>1 DEF Flattens
    <2>2. (n + 1) - 1 = n /\ (n + 1 = 1 <=> n = 0)
      BY <1>0
    <2> QED
      BY <1>1, <2>1, <2>2
  <1>6. CASE n = 0
    <2>1. s = <<>>
      BY <1>6 DEF n
    <2>2. <<>> \o x = x
      BY ConcatEmptySeq
    <2> QED
      BY <1>3, <1>5, <1>6, <2>1, <2>2, FlattenOfNothing DEF t
  <1>7. CASE n # 0
    <2>1. \A i \in 1..n : f[i] = h[i]
      <3>1. n <= Len(s) /\ n <= Len(t) /\ n <= n + 1 /\ n + 1 \in Nat /\ \A i \in 1..n : s[i] = t[i]
        BY <1>0, <1>1 DEF n
      <3>2. t \in Seq(Seq(X))
        BY <1>1
      <3>3. \A i \in 1..n : f[i] = h[i] /\ f[i] \in Seq(X)
        BY <1>0, <1>2, <3>1, <3>2, FlatteningIsOne, Zenon
      <3> QED
        BY <3>3
    <2>2. f[n] = h[n]
      BY <1>0, <1>7, <2>1
    <2> QED
      BY <1>3, <1>4, <1>5, <1>7, <2>2 DEF t, Join
  <1> QED
    BY <1>6, <1>7
\* Induction over sequences, as a fact about the set of those that are right.
LEMMA EverySequence ==
    ASSUME NEW X, NEW T \in SUBSET Seq(X), <<>> \in T,
           \A s \in T : \A x \in X : Append(s, x) \in T
    PROVE  T = Seq(X)
  <1> DEFINE Wrong == {Len(s) : s \in Seq(X) \ T}
  <1>1. SUFFICES ASSUME Wrong # {} PROVE FALSE
    OBVIOUS
  <1>2. PICK n \in Wrong : \A m \in Wrong : n <= m
    <2>1. Wrong \in SUBSET Nat
      BY LenProperties
    <2> HIDE DEF Wrong
    <2> QED
      BY <1>1, <2>1, LeastNumber
  <1>3. PICK s \in Seq(X) \ T : Len(s) = n
    BY <1>2
  <1>4. s # <<>>
    BY <1>3
  <1>5. PICK t \in Seq(X), x \in X : s = Append(t, x)
    BY <1>3, <1>4, SequenceEmptyOrAppend
  <1>6. Len(t) \in Nat /\ n = Len(t) + 1
    BY <1>3, <1>5, AppendProperties, LenProperties
  <1>7. t \in T
    <2>1. t \notin T => Len(t) \in Wrong
      OBVIOUS
    <2>2. Len(t) \notin Wrong
      <3> HIDE DEF Wrong
      <3> QED
        BY <1>2, <1>6
    <2> QED
      BY <2>1, <2>2
  <1> QED
    BY <1>3, <1>5, <1>7

LEMMA FlattenOfOne ==
    ASSUME NEW x
    PROVE  FlattenSeq(<<x>>) = x
  <1> DEFINE f == CHOOSE g : Flattens(g, <<x>>, 1)
  <1>1. Flattens(f, <<x>>, 1)
    BY FlatteningExists
  <1>2. FlattenSeq(<<x>>) = f[1]
    BY DEF FlattenSeq, Flattens, Join
  <1> HIDE DEF f
  <1> QED
    BY <1>1, <1>2 DEF Flattens

LEMMA FlattenJoin ==
    ASSUME NEW X, NEW s \in Seq(Seq(X)), NEW t \in Seq(Seq(X))
    PROVE  FlattenSeq(s \o t) = FlattenSeq(s) \o FlattenSeq(t)
  <1> DEFINE T == {u \in Seq(Seq(X)) : FlattenSeq(s \o u) = FlattenSeq(s) \o FlattenSeq(u)}
  <1>1. <<>> \in T
    BY FlattenOfNothing, FlattenTyped, ConcatEmptySeq, EmptySeq
  <1>2. ASSUME NEW u \in T, NEW x \in Seq(X) PROVE Append(u, x) \in T
    <2>1. s \o Append(u, x) = Append(s \o u, x)
      <3>1. Append(u, x) = u \o <<x>> /\ Append(s \o u, x) = (s \o u) \o <<x>> /\ <<x>> \in Seq(Seq(X))
        BY AppendIsConcat, ConcatProperties
      <3> QED
        BY <3>1, ConcatAssociative
    <2>2. FlattenSeq(Append(s \o u, x)) = FlattenSeq(s \o u) \o x
      BY FlattenOneMore, ConcatProperties
    <2>3. FlattenSeq(Append(u, x)) = FlattenSeq(u) \o x
      BY FlattenOneMore
    <2>4. (FlattenSeq(s) \o FlattenSeq(u)) \o x = FlattenSeq(s) \o (FlattenSeq(u) \o x)
      BY FlattenTyped, ConcatAssociative
    <2>5. Append(u, x) \in Seq(Seq(X))
      BY AppendProperties
    <2> QED
      BY <2>1, <2>2, <2>3, <2>4, <2>5
  <1>3. T = Seq(Seq(X))
    <2> HIDE DEF T
    <2>1. T \in SUBSET Seq(Seq(X))
      BY DEF T
    <2> QED
      BY <1>1, <1>2, <2>1, EverySequence
  <1> QED
    BY <1>3

-----------------------------------------------------------------------------
(* What the elements of a sequence come to under a function, one after the *)
(* other.                                                                  *)

Images(g, s) == FlattenSeq([i \in DOMAIN s |-> g[s[i]]])

LEMMA ImagesTyped ==
    ASSUME NEW X, NEW Y, NEW g \in [X -> Seq(Y)], NEW s \in Seq(X)
    PROVE  [i \in DOMAIN s |-> g[s[i]]] \in Seq(Seq(Y)) /\ Images(g, s) \in Seq(Y)
  <1>1. [i \in 1..Len(s) |-> g[s[i]]] \in Seq(Seq(Y)) /\ DOMAIN s = 1..Len(s)
    BY IsASeq, LenProperties, ElementOfSeq
  <1> QED
    BY <1>1, FlattenTyped DEF Images

LEMMA ImagesOfFew ==
    ASSUME NEW g, NEW x
    PROVE  Images(g, <<>>) = <<>> /\ Images(g, <<x>>) = g[x]
  <1>1. [i \in DOMAIN <<>> |-> g[<<>>[i]]] = <<>>
    OBVIOUS
  <1>2. [i \in DOMAIN <<x>> |-> g[<<x>>[i]]] = <<g[x]>>
    OBVIOUS
  <1> QED
    BY <1>1, <1>2, FlattenOfNothing, FlattenOfOne DEF Images

LEMMA ImagesOneMore ==
    ASSUME NEW g, NEW X, NEW Y, g \in [X -> Seq(Y)], NEW s \in Seq(X), NEW x \in X
    PROVE  Images(g, Append(s, x)) = Images(g, s) \o g[x]
  <1> DEFINE a == [i \in DOMAIN s |-> g[s[i]]]
             t == Append(s, x)
  <1>1. a \in Seq(Seq(Y)) /\ g[x] \in Seq(Y) /\ Len(s) \in Nat /\ DOMAIN s = 1..Len(s) /\ DOMAIN a = DOMAIN s
    <2>1. a \in Seq(Seq(Y))
      BY ImagesTyped
    <2>2. Len(s) \in Nat /\ DOMAIN s = 1..Len(s)
      BY LenProperties
    <2> QED
      BY <2>1, <2>2
  <1>2. Len(a) = Len(s)
    BY <1>1, LenProperties
  <1>3. /\ DOMAIN t = 1..(Len(s) + 1) /\ t[Len(s) + 1] = x
        /\ \A i \in 1..Len(s) : t[i] = s[i]
    BY AppendProperties, LenProperties
  <1>4. [i \in DOMAIN t |-> g[t[i]]] = Append(a, g[x])
    <2> DEFINE b == [i \in DOMAIN t |-> g[t[i]]]
               c == Append(a, g[x])
    <2>1. /\ c \in Seq(Seq(Y)) /\ Len(c) = Len(s) + 1 /\ c[Len(s) + 1] = g[x]
          /\ \A i \in 1..Len(s) : c[i] = g[s[i]]
      <3> HIDE DEF a
      <3>1. /\ c \in Seq(Seq(Y)) /\ Len(c) = Len(a) + 1 /\ c[Len(a) + 1] = g[x]
            /\ \A i \in 1..Len(a) : c[i] = a[i]
        BY <1>1, AppendProperties
      <3> QED
        BY <1>1, <1>2, <3>1 DEF a
    <2>2. c = [i \in 1..(Len(s) + 1) |-> c[i]]
      BY <2>1, LenProperties
    <2> HIDE DEF c, t
    <2>3. \A i \in 1..(Len(s) + 1) : g[t[i]] = c[i]
      BY <1>1, <1>3, <2>1
    <2> QED
      BY <1>3, <2>2, <2>3
  <1> HIDE DEF a
  <1> QED
    BY <1>1, <1>4, FlattenOneMore DEF Images, a

LEMMA ImagesJoin ==
    ASSUME NEW g, NEW X, NEW Y, g \in [X -> Seq(Y)], NEW s \in Seq(X), NEW t \in Seq(X)
    PROVE  Images(g, s \o t) = Images(g, s) \o Images(g, t)
  <1> DEFINE T == {u \in Seq(X) : Images(g, s \o u) = Images(g, s) \o Images(g, u)}
  <1>1. <<>> \in T
    <2>1. Images(g, s) \in Seq(Y) /\ Images(g, <<>>) = <<>> /\ <<>> \in Seq(X)
      BY ImagesOfFew, ImagesTyped, EmptySeq
    <2>2. s \o <<>> = s /\ Images(g, s) \o <<>> = Images(g, s)
      BY <2>1, ConcatEmptySeq
    <2> QED
      BY <2>1, <2>2
  <1>2. ASSUME NEW u \in T, NEW x \in X PROVE Append(u, x) \in T
    <2>1. s \o Append(u, x) = Append(s \o u, x)
      <3>1. Append(u, x) = u \o <<x>> /\ Append(s \o u, x) = (s \o u) \o <<x>> /\ <<x>> \in Seq(X)
        BY AppendIsConcat, ConcatProperties
      <3> QED
        BY <3>1, ConcatAssociative
    <2>2. Images(g, Append(s \o u, x)) = Images(g, s \o u) \o g[x]
      <3>1. s \o u \in Seq(X)
        BY ConcatProperties
      <3> HIDE DEF T
      <3> QED
        BY <3>1, ImagesOneMore
    <2>3. Images(g, Append(u, x)) = Images(g, u) \o g[x]
      BY ImagesOneMore
    <2>4. (Images(g, s) \o Images(g, u)) \o g[x] = Images(g, s) \o (Images(g, u) \o g[x])
      BY ImagesTyped, ConcatAssociative
    <2>5. Append(u, x) \in Seq(X)
      BY AppendProperties
    <2> QED
      BY <2>1, <2>2, <2>3, <2>4, <2>5
  <1>3. T = Seq(X)
    <2> HIDE DEF T
    <2>1. T \in SUBSET Seq(X)
      BY DEF T
    <2> QED
      BY <1>1, <1>2, <2>1, EverySequence
  <1> QED
    BY <1>3

LEMMA ImagesOfFlat ==
    ASSUME NEW X, NEW Y, NEW g \in [X -> Seq(Y)], NEW ss \in Seq(Seq(X))
    PROVE  Images(g, FlattenSeq(ss)) = FlattenSeq([i \in DOMAIN ss |-> Images(g, ss[i])])
  <1>0. \A s, t \in Seq(X) : Images(g, s \o t) = Images(g, s) \o Images(g, t)
    BY ImagesJoin
  <1> DEFINE h == [s \in Seq(X) |-> Images(g, s)]
             T == {u \in Seq(Seq(X)) : Images(g, FlattenSeq(u)) = Images(h, u)}
  <1>1. h \in [Seq(X) -> Seq(Y)]
    BY ImagesTyped
  <1>2. <<>> \in T
    BY ImagesOfFew, FlattenOfNothing, EmptySeq
  <1>3. ASSUME NEW u \in T, NEW x \in Seq(X) PROVE Append(u, x) \in T
    <2>1. FlattenSeq(Append(u, x)) = FlattenSeq(u) \o x
      BY FlattenOneMore
    <2>2. Images(g, FlattenSeq(u) \o x) = Images(g, FlattenSeq(u)) \o Images(g, x)
      <3>1. FlattenSeq(u) \in Seq(X)
        BY FlattenTyped
      <3> HIDE DEF T
      <3> QED
        BY <1>0, <3>1
    <2>3. Images(h, Append(u, x)) = Images(h, u) \o h[x]
      <3> HIDE DEF h
      <3> QED
        BY <1>1, ImagesOneMore
    <2>4. Append(u, x) \in Seq(Seq(X))
      BY AppendProperties
    <2> QED
      BY <2>1, <2>2, <2>3, <2>4
  <1>4. T = Seq(Seq(X))
    <2> HIDE DEF T
    <2>1. T \in SUBSET Seq(Seq(X))
      BY DEF T
    <2> QED
      BY <1>2, <1>3, <2>1, EverySequence
  <1>5. \A i \in DOMAIN ss : h[ss[i]] = Images(g, ss[i])
    BY ElementOfSeq, LenProperties
  <1>6. Images(h, ss) = FlattenSeq([i \in DOMAIN ss |-> Images(g, ss[i])])
    BY <1>5 DEF Images
  <1> QED
    BY <1>4, <1>6

LEMMA ListOf ==
    ASSUME NEW n \in Nat, NEW X, NEW s, s = [i \in 1..n |-> s[i]], \A i \in 1..n : s[i] \in X
    PROVE  s \in Seq(X) /\ Len(s) = n /\ DOMAIN s = 1..n
  <1>1. s \in Seq(X)
    BY IsASeq
  <1> QED
    BY <1>1, LenProperties

\* When each element comes to one, or to none.
OneEach(g, s, v) == Len(s) = Len(v) /\ \A i \in 1..Len(s) : g[s[i]] = <<v[i]>>

LEMMA ImagesOneEach ==
    ASSUME NEW g, NEW X, NEW Y, g \in [X -> Seq(Y)], NEW s \in Seq(X),
           NEW v \in Seq(Y), OneEach(g, s, v)
    PROVE  Images(g, s) = v
  <1> USE DEF OneEach
  <1> DEFINE One == [y \in Y |-> <<y>>]
             T == {u \in Seq(Y) : Images(One, u) = u}
  <1>1. One \in [Y -> Seq(Y)]
    OBVIOUS
  <1>2. <<>> \in T
    BY ImagesOfFew, EmptySeq
  <1>3. ASSUME NEW u \in T, NEW y \in Y PROVE Append(u, y) \in T
    <2>1. u \in Seq(Y) /\ Images(One, u) = u /\ Append(u, y) \in Seq(Y) /\ u \o <<y>> = Append(u, y)
      BY AppendProperties
    <2>2. One[y] = <<y>>
      OBVIOUS
    <2> HIDE DEF T, One
    <2>3. Images(One, Append(u, y)) = Images(One, u) \o One[y]
      BY <1>1, <2>1, ImagesOneMore
    <2> QED
      BY <2>1, <2>2, <2>3 DEF T
  <1>4. T = Seq(Y)
    <2> HIDE DEF T
    <2>1. T \in SUBSET Seq(Y)
      BY DEF T
    <2> QED
      BY <1>2, <1>3, <2>1, EverySequence
  <1>5. Len(s) \in Nat /\ DOMAIN s = 1..Len(s)
    BY LenProperties
  <1>6. DOMAIN v = 1..Len(s) /\ \A i \in 1..Len(s) : v[i] \in Y
    BY LenProperties, ElementOfSeq
  <1>7. [i \in DOMAIN v |-> One[v[i]]] = [i \in DOMAIN s |-> g[s[i]]]
    BY <1>5, <1>6
  <1>8. Images(One, v) = v
    BY <1>4, <1>6
  <1> HIDE DEF One
  <1> QED
    BY <1>7, <1>8 DEF Images

LEMMA ImagesNoneEach ==
    ASSUME NEW g, NEW X, NEW Y, g \in [X -> Seq(Y)], NEW s \in Seq(X), NEW n, n = Len(s),
           \A i \in 1..n : g[s[i]] = <<>>
    PROVE  Images(g, s) = <<>>
  <1> DEFINE T == {u \in Seq(X) : (\A i \in 1..Len(u) : g[u[i]] = <<>>) => Images(g, u) = <<>>}
  <1>1. <<>> \in T
    BY ImagesOfFew, EmptySeq
  <1>2. ASSUME NEW u \in T, NEW x \in X PROVE Append(u, x) \in T
    <2>1. u \in Seq(X) /\ Append(u, x) \in Seq(X)
      BY AppendProperties
    <2>2. SUFFICES ASSUME \A i \in 1..Len(Append(u, x)) : g[Append(u, x)[i]] = <<>>
                   PROVE  Images(g, Append(u, x)) = <<>>
      BY <2>1
    <2>3. (\A i \in 1..Len(u) : g[u[i]] = <<>>) /\ g[x] = <<>>
      <3>1. /\ Len(Append(u, x)) = Len(u) + 1 /\ Len(u) \in Nat /\ Append(u, x)[Len(u) + 1] = x
            /\ \A i \in 1..Len(u) : Append(u, x)[i] = u[i]
        BY <2>1, AppendProperties, LenProperties
      <3> HIDE DEF T
      <3> QED
        BY <2>2, <3>1
    <2>4. Images(g, u) = <<>>
      BY <2>3
    <2> HIDE DEF T
    <2>5. Images(g, Append(u, x)) = Images(g, u) \o g[x]
      BY <2>1, ImagesOneMore
    <2> QED
      BY <2>3, <2>4, <2>5
  <1>3. T = Seq(X)
    <2> HIDE DEF T
    <2>1. T \in SUBSET Seq(X)
      BY DEF T
    <2> QED
      BY <1>1, <1>2, <2>1, EverySequence
  <1>4. s \in T
    BY <1>3
  <1> QED
    BY <1>4

\* What an element comes to is there.
HasIn(s, x) == \E i \in DOMAIN s : s[i] = x

LEMMA ImagesHold ==
    ASSUME NEW g, NEW X, NEW Y, g \in [X -> Seq(Y)], NEW s \in Seq(X), NEW e, HasIn(s, e), NEW y, HasIn(g[e], y)
    PROVE  HasIn(Images(g, s), y)
  <1> DEFINE Holds(u, n, m) == \E j \in 1..Len(Images(g, u)) : Images(g, u)[j] = g[u[n]][m]
             T == {u \in Seq(X) : \A n \in 1..Len(u) : \A m \in 1..Len(g[u[n]]) : Holds(u, n, m)}
  <1>1. <<>> \in T
    BY EmptySeq
  <1>2. ASSUME NEW u \in T, NEW x \in X PROVE Append(u, x) \in T
    <2> DEFINE t == Append(u, x)
               w == Images(g, u)
               z == Images(g, t)
    <2>1. u \in Seq(X) /\ t \in Seq(X) /\ Len(t) = Len(u) + 1 /\ Len(u) \in Nat
      BY AppendProperties, LenProperties
    <2>2. (\A n \in 1..Len(u) : t[n] = u[n]) /\ t[Len(t)] = x
      BY <2>1, AppendProperties
    <2>3. \A n \in 1..Len(u) : \A m \in 1..Len(g[u[n]]) : Holds(u, n, m)
      OBVIOUS
    <2> HIDE DEF T, t
    <2>4. z = w \o g[x]
      BY <2>1, ImagesOneMore DEF t
    <2>5. w \in Seq(Y) /\ g[x] \in Seq(Y)
      BY <2>1, ImagesTyped
    <2> HIDE DEF w, z
    <2>6. Len(z) = Len(w) + Len(g[x]) /\ Len(w) \in Nat /\ Len(g[x]) \in Nat
      BY <2>4, <2>5
    <2>7. (\A j \in 1..Len(w) : z[j] = w[j]) /\ (\A m \in 1..Len(g[x]) : z[Len(w) + m] = g[x][m])
      BY <2>4, <2>5, <2>6
    <2>8. ASSUME NEW n \in 1..Len(t), NEW m \in 1..Len(g[t[n]]) PROVE \E j \in 1..Len(z) : z[j] = g[t[n]][m]
      <3>1. CASE n \in 1..Len(u)
        <4>1. t[n] = u[n]
          BY <2>2, <3>1
        <4>2. PICK j \in 1..Len(w) : w[j] = g[u[n]][m]
          BY <2>3, <3>1, <4>1 DEF w
        <4> QED
          BY <2>6, <2>7, <4>1, <4>2
      <3>2. CASE n = Len(t)
        <4>1. m \in 1..Len(g[x]) /\ t[n] = x
          BY <2>2, <3>2
        <4>2. Len(w) + m \in 1..Len(z)
          BY <2>6, <4>1
        <4> QED
          BY <2>7, <4>1, <4>2
      <3> QED
        BY <2>1, <3>1, <3>2
    <2> QED
      BY <2>1, <2>8 DEF T, t, z
  <1>3. T = Seq(X)
    <2> HIDE DEF T
    <2>1. T \in SUBSET Seq(X)
      BY DEF T
    <2> QED
      BY <1>1, <1>2, <2>1, EverySequence
  <1>4. PICK i \in DOMAIN s, k \in DOMAIN g[e] : s[i] = e /\ g[e][k] = y
    BY DEF HasIn
  <1>5. i \in 1..Len(s) /\ k \in 1..Len(g[s[i]])
    <2>1. DOMAIN s = 1..Len(s) /\ s[i] \in X
      BY LenProperties, ElementOfSeq
    <2>2. g[e] \in Seq(Y)
      BY <1>4, <2>1
    <2>3. DOMAIN g[e] = 1..Len(g[e])
      BY <2>2, LenProperties
    <2> QED
      BY <1>4, <2>1, <2>3
  <1>6. Holds(s, i, k)
    BY <1>3, <1>5
  <1>7. Images(g, s) \in Seq(Y)
    BY ImagesTyped
  <1>8. DOMAIN Images(g, s) = 1..Len(Images(g, s))
    BY <1>7, LenProperties
  <1> QED
    BY <1>4, <1>8, <1>6 DEF HasIn

\* Images of images are images.
ImageOf(h, f, g, X) == \A x \in X : h[x] = Images(f, g[x])

LEMMA ImagesOfImages ==
    ASSUME NEW f, NEW g, NEW h, NEW X, NEW Y, NEW Z, g \in [X -> Seq(Y)], f \in [Y -> Seq(Z)],
           ImageOf(h, f, g, X), NEW s \in Seq(X)
    PROVE  Images(f, Images(g, s)) = Images(h, s)
  <1> DEFINE ss == [i \in DOMAIN s |-> g[s[i]]]
  <1>1. ss \in Seq(Seq(Y)) /\ Images(g, s) = FlattenSeq(ss)
    <2>1. ss \in Seq(Seq(Y))
      BY ImagesTyped
    <2> QED
      BY <2>1 DEF Images
  <1>2. \A i \in DOMAIN s : s[i] \in X
    BY LenProperties, ElementOfSeq
  <1>3. \A i \in DOMAIN s : Images(f, ss[i]) = h[s[i]]
    BY <1>2 DEF ImageOf
  <1>4. DOMAIN ss = DOMAIN s
    OBVIOUS
  <1> HIDE DEF ss
  <1>5. Images(f, FlattenSeq(ss)) = FlattenSeq([i \in DOMAIN ss |-> Images(f, ss[i])])
    BY <1>1, ImagesOfFlat
  <1>6. [i \in DOMAIN ss |-> Images(f, ss[i])] = [i \in DOMAIN s |-> h[s[i]]]
    BY <1>3, <1>4
  <1> QED
    BY <1>1, <1>5, <1>6 DEF Images

\* What is in a part of a sequence is in it.
LEMMA HasInJoin ==
    ASSUME NEW X, NEW s \in Seq(X), NEW t \in Seq(X), NEW x
    PROVE  /\ HasIn(s, x) => HasIn(s \o t, x)
           /\ HasIn(t, x) => HasIn(s \o t, x)
  <1>1. /\ DOMAIN s = 1..Len(s) /\ DOMAIN t = 1..Len(t) /\ DOMAIN (s \o t) = 1..(Len(s) + Len(t))
        /\ Len(s) \in Nat /\ Len(t) \in Nat
        /\ \A i \in 1..Len(s) : (s \o t)[i] = s[i]
        /\ \A i \in 1..Len(t) : (s \o t)[Len(s) + i] = t[i]
    BY ConcatProperties, LenProperties
  <1>2. HasIn(s, x) => HasIn(s \o t, x)
    BY <1>1 DEF HasIn
  <1>3. ASSUME NEW i \in DOMAIN t, t[i] = x PROVE HasIn(s \o t, x)
    <2>1. Len(s) + i \in DOMAIN (s \o t) /\ (s \o t)[Len(s) + i] = x
      BY <1>1, <1>3
    <2> QED
      BY <2>1 DEF HasIn
  <1> QED
    BY <1>2, <1>3 DEF HasIn

\* Induction over the first numbers, in the same way.
LEMMA EveryNumber ==
    ASSUME NEW n \in Nat, NEW T \in SUBSET (0..n), 0 \in T, \A i \in T : i < n => i + 1 \in T
    PROVE  T = 0..n
  <1> DEFINE Wrong == (0..n) \ T
  <1>1. SUFFICES ASSUME Wrong # {} PROVE FALSE
    OBVIOUS
  <1>2. PICK m \in Wrong : \A k \in Wrong : m <= k
    <2>1. Wrong \in SUBSET Nat
      OBVIOUS
    <2> QED
      BY <1>1, <2>1, LeastNumber
  <1>3. m # 0 /\ m - 1 \in 0..n /\ m - 1 < n
    BY <1>2
  <1>4. m - 1 \in T
    BY <1>2, <1>3
  <1>5. (m - 1) + 1 \in T
    BY <1>3, <1>4
  <1> QED
    BY <1>2, <1>5

\* A loop over the numbers up to n whose steps stay in S runs, and stays in S.
Steps(step, S, n) == step \in [S \X (1..n) -> S]

LoopOf(f, base, step, n) == f = [i \in 0..n |-> IF i = 0 THEN base ELSE step[<<f[i - 1], i>>]]

LEMMA LoopRuns ==
    ASSUME NEW step, NEW S, NEW n, NEW base, base \in S, n \in Nat, Steps(step, S, n)
    PROVE  \E f : LoopOf(f, base, step, n)
  <1> USE DEF Steps
  <1> DEFINE Runs(f, m) == \A i \in 0..m : f[i] = IF i = 0 THEN base ELSE step[<<f[i - 1], i>>]
             T == {m \in 0..n : \E f \in [0..m -> S] : Runs(f, m)}
  <1>1. 0 \in T
    <2> DEFINE f == [i \in 0..0 |-> base]
    <2>1. Runs(f, 0) /\ f \in [0..0 -> S] /\ 0 \in 0..n
      OBVIOUS
    <2> HIDE DEF Runs, f
    <2> QED
      BY <2>1
  <1>2. ASSUME NEW m \in T, m < n PROVE m + 1 \in T
    <2>1. PICK f \in [0..m -> S] : Runs(f, m)
      OBVIOUS
    <2> DEFINE v == step[<<f[m], m + 1>>]
               h == [i \in 0..(m + 1) |-> IF i <= m THEN f[i] ELSE v]
    <2>2. m \in Nat /\ m + 1 \in 1..n /\ f[m] \in S /\ v \in S
      BY <1>2
    <2> HIDE DEF v
    <2>3. h \in [0..(m + 1) -> S]
      BY <2>2
    <2>4. ASSUME NEW i \in 0..(m + 1)
          PROVE  h[i] = IF i = 0 THEN base ELSE step[<<h[i - 1], i>>]
      <3>1. CASE i <= m
        <4>1. f[i] = IF i = 0 THEN base ELSE step[<<f[i - 1], i>>]
          BY <2>1, <2>2, <3>1
        <4>2. i # 0 => h[i - 1] = f[i - 1]
          BY <2>2, <3>1
        <4> QED
          BY <2>2, <3>1, <4>1, <4>2
      <3>2. CASE i = m + 1
        <4>1. h[i] = v /\ i # 0 /\ h[i - 1] = f[m]
          BY <2>2, <3>2
        <4> QED
          BY <3>2, <4>1 DEF v
      <3> QED
        BY <2>2, <3>1, <3>2
    <2> HIDE DEF h
    <2>5. Runs(h, m + 1)
      BY <2>4
    <2>6. m + 1 \in 0..n
      BY <1>2, <2>2
    <2> HIDE DEF Runs
    <2> QED
      BY <2>3, <2>5, <2>6
  <1>3. T = 0..n
    <2> HIDE DEF T
    <2>1. T \in SUBSET (0..n)
      BY DEF T
    <2> QED
      BY <1>1, <1>2, <2>1, EveryNumber
  <1>4. n \in T
    BY <1>3
  <1>5. PICK f \in [0..n -> S] : Runs(f, n)
    BY <1>4
  <1>6. f = [i \in 0..n |-> IF i = 0 THEN base ELSE step[<<f[i - 1], i>>]]
    BY <1>5
  <1> QED
    BY <1>6 DEF LoopOf

LEMMA LoopStays ==
    ASSUME NEW step, NEW S, NEW n, NEW base, base \in S, n \in Nat, Steps(step, S, n),
           NEW read, read[0] = base, \A i \in 1..n : read[i - 1] \in S => read[i] = step[<<read[i - 1], i>>]
    PROVE  \A i \in 0..n : read[i] \in S
  <1> DEFINE T == {i \in 0..n : read[i] \in S}
  <1>1. 0 \in T
    OBVIOUS
  <1>2. ASSUME NEW i \in T, i < n PROVE i + 1 \in T
    <2>1. i + 1 \in 0..n /\ i + 1 \in 1..n /\ (i + 1) - 1 = i
      BY <1>2
    <2>2. read[i + 1] = step[<<read[i], i + 1>>]
      BY <2>1
    <2>3. step[<<read[i], i + 1>>] \in S
      BY <2>1 DEF Steps
    <2> QED
      BY <2>1, <2>2, <2>3
  <1>3. T = 0..n
    <2> HIDE DEF T
    <2>1. T \in SUBSET (0..n)
      BY DEF T
    <2> QED
      BY <1>1, <1>2, <2>1, EveryNumber
  <1> QED
    BY <1>3
===============================================================================
