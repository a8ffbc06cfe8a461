----------------------------- MODULE ListLemmas -----------------------------
(***************************************************************************)
(* Facts about sequences without repetitions, which stand for the kernel's *)
(* lists in the other modules; least elements, induction and recursion on  *)
(* numbers, without operator parameters; and joined, reversed and flattened*)
(* sequences.                                                              *)
(***************************************************************************)
EXTENDS Integers, SequencesExt, SequenceTheorems, WellFoundedInduction, TLAPS

\* Removing the element at position k moves the later ones one place forward.
LEMMA RemoveAtProperties ==
  ASSUME NEW S, NEW l \in Seq(S), NEW k \in 1 .. Len(l)
  PROVE  /\ RemoveAt(l, k) \in Seq(S)
         /\ Len(RemoveAt(l, k)) = Len(l) - 1
         /\ \A i \in 1 .. Len(l) - 1 :
              RemoveAt(l, k)[i] = IF i < k THEN l[i] ELSE l[i + 1]
<1> DEFINE a == SubSeq(l, 1, k - 1)
           b == SubSeq(l, k + 1, Len(l))
<1>1. /\ Len(l) \in Nat
      /\ \A i \in 1 .. Len(l) : l[i] \in S
  BY LenProperties
<1>2. /\ a \in Seq(S)
      /\ Len(a) = k - 1
      /\ \A i \in 1 .. k - 1 : a[i] = l[i]
  BY <1>1, SubSeqProperties
<1>3. /\ b \in Seq(S)
      /\ Len(b) = Len(l) - k
      /\ \A i \in 1 .. Len(l) - k : b[i] = l[k + i]
  <2>1. \A i \in k + 1 .. Len(l) : l[i] \in S
    BY <1>1
  <2>2. /\ b \in Seq(S)
        /\ Len(b) = IF k + 1 <= Len(l) THEN Len(l) - (k + 1) + 1 ELSE 0
        /\ \A i \in 1 .. Len(l) - (k + 1) + 1 : b[i] = l[(k + 1) + i - 1]
    BY <2>1, <1>1, SubSeqProperties
  <2> QED
    BY <2>2, <1>1
<1>4. /\ a \o b \in Seq(S)
      /\ Len(a \o b) = Len(a) + Len(b)
      /\ \A i \in 1 .. Len(a) + Len(b) :
           (a \o b)[i] = IF i <= Len(a) THEN a[i] ELSE b[i - Len(a)]
  <2> HIDE DEF a, b
  <2> QED
    BY <1>2, <1>3, ConcatProperties
<1>5. RemoveAt(l, k) = a \o b
  BY DEF RemoveAt
<1> HIDE DEF a, b
<1>6. ASSUME NEW i \in 1 .. Len(l) - 1
      PROVE  (a \o b)[i] = IF i < k THEN l[i] ELSE l[i + 1]
  <2>1. CASE i < k
    BY <2>1, <1>1, <1>2, <1>3, <1>4
  <2>2. CASE ~(i < k)
    <3>1. (a \o b)[i] = b[i - (k - 1)] /\ i - (k - 1) \in 1 .. Len(l) - k
      BY <2>2, <1>1, <1>2, <1>3, <1>4
    <3>2. b[i - (k - 1)] = l[k + (i - (k - 1))] /\ k + (i - (k - 1)) = i + 1
      BY <3>1, <1>1, <1>3
    <3> QED
      BY <2>2, <3>1, <3>2
  <2> QED
    BY <2>1, <2>2
<1>7. Len(a) + Len(b) = Len(l) - 1
  BY <1>1, <1>2, <1>3
<1>8. \A i \in 1 .. Len(l) - 1 :
        (a \o b)[i] = IF i < k THEN l[i] ELSE l[i + 1]
  BY <1>6
<1> QED
  BY <1>4, <1>5, <1>7, <1>8

\* Removing an element of a list without repetitions leaves one without
\* repetitions that holds everything else.
LEMMA RemoveAtInjective ==
  ASSUME NEW S, NEW l \in Seq(S), IsInjective(l), NEW k \in 1 .. Len(l)
  PROVE  /\ IsInjective(RemoveAt(l, k))
         /\ Range(RemoveAt(l, k)) = Range(l) \ {l[k]}
<1> DEFINE r == RemoveAt(l, k)
<1>1. /\ Len(l) \in Nat
      /\ DOMAIN l = 1 .. Len(l)
      /\ r \in Seq(S)
      /\ Len(r) = Len(l) - 1
      /\ \A i \in 1 .. Len(l) - 1 : r[i] = IF i < k THEN l[i] ELSE l[i + 1]
  BY RemoveAtProperties, LenProperties
<1>2. DOMAIN r = 1 .. Len(l) - 1
  BY <1>1, LenProperties
<1>3. \A i, j \in 1 .. Len(l) : l[i] = l[j] => i = j
  BY <1>1 DEF IsInjective
<1> HIDE DEF r
<1>4. ASSUME NEW i \in 1 .. Len(l) - 1, NEW j \in 1 .. Len(l) - 1, r[i] = r[j]
      PROVE  i = j
  BY <1>1, <1>3, <1>4
<1>5. IsInjective(r)
  BY <1>2, <1>4 DEF IsInjective
<1>6. ASSUME NEW i \in 1 .. Len(l) - 1
      PROVE  r[i] \in Range(l) \ {l[k]}
  BY <1>1, <1>3 DEF Range
<1>7. ASSUME NEW i \in 1 .. Len(l), l[i] # l[k]
      PROVE  \E j \in 1 .. Len(l) - 1 : r[j] = l[i]
  <2>1. CASE i < k
    BY <2>1, <1>1
  <2>2. CASE i > k
    <3>1. i - 1 \in 1 .. Len(l) - 1 /\ r[i - 1] = l[i]
      BY <2>2, <1>1
    <3> QED
      BY <3>1
  <2> QED
    BY <2>1, <2>2, <1>7, <1>1
<1>8. Range(r) = Range(l) \ {l[k]}
  <2>1. ASSUME NEW x \in Range(r)
        PROVE  x \in Range(l) \ {l[k]}
    BY <1>2, <1>6 DEF Range
  <2>2. ASSUME NEW x \in Range(l) \ {l[k]}
        PROVE  x \in Range(r)
    <3>1. PICK i \in 1 .. Len(l) : x = l[i]
      BY <1>1 DEF Range
    <3>2. PICK j \in 1 .. Len(l) - 1 : r[j] = l[i]
      BY <3>1, <1>7
    <3> QED
      BY <3>1, <3>2, <1>2 DEF Range
  <2> QED
    BY <2>1, <2>2
<1> QED
  BY <1>5, <1>8 DEF r

\* Appending a new element.
LEMMA AppendInjectiveSeq ==
  ASSUME NEW S, NEW l \in Seq(S), IsInjective(l), NEW e \in S, e \notin Range(l)
  PROVE  IsInjective(Append(l, e))
<1> DEFINE r == Append(l, e)
<1>1. /\ Len(l) \in Nat
      /\ DOMAIN l = 1 .. Len(l)
      /\ DOMAIN r = 1 .. Len(l) + 1
      /\ \A i \in 1 .. Len(l) : r[i] = l[i]
      /\ r[Len(l) + 1] = e
  BY LenProperties, AppendProperties
<1>2. \A i \in 1 .. Len(l) : l[i] # e
  BY <1>1 DEF Range
<1> HIDE DEF r
<1>3. IsInjective(r)
  BY <1>1, <1>2 DEF IsInjective
<1> QED
  BY <1>3 DEF r

\* Whatever is appended, it joins the elements that were there, at the end.
LEMMA AppendRange ==
  ASSUME NEW S, NEW l \in Seq(S), NEW e \in S
  PROVE  /\ Append(l, e) \in Seq(S)
         /\ Append(l, e) # <<>>
         /\ Range(Append(l, e)) = Range(l) \cup {e}
         /\ l # <<>> => Head(Append(l, e)) = Head(l)
<1> DEFINE r == Append(l, e)
<1>1. /\ Len(l) \in Nat
      /\ DOMAIN l = 1 .. Len(l)
      /\ DOMAIN r = 1 .. Len(l) + 1
      /\ \A i \in 1 .. Len(l) : r[i] = l[i]
      /\ r[Len(l) + 1] = e
      /\ r \in Seq(S)
      /\ r # <<>>
  BY LenProperties, AppendProperties
<1>2. l # <<>> => Head(r) = Head(l)
  BY HeadTailAppend
<1> HIDE DEF r
<1>3. Range(r) = Range(l) \cup {e}
  BY <1>1 DEF Range
<1> QED
  BY <1>1, <1>2, <1>3 DEF r

\* Taking the first element off.
LEMMA TailInjective ==
  ASSUME NEW S, NEW l \in Seq(S), IsInjective(l), l # <<>>
  PROVE  /\ Tail(l) \in Seq(S)
         /\ IsInjective(Tail(l))
         /\ Head(l) \in Range(l)
         /\ Range(Tail(l)) = Range(l) \ {Head(l)}
<1> DEFINE r == Tail(l)
<1>1. /\ Len(l) \in Nat
      /\ DOMAIN l = 1 .. Len(l)
      /\ r \in Seq(S)
      /\ Len(r) = Len(l) - 1
      /\ \A i \in 1 .. Len(r) : r[i] = l[i + 1]
  BY LenProperties, HeadTailProperties
<1>2. Len(l) > 0 /\ Head(l) = l[1]
  BY EmptySeq
<1>3. DOMAIN r = 1 .. Len(l) - 1
  BY <1>1, LenProperties
<1>4. \A i, j \in 1 .. Len(l) : l[i] = l[j] => i = j
  BY <1>1 DEF IsInjective
<1> HIDE DEF r
<1>5. IsInjective(r)
  <2> SUFFICES ASSUME NEW i \in 1 .. Len(l) - 1, NEW j \in 1 .. Len(l) - 1,
                      r[i] = r[j]
               PROVE  i = j
    BY <1>3 DEF IsInjective
  <2>1. i + 1 \in 1 .. Len(l) /\ j + 1 \in 1 .. Len(l) /\ l[i + 1] = l[j + 1]
    BY <1>1, <1>2
  <2> QED
    BY <2>1, <1>4
<1>6. ASSUME NEW i \in 1 .. Len(l) - 1
      PROVE  r[i] \in Range(l) \ {l[1]}
  <2>1. i + 1 \in 1 .. Len(l) /\ r[i] = l[i + 1] /\ 1 \in 1 .. Len(l) /\ i + 1 # 1
    BY <1>1, <1>2
  <2> QED
    BY <2>1, <1>1, <1>4 DEF Range
<1>7. ASSUME NEW i \in 1 .. Len(l), l[i] # l[1]
      PROVE  \E j \in 1 .. Len(l) - 1 : r[j] = l[i]
  <2>1. i - 1 \in 1 .. Len(l) - 1 /\ r[i - 1] = l[i]
    BY <1>1, <1>7
  <2> QED
    BY <2>1
<1>8. Range(r) = Range(l) \ {l[1]}
  <2>1. ASSUME NEW x \in Range(r)
        PROVE  x \in Range(l) \ {l[1]}
    BY <1>3, <1>6 DEF Range
  <2>2. ASSUME NEW x \in Range(l) \ {l[1]}
        PROVE  x \in Range(r)
    <3>1. PICK i \in 1 .. Len(l) : x = l[i]
      BY <1>1 DEF Range
    <3>2. PICK j \in 1 .. Len(l) - 1 : r[j] = l[i]
      BY <3>1, <1>7
    <3> QED
      BY <3>1, <3>2, <1>3 DEF Range
  <2> QED
    BY <2>1, <2>2
<1>9. Head(l) \in Range(l)
  BY <1>1, <1>2 DEF Range
<1> QED
  BY <1>1, <1>2, <1>5, <1>8, <1>9 DEF r

\* The empty sequence.
LEMMA EmptyList == Range(<<>>) = {} /\ IsInjective(<<>>)
  BY DEF Range, IsInjective

\* s and t are the first and the second part of r.
Pieces(r, s, t) ==
  /\ Len(r) = Len(s) + Len(t)
  /\ \A i \in 1 .. Len(s) : r[i] = s[i]
  /\ \A i \in 1 .. Len(t) : r[i + Len(s)] = t[i]

\* Two sequences joined are the sequence they are the pieces of.
LEMMA Joined ==
  ASSUME NEW S, NEW s \in Seq(S), NEW t \in Seq(S), NEW r \in Seq(S),
         Pieces(r, s, t)
  PROVE  s \o t = r
<1>1. /\ s \o t \in Seq(S) /\ Len(s \o t) = Len(r)
      /\ \A i \in 1 .. Len(s) + Len(t) :
           (s \o t)[i] = IF i <= Len(s) THEN s[i] ELSE t[i - Len(s)]
  BY ConcatProperties DEF Pieces
<1>2. ASSUME NEW i \in 1 .. Len(r)
      PROVE  (s \o t)[i] = r[i]
  <2>1. CASE i <= Len(s)
    BY <1>1, <2>1 DEF Pieces
  <2>2. CASE ~(i <= Len(s))
    <3>1. i - Len(s) \in 1 .. Len(t) /\ (i - Len(s)) + Len(s) = i
      BY <2>2 DEF Pieces
    <3>2. r[(i - Len(s)) + Len(s)] = t[i - Len(s)]
      BY <3>1 DEF Pieces
    <3>3. (s \o t)[i] = t[i - Len(s)]
      BY <1>1, <2>2 DEF Pieces
    <3> QED
      BY <3>1, <3>2, <3>3
  <2> QED
    BY <2>1, <2>2
<1> QED
  BY <1>1, <1>2, SeqEqual

-----------------------------------------------------------------------------
(* Numbers.                                                                *)

\* A set of numbers has a least one.
LEMMA LeastNat ==
  ASSUME NEW S \in SUBSET Nat, S # {}
  PROVE  \E x \in S : \A y \in S : x <= y
<1> DEFINE R == OpToRel(<, Nat)
<1>1. \A x, y \in Nat : x < y => <<x, y>> \in R
  BY DEF OpToRel
<1>2. IsWellFoundedOn(R, Nat)
  BY NatLessThanWellFounded
<1> HIDE DEF R
<1>3. \E x \in S : \A y \in S : ~(<<y, x>> \in R)
  BY <1>2, WFMin
<1>4. PICK x \in S : \A y \in S : ~(<<y, x>> \in R)
  BY <1>3
<1>5. ASSUME NEW y \in S PROVE x <= y
  <2>1. x \in Nat /\ y \in Nat
    OBVIOUS
  <2>2. ~(y < x)
    BY <1>1, <1>4, <2>1
  <2> QED
    BY <2>1, <2>2
<1> QED
  BY <1>4, <1>5

\* Induction, for a set of numbers.
LEMMA SetInduction ==
  ASSUME NEW S, 0 \in S, \A n \in Nat : n \in S => n + 1 \in S
  PROVE  Nat \subseteq S
<1> DEFINE T == {n \in Nat : n \notin S}
<1>1. SUFFICES ASSUME T # {} PROVE FALSE
  OBVIOUS
<1>2. PICK x \in T : \A y \in T : x <= y
  BY <1>1, LeastNat
<1>3. x # 0 /\ x - 1 \in Nat /\ x - 1 \in S
  BY <1>2
<1> QED
  BY <1>2, <1>3

-----------------------------------------------------------------------------
(* Recursion, and sequences of sequences.                                  *)

\* The values of f follow from its first one, each from the one before.
StepByStep(f, first, H, N) ==
  f[0] = first /\ \A m \in 1 .. N : f[m] = H[m][f[m - 1]]

\* A function can be defined by recursion.
LEMMA Recursion ==
  ASSUME NEW V, NEW first \in V, NEW N \in Nat, NEW H \in [1 .. N -> [V -> V]]
  PROVE  \E f \in [0 .. N -> V] : StepByStep(f, first, H, N)
<1> USE DEF StepByStep
<1> DEFINE Solves(f, n) == StepByStep(f, first, H, n)
           S == {n \in Nat : n <= N => \E f \in [0 .. n -> V] : Solves(f, n)}
<1>1. 0 \in S
  <2>1. Solves([m \in 0 .. 0 |-> first], 0)
    OBVIOUS
  <2>2. [m \in 0 .. 0 |-> first] \in [0 .. 0 -> V]
    OBVIOUS
  <2> QED
    BY <2>1, <2>2
<1>2. ASSUME NEW n \in Nat, n \in S PROVE n + 1 \in S
  <2> SUFFICES ASSUME n + 1 <= N PROVE \E f \in [0 .. n + 1 -> V] : Solves(f, n + 1)
    OBVIOUS
  <2>1. PICK f \in [0 .. n -> V] : Solves(f, n)
    BY <1>2
  <2> DEFINE g == [m \in 0 .. n + 1 |-> IF m <= n THEN f[m] ELSE H[m][f[m - 1]]]
  <2>2. H[n + 1] \in [V -> V] /\ f[n] \in V
    BY <1>2
  <2>3. H[n + 1][f[n]] \in V
    BY <2>2
  <2>4. g \in [0 .. n + 1 -> V]
    <3>1. ASSUME NEW m \in 0 .. n + 1 PROVE g[m] \in V
      <4>1. CASE m <= n
        BY <4>1
      <4>2. CASE m = n + 1
        BY <4>2, <2>3
      <4> QED
        BY <4>1, <4>2
    <3> QED
      BY <3>1
  <2>5. \A m \in 0 .. n : g[m] = f[m]
    OBVIOUS
  <2>6. g[n + 1] = H[n + 1][f[n]]
    OBVIOUS
  <2> HIDE DEF g
  <2>7. ASSUME NEW m \in 1 .. n + 1 PROVE g[m] = H[m][g[m - 1]]
    <3>1. CASE m <= n
      <4>1. m \in 1 .. n /\ m \in 0 .. n /\ m - 1 \in 0 .. n
        BY <3>1
      <4> QED
        BY <4>1, <2>1, <2>5
    <3>2. CASE m = n + 1
      <4>1. m - 1 = n /\ n \in 0 .. n
        BY <3>2
      <4> QED
        BY <3>2, <4>1, <2>5, <2>6
    <3> QED
      BY <3>1, <3>2
  <2>8. g[0] = first
    BY <2>1, <2>5
  <2> QED
    BY <2>4, <2>7, <2>8
<1>3. Nat \subseteq S
  <2> HIDE DEF S
  <2> QED
    BY <1>1, <1>2, SetInduction
<1> QED
  BY <1>3

\* f joins the sequences of ss one by one.
Accumulates(f, ss) ==
  f[0] = <<>> /\ \A m \in 1 .. Len(ss) : f[m] = f[m - 1] \o ss[m]

\* The sequences of ss can be joined one by one.
LEMMA Accumulation ==
  ASSUME NEW T, NEW ss \in Seq(Seq(T))
  PROVE  \E f \in [0 .. Len(ss) -> Seq(T)] : Accumulates(f, ss)
<1>1. PICK V, none, N, H :
        /\ V = Seq(T) /\ none = <<>> /\ N = Len(ss)
        /\ H = [m \in 1 .. N |-> [v \in Seq(T) |-> v \o ss[m]]]
  OBVIOUS
<1>2. N \in Nat /\ \A m \in 1 .. N : ss[m] \in Seq(T)
  BY <1>1
<1>3. H \in [1 .. N -> [V -> V]]
  BY <1>1, <1>2, ConcatProperties
<1>4. none \in V
  BY <1>1
<1>5. PICK f \in [0 .. N -> V] : StepByStep(f, none, H, N)
  BY <1>2, <1>3, <1>4, Recursion, Zenon
<1>6. ASSUME NEW m \in 1 .. N PROVE f[m] = f[m - 1] \o ss[m]
  <2>1. m - 1 \in 0 .. N
    BY <1>2
  <2>2. f[m - 1] \in Seq(T)
    BY <1>1, <1>5, <2>1
  <2>3. f[m] = H[m][f[m - 1]]
    BY <1>5 DEF StepByStep
  <2> QED
    BY <1>1, <2>2, <2>3
<1>7. f[0] = <<>>
  BY <1>1, <1>5 DEF StepByStep
<1>8. Accumulates(f, ss)
  BY <1>1, <1>6, <1>7 DEF Accumulates
<1> QED
  BY <1>1, <1>8

\* FlattenSeq satisfies the recursion that defines it.
LEMMA FlattenIs ==
  ASSUME NEW T, NEW ss \in Seq(Seq(T)),
         NEW f \in [0 .. Len(ss) -> Seq(T)], Accumulates(f, ss)
  PROVE  FlattenSeq(ss) = f[Len(ss)]
<1> USE DEF Accumulates
<1> DEFINE N == Len(ss)
           h == [j \in 1 .. N |-> f[j]]
           C == CHOOSE g : g = [j \in 1 .. N |-> IF j = 1 THEN ss[j] ELSE g[j - 1] \o ss[j]]
<1>0. N \in Nat
  OBVIOUS
<1>1. CASE N = 0
  <2>1. ss = <<>>
    BY <1>1, EmptySeq
  <2> QED
    BY <1>1, <2>1 DEF FlattenSeq
<1>2. CASE N # 0
  <2>1. ASSUME NEW j \in 1 .. N
        PROVE  f[j] = IF j = 1 THEN ss[j] ELSE h[j - 1] \o ss[j]
    <3>0. ss[j] \in Seq(T)
      BY ElementOfSeq
    <3>1. f[j] = f[j - 1] \o ss[j] /\ ss[j] \in Seq(T)
      BY <3>0, Zenon
    <3>2. CASE j = 1
      <4>1. f[j - 1] = <<>>
        BY <3>2
      <4>2. <<>> \o ss[j] = ss[j]
        BY <3>1, ConcatEmptySeq
      <4> QED
        BY <3>1, <3>2, <4>1, <4>2
    <3>3. CASE j # 1
      <4>1. j - 1 \in 1 .. N
        BY <1>0, <3>3
      <4>2. h[j - 1] = f[j - 1]
        BY <4>1, Zenon
      <4> QED
        BY <3>1, <3>3, <4>2, Zenon
    <3> QED
      BY <3>2, <3>3
  <2>2. h = [j \in 1 .. N |-> IF j = 1 THEN ss[j] ELSE h[j - 1] \o ss[j]]
    BY <2>1
  <2> HIDE DEF h
  <2>3. C = [j \in 1 .. N |-> IF j = 1 THEN ss[j] ELSE C[j - 1] \o ss[j]]
    BY <2>2, Zenon
  <2>4. FlattenSeq(ss) = C[N]
    BY <1>2 DEF FlattenSeq
  <2> HIDE DEF C
  <2> DEFINE S == {n \in Nat : n + 1 <= N => C[n + 1] = f[n + 1]}
  <2>5. 0 \in S
    <3>1. C[1] = ss[1] /\ f[1] = ss[1]
      BY <1>0, <1>2, <2>1, <2>3
    <3> QED
      BY <3>1
  <2>6. ASSUME NEW n \in Nat, n \in S PROVE n + 1 \in S
    <3> SUFFICES ASSUME n + 1 + 1 <= N PROVE C[n + 1 + 1] = f[n + 1 + 1]
      OBVIOUS
    <3>1. n + 1 + 1 \in 1 .. N /\ n + 1 + 1 # 1 /\ (n + 1 + 1) - 1 = n + 1 /\ n + 1 <= N
      BY <1>0
    <3>2. C[n + 1] = f[n + 1]
      BY <2>6, <3>1
    <3>3. C[n + 1 + 1] = C[n + 1] \o ss[n + 1 + 1]
      BY <2>3, <3>1
    <3>4. f[n + 1 + 1] = f[n + 1] \o ss[n + 1 + 1]
      BY <3>1
    <3> QED
      BY <3>2, <3>3, <3>4
  <2>7. Nat \subseteq S
    <3> HIDE DEF S
    <3> QED
      BY <2>5, <2>6, SetInduction
  <2>8. N - 1 \in Nat /\ N - 1 + 1 <= N /\ N - 1 + 1 = N
    BY <1>0, <1>2
  <2>9. C[N] = f[N]
    BY <2>7, <2>8
  <2> QED
    BY <2>4, <2>9
<1> QED
  BY <1>1, <1>2

\* Flattening one more sequence.
LEMMA FlattenAppend ==
  ASSUME NEW T, NEW ss \in Seq(Seq(T)), NEW s \in Seq(T)
  PROVE  /\ FlattenSeq(ss) \in Seq(T)
         /\ FlattenSeq(Append(ss, s)) = FlattenSeq(ss) \o s
<1>1. PICK tt : tt = Append(ss, s)
  OBVIOUS
<1>2. /\ tt \in Seq(Seq(T)) /\ Len(tt) = Len(ss) + 1 /\ Len(ss) \in Nat
      /\ tt[Len(tt)] = s /\ \A m \in 1 .. Len(ss) : tt[m] = ss[m]
  BY <1>1
<1>3. PICK f \in [0 .. Len(tt) -> Seq(T)] : Accumulates(f, tt)
  BY <1>2, Accumulation, Zenon
<1>4. FlattenSeq(tt) = f[Len(tt)]
  BY <1>2, <1>3, FlattenIs
<1>5. PICK g : g = [m \in 0 .. Len(ss) |-> f[m]]
  OBVIOUS
<1>6. g \in [0 .. Len(ss) -> Seq(T)]
  BY <1>2, <1>5
<1>7. Accumulates(g, ss)
  <2>1. g[0] = <<>>
    BY <1>2, <1>3, <1>5 DEF Accumulates
  <2>2. ASSUME NEW m \in 1 .. Len(ss) PROVE g[m] = g[m - 1] \o ss[m]
    <3>1. g[m] = f[m] /\ g[m - 1] = f[m - 1] /\ m \in 1 .. Len(tt)
      BY <1>2, <1>5
    <3> QED
      BY <3>1, <1>2, <1>3 DEF Accumulates
  <2> QED
    BY <2>1, <2>2 DEF Accumulates
<1>8. FlattenSeq(ss) = g[Len(ss)]
  BY <1>6, <1>7, FlattenIs
<1>9. /\ g[Len(ss)] = f[Len(tt) - 1] /\ g[Len(ss)] \in Seq(T)
      /\ Len(tt) \in 1 .. Len(tt)
  BY <1>2, <1>5, <1>6
<1>10. f[Len(tt)] = f[Len(tt) - 1] \o s
  BY <1>2, <1>3, <1>9 DEF Accumulates
<1> QED
  BY <1>1, <1>4, <1>8, <1>9, <1>10

\* The second of two joined sequences.
LEMMA TailOf ==
  ASSUME NEW T, NEW s \in Seq(T), NEW t \in Seq(T)
  PROVE  SubSeq(s \o t, Len(s) + 1, Len(s \o t)) = t
<1>1. PICK r : r = SubSeq(s \o t, Len(s) + 1, Len(s \o t))
  OBVIOUS
<1>2. s \o t \in Seq(T) /\ Len(s \o t) = Len(s) + Len(t)
  OBVIOUS
<1>3. r \in Seq(T) /\ Len(r) = Len(t)
  BY <1>1, <1>2
<1>4. ASSUME NEW j \in 1 .. Len(t) PROVE r[j] = t[j]
  <2>1. Len(s) + 1 + j - 1 = Len(s) + j /\ Len(s) + j \in 1 .. Len(s \o t)
    BY <1>2
  <2>2. r[j] = (s \o t)[Len(s) + j]
    BY <1>1, <1>2, <2>1
  <2>3. (s \o t)[Len(s) + j] = t[j]
    BY <1>2, <2>1
  <2> QED
    BY <2>2, <2>3
<1> QED
  BY <1>1, <1>3, <1>4, SeqEqual

\* The reverse of a sequence, position by position.
LEMMA ReverseType ==
  ASSUME NEW T, NEW s \in Seq(T)
  PROVE  /\ Reverse(s) \in Seq(T) /\ Len(Reverse(s)) = Len(s)
         /\ \A j \in 1 .. Len(s) : Reverse(s)[j] = s[Len(s) + 1 - j]
<1>1. \A j \in 1 .. Len(s) : (Len(s) - j) + 1 = Len(s) + 1 - j /\ (Len(s) - j) + 1 \in 1 .. Len(s)
  OBVIOUS
<1> QED
  BY <1>1 DEF Reverse

\* An element moves from the front of a reversed sequence to what precedes it.
LEMMA ReverseAppend ==
  ASSUME NEW T, NEW r \in Seq(T), NEW s \in Seq(T), NEW c \in T
  PROVE  r \o Reverse(Append(s, c)) = Append(r, c) \o Reverse(s)
<1>1. PICK u, v : u = r \o Reverse(Append(s, c)) /\ v = Append(r, c) \o Reverse(s)
  OBVIOUS
<1>2. PICK t : t = Append(s, c)
  OBVIOUS
<1>3. /\ t \in Seq(T) /\ Len(t) = Len(s) + 1
      /\ t[Len(s) + 1] = c /\ \A j \in 1 .. Len(s) : t[j] = s[j]
  BY <1>2
<1>4. /\ Reverse(t) \in Seq(T) /\ Len(Reverse(t)) = Len(s) + 1
      /\ \A j \in 1 .. Len(s) + 1 : Reverse(t)[j] = t[(Len(s) + 1) + 1 - j]
  BY <1>3, ReverseType
<1>5. /\ Reverse(s) \in Seq(T) /\ Len(Reverse(s)) = Len(s)
      /\ \A j \in 1 .. Len(s) : Reverse(s)[j] = s[Len(s) + 1 - j]
  BY ReverseType
<1>6. /\ u \in Seq(T) /\ v \in Seq(T)
      /\ Len(u) = Len(r) + Len(s) + 1 /\ Len(v) = Len(r) + Len(s) + 1
  <2>a. Reverse(t) \in Seq(T) /\ Len(Reverse(t)) = Len(s) + 1
    BY <1>4
  <2>b. Reverse(s) \in Seq(T) /\ Len(Reverse(s)) = Len(s)
    BY <1>5
  <2>1. u \in Seq(T) /\ Len(u) = Len(r) + (Len(s) + 1)
    <3>1. PICK w : w = Reverse(t)
      OBVIOUS
    <3>2. w \in Seq(T) /\ Len(w) = Len(s) + 1 /\ u = r \o w
      BY <1>1, <1>2, <2>a, <3>1, Zenon
    <3> w \in Seq(T)
      BY <3>2
    <3>3. r \o w \in Seq(T) /\ Len(r \o w) = Len(r) + Len(w)
      OBVIOUS
    <3> QED
      BY <3>2, <3>3, Zenon
  <2>2. Append(r, c) \in Seq(T) /\ Len(Append(r, c)) = Len(r) + 1
    OBVIOUS
  <2>3. v \in Seq(T) /\ Len(v) = (Len(r) + 1) + Len(s)
    BY <1>1, <2>2, <2>b
  <2> QED
    BY <2>1, <2>3
<1>7. ASSUME NEW j \in 1 .. Len(r) + Len(s) + 1 PROVE u[j] = v[j]
  <2>1. CASE j <= Len(r)
    BY <1>1, <1>2, <1>4, <1>5, <2>1
  <2>2. CASE j = Len(r) + 1
    <3>1. u[j] = Reverse(t)[1]
      BY <1>1, <1>2, <1>4, <2>2
    <3>2. Reverse(t)[1] = t[Len(s) + 1]
      BY <1>4
    <3>3. v[j] = c
      BY <1>1, <1>5, <2>2
    <3> QED
      BY <1>3, <3>1, <3>2, <3>3
  <2>3. CASE j > Len(r) + 1
    <3>1. PICK m \in 1 .. Len(s) : j = Len(r) + 1 + m
      <4>1. j - Len(r) - 1 \in 1 .. Len(s) /\ j = Len(r) + 1 + (j - Len(r) - 1)
        BY <2>3
      <4> QED
        BY <4>1
    <3>2. u[j] = Reverse(t)[m + 1]
      BY <1>1, <1>2, <1>4, <3>1
    <3>3. v[j] = Reverse(s)[m]
      BY <1>1, <1>5, <3>1
    <3>4. Reverse(t)[m + 1] = t[Len(s) + 1 - m] /\ Len(s) + 1 - m \in 1 .. Len(s)
      <4>1. m + 1 \in 1 .. Len(s) + 1 /\ (Len(s) + 1) + 1 - (m + 1) = Len(s) + 1 - m
        OBVIOUS
      <4> QED
        BY <1>4, <4>1
    <3> QED
      BY <1>3, <1>5, <3>2, <3>3, <3>4
  <2> QED
    BY <2>1, <2>2, <2>3
<1>8. u = v
  BY <1>6, <1>7, SeqEqual
<1> QED
  BY <1>1, <1>8

=============================================================================
