----------------------------- MODULE DListProofs -----------------------------
(***************************************************************************)
(* Proofs about module DList: list.c keeps its pointers in step with the   *)
(* sequences that the other modules use for the lists.                     *)
(***************************************************************************)
EXTENDS DList, ListLemmas

-----------------------------------------------------------------------------
(* The three ways to shorten a sequence are one.                           *)

\* Dropping the first or the last element is removing at that position.
LEMMA PopEnds ==
  ASSUME NEW S, NEW s \in Seq(S), s # <<>>
  PROVE  Tail(s) = RemoveAt(s, 1) /\ Front(s) = RemoveAt(s, Len(s))
<1>1. Len(s) \in Nat /\ Len(s) > 0 /\ \A k \in 1 .. Len(s) : s[k] \in S
  BY LenProperties, EmptySeq
<1>2. /\ RemoveAt(s, 1) \in Seq(S) /\ Len(RemoveAt(s, 1)) = Len(s) - 1
      /\ \A k \in 1 .. Len(s) - 1 : RemoveAt(s, 1)[k] = s[k + 1]
  BY <1>1, RemoveAtProperties
<1>3. /\ RemoveAt(s, Len(s)) \in Seq(S) /\ Len(RemoveAt(s, Len(s))) = Len(s) - 1
      /\ \A k \in 1 .. Len(s) - 1 : RemoveAt(s, Len(s))[k] = s[k]
  BY <1>1, RemoveAtProperties
<1>4. Tail(s) = RemoveAt(s, 1)
  BY <1>1, <1>2, HeadTailProperties, SeqEqual
<1>5. /\ Front(s) \in Seq(S) /\ Len(Front(s)) = Len(s) - 1
      /\ \A k \in 1 .. Len(s) - 1 : Front(s)[k] = s[k]
  <2> DEFINE a == SubSeq(s, 1, Len(s) - 1)
  <2>1. \A k \in 1 .. Len(s) - 1 : s[k] \in S
    BY <1>1
  <2>2. /\ a \in Seq(S)
        /\ Len(a) = IF 1 <= Len(s) - 1 THEN Len(s) - 1 - 1 + 1 ELSE 0
        /\ \A k \in 1 .. Len(s) - 1 - 1 + 1 : a[k] = s[1 + k - 1]
    BY <1>1, <2>1, SubSeqProperties
  <2>3. Front(s) = a
    BY DEF Front
  <2> HIDE DEF a
  <2> QED
    BY <1>1, <2>2, <2>3
<1>6. Front(s) = RemoveAt(s, Len(s))
  BY <1>1, <1>3, <1>5, SeqEqual
<1> QED
  BY <1>4, <1>6

\* Removing an element finds its only position.
LEMMA WithoutAt ==
  ASSUME NEW S, NEW s \in Seq(S), IsInjective(s), NEW k \in 1 .. Len(s)
  PROVE  Without(s, s[k]) = RemoveAt(s, k)
<1>1. DOMAIN s = 1 .. Len(s)
  BY LenProperties
<1>2. (CHOOSE j \in DOMAIN s : s[j] = s[k]) = k
  BY <1>1 DEF IsInjective
<1> QED
  BY <1>2 DEF Without

\* Putting an element in front moves the others one place back.
LEMMA ConsProperties ==
  ASSUME NEW S, NEW s \in Seq(S), NEW e \in S
  PROVE  /\ <<e>> \o s \in Seq(S)
         /\ Len(<<e>> \o s) = Len(s) + 1
         /\ (<<e>> \o s)[1] = e
         /\ \A k \in 1 .. Len(s) : (<<e>> \o s)[k + 1] = s[k]
         /\ Range(<<e>> \o s) = Range(s) \cup {e}
         /\ IsInjective(s) /\ e \notin Range(s) => IsInjective(<<e>> \o s)
<1> DEFINE r == <<e>> \o s
<1>1. Len(s) \in Nat /\ DOMAIN s = 1 .. Len(s)
  BY LenProperties
<1>2. <<e>> \in Seq(S) /\ Len(<<e>>) = 1 /\ <<e>>[1] = e
  OBVIOUS
<1>3. /\ r \in Seq(S) /\ Len(r) = Len(s) + 1
      /\ \A k \in 1 .. Len(s) + 1 : r[k] = IF k <= 1 THEN e ELSE s[k - 1]
  <2>1. /\ r \in Seq(S) /\ Len(r) = 1 + Len(s)
        /\ \A k \in 1 .. 1 + Len(s) : r[k] = IF k <= 1 THEN <<e>>[k] ELSE s[k - 1]
    BY <1>2, ConcatProperties
  <2> QED
    BY <1>1, <1>2, <2>1
<1>4. DOMAIN r = 1 .. Len(s) + 1
  BY <1>3, LenProperties
<1> HIDE DEF r
<1>5. r[1] = e /\ \A k \in 1 .. Len(s) : r[k + 1] = s[k]
  BY <1>1, <1>3
<1>6. Range(r) = Range(s) \cup {e}
  <2>1. ASSUME NEW x \in Range(r) PROVE x \in Range(s) \cup {e}
    <3>1. PICK k \in 1 .. Len(s) + 1 : x = r[k]
      BY <1>4 DEF Range
    <3>2. CASE k = 1
      BY <3>1, <3>2, <1>5
    <3>3. CASE k # 1
      <4>1. k - 1 \in 1 .. Len(s) /\ x = s[k - 1]
        BY <3>1, <3>3, <1>1, <1>3
      <4> QED
        BY <4>1, <1>1 DEF Range
    <3> QED
      BY <3>2, <3>3
  <2>2. ASSUME NEW x \in Range(s) PROVE x \in Range(r)
    <3>1. PICK k \in 1 .. Len(s) : x = s[k]
      BY <1>1 DEF Range
    <3>2. k + 1 \in 1 .. Len(s) + 1 /\ r[k + 1] = x
      BY <3>1, <1>1, <1>5
    <3> QED
      BY <3>2, <1>4 DEF Range
  <2>3. e \in Range(r)
    <3>1. 1 \in 1 .. Len(s) + 1
      BY <1>1
    <3> QED
      BY <1>4, <1>5, <3>1 DEF Range
  <2> QED
    BY <2>1, <2>2, <2>3
<1>7. ASSUME IsInjective(s), e \notin Range(s) PROVE IsInjective(r)
  <2>1. \A j, k \in 1 .. Len(s) : s[j] = s[k] => j = k
    BY <1>1, <1>7 DEF IsInjective
  <2>2. \A k \in 1 .. Len(s) : s[k] # e
    BY <1>1, <1>7 DEF Range
  <2>3. ASSUME NEW j \in 1 .. Len(s) + 1, NEW k \in 1 .. Len(s) + 1, r[j] = r[k]
        PROVE  j = k
    <3>1. /\ j # 1 => j - 1 \in 1 .. Len(s) /\ r[j] = s[j - 1]
          /\ k # 1 => k - 1 \in 1 .. Len(s) /\ r[k] = s[k - 1]
      BY <1>1, <1>3
    <3>2. CASE j = 1 \/ k = 1
      BY <2>2, <2>3, <3>1, <3>2, <1>5
    <3>3. CASE j # 1 /\ k # 1
      <4>1. j - 1 = k - 1
        BY <2>1, <2>3, <3>1, <3>3
      <4> QED
        BY <4>1
    <3> QED
      BY <3>2, <3>3
  <2> QED
    BY <1>4, <2>3 DEF IsInjective
<1> QED
  BY <1>3, <1>5, <1>6, <1>7 DEF r
-----------------------------------------------------------------------------
(* One list: its fields and the pointers of its nodes spell out s.         *)

Chain(s, f, la, c, nx, pr) ==
  /\ f = At(s, 1)
  /\ la = At(s, Len(s))
  /\ c = Len(s)
  /\ \A k \in DOMAIN s : nx[s[k]] = At(s, k + 1) /\ pr[s[k]] = At(s, k - 1)

\* The neighbours of the node at position k point past it.
Bypass(s, k, nx, pr, nx2, pr2) ==
  \A j \in 1 .. Len(s) : j # k =>
    /\ nx2[s[j]] = IF j = k - 1 THEN At(s, k + 1) ELSE nx[s[j]]
    /\ pr2[s[j]] = IF j = k + 1 THEN At(s, k - 1) ELSE pr[s[j]]

\* Taking the node at position k out: the list's ends and the node's
\* neighbours are all there is to change.
LEMMA Unlink ==
  ASSUME NEW s \in Seq(Nodes), IsInjective(s), NEW k \in 1 .. Len(s),
         NEW f, NEW la, NEW c, NEW nx, NEW pr, NEW nx2, NEW pr2,
         Chain(s, f, la, c, nx, pr), Bypass(s, k, nx, pr, nx2, pr2)
  PROVE  Chain(RemoveAt(s, k), IF k = 1 THEN At(s, 2) ELSE f,
               IF k = Len(s) THEN At(s, k - 1) ELSE la, c - 1, nx2, pr2)
<1> DEFINE r == RemoveAt(s, k)
<1>1. /\ Len(s) \in Nat /\ DOMAIN s = 1 .. Len(s)
      /\ r \in Seq(Nodes) /\ Len(r) = Len(s) - 1
      /\ \A j \in 1 .. Len(s) - 1 : r[j] = IF j < k THEN s[j] ELSE s[j + 1]
  BY LenProperties, RemoveAtProperties
<1>2. DOMAIN r = 1 .. Len(s) - 1
  BY <1>1, LenProperties
<1> HIDE DEF r
<1>3. \A j \in Int : At(r, j) = IF j < k THEN At(s, j) ELSE At(s, j + 1)
  BY <1>1, <1>2 DEF At
<1>4. /\ f = At(s, 1) /\ la = At(s, Len(s)) /\ c = Len(s)
      /\ \A j \in 1 .. Len(s) : nx[s[j]] = At(s, j + 1) /\ pr[s[j]] = At(s, j - 1)
  BY <1>1 DEF Chain
<1>bypass. \A j \in 1 .. Len(s) : j # k =>
        /\ nx2[s[j]] = IF j = k - 1 THEN At(s, k + 1) ELSE nx[s[j]]
        /\ pr2[s[j]] = IF j = k + 1 THEN At(s, k - 1) ELSE pr[s[j]]
  BY DEF Bypass
<1>5. (IF k = 1 THEN At(s, 2) ELSE f) = At(r, 1)
  <2>1. At(r, 1) = IF 1 < k THEN At(s, 1) ELSE At(s, 1 + 1)
    BY <1>3
  <2>2. 1 + 1 = 2 /\ (1 < k <=> k # 1)
    BY <1>1
  <2> QED
    BY <1>4, <2>1, <2>2
<1>6. (IF k = Len(s) THEN At(s, k - 1) ELSE la) = At(r, Len(r))
  <2>1. Len(s) \in Int /\ Len(r) = Len(s) - 1
    BY <1>1
  <2>2. At(r, Len(s) - 1) = IF Len(s) - 1 < k THEN At(s, Len(s) - 1)
                                               ELSE At(s, (Len(s) - 1) + 1)
    BY <2>1, <1>3
  <2>3. (Len(s) - 1) + 1 = Len(s)
    BY <2>1
  <2>4. Len(s) - 1 < k <=> k = Len(s)
    BY <2>1
  <2> QED
    BY <1>4, <2>1, <2>2, <2>3, <2>4
<1>7. ASSUME NEW j \in 1 .. Len(s) - 1
      PROVE  nx2[r[j]] = At(r, j + 1) /\ pr2[r[j]] = At(r, j - 1)
  <2>1. CASE j < k
    <3>1. r[j] = s[j] /\ j \in 1 .. Len(s) /\ j # k
      BY <2>1, <1>1
    <3>2. nx2[r[j]] = At(r, j + 1)
      <4>1. nx2[r[j]] = IF j = k - 1 THEN At(s, k + 1) ELSE At(s, j + 1)
        BY <3>1, <1>4, <1>bypass
      <4>2. At(r, j + 1) = IF j + 1 < k THEN At(s, j + 1) ELSE At(s, (j + 1) + 1)
        BY <1>3, <1>1
      <4>3. (j + 1 < k <=> j # k - 1) /\ (j = k - 1 => (j + 1) + 1 = k + 1)
        BY <2>1, <1>1
      <4> QED
        BY <4>1, <4>2, <4>3
    <3>3. pr2[r[j]] = At(r, j - 1)
      <4>1. pr2[r[j]] = At(s, j - 1)
        BY <2>1, <3>1, <1>4, <1>1, <1>bypass
      <4> QED
        BY <2>1, <4>1, <1>3, <1>1
    <3> QED
      BY <3>2, <3>3
  <2>2. CASE ~(j < k)
    <3>1. r[j] = s[j + 1] /\ j + 1 \in 1 .. Len(s) /\ j + 1 # k /\ j + 1 # k - 1
      BY <2>2, <1>1
    <3>2. nx2[r[j]] = At(r, j + 1)
      <4>1. nx2[r[j]] = At(s, (j + 1) + 1)
        BY <3>1, <1>4, <1>bypass
      <4> QED
        BY <2>2, <4>1, <1>3, <1>1
    <3>3. pr2[r[j]] = At(r, j - 1)
      <4>1. pr2[r[j]] = IF j + 1 = k + 1 THEN At(s, k - 1) ELSE At(s, (j + 1) - 1)
        BY <3>1, <1>4, <1>bypass
      <4>2. j = k => At(r, j - 1) = At(s, k - 1)
        BY <1>3, <1>1
      <4>3. j # k => At(r, j - 1) = At(s, j)
        <5>1. j # k => ~(j - 1 < k) /\ (j - 1) + 1 = j /\ (j + 1) - 1 = j
          BY <2>2, <1>1
        <5> QED
          BY <5>1, <1>3, <1>1
      <4>4. j + 1 = k + 1 <=> j = k
        BY <1>1
      <4>5. (j + 1) - 1 = j
        BY <1>1
      <4> QED
        BY <4>1, <4>2, <4>3, <4>4, <4>5
    <3> QED
      BY <3>2, <3>3
  <2> QED
    BY <2>1, <2>2
<1>8. c - 1 = Len(r)
  BY <1>1, <1>4
<1>9. Chain(r, IF k = 1 THEN At(s, 2) ELSE f,
            IF k = Len(s) THEN At(s, k - 1) ELSE la, c - 1, nx2, pr2)
  BY <1>2, <1>5, <1>6, <1>7, <1>8 DEF Chain
<1> QED
  BY <1>9 DEF r

\* The first node points back to n.
FirstLedBy(s, n, nx, pr, nx2, pr2) ==
  \A j \in 1 .. Len(s) : /\ nx2[s[j]] = nx[s[j]]
                         /\ pr2[s[j]] = IF j = 1 THEN n ELSE pr[s[j]]

\* Putting a node in front: the former first node points back to it.
LEMMA LinkFirst ==
  ASSUME NEW s \in Seq(Nodes), NEW n \in Nodes,
         NEW f, NEW la, NEW c, NEW nx, NEW pr, NEW nx2, NEW pr2,
         Chain(s, f, la, c, nx, pr),
         nx2[n] = f, pr2[n] = NULL, FirstLedBy(s, n, nx, pr, nx2, pr2)
  PROVE  Chain(<<n>> \o s, n, IF c = 0 THEN n ELSE la, c + 1, nx2, pr2)
<1> DEFINE r == <<n>> \o s
<1>1. Len(s) \in Nat /\ DOMAIN s = 1 .. Len(s)
  BY LenProperties
<1>2. /\ r \in Seq(Nodes) /\ Len(r) = Len(s) + 1 /\ r[1] = n
      /\ \A j \in 1 .. Len(s) : r[j + 1] = s[j]
  BY ConsProperties
<1>3. DOMAIN r = 1 .. Len(s) + 1
  BY <1>2, LenProperties
<1> HIDE DEF r
<1>4. At(r, 0) = NULL /\ At(r, 1) = n
  BY <1>1, <1>2, <1>3 DEF At
<1>5. ASSUME NEW j \in Nat \ {0}
      PROVE  At(r, j + 1) = At(s, j)
  <2>1. j + 1 \in DOMAIN r <=> j \in DOMAIN s
    BY <1>1, <1>3
  <2> QED
    BY <1>1, <1>2, <2>1 DEF At
<1>6. /\ f = At(s, 1) /\ la = At(s, Len(s)) /\ c = Len(s)
      /\ \A j \in 1 .. Len(s) : nx[s[j]] = At(s, j + 1) /\ pr[s[j]] = At(s, j - 1)
  BY <1>1 DEF Chain
<1>7. (IF c = 0 THEN n ELSE la) = At(r, Len(s) + 1)
  <2>1. CASE Len(s) = 0
    BY <2>1, <1>4, <1>6
  <2>2. CASE Len(s) # 0
    BY <2>2, <1>1, <1>5, <1>6
  <2> QED
    BY <2>1, <2>2
<1>8. nx2[n] = At(r, 1 + 1) /\ pr2[n] = At(r, 1 - 1)
  <2>1. At(r, 1 + 1) = At(s, 1)
    BY <1>5
  <2> QED
    BY <2>1, <1>4, <1>6
<1>9. ASSUME NEW j \in 1 .. Len(s)
      PROVE  nx2[r[j + 1]] = At(r, (j + 1) + 1) /\ pr2[r[j + 1]] = At(r, (j + 1) - 1)
  <2>1. r[j + 1] = s[j] /\ nx2[s[j]] = At(s, j + 1)
    BY <1>2, <1>6 DEF FirstLedBy
  <2>2. At(r, (j + 1) + 1) = At(s, j + 1)
    <3>1. j + 1 \in Nat \ {0}
      BY <1>1
    <3> QED
      BY <3>1, <1>5
  <2>3. pr2[s[j]] = At(r, j)
    <3>1. CASE j = 1
      BY <3>1, <1>4 DEF FirstLedBy
    <3>2. CASE j # 1
      <4>1. j - 1 \in Nat \ {0} /\ (j - 1) + 1 = j
        BY <3>2, <1>1
      <4>2. At(r, (j - 1) + 1) = At(s, j - 1)
        BY <4>1, <1>5
      <4> QED
        BY <3>2, <4>1, <4>2, <1>6 DEF FirstLedBy
    <3> QED
      BY <3>1, <3>2
  <2>4. (j + 1) - 1 = j
    BY <1>1
  <2> QED
    BY <2>1, <2>2, <2>3, <2>4
<1>10. ASSUME NEW j \in 1 .. Len(s) + 1
       PROVE  nx2[r[j]] = At(r, j + 1) /\ pr2[r[j]] = At(r, j - 1)
  <2>1. CASE j = 1
    BY <2>1, <1>2, <1>8
  <2>2. CASE j # 1
    <3>1. j - 1 \in 1 .. Len(s) /\ (j - 1) + 1 = j
      BY <2>2, <1>1
    <3> QED
      BY <3>1, <1>9
  <2> QED
    BY <2>1, <2>2
<1>11. Chain(r, n, IF c = 0 THEN n ELSE la, c + 1, nx2, pr2)
  BY <1>2, <1>3, <1>4, <1>6, <1>7, <1>10 DEF Chain
<1> QED
  BY <1>11 DEF r

\* The last node points forward to n.
LastLeadsTo(s, n, nx, pr, nx2, pr2) ==
  \A j \in 1 .. Len(s) : /\ nx2[s[j]] = IF j = Len(s) THEN n ELSE nx[s[j]]
                         /\ pr2[s[j]] = pr[s[j]]

\* Putting a node at the end: the former last node points forward to it.
LEMMA LinkLast ==
  ASSUME NEW s \in Seq(Nodes), NEW n \in Nodes,
         NEW f, NEW la, NEW c, NEW nx, NEW pr, NEW nx2, NEW pr2,
         Chain(s, f, la, c, nx, pr),
         nx2[n] = NULL, pr2[n] = la, LastLeadsTo(s, n, nx, pr, nx2, pr2)
  PROVE  Chain(Append(s, n), IF c = 0 THEN n ELSE f, n, c + 1, nx2, pr2)
<1> DEFINE r == Append(s, n)
<1>1. Len(s) \in Nat /\ DOMAIN s = 1 .. Len(s)
  BY LenProperties
<1>2. /\ r \in Seq(Nodes) /\ Len(r) = Len(s) + 1 /\ r[Len(s) + 1] = n
      /\ DOMAIN r = 1 .. Len(s) + 1
      /\ \A j \in 1 .. Len(s) : r[j] = s[j]
  BY AppendProperties, LenProperties
<1> HIDE DEF r
<1>3. At(r, Len(s) + 1) = n /\ At(r, (Len(s) + 1) + 1) = NULL
  BY <1>1, <1>2 DEF At
<1>4. ASSUME NEW j \in Int, j <= Len(s)
      PROVE  At(r, j) = At(s, j)
  <2>1. j \in DOMAIN r <=> j \in DOMAIN s
    BY <1>1, <1>2, <1>4
  <2> QED
    BY <1>1, <1>2, <2>1 DEF At
<1>5. /\ f = At(s, 1) /\ la = At(s, Len(s)) /\ c = Len(s)
      /\ \A j \in 1 .. Len(s) : nx[s[j]] = At(s, j + 1) /\ pr[s[j]] = At(s, j - 1)
  BY <1>1 DEF Chain
<1>6. (IF c = 0 THEN n ELSE f) = At(r, 1)
  <2>1. CASE Len(s) = 0
    BY <2>1, <1>3, <1>5
  <2>2. CASE Len(s) # 0
    BY <2>2, <1>1, <1>4, <1>5
  <2> QED
    BY <2>1, <2>2
<1>7. /\ nx2[n] = At(r, (Len(s) + 1) + 1)
      /\ pr2[n] = At(r, (Len(s) + 1) - 1)
  <2>1. (Len(s) + 1) - 1 = Len(s) /\ Len(s) \in Int /\ Len(s) <= Len(s)
    BY <1>1
  <2>2. At(r, Len(s)) = At(s, Len(s))
    BY <2>1, <1>4
  <2> QED
    BY <2>1, <2>2, <1>3, <1>5
<1>8. ASSUME NEW j \in 1 .. Len(s)
      PROVE  nx2[r[j]] = At(r, j + 1) /\ pr2[r[j]] = At(r, j - 1)
  <2>1. pr2[r[j]] = At(r, j - 1)
    <3>1. j - 1 \in Int /\ j - 1 <= Len(s)
      BY <1>1
    <3> QED
      BY <3>1, <1>2, <1>4, <1>5 DEF LastLeadsTo
  <2>2. nx2[r[j]] = At(r, j + 1)
    <3>1. CASE j = Len(s)
      BY <3>1, <1>2, <1>3 DEF LastLeadsTo
    <3>2. CASE j # Len(s)
      <4>1. Len(s) \in Int /\ j \in Int /\ 1 <= j /\ j <= Len(s)
        BY <1>1
      <4>2. At(r, j + 1) = At(s, j + 1)
        BY <3>2, <4>1, <1>4
      <4>3. r[j] = s[j]
        BY <1>2
      <4> QED
        BY <3>2, <4>2, <4>3, <1>5 DEF LastLeadsTo
    <3> QED
      BY <3>1, <3>2
  <2> QED
    BY <2>1, <2>2
<1>9. ASSUME NEW j \in 1 .. Len(s) + 1
      PROVE  nx2[r[j]] = At(r, j + 1) /\ pr2[r[j]] = At(r, j - 1)
  <2>1. CASE j = Len(s) + 1
    BY <2>1, <1>2, <1>7
  <2>2. CASE j # Len(s) + 1
    <3>1. j \in 1 .. Len(s)
      BY <2>2, <1>1
    <3> QED
      BY <3>1, <1>8
  <2> QED
    BY <2>1, <2>2
<1>10. Chain(r, IF c = 0 THEN n ELSE f, n, c + 1, nx2, pr2)
  BY <1>2, <1>3, <1>5, <1>6, <1>9 DEF Chain
<1> QED
  BY <1>10 DEF r
-----------------------------------------------------------------------------
(* The inductive invariant: besides the chains, no node is on two lists or *)
(* twice on one, for else a removal would cut a chain it does not belong   *)
(* to.                                                                     *)

Pointers == Nodes \cup {NULL}

ListType ==
  /\ order \in [Lists -> Seq(Nodes)]
  /\ frist \in [Lists -> Pointers]
  /\ last \in [Lists -> Pointers]
  /\ count \in [Lists -> Int]
  /\ next \in [Nodes -> Pointers]
  /\ pre \in [Nodes -> Pointers]

ListInv ==
  /\ ListType
  /\ \A l \in Lists : IsInjective(order[l])
  /\ \A l, m \in Lists : l # m => Range(order[l]) \cap Range(order[m]) = {}
  /\ \A l \in Lists : Chain(order[l], frist[l], last[l], count[l], next, pre)
  /\ \A n \in Nodes : Detached(n) => next[n] = NULL /\ pre[n] = NULL

\* A position of a list is named by its node.
LEMMA AtPosition ==
  ASSUME NEW s \in Seq(Nodes), IsInjective(s), NEW m \in Int
  PROVE  /\ At(s, m) \in Pointers
         /\ At(s, m) = NULL <=> m \notin 1 .. Len(s)
         /\ \A j \in 1 .. Len(s) : s[j] \in Nodes /\ (At(s, m) = s[j] <=> m = j)
<1>1. /\ Len(s) \in Nat /\ DOMAIN s = 1 .. Len(s)
      /\ \A j \in 1 .. Len(s) : s[j] \in Nodes
  BY LenProperties
<1>2. \A j, k \in 1 .. Len(s) : s[j] = s[k] => j = k
  BY <1>1 DEF IsInjective
<1> QED
  BY <1>1, <1>2, DListAssumption DEF At, Pointers

\* A call that only touches list l and the nodes on it, before or after, keeps
\* the other lists.
LEMMA OneList ==
  ASSUME ListInv, ListType', NEW l \in Lists, NEW n \in Nodes,
         \A m \in Lists \ {l} : /\ order'[m] = order[m]
                                /\ frist'[m] = frist[m]
                                /\ last'[m] = last[m]
                                /\ count'[m] = count[m],
         \A x \in Nodes \ {n} : x \notin Range(order[l]) =>
           next'[x] = next[x] /\ pre'[x] = pre[x],
         IsInjective(order'[l]),
         Chain(order'[l], frist'[l], last'[l], count'[l], next', pre'),
         \/ Detached(n) /\ Range(order'[l]) = Range(order[l]) \cup {n}
         \/ /\ n \in Range(order[l])
            /\ Range(order'[l]) = Range(order[l]) \ {n}
            /\ next'[n] = NULL /\ pre'[n] = NULL
  PROVE  ListInv'
<1>1. ASSUME NEW m \in Lists \ {l}
      PROVE  /\ Range(order[m]) \cap Range(order[l]) = {}
             /\ Range(order[m]) \cap Range(order'[l]) = {}
             /\ n \notin Range(order[m])
  BY DEF ListInv, Detached, LinkedIn
<1>2. \A m \in Lists : IsInjective(order'[m])
  BY DEF ListInv
<1>3. \A m, k \in Lists : m # k => Range(order'[m]) \cap Range(order'[k]) = {}
  BY <1>1 DEF ListInv
<1>4. ASSUME NEW m \in Lists \ {l}
      PROVE  Chain(order'[m], frist'[m], last'[m], count'[m], next', pre')
  <2>1. Chain(order[m], frist[m], last[m], count[m], next, pre)
    BY DEF ListInv
  <2>2. \A k \in DOMAIN order[m] : order[m][k] \in Nodes /\ order[m][k] \in Range(order[m])
    BY LenProperties DEF ListInv, ListType, Range
  <2>3. \A k \in DOMAIN order[m] : /\ next'[order[m][k]] = next[order[m][k]]
                                   /\ pre'[order[m][k]] = pre[order[m][k]]
    BY <1>1, <2>2
  <2> QED
    BY <2>1, <2>3 DEF Chain
<1>5. ASSUME NEW x \in Nodes, Detached(x)'
      PROVE  next'[x] = NULL /\ pre'[x] = NULL
  <2>1. x \notin Range(order'[l]) /\ \A m \in Lists \ {l} : x \notin Range(order[m])
    BY <1>5 DEF Detached, LinkedIn
  <2>2. CASE x = n
    BY <2>1, <2>2
  <2>3. CASE x # n
    <3>1. x \notin Range(order[l])
      BY <2>1, <2>3
    <3>2. Detached(x)
      BY <2>1, <3>1 DEF Detached, LinkedIn
    <3> QED
      BY <2>3, <3>1, <3>2 DEF ListInv
  <2> QED
    BY <2>2, <2>3
<1> QED
  BY <1>2, <1>3, <1>4, <1>5 DEF ListInv

\* Facts about one list that every operation on it needs.
LEMMA ListFacts ==
  ASSUME ListInv, NEW l \in Lists
  PROVE  /\ order[l] \in Seq(Nodes) /\ IsInjective(order[l])
         /\ Len(order[l]) \in Nat /\ DOMAIN order[l] = 1 .. Len(order[l])
         /\ Chain(order[l], frist[l], last[l], count[l], next, pre)
         /\ NULL \notin Nodes /\ NULL \notin Lists
BY LenProperties, DListAssumption DEF ListInv, ListType

\* Taking out the node at position k: what list_pop, list_pop_first and
\* list_pop_last have in common.
PopAt(l, k) ==
  LET s == order[l]
  IN  /\ order' = [order EXCEPT ![l] = RemoveAt(s, k)]
      /\ frist' = [frist EXCEPT ![l] = IF k = 1 THEN At(s, 2) ELSE @]
      /\ last' = [last EXCEPT ![l] = IF k = Len(s) THEN At(s, k - 1) ELSE @]
      /\ count' = [count EXCEPT ![l] = @ - 1]
      /\ next' = Set(Set(next, At(s, k - 1), At(s, k + 1)), s[k], NULL)
      /\ pre' = Set(Set(pre, At(s, k + 1), At(s, k - 1)), s[k], NULL)
      /\ result' = s[k]

\* Wherever the node is, the list closes up around it, and the other lists
\* stay.
LEMMA PopAtInv ==
  ASSUME ListInv, NEW l \in Lists, NEW k \in 1 .. Len(order[l]), PopAt(l, k)
  PROVE  /\ ListInv'
         /\ result' = order[l][k]
         /\ Range(order'[l]) = Range(order[l]) \ {order[l][k]}
         /\ \A m \in Lists \ {l} : order'[m] = order[m]
<1> DEFINE s == order[l]
           n == s[k]
<1>1. /\ s \in Seq(Nodes) /\ IsInjective(s)
      /\ Len(s) \in Nat /\ DOMAIN s = 1 .. Len(s)
      /\ Chain(s, frist[l], last[l], count[l], next, pre)
      /\ NULL \notin Nodes /\ NULL \notin Lists
  BY ListFacts
<1>2. /\ RemoveAt(s, k) \in Seq(Nodes) /\ IsInjective(RemoveAt(s, k))
      /\ Range(RemoveAt(s, k)) = Range(s) \ {n}
  BY <1>1, RemoveAtProperties, RemoveAtInjective
<1>3. /\ order' = [order EXCEPT ![l] = RemoveAt(s, k)]
      /\ frist' = [frist EXCEPT ![l] = IF k = 1 THEN At(s, 2) ELSE @]
      /\ last' = [last EXCEPT ![l] = IF k = Len(s) THEN At(s, k - 1) ELSE @]
      /\ count' = [count EXCEPT ![l] = @ - 1]
      /\ next' = Set(Set(next, At(s, k - 1), At(s, k + 1)), n, NULL)
      /\ pre' = Set(Set(pre, At(s, k + 1), At(s, k - 1)), n, NULL)
      /\ result' = n
  BY DEF PopAt
<1>4. ListType
  BY DEF ListInv
<1>5. n \in Nodes /\ n \in Range(s) /\ \A j \in 1 .. Len(s) : s[j] \in Nodes
  BY <1>1, LenProperties DEF Range
<1>6. k - 1 \in Int /\ k + 1 \in Int /\ 2 \in Int
  BY <1>1
<1>7. At(s, k - 1) \in Pointers /\ At(s, k + 1) \in Pointers /\ At(s, 2) \in Pointers
  BY <1>1, <1>6, AtPosition
<1>8. /\ next' \in [Nodes -> Pointers]
      /\ \A y \in Nodes : next'[y] = IF y = n THEN NULL
                          ELSE IF y = At(s, k - 1) THEN At(s, k + 1) ELSE next[y]
  <2> DEFINE nx == Set(next, At(s, k - 1), At(s, k + 1))
  <2>1. /\ nx \in [Nodes -> Pointers]
        /\ \A y \in Nodes : nx[y] = IF y = At(s, k - 1) THEN At(s, k + 1) ELSE next[y]
    BY <1>1, <1>4, <1>7 DEF ListType, Set, Pointers
  <2> HIDE DEF nx
  <2>2. /\ Set(nx, n, NULL) \in [Nodes -> Pointers]
        /\ \A y \in Nodes : Set(nx, n, NULL)[y] = IF y = n THEN NULL ELSE nx[y]
    BY <1>1, <1>5, <2>1 DEF Set, Pointers
  <2>3. next' = Set(nx, n, NULL)
    BY <1>3 DEF nx
  <2> QED
    BY <2>1, <2>2, <2>3
<1>9. /\ pre' \in [Nodes -> Pointers]
      /\ \A y \in Nodes : pre'[y] = IF y = n THEN NULL
                          ELSE IF y = At(s, k + 1) THEN At(s, k - 1) ELSE pre[y]
  <2> DEFINE pr == Set(pre, At(s, k + 1), At(s, k - 1))
  <2>1. /\ pr \in [Nodes -> Pointers]
        /\ \A y \in Nodes : pr[y] = IF y = At(s, k + 1) THEN At(s, k - 1) ELSE pre[y]
    BY <1>1, <1>4, <1>7 DEF ListType, Set, Pointers
  <2> HIDE DEF pr
  <2>2. /\ Set(pr, n, NULL) \in [Nodes -> Pointers]
        /\ \A y \in Nodes : Set(pr, n, NULL)[y] = IF y = n THEN NULL ELSE pr[y]
    BY <1>1, <1>5, <2>1 DEF Set, Pointers
  <2>3. pre' = Set(pr, n, NULL)
    BY <1>3 DEF pr
  <2> QED
    BY <2>1, <2>2, <2>3
<1>10. ListType'
  BY <1>2, <1>3, <1>4, <1>7, <1>8, <1>9 DEF ListType
<1>11. /\ order'[l] = RemoveAt(s, k)
       /\ frist'[l] = IF k = 1 THEN At(s, 2) ELSE frist[l]
       /\ last'[l] = IF k = Len(s) THEN At(s, k - 1) ELSE last[l]
       /\ count'[l] = count[l] - 1
       /\ \A m \in Lists \ {l} : /\ order'[m] = order[m]
                                 /\ frist'[m] = frist[m]
                                 /\ last'[m] = last[m]
                                 /\ count'[m] = count[m]
  BY <1>3, <1>4 DEF ListType
<1>12. Bypass(s, k, next, pre, next', pre')
  <2> SUFFICES ASSUME NEW j \in 1 .. Len(s), j # k
               PROVE  /\ next'[s[j]] = IF j = k - 1 THEN At(s, k + 1) ELSE next[s[j]]
                      /\ pre'[s[j]] = IF j = k + 1 THEN At(s, k - 1) ELSE pre[s[j]]
    BY DEF Bypass
  <2>1. s[j] \in Nodes /\ s[j] # n
    BY <1>1, <1>5 DEF IsInjective
  <2>2. /\ s[j] = At(s, k - 1) <=> j = k - 1
        /\ s[j] = At(s, k + 1) <=> j = k + 1
    BY <1>1, <1>6, AtPosition
  <2> QED
    BY <2>1, <2>2, <1>8, <1>9
<1>13. Chain(order'[l], frist'[l], last'[l], count'[l], next', pre')
  BY <1>1, <1>11, <1>12, Unlink
<1>14. ASSUME NEW x \in Nodes \ {n}, x \notin Range(s)
       PROVE  next'[x] = next[x] /\ pre'[x] = pre[x]
  <2>1. \A m \in Int : At(s, m) # x
    BY <1>1, <1>14 DEF At, Range
  <2> QED
    BY <1>6, <1>8, <1>9, <2>1
<1>15. next'[n] = NULL /\ pre'[n] = NULL
  BY <1>5, <1>8, <1>9
<1>16. ListInv'
  <2> HIDE DEF n
  <2> QED
    BY <1>2, <1>5, <1>10, <1>11, <1>13, <1>14, <1>15, OneList
<1> QED
  BY <1>2, <1>3, <1>11, <1>16

\* list_pop_first takes out the node at the first position ...
LEMMA PopFirstAt ==
  ASSUME ListInv, NEW l \in Lists, list_pop_first(l), count[l] # 0
  PROVE  1 \in 1 .. Len(order[l]) /\ PopAt(l, 1)
<1> DEFINE s == order[l]
<1>1. /\ s \in Seq(Nodes) /\ IsInjective(s)
      /\ Len(s) \in Nat /\ DOMAIN s = 1 .. Len(s)
      /\ Chain(s, frist[l], last[l], count[l], next, pre)
      /\ NULL \notin Nodes /\ NULL \notin Lists
  BY ListFacts
<1>2. count[l] = Len(s)
  BY <1>1 DEF Chain
<1>3. Len(s) > 0 /\ 1 \in DOMAIN s /\ s # <<>>
  BY <1>1, <1>2, EmptySeq
<1>4. /\ frist[l] = s[1] /\ next[s[1]] = At(s, 2)
      /\ At(s, 0) = NULL /\ (At(s, 2) = NULL <=> Len(s) = 1)
  <2>1. frist[l] = s[1] /\ next[s[1]] = At(s, 1 + 1)
    BY <1>1, <1>3 DEF Chain, At
  <2>2. At(s, 0) = NULL /\ (At(s, 2) = NULL <=> 2 \notin 1 .. Len(s))
    BY <1>1, AtPosition
  <2>3. (2 \notin 1 .. Len(s) <=> Len(s) = 1) /\ 1 + 1 = 2
    <3> DEFINE c == Len(s)
    <3>1. c \in Nat /\ c > 0
      BY <1>1, <1>3
    <3> HIDE DEF c
    <3>2. 2 \notin 1 .. c <=> c = 1
      BY <3>1
    <3> QED
      BY <3>2 DEF c
  <2> QED
    BY <2>1, <2>2, <2>3
<1>5. Tail(s) = RemoveAt(s, 1)
  BY <1>1, <1>3, PopEnds
<1>6. /\ frist' = Set(frist, l, At(s, 2))
      /\ last' = IF At(s, 2) = NULL THEN Set(last, l, NULL) ELSE last
      /\ pre' = Set(Set(pre, At(s, 2), NULL), s[1], NULL)
      /\ next' = Set(next, s[1], NULL)
      /\ result' = s[1]
      /\ count' = [count EXCEPT ![l] = @ - 1]
      /\ order' = [order EXCEPT ![l] = RemoveAt(s, 1)]
  <2>1. /\ count' = [count EXCEPT ![l] = @ + (-1)]
        /\ count[l] + (-1) = count[l] - 1
    BY <1>1, <1>2 DEF list_pop_first, pop_none, Count
  <2>2. /\ frist' = Set(frist, l, next[frist[l]])
        /\ last' = IF next[frist[l]] = NULL THEN Set(last, l, NULL) ELSE last
        /\ pre' = Set(Set(pre, next[frist[l]], NULL), frist[l], NULL)
        /\ next' = Set(next, frist[l], NULL)
        /\ result' = frist[l]
        /\ order' = [order EXCEPT ![l] = Tail(s)]
    BY DEF list_pop_first, pop_none, Order
  <2> HIDE DEF s
  <2> QED
    BY <1>4, <1>5, <2>1, <2>2
<1>7. /\ frist' = [frist EXCEPT ![l] = At(s, 2)]
      /\ last' = [last EXCEPT ![l] = IF 1 = Len(s) THEN NULL ELSE @]
      /\ next' = Set(Set(next, NULL, At(s, 2)), s[1], NULL)
  <2>1. last = [last EXCEPT ![l] = last[l]]
    BY DEF ListInv, ListType
  <2> QED
    BY <1>1, <1>4, <1>6, <2>1 DEF Set
<1>8. 1 - 1 = 0 /\ 1 + 1 = 2 /\ 1 \in 1 .. Len(s)
  BY <1>1, <1>3
<1> QED
  BY <1>4, <1>6, <1>7, <1>8 DEF PopAt

\* list_pop_last takes the last one ...
LEMMA PopLastAt ==
  ASSUME ListInv, NEW l \in Lists, list_pop_last(l), count[l] # 0
  PROVE  Len(order[l]) \in 1 .. Len(order[l]) /\ PopAt(l, Len(order[l]))
<1> DEFINE s == order[l]
           k == Len(s)
<1>1. /\ s \in Seq(Nodes) /\ IsInjective(s)
      /\ k \in Nat /\ DOMAIN s = 1 .. k
      /\ Chain(s, frist[l], last[l], count[l], next, pre)
      /\ NULL \notin Nodes /\ NULL \notin Lists
  BY ListFacts
<1>2. count[l] = k
  BY <1>1 DEF Chain
<1>3. k > 0 /\ k \in 1 .. k /\ s # <<>>
  BY <1>1, <1>2, EmptySeq
<1>4. /\ last[l] = s[k] /\ pre[s[k]] = At(s, k - 1)
      /\ At(s, k + 1) = NULL /\ (At(s, k - 1) = NULL <=> k = 1)
  <2>1. last[l] = s[k] /\ pre[s[k]] = At(s, k - 1)
    BY <1>1, <1>3 DEF Chain, At
  <2>2. k - 1 \in Int /\ k + 1 \in Int
    BY <1>1
  <2>3. /\ At(s, k + 1) = NULL <=> k + 1 \notin 1 .. k
        /\ At(s, k - 1) = NULL <=> k - 1 \notin 1 .. k
    BY <1>1, <2>2, AtPosition
  <2>4. k + 1 \notin 1 .. k /\ (k - 1 \notin 1 .. k <=> k = 1)
    <3>1. k \in Nat /\ k > 0
      BY <1>1, <1>3
    <3> HIDE DEF k
    <3> QED
      BY <3>1
  <2> QED
    BY <2>1, <2>3, <2>4
<1>5. Front(s) = RemoveAt(s, k)
  BY <1>1, <1>3, PopEnds
<1>6. /\ last' = Set(last, l, At(s, k - 1))
      /\ frist' = IF At(s, k - 1) = NULL THEN Set(frist, l, NULL) ELSE frist
      /\ next' = Set(Set(next, At(s, k - 1), NULL), s[k], NULL)
      /\ pre' = Set(pre, s[k], NULL)
      /\ result' = s[k]
      /\ count' = [count EXCEPT ![l] = @ - 1]
      /\ order' = [order EXCEPT ![l] = RemoveAt(s, k)]
  <2>1. /\ count' = [count EXCEPT ![l] = @ + (-1)]
        /\ count[l] + (-1) = count[l] - 1
    BY <1>1, <1>2 DEF list_pop_last, pop_none, Count
  <2>2. /\ last' = Set(last, l, pre[last[l]])
        /\ frist' = IF pre[last[l]] = NULL THEN Set(frist, l, NULL) ELSE frist
        /\ next' = Set(Set(next, pre[last[l]], NULL), last[l], NULL)
        /\ pre' = Set(pre, last[l], NULL)
        /\ result' = last[l]
        /\ order' = [order EXCEPT ![l] = Front(s)]
    BY DEF list_pop_last, pop_none, Order, remove_last
  <2> HIDE DEF s, k
  <2> QED
    BY <1>4, <1>5, <2>1, <2>2
<1>7. /\ last' = [last EXCEPT ![l] = At(s, k - 1)]
      /\ frist' = [frist EXCEPT ![l] = IF k = 1 THEN NULL ELSE @]
      /\ pre' = Set(Set(pre, NULL, At(s, k - 1)), s[k], NULL)
  <2>1. frist = [frist EXCEPT ![l] = frist[l]]
    BY DEF ListInv, ListType
  <2> QED
    BY <1>1, <1>4, <1>6, <2>1 DEF Set
<1>8. k = 1 => At(s, 2) = NULL
  BY <1>4
<1> QED
  BY <1>3, <1>4, <1>6, <1>7, <1>8 DEF PopAt

\* ... and list_pop the one it is given.
LEMMA PopNodeAt ==
  ASSUME ListInv, NEW l \in Lists, NEW n \in Nodes, list_pop(l, n)
  PROVE  \E k \in 1 .. Len(order[l]) : PopAt(l, k)
<1> DEFINE s == order[l]
<1>1. /\ s \in Seq(Nodes) /\ IsInjective(s)
      /\ Len(s) \in Nat /\ DOMAIN s = 1 .. Len(s)
      /\ Chain(s, frist[l], last[l], count[l], next, pre)
      /\ NULL \notin Nodes /\ NULL \notin Lists
  BY ListFacts
<1>2. PICK k \in 1 .. Len(s) : n = s[k]
  BY <1>1 DEF list_pop, LinkedIn, Range
<1>3. next[n] = At(s, k + 1) /\ pre[n] = At(s, k - 1) /\ count[l] = Len(s)
  BY <1>1, <1>2 DEF Chain
<1>4. (n = frist[l] <=> k = 1) /\ (n = last[l] <=> k = Len(s))
  <2>1. frist[l] = At(s, 1) /\ last[l] = At(s, Len(s))
    BY <1>1 DEF Chain
  <2> QED
    BY <1>1, <1>2, <2>1, AtPosition
<1>5. Without(s, n) = RemoveAt(s, k)
  BY <1>1, <1>2, WithoutAt
<1>6. /\ frist' = IF k = 1 THEN Set(frist, l, At(s, k + 1)) ELSE frist
      /\ last' = IF k = Len(s) THEN Set(last, l, At(s, k - 1)) ELSE last
      /\ next' = Set(Set(next, At(s, k - 1), At(s, k + 1)), s[k], NULL)
      /\ pre' = Set(Set(pre, At(s, k + 1), At(s, k - 1)), s[k], NULL)
      /\ result' = s[k]
      /\ order' = [order EXCEPT ![l] = RemoveAt(s, k)]
  BY <1>2, <1>3, <1>4, <1>5 DEF list_pop, Order
<1>7. count' = [count EXCEPT ![l] = @ - 1]
  <2>1. /\ count' = [count EXCEPT ![l] = @ + (-1)]
        /\ count[l] + (-1) = count[l] - 1
    BY <1>1, <1>3 DEF list_pop, Count
  <2> QED
    BY <2>1
<1>8. k = 1 => k + 1 = 2
  OBVIOUS
<1>9. frist' = [frist EXCEPT ![l] = IF k = 1 THEN At(s, 2) ELSE @]
  <2>1. frist = [frist EXCEPT ![l] = frist[l]]
    BY DEF ListInv, ListType
  <2> QED
    BY <1>1, <1>6, <1>8, <2>1 DEF Set
<1>10. last' = [last EXCEPT ![l] = IF k = Len(s) THEN At(s, k - 1) ELSE @]
  <2>1. last = [last EXCEPT ![l] = last[l]]
    BY DEF ListInv, ListType
  <2> QED
    BY <1>1, <1>6, <2>1 DEF Set
<1>11. PopAt(l, k)
  BY <1>6, <1>7, <1>9, <1>10 DEF PopAt
<1> QED
  BY <1>11

\* list_insert_first puts a node that is on no list in front.
LEMMA InsertFirstInv ==
  ASSUME ListInv, NEW l \in Lists, NEW n \in Nodes, list_insert_first(l, n)
  PROVE  ListInv' /\ order' = [order EXCEPT ![l] = <<n>> \o order[l]]
<1> DEFINE s == order[l]
           old == IF count[l] = 0 THEN NULL ELSE frist[l]
<1>1. /\ s \in Seq(Nodes) /\ IsInjective(s)
      /\ Len(s) \in Nat /\ DOMAIN s = 1 .. Len(s)
      /\ Chain(s, frist[l], last[l], count[l], next, pre)
      /\ NULL \notin Nodes /\ NULL \notin Lists
  BY ListFacts
<1>2. ListType /\ n \notin Range(s)
  BY DEF ListInv, list_insert_first, Detached, LinkedIn
<1>3. old = At(s, 1) /\ old \in Pointers /\ frist[l] = old
  <2>1. frist[l] = At(s, 1) /\ count[l] = Len(s)
    BY <1>1 DEF Chain
  <2>2. At(s, 1) \in Pointers /\ (Len(s) = 0 => At(s, 1) = NULL)
    BY <1>1, AtPosition
  <2> QED
    BY <2>1, <2>2
<1>4. order' = [order EXCEPT ![l] = <<n>> \o s]
  BY DEF list_insert_first, Order
<1>5. /\ next' = Set(next, n, old)
      /\ pre' = Set(Set(pre, n, NULL), old, n)
      /\ frist' = Set(frist, l, n)
      /\ last' = IF count[l] = 0 THEN Set(last, l, n) ELSE last
      /\ count' = [count EXCEPT ![l] = @ + 1]
  BY <1>3 DEF list_insert_first, Count
<1> HIDE DEF old
<1>6. /\ next' \in [Nodes -> Pointers]
      /\ \A y \in Nodes : next'[y] = IF y = n THEN old ELSE next[y]
  BY <1>1, <1>2, <1>3, <1>5 DEF ListType, Set, Pointers
<1>7. /\ pre' \in [Nodes -> Pointers]
      /\ \A y \in Nodes : pre'[y] = IF y = old THEN n ELSE IF y = n THEN NULL ELSE pre[y]
  BY <1>1, <1>2, <1>3, <1>5 DEF ListType, Set, Pointers
<1>8. /\ frist' = [frist EXCEPT ![l] = n]
      /\ last' = [last EXCEPT ![l] = IF count[l] = 0 THEN n ELSE @]
  <2>1. last = [last EXCEPT ![l] = last[l]]
    BY <1>2 DEF ListType
  <2> QED
    BY <1>1, <1>5, <2>1 DEF Set
<1>9. /\ <<n>> \o s \in Seq(Nodes)
      /\ IsInjective(<<n>> \o s) /\ Range(<<n>> \o s) = Range(s) \cup {n}
  BY <1>1, <1>2, ConsProperties
<1>10. ListType'
  <2>1. count' \in [Lists -> Int]
    BY <1>2, <1>5 DEF ListType
  <2>2. order' \in [Lists -> Seq(Nodes)]
    <3> HIDE DEF s
    <3> QED
      BY <1>2, <1>4, <1>9 DEF ListType
  <2>3. frist' \in [Lists -> Pointers] /\ last' \in [Lists -> Pointers]
    BY <1>2, <1>8 DEF ListType, Pointers
  <2> QED
    BY <1>6, <1>7, <2>1, <2>2, <2>3 DEF ListType
<1>11. /\ order'[l] = <<n>> \o s
       /\ frist'[l] = n
       /\ last'[l] = IF count[l] = 0 THEN n ELSE last[l]
       /\ count'[l] = count[l] + 1
       /\ \A m \in Lists \ {l} : /\ order'[m] = order[m]
                                 /\ frist'[m] = frist[m]
                                 /\ last'[m] = last[m]
                                 /\ count'[m] = count[m]
  BY <1>2, <1>4, <1>5, <1>8 DEF ListType
<1>12. FirstLedBy(s, n, next, pre, next', pre')
  <2> SUFFICES ASSUME NEW j \in 1 .. Len(s)
               PROVE  /\ next'[s[j]] = next[s[j]]
                      /\ pre'[s[j]] = IF j = 1 THEN n ELSE pre[s[j]]
    BY DEF FirstLedBy
  <2>1. s[j] \in Nodes /\ (old = s[j] <=> j = 1)
    BY <1>1, <1>3, AtPosition
  <2>2. s[j] # n
    BY <1>1, <1>2 DEF Range
  <2> QED
    BY <2>1, <2>2, <1>6, <1>7
<1>13. next'[n] = frist[l] /\ pre'[n] = NULL
  <2>1. old # n
    BY <1>1, <1>2, <1>3 DEF At, Range
  <2> QED
    BY <2>1, <1>3, <1>6, <1>7
<1>14. Chain(order'[l], frist'[l], last'[l], count'[l], next', pre')
  <2> HIDE DEF s
  <2>1. Chain(<<n>> \o s, n, IF count[l] = 0 THEN n ELSE last[l], count[l] + 1,
              next', pre')
    BY <1>1, <1>12, <1>13, LinkFirst
  <2> QED
    BY <1>11, <2>1
<1>15. ASSUME NEW x \in Nodes \ {n}, x \notin Range(s)
       PROVE  next'[x] = next[x] /\ pre'[x] = pre[x]
  <2>1. old # x
    BY <1>1, <1>3, <1>15 DEF At, Range
  <2> QED
    BY <2>1, <1>6, <1>7
<1>16. /\ Detached(n) /\ Range(order'[l]) = Range(order[l]) \cup {n}
       /\ IsInjective(order'[l])
  BY <1>9, <1>11 DEF list_insert_first
<1>17. /\ \A m \in Lists \ {l} : /\ order'[m] = order[m]
                                 /\ frist'[m] = frist[m]
                                 /\ last'[m] = last[m]
                                 /\ count'[m] = count[m]
       /\ \A x \in Nodes \ {n} : x \notin Range(order[l]) =>
            next'[x] = next[x] /\ pre'[x] = pre[x]
  <2>1. \A x \in Nodes \ {n} : x \notin Range(s) =>
          next'[x] = next[x] /\ pre'[x] = pre[x]
    BY <1>15
  <2> QED
    BY <1>11, <2>1
<1>18. ListInv'
  <2> HIDE DEF s
  <2> QED
    BY <1>10, <1>14, <1>16, <1>17, OneList
<1> QED
  BY <1>4, <1>18

\* list_insert_last puts it at the end.
LEMMA InsertLastInv ==
  ASSUME ListInv, NEW l \in Lists, NEW n \in Nodes, list_insert_last(l, n)
  PROVE  ListInv' /\ order' = [order EXCEPT ![l] = Append(order[l], n)]
<1> DEFINE s == order[l]
           old == old_last(l)
<1>1. /\ s \in Seq(Nodes) /\ IsInjective(s)
      /\ Len(s) \in Nat /\ DOMAIN s = 1 .. Len(s)
      /\ Chain(s, frist[l], last[l], count[l], next, pre)
      /\ NULL \notin Nodes /\ NULL \notin Lists
  BY ListFacts
<1>2. ListType /\ n \notin Range(s)
  BY DEF ListInv, list_insert_last, Detached, LinkedIn
<1>3. old = At(s, Len(s)) /\ old \in Pointers /\ last[l] = old
  <2>1. last[l] = At(s, Len(s)) /\ count[l] = Len(s)
    BY <1>1 DEF Chain
  <2>2. At(s, Len(s)) \in Pointers /\ (Len(s) = 0 => At(s, Len(s)) = NULL)
    BY <1>1, AtPosition
  <2> QED
    BY <2>1, <2>2 DEF old_last
<1>4. order' = [order EXCEPT ![l] = Append(s, n)]
  BY DEF list_insert_last, Order
<1>5. /\ pre' = Set(pre, n, old)
      /\ next' = Set(Set(next, n, NULL), old, n)
      /\ last' = Set(last, l, n)
      /\ frist' = IF count[l] = 0 THEN Set(frist, l, n) ELSE frist
      /\ count' = [count EXCEPT ![l] = @ + 1]
  BY <1>3 DEF list_insert_last, Count
<1> HIDE DEF old
<1>6. /\ pre' \in [Nodes -> Pointers]
      /\ \A y \in Nodes : pre'[y] = IF y = n THEN old ELSE pre[y]
  BY <1>1, <1>2, <1>3, <1>5 DEF ListType, Set, Pointers
<1>7. /\ next' \in [Nodes -> Pointers]
      /\ \A y \in Nodes : next'[y] = IF y = old THEN n ELSE IF y = n THEN NULL ELSE next[y]
  BY <1>1, <1>2, <1>3, <1>5 DEF ListType, Set, Pointers
<1>8. /\ last' = [last EXCEPT ![l] = n]
      /\ frist' = [frist EXCEPT ![l] = IF count[l] = 0 THEN n ELSE @]
  <2>1. frist = [frist EXCEPT ![l] = frist[l]]
    BY <1>2 DEF ListType
  <2> QED
    BY <1>1, <1>5, <2>1 DEF Set
<1>9. /\ Append(s, n) \in Seq(Nodes)
      /\ IsInjective(Append(s, n)) /\ Range(Append(s, n)) = Range(s) \cup {n}
  BY <1>1, <1>2, AppendInjectiveSeq, AppendRange
<1>10. ListType'
  <2>1. count' \in [Lists -> Int]
    BY <1>2, <1>5 DEF ListType
  <2>2. order' \in [Lists -> Seq(Nodes)]
    <3> HIDE DEF s
    <3> QED
      BY <1>2, <1>4, <1>9 DEF ListType
  <2>3. frist' \in [Lists -> Pointers] /\ last' \in [Lists -> Pointers]
    BY <1>2, <1>8 DEF ListType, Pointers
  <2> QED
    BY <1>6, <1>7, <2>1, <2>2, <2>3 DEF ListType
<1>11. /\ order'[l] = Append(s, n)
       /\ last'[l] = n
       /\ frist'[l] = IF count[l] = 0 THEN n ELSE frist[l]
       /\ count'[l] = count[l] + 1
       /\ \A m \in Lists \ {l} : /\ order'[m] = order[m]
                                 /\ frist'[m] = frist[m]
                                 /\ last'[m] = last[m]
                                 /\ count'[m] = count[m]
  BY <1>2, <1>4, <1>5, <1>8 DEF ListType
<1>12. LastLeadsTo(s, n, next, pre, next', pre')
  <2> SUFFICES ASSUME NEW j \in 1 .. Len(s)
               PROVE  /\ next'[s[j]] = IF j = Len(s) THEN n ELSE next[s[j]]
                      /\ pre'[s[j]] = pre[s[j]]
    BY DEF LastLeadsTo
  <2>1. s[j] \in Nodes /\ (old = s[j] <=> j = Len(s))
    BY <1>1, <1>3, AtPosition
  <2>2. s[j] # n
    BY <1>1, <1>2 DEF Range
  <2> QED
    BY <2>1, <2>2, <1>6, <1>7
<1>13. pre'[n] = last[l] /\ next'[n] = NULL
  <2>1. old # n
    BY <1>1, <1>2, <1>3 DEF At, Range
  <2> QED
    BY <2>1, <1>3, <1>6, <1>7
<1>14. Chain(order'[l], frist'[l], last'[l], count'[l], next', pre')
  <2> HIDE DEF s
  <2>1. Chain(Append(s, n), IF count[l] = 0 THEN n ELSE frist[l], n, count[l] + 1,
              next', pre')
    BY <1>1, <1>12, <1>13, LinkLast
  <2> QED
    BY <1>11, <2>1
<1>15. ASSUME NEW x \in Nodes \ {n}, x \notin Range(s)
       PROVE  next'[x] = next[x] /\ pre'[x] = pre[x]
  <2>1. old # x
    BY <1>1, <1>3, <1>15 DEF At, Range
  <2> QED
    BY <2>1, <1>6, <1>7
<1>16. /\ Detached(n) /\ Range(order'[l]) = Range(order[l]) \cup {n}
       /\ IsInjective(order'[l])
  BY <1>9, <1>11 DEF list_insert_last
<1>17. /\ \A m \in Lists \ {l} : /\ order'[m] = order[m]
                                 /\ frist'[m] = frist[m]
                                 /\ last'[m] = last[m]
                                 /\ count'[m] = count[m]
       /\ \A x \in Nodes \ {n} : x \notin Range(order[l]) =>
            next'[x] = next[x] /\ pre'[x] = pre[x]
  <2>1. \A x \in Nodes \ {n} : x \notin Range(s) =>
          next'[x] = next[x] /\ pre'[x] = pre[x]
    BY <1>15
  <2> QED
    BY <1>11, <2>1
<1>18. ListInv'
  <2> HIDE DEF s
  <2> QED
    BY <1>10, <1>14, <1>16, <1>17, OneList
<1> QED
  BY <1>4, <1>18

\* All lists are empty and all nodes detached.
LEMMA InitListInv == ListInit => ListInv
<1> SUFFICES ASSUME ListInit PROVE ListInv
  OBVIOUS
<1>1. ListType
  BY DEF ListInit, ListType, Pointers
<1>2. \A l \in Lists : order[l] = <<>> /\ Range(order[l]) = {} /\ IsInjective(order[l])
  BY EmptyList DEF ListInit
<1>3. \A l \in Lists : Chain(order[l], frist[l], last[l], count[l], next, pre)
  BY DEF ListInit, Chain, At
<1>4. \A n \in Nodes : next[n] = NULL /\ pre[n] = NULL
  BY DEF ListInit
<1> QED
  BY <1>1, <1>2, <1>3, <1>4 DEF ListInv

\* What a call does to the lists that callers mean: one grows at an end, or
\* loses the node that is returned, or nothing happens.
CallEffect(l) ==
  \/ UNCHANGED order
  \/ \E n \in Nodes : order' \in {[order EXCEPT ![l] = <<n>> \o order[l]],
                                  [order EXCEPT ![l] = Append(order[l], n)]}
  \/ \E k \in 1 .. Len(order[l]) :
       /\ result' = order[l][k]
       /\ Range(order'[l]) = Range(order[l]) \ {order[l][k]}
       /\ \A m \in Lists \ {l} : order'[m] = order[m]

\* Every call keeps the invariant, and has one of these effects.
LEMMA CallInv ==
  ASSUME ListInv, NEW l \in Lists,
         \/ list_pop_first(l)
         \/ list_pop_last(l)
         \/ \E n \in Nodes : \/ list_insert_first(l, n)
                             \/ list_insert_last(l, n)
                             \/ list_pop(l, n)
  PROVE  ListInv' /\ CallEffect(l)
<1>1. CASE pop_none(l)
  <2>1. UNCHANGED <<frist, last, count, pre, next, order>>
    BY <1>1 DEF pop_none
  <2> QED
    BY <2>1 DEF ListInv, ListType, Detached, LinkedIn, CallEffect
<1>2. ASSUME NEW k \in 1 .. Len(order[l]), PopAt(l, k)
      PROVE  ListInv' /\ CallEffect(l)
  BY <1>2, PopAtInv DEF CallEffect
<1>3. CASE list_pop_first(l) /\ ~pop_none(l)
  <2>1. count[l] # 0
    BY <1>3 DEF list_pop_first
  <2> QED
    BY <1>2, <1>3, <2>1, PopFirstAt
<1>4. CASE list_pop_last(l) /\ ~pop_none(l)
  <2>1. count[l] # 0
    BY <1>4 DEF list_pop_last
  <2> QED
    BY <1>2, <1>4, <2>1, PopLastAt
<1>5. ASSUME NEW n \in Nodes, list_pop(l, n)
      PROVE  ListInv' /\ CallEffect(l)
  BY <1>2, <1>5, PopNodeAt
<1>6. ASSUME NEW n \in Nodes, list_insert_first(l, n) \/ list_insert_last(l, n)
      PROVE  ListInv' /\ CallEffect(l)
  BY <1>6, InsertFirstInv, InsertLastInv DEF CallEffect
<1> QED
  BY <1>1, <1>3, <1>4, <1>5, <1>6

\* Every step of list.c keeps the invariant.
LEMMA NextListInv == ListInv /\ [ListNext]_listVars => ListInv'
<1> SUFFICES ASSUME ListInv, [ListNext]_listVars
             PROVE  ListInv'
  OBVIOUS
<1>1. CASE UNCHANGED listVars
  BY <1>1 DEF listVars, ListInv, ListType, Detached, LinkedIn
<1>2. CASE ListNext
  BY <1>2, CallInv DEF ListNext
<1> QED
  BY <1>1, <1>2

\* Through every sequence of calls, on any number of lists and nodes, the
\* pointers and the counter of list.c agree with the lists that callers mean.
THEOREM ListsLinked == ListSpec => []Linked
<1>1. ListInv => Linked
  BY DEF ListInv, Chain, Linked
<1> QED
  BY <1>1, InitListInv, NextListInv, PTL DEF ListSpec

\* list_pop, list_pop_first and list_pop_last return the node they take off.
THEOREM ReturnsPopped == ListSpec => PopReturns
<1> DEFINE Returned ==
  \A l \in Lists :
    Len(order'[l]) < Len(order[l])
      => /\ result' \in Range(order[l]) \ Range(order'[l])
         /\ Range(order'[l]) = Range(order[l]) \ {result'}
<1>1. ASSUME ListInv, [ListNext]_listVars
      PROVE  [Returned]_listVars
  <2>1. ASSUME NEW l \in Lists, CallEffect(l), NEW m \in Lists,
               Len(order'[m]) < Len(order[m])
        PROVE  /\ result' \in Range(order[m]) \ Range(order'[m])
               /\ Range(order'[m]) = Range(order[m]) \ {result'}
    <3>1. /\ order[m] \in Seq(Nodes) /\ order \in [Lists -> Seq(Nodes)]
          /\ Len(order[m]) \in Nat /\ DOMAIN order[m] = 1 .. Len(order[m])
      BY <1>1, ListFacts DEF ListInv, ListType
    <3>2. CASE UNCHANGED order
      BY <2>1, <3>1, <3>2
    <3>3. ASSUME NEW n \in Nodes,
                 order' \in {[order EXCEPT ![l] = <<n>> \o order[l]],
                             [order EXCEPT ![l] = Append(order[l], n)]}
          PROVE  FALSE
      <4>1. m = l
        BY <2>1, <3>1, <3>3
      <4>2. Len(<<n>> \o order[m]) = Len(order[m]) + 1
        BY <3>1, ConsProperties
      <4>3. Len(Append(order[m], n)) = Len(order[m]) + 1
        BY <3>1, AppendProperties
      <4>4. order'[m] = <<n>> \o order[m] \/ order'[m] = Append(order[m], n)
        BY <3>1, <3>3, <4>1
      <4>5. Len(order'[m]) = Len(order[m]) + 1
        BY <4>2, <4>3, <4>4
      <4> QED
        BY <2>1, <3>1, <4>5
    <3>4. ASSUME NEW k \in 1 .. Len(order[l]), result' = order[l][k],
                 Range(order'[l]) = Range(order[l]) \ {order[l][k]},
                 \A j \in Lists \ {l} : order'[j] = order[j]
          PROVE  /\ result' \in Range(order[m]) \ Range(order'[m])
                 /\ Range(order'[m]) = Range(order[m]) \ {result'}
      <4>1. m = l
        BY <2>1, <3>1, <3>4
      <4>2. order[m][k] \in Range(order[m])
        BY <3>1, <4>1 DEF Range
      <4> QED
        BY <3>4, <4>1, <4>2
    <3> QED
      BY <2>1, <3>2, <3>3, <3>4 DEF CallEffect
  <2>2. CASE ListNext
    BY <1>1, <2>1, <2>2, CallInv DEF ListNext
  <2> QED
    BY <1>1, <2>2
<1>2. ListSpec => []ListInv
  BY InitListInv, NextListInv, PTL DEF ListSpec
<1>3. ListInv /\ [ListNext]_listVars => [Returned]_listVars
  BY <1>1
<1> QED
  BY <1>2, <1>3, PTL DEF ListSpec, PopReturns

=============================================================================
