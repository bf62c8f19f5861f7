---------------------------- MODULE SequenceLemmas ----------------------------
(***************************************************************************)
(* What the models do to sequences, and how it changes the number of       *)
(* places that hold some element.                                          *)
(***************************************************************************)
EXTENDS Integers, Sequences, FiniteSets, SequencesExt,
        FiniteSetTheorems, SequenceTheorems, TLAPS

(* The three ways to change a queue, and a suffix of it. *)

\* EnqueueTask at the end: the new record is the last one.
LEMMA AppendRecord ==
  ASSUME NEW S, NEW s \in Seq(S), NEW e \in S
  PROVE  /\ Append(s, e) \in Seq(S)
         /\ Len(Append(s, e)) = Len(s) + 1
         /\ \A i \in 1..Len(s) + 1 :
              Append(s, e)[i] = IF i <= Len(s) THEN s[i] ELSE e
  BY AppendProperties, LenProperties

\* EnqueueTask of an urgent task: the others move up by one.
LEMMA PrependRecord ==
  ASSUME NEW S, NEW s \in Seq(S), NEW e \in S
  PROVE  /\ <<e>> \o s \in Seq(S)
         /\ Len(<<e>> \o s) = Len(s) + 1
         /\ \A i \in 1..Len(s) + 1 :
              (<<e>> \o s)[i] = IF i = 1 THEN e ELSE s[i - 1]
  <1>1. <<e>> \in Seq(S) /\ Len(<<e>>) = 1 /\ <<e>>[1] = e
    OBVIOUS
  <1>2. Len(s) \in Nat
    BY LenProperties
  <1>. QED
    BY <1>1, <1>2, ConcatProperties

\* _thread_proc takes the first record: the others move down by one.
LEMMA TailRecord ==
  ASSUME NEW S, NEW s \in Seq(S), s # <<>>
  PROVE  /\ Tail(s) \in Seq(S) /\ Head(s) = s[1] /\ Head(s) \in S
         /\ Len(s) \in Nat /\ Len(s) > 0
         /\ Len(Tail(s)) = Len(s) - 1
         /\ \A i \in 1..Len(s) - 1 : Tail(s)[i] = s[i + 1]
  BY HeadTailProperties, LenProperties, EmptySeq

\* DequeueTask takes record i out of the middle: those behind it move down.
LEMMA RemoveRecord ==
  ASSUME NEW S, NEW s \in Seq(S), NEW k \in 1..Len(s)
  PROVE  /\ RemoveAt(s, k) \in Seq(S)
         /\ Len(RemoveAt(s, k)) = Len(s) - 1
         /\ \A i \in 1..Len(s) - 1 :
              RemoveAt(s, k)[i] = IF i < k THEN s[i] ELSE s[i + 1]
  <1> DEFINE a == SubSeq(s, 1, k - 1)
             b == SubSeq(s, k + 1, Len(s))
  <1>1. Len(s) \in Nat /\ k \in Nat /\ k >= 1 /\ k <= Len(s)
    BY LenProperties
  <1>2. \A i \in 1..Len(s) : s[i] \in S
    BY ElementOfSeq
  <1>3. /\ a \in Seq(S) /\ Len(a) = k - 1
        /\ \A i \in 1..k - 1 : a[i] = s[i]
    <2>1. \A i \in 1..k - 1 : s[i] \in S
      BY <1>1, <1>2
    <2>2. /\ a \in Seq(S)
          /\ Len(a) = IF 1 <= k - 1 THEN k - 1 - 1 + 1 ELSE 0
          /\ \A i \in 1..k - 1 - 1 + 1 : a[i] = s[1 + i - 1]
      BY <2>1, <1>1, SubSeqProperties
    <2>. QED
      BY <2>2, <1>1
  <1>4. /\ b \in Seq(S) /\ Len(b) = Len(s) - k
        /\ \A i \in 1..Len(s) - k : b[i] = s[k + i]
    <2>1. \A i \in k + 1..Len(s) : s[i] \in S
      BY <1>1, <1>2
    <2>2. /\ b \in Seq(S)
          /\ Len(b) = IF k + 1 <= Len(s) THEN Len(s) - (k + 1) + 1 ELSE 0
          /\ \A i \in 1..Len(s) - (k + 1) + 1 : b[i] = s[k + 1 + i - 1]
      BY <2>1, <1>1, SubSeqProperties
    <2>. QED
      BY <2>2, <1>1
  <1>5. /\ a \o b \in Seq(S) /\ Len(a \o b) = Len(a) + Len(b)
        /\ \A i \in 1..Len(a) + Len(b) :
             (a \o b)[i] = IF i <= Len(a) THEN a[i] ELSE b[i - Len(a)]
    BY <1>3, <1>4, ConcatProperties
  <1>6. RemoveAt(s, k) = a \o b
    BY DEF RemoveAt
  <1>7. \A i \in 1..Len(s) - 1 : (a \o b)[i] = IF i < k THEN s[i] ELSE s[i + 1]
    <2>. SUFFICES ASSUME NEW i \in 1..Len(s) - 1
                  PROVE  (a \o b)[i] = IF i < k THEN s[i] ELSE s[i + 1]
      OBVIOUS
    <2>. HIDE DEF a, b
    <2>1. CASE i < k
      BY <2>1, <1>1, <1>3, <1>4, <1>5
    <2>2. CASE ~(i < k)
      <3>1. (a \o b)[i] = b[i - (k - 1)]
        BY <2>2, <1>1, <1>3, <1>4, <1>5
      <3>2. i - (k - 1) \in 1..Len(s) - k /\ k + (i - (k - 1)) = i + 1
        BY <2>2, <1>1
      <3>. QED
        BY <2>2, <3>1, <3>2, <1>4
    <2>. QED
      BY <2>1, <2>2
  <1>. HIDE DEF a, b
  <1>8. Len(a \o b) = Len(s) - 1
    BY <1>1, <1>3, <1>4, <1>5
  <1>. QED
    BY <1>5, <1>6, <1>7, <1>8, Zenon

\* The first n elements are taken away: those behind them move down.
LEMMA SuffixOf ==
  ASSUME NEW S, NEW s \in Seq(S), NEW n \in 0..Len(s)
  PROVE  /\ SubSeq(s, n + 1, Len(s)) \in Seq(S)
         /\ Len(SubSeq(s, n + 1, Len(s))) = Len(s) - n
         /\ \A i \in 1..Len(s) - n : SubSeq(s, n + 1, Len(s))[i] = s[n + i]
  <1>1. Len(s) \in Nat
    BY LenProperties
  <1>2. \A i \in n + 1..Len(s) : s[i] \in S
    BY <1>1, ElementOfSeq
  <1>3. /\ SubSeq(s, n + 1, Len(s)) \in Seq(S)
        /\ Len(SubSeq(s, n + 1, Len(s))) = IF n + 1 <= Len(s) THEN Len(s) - (n + 1) + 1 ELSE 0
        /\ \A i \in 1..Len(s) - (n + 1) + 1 : SubSeq(s, n + 1, Len(s))[i] = s[n + 1 + i - 1]
    BY <1>1, <1>2, SubSeqProperties
  <1>. QED
    BY <1>1, <1>3

-----------------------------------------------------------------------------
(* The places that hold one of the elements of C *)

Places(s, C) == {i \in DOMAIN s : s[i] \in C}

\* They are finitely many.
LEMMA PlacesFinite ==
  ASSUME NEW S, NEW s \in Seq(S), NEW C
  PROVE  /\ IsFiniteSet(Places(s, C)) /\ Cardinality(Places(s, C)) \in Nat
         /\ Places(s, C) \subseteq 1..Len(s)
  <1>1. DOMAIN s = 1..Len(s) /\ Len(s) \in Nat
    BY LenProperties
  <1>2. IsFiniteSet(1..Len(s))
    BY <1>1, FS_Interval
  <1>3. Places(s, C) \in SUBSET (1..Len(s))
    BY <1>1 DEF Places
  <1>4. IsFiniteSet(Places(s, C))
    BY <1>2, <1>3, FS_Subset
  <1>. QED
    BY <1>3, <1>4, FS_CardinalityType

\* Append adds one place if the element that is appended is in C.
LEMMA PlacesAppend ==
  ASSUME NEW S, NEW s \in Seq(S), NEW e \in S, NEW C
  PROVE  Cardinality(Places(Append(s, e), C)) =
           Cardinality(Places(s, C)) + (IF e \in C THEN 1 ELSE 0)
  <1>1. DOMAIN s = 1..Len(s) /\ Len(s) \in Nat
    BY LenProperties
  <1>2. Append(s, e) \in Seq(S) /\ DOMAIN Append(s, e) = 1..Len(s) + 1
    BY AppendRecord, LenProperties
  <1>3. Places(Append(s, e), C) =
          IF e \in C THEN Places(s, C) \cup {Len(s) + 1} ELSE Places(s, C)
    <2>1. \A i \in 1..Len(s) + 1 : Append(s, e)[i] = IF i <= Len(s) THEN s[i] ELSE e
      BY AppendRecord
    <2>. QED
      BY <1>1, <1>2, <2>1 DEF Places
  <1>4. Len(s) + 1 \notin Places(s, C)
    BY <1>1 DEF Places
  <1>5. IsFiniteSet(Places(s, C)) /\ Cardinality(Places(s, C)) \in Nat
    BY PlacesFinite
  <1>6. CASE e \in C
    <2>1. Cardinality(Places(s, C) \cup {Len(s) + 1}) = Cardinality(Places(s, C)) + 1
      BY <1>4, <1>5, FS_AddElement
    <2>. QED
      BY <1>3, <1>6, <2>1
  <1>7. CASE e \notin C
    BY <1>3, <1>5, <1>7
  <1>. QED
    BY <1>6, <1>7

\* An order-preserving renumbering keeps the number of places.
LEMMA PlacesMoved ==
  ASSUME NEW S, NEW T, IsFiniteSet(S), NEW f \in [S -> T],
         \A i, j \in S : f[i] = f[j] => i = j,
         \A k \in T : \E i \in S : f[i] = k
  PROVE  Cardinality(T) = Cardinality(S)
  <1>1. f \in Bijection(S, T)
    BY DEF Bijection, Injection, Surjection, IsInjective
  <1>. QED
    BY <1>1, FS_Bijection DEF ExistsBijection

\* RemoveAt takes one place away if the element that was there is in C.
LEMMA PlacesRemove ==
  ASSUME NEW S, NEW s \in Seq(S), NEW k \in 1..Len(s), NEW C
  PROVE  Cardinality(Places(RemoveAt(s, k), C)) =
           Cardinality(Places(s, C)) - (IF s[k] \in C THEN 1 ELSE 0)
  <1> DEFINE r == RemoveAt(s, k)
             P == Places(s, C) \ {k}
             f == [i \in P |-> IF i < k THEN i ELSE i - 1]
  <1>1. DOMAIN s = 1..Len(s) /\ Len(s) \in Nat /\ k \in Nat
    BY LenProperties
  <1>2. /\ r \in Seq(S) /\ DOMAIN r = 1..Len(s) - 1
        /\ \A i \in 1..Len(s) - 1 : r[i] = IF i < k THEN s[i] ELSE s[i + 1]
    BY RemoveRecord, LenProperties
  <1>3. \A i \in P : i \in 1..Len(s) /\ i # k /\ s[i] \in C
    BY <1>1 DEF Places
  <1>4. \A j \in Places(r, C) : j \in 1..Len(s) - 1 /\ r[j] \in C
    BY <1>2 DEF Places
  <1>5. IsFiniteSet(P)
    BY PlacesFinite, FS_RemoveElement
  <1>6. \A i \in P : f[i] \in Places(r, C)
    BY <1>1, <1>2, <1>3 DEF Places
  <1>7. \A i, j \in P : f[i] = f[j] => i = j
    BY <1>1, <1>3
  <1>8. \A j \in Places(r, C) : \E i \in P : f[i] = j
    <2>. SUFFICES ASSUME NEW j \in Places(r, C) PROVE \E i \in P : f[i] = j
      OBVIOUS
    <2>1. CASE j < k
      <3>1. j \in P
        BY <2>1, <1>1, <1>2, <1>4 DEF Places
      <3>. QED
        BY <3>1, <2>1, <1>1, <1>4
    <2>2. CASE ~(j < k)
      <3>1. j + 1 \in P
        BY <2>2, <1>1, <1>2, <1>4 DEF Places
      <3>. QED
        BY <3>1, <2>2, <1>1, <1>4
    <2>. QED
      BY <2>1, <2>2
  <1>9. Cardinality(Places(r, C)) = Cardinality(P)
    <2>1. f \in [P -> Places(r, C)]
      BY <1>6
    <2>. HIDE DEF f, P, r
    <2>. QED
      BY <2>1, <1>5, <1>7, <1>8, PlacesMoved
  <1>10. k \in Places(s, C) <=> s[k] \in C
    BY <1>1 DEF Places
  <1>11. IsFiniteSet(Places(s, C)) /\ Cardinality(Places(s, C)) \in Nat
    BY PlacesFinite
  <1>12. Cardinality(P) = IF k \in Places(s, C) THEN Cardinality(Places(s, C)) - 1
                                                ELSE Cardinality(Places(s, C))
    BY <1>11, FS_RemoveElement
  <1>. HIDE DEF P, r
  <1>13. CASE s[k] \in C
    BY <1>9, <1>10, <1>12, <1>13 DEF r
  <1>14. CASE s[k] \notin C
    BY <1>9, <1>10, <1>11, <1>12, <1>14 DEF r
  <1>. QED
    BY <1>13, <1>14

\* Tail takes one place away if the first element is in C.
LEMMA PlacesTail ==
  ASSUME NEW S, NEW s \in Seq(S), s # <<>>, NEW C
  PROVE  Cardinality(Places(Tail(s), C)) =
           Cardinality(Places(s, C)) - (IF Head(s) \in C THEN 1 ELSE 0)
  <1>1. /\ Tail(s) \in Seq(S) /\ Head(s) = s[1] /\ Len(s) \in Nat /\ Len(s) > 0
        /\ Len(Tail(s)) = Len(s) - 1
        /\ \A i \in 1..Len(s) - 1 : Tail(s)[i] = s[i + 1]
    BY TailRecord
  <1>0. 1 \in 1..Len(s)
    BY <1>1
  <1>2. /\ RemoveAt(s, 1) \in Seq(S) /\ Len(RemoveAt(s, 1)) = Len(s) - 1
        /\ \A i \in 1..Len(s) - 1 : RemoveAt(s, 1)[i] = IF i < 1 THEN s[i] ELSE s[i + 1]
    BY <1>0, RemoveRecord
  <1>3. \A i \in 1..Len(s) - 1 : RemoveAt(s, 1)[i] = Tail(s)[i]
    BY <1>1, <1>2
  <1>4. RemoveAt(s, 1) = Tail(s)
    BY <1>1, <1>2, <1>3, SeqEqual
  <1>5. Cardinality(Places(RemoveAt(s, 1), C)) =
          Cardinality(Places(s, C)) - (IF s[1] \in C THEN 1 ELSE 0)
    BY <1>0, PlacesRemove
  <1>. QED
    BY <1>1, <1>4, <1>5

\* Of the element put in front as well: those behind it move up.
LEMMA PlacesPrepend ==
  ASSUME NEW S, NEW s \in Seq(S), NEW e \in S, NEW C
  PROVE  Cardinality(Places(<<e>> \o s, C)) =
           Cardinality(Places(s, C)) + (IF e \in C THEN 1 ELSE 0)
  <1> DEFINE r == <<e>> \o s
  <1>1. /\ r \in Seq(S) /\ Len(r) = Len(s) + 1 /\ Len(s) \in Nat
        /\ \A i \in 1..Len(s) + 1 : r[i] = IF i = 1 THEN e ELSE s[i - 1]
    BY PrependRecord, LenProperties
  <1>2. /\ r # <<>> /\ Head(r) = e
        /\ Tail(r) = s
    <2>. HIDE DEF r
    <2>1. r # <<>>
      BY <1>1, EmptySeq
    <2>2. /\ Tail(r) \in Seq(S) /\ Head(r) = r[1] /\ Len(Tail(r)) = Len(r) - 1
          /\ \A i \in 1..Len(r) - 1 : Tail(r)[i] = r[i + 1]
      BY <1>1, <2>1, TailRecord
    <2>3. \A i \in 1..Len(s) : Tail(r)[i] = s[i]
      BY <1>1, <2>2
    <2>4. Len(Tail(r)) = Len(s) /\ r[1] = e
      BY <1>1, <2>2
    <2>. QED
      BY <2>1, <2>2, <2>3, <2>4, SeqEqual
  <1>3. Cardinality(Places(s, C)) = Cardinality(Places(r, C)) - (IF e \in C THEN 1 ELSE 0)
    <2>. HIDE DEF r
    <2>. QED
      BY <1>1, <1>2, PlacesTail
  <1>4. Cardinality(Places(r, C)) \in Nat
    <2>. HIDE DEF r
    <2>. QED
      BY <1>1, PlacesFinite
  <1>. QED
    BY <1>1, <1>3, <1>4

\* A suffix keeps the places behind the elements that are taken away.
LEMMA PlacesSuffix ==
  ASSUME NEW S, NEW s \in Seq(S), NEW n \in 0..Len(s), NEW C
  PROVE  /\ Cardinality({i \in Places(s, C) : i <= n}) \in Nat
         /\ Cardinality(Places(SubSeq(s, n + 1, Len(s)), C)) =
              Cardinality(Places(s, C)) - Cardinality({i \in Places(s, C) : i <= n})
  <1> DEFINE r == SubSeq(s, n + 1, Len(s))
             A == {i \in Places(s, C) : i <= n}
             B == {i \in Places(s, C) : i > n}
             f == [i \in B |-> i - n]
  <1>1. DOMAIN s = 1..Len(s) /\ Len(s) \in Nat /\ n \in Nat
    BY LenProperties
  <1>2. /\ r \in Seq(S) /\ DOMAIN r = 1..Len(s) - n
        /\ \A i \in 1..Len(s) - n : r[i] = s[n + i]
    BY SuffixOf, LenProperties
  <1>3. IsFiniteSet(Places(s, C)) /\ Places(s, C) \subseteq 1..Len(s)
    BY PlacesFinite
  <1>4. IsFiniteSet(A) /\ IsFiniteSet(B)
    BY <1>3, FS_Subset
  <1>5. A \cup B = Places(s, C) /\ A \cap B = {}
    BY <1>1, <1>3
  <1>6. /\ Cardinality(A) \in Nat /\ Cardinality(B) \in Nat
        /\ Cardinality(Places(s, C)) = Cardinality(A) + Cardinality(B)
    <2>. HIDE DEF A, B
    <2>1. Cardinality(A) \in Nat /\ Cardinality(B) \in Nat
      BY <1>4, FS_CardinalityType
    <2>2. Cardinality(A \cup B) = Cardinality(A) + Cardinality(B) - Cardinality(A \cap B)
      BY <1>4, FS_Union
    <2>3. Cardinality(A \cap B) = 0
      BY <1>5, FS_EmptySet
    <2>4. Cardinality(Places(s, C)) = Cardinality(A \cup B)
      BY <1>5, Zenon
    <2>. QED
      BY <2>1, <2>2, <2>3, <2>4
  <1>7. \A j \in Places(r, C) : j \in 1..Len(s) - n /\ r[j] \in C
    BY <1>2 DEF Places
  <1>8. f \in [B -> Places(r, C)]
    BY <1>1, <1>2, <1>3 DEF Places
  <1>9. \A i, j \in B : f[i] = f[j] => i = j
    BY <1>1, <1>3
  <1>10. \A j \in Places(r, C) : \E i \in B : f[i] = j
    <2>. SUFFICES ASSUME NEW j \in Places(r, C) PROVE \E i \in B : f[i] = j
      OBVIOUS
    <2>1. n + j \in B
      BY <1>1, <1>2, <1>7 DEF Places
    <2>. QED
      BY <2>1, <1>1, <1>7
  <1>11. Cardinality(Places(r, C)) = Cardinality(B)
    <2>. HIDE DEF f, B, r
    <2>. QED
      BY <1>4, <1>8, <1>9, <1>10, PlacesMoved
  <1>. HIDE DEF A, B, r
  <1>. QED
    BY <1>6, <1>11 DEF A, r

=============================================================================
