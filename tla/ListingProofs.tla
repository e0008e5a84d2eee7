---------------------------- MODULE ListingProofs ----------------------------
(***************************************************************************)
(* Proofs about Listing: the order of strings, key_successor and common    *)
(* prefixes, the range query, and the invariant of a listing.              *)
(***************************************************************************)
EXTENDS Listing, SequenceTheorems, FiniteSetTheorems, TLAPS

\* A set of naturals has a least element, and a bounded one a greatest.
LEMMA Least ==
    ASSUME NEW S \in SUBSET Nat, S # {}
    PROVE  \E i \in S : \A j \in S : i <= j
<1>1. PICK i \in S : \A j \in S : ~(<<j, i>> \in OpToRel(<, Nat))
  BY NatLessThanWellFounded, WFMin, Zenon
<1>2. \A j \in S : ~(j < i)
  BY <1>1 DEF OpToRel
<1> QED
  BY <1>2

\* A finite non-empty set of naturals has a greatest member.
LEMMA Greatest ==
    ASSUME NEW n \in Nat, NEW S \in SUBSET (1..n), S # {}
    PROVE  \E i \in S : \A j \in S : j <= i
<1> DEFINE T == {n - i : i \in S}
<1>0. \A i \in S : n - i \in Nat
  OBVIOUS
<1>1. T \in SUBSET Nat /\ T # {}
  BY <1>0
<1>2. PICK m \in T : \A k \in T : m <= k
  BY <1>1, Least
<1>3. PICK i \in S : m = n - i
  OBVIOUS
<1>4. \A j \in S : m <= n - j
  BY <1>2
<1>5. \A j \in S : j <= i
  BY <1>3, <1>4
<1> QED
  BY <1>5

-----------------------------------------------------------------------------
(* The order of strings *)

\* The length of a string and its characters
LEMMA Chars ==
    ASSUME NEW s \in String
    PROVE  /\ Len(s) \in Nat
           /\ \A i \in 1..Len(s) : s[i] \in 0..MaxChar /\ s[i] \in Nat
<1>1. Len(s) \in Nat
  BY LenProperties DEF String
<1>2. \A i \in 1..Len(s) : s[i] \in 0..MaxChar
  BY ElementOfSeq DEF String
<1> QED
  BY <1>1, <1>2, CharAssumption

\* A part of a string
LEMMA Part ==
    ASSUME NEW s \in String, NEW m \in Nat \ {0}, NEW n \in Nat, n <= Len(s), m <= n + 1
    PROVE  /\ SubSeq(s, m, n) \in String
           /\ Len(SubSeq(s, m, n)) = n - m + 1
           /\ \A i \in 1..(n - m + 1) : SubSeq(s, m, n)[i] = s[m + i - 1]
<1>1. \A i \in m..n : s[i] \in 0..MaxChar
  BY Chars
<1>2. /\ SubSeq(s, m, n) \in Seq(0..MaxChar)
      /\ Len(SubSeq(s, m, n)) = IF m <= n THEN n - m + 1 ELSE 0
      /\ \A i \in 1..(n - m + 1) : SubSeq(s, m, n)[i] = s[m + i - 1]
  BY <1>1, SubSeqProperties, m \in Int, n \in Int
<1>3. (IF m <= n THEN n - m + 1 ELSE 0) = n - m + 1
  OBVIOUS
<1> QED
  BY <1>2, <1>3 DEF String

\* A prefix is shorter and agrees with the string.
LEMMA PrefixIs ==
    ASSUME NEW s \in String, NEW t \in String
    PROVE  IsPrefix(s, t) <=> Len(s) <= Len(t) /\ \A i \in 1..Len(s) : s[i] = t[i]
<1> DEFINE a == SubSeq(s, 1, Len(s))
           b == SubSeq(t, 1, Len(s))
<1>1. SUFFICES ASSUME Len(s) <= Len(t)
               PROVE  a = b <=> \A i \in 1..Len(s) : s[i] = t[i]
  BY DEF IsPrefix
<1>2. /\ a \in String /\ Len(a) = Len(s) /\ \A i \in 1..Len(s) : a[i] = s[i]
      /\ b \in String /\ Len(b) = Len(s) /\ \A i \in 1..Len(s) : b[i] = t[i]
  <2>1. Len(s) \in Nat /\ Len(t) \in Nat /\ 1 <= Len(s) + 1
    BY Chars
  <2>2. a \in String /\ Len(a) = Len(s) - 1 + 1 /\ \A i \in 1..(Len(s) - 1 + 1) : a[i] = s[1 + i - 1]
    BY <2>1, Part
  <2>3. b \in String /\ Len(b) = Len(s) - 1 + 1 /\ \A i \in 1..(Len(s) - 1 + 1) : b[i] = t[1 + i - 1]
    BY <1>1, <2>1, Part
  <2> HIDE DEF a, b
  <2> QED
    BY <2>1, <2>2, <2>3
<1> HIDE DEF a, b
<1>3. (\A i \in 1..Len(s) : a[i] = b[i]) => a = b
  BY <1>2, SeqEqual DEF String
<1> QED
  BY <1>2, <1>3

\* The bytewise order of the store compares no key with itself,
LEMMA BeforeIrreflexive ==
    ASSUME NEW s \in String PROVE ~Before(s, s)
<1>1. SUFFICES ASSUME Before(s, s) PROVE FALSE
  OBVIOUS
<1>2. PICK n \in 0..Len(s) : n < Len(s) /\ s[n + 1] < s[n + 1]
  BY <1>1 DEF Before
<1>3. s[n + 1] \in Nat
  BY <1>2, Chars
<1> QED
  BY <1>2, <1>3

\* is transitive
LEMMA BeforeTransitive ==
    ASSUME NEW s \in String, NEW t \in String, NEW u \in String, Before(s, t), Before(t, u)
    PROVE  Before(s, u)
<1>1. PICK n \in 0..Len(s) : /\ n < Len(t)
                             /\ \A i \in 1..n : s[i] = t[i]
                             /\ n < Len(s) => s[n + 1] < t[n + 1]
  BY DEF Before
<1>2. PICK m \in 0..Len(t) : /\ m < Len(u)
                             /\ \A i \in 1..m : t[i] = u[i]
                             /\ m < Len(t) => t[m + 1] < u[m + 1]
  BY DEF Before
<1>3. /\ Len(s) \in Nat /\ Len(t) \in Nat /\ Len(u) \in Nat
      /\ \A i \in 1..Len(s) : s[i] \in Nat
      /\ \A i \in 1..Len(t) : t[i] \in Nat
      /\ \A i \in 1..Len(u) : u[i] \in Nat
  BY CharAssumption DEF String
<1>4. CASE n < m
  <2>1. /\ n < Len(u)
        /\ \A i \in 1..n : s[i] = u[i]
    BY <1>1, <1>2, <1>3, <1>4
  <2>2. n < Len(s) => s[n + 1] < u[n + 1]
    BY <1>1, <1>2, <1>3, <1>4
  <2> QED
    BY <2>1, <2>2 DEF Before
<1>5. CASE m < n
  <2>1. m \in 0..Len(s) /\ m < Len(u) /\ m < Len(t)
    BY <1>1, <1>2, <1>3, <1>5
  <2>2. \A i \in 1..m : s[i] = u[i]
    BY <1>1, <1>2, <1>3, <1>5
  <2>3. s[m + 1] < u[m + 1]
    BY <1>1, <1>2, <1>3, <1>5, <2>1
  <2> QED
    BY <2>1, <2>2, <2>3 DEF Before
<1>6. CASE n = m
  <2>1. \A i \in 1..n : s[i] = u[i]
    BY <1>1, <1>2, <1>3, <1>6
  <2>2. ASSUME n < Len(s) PROVE s[n + 1] < u[n + 1]
    <3>1. n + 1 \in 1..Len(s) /\ n + 1 \in 1..Len(t) /\ n + 1 \in 1..Len(u)
      BY <1>1, <1>2, <1>3, <1>6, <2>2
    <3>2. s[n + 1] < t[n + 1] /\ t[n + 1] < u[n + 1]
      BY <1>1, <1>2, <1>6, <2>2
    <3> QED
      BY <1>3, <3>1, <3>2
  <2> QED
    BY <1>2, <1>6, <2>1, <2>2 DEF Before
<1> QED
  BY <1>3, <1>4, <1>5, <1>6

\* Strings that differ do so at a first place, or one is longer.
LEMMA BeforeTotal ==
    ASSUME NEW s \in String, NEW t \in String
    PROVE  s = t \/ Before(s, t) \/ Before(t, s)
<1> DEFINE D == {i \in 1..Len(s) : i <= Len(t) /\ s[i] # t[i]}
<1>0. /\ Len(s) \in Nat /\ Len(t) \in Nat
      /\ \A i \in 1..Len(s) : s[i] \in Nat
      /\ \A i \in 1..Len(t) : t[i] \in Nat
  BY CharAssumption DEF String
<1>1. CASE D = {}
  <2>1. \A i \in 1..Len(s) : i <= Len(t) => s[i] = t[i]
    BY <1>1
  <2>2. CASE Len(s) < Len(t)
    <3>1. \A i \in 1..Len(s) : s[i] = t[i]
      BY <1>0, <2>1, <2>2
    <3> QED
      BY <1>0, <2>2, <3>1 DEF Before
  <2>3. CASE Len(t) < Len(s)
    <3>1. \A i \in 1..Len(t) : s[i] = t[i]
      BY <1>0, <2>1, <2>3
    <3> QED
      BY <1>0, <2>3, <3>1 DEF Before
  <2>4. CASE Len(s) = Len(t)
    BY <1>0, <2>1, <2>4, SeqEqual DEF String
  <2> QED
    BY <1>0, <2>2, <2>3, <2>4
<1>2. CASE D # {}
  <2>1. PICK d \in D : \A j \in D : d <= j
    <3>1. D \in SUBSET Nat
      BY <1>0
    <3> HIDE DEF D
    <3> QED
      BY <1>2, <3>1, Least
  <2>2. PICK n \in Nat : d = n + 1
    BY <1>0
  <2>3. \A i \in 1..n : i <= Len(s) /\ i <= Len(t) /\ s[i] = t[i]
    BY <1>0, <2>1, <2>2
  <2>4. n < Len(s) /\ n < Len(t) /\ s[n + 1] # t[n + 1]
    BY <1>0, <2>1, <2>2
  <2>5. s[n + 1] < t[n + 1] \/ t[n + 1] < s[n + 1]
    BY <1>0, <2>4
  <2> QED
    BY <1>0, <2>3, <2>4, <2>5 DEF Before
<1> QED
  BY <1>1, <1>2

\* A string is at or behind each of its prefixes.
LEMMA PrefixUpTo ==
    ASSUME NEW s \in String, NEW t \in String, IsPrefix(s, t)
    PROVE  UpTo(s, t)
<1>1. Len(s) \in Nat /\ Len(t) \in Nat /\ Len(s) <= Len(t) /\ \A i \in 1..Len(s) : s[i] = t[i]
  BY PrefixIs DEF String
<1>2. CASE Len(s) = Len(t)
  BY <1>1, <1>2, SeqEqual DEF String, UpTo
<1>3. CASE Len(s) < Len(t)
  BY <1>1, <1>3 DEF Before, UpTo
<1> QED
  BY <1>1, <1>2, <1>3

\* A prefix of a prefix is a prefix.
LEMMA PrefixTransitive ==
    ASSUME NEW s \in String, NEW t \in String, NEW u \in String,
           IsPrefix(s, t), IsPrefix(t, u)
    PROVE  IsPrefix(s, u)
<1>1. Len(s) \in Nat /\ Len(t) \in Nat /\ Len(u) \in Nat
  BY DEF String
<1>2. /\ Len(s) <= Len(t) /\ \A i \in 1..Len(s) : s[i] = t[i]
      /\ Len(t) <= Len(u) /\ \A i \in 1..Len(t) : t[i] = u[i]
  BY PrefixIs
<1>3. Len(s) <= Len(u) /\ \A i \in 1..Len(s) : s[i] = u[i]
  BY <1>1, <1>2
<1> QED
  BY <1>3, PrefixIs

\* Where a string lies behind another that is no prefix of it, it has the
\* greater character, and lies behind all that agree with the other so far.
LEMMA BehindAll ==
    ASSUME NEW c \in String, NEW k \in String, Before(c, k), ~IsPrefix(c, k)
    PROVE  \E m \in 0..(Len(c) - 1) :
              /\ m < Len(k) /\ c[m + 1] < k[m + 1]
              /\ \A i \in 1..m : c[i] = k[i]
              /\ \A n \in String :
                    (\A i \in 1..m : n[i] = c[i]) /\ m < Len(n) /\ n[m + 1] < k[m + 1]
                    => Before(n, k)
<1>1. PICK m \in 0..Len(c) : /\ m < Len(k)
                             /\ \A i \in 1..m : c[i] = k[i]
                             /\ m < Len(c) => c[m + 1] < k[m + 1]
  BY DEF Before
<1>2. Len(c) \in Nat /\ Len(k) \in Nat
  BY DEF String
<1>3. m # Len(c)
  BY <1>1, <1>2, PrefixIs
<1>4. m \in 0..(Len(c) - 1) /\ c[m + 1] < k[m + 1]
  BY <1>1, <1>2, <1>3
<1>5. ASSUME NEW n \in String, \A i \in 1..m : n[i] = c[i], m < Len(n), n[m + 1] < k[m + 1]
      PROVE  Before(n, k)
  <2>1. m \in 0..Len(n) /\ \A i \in 1..m : n[i] = k[i]
    BY <1>1, <1>5 DEF String
  <2> QED
    BY <1>1, <1>5, <2>1 DEF Before
<1> QED
  BY <1>1, <1>4, <1>5

\* What lies between a string and an extension of it is an extension too.
LEMMA BetweenExtends ==
    ASSUME NEW c \in String, NEW n \in String, NEW k \in String,
           IsPrefix(c, k), UpTo(c, n), UpTo(n, k)
    PROVE  IsPrefix(c, n)
<1>1. Len(c) \in Nat /\ Len(k) \in Nat /\ Len(c) <= Len(k) /\ \A i \in 1..Len(c) : c[i] = k[i]
  BY PrefixIs DEF String
<1>2. CASE n = c
  BY <1>1, <1>2, PrefixIs
<1>3. CASE Before(c, n) /\ ~IsPrefix(c, n)
  <2>1. PICK m \in 0..(Len(c) - 1) :
           /\ c[m + 1] < n[m + 1]
           /\ \A j \in String :
                 (\A i \in 1..m : j[i] = c[i]) /\ m < Len(j) /\ j[m + 1] < n[m + 1]
                 => Before(j, n)
    BY <1>3, BehindAll
  <2>2. Before(k, n)
    BY <1>1, <2>1
  <2>3. k # n
    BY <1>3
  <2> QED
    BY <2>2, BeforeTransitive, BeforeIrreflexive DEF UpTo
<1> QED
  BY <1>2, <1>3 DEF UpTo

\* key_successor gives the first string behind all extensions of a string, if
\* there is one; otherwise all that is behind the string extends it.
LEMMA SuccessorIs ==
    ASSUME NEW c \in String
    PROVE  \/ /\ KeySuccessor(c) = None
              /\ \A i \in 1..Len(c) : c[i] = MaxChar
           \/ /\ KeySuccessor(c) \in String /\ KeySuccessor(c) # None
              /\ \E l \in 1..Len(c) :
                    /\ c[l] < MaxChar /\ \A i \in 1..Len(c) : l < i => c[i] = MaxChar
                    /\ Len(KeySuccessor(c)) = l /\ KeySuccessor(c)[l] = c[l] + 1
                    /\ \A i \in 1..(l - 1) : KeySuccessor(c)[i] = c[i]
<1> DEFINE R == {i \in 1..Len(c) : c[i] < MaxChar}
           last == CHOOSE i \in R : \A j \in R : j <= i
<1>1. Len(c) \in Nat /\ \A i \in 1..Len(c) : c[i] \in 0..MaxChar
  BY Chars
<1>2. CASE R = {}
  BY <1>1, <1>2, CharAssumption DEF KeySuccessor
<1>3. CASE R # {}
  <2>1. last \in R /\ \A j \in R : j <= last
    <3>1. \E i \in R : \A j \in R : j <= i
      <4> HIDE DEF last
      <4>1. R \in SUBSET (1..Len(c))
        OBVIOUS
      <4> HIDE DEF R
      <4> QED
        BY <1>1, <1>3, <4>1, Greatest
    <3> QED
      BY <3>1
  <2>2. KeySuccessor(c) = Append(SubSeq(c, 1, last - 1), c[last] + 1)
    BY <1>3 DEF KeySuccessor
  <2> HIDE DEF last
  <2>3. /\ last \in 1..Len(c) /\ c[last] < MaxChar /\ c[last] \in Nat
        /\ \A i \in 1..Len(c) : last < i => c[i] = MaxChar
    BY <1>1, <2>1, CharAssumption
  <2>4. /\ SubSeq(c, 1, last - 1) \in String
        /\ Len(SubSeq(c, 1, last - 1)) = last - 1
        /\ \A i \in 1..(last - 1) : SubSeq(c, 1, last - 1)[i] = c[i]
    BY <1>1, <2>3 DEF String
  <2>5. c[last] + 1 \in 0..MaxChar
    BY <2>3, CharAssumption
  <2>6. PICK s \in String : s = SubSeq(c, 1, last - 1)
    BY <2>4
  <2>7. /\ Append(s, c[last] + 1) \in String /\ Len(Append(s, c[last] + 1)) = last
        /\ Append(s, c[last] + 1)[last] = c[last] + 1
        /\ \A i \in 1..(last - 1) : Append(s, c[last] + 1)[i] = c[i]
    BY <2>3, <2>4, <2>5, <2>6 DEF String
  <2>8. KeySuccessor(c) # None
    BY <2>2, <2>3, <2>6, <2>7, EmptySeq DEF None
  <2> QED
    BY <2>2, <2>3, <2>6, <2>7, <2>8
<1> QED
  BY <1>2, <1>3

\* The successor of a prefix lies behind exactly the keys that carry it (key_successor).
LEMMA SuccessorBounds ==
    ASSUME NEW c \in String, NEW k \in String
    PROVE  /\ KeySuccessor(c) \in String
           /\ KeySuccessor(c) # None => /\ IsPrefix(c, k) => Before(k, KeySuccessor(c))
                                        /\ UpTo(c, k) /\ Before(k, KeySuccessor(c)) => IsPrefix(c, k)
           /\ KeySuccessor(c) = None /\ UpTo(c, k) => IsPrefix(c, k)
<1> DEFINE b == KeySuccessor(c)
<1>0. /\ Len(c) \in Nat /\ \A i \in 1..Len(c) : c[i] \in 0..MaxChar
      /\ Len(k) \in Nat /\ \A i \in 1..Len(k) : k[i] \in 0..MaxChar
  BY Chars
<1>1. CASE b = None
  <2>1. \A i \in 1..Len(c) : c[i] = MaxChar
    BY <1>1, SuccessorIs
  <2>2. ASSUME Before(c, k), ~IsPrefix(c, k) PROVE FALSE
    <3>1. PICK m \in 0..(Len(c) - 1) : m < Len(k) /\ c[m + 1] < k[m + 1]
      BY <2>2, BehindAll
    <3>2. m + 1 \in 1..Len(c) /\ m + 1 \in 1..Len(k)
      BY <1>0, <3>1
    <3>3. c[m + 1] = MaxChar /\ k[m + 1] \in 0..MaxChar
      BY <1>0, <2>1, <3>2
    <3> QED
      BY <3>1, <3>3, CharAssumption
  <2>3. IsPrefix(c, c)
    BY <1>0, PrefixIs
  <2>4. b \in String
    BY <1>1 DEF None, String
  <2> QED
    BY <1>1, <2>2, <2>3, <2>4 DEF UpTo
<1>2. CASE b # None
  <2>1. b \in String
    BY <1>2, SuccessorIs
  <2>2. PICK l \in 1..Len(c) :
           /\ c[l] < MaxChar /\ \A i \in 1..Len(c) : l < i => c[i] = MaxChar
           /\ Len(b) = l /\ b[l] = c[l] + 1
           /\ \A i \in 1..(l - 1) : b[i] = c[i]
    BY <1>2, SuccessorIs
  <2> HIDE DEF b
  <2>3. ASSUME IsPrefix(c, k) PROVE Before(k, b)
    <3>1. Len(c) <= Len(k) /\ \A i \in 1..Len(c) : c[i] = k[i]
      BY <2>3, PrefixIs
    <3>2. PICK n \in Nat : l = n + 1
      BY <1>0
    <3>3. n \in 0..Len(k) /\ n < Len(b) /\ \A i \in 1..n : k[i] = b[i]
      BY <1>0, <2>2, <3>1, <3>2
    <3>4. k[n + 1] < b[n + 1]
      BY <1>0, <2>2, <3>1, <3>2, CharAssumption
    <3> QED
      BY <3>3, <3>4 DEF Before
  <2>4. ASSUME UpTo(c, k), Before(k, b), ~IsPrefix(c, k) PROVE FALSE
    <3>1. IsPrefix(c, c)
      BY <1>0, PrefixIs
    <3>2. Before(c, k)
      BY <2>4, <3>1 DEF UpTo
    <3>3. PICK m \in 0..(Len(c) - 1) :
              /\ m < Len(k) /\ c[m + 1] < k[m + 1]
              /\ \A i \in 1..m : c[i] = k[i]
              /\ \A n \in String :
                    (\A i \in 1..m : n[i] = c[i]) /\ m < Len(n) /\ n[m + 1] < k[m + 1]
                    => Before(n, k)
      BY <2>4, <3>2, BehindAll
    <3>4. /\ m + 1 \in 1..Len(c) /\ m + 1 \in 1..Len(k)
          /\ c[m + 1] \in 0..MaxChar /\ k[m + 1] \in 0..MaxChar
      BY <1>0, <3>3
    <3>5. m + 1 <= l
      BY <1>0, <2>2, <3>3, <3>4, CharAssumption
    <3>6. \A i \in 1..m : b[i] = c[i]
      BY <1>0, <2>2, <3>4, <3>5
    <3>7. m < Len(b)
      BY <1>0, <2>2, <3>5
    <3>8. ~(b[m + 1] < k[m + 1])
      BY <2>1, <2>4, <3>3, <3>6, <3>7, BeforeTransitive, BeforeIrreflexive
    <3>9. m + 1 = l
      <4>1. CASE m + 1 < l
        <5>1. b[m + 1] = c[m + 1]
          BY <1>0, <2>2, <3>4, <4>1
        <5> QED
          BY <3>3, <3>8, <5>1
      <4> QED
        BY <1>0, <3>5, <4>1
    <3>10. k[l] = b[l]
      BY <2>2, <3>3, <3>4, <3>8, <3>9, CharAssumption
    <3>11. Len(b) <= Len(k) /\ \A i \in 1..Len(b) : b[i] = k[i]
      BY <1>0, <2>2, <3>3, <3>4, <3>6, <3>9, <3>10
    <3>12. UpTo(b, k)
      BY <2>1, <3>11, PrefixIs, PrefixUpTo
    <3> QED
      BY <2>1, <2>4, <3>12, BeforeTransitive, BeforeIrreflexive DEF UpTo
  <2> QED
    BY <1>2, <2>1, <2>3, <2>4 DEF b
<1> QED
  BY <1>1, <1>2

-----------------------------------------------------------------------------
(* Groups *)

\* The delimiter d stands at the place i behind the prefix p of k.
Occurs(k, p, d, i) ==
    /\ i \in 1..(Len(k) - Len(p)) /\ i + Len(d) - 1 <= Len(k) - Len(p)
    /\ \A j \in 1..Len(d) : k[Len(p) + i + j - 1] = d[j]

\* The string behind a prefix
LEMMA RestIs ==
    ASSUME NEW k \in String, NEW p \in String, Len(p) <= Len(k)
    PROVE  LET rest == SubSeq(k, Len(p) + 1, Len(k))
           IN  /\ rest \in String /\ Len(rest) = Len(k) - Len(p)
               /\ \A j \in 1..Len(rest) : rest[j] = k[Len(p) + j]
<1> DEFINE rest == SubSeq(k, Len(p) + 1, Len(k))
<1>1. Len(p) \in Nat /\ Len(k) \in Nat
  BY Chars
<1>2. PICK m \in Nat \ {0} : m = Len(p) + 1
  BY <1>1
<1>3. /\ rest \in String /\ Len(rest) = Len(k) - m + 1
      /\ \A j \in 1..(Len(k) - m + 1) : rest[j] = k[m + j - 1]
  BY <1>1, <1>2, Part
<1> HIDE DEF rest
<1>4. Len(rest) = Len(k) - Len(p)
  BY <1>1, <1>2, <1>3
<1>5. \A j \in 1..Len(rest) : rest[j] = k[Len(p) + j]
  BY <1>1, <1>2, <1>3
<1> QED
  BY <1>3, <1>4, <1>5 DEF rest

\* What an occurrence is within the part of the string behind the prefix
LEMMA OccursIs ==
    ASSUME NEW k \in String, NEW p \in String, NEW d \in String, IsPrefix(p, k),
           NEW rest, rest = SubSeq(k, Len(p) + 1, Len(k)), NEW i \in 1..Len(rest)
    PROVE  IsPrefix(d, SubSeq(rest, i, Len(rest))) <=> Occurs(k, p, d, i)
<1>0. Len(k) \in Nat /\ Len(p) \in Nat /\ Len(d) \in Nat /\ Len(p) <= Len(k)
  BY PrefixIs DEF String
<1>1. /\ rest \in String /\ Len(rest) = Len(k) - Len(p)
      /\ \A j \in 1..Len(rest) : rest[j] = k[Len(p) + j]
  BY <1>0, RestIs
<1> DEFINE tail == SubSeq(rest, i, Len(rest))
<1>2. /\ tail \in String /\ Len(tail) = Len(rest) - i + 1
      /\ \A j \in 1..Len(tail) : tail[j] = rest[i + j - 1]
  BY <1>1 DEF String
<1> HIDE DEF tail
<1>3. \A j \in 1..Len(tail) : tail[j] = k[Len(p) + i + j - 1]
  <2> TAKE j \in 1..Len(tail)
  <2>1. i + j - 1 \in 1..Len(rest)
    BY <1>0, <1>1, <1>2
  <2>2. rest[i + j - 1] = k[Len(p) + (i + j - 1)]
    BY <1>1, <2>1
  <2>3. Len(p) + (i + j - 1) = Len(p) + i + j - 1
    BY <1>0, <1>1, <1>2
  <2> QED
    BY <1>2, <2>2, <2>3
<1>4. Len(d) <= Len(tail) <=> i + Len(d) - 1 <= Len(k) - Len(p)
  BY <1>0, <1>1, <1>2
<1>5. i \in 1..(Len(k) - Len(p))
  BY <1>1
<1>6. IsPrefix(d, tail) <=> Len(d) <= Len(tail) /\ \A j \in 1..Len(d) : d[j] = tail[j]
  BY <1>2, PrefixIs
<1>7. ASSUME Len(d) <= Len(tail), NEW j \in 1..Len(d)
      PROVE  tail[j] = k[Len(p) + i + j - 1]
  <2>1. j \in 1..Len(tail)
    BY <1>0, <1>1, <1>2, <1>7
  <2> QED
    BY <1>3, <2>1
<1>8. IsPrefix(d, tail) <=> Occurs(k, p, d, i)
  BY <1>4, <1>5, <1>6, <1>7 DEF Occurs
<1> QED
  BY <1>8 DEF tail

\* The common prefix ends with the first occurrence of the delimiter.
LEMMA CommonPrefixIs ==
    ASSUME NEW k \in String, NEW p \in String, NEW d \in String, IsPrefix(p, k)
    PROVE  LET common == CommonPrefix(k, p, d)
           IN  \/ common = None /\ (d = <<>> \/ \A i \in Nat : ~Occurs(k, p, d, i))
               \/ /\ d # <<>> /\ common # None /\ common \in String
                  /\ \E f \in Nat : /\ Occurs(k, p, d, f)
                                    /\ \A i \in Nat : Occurs(k, p, d, i) => f <= i
                                    /\ Len(common) = Len(p) + f + Len(d) - 1
                                    /\ \A i \in 1..Len(common) : common[i] = k[i]
<1>0. Len(k) \in Nat /\ Len(p) \in Nat /\ Len(d) \in Nat /\ Len(p) <= Len(k)
      /\ \A i \in 1..Len(p) : p[i] = k[i]
  BY PrefixIs DEF String
<1> DEFINE rest == SubSeq(k, Len(p) + 1, Len(k))
           found == {i \in 1..Len(rest) : IsPrefix(d, SubSeq(rest, i, Len(rest)))}
           first == CHOOSE i \in found : \A j \in found : i <= j
           common == CommonPrefix(k, p, d)
<1>1. common = IF d = <<>> \/ found = {} THEN None
               ELSE p \o SubSeq(rest, 1, first + Len(d) - 1)
  BY DEF CommonPrefix
<1>2. /\ rest \in String /\ Len(rest) = Len(k) - Len(p)
      /\ \A j \in 1..Len(rest) : rest[j] = k[Len(p) + j]
  BY <1>0, RestIs
<1>3. \A i \in 1..Len(rest) : i \in found <=> Occurs(k, p, d, i)
  <2> HIDE DEF found
  <2> TAKE i \in 1..Len(rest)
  <2>1. IsPrefix(d, SubSeq(rest, i, Len(rest))) <=> Occurs(k, p, d, i)
    BY OccursIs
  <2> USE DEF found
  <2> HIDE DEF rest
  <2>2. i \in found <=> IsPrefix(d, SubSeq(rest, i, Len(rest)))
    OBVIOUS
  <2> QED
    BY <2>1, <2>2
<1>4. \A i \in Nat : Occurs(k, p, d, i) => i \in 1..Len(rest)
  BY <1>2 DEF Occurs
<1>5. \A i \in Nat : i \in found <=> Occurs(k, p, d, i)
  BY <1>3, <1>4
<1>6. found \in SUBSET Nat
  OBVIOUS
<1>7. CASE d = <<>> \/ found = {}
  <2> HIDE DEF found
  <2>1. common = None
    BY <1>1, <1>7
  <2>2. d = <<>> \/ \A i \in Nat : ~Occurs(k, p, d, i)
    BY <1>5, <1>7
  <2> QED
    BY <2>1, <2>2
<1>8. CASE d # <<>> /\ found # {}
  <2>1. first \in found /\ \A j \in found : first <= j
    <3>1. \E i \in found : \A j \in found : i <= j
      <4> HIDE DEF found
      <4> QED
        BY <1>6, <1>8, Least
    <3> HIDE DEF found
    <3> QED
      BY <3>1
  <2>2. PICK f \in Nat : f = first /\ Occurs(k, p, d, f)
    BY <1>5, <1>6, <2>1
  <2>3. \A i \in Nat : Occurs(k, p, d, i) => f <= i
    BY <1>5, <2>1, <2>2
  <2> DEFINE part == SubSeq(rest, 1, f + Len(d) - 1)
  <2>4. common = p \o part
    BY <1>1, <1>8, <2>2
  <2>5. f + Len(d) - 1 <= Len(rest) /\ f >= 1
    BY <1>0, <1>2, <2>2 DEF Occurs
  <2> HIDE DEF rest, found, first
  <2>6. /\ part \in String /\ Len(part) = f + Len(d) - 1
        /\ \A j \in 1..Len(part) : part[j] = rest[j]
    <3>1. PICK n \in Nat : n = f + Len(d) - 1 /\ n <= Len(rest) /\ 1 <= n + 1
      <4>1. f + Len(d) - 1 \in Nat /\ 1 <= f + Len(d) - 1 + 1
        BY <1>0, <2>5
      <4> QED
        BY <2>5, <4>1
    <3>2. /\ part \in String /\ Len(part) = n - 1 + 1
          /\ \A i \in 1..(n - 1 + 1) : part[i] = rest[1 + i - 1]
      BY <1>2, <3>1, Part
    <3> HIDE DEF part
    <3> QED
      BY <3>1, <3>2
  <2> HIDE DEF part, common
  <2>7. /\ common \in String /\ Len(common) = Len(p) + Len(part)
        /\ \A i \in 1..Len(p) : common[i] = p[i]
        /\ \A i \in Len(p) + 1 .. Len(p) + Len(part) : common[i] = part[i - Len(p)]
    <3>1. /\ common \in String /\ Len(common) = Len(p) + Len(part)
          /\ \A i \in 1 .. Len(p) + Len(part) :
                common[i] = IF i <= Len(p) THEN p[i] ELSE part[i - Len(p)]
      BY <2>4, <2>6, ConcatProperties DEF String
    <3>2. Len(part) \in Nat
      BY <2>6, Chars
    <3> QED
      BY <1>0, <3>1, <3>2
  <2>8. ASSUME NEW i \in 1..Len(common) PROVE common[i] = k[i]
    <3>1. CASE i <= Len(p)
      BY <1>0, <2>7, <3>1
    <3>2. CASE i > Len(p)
      <4>1. i - Len(p) \in 1..Len(part) /\ i \in Len(p) + 1 .. Len(p) + Len(part)
        BY <1>0, <2>6, <2>7, <3>2
      <4>2. i - Len(p) \in 1..Len(rest)
        BY <1>0, <1>2, <2>5, <2>6, <4>1
      <4>3. rest[i - Len(p)] = k[i]
        BY <1>0, <1>2, <4>2
      <4> QED
        BY <2>6, <2>7, <4>1, <4>3
    <3> QED
      BY <1>0, <2>6, <2>7, <3>1, <3>2
  <2>9. Len(common) = Len(p) + f + Len(d) - 1
    BY <1>0, <2>6, <2>7
  <2>10. common # None
    <3>0. Len(d) # 0
      BY <1>8, EmptySeq DEF String
    <3>1. Len(common) >= 1
      BY <1>0, <2>5, <2>9, <3>0
    <3>2. Len(<<>>) = 0
      BY EmptySeq
    <3> QED
      BY <3>1, <3>2 DEF None
  <2>11. /\ d # <<>> /\ common # None /\ common \in String
         /\ Occurs(k, p, d, f) /\ \A i \in Nat : Occurs(k, p, d, i) => f <= i
         /\ Len(common) = Len(p) + f + Len(d) - 1
         /\ \A i \in 1..Len(common) : common[i] = k[i]
    BY <1>8, <2>2, <2>3, <2>7, <2>8, <2>9, <2>10
  <2> QED
    BY <2>11 DEF common
<1> QED
  BY <1>7, <1>8

\* A group's name lies between the prefix and the key.
LEMMA CommonPrefixBetween ==
    ASSUME NEW k \in String, NEW p \in String, NEW d \in String, IsPrefix(p, k),
           NEW c, c = CommonPrefix(k, p, d), c # None
    PROVE  c \in String /\ IsPrefix(c, k) /\ IsPrefix(p, c)
<1>0. Len(k) \in Nat /\ Len(p) \in Nat /\ Len(d) \in Nat /\ Len(p) <= Len(k)
      /\ \A i \in 1..Len(p) : p[i] = k[i]
  BY PrefixIs DEF String
<1>1. c \in String
  BY CommonPrefixIs
<1>2. PICK f \in Nat : /\ Occurs(k, p, d, f)
                       /\ Len(c) = Len(p) + f + Len(d) - 1
                       /\ \A i \in 1..Len(c) : c[i] = k[i]
  BY CommonPrefixIs
<1>3. Len(p) <= Len(c) /\ Len(c) <= Len(k)
  BY <1>0, <1>2 DEF Occurs
<1>4. \A i \in 1..Len(p) : p[i] = c[i]
  <2> TAKE i \in 1..Len(p)
  <2>1. i \in 1..Len(c)
    BY <1>0, <1>2, <1>3
  <2> QED
    BY <1>0, <1>2, <2>1
<1> QED
  BY <1>0, <1>1, <1>2, <1>3, <1>4, PrefixIs

\* Whatever extends the name of a group belongs to the group.
LEMMA GroupAbsorbs ==
    ASSUME NEW k \in String, NEW p \in String, NEW d \in String, IsPrefix(p, k),
           NEW c, c = CommonPrefix(k, p, d), c # None,
           NEW n \in String, IsPrefix(c, n)
    PROVE  IsPrefix(p, n) /\ CommonPrefix(n, p, d) = c
<1>0. Len(k) \in Nat /\ Len(p) \in Nat /\ Len(d) \in Nat /\ Len(n) \in Nat
  BY DEF String
<1>1. c \in String /\ IsPrefix(c, k) /\ IsPrefix(p, c)
  BY CommonPrefixBetween
<1>2. IsPrefix(p, n)
  BY <1>1, PrefixTransitive
<1>3. Len(c) \in Nat /\ Len(c) <= Len(k) /\ Len(c) <= Len(n)
  BY <1>1, PrefixIs DEF String
<1>4. d # <<>>
  BY CommonPrefixIs
<1>5. PICK f \in Nat : /\ Occurs(k, p, d, f)
                       /\ \A i \in Nat : Occurs(k, p, d, i) => f <= i
                       /\ Len(c) = Len(p) + f + Len(d) - 1
                       /\ \A i \in 1..Len(c) : c[i] = k[i]
  BY CommonPrefixIs
<1>6. \A i \in 1..Len(c) : n[i] = k[i]
  BY <1>1, <1>5, PrefixIs
<1>7. ASSUME NEW i \in Nat, i <= f, i >= 1, NEW j \in 1..Len(d)
      PROVE  n[Len(p) + i + j - 1] = k[Len(p) + i + j - 1]
  <2>1. Len(p) + i + j - 1 \in 1..Len(c)
    BY <1>0, <1>3, <1>5, <1>7
  <2> QED
    BY <1>6, <2>1
<1>8. ASSUME NEW i \in Nat, i <= f
      PROVE  Occurs(n, p, d, i) <=> Occurs(k, p, d, i)
  <2>1. i + Len(d) - 1 <= Len(n) - Len(p) /\ i + Len(d) - 1 <= Len(k) - Len(p)
    BY <1>0, <1>3, <1>5, <1>8
  <2>2. f <= Len(k) - Len(p)
    BY <1>5 DEF Occurs
  <2>3. Len(d) # 0
    BY <1>4, EmptySeq DEF String
  <2>4. f <= Len(n) - Len(p)
    BY <1>0, <1>3, <1>5, <2>3
  <2>5. i \in 1..(Len(n) - Len(p)) <=> i >= 1
    BY <1>0, <1>8, <2>4
  <2>6. i \in 1..(Len(k) - Len(p)) <=> i >= 1
    BY <1>0, <1>8, <2>2
  <2> QED
    BY <1>7, <1>8, <2>1, <2>5, <2>6 DEF Occurs
<1>9. Occurs(n, p, d, f)
  BY <1>5, <1>8
<1>10. CommonPrefix(n, p, d) # None \/ d = <<>>
  BY <1>2, <1>9, CommonPrefixIs
<1>11. PICK b \in String : b = CommonPrefix(n, p, d)
  BY <1>2, <1>4, <1>10, CommonPrefixIs
<1>12. b # None
  BY <1>4, <1>10, <1>11
<1>13. PICK g \in Nat : /\ Occurs(n, p, d, g)
                        /\ \A i \in Nat : Occurs(n, p, d, i) => g <= i
                        /\ Len(b) = Len(p) + g + Len(d) - 1
                        /\ \A i \in 1..Len(b) : b[i] = n[i]
  BY <1>2, <1>11, <1>12, CommonPrefixIs
<1>14. g <= f
  BY <1>9, <1>13
<1>15. g = f
  BY <1>5, <1>8, <1>13, <1>14
<1>16. Len(b) = Len(c)
  BY <1>5, <1>13, <1>15
<1>17. \A i \in 1..Len(c) : b[i] = c[i]
  BY <1>5, <1>6, <1>13, <1>16
<1>18. b = c
  BY <1>1, <1>16, <1>17, SeqEqual DEF String
<1> QED
  BY <1>2, <1>11, <1>18

\* The order as a whole
LEMMA OrderFacts ==
    ASSUME NEW s \in String, NEW t \in String, NEW u \in String
    PROVE  /\ ~Before(s, s)
           /\ Before(s, t) => ~Before(t, s)
           /\ s = t \/ Before(s, t) \/ Before(t, s)
           /\ Before(s, t) /\ Before(t, u) => Before(s, u)
           /\ UpTo(s, t) /\ Before(t, u) => Before(s, u)
           /\ Before(s, t) /\ UpTo(t, u) => Before(s, u)
           /\ UpTo(s, t) /\ UpTo(t, u) => UpTo(s, u)
           /\ UpTo(s, t) <=> ~Before(t, s)
BY BeforeIrreflexive, BeforeTransitive, BeforeTotal DEF UpTo

\* ItemOf, with the prefix and the delimiter of the listing as arguments
ItemIn(p, d, k) ==
    LET common == CommonPrefix(k, p, d)
    IN  IF common = None THEN Key(k) ELSE Group(common)

\* An item has the key for its name or what the key begins with.
LEMMA ItemIs ==
    ASSUME NEW k \in String, NEW p \in String, NEW d \in String, IsPrefix(p, k),
           NEW item, item = ItemIn(p, d, k)
    PROVE  /\ item \in Item /\ item.name \in String
           /\ IsPrefix(item.name, k) /\ UpTo(item.name, k)
<1>1. PICK c : c = CommonPrefix(k, p, d)
  OBVIOUS
<1>2. CASE c = None
  <2>1. item = Key(k)
    BY <1>1, <1>2 DEF ItemIn
  <2>2. IsPrefix(k, k)
    BY PrefixIs, Chars
  <2> QED
    BY <2>1, <2>2 DEF Key, Item, UpTo
<1>3. CASE c # None
  <2>1. item = Group(c)
    BY <1>1, <1>3 DEF ItemIn
  <2>2. c \in String /\ IsPrefix(c, k)
    BY <1>1, <1>3, CommonPrefixBetween
  <2>3. UpTo(c, k)
    BY <2>2, PrefixUpTo
  <2> QED
    BY <2>1, <2>2, <2>3 DEF Group, Item
<1> QED
  BY <1>2, <1>3

\* A key belongs to a group if its item extends the name of the group.
LEMMA GroupTakes ==
    ASSUME NEW k \in String, NEW p \in String, NEW d \in String, IsPrefix(p, k),
           NEW c, c = CommonPrefix(k, p, d), c # None,
           NEW n \in String, IsPrefix(p, n), IsPrefix(c, n) \/ IsPrefix(c, ItemIn(p, d, n).name)
    PROVE  ItemIn(p, d, n) = Group(c)
<1>1. c \in String
  BY CommonPrefixBetween
<1>2. PICK item : item = ItemIn(p, d, n)
  OBVIOUS
<1>3. item.name \in String /\ IsPrefix(item.name, n)
  BY <1>2, ItemIs
<1>4. IsPrefix(c, n)
  BY <1>1, <1>2, <1>3, PrefixTransitive
<1>5. CommonPrefix(n, p, d) = c
  BY <1>4, GroupAbsorbs
<1> QED
  BY <1>5 DEF ItemIn

-----------------------------------------------------------------------------
(* The range query *)

Rank(S, k) == Cardinality({j \in S : Before(j, k)})

\* The rank of a key in a set is below the size of the set,
LEMMA RankBound ==
    ASSUME NEW S \in SUBSET String, IsFiniteSet(S), NEW k \in S
    PROVE  Rank(S, k) \in Nat /\ Rank(S, k) < Cardinality(S)
<1> DEFINE T == {j \in S : Before(j, k)}
<1>1. T \in SUBSET S /\ k \notin T
  BY BeforeIrreflexive
<1> HIDE DEF T
<1>2. IsFiniteSet(T) /\ Cardinality(T) <= Cardinality(S) /\ (Cardinality(S) = Cardinality(T) => S = T)
  BY <1>1, FS_Subset
<1>3. Cardinality(T) \in Nat /\ Cardinality(S) \in Nat
  BY <1>2, FS_CardinalityType
<1>4. S # T
  BY <1>1
<1>5. Cardinality(T) < Cardinality(S)
  BY <1>2, <1>3, <1>4
<1> QED
  BY <1>3, <1>5 DEF Rank, T

\* and grows along the order,
LEMMA RankGrows ==
    ASSUME NEW S \in SUBSET String, IsFiniteSet(S), NEW j \in S, NEW k \in S, Before(j, k)
    PROVE  Rank(S, j) < Rank(S, k)
<1> DEFINE T == {i \in S : Before(i, j)}
           U == {i \in S : Before(i, k)}
<1>1. \A i \in S : Before(i, j) => Before(i, k)
  BY OrderFacts
<1>2. T \in SUBSET U
  BY <1>1
<1>3. j \in U /\ j \notin T /\ U \in SUBSET S
  BY BeforeIrreflexive
<1> HIDE DEF T, U
<1>4. IsFiniteSet(U)
  BY <1>3, FS_Subset
<1>5. IsFiniteSet(T) /\ Cardinality(T) <= Cardinality(U) /\ (Cardinality(U) = Cardinality(T) => U = T)
  BY <1>2, <1>4, FS_Subset
<1>6. Cardinality(T) \in Nat /\ Cardinality(U) \in Nat
  BY <1>4, <1>5, FS_CardinalityType
<1>7. U # T
  BY <1>3
<1>8. Cardinality(T) < Cardinality(U)
  BY <1>5, <1>6, <1>7
<1> QED
  BY <1>8 DEF Rank, T, U

\* Every rank below the number of keys is that of exactly one key.
LEMMA RankTaken ==
    ASSUME NEW S \in SUBSET String, IsFiniteSet(S), NEW i \in Nat, i < Cardinality(S)
    PROVE  /\ \E k \in S : Rank(S, k) = i
           /\ \A j, k \in S : Rank(S, j) = Rank(S, k) => j = k
<1>1. PICK n \in Nat : n = Cardinality(S)
  BY FS_CardinalityType
<1> DEFINE I == 0..(n - 1)
           rank == [k \in S |-> Rank(S, k)]
<1>2. \A k \in S : Rank(S, k) \in I
  BY <1>1, RankBound
<1>3. \A j, k \in S : Rank(S, j) = Rank(S, k) => j = k
  <2> TAKE j, k \in S
  <2>1. Rank(S, j) \in Nat /\ Rank(S, k) \in Nat
    BY RankBound
  <2>2. Before(j, k) => Rank(S, j) < Rank(S, k)
    BY RankGrows
  <2>3. Before(k, j) => Rank(S, k) < Rank(S, j)
    BY RankGrows
  <2>4. j = k \/ Before(j, k) \/ Before(k, j)
    BY BeforeTotal
  <2> QED
    BY <2>1, <2>2, <2>3, <2>4
<1>4. rank \in Injection(S, I)
  BY <1>2, <1>3 DEF Injection, IsInjective
<1>5. IsFiniteSet(I) /\ Cardinality(I) = n
  <2>1. 0 \in Int /\ n - 1 \in Int
    OBVIOUS
  <2>2. IsFiniteSet(I) /\ Cardinality(I) = IF 0 > n - 1 THEN 0 ELSE n - 1 - 0 + 1
    BY <2>1, FS_Interval
  <2> QED
    BY <2>2
<1> HIDE DEF rank, I
<1>6. rank \in Surjection(S, I)
  BY <1>1, <1>4, <1>5, FS_Injection
<1>7. i \in I
  BY <1>1 DEF I
<1>8. \E k \in S : rank[k] = i
  BY <1>6, <1>7 DEF Surjection
<1> QED
  BY <1>3, <1>8 DEF rank

\* What the range query is asked for
Wanted(k, prefix, lower, inclusive) ==
    k \in objects /\ IsPrefix(prefix, k) /\ InBound(k, lower, inclusive)

\* The bounds of the query select the keys with the prefix that are in bound.
LEMMA BoundsSelect ==
    ASSUME objects \subseteq Keys, NEW prefix \in String, NEW lower \in String,
           NEW inclusive \in BOOLEAN, NEW k \in objects,
           NEW raised, raised = Before(lower, prefix),
           NEW from, from = IF raised THEN prefix ELSE lower,
           NEW upper, upper = IF prefix = <<>> THEN None ELSE KeySuccessor(prefix)
    PROVE  (/\ InBound(k, from, raised \/ inclusive)
            /\ upper = None \/ Before(k, upper))
              <=> Wanted(k, prefix, lower, inclusive)
<1>1. k \in String
  BY KeysAssumption
<1>2. prefix = <<>> => IsPrefix(prefix, k)
  BY <1>1, PrefixIs, Chars, EmptySeq
<1>3. IsPrefix(prefix, k) => UpTo(prefix, k)
  BY <1>1, PrefixUpTo
<1>4. prefix # <<>> => /\ KeySuccessor(prefix) # None => /\ IsPrefix(prefix, k) => Before(k, upper)
                                                         /\ UpTo(prefix, k) /\ Before(k, upper) => IsPrefix(prefix, k)
                       /\ KeySuccessor(prefix) = None /\ UpTo(prefix, k) => IsPrefix(prefix, k)
  BY <1>1, SuccessorBounds
<1>5. UpTo(prefix, k) => ((upper = None \/ Before(k, upper)) <=> IsPrefix(prefix, k))
  BY <1>2, <1>4
<1>6. CASE Before(lower, prefix)
  <2>1. InBound(k, from, raised \/ inclusive) <=> UpTo(prefix, k)
    BY <1>6 DEF InBound, UpTo
  <2>2. UpTo(prefix, k) => InBound(k, lower, inclusive)
    BY <1>1, <1>6, OrderFacts DEF InBound
  <2> QED
    BY <1>3, <1>5, <2>1, <2>2 DEF Wanted
<1>7. CASE ~Before(lower, prefix)
  <2>1. InBound(k, from, raised \/ inclusive) <=> InBound(k, lower, inclusive)
    BY <1>7 DEF InBound
  <2>2. UpTo(prefix, lower)
    BY <1>7, OrderFacts
  <2>3. InBound(k, lower, inclusive) => UpTo(prefix, k)
    BY <1>1, <2>2, OrderFacts DEF InBound, UpTo
  <2> QED
    BY <1>5, <2>1, <2>3 DEF Wanted
<1> QED
  BY <1>6, <1>7

\* The first keys of a set, in order
FirstKeys(S, limit) ==
    [i \in 1..(IF limit < Cardinality(S) THEN limit ELSE Cardinality(S)) |->
        CHOOSE k \in S : Cardinality({j \in S : Before(j, k)}) = i - 1]

\* The answer takes the keys of the set in order, and leaves out a key only when full
TakesFirst(q, S, limit) ==
    /\ q \in Seq(Keys) /\ Len(q) <= limit
    /\ \A i \in 1..Len(q) : q[i] \in S
    /\ \A i, j \in 1..Len(q) : i < j => Before(q[i], q[j])
    /\ \A k \in S : \/ \E i \in 1..Len(q) : q[i] = k
                    \/ Len(q) = limit /\ \A i \in 1..Len(q) : Before(q[i], k)

\* Picking the keys of rank 0, 1, ... yields the first keys in order (ORDER BY key LIMIT).
LEMMA FirstKeysAre ==
    ASSUME NEW S \in SUBSET Keys, IsFiniteSet(S), NEW limit \in Nat
    PROVE  TakesFirst(FirstKeys(S, limit), S, limit)
<1> DEFINE q == FirstKeys(S, limit)
<1>0. S \in SUBSET String /\ Cardinality(S) \in Nat
  BY KeysAssumption, FS_CardinalityType
<1>1. PICK n \in Nat : n = IF limit < Cardinality(S) THEN limit ELSE Cardinality(S)
  BY <1>0
<1>2. n <= limit /\ n <= Cardinality(S) /\ (n = limit \/ n = Cardinality(S))
  BY <1>0, <1>1
<1>3. q = [i \in 1..n |-> CHOOSE k \in S : Rank(S, k) = i - 1]
  BY <1>1 DEF FirstKeys, Rank
<1> HIDE DEF q
<1>4. \A i \in 1..n : q[i] \in S /\ Rank(S, q[i]) = i - 1
  <2> TAKE i \in 1..n
  <2>1. i - 1 \in Nat /\ i - 1 < Cardinality(S)
    BY <1>0, <1>2
  <2>2. \E k \in S : Rank(S, k) = i - 1
    BY <1>0, <2>1, RankTaken
  <2>3. q[i] = CHOOSE k \in S : Rank(S, k) = i - 1
    BY <1>3
  <2> QED
    BY <2>2, <2>3
<1>5. DOMAIN q = 1..n /\ q \in [1..n -> Keys]
  BY <1>3, <1>4
<1>6. q \in Seq(Keys) /\ Len(q) = n
  BY <1>5, SeqDef, LenProperties
<1>7. \A k \in S : Rank(S, k) \in Nat /\ Rank(S, k) < Cardinality(S)
  BY <1>0, RankBound
<1>8. \A j, k \in S : Rank(S, j) < Rank(S, k) => Before(j, k)
  <2> TAKE j, k \in S
  <2>1. Before(k, j) => Rank(S, k) < Rank(S, j)
    BY <1>0, RankGrows
  <2>2. j = k \/ Before(j, k) \/ Before(k, j)
    BY <1>0, BeforeTotal
  <2> QED
    BY <1>7, <2>1, <2>2
<1>9. \A i, j \in 1..n : i < j => Before(q[i], q[j])
  BY <1>4, <1>8
<1>10. ASSUME NEW k \in S
       PROVE  \/ \E i \in 1..n : q[i] = k
              \/ n = limit /\ \A i \in 1..n : Before(q[i], k)
  <2>1. CASE Rank(S, k) < n
    <3>1. Rank(S, k) + 1 \in 1..n
      BY <1>7, <2>1
    <3>2. Rank(S, q[Rank(S, k) + 1]) = Rank(S, k) /\ q[Rank(S, k) + 1] \in S
      BY <1>4, <1>7, <3>1
    <3>3. q[Rank(S, k) + 1] = k
      BY <1>0, <1>7, <3>2, RankTaken
    <3> QED
      BY <3>1, <3>3
  <2>2. CASE ~(Rank(S, k) < n)
    <3>1. n = limit
      BY <1>2, <1>7, <2>2
    <3>2. \A i \in 1..n : Rank(S, q[i]) < Rank(S, k)
      BY <1>4, <1>7, <2>2
    <3> QED
      BY <1>4, <1>8, <3>1, <3>2
  <2> QED
    BY <2>1, <2>2
<1>11. TakesFirst(q, S, limit)
  BY <1>2, <1>4, <1>6, <1>9, <1>10 DEF TakesFirst
<1> QED
  BY <1>11 DEF q

\* The first keys that are wanted, in order: all of them, or as many as allowed
Answers(q, prefix, lower, inclusive, limit) ==
    /\ q \in Seq(Keys) /\ Len(q) <= limit
    /\ \A i \in 1..Len(q) : Wanted(q[i], prefix, lower, inclusive)
    /\ \A i, j \in 1..Len(q) : i < j => Before(q[i], q[j])
    /\ \A k \in objects : Wanted(k, prefix, lower, inclusive) =>
          \/ \E i \in 1..Len(q) : q[i] = k
          \/ Len(q) = limit /\ \A i \in 1..Len(q) : Before(q[i], k)

\* What the query for the next batch answers, whatever the objects are.
LEMMA QueryKeysAre ==
    ASSUME objects \subseteq Keys, IsFiniteSet(objects),
           NEW prefix \in String, NEW lower \in String, NEW inclusive \in BOOLEAN,
           NEW limit \in Nat
    PROVE  Answers(QueryKeys(prefix, lower, inclusive, limit), prefix, lower, inclusive, limit)
<1>0. PICK q : q = QueryKeys(prefix, lower, inclusive, limit)
  OBVIOUS
<1> DEFINE raised == Before(lower, prefix)
           from == IF raised THEN prefix ELSE lower
           upper == IF prefix = <<>> THEN None ELSE KeySuccessor(prefix)
           S == {k \in objects : /\ InBound(k, from, raised \/ inclusive)
                                 /\ upper = None \/ Before(k, upper)}
<1>1. q = FirstKeys(S, limit)
  BY <1>0 DEF QueryKeys, FirstKeys
<1>2. \A k \in objects : k \in S <=> Wanted(k, prefix, lower, inclusive)
  BY BoundsSelect
<1>3. S \in SUBSET objects
  OBVIOUS
<1> HIDE DEF S
<1>4. S \in SUBSET Keys /\ IsFiniteSet(S)
  BY <1>3, FS_Subset
<1>5. TakesFirst(q, S, limit)
  BY <1>1, <1>4, FirstKeysAre
<1> QED
  BY <1>0, <1>2, <1>3, <1>5 DEF Answers, TakesFirst

-----------------------------------------------------------------------------
(* Sequences of items and of keys *)

\* The empty page.
LEMMA EmptyIs == Range(<<>>) = {} /\ DOMAIN <<>> = {} /\ Len(<<>>) = 0
<1>1. <<>> \in Seq(Nat) /\ Len(<<>>) = 0
  BY EmptySeq
<1>2. DOMAIN <<>> = 1..Len(<<>>)
  <2>1. PICK e \in Seq(Nat) : e = <<>>
    BY <1>1
  <2>2. DOMAIN e = 1..Len(e)
    BY LenProperties
  <2> QED
    BY <2>1, <2>2
<1>3. DOMAIN <<>> = {}
  BY <1>1, <1>2
<1> QED
  BY <1>1, <1>3 DEF Range

\* One sequence of items behind another
Joined(r, a, b) ==
    /\ r \in Seq(Item) /\ Range(r) = Range(a) \cup Range(b)
    /\ \A i \in DOMAIN r : \/ i \in DOMAIN a /\ r[i] = a[i]
                           \/ \E j \in DOMAIN b : i = Len(a) + j /\ r[i] = b[j]

\* What stands where in two pages received one after the other.
LEMMA ConcatIs ==
    ASSUME NEW a \in Seq(Item), NEW b \in Seq(Item)
    PROVE  Joined(a \o b, a, b)
<1>0. PICK r : r = a \o b
  OBVIOUS
<1>1. /\ r \in Seq(Item) /\ Len(r) = Len(a) + Len(b)
      /\ \A i \in 1 .. Len(a) + Len(b) : r[i] = IF i <= Len(a) THEN a[i] ELSE b[i - Len(a)]
  BY <1>0, ConcatProperties
<1>2. /\ Len(a) \in Nat /\ Len(b) \in Nat
      /\ DOMAIN a = 1..Len(a) /\ DOMAIN b = 1..Len(b) /\ DOMAIN r = 1..Len(r)
  BY <1>1, LenProperties
<1>3. Range(r) = Range(a) \cup Range(b)
  BY <1>0, RangeConcatenation
<1>4. ASSUME NEW i \in DOMAIN r
      PROVE  \/ i \in DOMAIN a /\ r[i] = a[i]
             \/ \E j \in DOMAIN b : i = Len(a) + j /\ r[i] = b[j]
  <2>1. CASE i <= Len(a)
    BY <1>1, <1>2, <2>1
  <2>2. CASE i > Len(a)
    <3>1. i - Len(a) \in DOMAIN b /\ i = Len(a) + (i - Len(a))
      BY <1>1, <1>2, <2>2
    <3>2. r[i] = b[i - Len(a)]
      BY <1>1, <1>2, <2>2
    <3> QED
      BY <3>1, <3>2
  <2> QED
    BY <1>1, <1>2, <2>1, <2>2
<1> QED
  BY <1>0, <1>1, <1>3, <1>4 DEF Joined

\* Two ascending pages make one when all of the first precedes all of the second.
LEMMA AscendingConcat ==
    ASSUME NEW a \in Seq(Item), NEW b \in Seq(Item), Ascending(a), Ascending(b),
           \A i \in DOMAIN a : \A j \in DOMAIN b : Before(a[i].name, b[j].name)
    PROVE  Ascending(a \o b)
<1>1. PICK r : r = a \o b
  OBVIOUS
<1>2. \A i \in DOMAIN r : \/ i \in DOMAIN a /\ r[i] = a[i]
                          \/ \E j \in DOMAIN b : i = Len(a) + j /\ r[i] = b[j]
  BY <1>1, ConcatIs DEF Joined
<1>3. Len(a) \in Nat /\ Len(b) \in Nat /\ DOMAIN a = 1..Len(a) /\ DOMAIN b = 1..Len(b)
  BY LenProperties
<1>4. ASSUME NEW i \in DOMAIN r, NEW j \in DOMAIN r, i < j
      PROVE  Before(r[i].name, r[j].name)
  <2>1. CASE i \in DOMAIN a /\ r[i] = a[i] /\ j \in DOMAIN a /\ r[j] = a[j]
    BY <1>4, <2>1 DEF Ascending
  <2>2. CASE /\ \E x \in DOMAIN b : i = Len(a) + x /\ r[i] = b[x]
             /\ \E y \in DOMAIN b : j = Len(a) + y /\ r[j] = b[y]
    <3>1. PICK x \in DOMAIN b, y \in DOMAIN b : /\ i = Len(a) + x /\ r[i] = b[x]
                                                /\ j = Len(a) + y /\ r[j] = b[y]
      BY <2>2
    <3>2. x < y
      BY <1>3, <1>4, <3>1
    <3> QED
      BY <3>1, <3>2 DEF Ascending
  <2>3. CASE i \in DOMAIN a /\ r[i] = a[i] /\ \E y \in DOMAIN b : r[j] = b[y]
    BY <2>3
  <2>4. CASE (\E x \in DOMAIN b : i = Len(a) + x) /\ j \in DOMAIN a
    BY <1>3, <1>4, <2>4
  <2> QED
    BY <1>2, <2>1, <2>2, <2>3, <2>4
<1> QED
  BY <1>1, <1>4 DEF Ascending

\* The first key of a batch and the others
LEMMA HeadTailAre ==
    ASSUME NEW b \in Seq(Keys), b # <<>>
    PROVE  /\ Head(b) \in Keys /\ Tail(b) \in Seq(Keys)
           /\ 1 \in DOMAIN b /\ Head(b) = b[1]
           /\ Range(b) = {Head(b)} \cup Range(Tail(b))
           /\ \A i \in DOMAIN Tail(b) : i \in Nat /\ 1 < i + 1 /\ i + 1 \in DOMAIN b /\ Tail(b)[i] = b[i + 1]
<1>1. /\ Head(b) \in Keys /\ Tail(b) \in Seq(Keys) /\ Len(Tail(b)) = Len(b) - 1
      /\ \A i \in 1..Len(Tail(b)) : Tail(b)[i] = b[i + 1]
  BY HeadTailProperties
<1>2. Len(b) \in Nat \ {0} /\ DOMAIN b = 1..Len(b)
  BY EmptySeq, LenProperties
<1>3. DOMAIN Tail(b) = 1..(Len(b) - 1)
  BY <1>1, LenProperties
<1>4. 1 \in DOMAIN b /\ Head(b) = b[1]
  BY <1>2
<1>5. \A i \in DOMAIN Tail(b) : i \in Nat /\ 1 < i + 1 /\ i + 1 \in DOMAIN b /\ Tail(b)[i] = b[i + 1]
  BY <1>1, <1>2, <1>3
<1>6. \A x \in Range(Tail(b)) : x \in Range(b)
  BY <1>5 DEF Range
<1>7. \A x \in Range(b) : x = Head(b) \/ x \in Range(Tail(b))
  <2> TAKE x \in Range(b)
  <2>1. PICK i \in DOMAIN b : x = b[i]
    BY DEF Range
  <2>2. CASE i = 1
    BY <1>4, <2>1, <2>2
  <2>3. CASE i # 1
    <3>1. i - 1 \in DOMAIN Tail(b) /\ i - 1 + 1 = i
      BY <1>2, <1>3, <2>3
    <3>2. Tail(b)[i - 1] = x
      BY <1>5, <2>1, <3>1
    <3> QED
      BY <3>1, <3>2 DEF Range
  <2> QED
    BY <2>2, <2>3
<1>8. Head(b) \in Range(b)
  BY <1>4 DEF Range
<1> QED
  BY <1>1, <1>4, <1>5, <1>6, <1>7, <1>8

-----------------------------------------------------------------------------
(* What the invariant says *)

\* The item a key makes for this request.
LEMMA ItemOfIs ==
    \A k : ItemOf(k) = ItemIn(listing.prefix, listing.delimiter, k)
BY DEF ItemOf, ItemIn

\* The fields of a request
LEMMA Fields ==
    ASSUME NEW l \in Request
    PROVE  /\ l.state \in Ended \cup {"check", "scan", "entries", "limit", "page"}
           /\ l.prefix \in String /\ l.delimiter \in String /\ l.maxKeys \in Nat
           /\ l.start \in String /\ l.floor \in String /\ l.lower \in String
           /\ l.inclusive \in BOOLEAN /\ l.batch \in Seq(Keys) /\ l.last \in BOOLEAN
           /\ l.page \in Seq(Item) /\ l.cursor \in String /\ l.truncated \in BOOLEAN
BY DEF Request

\* A key that was asked for has an item, which is the key or a group before it.
LEMMA AskedItem ==
    ASSUME ListingTypeOK, NEW k \in ever, Asked(k), NEW item, item = ItemOf(k)
    PROVE  /\ k \in String /\ IsPrefix(listing.prefix, k)
           /\ item \in Item /\ item.name \in String /\ UpTo(item.name, k)
<1>1. k \in String
  BY KeysAssumption DEF ListingTypeOK
<1>2. listing.prefix \in String /\ listing.delimiter \in String /\ IsPrefix(listing.prefix, k)
  BY Fields DEF ListingTypeOK, Asked
<1>3. item = ItemIn(listing.prefix, listing.delimiter, k)
  BY ItemOfIs
<1> QED
  BY <1>1, <1>2, <1>3, ItemIs

\* The name of every item is a key or a common prefix.
LEMMA NamesAreStrings ==
    ASSUME NEW items \in Seq(Item), NEW i \in DOMAIN items
    PROVE  items[i] \in Item /\ items[i].name \in String
<1>1. items[i] \in Item
  BY LenProperties, ElementOfSeq
<1> QED
  BY <1>1 DEF Item

\* The invariant orders the pages,
LEMMA InvInOrder ==
    ASSUME ListingInv PROVE ListedInOrder
<1>1. listed \in Seq(Item) /\ listing.page \in Seq(Item) /\ listing.floor \in String
  BY Fields DEF ListingInv, ListingTypeOK
<1>2. \A i \in DOMAIN listed : \A j \in DOMAIN listing.page :
         Before(listed[i].name, listing.page[j].name)
  <2> TAKE i \in DOMAIN listed
  <2> TAKE j \in DOMAIN listing.page
  <2>1. listing.page # <<>>
    BY EmptyIs
  <2>2. listing.state # "done"
    BY <2>1 DEF ListingInv, CursorOK
  <2>3. UpTo(listed[i].name, listing.floor) /\ Before(listing.floor, listing.page[j].name)
    BY <2>2 DEF ListingInv, BoundsOrdered
  <2>4. listed[i].name \in String /\ listing.page[j].name \in String
    BY <1>1, NamesAreStrings
  <2> QED
    BY <1>1, <2>3, <2>4, OrderFacts
<1>3. Ascending(listed) /\ Ascending(listing.page)
  BY DEF ListingInv, BoundsOrdered
<1>4. Ascending(Shown)
  BY <1>1, <1>2, <1>3, AscendingConcat DEF Shown
<1> QED
  BY <1>4 DEF Ascending, ListedInOrder

\* bounds what they list by what has existed,
LEMMA InvExisted ==
    ASSUME ListingInv PROVE ListedExisted
<1>1. listed \in Seq(Item) /\ listing.page \in Seq(Item)
  BY Fields DEF ListingInv, ListingTypeOK
<1>2. Range(Shown) = Range(listed) \cup Range(listing.page)
  BY <1>1, ConcatIs DEF Shown, Joined
<1>3. \A i \in DOMAIN Shown : Shown[i] \in Range(Shown)
  BY DEF Range
<1>4. \A item \in Range(Shown) : \E k \in ever : Asked(k) /\ ItemOf(k) = item
  BY <1>2 DEF ListingInv, ItemsExisted
<1> QED
  BY <1>3, <1>4 DEF ListedExisted

\* and completes them once the last page is received.
LEMMA InvStable ==
    ASSUME ListingInv PROVE StableKeysListed
<1>1. listed \in Seq(Item) /\ listing.page \in Seq(Item) /\ listing.floor \in String
  BY Fields DEF ListingInv, ListingTypeOK
<1>2. Range(Shown) = Range(listed) \cup Range(listing.page)
  BY <1>1, ConcatIs DEF Shown, Joined
<1>3. ASSUME NEW k \in always, NEW item, item = ItemOf(k),
             Asked(k), Before(listing.start, item.name), listing.maxKeys > 0,
             \/ listing.state = "done"
             \/ listing.state \in {"check", "scan", "entries", "limit"} /\ ~Before(listing.floor, item.name)
      PROVE  item \in Range(Shown)
  <2>1. KeptKey(k, item)
    BY <1>3 DEF ListingInv, KeysKept
  <2>2. k \in ever /\ ListingTypeOK
    BY DEF ListingInv, ListingTypeOK
  <2>3. item.name \in String
    BY <1>3, <2>2, AskedItem
  <2>4. CASE listing.state = "done"
    BY <1>2, <2>1, <2>4 DEF KeptKey
  <2>5. CASE listing.state # "done" /\ ~Before(listing.floor, item.name)
    <3>1. UpTo(item.name, listing.floor)
      BY <1>1, <2>3, <2>5, OrderFacts
    <3> QED
      BY <1>2, <2>1, <2>5, <3>1 DEF KeptKey
  <2> QED
    BY <1>3, <2>4, <2>5
<1> QED
  BY <1>3 DEF StableKeysListed

-----------------------------------------------------------------------------
(* The steps *)

\* What stays the same while a page is made up
SameRequest(l) ==
    /\ l.prefix = listing.prefix /\ l.delimiter = listing.delimiter
    /\ l.maxKeys = listing.maxKeys /\ l.start = listing.start

\* Nothing that leaves the question alone changes the item of a key.
LEMMA SameItems ==
    ASSUME SameRequest(listing')
    PROVE  \A k : ItemOf(k)' = ItemOf(k) /\ Asked(k)' = Asked(k)
BY DEF SameRequest, ItemOf, Asked

\* Keys stay kept if each of them does.
LEMMA KeysKeptStep ==
    ASSUME ListingInv, SameRequest(listing'), always' \subseteq always,
           \A k \in always : \A item :
              /\ item = ItemOf(k) /\ Asked(k) /\ Before(listing.start, item.name)
              /\ listing.maxKeys > 0 /\ KeptKey(k, item)
              => KeptKey(k, item)'
    PROVE  KeysKept'
<1> SUFFICES ASSUME NEW k \in always', Asked(k)', Before(listing'.start, ItemOf(k)'.name),
                    listing'.maxKeys > 0
             PROVE  KeptKey(k, ItemOf(k))'
  BY DEF KeysKept
<1>1. PICK item : item = ItemOf(k)
  OBVIOUS
<1>2. ItemOf(k)' = item /\ Asked(k)
  BY <1>1, SameItems
<1>3. k \in always /\ Before(listing.start, item.name) /\ listing.maxKeys > 0
  BY <1>2 DEF SameRequest
<1>4. KeptKey(k, item)
  BY <1>1, <1>2, <1>3 DEF ListingInv, KeysKept
<1>5. KeptKey(k, item)'
  BY <1>1, <1>2, <1>3, <1>4
<1> QED
  BY <1>2, <1>5 DEF KeptKey

\* The items stay those of keys that existed.
LEMMA ItemsExistedStep ==
    ASSUME ListingInv, SameRequest(listing'), ever \subseteq ever',
           Range(listed') \cup Range(listing'.page) \subseteq Range(listed) \cup Range(listing.page)
    PROVE  ItemsExisted'
<1> SUFFICES ASSUME NEW item \in Range(listed') \cup Range(listing'.page)
             PROVE  \E k \in ever' : Asked(k)' /\ ItemOf(k)' = item
  BY DEF ItemsExisted
<1>1. PICK k \in ever : Asked(k) /\ ItemOf(k) = item
  BY DEF ListingInv, ItemsExisted
<1>2. Asked(k)' /\ ItemOf(k)' = item
  BY <1>1, SameItems
<1> QED
  BY <1>2

\* All but the state of the request
SameButState(l) ==
    /\ SameRequest(l)
    /\ l.floor = listing.floor /\ l.lower = listing.lower /\ l.inclusive = listing.inclusive
    /\ l.page = listing.page /\ l.cursor = listing.cursor

\* The bucket check keeps the invariant, found or not.
LEMMA CheckBucketInv ==
    ASSUME ListingInv, CheckBucket PROVE ListingInv'
<1>0. ListingTypeOK /\ listing \in Request
  BY DEF ListingInv, ListingTypeOK
<1>1. /\ listing.state = "check"
      /\ UNCHANGED <<bucket, objects, listed, always, ever, events>>
  BY DEF CheckBucket
<1>2. PICK s \in {"failed", "page", "scan"} :
         /\ listing' = [listing EXCEPT !.state = s]
         /\ s = "page" => listing.maxKeys = 0
         /\ s = "scan" => listing.maxKeys # 0
  BY <1>0 DEF CheckBucket, ListingTypeOK
<1>3. listing' \in Request
  BY <1>0, <1>2 DEF Request, Ended
<1>4. /\ listing'.state = s /\ SameButState(listing')
      /\ listing'.batch = listing.batch /\ listing'.last = listing.last
      /\ listing'.truncated = listing.truncated
  BY <1>0, <1>2 DEF Request, SameButState, SameRequest
<1>5. listing.page = <<>> /\ listing.batch = <<>> /\ listing.truncated = FALSE
  <2>1. listing.truncated \in BOOLEAN
    BY <1>0, Fields
  <2> QED
    BY <1>1, <2>1 DEF ListingInv, CursorOK, BatchSelected, ListingTypeOK
<1>6. ListingTypeOK'
  BY <1>0, <1>1, <1>3, <1>4, <1>5 DEF ListingTypeOK, SameButState, SameRequest
<1>7. BoundsOrdered'
  BY <1>1, <1>2, <1>4 DEF ListingInv, BoundsOrdered, SameButState, SameRequest, Behind
<1>8. ItemsExisted'
  BY <1>1, <1>4, ItemsExistedStep DEF SameButState
<1>9. BatchSelected'
  BY <1>4, <1>5, EmptyIs DEF BatchSelected
<1>10. CursorOK'
  <2>1. listing.maxKeys \in Nat
    BY <1>0, Fields
  <2>2. s = "scan" => ~(0 >= listing.maxKeys)
    BY <1>2, <2>1
  <2>3. Len(listing'.page) = 0 /\ listing'.page = <<>> /\ listing'.maxKeys = listing.maxKeys
    BY <1>4, <1>5, EmptyIs DEF SameButState, SameRequest
  <2> QED
    BY <1>2, <1>4, <1>5, <2>2, <2>3 DEF CursorOK, Full
<1>11. KeysKept'
  <2>1. ASSUME NEW k \in always, NEW item, KeptKey(k, item), listing.maxKeys > 0
        PROVE  KeptKey(k, item)'
    <3>1. listing.maxKeys \in Nat /\ s # "page"
      BY <1>0, <1>2, <2>1, Fields
    <3> QED
      BY <1>1, <1>2, <1>4, <2>1, <3>1 DEF KeptKey, SameButState, SameRequest, InBound
  <2> QED
    BY <1>1, <1>4, <2>1, KeysKeptStep DEF SameButState
<1> QED
  BY <1>6, <1>7, <1>8, <1>9, <1>10, <1>11 DEF ListingInv

\* Fetching a batch keeps the invariant.
LEMMA ScanBatchInv ==
    ASSUME ListingInv, ScanBatch PROVE ListingInv'
<1>0. ListingTypeOK /\ listing \in Request
  BY DEF ListingInv, ListingTypeOK
<1>1. /\ listing.state = "scan"
      /\ UNCHANGED <<bucket, objects, listed, always, ever, events>>
  BY DEF ScanBatch
<1>2. PICK keys : keys = QueryKeys(listing.prefix, listing.lower, listing.inclusive, ScanBatchSize)
  OBVIOUS
<1>3. listing' = [listing EXCEPT !.state = "entries", !.batch = keys,
                                 !.last = Len(keys) < ScanBatchSize]
  BY <1>2 DEF ScanBatch
<1>4. /\ keys \in Seq(Keys)
      /\ \A i \in 1..Len(keys) : Wanted(keys[i], listing.prefix, listing.lower, listing.inclusive)
      /\ \A i, j \in 1..Len(keys) : i < j => Before(keys[i], keys[j])
      /\ \A k \in objects : Wanted(k, listing.prefix, listing.lower, listing.inclusive) =>
            \/ \E i \in 1..Len(keys) : keys[i] = k
            \/ Len(keys) = ScanBatchSize /\ \A i \in 1..Len(keys) : Before(keys[i], k)
  <2>1. PICK p \in String, lo \in String, inc \in BOOLEAN :
           p = listing.prefix /\ lo = listing.lower /\ inc = listing.inclusive
    BY <1>0, Fields
  <2>2. objects \subseteq Keys /\ IsFiniteSet(objects)
    BY <1>0 DEF ListingTypeOK
  <2>3. keys = QueryKeys(p, lo, inc, ScanBatchSize) /\ ScanBatchSize \in Nat
    BY <1>2, <2>1, BatchAssumption
  <2>4. /\ keys \in Seq(Keys)
        /\ \A i \in 1..Len(keys) : Wanted(keys[i], p, lo, inc)
        /\ \A i, j \in 1..Len(keys) : i < j => Before(keys[i], keys[j])
        /\ \A k \in objects : Wanted(k, p, lo, inc) =>
              \/ \E i \in 1..Len(keys) : keys[i] = k
              \/ Len(keys) = ScanBatchSize /\ \A i \in 1..Len(keys) : Before(keys[i], k)
    <3>1. Answers(QueryKeys(p, lo, inc, ScanBatchSize), p, lo, inc, ScanBatchSize)
      BY <2>2, <2>3, QueryKeysAre
    <3>2. Answers(keys, p, lo, inc, ScanBatchSize)
      BY <2>3, <3>1
    <3> QED
      BY <3>2 DEF Answers
  <2> QED
    BY <2>1, <2>4
<1>5. DOMAIN keys = 1..Len(keys) /\ Len(keys) \in Nat
  BY <1>4, LenProperties
<1>6. (Len(keys) < ScanBatchSize) \in BOOLEAN
  OBVIOUS
<1>7. listing' \in Request
  BY <1>0, <1>3, <1>4, <1>6 DEF Request
<1>8. /\ listing'.state = "entries" /\ SameButState(listing')
      /\ listing'.batch = keys /\ listing'.last = (Len(keys) < ScanBatchSize)
      /\ listing'.truncated = listing.truncated
  BY <1>0, <1>3 DEF Request, SameButState, SameRequest
<1>9. listing.truncated = FALSE
  <2>1. listing.truncated \in BOOLEAN
    BY <1>0, Fields
  <2> QED
    BY <1>1, <2>1 DEF ListingInv, ListingTypeOK
<1>10. ListingTypeOK'
  BY <1>0, <1>1, <1>7, <1>8, <1>9 DEF ListingTypeOK, SameButState, SameRequest
<1>11. BoundsOrdered'
  BY <1>1, <1>8 DEF ListingInv, BoundsOrdered, SameButState, SameRequest, Behind
<1>12. ItemsExisted'
  BY <1>1, <1>8, ItemsExistedStep DEF SameButState
<1>13. BatchSelected'
  <2>1. \A i \in DOMAIN keys : keys[i] \in ever /\ IsPrefix(listing.prefix, keys[i])
    BY <1>0, <1>4, <1>5 DEF Wanted, ListingTypeOK
  <2> QED
    BY <1>1, <1>4, <1>5, <1>8, <2>1 DEF BatchSelected, SameButState, SameRequest
<1>14. CursorOK'
  BY <1>1, <1>8, <1>9 DEF ListingInv, CursorOK, Full, SameButState, SameRequest
<1>15. KeysKept'
  <2>1. ASSUME NEW k \in always, NEW item, KeptKey(k, item), Asked(k)
        PROVE  KeptKey(k, item)'
    <3>1. k \in objects /\ IsPrefix(listing.prefix, k)
      BY <1>0, <2>1 DEF ListingTypeOK, Asked
    <3>2. InBound(k, listing.lower, listing.inclusive) =>
             \/ k \in Range(keys)
             \/ Len(keys) = ScanBatchSize /\ \A i \in DOMAIN keys : Before(keys[i], k)
      BY <1>4, <1>5, <3>1 DEF Wanted, Range
    <3>3. Len(keys) = ScanBatchSize => ~(Len(keys) < ScanBatchSize)
      BY <1>5
    <3> QED
      BY <1>1, <1>8, <2>1, <3>2, <3>3 DEF KeptKey, SameButState, SameRequest, InBound
  <2> QED
    BY <1>1, <1>8, <2>1, KeysKeptStep DEF SameButState
<1> QED
  BY <1>10, <1>11, <1>12, <1>13, <1>14, <1>15 DEF ListingInv

\* Running out of a batch keeps the invariant.
LEMMA EndBatchInv ==
    ASSUME ListingInv, EndBatch PROVE ListingInv'
<1>0. ListingTypeOK /\ listing \in Request
  BY DEF ListingInv, ListingTypeOK
<1>1. /\ listing.state = "entries" /\ listing.batch = <<>>
      /\ UNCHANGED <<bucket, objects, listed, always, ever, events>>
  BY DEF EndBatch
<1>2. PICK s \in {"page", "scan"} :
         /\ listing' = [listing EXCEPT !.state = s]
         /\ s = "page" => listing.last
  BY DEF EndBatch
<1>3. listing' \in Request
  BY <1>0, <1>2 DEF Request, Ended
<1>4. /\ listing'.state = s /\ SameButState(listing')
      /\ listing'.batch = listing.batch /\ listing'.last = listing.last
      /\ listing'.truncated = listing.truncated
  BY <1>0, <1>2 DEF Request, SameButState, SameRequest
<1>5. listing.truncated = FALSE
  <2>1. listing.truncated \in BOOLEAN
    BY <1>0, Fields
  <2> QED
    BY <1>1, <2>1 DEF ListingInv, ListingTypeOK
<1>6. ListingTypeOK'
  BY <1>0, <1>1, <1>3, <1>4, <1>5 DEF ListingTypeOK, SameButState, SameRequest
<1>7. BoundsOrdered'
  BY <1>1, <1>2, <1>4 DEF ListingInv, BoundsOrdered, SameButState, SameRequest, Behind
<1>8. ItemsExisted'
  BY <1>1, <1>4, ItemsExistedStep DEF SameButState
<1>9. BatchSelected'
  BY <1>1, <1>4, EmptyIs DEF BatchSelected
<1>10. CursorOK'
  BY <1>1, <1>2, <1>4, <1>5 DEF ListingInv, CursorOK, Full, SameButState, SameRequest
<1>11. KeysKept'
  <2>1. ASSUME NEW k \in always, NEW item, KeptKey(k, item), Asked(k), item = ItemOf(k)
        PROVE  KeptKey(k, item)'
    <3>1. k \notin Range(listing.batch)
      BY <1>1, EmptyIs
    <3>2. item.name \in String /\ listing.floor \in String
      BY <1>0, <2>1, AskedItem, Fields DEF ListingTypeOK
    <3>3. UpTo(item.name, listing.floor) \/ Before(listing.floor, item.name)
      BY <3>2, OrderFacts
    <3>4. listing.last => item \in Range(listed) \/ item \in Range(listing.page)
      BY <1>1, <2>1, <3>1, <3>3 DEF KeptKey
    <3> QED
      BY <1>1, <1>2, <1>4, <2>1, <3>4 DEF KeptKey, SameButState, SameRequest, InBound
  <2> QED
    BY <1>1, <1>4, <2>1, KeysKeptStep DEF SameButState
<1> QED
  BY <1>6, <1>7, <1>8, <1>9, <1>10, <1>11 DEF ListingInv

\* The look-ahead for one more key keeps the invariant.
LEMMA CheckTruncatedInv ==
    ASSUME ListingInv, CheckTruncated PROVE ListingInv'
<1>0. ListingTypeOK /\ listing \in Request
  BY DEF ListingInv, ListingTypeOK
<1>1. /\ listing.state = "limit"
      /\ UNCHANGED <<bucket, objects, listed, always, ever, events>>
  BY DEF CheckTruncated
<1>2. PICK keys : keys = QueryKeys(listing.prefix, listing.lower, listing.inclusive, 1)
  OBVIOUS
<1>3. PICK t \in BOOLEAN : t = (keys # <<>>)
  OBVIOUS
<1>4. listing' = [listing EXCEPT !.state = "page", !.truncated = t]
  BY <1>2, <1>3 DEF CheckTruncated
<1>5. listing' \in Request
  BY <1>0, <1>4 DEF Request
<1>6. /\ listing'.state = "page" /\ SameButState(listing')
      /\ listing'.batch = listing.batch /\ listing'.last = listing.last
      /\ listing'.truncated = t
  BY <1>0, <1>4 DEF Request, SameButState, SameRequest
<1>7. /\ Full(listing) /\ listing.maxKeys > 0 /\ listing.batch = <<>>
      /\ listing.cursor = listing.page[Len(listing.page)].name
  BY <1>1 DEF ListingInv, CursorOK, BatchSelected
<1>8. ListingTypeOK'
  BY <1>0, <1>1, <1>5, <1>6, <1>7 DEF ListingTypeOK, SameButState, SameRequest, Full
<1>9. BoundsOrdered'
  BY <1>1, <1>6 DEF ListingInv, BoundsOrdered, SameButState, SameRequest, Behind
<1>10. ItemsExisted'
  BY <1>1, <1>6, ItemsExistedStep DEF SameButState
<1>11. BatchSelected'
  BY <1>6, <1>7, EmptyIs DEF BatchSelected
<1>12. CursorOK'
  BY <1>6, <1>7 DEF CursorOK, Full, SameButState, SameRequest
<1>13. KeysKept'
  <2>1. ASSUME NEW k \in always, NEW item, KeptKey(k, item), Asked(k), item = ItemOf(k)
        PROVE  KeptKey(k, item)'
    <3>1. item.name \in String /\ listing.floor \in String
      BY <1>0, <2>1, AskedItem, Fields DEF ListingTypeOK
    <3>2. UpTo(item.name, listing.floor) \/ Before(listing.floor, item.name)
      BY <3>1, OrderFacts
    <3>3. ASSUME keys = <<>> PROVE ~InBound(k, listing.lower, listing.inclusive)
      <4>1. k \in objects /\ IsPrefix(listing.prefix, k)
        BY <1>0, <2>1 DEF ListingTypeOK, Asked
      <4>2. Wanted(k, listing.prefix, listing.lower, listing.inclusive) =>
               \/ \E i \in 1..Len(keys) : keys[i] = k
               \/ Len(keys) = 1
        <5>1. PICK p \in String, lo \in String, inc \in BOOLEAN :
                 p = listing.prefix /\ lo = listing.lower /\ inc = listing.inclusive
          BY <1>0, Fields
        <5>2. objects \subseteq Keys /\ IsFiniteSet(objects)
          BY <1>0 DEF ListingTypeOK
        <5>3. keys = QueryKeys(p, lo, inc, 1) /\ 1 \in Nat
          BY <1>2, <5>1
        <5>4. \A x \in objects : Wanted(x, p, lo, inc) =>
                 \/ \E i \in 1..Len(keys) : keys[i] = x
                 \/ Len(keys) = 1 /\ \A i \in 1..Len(keys) : Before(keys[i], x)
          <6>1. Answers(QueryKeys(p, lo, inc, 1), p, lo, inc, 1)
            BY <5>2, <5>3, QueryKeysAre
          <6>2. Answers(keys, p, lo, inc, 1)
            BY <5>3, <6>1
          <6> QED
            BY <6>2 DEF Answers
        <5> QED
          BY <4>1, <5>1, <5>4
      <4> QED
        BY <3>3, <4>1, <4>2, EmptyIs DEF Wanted
    <3>4. ~t => item \in Range(listed) \/ item \in Range(listing.page)
      BY <1>1, <1>3, <2>1, <3>2, <3>3 DEF KeptKey
    <3> QED
      BY <1>1, <1>6, <2>1, <3>4 DEF KeptKey, SameButState, SameRequest, InBound
  <2> QED
    BY <1>1, <1>6, <2>1, KeysKeptStep DEF SameButState
<1> QED
  BY <1>8, <1>9, <1>10, <1>11, <1>12, <1>13 DEF ListingInv

\* What the for loop makes of a key that is in bound: one more item, that of
\* the key, unless it is there or belongs to an earlier page; and a bound
\* behind the key, before which only the keys of this item are passed.
Seen(key, item, l) ==
    /\ l \in Request /\ SameRequest(l) /\ l.floor = listing.floor
    /\ l.state = "entries" /\ l.batch = Tail(listing.batch)
    /\ l.last = listing.last /\ l.truncated = listing.truncated
    /\ l.cursor = item.name
    /\ key \in ever /\ Asked(key) /\ item \in Item /\ item.name \in String
    /\ UpTo(key, l.lower) /\ (l.inclusive => Before(key, l.lower))
    /\ \A k \in String : IsPrefix(listing.prefix, k) /\ UpTo(key, k)
                            /\ ~InBound(k, l.lower, l.inclusive) => ItemOf(k) = item
    /\ \/ /\ l.page = Append(listing.page, item) /\ Before(listing.floor, item.name)
          /\ \A i \in DOMAIN listing.page : Before(listing.page[i].name, item.name)
       \/ /\ l.page = listing.page
          /\ item \in Range(listing.page) \/ ~Before(listing.floor, item.name)

\* The request with its page, bounds and cursor moved on
MovedOn(q, page, lower, inclusive, cursor) ==
    [q EXCEPT !.page = page, !.lower = lower, !.inclusive = inclusive, !.cursor = cursor]

\* Seeing a key changes the page, the bounds and the cursor of the request.
LEMMA SeenRequest ==
    ASSUME NEW q \in Request, NEW page \in Seq(Item), NEW lower \in String,
           NEW inclusive \in BOOLEAN, NEW cursor \in String
    PROVE  MovedOn(q, page, lower, inclusive, cursor) \in Request
BY DEF Request, MovedOn

\* A key of the batch behind the bounds is seen: as itself or as its common prefix.
LEMMA EntrySeen ==
    ASSUME ListingInv, listing.state = "entries", listing.batch # <<>>,
           NEW key, key = Head(listing.batch), InBound(key, listing.lower, listing.inclusive),
           NEW common, common = CommonPrefix(key, listing.prefix, listing.delimiter),
           NEW rest, rest = [listing EXCEPT !.batch = Tail(listing.batch)],
           NEW l, l = IF common = None THEN WithKey(rest, key)
                      ELSE WithGroup(rest, key, common, KeySuccessor(common)),
           NEW item, item = ItemOf(key)
    PROVE  Seen(key, item, l)
<1>0. ListingTypeOK /\ listing \in Request
  BY DEF ListingInv, ListingTypeOK
<1>1. /\ listing.prefix \in String /\ listing.delimiter \in String /\ listing.floor \in String
      /\ listing.lower \in String /\ listing.inclusive \in BOOLEAN /\ listing.batch \in Seq(Keys)
      /\ listing.page \in Seq(Item) /\ listing.start \in String
  BY <1>0, Fields
<1>2. /\ key \in Keys /\ key \in String /\ Tail(listing.batch) \in Seq(Keys)
      /\ 1 \in DOMAIN listing.batch /\ key = listing.batch[1]
  BY <1>1, HeadTailAre, KeysAssumption
<1>3. key \in ever /\ IsPrefix(listing.prefix, key)
  BY <1>2 DEF ListingInv, BatchSelected
<1>4. Before(listing.floor, key)
  <2>1. UpTo(listing.floor, listing.lower) /\ (listing.inclusive => Before(listing.floor, listing.lower))
    BY DEF ListingInv, BoundsOrdered, Behind
  <2> QED
    BY <1>1, <1>2, <2>1, OrderFacts DEF InBound
<1>5. Asked(key)
  <2>1. UpTo(listing.start, listing.floor)
    BY DEF ListingInv, BoundsOrdered
  <2> QED
    BY <1>1, <1>2, <1>3, <1>4, <2>1, OrderFacts DEF Asked
<1>6. item \in Item /\ item.name \in String /\ UpTo(item.name, key)
  BY <1>0, <1>3, <1>5, AskedItem
<1>7. \A i \in DOMAIN listing.page : /\ listing.page[i].name \in String
                                     /\ Before(listing.page[i].name, key)
  <2> TAKE i \in DOMAIN listing.page
  <2>1. listing.page[i].name \in String
    BY <1>1, NamesAreStrings
  <2>2. Behind(listing.page[i].name, listing)
    BY DEF ListingInv, BoundsOrdered
  <2> QED
    BY <1>1, <1>2, <2>1, <2>2, OrderFacts DEF InBound, Behind
<1>8. /\ rest \in Request /\ SameRequest(rest) /\ rest.floor = listing.floor
      /\ rest.state = "entries" /\ rest.batch = Tail(listing.batch) /\ rest.last = listing.last
      /\ rest.truncated = listing.truncated /\ rest.page = listing.page
  <2>1. rest \in Request
    BY <1>0, <1>2, Zenon DEF Request
  <2> QED
    BY <1>0, <2>1 DEF Request, SameRequest
<1>9. CASE common = None
  <2>1. item = Key(key)
    BY <1>9 DEF ItemOf
  <2>2. l = MovedOn(rest, Append(rest.page, item), key, FALSE, key)
    BY <1>9, <2>1 DEF WithKey, MovedOn
  <2>3. Append(rest.page, item) \in Seq(Item)
    BY <1>1, <1>6, <1>8, AppendProperties
  <2>4. l \in Request
    BY <1>2, <1>8, <2>2, <2>3, SeenRequest
  <2>5. /\ SameRequest(l) /\ l.floor = listing.floor /\ l.state = "entries"
        /\ l.batch = Tail(listing.batch) /\ l.last = listing.last
        /\ l.truncated = listing.truncated /\ l.cursor = key
        /\ l.lower = key /\ l.inclusive = FALSE /\ l.page = Append(listing.page, item)
    BY <1>8, <2>2 DEF Request, SameRequest, MovedOn
  <2>6. item.name = key
    BY <2>1 DEF Key
  <2>7. ASSUME NEW k \in String, UpTo(key, k), ~InBound(k, l.lower, l.inclusive)
        PROVE  ItemOf(k) = item
    <3>1. k = key
      <4>1. ~Before(key, k)
        BY <2>5, <2>7, Zenon DEF InBound
      <4> QED
        BY <2>7, <4>1, Zenon DEF UpTo
    <3> QED
      BY <3>1, Zenon
  <2>8. UpTo(key, l.lower) /\ (l.inclusive => Before(key, l.lower))
    BY <2>5, Zenon DEF UpTo
  <2> QED
    BY <1>3, <1>4, <1>5, <1>6, <1>7, <2>4, <2>5, <2>6, <2>7, <2>8, Zenon DEF Seen
<1>10. CASE common # None
  <2>1. item = Group(common)
    BY <1>10 DEF ItemOf
  <2>2. common \in String /\ IsPrefix(common, key)
    BY <1>1, <1>2, <1>3, <1>10, CommonPrefixBetween
  <2>grouped. ASSUME NEW n \in String, IsPrefix(listing.prefix, n),
                     \/ IsPrefix(common, n)
                     \/ IsPrefix(common, ItemIn(listing.prefix, listing.delimiter, n).name)
              PROVE  ItemIn(listing.prefix, listing.delimiter, n) = Group(common)
    BY <1>1, <1>2, <1>3, <1>10, <2>grouped, GroupTakes
  <2>3. PICK bound : bound = KeySuccessor(common)
    OBVIOUS
  <2>4. bound \in String
    BY <2>2, <2>3, SuccessorBounds
  <2>5. PICK page \in Seq(Item) :
           page = IF Before(rest.floor, common) /\ item \notin Range(rest.page)
                  THEN Append(rest.page, item) ELSE rest.page
    <3>1. Append(listing.page, item) \in Seq(Item)
      BY <1>1, <1>6, AppendProperties
    <3> QED
      BY <1>1, <1>8, <3>1
  <2>6. PICK lower \in String : lower = IF bound = None THEN key ELSE bound
    BY <1>2, <2>4
  <2>7. PICK inclusive \in BOOLEAN : inclusive = (bound # None)
    OBVIOUS
  <2>8. l = MovedOn(rest, page, lower, inclusive, common)
    BY <1>10, <2>1, <2>3, <2>5, <2>6, <2>7 DEF WithGroup, MovedOn
  <2>9. l \in Request
    BY <1>8, <2>2, <2>8, SeenRequest
  <2>10. /\ SameRequest(l) /\ l.floor = listing.floor /\ l.state = "entries"
         /\ l.batch = Tail(listing.batch) /\ l.last = listing.last
         /\ l.truncated = listing.truncated /\ l.cursor = common
         /\ l.lower = lower /\ l.inclusive = inclusive /\ l.page = page
    BY <1>8, <2>8 DEF Request, SameRequest, MovedOn
  <2>11. item.name = common
    BY <2>1 DEF Group
  <2>12. UpTo(key, l.lower) /\ (l.inclusive => Before(key, l.lower))
    <3>1. bound # None => Before(key, bound)
      BY <1>2, <2>2, <2>3, SuccessorBounds
    <3> QED
      BY <2>6, <2>7, <2>10, <3>1 DEF UpTo
  <2>13. ASSUME NEW k \in String, IsPrefix(listing.prefix, k), UpTo(key, k),
                ~InBound(k, l.lower, l.inclusive)
         PROVE  ItemOf(k) = item
    <3>1. CASE bound = None
      <4>1. k = key
        BY <2>6, <2>7, <2>10, <2>13, <3>1 DEF InBound, UpTo
      <4> QED
        BY <4>1
    <3>2. CASE bound # None
      <4>1. ~Before(bound, k) /\ k # bound
        BY <2>6, <2>7, <2>10, <2>13, <3>2 DEF InBound
      <4>2. Before(k, bound)
        BY <2>4, <4>1, OrderFacts
      <4>3. UpTo(common, k)
        BY <1>2, <1>6, <2>2, <2>11, <2>13, OrderFacts
      <4>4. IsPrefix(common, k)
        BY <2>2, <2>3, <3>2, <4>2, <4>3, SuccessorBounds
      <4>5. ItemIn(listing.prefix, listing.delimiter, k) = Group(common)
        BY <2>13, <4>4, <2>grouped
      <4> QED
        BY <2>1, <4>5, ItemOfIs
    <3> QED
      BY <3>1, <3>2
  <2>14. ASSUME item \notin Range(listing.page), NEW i \in DOMAIN listing.page
         PROVE  Before(listing.page[i].name, item.name)
    <3>1. PICK name : name = listing.page[i].name
      OBVIOUS
    <3>2. name \in String /\ Before(name, key)
      BY <1>7, <3>1
    <3>3. listing.page[i] \in Range(listing.page)
      BY DEF Range
    <3>4. PICK k \in ever : Asked(k) /\ ItemOf(k) = listing.page[i]
      BY <3>3 DEF ListingInv, ItemsExisted
    <3>5. k \in String /\ IsPrefix(listing.prefix, k)
      BY <1>0, <3>4, AskedItem
    <3>6. ASSUME UpTo(common, name) PROVE FALSE
      <4>1. IsPrefix(common, name)
        BY <1>2, <2>2, <3>2, <3>6, BetweenExtends DEF UpTo
      <4>2. IsPrefix(common, ItemIn(listing.prefix, listing.delimiter, k).name)
        BY <3>1, <3>4, <4>1, ItemOfIs
      <4>3. ItemIn(listing.prefix, listing.delimiter, k) = Group(common)
        BY SMTT(20), <3>5, <4>2, <2>grouped
      <4> QED
        BY <2>1, <2>14, <3>3, <3>4, <4>3, ItemOfIs
    <3> QED
      BY <2>2, <2>11, <3>1, <3>2, <3>6, OrderFacts
  <2>15. \/ /\ l.page = Append(listing.page, item) /\ Before(listing.floor, item.name)
            /\ \A i \in DOMAIN listing.page : Before(listing.page[i].name, item.name)
         \/ /\ l.page = listing.page
            /\ item \in Range(listing.page) \/ ~Before(listing.floor, item.name)
    BY <1>8, <2>5, <2>10, <2>11, <2>14
  <2> QED
    BY <1>3, <1>5, <1>6, <2>9, <2>10, <2>11, <2>12, <2>13, <2>15, Zenon DEF Seen
<1> QED
  BY <1>9, <1>10

\* A key that is not in bound is left out of the batch.
LEMMA SkipEntryInv ==
    ASSUME ListingInv, listing.state = "entries", listing.batch # <<>>,
           ~InBound(Head(listing.batch), listing.lower, listing.inclusive),
           listing' = [listing EXCEPT !.batch = Tail(listing.batch)],
           UNCHANGED <<bucket, objects, listed, always, ever, events>>
    PROVE  ListingInv'
<1>0. ListingTypeOK /\ listing \in Request /\ listing.batch \in Seq(Keys)
  BY Fields DEF ListingInv, ListingTypeOK
<1>1. PICK tail \in Seq(Keys) : tail = Tail(listing.batch)
  BY <1>0, HeadTailAre
<1>2. /\ Range(listing.batch) = {Head(listing.batch)} \cup Range(tail)
      /\ \A i \in DOMAIN tail : i \in Nat /\ i + 1 \in DOMAIN listing.batch /\ tail[i] = listing.batch[i + 1]
  BY <1>0, <1>1, HeadTailAre
<1>3. listing' \in Request
  BY <1>0, <1>1 DEF Request
<1>4. /\ listing'.state = listing.state /\ SameButState(listing')
      /\ listing'.batch = tail /\ listing'.last = listing.last
      /\ listing'.truncated = listing.truncated
  BY <1>0, <1>1 DEF Request, SameButState, SameRequest
<1>5. ListingTypeOK'
  BY <1>0, <1>3, <1>4 DEF ListingTypeOK, SameButState, SameRequest, Full
<1>6. BoundsOrdered'
  BY <1>4 DEF ListingInv, BoundsOrdered, SameButState, SameRequest, Behind
<1>7. ItemsExisted'
  BY <1>4, ItemsExistedStep DEF SameButState
<1>8. BatchSelected'
  <2>1. ASSUME NEW i \in DOMAIN tail
        PROVE  /\ tail[i] \in ever /\ IsPrefix(listing.prefix, tail[i])
               /\ \A j \in DOMAIN tail : i < j => Before(tail[i], tail[j])
    <3>1. \A j \in DOMAIN tail : i < j => i + 1 < j + 1
      BY <1>2
    <3> QED
      BY <1>2, <3>1 DEF ListingInv, BatchSelected
  <2> QED
    BY <1>4, <2>1 DEF BatchSelected, SameButState, SameRequest
<1>9. CursorOK'
  BY <1>4 DEF ListingInv, CursorOK, Full, SameButState, SameRequest
<1>10. KeysKept'
  <2>1. ASSUME NEW k \in always, NEW item, KeptKey(k, item) PROVE KeptKey(k, item)'
    <3>1. InBound(k, listing.lower, listing.inclusive) /\ k \in Range(listing.batch) => k \in Range(tail)
      BY <1>2
    <3>2. (\A i \in DOMAIN listing.batch : Before(listing.batch[i], k))
             => \A i \in DOMAIN tail : Before(tail[i], k)
      BY <1>2
    <3> QED
      BY <1>4, <2>1, <3>1, <3>2 DEF KeptKey, SameButState, SameRequest, InBound
  <2> QED
    BY <1>4, <2>1, KeysKeptStep DEF SameButState
<1> QED
  BY <1>5, <1>6, <1>7, <1>8, <1>9, <1>10 DEF ListingInv

\* The request after that: the page may be full.
Entered(l) ==
    /\ listing' \in Request /\ SameRequest(listing') /\ listing'.floor = listing.floor
    /\ listing'.lower = l.lower /\ listing'.inclusive = l.inclusive /\ listing'.page = l.page
    /\ listing'.cursor = l.cursor /\ listing'.last = listing.last
    /\ listing'.truncated = listing.truncated
    /\ Full(l) => listing'.state = "limit" /\ listing'.batch = <<>>
    /\ ~Full(l) => listing'.state = "entries" /\ listing'.batch = l.batch
    /\ UNCHANGED <<bucket, objects, listed, always, ever, events>>

\* After a key is seen the scan goes on or the page is full.
LEMMA EntryEntered ==
    ASSUME NEW l \in Request, l.state = "entries", SameRequest(l), l.floor = listing.floor,
           l.last = listing.last, l.truncated = listing.truncated,
           listing' = IF Full(l) THEN [l EXCEPT !.state = "limit", !.batch = <<>>] ELSE l,
           UNCHANGED <<bucket, objects, listed, always, ever, events>>
    PROVE  Entered(l)
<1>1. CASE Full(l)
  <2>1. listing' = [l EXCEPT !.state = "limit", !.batch = <<>>]
    BY <1>1
  <2>2. <<>> \in Seq(Keys)
    OBVIOUS
  <2>3. listing' \in Request
    BY <2>1, <2>2 DEF Request
  <2>4. /\ listing'.state = "limit" /\ listing'.batch = <<>>
        /\ SameRequest(listing') /\ listing'.floor = listing.floor
        /\ listing'.lower = l.lower /\ listing'.inclusive = l.inclusive /\ listing'.page = l.page
        /\ listing'.cursor = l.cursor /\ listing'.last = listing.last
        /\ listing'.truncated = listing.truncated
    BY <2>1 DEF Request, SameRequest
  <2> QED
    BY <1>1, <2>3, <2>4 DEF Entered
<1>2. CASE ~Full(l)
  BY <1>2 DEF Entered
<1> QED
  BY <1>1, <1>2

\* A page with an item added at its end, or left as it was
Grows(page, item, r) ==
    /\ (Len(r) = Len(page) + 1 /\ r[Len(r)] = item) \/ r = page
    /\ Range(page) \subseteq Range(r) /\ Range(r) \subseteq Range(page) \cup {item}
    /\ r = Append(page, item) => item \in Range(r)
    /\ \A i \in DOMAIN r : (i \in DOMAIN page /\ r[i] = page[i])
                           \/ (r = Append(page, item) /\ r[i] = item)
    /\ Ascending(page) /\ (\A i \in DOMAIN page : Before(page[i].name, item.name)) => Ascending(r)

\* The items of a page before and after
LEMMA PageGrows ==
    ASSUME NEW page \in Seq(Item), NEW item \in Item, NEW r, r = Append(page, item) \/ r = page
    PROVE  Grows(page, item, r)
<1>1. CASE r = Append(page, item)
  <2>1. /\ r \in Seq(Item) /\ Len(r) = Len(page) + 1
        /\ \A i \in 1..Len(page) : r[i] = page[i]
        /\ r[Len(page) + 1] = item
    BY <1>1, AppendProperties
  <2>2. Len(page) \in Nat /\ DOMAIN page = 1..Len(page) /\ DOMAIN r = 1..(Len(page) + 1)
    BY <2>1, LenProperties
  <2>3. \A i \in DOMAIN r : (i \in DOMAIN page /\ r[i] = page[i]) \/ (i = Len(r) /\ r[i] = item)
    BY <2>1, <2>2
  <2>4. Range(r) = Range(page) \cup {item}
    <3>1. \A x \in Range(r) : x \in Range(page) \cup {item}
      BY <2>3 DEF Range
    <3>2. \A x \in Range(page) : x \in Range(r)
      <4> TAKE x \in Range(page)
      <4>1. PICK i \in DOMAIN page : x = page[i]
        BY DEF Range
      <4>2. i \in DOMAIN r /\ r[i] = x
        BY <2>1, <2>2, <4>1
      <4> QED
        BY <4>2 DEF Range
    <3>3. item \in Range(r)
      <4>1. Len(page) + 1 \in DOMAIN r
        BY <2>2
      <4> QED
        BY <2>1, <4>1 DEF Range
    <3> QED
      BY <3>1, <3>2, <3>3
  <2>5. ASSUME \A i \in DOMAIN page : Before(page[i].name, item.name), Ascending(page),
               NEW i \in DOMAIN r, NEW j \in DOMAIN r, i < j
        PROVE  Before(r[i].name, r[j].name)
    <3>1. i \in DOMAIN page /\ r[i] = page[i]
      BY <2>1, <2>2, <2>5
    <3>2. CASE j \in DOMAIN page
      BY <2>1, <2>2, <2>5, <3>1, <3>2 DEF Ascending
    <3>3. CASE j \notin DOMAIN page
      BY <2>3, <2>5, <3>1, <3>3
    <3> QED
      BY <3>2, <3>3
  <2> QED
    BY <1>1, <2>1, <2>3, <2>4, <2>5 DEF Ascending, Grows
<1>2. CASE r = page /\ r # Append(page, item)
  BY <1>2 DEF Grows
<1> QED
  BY <1>1, <1>2

\* A key that is in bound is seen; that may fill the page.
LEMMA SeeEntryInv ==
    ASSUME ListingInv, listing.state = "entries", listing.batch # <<>>,
           NEW key, key = Head(listing.batch), InBound(key, listing.lower, listing.inclusive),
           NEW item, item = ItemOf(key), NEW l, Seen(key, item, l), Entered(l)
    PROVE  ListingInv'
<1>0. ListingTypeOK /\ listing \in Request
  BY DEF ListingInv, ListingTypeOK
<1>2. PICK tail : tail = Tail(listing.batch)
  OBVIOUS
<1>3. /\ l \in Request /\ SameRequest(l) /\ l.floor = listing.floor
      /\ l.state = "entries" /\ l.batch = tail
      /\ l.last = listing.last /\ l.truncated = listing.truncated
      /\ l.cursor = item.name
  BY <1>2 DEF Seen
<1>4. /\ key \in ever /\ Asked(key) /\ item \in Item /\ item.name \in String
      /\ UpTo(key, l.lower) /\ (l.inclusive => Before(key, l.lower))
  BY DEF Seen
<1>5. \A k \in String : IsPrefix(listing.prefix, k) /\ UpTo(key, k)
                            /\ ~InBound(k, l.lower, l.inclusive) => ItemOf(k) = item
  BY DEF Seen
<1>6. \/ /\ l.page = Append(listing.page, item) /\ Before(listing.floor, item.name)
         /\ \A i \in DOMAIN listing.page : Before(listing.page[i].name, item.name)
      \/ /\ l.page = listing.page
         /\ item \in Range(listing.page) \/ ~Before(listing.floor, item.name)
  BY DEF Seen
<1>7. /\ listing.floor \in String /\ listing.lower \in String /\ listing.inclusive \in BOOLEAN
      /\ listing.page \in Seq(Item) /\ listing.batch \in Seq(Keys) /\ l.lower \in String
      /\ l.inclusive \in BOOLEAN /\ l.page \in Seq(Item) /\ listing.truncated \in BOOLEAN
      /\ listing.maxKeys \in Nat
  BY <1>0, <1>3, Fields
<1>8. /\ tail \in Seq(Keys) /\ key \in String /\ 1 \in DOMAIN listing.batch /\ key = listing.batch[1]
      /\ Range(listing.batch) = {key} \cup Range(tail)
      /\ \A i \in DOMAIN tail : i \in Nat /\ 1 < i + 1 /\ i + 1 \in DOMAIN listing.batch
                                /\ tail[i] = listing.batch[i + 1]
  BY <1>2, <1>7, HeadTailAre, KeysAssumption
<1>9. l.page = Append(listing.page, item) \/ l.page = listing.page
  BY <1>6
<1>1. UNCHANGED <<bucket, objects, listed, always, ever, events>>
  BY DEF Entered
<1>10. /\ listing' \in Request /\ SameRequest(listing') /\ listing'.floor = listing.floor
       /\ listing'.lower = l.lower /\ listing'.inclusive = l.inclusive /\ listing'.page = l.page
       /\ listing'.cursor = item.name /\ listing'.last = listing.last
       /\ listing'.truncated = listing.truncated
       /\ Full(l) => listing'.state = "limit" /\ listing'.batch = <<>>
       /\ ~Full(l) => listing'.state = "entries" /\ listing'.batch = tail
  BY <1>3 DEF Entered
<1>11. listing.truncated = FALSE
  BY <1>0, <1>7 DEF ListingTypeOK
<1>12. Full(l) <=> Len(listing'.page) >= listing.maxKeys
  BY <1>3, <1>10 DEF Full, SameRequest
<1>13. Len(listing.page) \in Nat /\ Len(listing.page) < listing.maxKeys
  <2>1. ~(Len(listing.page) >= listing.maxKeys)
    BY DEF ListingInv, CursorOK, Full
  <2>2. Len(listing.page) \in Nat
    BY <1>7, LenProperties
  <2> QED
    BY <1>7, <2>1, <2>2
<1>14. /\ (Len(l.page) = Len(listing.page) + 1 /\ l.page[Len(l.page)] = item) \/ l.page = listing.page
       /\ Range(listing.page) \subseteq Range(l.page) /\ Range(l.page) \subseteq Range(listing.page) \cup {item}
       /\ l.page = Append(listing.page, item) => item \in Range(l.page)
       /\ \A i \in DOMAIN l.page : (i \in DOMAIN listing.page /\ l.page[i] = listing.page[i])
                                 \/ (l.page = Append(listing.page, item) /\ l.page[i] = item)
       /\ Ascending(listing.page) /\ (\A i \in DOMAIN listing.page : Before(listing.page[i].name, item.name))
             => Ascending(l.page)
  <2>1. item \in Item /\ listing.page \in Seq(Item)
    BY <1>4, <1>7
  <2>2. Grows(listing.page, item, l.page)
    BY <1>9, <2>1, PageGrows
  <2> QED
    BY <2>2, Zenon DEF Grows
<1>15. Range(l.page) \subseteq Range(listing.page) \cup {item} /\ Range(listing.page) \subseteq Range(l.page)
  BY <1>14
<1>16. Before(listing.floor, item.name) => item \in Range(l.page)
  BY <1>6, <1>14
<1>17. ListingTypeOK'
  <2>1. Len(listing'.page) <= listing'.maxKeys
    BY <1>7, <1>9, <1>10, <1>13, <1>14 DEF SameRequest
  <2> QED
    BY <1>0, <1>1, <1>10, <1>11, <2>1 DEF ListingTypeOK
\* The key lies behind the bounds and the names on the page before it.
<1>18. Before(listing.floor, key) /\ UpTo(item.name, key)
  <2>1. UpTo(listing.floor, listing.lower) /\ (listing.inclusive => Before(listing.floor, listing.lower))
    BY DEF ListingInv, BoundsOrdered, Behind
  <2>2. UpTo(item.name, key)
    BY <1>0, <1>4, AskedItem
  <2> QED
    BY <1>7, <1>8, <2>1, <2>2, OrderFacts DEF InBound, Behind
<1>19. \A i \in DOMAIN listing.page : listing.page[i].name \in String /\ Before(listing.page[i].name, key)
  <2> TAKE i \in DOMAIN listing.page
  <2>1. listing.page[i].name \in String
    BY <1>7, NamesAreStrings
  <2>2. Behind(listing.page[i].name, listing)
    BY DEF ListingInv, BoundsOrdered
  <2> QED
    BY <1>7, <1>8, <2>1, <2>2, OrderFacts DEF InBound, Behind
<1>20. \A name \in String : UpTo(name, key) => Behind(name, l)
  BY <1>4, <1>7, <1>8, OrderFacts DEF Behind
<1>21. BoundsOrdered'
  <2>1. Ascending(l.page)
    BY <1>6, <1>14 DEF ListingInv, BoundsOrdered
  <2>2. \A i \in DOMAIN listing.page : /\ Before(listing.floor, listing.page[i].name)
                                       /\ Behind(listing.page[i].name, l)
    BY <1>19, <1>20 DEF ListingInv, BoundsOrdered, UpTo
  <2>3. Behind(item.name, l)
    BY <1>4, <1>18, <1>20
  <2>4. \A i \in DOMAIN l.page : \/ i \in DOMAIN listing.page /\ l.page[i] = listing.page[i]
                                 \/ l.page[i] = item /\ Before(listing.floor, item.name)
    BY <1>6, <1>14
  <2>5. \A i \in DOMAIN l.page : /\ Before(listing.floor, l.page[i].name)
                                 /\ Behind(l.page[i].name, l)
    BY <2>2, <2>3, <2>4
  <2>6. Before(listing.floor, l.lower)
    BY <1>4, <1>7, <1>8, <1>18, OrderFacts
  <2>7. /\ UpTo(listing.start, listing.floor) /\ Ascending(listed)
        /\ \A i \in DOMAIN listed : UpTo(listed[i].name, listing.floor)
    BY DEF ListingInv, BoundsOrdered
  <2>8. Behind(listing.floor, l)
    BY <2>6 DEF Behind, UpTo
  <2> QED
    BY <1>1, <1>10, <2>1, <2>5, <2>7, <2>8 DEF BoundsOrdered, SameRequest, Behind
<1>22. ItemsExisted'
  <2> SUFFICES ASSUME NEW x \in Range(listed') \cup Range(listing'.page)
               PROVE  \E k \in ever' : Asked(k)' /\ ItemOf(k)' = x
    BY DEF ItemsExisted
  <2>1. x \in Range(listed) \cup Range(listing.page) \/ x = item
    BY <1>1, <1>10, <1>15
  <2>2. \E k \in ever : Asked(k) /\ ItemOf(k) = x
    BY <1>4, <2>1 DEF ListingInv, ItemsExisted
  <2> QED
    BY <1>1, <1>10, <2>2, SameItems
<1>23. BatchSelected'
  <2>1. ASSUME NEW i \in DOMAIN tail
        PROVE  /\ tail[i] \in ever /\ IsPrefix(listing.prefix, tail[i])
               /\ \A j \in DOMAIN tail : i < j => Before(tail[i], tail[j])
    <3>1. \A j \in DOMAIN tail : i < j => i + 1 < j + 1
      BY <1>8
    <3> QED
      BY <1>8, <3>1 DEF ListingInv, BatchSelected
  <2>2. CASE Full(l)
    BY <1>10, <2>2, EmptyIs DEF BatchSelected
  <2>3. CASE ~Full(l)
    BY <1>1, <1>10, <2>1, <2>3 DEF BatchSelected, SameRequest
  <2> QED
    BY <2>2, <2>3
<1>24. CursorOK'
  <2>1. CASE Full(l)
    <3>1. Len(l.page) = Len(listing.page) + 1 /\ l.page[Len(l.page)] = item
      BY <1>7, <1>9, <1>10, <1>12, <1>13, <1>14, <2>1
    <3>2. listing.maxKeys > 0
      BY <1>7, <1>13
    <3> QED
      BY <1>10, <1>11, <1>12, <2>1, <3>1, <3>2 DEF CursorOK, Full, SameRequest
  <2>2. CASE ~Full(l)
    BY <1>10, <1>11, <1>12, <2>2 DEF CursorOK, Full, SameRequest
  <2> QED
    BY <2>1, <2>2
<1>25. KeysKept'
  <2>1. ASSUME NEW k \in always, NEW it, KeptKey(k, it), Asked(k), it = ItemOf(k)
        PROVE  KeptKey(k, it)'
    <3>1. k \in String /\ IsPrefix(listing.prefix, k)
      BY <1>0, <2>1, AskedItem DEF ListingTypeOK
    \* Of the keys ahead, those of the item are passed.
    <3>2. InBound(k, listing.lower, listing.inclusive) => UpTo(key, k)
      <4>1. CASE k \in Range(listing.batch)
        <5>1. \A i \in DOMAIN tail : Before(key, tail[i])
          BY <1>8 DEF ListingInv, BatchSelected
        <5>2. k = key \/ \E i \in DOMAIN tail : k = tail[i]
          BY <1>8, <4>1 DEF Range
        <5> QED
          BY <5>1, <5>2 DEF UpTo
      <4>2. CASE \A i \in DOMAIN listing.batch : Before(listing.batch[i], k)
        BY <1>8, <4>2 DEF UpTo
      <4> QED
        BY <2>1, <4>1, <4>2 DEF KeptKey
    <3>3. ASSUME ~InBound(k, l.lower, l.inclusive), Before(listing.floor, it.name)
          PROVE  it \in Range(l.page)
      <4>1. CASE InBound(k, listing.lower, listing.inclusive)
        <5>1. it = item
          BY <1>5, <2>1, <3>1, <3>2, <3>3, <4>1
        <5> QED
          BY <1>16, <3>3, <5>1
      <4>2. CASE ~InBound(k, listing.lower, listing.inclusive)
        BY <1>15, <2>1, <3>3, <4>2 DEF KeptKey
      <4> QED
        BY <4>1, <4>2
    <3>4. ASSUME InBound(k, l.lower, l.inclusive)
          PROVE  InBound(k, listing.lower, listing.inclusive) /\ k # key
      <4>1. Before(key, k)
        BY <1>4, <1>7, <1>8, <3>1, <3>4, OrderFacts DEF InBound
      <4>2. UpTo(listing.lower, key)
        BY DEF InBound, UpTo
      <4>3. Before(listing.lower, k)
        BY <1>7, <1>8, <3>1, <4>1, <4>2, OrderFacts
      <4> QED
        BY <1>8, <3>1, <4>1, <4>3, OrderFacts DEF InBound
    <3>5. ASSUME InBound(k, l.lower, l.inclusive)
          PROVE  \/ k \in Range(tail)
                 \/ ~listing.last /\ \A i \in DOMAIN tail : Before(tail[i], k)
      <4>1. \/ k \in Range(listing.batch)
            \/ ~listing.last /\ \A i \in DOMAIN listing.batch : Before(listing.batch[i], k)
        BY <2>1, <3>4, <3>5 DEF KeptKey
      <4> QED
        BY <1>8, <3>4, <3>5, <4>1
    <3>6. UpTo(it.name, listing.floor) => it \in Range(listed)
      BY <2>1 DEF KeptKey
    <3> QED
      BY <1>1, <1>10, <3>3, <3>5, <3>6 DEF KeptKey, SameRequest
  <2> QED
    BY <1>1, <1>10, <2>1, KeysKeptStep
<1> QED
  BY <1>17, <1>21, <1>22, <1>23, <1>24, <1>25 DEF ListingInv

\* Taking a key from the batch keeps the invariant.
LEMMA ScanEntryInv ==
    ASSUME ListingInv, ScanEntry PROVE ListingInv'
<1>1. /\ listing.state = "entries" /\ listing.batch # <<>>
      /\ UNCHANGED <<bucket, objects, listed, always, ever, events>>
  BY DEF ScanEntry
<1>2. PICK key : key = Head(listing.batch)
  OBVIOUS
<1>3. PICK common : common = CommonPrefix(key, listing.prefix, listing.delimiter)
  OBVIOUS
<1>4. PICK rest : rest = [listing EXCEPT !.batch = Tail(listing.batch)]
  OBVIOUS
<1>5. PICK l : l = IF common = None THEN WithKey(rest, key)
                   ELSE WithGroup(rest, key, common, KeySuccessor(common))
  OBVIOUS
<1>6. rest = [listing EXCEPT !.batch = Tail(@)]
  BY <1>4
<1>7. \/ ~InBound(key, listing.lower, listing.inclusive) /\ listing' = rest
      \/ /\ InBound(key, listing.lower, listing.inclusive)
         /\ listing' = IF Full(l) THEN [l EXCEPT !.state = "limit", !.batch = <<>>] ELSE l
  BY <1>2, <1>3, <1>5, <1>6 DEF ScanEntry
<1>8. CASE ~InBound(key, listing.lower, listing.inclusive)
  BY <1>1, <1>2, <1>4, <1>7, <1>8, SkipEntryInv
<1>9. CASE InBound(key, listing.lower, listing.inclusive)
  <2>1. PICK item : item = ItemOf(key)
    OBVIOUS
  <2>2. Seen(key, item, l)
    BY <1>1, <1>2, <1>3, <1>4, <1>5, <1>9, <2>1, EntrySeen
  <2>3. Entered(l)
    BY <1>1, <1>7, <1>9, <2>2, EntryEntered DEF Seen
  <2> QED
    BY <1>1, <1>2, <1>9, <2>1, <2>2, <2>3, SeeEntryInv
<1> QED
  BY <1>8, <1>9

\* The request for another page
IsNew(m, q, s, after) ==
    /\ m \in Request /\ m.state = s
    /\ m.prefix = q.prefix /\ m.delimiter = q.delimiter
    /\ m.maxKeys = q.maxKeys /\ m.start = q.start
    /\ m.floor = after /\ m.lower = after /\ m.inclusive = FALSE
    /\ m.batch = <<>> /\ m.page = <<>> /\ m.truncated = FALSE

\* A follow-up request starts where the token says, with an empty page.
LEMMA NewRequest ==
    ASSUME NEW q, q.prefix \in String, q.delimiter \in String, q.maxKeys \in Nat, q.start \in String,
           NEW s \in {"check", "done"}, NEW after \in String
    PROVE  IsNew(PageRequest(q, s, after), q, s, after)
<1>1. <<>> \in Seq(Keys) /\ <<>> \in Seq(Item) /\ None \in String
  BY DEF None, String
<1> QED
  BY <1>1 DEF PageRequest, Request, Ended, IsNew

\* Nothing is behind the end of the page before, and nothing is missing there.
NextPage(s, after) ==
    /\ listing' = PageRequest(listing, s, after) /\ events' \in 0..MaxEvents
    /\ UNCHANGED <<bucket, objects, always, ever>>
    /\ listed' \in Seq(Item) /\ Ascending(listed')
    /\ UpTo(listing.start, after)
    /\ s # "done" => \A i \in DOMAIN listed' : UpTo(listed'[i].name, after)
    /\ Range(listed') \subseteq Range(listed) \cup Range(listing.page)

\* Asking for the next page keeps the invariant.
LEMMA NextPageInv ==
    ASSUME ListingInv, NEW s \in {"check", "done"}, NEW after \in String, NextPage(s, after),
           \A k \in always : \A item :
              /\ item = ItemOf(k) /\ Asked(k) /\ KeptKey(k, item) /\ listing.maxKeys > 0
              /\ s = "done" \/ UpTo(item.name, after)
              => item \in Range(listed')
    PROVE  ListingInv'
<1>0. ListingTypeOK /\ listing \in Request
  BY DEF ListingInv, ListingTypeOK
<1>1. /\ events' \in 0..MaxEvents /\ UNCHANGED <<bucket, objects, always, ever>>
      /\ listed' \in Seq(Item) /\ Ascending(listed')
      /\ UpTo(listing.start, after)
      /\ s # "done" => \A i \in DOMAIN listed' : UpTo(listed'[i].name, after)
      /\ Range(listed') \subseteq Range(listed) \cup Range(listing.page)
  BY DEF NextPage
<1>2. PICK m : m = PageRequest(listing, s, after)
  OBVIOUS
<1>3. /\ m \in Request /\ m.state = s /\ SameRequest(m)
      /\ m.floor = after /\ m.lower = after /\ m.inclusive = FALSE
      /\ m.batch = <<>> /\ m.page = <<>> /\ m.truncated = FALSE
  <2>1. PICK q \in Request : q = listing
    BY <1>0
  <2>2. q.prefix \in String /\ q.delimiter \in String /\ q.maxKeys \in Nat /\ q.start \in String
    BY <2>1, Fields
  <2>3. m = PageRequest(q, s, after)
    BY <1>2, <2>1
  <2>4. IsNew(PageRequest(q, s, after), q, s, after)
    BY <2>2, NewRequest
  <2> QED
    BY <2>1, <2>3, <2>4 DEF SameRequest, IsNew
<1>4. listing' = m
  BY <1>2 DEF NextPage
<1>5. m.maxKeys \in Nat /\ Len(m.page) = 0 /\ DOMAIN m.page = {} /\ Range(m.page) = {} /\ DOMAIN m.batch = {}
  BY <1>3, Fields, EmptyIs
<1>6. ListingTypeOK'
  BY <1>0, <1>1, <1>3, <1>4, <1>5 DEF ListingTypeOK
<1>7. BoundsOrdered'
  <2>1. Behind(m.floor, m)
    BY <1>3 DEF Behind, UpTo
  <2>2. Ascending(m.page)
    BY <1>5 DEF Ascending
  <2> QED
    BY <1>1, <1>3, <1>4, <1>5, <2>1, <2>2 DEF BoundsOrdered, SameRequest
<1>8. ItemsExisted'
  BY <1>1, <1>3, <1>4, <1>5, ItemsExistedStep
<1>9. BatchSelected'
  BY <1>3, <1>4, <1>5 DEF BatchSelected
<1>10. CursorOK'
  BY <1>3, <1>4 DEF CursorOK
<1>11. KeysKept'
  <2>1. ASSUME NEW k \in always, NEW item, KeptKey(k, item), Asked(k), item = ItemOf(k),
               listing.maxKeys > 0
        PROVE  KeptKey(k, item)'
    <3>1. k \in String /\ item.name \in String /\ UpTo(item.name, k)
      BY <1>0, <2>1, AskedItem DEF ListingTypeOK
    <3>2. Before(after, item.name) => InBound(k, after, FALSE)
      BY <3>1, OrderFacts DEF InBound
    <3>3. s = "done" \/ UpTo(item.name, after) => item \in Range(listed')
      BY <2>1
    <3> QED
      BY <1>3, <1>4, <3>2, <3>3 DEF KeptKey
  <2>2. always' \subseteq always
    BY <1>1
  <2> QED
    BY <1>3, <1>4, <2>1, <2>2, KeysKeptStep
<1> QED
  BY <1>6, <1>7, <1>8, <1>9, <1>10, <1>11 DEF ListingInv

\* The names on a page are up to the last of them.
LEMMA LastIsGreatest ==
    ASSUME NEW page \in Seq(Item), Ascending(page), page # <<>>, NEW i \in DOMAIN page
    PROVE  /\ UpTo(page[i].name, page[Len(page)].name)
           /\ Len(page) \in DOMAIN page
<1>1. Len(page) \in Nat \ {0} /\ DOMAIN page = 1..Len(page)
  BY EmptySeq, LenProperties
<1>2. CASE i = Len(page)
  BY <1>1, <1>2 DEF UpTo
<1>3. CASE i < Len(page)
  BY <1>1, <1>3 DEF UpTo, Ascending
<1> QED
  BY <1>1, <1>2, <1>3

\* Receiving a page keeps the invariant.
LEMMA ReceivePageInv ==
    ASSUME ListingInv, ReceivePage PROVE ListingInv'
<1>0. ListingTypeOK /\ listing \in Request
  BY DEF ListingInv, ListingTypeOK
<1>1. /\ listing.state = "page"
      /\ listed' = listed \o listing.page
      /\ UNCHANGED <<bucket, objects, always, ever, events>>
  BY DEF ReceivePage
<1>2. /\ listed \in Seq(Item) /\ listing.page \in Seq(Item) /\ listing.floor \in String
      /\ listing.cursor \in String /\ listing.start \in String /\ listing.maxKeys \in Nat
      /\ listing.truncated \in BOOLEAN /\ listing.inclusive \in BOOLEAN /\ listing.lower \in String
  BY <1>0, Fields DEF ListingTypeOK
<1>3. /\ listed' \in Seq(Item) /\ Range(listed') = Range(listed) \cup Range(listing.page)
      /\ \A i \in DOMAIN listed' : \/ i \in DOMAIN listed /\ listed'[i] = listed[i]
                                   \/ \E j \in DOMAIN listing.page : listed'[i] = listing.page[j]
  <2>1. PICK a \in Seq(Item), b \in Seq(Item) : a = listed /\ b = listing.page
    BY <1>2
  <2>2. Joined(a \o b, a, b)
    BY ConcatIs
  <2>3. Joined(listed', a, b)
    BY <1>1, <2>1, <2>2
  <2> QED
    BY <2>1, <2>3 DEF Joined
<1>4. Ascending(listed')
  <2>1. Ascending(Shown)
    BY InvInOrder DEF ListedInOrder, Ascending
  <2> QED
    BY <1>1, <2>1 DEF Shown
<1>5. /\ UpTo(listing.start, listing.floor)
      /\ \A i \in DOMAIN listed : UpTo(listed[i].name, listing.floor)
      /\ \A i \in DOMAIN listing.page : Before(listing.floor, listing.page[i].name)
                                        /\ Behind(listing.page[i].name, listing)
      /\ Ascending(listing.page)
  BY <1>1 DEF ListingInv, BoundsOrdered
<1>6. events' \in 0..MaxEvents
  BY <1>0, <1>1 DEF ListingTypeOK
<1>7. CASE ~listing.truncated
  <2>1. listing' = PageRequest(listing, "done", listing.floor)
    BY <1>7 DEF ReceivePage
  <2>2. NextPage("done", listing.floor)
    BY <1>1, <1>3, <1>4, <1>5, <1>6, <2>1 DEF NextPage
  <2>3. ASSUME NEW k \in always, NEW item, KeptKey(k, item)
        PROVE  item \in Range(listed')
    BY <1>1, <1>3, <1>7, <2>3 DEF KeptKey
  <2> QED
    BY <1>2, <2>2, <2>3, NextPageInv
<1>8. CASE listing.truncated
  <2>1. listing' = PageRequest(listing, "check", listing.cursor)
    BY <1>8 DEF ReceivePage
  <2>2. /\ Len(listing.page) >= listing.maxKeys /\ listing.maxKeys > 0
        /\ listing.cursor = listing.page[Len(listing.page)].name
    BY <1>8 DEF ListingInv, CursorOK, Full
  <2>3. listing.page # <<>>
    BY <1>2, <2>2, EmptyIs
  <2>4. /\ Len(listing.page) \in DOMAIN listing.page
        /\ \A i \in DOMAIN listing.page : UpTo(listing.page[i].name, listing.cursor)
    <3>1. PICK page \in Seq(Item) : page = listing.page
      BY <1>2
    <3>2. page # <<>> /\ Ascending(page)
      BY <1>5, <2>3, <3>1
    <3>3. \A i \in DOMAIN page : UpTo(page[i].name, page[Len(page)].name) /\ Len(page) \in DOMAIN page
      BY <3>2, LastIsGreatest
    <3>4. DOMAIN page # {}
      <4>1. Len(page) \in Nat \ {0} /\ DOMAIN page = 1..Len(page)
        BY <3>2, EmptySeq, LenProperties
      <4>2. 1 \in DOMAIN page
        BY <4>1
      <4> QED
        BY <4>2
    <3> QED
      BY <2>2, <3>1, <3>3, <3>4
  <2>5. PICK last \in Item : last = listing.page[Len(listing.page)] /\ listing.cursor = last.name
    BY <1>2, <2>2, <2>4, NamesAreStrings
  <2>6. /\ Before(listing.floor, listing.cursor)
        /\ Behind(listing.cursor, listing)
    BY <1>5, <2>2, <2>4
  <2>7. UpTo(listing.start, listing.cursor)
    BY <1>2, <1>5, <2>6, OrderFacts DEF UpTo
  <2>8. \A i \in DOMAIN listed' : UpTo(listed'[i].name, listing.cursor)
    <3> TAKE i \in DOMAIN listed'
    <3>1. CASE i \in DOMAIN listed /\ listed'[i] = listed[i]
      <4>1. listed[i].name \in String
        BY <1>2, <3>1, NamesAreStrings
      <4>2. UpTo(listed[i].name, listing.floor)
        BY <1>5, <3>1
      <4>3. UpTo(listed[i].name, listing.cursor)
        BY <1>2, <2>6, <4>1, <4>2, OrderFacts DEF UpTo
      <4> QED
        BY <3>1, <4>3
    <3>2. CASE \E j \in DOMAIN listing.page : listed'[i] = listing.page[j]
      BY <2>4, <3>2
    <3> QED
      BY <1>3, <3>1, <3>2
  <2>9. NextPage("check", listing.cursor)
    BY <1>1, <1>3, <1>4, <1>6, <2>1, <2>7, <2>8 DEF NextPage
  \* A key whose item is up to the cursor is on the page or was on an earlier one.
  <2>10. ASSUME NEW k \in always, NEW item, item = ItemOf(k), Asked(k), KeptKey(k, item),
                UpTo(item.name, listing.cursor)
         PROVE  item \in Range(listed')
    <3>1. /\ k \in String /\ IsPrefix(listing.prefix, k) /\ item \in Item
          /\ item.name \in String /\ UpTo(item.name, k)
      BY <1>0, <2>10, AskedItem DEF ListingTypeOK
    <3>2. CASE UpTo(item.name, listing.floor)
      BY <1>1, <1>3, <2>10, <3>2 DEF KeptKey
    <3>3. CASE Before(listing.floor, item.name) /\ ~InBound(k, listing.lower, listing.inclusive)
      BY <1>3, <2>10, <3>3 DEF KeptKey
    <3>4. CASE InBound(k, listing.lower, listing.inclusive)
      \* The cursor lies between the name of the item and the key.
      <4>1. Before(listing.cursor, k)
        BY <1>2, <2>6, <3>1, <3>4, OrderFacts DEF InBound, Behind
      <4>2. item.name # k
        BY <1>2, <2>10, <3>1, <4>1, OrderFacts
      <4>3. PICK common : common = CommonPrefix(k, listing.prefix, listing.delimiter)
        OBVIOUS
      <4>4. common # None /\ item = Group(common) /\ item.name = common
        BY <2>10, <4>2, <4>3 DEF ItemOf, Key, Group
      <4>5. IsPrefix(common, k)
        BY <1>0, <3>1, <4>3, <4>4, Fields, CommonPrefixBetween
      <4>6. IsPrefix(common, listing.cursor)
        BY <1>2, <2>10, <3>1, <4>1, <4>4, <4>5, BetweenExtends DEF UpTo
      <4>7. last \in Range(listing.page)
        BY <2>4, <2>5 DEF Range
      <4>8. PICK n \in ever : Asked(n) /\ ItemOf(n) = last
        BY <4>7 DEF ListingInv, ItemsExisted
      <4>9. n \in String /\ IsPrefix(listing.prefix, n)
        BY <1>0, <4>8, AskedItem
      <4>10. ItemIn(listing.prefix, listing.delimiter, n) = last
        BY <4>8, ItemOfIs
      <4>11. IsPrefix(common, ItemIn(listing.prefix, listing.delimiter, n).name)
        BY <2>5, <4>6, <4>10
      <4>12. listing.prefix \in String /\ listing.delimiter \in String
        BY <1>0, Fields
      <4>13. ItemIn(listing.prefix, listing.delimiter, n) = Group(common)
        BY <3>1, <4>3, <4>4, <4>9, <4>11, <4>12, GroupTakes
      <4> QED
        BY <1>3, <4>4, <4>7, <4>10, <4>13
    <3>5. UpTo(item.name, listing.floor) \/ Before(listing.floor, item.name)
      BY <1>2, <3>1, OrderFacts
    <3> QED
      BY <3>2, <3>3, <3>4, <3>5
  <2>11. \A k \in always : \A item :
            /\ item = ItemOf(k) /\ Asked(k) /\ KeptKey(k, item)
            /\ UpTo(item.name, listing.cursor)
            => item \in Range(listed')
    BY <2>10
  <2>12. PICK after \in String : after = listing.cursor
    BY <1>2
  <2>13. NextPage("check", after)
    BY <2>9, <2>12
  <2>14. \A k \in always : \A item :
            /\ item = ItemOf(k) /\ Asked(k) /\ KeptKey(k, item)
            /\ UpTo(item.name, after)
            => item \in Range(listed')
    BY <2>11, <2>12
  <2> QED
    BY <2>13, <2>14, NextPageInv
<1> QED
  BY <1>2, <1>7, <1>8

\* Losing a page and asking again keeps the invariant.
LEMMA LosePageInv ==
    ASSUME ListingInv, LosePage PROVE ListingInv'
<1>0. ListingTypeOK /\ listing \in Request
  BY DEF ListingInv, ListingTypeOK
<1>1. /\ listing.state = "page" /\ events < MaxEvents /\ events' = events + 1
      /\ listing' = PageRequest(listing, "check", listing.floor)
      /\ UNCHANGED <<bucket, objects, listed, always, ever>>
  BY DEF LosePage
<1>2. PICK after \in String : after = listing.floor
  BY <1>0, Fields
<1>3. events' \in 0..MaxEvents /\ listed' \in Seq(Item)
  BY <1>0, <1>1, CharAssumption DEF ListingTypeOK
<1>4. /\ UpTo(listing.start, listing.floor) /\ Ascending(listed)
      /\ \A i \in DOMAIN listed : UpTo(listed[i].name, listing.floor)
  BY <1>1 DEF ListingInv, BoundsOrdered
<1>5. NextPage("check", after)
  BY <1>1, <1>2, <1>3, <1>4 DEF NextPage
<1>6. \A k \in always : \A item :
         KeptKey(k, item) /\ UpTo(item.name, after) => item \in Range(listed')
  BY <1>1, <1>2 DEF KeptKey
<1> QED
  BY <1>5, <1>6, NextPageInv

\* Writes of others leave the request and its pages alone.
LEMMA OthersInv ==
    ASSUME ListingInv, UNCHANGED <<listing, listed>>, events' \in 0..MaxEvents,
           bucket' \in BOOLEAN, IsFiniteSet(objects'), always' \subseteq always,
           always' \subseteq objects', objects' \subseteq ever', ever \subseteq ever',
           ever' \subseteq Keys
    PROVE  ListingInv'
<1>0. ListingTypeOK
  BY DEF ListingInv
<1>1. SameRequest(listing')
  BY DEF SameRequest
<1>2. ListingTypeOK'
  BY <1>0 DEF ListingTypeOK, Full
<1>3. BoundsOrdered'
  BY DEF ListingInv, BoundsOrdered, Behind, Ascending
<1>4. ItemsExisted'
  BY <1>1, ItemsExistedStep
<1>5. BatchSelected'
  BY DEF ListingInv, BatchSelected
<1>6. CursorOK'
  BY DEF ListingInv, CursorOK, Full
<1>7. KeysKept'
  <2>1. ASSUME NEW k \in always, NEW item, KeptKey(k, item) PROVE KeptKey(k, item)'
    BY <2>1 DEF KeptKey
  <2> QED
    BY <1>1, <2>1, KeysKeptStep
<1> QED
  BY <1>2, <1>3, <1>4, <1>5, <1>6, <1>7 DEF ListingInv

\* Objects written and removed meanwhile keep the invariant.
LEMMA MeanwhileInv ==
    ASSUME ListingInv,
           \/ \E k \in Keys : PutKey(k) \/ DeleteKey(k)
           \/ DeleteEmptyBucket \/ RecreateBucket
    PROVE  ListingInv'
<1>0. ListingTypeOK
  BY DEF ListingInv
<1>1. /\ bucket \in BOOLEAN /\ IsFiniteSet(objects) /\ objects \subseteq Keys /\ events \in 0..MaxEvents
      /\ always \subseteq objects /\ objects \subseteq ever /\ ever \subseteq Keys
  BY <1>0 DEF ListingTypeOK
<1>2. ASSUME Meanwhile PROVE UNCHANGED <<listing, listed>> /\ events' \in 0..MaxEvents
  BY <1>1, <1>2, CharAssumption DEF Meanwhile
<1>3. CASE \E k \in Keys : PutKey(k)
  <2>1. PICK k \in Keys : PutKey(k)
    BY <1>3
  <2>2. /\ Meanwhile /\ objects' = objects \cup {k} /\ ever' = ever \cup {k}
        /\ bucket' = bucket /\ always' = always
    BY <2>1 DEF PutKey
  <2>3. IsFiniteSet(objects')
    BY <1>1, <2>2, FS_AddElement
  <2>4. /\ bucket' \in BOOLEAN /\ always' \subseteq always /\ always' \subseteq objects'
        /\ objects' \subseteq ever' /\ ever \subseteq ever' /\ ever' \subseteq Keys
    BY <1>1, <2>2
  <2> QED
    BY <1>2, <2>2, <2>3, <2>4, OthersInv
<1>4. CASE \E k \in Keys : DeleteKey(k)
  <2>1. PICK k \in Keys : DeleteKey(k)
    BY <1>4
  <2>2. /\ Meanwhile /\ objects' = objects \ {k} /\ always' = always \ {k}
        /\ bucket' = bucket /\ ever' = ever
    BY <2>1 DEF DeleteKey
  <2>3. IsFiniteSet(objects')
    BY <1>1, <2>2, FS_RemoveElement
  <2>4. /\ bucket' \in BOOLEAN /\ always' \subseteq always /\ always' \subseteq objects'
        /\ objects' \subseteq ever' /\ ever \subseteq ever' /\ ever' \subseteq Keys
    BY <1>1, <2>2
  <2> QED
    BY <1>2, <2>2, <2>3, <2>4, OthersInv
<1>5. CASE DeleteEmptyBucket \/ RecreateBucket
  <2>1. /\ Meanwhile /\ bucket' \in BOOLEAN
        /\ objects' = objects /\ always' = always /\ ever' = ever
    BY <1>5 DEF DeleteEmptyBucket, RecreateBucket
  <2> QED
    BY <1>1, <1>2, <2>1, OthersInv
<1> QED
  BY <1>3, <1>4, <1>5

-----------------------------------------------------------------------------
(* The theorems *)

\* Every first request satisfies the invariant.
LEMMA ListInitInv == ListInit => ListingInv
<1> SUFFICES ASSUME ListInit PROVE ListingInv
  OBVIOUS
<1>1. PICK q \in Query : listing = PageRequest(q, "check", q.start)
  BY DEF ListInit
<1>2. q.prefix \in String /\ q.delimiter \in String /\ q.maxKeys \in Nat /\ q.start \in String
  BY QueryAssumption
<1>3. PICK m : m = PageRequest(q, "check", q.start)
  OBVIOUS
<1>4. /\ m \in Request /\ m.state = "check" /\ m.start = q.start
      /\ m.floor = q.start /\ m.lower = q.start /\ m.inclusive = FALSE
      /\ m.batch = <<>> /\ m.page = <<>> /\ m.truncated = FALSE /\ m.maxKeys = q.maxKeys
  <2>1. q.start \in String /\ "check" \in {"check", "done"}
    BY <1>2
  <2>2. IsNew(PageRequest(q, "check", q.start), q, "check", q.start)
    BY <1>2, <2>1, NewRequest
  <2> QED
    BY <1>3, <2>2 DEF IsNew
<1>5. listing = m
  BY <1>1, <1>3
<1>6. /\ bucket = TRUE /\ objects \subseteq Keys /\ IsFiniteSet(objects) /\ listed = <<>>
      /\ always = objects /\ ever = objects /\ events = 0
  BY DEF ListInit
<1>7. /\ DOMAIN <<>> = {} /\ Range(<<>>) = {} /\ Len(<<>>) = 0
      /\ <<>> \in Seq(Item)
  BY EmptyIs
<1>8. ListingTypeOK
  BY <1>2, <1>4, <1>5, <1>6, <1>7, CharAssumption DEF ListingTypeOK
<1>9. BoundsOrdered
  <2>1. Ascending(<<>>)
    BY <1>7 DEF Ascending
  <2> QED
    BY <1>4, <1>5, <1>6, <1>7, <2>1 DEF BoundsOrdered, Behind, UpTo
<1>10. ItemsExisted
  BY <1>4, <1>5, <1>6, <1>7 DEF ItemsExisted
<1>11. BatchSelected
  BY <1>4, <1>5, <1>7 DEF BatchSelected
<1>12. CursorOK
  BY <1>4, <1>5 DEF CursorOK
<1>13. KeysKept
  <2> SUFFICES ASSUME NEW k \in always, Asked(k), Before(listing.start, ItemOf(k).name)
               PROVE  KeptKey(k, ItemOf(k))
    BY DEF KeysKept
  <2>1. PICK item : item = ItemOf(k)
    OBVIOUS
  <2>2. k \in ever
    BY <1>6
  <2>3. k \in String /\ item.name \in String /\ UpTo(item.name, k)
    BY <1>8, <2>1, <2>2, AskedItem
  <2>4. Before(m.start, item.name)
    BY <1>5, <2>1
  <2>5. ~UpTo(item.name, m.floor) /\ InBound(k, m.lower, m.inclusive)
    BY <1>2, <1>4, <2>3, <2>4, OrderFacts DEF InBound
  <2>6. KeptKey(k, item)
    BY <1>4, <1>5, <2>5 DEF KeptKey
  <2> QED
    BY <2>1, <2>6
<1> QED
  BY <1>8, <1>9, <1>10, <1>11, <1>12, <1>13 DEF ListingInv

\* Every step keeps it.
LEMMA ListNextInv == ListingInv /\ [ListNext]_listVars => ListingInv'
<1> SUFFICES ASSUME ListingInv, [ListNext]_listVars PROVE ListingInv'
  OBVIOUS
<1>1. CASE CheckBucket
  BY <1>1, CheckBucketInv
<1>2. CASE ScanBatch
  BY <1>2, ScanBatchInv
<1>3. CASE ScanEntry
  BY <1>3, ScanEntryInv
<1>4. CASE EndBatch
  BY <1>4, EndBatchInv
<1>5. CASE CheckTruncated
  BY <1>5, CheckTruncatedInv
<1>6. CASE ReceivePage
  BY <1>6, ReceivePageInv
<1>7. CASE LosePage
  BY <1>7, LosePageInv
<1>8. CASE (\E k \in Keys : PutKey(k) \/ DeleteKey(k)) \/ DeleteEmptyBucket \/ RecreateBucket
  BY <1>8, MeanwhileInv
<1>9. CASE UNCHANGED listVars
  <2>1. ListingTypeOK
    BY DEF ListingInv
  <2> QED
    BY <1>9, <2>1, OthersInv DEF listVars, ListingTypeOK
<1> QED
  BY <1>1, <1>2, <1>3, <1>4, <1>5, <1>6, <1>7, <1>8, <1>9 DEF ListNext, PageSteps

\* The invariant of a listing, whatever the keys, the query, the batch size
\* and the writes of others: the pages are put together from one consistent
\* cursor (list_objects, 'scan).
THEOREM ListingInvariant == ListSpec => []ListingInv
<1>1. ListInit => ListingInv
  BY ListInitInv
<1>2. ListingInv /\ [ListNext]_listVars => ListingInv'
  BY ListNextInv
<1> QED
  BY <1>1, <1>2, PTL DEF ListSpec

\* Over all pages nothing is listed twice or out of order.
THEOREM PagesInOrder == ListSpec => []ListedInOrder
<1>1. ListingInv => ListedInOrder
  BY InvInOrder
<1> QED
  BY <1>1, ListingInvariant, PTL

\* A key that stays in the bucket is not missed.
THEOREM StableKeysAreListed == ListSpec => []StableKeysListed
<1>1. ListingInv => StableKeysListed
  BY InvStable
<1> QED
  BY <1>1, ListingInvariant, PTL

\* What is listed existed while the listing went on.
THEOREM ListedKeysExisted == ListSpec => []ListedExisted
<1>1. ListingInv => ListedExisted
  BY InvExisted
<1> QED
  BY <1>1, ListingInvariant, PTL

-----------------------------------------------------------------------------
(* Every page, and every round of a page, goes further than the one before. *)

\* What a step shows of it
Forward ==
    /\ listed' # listed /\ listing'.state # "done" => Before(listing.floor, listing'.floor)
    /\ listing.state = "entries" /\ listing.batch # <<>> =>
         ~InBound(Head(listing.batch), listing'.lower, listing'.inclusive)
    /\ listing'.state \notin {"check", "done"} =>
         \A k \in Keys : InBound(k, listing'.lower, listing'.inclusive)
                            => InBound(k, listing.lower, listing.inclusive)

\* The bounds pass the key that was gone through, and never go back.
LEMMA EntryForward == ASSUME ListingInv, ScanEntry PROVE Forward
<1>0. ListingTypeOK /\ listing \in Request
  BY DEF ListingInv, ListingTypeOK
<1>1. /\ listing.state = "entries" /\ listing.batch # <<>> /\ listed' = listed
      /\ listing.lower \in String /\ listing.batch \in Seq(Keys)
  BY <1>0, Fields DEF ScanEntry
<1>2. PICK key : key = Head(listing.batch)
  OBVIOUS
<1>3. key \in String
  BY <1>1, <1>2, HeadTailAre, KeysAssumption
<1>4. PICK common : common = CommonPrefix(key, listing.prefix, listing.delimiter)
  OBVIOUS
<1>5. PICK rest : rest = [listing EXCEPT !.batch = Tail(@)]
  OBVIOUS
<1>6. PICK l : l = IF common = None THEN WithKey(rest, key)
                   ELSE WithGroup(rest, key, common, KeySuccessor(common))
  OBVIOUS
<1>7. \/ ~InBound(key, listing.lower, listing.inclusive) /\ listing' = rest
      \/ /\ InBound(key, listing.lower, listing.inclusive)
         /\ listing' = IF Full(l) THEN [l EXCEPT !.state = "limit", !.batch = <<>>] ELSE l
  BY <1>2, <1>4, <1>5, <1>6 DEF ScanEntry
<1>8. CASE ~InBound(key, listing.lower, listing.inclusive)
  <2>1. listing'.lower = listing.lower /\ listing'.inclusive = listing.inclusive
    BY <1>0, <1>5, <1>7, <1>8 DEF Request
  <2> QED
    BY <1>1, <1>2, <1>8, <2>1 DEF Forward
<1>9. CASE InBound(key, listing.lower, listing.inclusive)
  <2>1. PICK item : item = ItemOf(key)
    OBVIOUS
  <2>2. rest = [listing EXCEPT !.batch = Tail(listing.batch)]
    BY <1>5
  <2>3. Seen(key, item, l)
    BY <1>1, <1>2, <1>4, <1>6, <1>9, <2>1, <2>2, EntrySeen
  <2>4. /\ l \in Request /\ l.lower \in String
        /\ UpTo(key, l.lower) /\ (l.inclusive => Before(key, l.lower))
    BY <2>3, Fields DEF Seen
  <2>5. listing'.lower = l.lower /\ listing'.inclusive = l.inclusive
    BY <1>7, <1>9, <2>4 DEF Request
  \* What is still in bound is behind the key, and so behind the bound it had.
  <2>6. \A k \in String : InBound(k, l.lower, l.inclusive) => Before(key, k)
    BY <1>3, <2>4, OrderFacts DEF InBound
  <2>7. ~InBound(key, l.lower, l.inclusive)
    BY <1>3, <2>6, OrderFacts
  <2>8. \A k \in String : Before(key, k) => InBound(k, listing.lower, listing.inclusive)
    BY <1>1, <1>3, <1>9, OrderFacts DEF InBound
  <2> QED
    BY <1>1, <1>2, <2>5, <2>6, <2>7, <2>8, KeysAssumption DEF Forward
<1> QED
  BY <1>8, <1>9

\* The cursor of a full page is its last name, which is behind the floor.
LEMMA PageForward == ASSUME ListingInv, ReceivePage PROVE Forward
<1>0. ListingTypeOK /\ listing \in Request
  BY DEF ListingInv, ListingTypeOK
<1>1. listing.state = "page" /\ listing.page \in Seq(Item) /\ listing.maxKeys \in Nat
  BY <1>0, Fields DEF ReceivePage
<1>2. CASE ~listing.truncated
  <2>1. listing'.state = "done"
    BY <1>2 DEF ReceivePage, PageRequest
  <2> QED
    BY <1>1, <2>1 DEF Forward
<1>3. CASE listing.truncated
  <2>1. listing'.state = "check" /\ listing'.floor = listing.cursor
    BY <1>3 DEF ReceivePage, PageRequest
  <2>2. /\ Len(listing.page) >= listing.maxKeys /\ listing.maxKeys > 0
        /\ listing.cursor = listing.page[Len(listing.page)].name
    BY <1>3 DEF ListingInv, CursorOK, Full
  <2>3. Len(listing.page) \in DOMAIN listing.page
    <3>1. PICK page \in Seq(Item) : page = listing.page
      BY <1>1
    <3>2. Len(page) \in Nat \ {0} /\ DOMAIN page = 1..Len(page)
      BY <1>1, <2>2, <3>1, LenProperties
    <3>3. Len(page) \in DOMAIN page
      BY <3>2
    <3> QED
      BY <3>1, <3>3
  <2>4. Before(listing.floor, listing.cursor)
    BY <2>2, <2>3 DEF ListingInv, BoundsOrdered
  <2> QED
    BY <1>1, <2>1, <2>4 DEF Forward
<1> QED
  BY <1>2, <1>3

\* A listing goes forward from page to page and from round to round, whatever
\* others write meanwhile: neither the client nor the loop of list_objects can
\* go through the same keys again and again.
THEOREM ListingGoesForward == ListSpec => ListingAdvances
<1>1. ListingInv /\ [ListNext]_listVars => [Forward]_listVars
  <2> SUFFICES ASSUME ListingInv, ListNext PROVE Forward
    OBVIOUS
  <2>1. CASE CheckBucket \/ ScanBatch \/ EndBatch \/ CheckTruncated
    <3>1. listing \in Request /\ ~(listing.state = "entries" /\ listing.batch # <<>>)
      BY <2>1 DEF CheckBucket, ScanBatch, EndBatch, CheckTruncated, ListingInv, ListingTypeOK
    <3>2. /\ listed' = listed
          /\ listing'.lower = listing.lower /\ listing'.inclusive = listing.inclusive
      BY <2>1, <3>1 DEF CheckBucket, ScanBatch, EndBatch, CheckTruncated, Request
    <3> QED
      BY <3>1, <3>2 DEF Forward
  <2>2. CASE ScanEntry
    BY <2>2, EntryForward
  <2>3. CASE ReceivePage
    BY <2>3, PageForward
  <2>4. CASE LosePage
    BY <2>4 DEF LosePage, PageRequest, Forward
  <2>5. CASE (\E k \in Keys : PutKey(k) \/ DeleteKey(k)) \/ DeleteEmptyBucket \/ RecreateBucket
    <3>1. Meanwhile
      BY <2>5 DEF PutKey, DeleteKey, DeleteEmptyBucket, RecreateBucket
    <3> QED
      BY <3>1 DEF Meanwhile, Forward
  <2> QED
    BY <2>1, <2>2, <2>3, <2>4, <2>5 DEF ListNext, PageSteps
<1> QED
  BY <1>1, ListingInvariant, PTL DEF ListSpec, ListingAdvances, Forward

==============================================================================
