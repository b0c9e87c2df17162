------------------------------ MODULE ListFacts ------------------------------
(***************************************************************************)
(* Facts about the lists and the minima the modules use, as far as the     *)
(* proofs need them: what push_back, erase and a search with std::find do  *)
(* to the elements of a std::list.                                         *)
(***************************************************************************)
EXTENDS Integers, Sequences, SequencesExt, TLAPS, WellFoundedInduction

\* A non-empty set of natural numbers has a smallest element, and Min is it.
LEMMA MinNat ==
    ASSUME NEW S, S \subseteq Nat, S # {}
    PROVE  Min(S) \in S /\ \A y \in S : Min(S) <= y
<1>1. PICK x \in S : \A y \in S : ~(<<y, x>> \in OpToRel(<, Nat))
  BY WFMin, NatLessThanWellFounded
<1>2. \A a, b \in Nat : a < b => <<a, b>> \in OpToRel(<, Nat)
  BY DEF OpToRel
<1>3. \A y \in S : x <= y
  <2> SUFFICES ASSUME NEW y \in S PROVE x <= y
    OBVIOUS
  <2>1. x \in Nat /\ y \in Nat
    OBVIOUS
  <2>2. ~(y < x)
    BY <1>1, <1>2, <2>1, Zenon
  <2> QED BY <2>1, <2>2
<1> QED
  BY <1>3 DEF Min

-----------------------------------------------------------------------------
(* Lists *)

\* push_back: one element more, at the end.
LEMMA AppendFacts ==
    ASSUME NEW S, NEW s \in Seq(S), NEW e \in S
    PROVE  /\ Append(s, e) \in Seq(S)
           /\ ToSet(Append(s, e)) = ToSet(s) \cup {e}
           /\ IsInjective(s) /\ e \notin ToSet(s) => IsInjective(Append(s, e))
<1>1. Append(s, e) \in Seq(S)
  OBVIOUS
<1>2. DOMAIN Append(s, e) = 1 .. Len(s) + 1 /\ DOMAIN s = 1 .. Len(s) /\ Len(s) \in Nat
  OBVIOUS
<1>3. \A i \in 1 .. Len(s) : Append(s, e)[i] = s[i]
  OBVIOUS
<1>4. Append(s, e)[Len(s) + 1] = e
  OBVIOUS
<1>5. ToSet(Append(s, e)) = ToSet(s) \cup {e}
  BY <1>2, <1>3, <1>4 DEF ToSet
<1>6. IsInjective(s) /\ e \notin ToSet(s) => IsInjective(Append(s, e))
  BY <1>2, <1>3, <1>4 DEF ToSet, IsInjective
<1> QED
  BY <1>1, <1>5, <1>6

\* erase: one element less, the others in their order.
LEMMA RemoveAtFacts ==
    ASSUME NEW S, NEW s \in Seq(S), NEW n \in 1 .. Len(s)
    PROVE  /\ RemoveAt(s, n) \in Seq(S)
           /\ IsInjective(s) => /\ ToSet(RemoveAt(s, n)) = ToSet(s) \ {s[n]}
                                /\ IsInjective(RemoveAt(s, n))
<1> DEFINE a == SubSeq(s, 1, n - 1)
           b == SubSeq(s, n + 1, Len(s))
           r == RemoveAt(s, n)
<1>1. a \in Seq(S) /\ b \in Seq(S) /\ Len(a) = n - 1 /\ Len(b) = Len(s) - n
  OBVIOUS
<1>r. r = a \o b /\ Len(s) \in Nat
  BY DEF RemoveAt
<1>s. /\ \A i \in 1 .. n - 1 : a[i] = s[i]
      /\ \A i \in 1 .. Len(s) - n : b[i] = s[i + n]
  OBVIOUS
<1> HIDE DEF a, b, r
<1>2. r \in Seq(S) /\ Len(r) = Len(s) - 1
  <2>1. a \o b \in Seq(S) /\ Len(a \o b) = Len(a) + Len(b)
    BY <1>1
  <2> QED BY <1>1, <1>r, <2>1
<1>3. \A i \in 1 .. Len(s) - 1 : r[i] = IF i < n THEN s[i] ELSE s[i + 1]
  BY <1>1, <1>r, <1>s
<1>4. DOMAIN r = 1 .. Len(s) - 1 /\ DOMAIN s = 1 .. Len(s) /\ Len(s) \in Nat
  BY <1>2
<1>i. ASSUME IsInjective(s) PROVE \A i, j \in 1 .. Len(s) : s[i] = s[j] => i = j
  BY <1>4, <1>i DEF IsInjective
<1>5. ASSUME IsInjective(s) PROVE IsInjective(r)
  <2> SUFFICES ASSUME NEW i \in 1 .. Len(s) - 1, NEW j \in 1 .. Len(s) - 1, r[i] = r[j]
               PROVE  i = j
    BY <1>4 DEF IsInjective
  <2>1. i \in 1 .. Len(s) /\ i + 1 \in 1 .. Len(s) /\ j \in 1 .. Len(s) /\ j + 1 \in 1 .. Len(s)
    BY <1>4
  <2>2. CASE i < n /\ j < n
    BY <1>3, <1>5, <1>i, <2>1, <2>2
  <2>3. CASE i < n /\ ~(j < n)
    BY <1>3, <1>5, <1>i, <2>1, <2>3
  <2>4. CASE ~(i < n) /\ j < n
    BY <1>3, <1>5, <1>i, <2>1, <2>4
  <2>5. CASE ~(i < n) /\ ~(j < n)
    BY <1>3, <1>5, <1>i, <2>1, <2>5
  <2> QED BY <2>2, <2>3, <2>4, <2>5
<1>6. ASSUME IsInjective(s) PROVE ToSet(r) = ToSet(s) \ {s[n]}
  <2>1. ASSUME NEW x \in ToSet(r) PROVE x \in ToSet(s) \ {s[n]}
    <3>1. PICK i \in 1 .. Len(s) - 1 : x = r[i]
      BY <1>4, <2>1 DEF ToSet
    <3>2. PICK j \in 1 .. Len(s) : x = s[j] /\ j # n
      BY <1>3, <1>4, <3>1
    <3>3. s[j] # s[n]
      BY <1>6, <1>i, <3>2
    <3> QED BY <1>4, <3>2, <3>3 DEF ToSet
  <2>2. ASSUME NEW x \in ToSet(s) \ {s[n]} PROVE x \in ToSet(r)
    <3>1. PICK i \in 1 .. Len(s) : x = s[i] /\ i # n
      BY <1>4 DEF ToSet
    <3>2. CASE i < n
      <4>1. i \in DOMAIN r /\ r[i] = x
        BY <1>3, <1>4, <3>1, <3>2
      <4> QED BY <4>1 DEF ToSet
    <3>3. CASE i > n
      <4>1. i - 1 \in DOMAIN r /\ r[i - 1] = x
        BY <1>3, <1>4, <3>1, <3>3
      <4> QED BY <4>1 DEF ToSet
    <3> QED BY <3>1, <3>2, <3>3
  <2> QED BY <2>1, <2>2
<1> QED
  BY <1>2, <1>5, <1>6 DEF r

\* Whatever erase removes, it brings nothing in.
LEMMA RemoveAtRange ==
    ASSUME NEW S, NEW s \in Seq(S), NEW n \in 1 .. Len(s)
    PROVE  RemoveAt(s, n) \in Seq(S) /\ Range(RemoveAt(s, n)) \subseteq Range(s)
<1> DEFINE a == SubSeq(s, 1, n - 1)
           b == SubSeq(s, n + 1, Len(s))
<1>1. /\ a \in Seq(S) /\ b \in Seq(S) /\ Len(a) = n - 1 /\ Len(b) = Len(s) - n
      /\ \A i \in 1 .. n - 1 : a[i] = s[i]
      /\ \A i \in 1 .. Len(s) - n : b[i] = s[i + n]
  OBVIOUS
<1>2. RemoveAt(s, n) = a \o b /\ Len(s) \in Nat
  BY DEF RemoveAt
<1> HIDE DEF a, b
<1>3. a \o b \in Seq(S) /\ DOMAIN (a \o b) = 1 .. Len(s) - 1
  BY <1>1
<1>4. \A i \in 1 .. Len(s) - 1 : (a \o b)[i] = IF i < n THEN s[i] ELSE s[i + 1]
  BY <1>1
<1>5. \A i \in 1 .. Len(s) - 1 : (a \o b)[i] \in Range(s)
  <2> SUFFICES ASSUME NEW i \in 1 .. Len(s) - 1 PROVE (a \o b)[i] \in Range(s)
    OBVIOUS
  <2>1. DOMAIN s = 1 .. Len(s) /\ i \in DOMAIN s /\ i + 1 \in DOMAIN s
    BY <1>2
  <2> QED BY <1>4, <2>1 DEF Range
<1> QED
  BY <1>2, <1>3, <1>5 DEF Range

\* std::find and erase.
LEMMA RemoveFirstRange ==
    ASSUME NEW S, NEW s \in Seq(S), NEW e
    PROVE  RemoveFirst(s, e) \in Seq(S) /\ Range(RemoveFirst(s, e)) \subseteq Range(s)
<1>1. CASE \E i \in 1 .. Len(s) : s[i] = e
  <2> DEFINE I == {i \in 1 .. Len(s) : s[i] = e}
  <2>1. Min(I) \in 1 .. Len(s)
    <3>1. I \subseteq Nat /\ I # {} /\ I \subseteq 1 .. Len(s)
      BY <1>1
    <3> HIDE DEF I
    <3> QED BY <3>1, MinNat
  <2>2. RemoveFirst(s, e) = RemoveAt(s, Min(I))
    BY <1>1 DEF RemoveFirst, SelectInSeq
  <2> HIDE DEF I
  <2> QED BY <2>1, <2>2, RemoveAtRange
<1>2. CASE ~ \E i \in 1 .. Len(s) : s[i] = e
  BY <1>2 DEF RemoveFirst
<1> QED BY <1>1, <1>2
=============================================================================
