------------------------ MODULE LocalSelectionProofs ------------------------
(***************************************************************************)
(* Proofs about LocalSystem: the lines of a diff that are staged or        *)
(* unstaged.                                                               *)
(***************************************************************************)
EXTENDS LocalSystem, FiniteSetTheorems, TLAPS

-----------------------------------------------------------------------------
(* Finite sets of numbers, listed in order *)

\* The place of i among the elements of S, and S from its first element to its last.
Rank(S, i) == Cardinality({j \in S : j <= i})
Listed(S)  == [k \in 1 .. Cardinality(S) |-> CHOOSE i \in S : Rank(S, i) = k]

\* Every set of naturals that has an element has a least one.
LEMMA Least ==
  ASSUME NEW T \in SUBSET Nat, T # {}
  PROVE  \E x \in T : \A y \in T : x <= y
<1> DEFINE R == {ss \in Nat \X Nat : ss[1] < ss[2]}
<1>1. IsWellFoundedOn(R, Nat)
  BY NatLessThanWellFounded DEF OpToRel
<1>2. PICK x \in T : \A y \in T : ~(<<y, x>> \in R)
  <2> HIDE DEF R
  <2> QED
    BY <1>1, WFMin
<1>3. ASSUME NEW y \in T PROVE x <= y
  <2>1. <<y, x>> \in Nat \X Nat /\ <<y, x>>[1] = y /\ <<y, x>>[2] = x
    OBVIOUS
  <2>2. ~(y < x)
    BY <1>2, <2>1
  <2> QED
    BY <2>2
<1> QED
  BY <1>3

\* The ranks of the elements of S are 1 to the size of S, in order.
LEMMA Ranks ==
  ASSUME NEW S \in SUBSET Nat, IsFiniteSet(S)
  PROVE  /\ Cardinality(S) \in Nat
         /\ \A i \in S : Rank(S, i) \in 1 .. Cardinality(S)
         /\ \A i, j \in S : i < j => Rank(S, i) < Rank(S, j)
         /\ \A k \in 1 .. Cardinality(S) : \E i \in S : Rank(S, i) = k
<1> DEFINE n == Cardinality(S)
           below(i) == {j \in S : j <= i}
<1>0. n \in Nat
  BY FS_CardinalityType
<1>1. ASSUME NEW i \in Nat
      PROVE  IsFiniteSet(below(i)) /\ Rank(S, i) = Cardinality(below(i)) /\ Rank(S, i) \in 0 .. n
  <2>1. below(i) \in SUBSET S
    OBVIOUS
  <2>2. IsFiniteSet(below(i)) /\ Cardinality(below(i)) <= n
    BY <2>1, FS_Subset
  <2>3. Cardinality(below(i)) \in Nat
    BY <2>2, FS_CardinalityType
  <2> QED
    BY <1>0, <2>2, <2>3 DEF Rank
<1>2. ASSUME NEW i \in S PROVE Rank(S, i) \in 1 .. n
  <2>1. below(i) # {}
    OBVIOUS
  <2>2. Cardinality(below(i)) # 0
    BY <1>1, <2>1, FS_EmptySet
  <2> QED
    BY <1>1, <2>2
<1>3. ASSUME NEW i \in S, NEW j \in S, i < j PROVE Rank(S, i) < Rank(S, j)
  <2>0. \A x \in S : x \in Nat
    OBVIOUS
  <2>1. i \in Nat /\ j \in Nat /\ ~(j <= i) /\ j <= j
    BY <1>3, <2>0
  <2>4. \A x \in S : x <= i => x <= j
    BY <1>3, <2>0, <2>1
  <2>5. below(i) \in SUBSET below(j) /\ j \in below(j) /\ j \notin below(i)
    BY <2>1, <2>4
  <2>2. IsFiniteSet(below(j))
    BY <1>1
  <2>3. Cardinality(below(i)) <= Cardinality(below(j)) /\ Cardinality(below(j)) # Cardinality(below(i))
    BY <2>2, <2>5, FS_Subset
  <2>6. Rank(S, i) \in Nat /\ Rank(S, j) \in Nat
    BY <1>0, <1>2
  <2> QED
    BY <1>1, <2>0, <2>3, <2>6
<1>4. \A k \in 1 .. n : \E i \in S : Rank(S, i) = k
  <2> DEFINE f == [i \in S |-> Rank(S, i)]
  <2>1. \A i, j \in S : f[i] = f[j] => i = j
    <3> SUFFICES ASSUME NEW i \in S, NEW j \in S, i # j PROVE f[i] # f[j]
      OBVIOUS
    <3>1. i < j \/ j < i
      OBVIOUS
    <3>2. Rank(S, i) \in 1 .. n /\ Rank(S, j) \in 1 .. n
      BY <1>2
    <3> QED
      BY <1>0, <1>3, <3>1, <3>2
  <2>2. f \in Injection(S, 1 .. n)
    BY <1>2, <2>1 DEF Injection, IsInjective
  <2>3. IsFiniteSet(1 .. n) /\ Cardinality(1 .. n) = n
    BY <1>0, FS_Interval
  <2>4. f \in Surjection(S, 1 .. n)
    BY <2>2, <2>3, FS_Injection
  <2> QED
    BY <2>4 DEF Surjection
<1> QED
  BY <1>0, <1>2, <1>3, <1>4

\* What Listed holds, place by place.
LEMMA ListedInOrder ==
  ASSUME NEW S \in SUBSET Nat, IsFiniteSet(S)
  PROVE  /\ Listed(S) \in Seq(S) /\ Len(Listed(S)) = Cardinality(S) /\ Cardinality(S) \in Nat
         /\ DOMAIN Listed(S) = 1 .. Cardinality(S)
         /\ \A k \in 1 .. Cardinality(S) : Listed(S)[k] \in S /\ Rank(S, Listed(S)[k]) = k
         /\ \A i \in S : Rank(S, i) \in 1 .. Cardinality(S) /\ Listed(S)[Rank(S, i)] = i
         /\ \A k, l \in 1 .. Cardinality(S) : k < l => Listed(S)[k] < Listed(S)[l]
<1> DEFINE n == Cardinality(S)
           q == Listed(S)
<1>1. /\ n \in Nat
      /\ \A i \in S : Rank(S, i) \in 1 .. n
      /\ \A i, j \in S : i < j => Rank(S, i) < Rank(S, j)
      /\ \A k \in 1 .. n : \E i \in S : Rank(S, i) = k
  BY Ranks
<1>2. q = [k \in 1 .. n |-> CHOOSE i \in S : Rank(S, i) = k]
  BY DEF Listed
<1>3. \A i, j \in S : Rank(S, i) = Rank(S, j) => i = j
  <2> SUFFICES ASSUME NEW i \in S, NEW j \in S, i # j PROVE Rank(S, i) # Rank(S, j)
    OBVIOUS
  <2>1. i < j \/ j < i
    OBVIOUS
  <2>2. Rank(S, i) \in Nat /\ Rank(S, j) \in Nat
    BY <1>1
  <2> QED
    BY <1>1, <2>1, <2>2
<1> HIDE DEF n
<1>4. \A k \in 1 .. n : q[k] \in S /\ Rank(S, q[k]) = k
  BY <1>1, <1>2
<1>5. q \in Seq(S) /\ Len(q) = n /\ DOMAIN q = 1 .. n
  BY <1>1, <1>2, <1>4
<1>6. \A i \in S : Rank(S, i) \in 1 .. n /\ q[Rank(S, i)] = i
  BY <1>1, <1>3, <1>4
<1>7. ASSUME NEW k \in 1 .. n, NEW l \in 1 .. n, k < l PROVE q[k] < q[l]
  <2>1. q[k] \in Nat /\ q[l] \in Nat
    BY <1>4
  <2>4. q[k] \in S /\ q[l] \in S /\ Rank(S, q[k]) = k /\ Rank(S, q[l]) = l
    BY <1>4
  <2>5. k \in Nat /\ l \in Nat /\ ~(l < k)
    BY <1>1, <1>7
  <2>2. ~(q[l] < q[k])
    BY <1>1, <2>4, <2>5
  <2>3. q[k] # q[l]
    BY <1>4, <1>7
  <2> QED
    BY <2>1, <2>2, <2>3
<1> QED
  BY <1>1, <1>4, <1>5, <1>6, <1>7 DEF n

\* The only ascending sequence of all elements of S is Listed(S).
LEMMA ListedIsOnly ==
  ASSUME NEW S \in SUBSET Nat, IsFiniteSet(S), NEW q \in Seq(S),
         \A i \in S : \E k \in 1 .. Len(q) : q[k] = i,
         \A k, l \in 1 .. Len(q) : k < l => q[k] < q[l]
  PROVE  q = Listed(S)
<1> DEFINE n == Len(q)
<1>0. n \in Nat /\ DOMAIN q = 1 .. n /\ \A k \in 1 .. n : q[k] \in S
  OBVIOUS
<1>1. n \in Nat /\ DOMAIN q = 1 .. n /\ \A k \in 1 .. n : q[k] \in S /\ q[k] \in Nat
  BY <1>0
<1>2. ASSUME NEW k \in 1 .. n PROVE Rank(S, q[k]) = k
  <2> DEFINE below == {j \in S : j <= q[k]}
             f == [l \in 1 .. k |-> q[l]]
  <2>1. ASSUME NEW l \in 1 .. k PROVE l \in 1 .. n /\ f[l] \in below
    <3>1. l \in 1 .. n /\ (l = k \/ l < k)
      BY <1>1
    <3> QED
      BY <1>1, <3>1
  <2>2. ASSUME NEW x \in below PROVE \E l \in 1 .. k : f[l] = x
    <3>1. PICK l \in 1 .. n : q[l] = x
      OBVIOUS
    <3>2. ~(k < l)
      BY <1>1, <3>1
    <3> QED
      BY <1>1, <3>1, <3>2
  <2>3. \A l, m \in 1 .. k : f[l] = f[m] => l = m
    <3> SUFFICES ASSUME NEW l \in 1 .. k, NEW m \in 1 .. k, l # m PROVE f[l] # f[m]
      OBVIOUS
    <3>1. l \in 1 .. n /\ m \in 1 .. n /\ (l < m \/ m < l)
      BY <1>1
    <3> QED
      BY <1>1, <3>1
  <2>4. f \in Bijection(1 .. k, below)
    BY <2>1, <2>2, <2>3 DEF Bijection, Injection, Surjection, IsInjective
  <2>5. ExistsBijection(1 .. k, below)
    BY <2>4 DEF ExistsBijection
  <2>6. k \in Nat
    BY <1>1
  <2>7. Cardinality(below) = k
    BY <2>5, <2>6, FS_CountingElements
  <2> QED
    BY <2>7 DEF Rank
<1>3. \A k \in 1 .. n : k \in 1 .. Cardinality(S) /\ q[k] = Listed(S)[k]
  BY <1>1, <1>2, ListedInOrder
<1>4. ASSUME NEW k \in 1 .. Cardinality(S) PROVE k \in 1 .. n
  <2>1. PICK i \in S : Rank(S, i) = k
    BY Ranks
  <2>2. PICK l \in 1 .. n : q[l] = i
    BY <2>1
  <2> QED
    BY <1>2, <2>1, <2>2
<1>5. n = Cardinality(S)
  <2>1. Cardinality(S) \in Nat
    BY FS_CardinalityType
  <2> QED
    BY <1>1, <1>3, <1>4, <2>1
<1> QED
  BY <1>1, <1>3, <1>5, ListedInOrder

\* s with r in place of the k elements after the p-th one
Instead(s, p, k, r) == SubSeq(s, 1, p) \o r \o SubSeq(s, p + k + 1, Len(s))

\* Where the elements are then.
LEMMA Spliced ==
  ASSUME NEW T, NEW s \in Seq(T), NEW r \in Seq(T), NEW k \in Nat, NEW p \in 0 .. Len(s) - k
  PROVE  LET t == Instead(s, p, k, r) IN
         /\ t \in Seq(T) /\ Len(t) = Len(s) - k + Len(r)
         /\ \A i \in 1 .. p : t[i] = s[i]
         /\ \A i \in 1 .. Len(r) : t[p + i] = r[i]
         /\ \A i \in p + k + 1 .. Len(s) : t[i - k + Len(r)] = s[i]
<1> DEFINE a == SubSeq(s, 1, p)
           b == SubSeq(s, p + k + 1, Len(s))
<1>1. a \in Seq(T) /\ Len(a) = p /\ \A i \in 1 .. p : a[i] = s[i]
  OBVIOUS
<1>2. b \in Seq(T) /\ Len(b) = Len(s) - p - k /\ \A i \in 1 .. Len(s) - p - k : b[i] = s[p + k + i]
  OBVIOUS
<1> HIDE DEF a, b
<1> DEFINE c == a \o r
<1>3. /\ c \in Seq(T) /\ Len(c) = p + Len(r)
      /\ \A i \in 1 .. p : c[i] = a[i]
      /\ \A i \in 1 .. Len(r) : c[p + i] = r[i]
  <2>1. a \in Seq(T) /\ Len(a) = p
    BY <1>1
  <2>2. c \in Seq(T) /\ Len(c) = p + Len(r)
    BY <2>1
  <2>3. ASSUME NEW i \in 1 .. p PROVE c[i] = a[i]
    BY <2>1
  <2>4. ASSUME NEW i \in 1 .. Len(r) PROVE c[p + i] = r[i]
    BY <2>1
  <2> QED
    BY <2>2, <2>3, <2>4
<1> HIDE DEF c
<1> DEFINE t == c \o b
<1>4. /\ t \in Seq(T) /\ Len(t) = Len(c) + Len(b)
      /\ \A i \in 1 .. Len(c) : t[i] = c[i]
      /\ \A i \in 1 .. Len(b) : t[Len(c) + i] = b[i]
  <2>1. b \in Seq(T) /\ c \in Seq(T)
    BY <1>2, <1>3
  <2>2. t \in Seq(T) /\ Len(t) = Len(c) + Len(b)
    BY <2>1
  <2>3. ASSUME NEW i \in 1 .. Len(c) PROVE t[i] = c[i]
    BY <2>1
  <2>4. ASSUME NEW i \in 1 .. Len(b) PROVE t[Len(c) + i] = b[i]
    BY <2>1
  <2> QED
    BY <2>2, <2>3, <2>4
<1> HIDE DEF t
<1>5. t \in Seq(T) /\ Len(t) = Len(s) - k + Len(r)
  BY <1>2, <1>3, <1>4
<1>6. \A i \in 1 .. p : t[i] = s[i]
  BY <1>1, <1>3, <1>4
<1>7. \A i \in 1 .. Len(r) : t[p + i] = r[i]
  BY <1>3, <1>4
<1>8. ASSUME NEW i \in p + k + 1 .. Len(s) PROVE t[i - k + Len(r)] = s[i]
  <2> DEFINE j == i - p - k
  <2>1. j \in 1 .. Len(b) /\ i - k + Len(r) = Len(c) + j /\ p + k + j = i
    BY <1>2, <1>3
  <2> QED
    BY <1>2, <1>4, <2>1
<1> QED
  BY <1>5, <1>6, <1>7, <1>8 DEF a, b, c, t, Instead

-----------------------------------------------------------------------------
(* The numbers of the lines *)

\* The sizes PatchSelection counts with, and its sequences in order.
LEMMA SameSizes ==
  /\ \A S : Hunks!Cardinality(S) = Cardinality(S)
  /\ \A S : Hunks!InOrder(S) = Listed(S)
<1>1. ASSUME NEW S PROVE Hunks!Cardinality(S) = Cardinality(S)
  BY DEF Hunks!Cardinality, Cardinality, Hunks!IsFiniteSet, IsFiniteSet
<1>2. ASSUME NEW S PROVE Hunks!InOrder(S) = Listed(S)
  BY DEF Hunks!InOrder, Listed, Rank, Hunks!Cardinality, Cardinality, Hunks!IsFiniteSet, IsFiniteSet
<1> QED
  BY <1>1, <1>2

\* A diff is a finite sequence of kinds.
IsScript == script \in Seq({"both", "old", "new"})

\* The lines before an entry of both versions but of the given kind.
BeforeBut(kind, i) == Cardinality({j \in 1 .. i - 1 : script[j] # kind})

\* A hunk is a finite interval of changed entries that holds its entry, and has a first one.
LEMMA HunkIsInterval ==
  ASSUME IsScript, NEW i \in Hunks!Changed
  PROVE  /\ Hunks!HunkOf(i) \in SUBSET Hunks!Changed /\ i \in Hunks!HunkOf(i)
         /\ \A j \in Hunks!HunkOf(i), k \in Nat :
              (j <= k /\ k <= i) \/ (i <= k /\ k <= j) => k \in Hunks!HunkOf(i)
         /\ Hunks!Min(Hunks!HunkOf(i)) \in Hunks!HunkOf(i)
         /\ \A j \in Hunks!HunkOf(i) : Hunks!Min(Hunks!HunkOf(i)) <= j
<1> DEFINE n == Len(script)
           h == Hunks!HunkOf(i)
<1>1. n \in Nat /\ Hunks!Entries = 1 .. n /\ DOMAIN script = 1 .. n /\ Hunks!Changed \in SUBSET (1 .. n)
  BY DEF IsScript, Hunks!Changed, Hunks!Entries
<1> HIDE DEF n
<1>2. h = {j \in 1 .. n : \A k \in (j .. i) \cup (i .. j) : script[k] # "both"}
  BY <1>1 DEF Hunks!HunkOf
<1>3. i \in 1 .. n /\ script[i] # "both"
  BY <1>1 DEF Hunks!Changed
<1>4. i \in h
  BY <1>2, <1>3
<1>5. h \in SUBSET Hunks!Changed
  <2> SUFFICES ASSUME NEW j \in h PROVE j \in Hunks!Changed
    OBVIOUS
  <2>1. j \in 1 .. n /\ (j \in j .. i \/ j \in i .. j)
    BY <1>2, <1>3
  <2> QED
    BY <1>1, <1>2, <2>1 DEF Hunks!Changed
<1>6. ASSUME NEW j \in h, NEW k \in Nat, (j <= k /\ k <= i) \/ (i <= k /\ k <= j) PROVE k \in h
  <2>1. j \in 1 .. n /\ \A l \in (j .. i) \cup (i .. j) : script[l] # "both"
    BY <1>2
  <2>2. k \in 1 .. n
    BY <1>1, <1>3, <1>6, <2>1
  <2>3. \A l \in (k .. i) \cup (i .. k) : l \in (j .. i) \cup (i .. j)
    BY <1>1, <1>3, <1>6, <2>1, <2>2
  <2> QED
    BY <1>2, <2>1, <2>2, <2>3
<1>7. Hunks!Min(h) \in h /\ \A j \in h : Hunks!Min(h) <= j
  <2>1. \A j \in h : j \in Nat
    BY <1>1, <1>2
  <2>2. h \in SUBSET Nat /\ h # {}
    BY <1>4, <2>1
  <2>3. \E x \in h : \A y \in h : x <= y
    BY <2>2, Least
  <2> QED
    BY <2>3 DEF Hunks!Min
<1> QED
  BY <1>4, <1>5, <1>6, <1>7

\* The sizes of two finite sets without a common element add up.
LEMMA Apart ==
  ASSUME NEW A, NEW B, IsFiniteSet(A), IsFiniteSet(B), A \cap B = {}
  PROVE  /\ IsFiniteSet(A \cup B) /\ Cardinality(A \cup B) = Cardinality(A) + Cardinality(B)
         /\ Cardinality(A) \in Nat /\ Cardinality(B) \in Nat
<1>1. Cardinality(A) \in Nat /\ Cardinality(B) \in Nat
  BY FS_CardinalityType
<1>2. IsFiniteSet(A \cup B) /\ Cardinality(A \cup B) = Cardinality(A) + Cardinality(B) - Cardinality(A \cap B)
  BY FS_Union
<1>3. Cardinality(A \cap B) = 0
  BY FS_EmptySet
<1> QED
  BY <1>1, <1>2, <1>3

\* A set of numbers up to n is finite.
LEMMA Bounded ==
  ASSUME NEW n \in Nat, NEW S \in SUBSET (1 .. n)
  PROVE  IsFiniteSet(S) /\ Cardinality(S) \in Nat /\ Cardinality(S) <= n
<1>1. IsFiniteSet(1 .. n) /\ Cardinality(1 .. n) = n
  BY FS_Interval
<1>2. IsFiniteSet(S) /\ Cardinality(S) <= Cardinality(1 .. n)
  BY <1>1, FS_Subset
<1> QED
  BY <1>1, <1>2, FS_CardinalityType

\* The lines before an entry are those before its hunk and those in it.
LEMMA BeforeSplits ==
  ASSUME IsScript, NEW i \in Hunks!Changed, NEW kind, NEW other,
         (kind = "old" /\ other = "new") \/ (kind = "new" /\ other = "old")
  PROVE  LET h == Hunks!HunkOf(i)
             m == Hunks!Min(h)
             part == {j \in Hunks!Only(kind, h) : j < i}
         IN  /\ BeforeBut(other, i) = BeforeBut(other, m) + Cardinality(part)
             /\ BeforeBut(other, m) \in Nat /\ Cardinality(part) \in Nat
<1> DEFINE n == Len(script)
           h == Hunks!HunkOf(i)
           m == Hunks!Min(h)
           part == {j \in Hunks!Only(kind, h) : j < i}
           first == {j \in 1 .. m - 1 : script[j] # other}
           all == {j \in 1 .. i - 1 : script[j] # other}
<1>1. n \in Nat /\ DOMAIN script = 1 .. n /\ Hunks!Changed = {j \in 1 .. n : script[j] # "both"}
      /\ \A j \in 1 .. n : script[j] \in {"both", "old", "new"}
  BY DEF IsScript, Hunks!Changed, Hunks!Entries
<1>2. /\ h \in SUBSET Hunks!Changed /\ i \in h /\ m \in h
      /\ \A j \in h, k \in Nat : (j <= k /\ k <= i) \/ (i <= k /\ k <= j) => k \in h
      /\ \A j \in h : m <= j
  BY HunkIsInterval
<1>3. part = {j \in h : script[j] = kind /\ j < i}
  BY DEF Hunks!Only
<1> HIDE DEF n, h, m, part
<1>4. i \in 1 .. n /\ m \in 1 .. n /\ m <= i
  BY <1>1, <1>2
<1>5. first \in SUBSET (1 .. n) /\ part \in SUBSET (1 .. n)
  <2>1. ASSUME NEW j \in first PROVE j \in 1 .. n
    BY <1>1, <1>4
  <2>2. ASSUME NEW j \in part PROVE j \in 1 .. n
    BY <1>1, <1>2, <1>3
  <2> QED
    BY <2>1, <2>2
<1>6. first \cap part = {}
  <2> SUFFICES ASSUME NEW j \in first, j \in part PROVE FALSE
    OBVIOUS
  <2>1. j \in h /\ m <= j /\ j \in 1 .. m - 1
    BY <1>2, <1>3
  <2> QED
    BY <1>4, <2>1
<1>7. all = first \cup part
  <2>1. ASSUME NEW j \in all PROVE j \in first \cup part
    <3>1. j \in 1 .. n /\ j < i /\ script[j] # other
      BY <1>1, <1>4
    <3>2. CASE j < m
      BY <1>4, <3>1, <3>2
    <3>3. CASE ~(j < m)
      <4>1. m <= j /\ j <= i /\ j \in Nat
        BY <1>1, <1>4, <3>1, <3>3
      <4>2. j \in h
        BY <1>2, <4>1
      <4>3. script[j] = kind
        BY <1>1, <1>2, <3>1, <4>2
      <4> QED
        BY <1>3, <3>1, <4>2, <4>3
    <3> QED
      BY <3>2, <3>3
  <2>2. first \in SUBSET all
    BY <1>4
  <2>3. ASSUME NEW j \in part PROVE j \in all
    BY <1>3, <1>4, <1>5
  <2> QED
    BY <2>1, <2>2, <2>3
<1>8. IsFiniteSet(first) /\ IsFiniteSet(part)
  BY <1>1, <1>5, Bounded
<1>9. /\ Cardinality(all) = Cardinality(first) + Cardinality(part)
      /\ Cardinality(first) \in Nat /\ Cardinality(part) \in Nat
  BY <1>6, <1>7, <1>8, Apart
<1> QED
  BY <1>9 DEF BeforeBut, h, m, part

\* The numbers the parser of the diff keeps, old_cur and new_cur, are right in every hunk.
LEMMA CurrentIs ==
  ASSUME IsScript, NEW i \in Hunks!Changed
  PROVE  /\ Hunks!OldBefore(i) = BeforeBut("new", i) /\ Hunks!NewBefore(i) = BeforeBut("old", i)
         /\ BeforeBut("new", i) \in Nat /\ BeforeBut("old", i) \in Nat
         /\ Hunks!OldCurrent(i) =
              BeforeBut("new", i) + IF Hunks!Only("old", Hunks!HunkOf(i)) = {} THEN 0 ELSE 1
         /\ Hunks!NewCurrent(i) =
              BeforeBut("old", i) + IF Hunks!Only("new", Hunks!HunkOf(i)) = {} THEN 0 ELSE 1
<1> DEFINE h == Hunks!HunkOf(i)
           m == Hunks!Min(h)
           oldPart == {j \in Hunks!Only("old", h) : j < i}
           newPart == {j \in Hunks!Only("new", h) : j < i}
<1>1. \A j : Hunks!OldBefore(j) = BeforeBut("new", j) /\ Hunks!NewBefore(j) = BeforeBut("old", j)
  BY SameSizes DEF Hunks!OldBefore, Hunks!NewBefore, BeforeBut
<1>2. /\ BeforeBut("new", i) = BeforeBut("new", m) + Cardinality(oldPart)
      /\ BeforeBut("new", m) \in Nat /\ Cardinality(oldPart) \in Nat
  BY BeforeSplits
<1>3. /\ BeforeBut("old", i) = BeforeBut("old", m) + Cardinality(newPart)
      /\ BeforeBut("old", m) \in Nat /\ Cardinality(newPart) \in Nat
  BY BeforeSplits
<1>4. Hunks!OldCurrent(i) =
        (BeforeBut("new", m) + IF Hunks!Only("old", h) = {} THEN 0 ELSE 1) + Cardinality(oldPart)
  BY <1>1, SameSizes DEF Hunks!OldCurrent, Hunks!HeaderOld
<1>5. Hunks!NewCurrent(i) =
        (BeforeBut("old", m) + IF Hunks!Only("new", h) = {} THEN 0 ELSE 1) + Cardinality(newPart)
  BY <1>1, SameSizes DEF Hunks!NewCurrent, Hunks!HeaderNew
<1> HIDE DEF h, m, oldPart, newPart
<1> QED
  BY <1>1, <1>2, <1>3, <1>4, <1>5 DEF h

-----------------------------------------------------------------------------
(* A part of a sequence is replaced *)

\* s has every element of W at one place, and no other elements; it is in order.
Lists(s, W) ==
  /\ s \in Seq(W)
  /\ \A x \in W : \E i \in 1 .. Len(s) : s[i] = x
  /\ \A i, j \in 1 .. Len(s) : s[i] = s[j] => i = j
Ascends(s) == \A i, j \in 1 .. Len(s) : i < j => s[i] < s[j]

\* Listed lists the set, in order.
LEMMA ListedLists ==
  ASSUME NEW S \in SUBSET Nat, IsFiniteSet(S)
  PROVE  /\ Lists(Listed(S), S) /\ Ascends(Listed(S))
         /\ Len(Listed(S)) = Cardinality(S) /\ Cardinality(S) \in Nat
<1> DEFINE q == Listed(S)
           n == Cardinality(S)
<1>1. /\ q \in Seq(S) /\ Len(q) = n /\ n \in Nat
      /\ \A k \in 1 .. n : q[k] \in S /\ Rank(S, q[k]) = k
      /\ \A i \in S : Rank(S, i) \in 1 .. n /\ q[Rank(S, i)] = i
      /\ \A k, l \in 1 .. n : k < l => q[k] < q[l]
  BY ListedInOrder
<1> HIDE DEF q, n
<1>2. Lists(q, S)
  BY <1>1 DEF Lists
<1>3. Ascends(q)
  BY <1>1 DEF Ascends
<1> QED
  BY <1>1, <1>2, <1>3 DEF q, n

\* The elements of A, side by side in s, give way to those of B.
LEMMA Replaced ==
  ASSUME NEW W, NEW A \in SUBSET W, NEW B, B \cap W = {},
         NEW s, Lists(s, W), NEW r, Lists(r, B),
         NEW k \in Nat, NEW p \in 0 .. Len(s) - k,
         \A l \in 1 .. k : s[p + l] \in A,
         \A x \in A : \E l \in 1 .. k : s[p + l] = x
  PROVE  LET t == Instead(s, p, k, r) IN
         /\ Lists(t, (W \ A) \cup B)
         /\ (/\ Ascends(s) /\ Ascends(r)
             /\ \A b \in B : /\ \A i \in 1 .. p : s[i] < b
                             /\ \A i \in p + k + 1 .. Len(s) : b < s[i])
              => Ascends(t)
<1> DEFINE t == Instead(s, p, k, r)
           n == Len(s)
           v == Len(r)
           V == (W \ A) \cup B
<1>1. /\ n \in Nat /\ s \in Seq(W) /\ \A x \in W : \E i \in 1 .. n : s[i] = x
      /\ \A i, j \in 1 .. n : s[i] = s[j] => i = j
      /\ \A i \in 1 .. n : s[i] \in W
  <2>1. s \in Seq(W)
    BY DEF Lists
  <2>2. n \in Nat /\ \A i \in 1 .. n : s[i] \in W
    BY <2>1
  <2> QED
    BY <2>1, <2>2 DEF Lists
<1>2. /\ v \in Nat /\ r \in Seq(B) /\ \A x \in B : \E i \in 1 .. v : r[i] = x
      /\ \A i, j \in 1 .. v : r[i] = r[j] => i = j
      /\ \A i \in 1 .. v : r[i] \in B
  <2>1. r \in Seq(B)
    BY DEF Lists
  <2>2. v \in Nat /\ \A i \in 1 .. v : r[i] \in B
    BY <2>1
  <2> QED
    BY <2>1, <2>2 DEF Lists
<1>3. s \in Seq(W \cup B) /\ r \in Seq(W \cup B)
  BY <1>1, <1>2
<1>4. /\ t \in Seq(W \cup B) /\ Len(t) = n - k + v
      /\ \A i \in 1 .. p : t[i] = s[i]
      /\ \A i \in 1 .. v : t[p + i] = r[i]
      /\ \A i \in p + k + 1 .. n : t[i - k + v] = s[i]
  <2> DEFINE T == W \cup B
  <2>1. s \in Seq(T) /\ r \in Seq(T)
    BY <1>3
  <2> HIDE DEF T
  <2>2. t \in Seq(T) /\ Len(t) = Len(s) - k + Len(r)
    BY <2>1, Spliced
  <2>3. \A i \in 1 .. p : t[i] = s[i]
    BY <2>1, Spliced
  <2>4. \A i \in 1 .. Len(r) : t[p + i] = r[i]
    BY <2>1, Spliced
  <2>5. \A i \in p + k + 1 .. Len(s) : t[i - k + Len(r)] = s[i]
    BY <2>1, Spliced
  <2> QED
    BY <2>2, <2>3, <2>4, <2>5 DEF T
<1> HIDE DEF t, n, v
<1>5. p \in Nat /\ p + k <= n
  BY <1>1 DEF n
\* where an element of t comes from
<1>6. ASSUME NEW i \in 1 .. Len(t)
      PROVE  \/ i \in 1 .. p /\ t[i] = s[i] /\ i \in 1 .. n
             \/ i - p \in 1 .. v /\ t[i] = r[i - p]
             \/ i + k - v \in p + k + 1 .. n /\ t[i] = s[i + k - v] /\ i + k - v \in 1 .. n
  <2>1. CASE i <= p
    BY <1>1, <1>4, <1>5, <2>1
  <2>2. CASE i > p /\ i <= p + v
    <3>1. i - p \in 1 .. v /\ p + (i - p) = i
      BY <1>1, <1>2, <1>4, <1>5, <2>2
    <3> QED
      BY <1>4, <3>1
  <2>3. CASE i > p + v
    <3>1. i + k - v \in p + k + 1 .. n /\ (i + k - v) - k + v = i /\ i + k - v \in 1 .. n
      BY <1>1, <1>2, <1>4, <1>5, <2>3
    <3> QED
      BY <1>4, <3>1
  <2> QED
    BY <1>1, <1>2, <1>4, <1>5, <2>1, <2>2, <2>3
<1>7. ASSUME NEW i \in 1 .. n, i <= p \/ i > p + k PROVE s[i] \in W \ A
  <2> SUFFICES ASSUME s[i] \in A PROVE FALSE
    BY <1>1
  <2>1. PICK l \in 1 .. k : s[p + l] = s[i]
    OBVIOUS
  <2>2. p + l \in 1 .. n
    BY <1>1, <1>5
  <2> QED
    BY <1>1, <1>5, <1>7, <2>1, <2>2
<1>8. ASSUME NEW i \in 1 .. Len(t) PROVE t[i] \in V
  <2>1. CASE i \in 1 .. p /\ t[i] = s[i] /\ i \in 1 .. n
    BY <1>5, <1>7, <2>1
  <2>2. CASE i - p \in 1 .. v /\ t[i] = r[i - p]
    BY <1>2, <2>2
  <2>3. CASE i + k - v \in p + k + 1 .. n /\ t[i] = s[i + k - v] /\ i + k - v \in 1 .. n
    BY <1>5, <1>7, <2>3
  <2> QED
    BY <1>6, <2>1, <2>2, <2>3
<1>9. ASSUME NEW x \in V PROVE \E i \in 1 .. Len(t) : t[i] = x
  <2>1. CASE x \in B
    <3>1. PICK i \in 1 .. v : r[i] = x
      BY <1>2, <2>1
    <3>2. p + i \in 1 .. Len(t) /\ t[p + i] = x
      BY <1>1, <1>2, <1>4, <1>5, <3>1
    <3> QED
      BY <3>2
  <2>2. CASE x \in W \ A
    <3>1. PICK i \in 1 .. n : s[i] = x
      BY <1>1, <2>2
    <3>2. ASSUME i > p, i <= p + k PROVE FALSE
      <4>1. i - p \in 1 .. k /\ p + (i - p) = i
        BY <1>1, <1>5, <3>2
      <4> QED
        BY <2>2, <3>1, <4>1
    <3>3. CASE i <= p
      <4>1. i \in 1 .. p /\ i \in 1 .. Len(t)
        BY <1>1, <1>2, <1>4, <1>5, <3>3
      <4> QED
        BY <1>4, <3>1, <4>1
    <3>4. CASE i > p + k
      <4>1. i \in p + k + 1 .. n /\ i - k + v \in 1 .. Len(t)
        BY <1>1, <1>2, <1>4, <1>5, <3>4
      <4> QED
        BY <1>4, <3>1, <4>1
    <3> QED
      BY <1>1, <1>5, <3>2, <3>3, <3>4
  <2> QED
    BY <2>1, <2>2
<1>10. ASSUME NEW i \in 1 .. Len(t), NEW j \in 1 .. Len(t), t[i] = t[j] PROVE i = j
  <2> DEFINE First(x) == x \in 1 .. p /\ t[x] = s[x] /\ x \in 1 .. n
             Middle(x) == x - p \in 1 .. v /\ t[x] = r[x - p]
             Last(x) == x + k - v \in p + k + 1 .. n /\ t[x] = s[x + k - v] /\ x + k - v \in 1 .. n
  <2>1. (First(i) \/ Middle(i) \/ Last(i)) /\ (First(j) \/ Middle(j) \/ Last(j))
    BY <1>6
  <2>2. CASE Middle(i) /\ Middle(j)
    <3>1. i - p = j - p
      BY <1>2, <1>10, <2>2
    <3> QED
      BY <1>4, <1>5, <3>1
  <2>3. CASE Middle(i) /\ ~Middle(j)
    BY <1>1, <1>2, <1>10, <2>1, <2>3
  <2>4. CASE ~Middle(i) /\ Middle(j)
    BY <1>1, <1>2, <1>10, <2>1, <2>4
  <2>5. CASE First(i) /\ First(j)
    BY <1>1, <1>10, <2>5
  <2>6. CASE First(i) /\ Last(j)
    <3>1. i = j + k - v
      BY <1>1, <1>10, <2>6
    <3> QED
      BY <1>1, <1>5, <2>6, <3>1
  <2>7. CASE Last(i) /\ First(j)
    <3>1. j = i + k - v
      BY <1>1, <1>10, <2>7
    <3> QED
      BY <1>1, <1>5, <2>7, <3>1
  <2>8. CASE Last(i) /\ Last(j)
    <3>1. i + k - v = j + k - v
      BY <1>1, <1>10, <2>8
    <3> QED
      BY <1>1, <1>2, <1>4, <3>1
  <2> QED
    BY <2>1, <2>2, <2>3, <2>4, <2>5, <2>6, <2>7, <2>8
<1>11. Lists(t, V)
  <2>1. t \in Seq(V)
    BY <1>4, <1>8
  <2> QED
    BY <1>9, <1>10, <2>1 DEF Lists
<1>12. ASSUME Ascends(s), Ascends(r),
              \A b \in B : /\ \A i \in 1 .. p : s[i] < b
                           /\ \A i \in p + k + 1 .. n : b < s[i],
              NEW i \in 1 .. Len(t), NEW j \in 1 .. Len(t), i < j
       PROVE  t[i] < t[j]
  <2> DEFINE First(x) == x \in 1 .. p /\ t[x] = s[x] /\ x \in 1 .. n
             Middle(x) == x - p \in 1 .. v /\ t[x] = r[x - p]
             Last(x) == x + k - v \in p + k + 1 .. n /\ t[x] = s[x + k - v] /\ x + k - v \in 1 .. n
  <2>1. (First(i) \/ Middle(i) \/ Last(i)) /\ (First(j) \/ Middle(j) \/ Last(j))
    BY <1>6
  <2>2. /\ \A x, y \in 1 .. n : x < y => s[x] < s[y]
        /\ \A x, y \in 1 .. v : x < y => r[x] < r[y]
    BY <1>12 DEF Ascends, n, v
  <2>3. CASE First(i) /\ (First(j) \/ Last(j))
    BY <1>1, <1>2, <1>4, <1>5, <1>12, <2>2, <2>3
  <2>4. CASE First(i) /\ Middle(j)
    BY <1>2, <1>12, <2>4
  <2>5. CASE Middle(i) /\ Middle(j)
    <3>1. i - p < j - p
      BY <1>2, <1>4, <1>5, <1>12
    <3> QED
      BY <2>2, <2>5, <3>1
  <2>6. CASE Middle(i) /\ Last(j)
    BY <1>2, <1>12, <2>6
  <2>7. CASE Last(i) /\ Last(j)
    <3>1. i + k - v < j + k - v
      BY <1>1, <1>2, <1>4, <1>12
    <3> QED
      BY <2>2, <2>7, <3>1
  <2>8. ~(Middle(i) /\ First(j)) /\ ~(Last(i) /\ First(j)) /\ ~(Last(i) /\ Middle(j))
    BY <1>1, <1>2, <1>4, <1>5, <1>12
  <2> QED
    BY <2>1, <2>3, <2>4, <2>5, <2>6, <2>7, <2>8
<1>13. (/\ Ascends(s) /\ Ascends(r)
        /\ \A b \in B : /\ \A i \in 1 .. p : s[i] < b
                        /\ \A i \in p + k + 1 .. n : b < s[i])
         => Ascends(t)
  BY <1>12 DEF Ascends
<1> QED
  BY <1>11, <1>13 DEF t, n

-----------------------------------------------------------------------------
(* The index between the hunks *)

\* The lines a hunk takes away and those it brings: unstage_lines applies it with -R.
SourceKind == IF reverse THEN "new" ELSE "old"
TargetKind == IF reverse THEN "old" ELSE "new"

\* The selected changes that are made, and the lines of the index when just they are.
Made     == Hunks!Asked \ hunkTodo
Standing == {i \in DOMAIN script : \/ script[i] = "both"
                                   \/ script[i] = SourceKind /\ i \notin Made
                                   \/ script[i] = TargetKind /\ i \in Made}

\* With whole hunks from the top, nothing is refused, every line is at its place, and
\* hunks are made as wholes.
InPrefix ==
  /\ ~refused /\ Ascends(image)
  /\ \A i \in hunkTodo : Hunks!HunkOf(i) \in SUBSET hunkTodo

\* The types of what a run of hunks works on.
SelectionTypes ==
  /\ IsScript /\ oldLines \in SUBSET (1 .. MaxEntries) /\ newLines \in SUBSET (1 .. MaxEntries)
  /\ reverse \in BOOLEAN /\ refused \in BOOLEAN

\* The hunks that are still to be applied are selected lines, and the index has the lines
\* of the selected changes made so far, each of them once.
SelectionInv ==
  /\ SelectionTypes
  /\ hunkTodo \in SUBSET Hunks!Asked
  /\ patched = {i \in Made : script[i] = TargetKind}
  /\ Lists(image, Standing)
  /\ Hunks!SelectsPrefix => InPrefix

\* The entries of a diff and of the index are numbers.
LEMMA EntriesAre ==
  ASSUME IsScript
  PROVE  /\ Len(script) \in Nat /\ DOMAIN script = 1 .. Len(script)
         /\ Hunks!Entries = 1 .. Len(script)
         /\ \A i \in 1 .. Len(script) : script[i] \in {"both", "old", "new"} /\ i \in Nat
         /\ Hunks!Changed = {i \in 1 .. Len(script) : script[i] # "both"}
         /\ Hunks!Asked \in SUBSET Hunks!Changed
         /\ Made \in SUBSET Hunks!Asked
         /\ Standing \in SUBSET (1 .. Len(script))
         /\ Standing \in SUBSET Nat /\ IsFiniteSet(Standing)
<1>1. /\ Len(script) \in Nat /\ DOMAIN script = 1 .. Len(script)
      /\ \A i \in 1 .. Len(script) : script[i] \in {"both", "old", "new"} /\ i \in Nat
  BY DEF IsScript
<1>2. /\ Hunks!Entries = 1 .. Len(script)
      /\ Hunks!Changed = {i \in 1 .. Len(script) : script[i] # "both"}
  BY <1>1 DEF Hunks!Entries, Hunks!Changed
<1>3. Hunks!Asked \in SUBSET Hunks!Changed /\ Made \in SUBSET Hunks!Asked
  BY DEF Hunks!Asked, Made
<1>4. Standing \in SUBSET (1 .. Len(script))
  BY <1>1 DEF Standing
<1>5. Standing \in SUBSET Nat /\ IsFiniteSet(Standing)
  <2>1. \A i \in Standing : i \in Nat
    BY <1>1, <1>4
  <2> QED
    BY <1>1, <1>4, <2>1, Bounded
<1> QED
  BY <1>1, <1>2, <1>3, <1>4, <1>5

\* The lines the caller names are the lines build_selected_patch selects.
LEMMA SelectedAreAsked ==
  ASSUME IsScript
  PROVE  {i \in Hunks!Changed : Hunks!IsSelected(i)} = Hunks!Asked
<1>1. ASSUME NEW i \in Hunks!Changed, script[i] = "old"
      PROVE  Hunks!OldCurrent(i) = Hunks!OldBefore(i) + 1
  <2>1. i \in Hunks!Only("old", Hunks!HunkOf(i))
    BY <1>1, HunkIsInterval DEF Hunks!Only
  <2> QED
    BY <2>1, CurrentIs
<1>2. ASSUME NEW i \in Hunks!Changed, script[i] = "new"
      PROVE  Hunks!NewCurrent(i) = Hunks!NewBefore(i) + 1
  <2>1. i \in Hunks!Only("new", Hunks!HunkOf(i))
    BY <1>2, HunkIsInterval DEF Hunks!Only
  <2> QED
    BY <2>1, CurrentIs
<1> QED
  BY <1>1, <1>2 DEF Hunks!IsSelected, Hunks!Asked

\* Before the first hunk.
LEMMA SelectionInit ==
  ASSUME MaxEntries \in Nat, Hunks!Init
  PROVE  SelectionInv
<1>1. IsScript /\ Len(script) \in 1 .. MaxEntries
  <2>1. PICK n \in 1 .. MaxEntries : script \in [1 .. n -> {"both", "old", "new"}]
    BY DEF Hunks!Init, Hunks!Scripts
  <2> QED
    BY <2>1 DEF IsScript
<1>2. PICK S \in SUBSET Hunks!Changed :
        /\ oldLines = {Hunks!OldBefore(i) + 1 : i \in Hunks!Only("old", S)}
        /\ newLines = {Hunks!NewBefore(i) + 1 : i \in Hunks!Only("new", S)}
  BY DEF Hunks!Init
<1>3. ASSUME NEW i \in Hunks!Changed
      PROVE  Hunks!OldBefore(i) + 1 \in 1 .. MaxEntries /\ Hunks!NewBefore(i) + 1 \in 1 .. MaxEntries
  <2>1. i \in 1 .. Len(script) /\ i - 1 \in Nat
    BY <1>1, EntriesAre
  <2>2. BeforeBut("new", i) \in Nat /\ BeforeBut("new", i) <= i - 1
    BY <2>1, Bounded DEF BeforeBut
  <2>3. BeforeBut("old", i) \in Nat /\ BeforeBut("old", i) <= i - 1
    BY <2>1, Bounded DEF BeforeBut
  <2> QED
    BY <1>1, <2>1, <2>2, <2>3, CurrentIs
<1>4. SelectionTypes
  <2>1. reverse \in BOOLEAN /\ refused \in BOOLEAN
    BY DEF Hunks!Init
  <2>2. oldLines \in SUBSET (1 .. MaxEntries) /\ newLines \in SUBSET (1 .. MaxEntries)
    BY <1>2, <1>3 DEF Hunks!Only
  <2> QED
    BY <1>1, <2>1, <2>2 DEF SelectionTypes
<1>5. hunkTodo = Hunks!Asked /\ Made = {}
  BY <1>1, SelectedAreAsked DEF Hunks!Init, Made
<1>6. patched = {i \in Made : script[i] = TargetKind}
  BY <1>5 DEF Hunks!Init
<1>7. image = Listed(Standing)
  <2>1. Standing = {i \in Hunks!Entries : script[i] # IF reverse THEN "old" ELSE "new"}
    BY <1>1, <1>5, EntriesAre DEF Standing, SourceKind, TargetKind
  <2> QED
    BY <2>1, SameSizes DEF Hunks!Init
<1>8. Lists(image, Standing) /\ Ascends(image)
  BY <1>1, <1>7, EntriesAre, ListedLists
<1>9. ASSUME Hunks!SelectsPrefix PROVE InPrefix
  <2>1. \A i \in hunkTodo : Hunks!HunkOf(i) \in SUBSET hunkTodo
    <3> SUFFICES ASSUME NEW i \in hunkTodo, NEW j \in Hunks!HunkOf(i) PROVE j \in hunkTodo
      OBVIOUS
    <3>1. i \in Hunks!Changed /\ i \in Hunks!Asked
      BY <1>1, <1>5, EntriesAre
    <3>2. j \in Hunks!Changed
      BY <1>1, <3>1, HunkIsInterval
    <3> QED
      BY <1>5, <1>9, <3>1, <3>2 DEF Hunks!SelectsPrefix
  <2> QED
    BY <1>8, <2>1 DEF InPrefix, Hunks!Init
<1> QED
  BY <1>4, <1>5, <1>6, <1>8, <1>9 DEF SelectionInv

\* What a list holds.
LEMMA RangeIs ==
  ASSUME NEW q, NEW V, Lists(q, V)
  PROVE  Hunks!Range(q) = V
<1>1. q \in Seq(V) /\ \A x \in V : \E i \in 1 .. Len(q) : q[i] = x
  BY DEF Lists
<1>2. DOMAIN q = 1 .. Len(q) /\ \A i \in 1 .. Len(q) : q[i] \in V
  BY <1>1
<1> QED
  BY <1>1, <1>2 DEF Hunks!Range

\* What the invariant says of the index that is written.
LEMMA SelectionHolds ==
  ASSUME SelectionInv
  PROVE  SelectionSafety
<1> DEFINE n == Len(script)
<1>1. IsScript /\ n \in Nat /\ Hunks!Entries = 1 .. n /\ Standing \in SUBSET (1 .. n)
      /\ Standing \in SUBSET Nat /\ IsFiniteSet(Standing)
      /\ Hunks!Changed \in SUBSET (1 .. n) /\ Hunks!Asked \in SUBSET Hunks!Changed
  BY EntriesAre DEF SelectionInv, SelectionTypes
<1>2. image \in Seq(Standing) /\ Lists(image, Standing)
  BY DEF SelectionInv, Lists
<1>3. Len(image) = Cardinality(Standing) /\ Len(image) \in Nat /\ Hunks!Range(image) = Standing
  <2> DEFINE l == Len(image)
  <2>1. l \in Nat /\ DOMAIN image = 1 .. l /\ \A i \in 1 .. l : image[i] \in Standing
    BY <1>2
  <2>2. \A x \in Standing : \E i \in 1 .. l : image[i] = x
    BY <1>2 DEF Lists
  <2>3. \A i, j \in 1 .. l : image[i] = image[j] => i = j
    BY <1>2 DEF Lists
  <2> HIDE DEF l
  <2> DEFINE f == [i \in 1 .. l |-> image[i]]
  <2>4. f \in Bijection(1 .. l, Standing)
    BY <2>1, <2>2, <2>3 DEF Bijection, Injection, Surjection, IsInjective
  <2>5. ExistsBijection(1 .. l, Standing)
    BY <2>4 DEF ExistsBijection
  <2>6. Cardinality(Standing) = l
    BY <2>1, <2>5, FS_CountingElements
  <2>7. Hunks!Range(image) = Standing
    BY <1>2, RangeIs
  <2> QED
    BY <2>1, <2>6, <2>7 DEF l
<1>4. Hunks!TypeOK
  <2>1. Cardinality(Standing) <= n
    BY <1>1, Bounded
  <2>2. Len(image) <= n /\ image \in Seq(Hunks!Entries)
    <3>1. Len(image) <= n
      BY <1>3, <2>1
    <3>2. Standing \in SUBSET Hunks!Entries
      BY <1>1
    <3> HIDE DEF n
    <3>3. image \in Seq(Hunks!Entries)
      BY <1>2, <3>2
    <3> QED
      BY <3>1, <3>3
  <2>3. hunkTodo \in SUBSET Hunks!Changed /\ patched \in SUBSET Hunks!Changed
    BY <1>1 DEF SelectionInv, Made
  <2> QED
    BY <2>2, <2>3 DEF Hunks!TypeOK, SelectionInv, SelectionTypes, IsScript
<1>5. ASSUME hunkTodo = {} PROVE Hunks!Staged = Listed(Standing)
  <2>1. Made = Hunks!Asked
    BY <1>5 DEF Made
  <2>2. Standing = {i \in Hunks!Entries :
           \/ script[i] = "both"
           \/ script[i] = (IF reverse THEN "new" ELSE "old") /\ i \notin Hunks!Asked
           \/ script[i] = (IF reverse THEN "old" ELSE "new") /\ i \in Hunks!Asked}
    BY <2>1 DEF Standing, Hunks!Entries, SourceKind, TargetKind
  <2> QED
    BY <2>2, SameSizes DEF Hunks!Staged
<1>6. Hunks!PrefixIsExact
  <2> SUFFICES ASSUME Hunks!SelectsPrefix PROVE ~refused /\ (Hunks!Done => image = Hunks!Staged)
    BY DEF Hunks!PrefixIsExact
  <2>1. InPrefix
    BY DEF SelectionInv
  <2>2. image = Listed(Standing)
    BY <1>1, <1>2, <2>1, ListedIsOnly DEF InPrefix, Ascends, Lists
  <2> QED
    BY <1>5, <2>1, <2>2 DEF InPrefix, Hunks!Done
<1>7. Hunks!RightLines
  <2> SUFFICES ASSUME Hunks!Done
               PROVE  Hunks!Range(image) = Hunks!Range(Hunks!Staged) /\ Len(image) = Len(Hunks!Staged)
    BY DEF Hunks!RightLines
  <2>1. Hunks!Staged = Listed(Standing)
    BY <1>5 DEF Hunks!Done
  <2>2. Len(Listed(Standing)) = Cardinality(Standing) /\ Lists(Listed(Standing), Standing)
    BY <1>1, ListedLists
  <2>3. Hunks!Range(Listed(Standing)) = Standing
    BY <2>2, RangeIs
  <2> QED
    BY <1>3, <2>1, <2>2, <2>3
<1> QED
  BY <1>4, <1>6, <1>7 DEF SelectionSafety

-----------------------------------------------------------------------------
(* The next hunk *)

NextHunk == Hunks!Segment(Hunks!Min(hunkTodo), hunkTodo)

\* The lines of a set that a hunk takes away, and those it brings
Sources(S) == Hunks!Only(SourceKind, S)
Targets(S) == Hunks!Only(TargetKind, S)

\* A hunk is an interval of the first lines that are still to be applied.
LEMMA NextHunkIs ==
  ASSUME SelectionInv, hunkTodo # {}
  PROVE  LET m == Hunks!Min(hunkTodo) IN
         /\ m \in NextHunk /\ NextHunk \in SUBSET hunkTodo
         /\ NextHunk \in SUBSET Hunks!Changed /\ NextHunk \in SUBSET (1 .. Len(script))
         /\ \A j \in hunkTodo : m <= j
         /\ \A j \in NextHunk, k \in Nat : m <= k /\ k <= j => k \in NextHunk
<1> DEFINE m == Hunks!Min(hunkTodo)
<1>1. hunkTodo \in SUBSET Hunks!Changed /\ hunkTodo \in SUBSET (1 .. Len(script))
      /\ Len(script) \in Nat /\ \A j \in hunkTodo : j \in Nat
  BY EntriesAre DEF SelectionInv, SelectionTypes
<1>2. m \in hunkTodo /\ \A j \in hunkTodo : m <= j
  <2>1. \E x \in hunkTodo : \A y \in hunkTodo : x <= y
    BY <1>1, Least
  <2> QED
    BY <2>1 DEF Hunks!Min
<1>3. NextHunk = {b \in hunkTodo : b >= m /\ m .. b \in SUBSET hunkTodo}
  BY DEF NextHunk, Hunks!Segment
<1> HIDE DEF m
<1>4. m \in NextHunk
  <2>1. m .. m = {m}
    BY <1>1, <1>2
  <2> QED
    BY <1>1, <1>2, <1>3, <2>1
<1>5. ASSUME NEW j \in NextHunk, NEW k \in Nat, m <= k, k <= j PROVE k \in NextHunk
  <2>1. m \in Nat /\ j \in Nat
    BY <1>1, <1>2, <1>3
  <2>2. k \in m .. j /\ \A l \in m .. k : l \in m .. j
    BY <1>5, <2>1
  <2> QED
    BY <1>3, <1>5, <2>1, <2>2
<1>6. NextHunk \in SUBSET hunkTodo
  BY <1>3
<1> QED
  BY <1>1, <1>2, <1>4, <1>5, <1>6 DEF m

\* The start numbers in the header of a hunk are natural numbers.
LEMMA StartsAreNumbers ==
  ASSUME IsScript, NEW S \in SUBSET Hunks!Changed, S # {}
  PROVE  /\ Hunks!OldStart(S) \in Nat /\ Hunks!NewStart(S) \in Nat
         /\ Hunks!Source(S) \in Nat /\ Hunks!Target(S) \in Nat
<1>1. ASSUME NEW V \in SUBSET S, V # {} PROVE Hunks!Min(V) \in Hunks!Changed
  <2>1. \A i \in V : i \in Nat
    BY EntriesAre
  <2>2. \E x \in V : \A y \in V : x <= y
    BY <1>1, <2>1, Least
  <2> QED
    BY <2>2 DEF Hunks!Min
<1>2. \A i \in Hunks!Changed : Hunks!OldCurrent(i) \in Nat /\ Hunks!NewCurrent(i) \in Nat
  BY CurrentIs
<1>3. Hunks!Only("old", S) \in SUBSET S /\ Hunks!Only("new", S) \in SUBSET S
  BY DEF Hunks!Only
<1>4. Hunks!OldStart(S) \in Nat
  BY <1>1, <1>2, <1>3 DEF Hunks!OldStart
<1>5. Hunks!NewStart(S) \in Nat
  BY <1>1, <1>2, <1>3 DEF Hunks!NewStart
<1> QED
  BY <1>4, <1>5 DEF Hunks!Source, Hunks!Target

\* git finds a place for a hunk when there is one, and none is nearer to the expected one.
LEMMA PlaceIs ==
  ASSUME IsScript, image \in Seq(Nat), NEW S \in SUBSET Hunks!Changed, S # {}
  PROVE  /\ Hunks!Expected(S) \in 0 .. Len(image)
         /\ Hunks!Places(S) # {} =>
              /\ Hunks!Place(S) \in Hunks!Places(S)
              /\ \A q \in Hunks!Places(S) :
                   Hunks!Distance(Hunks!Place(S), S) <= Hunks!Distance(q, S)
<1> DEFINE D(q) == Hunks!Distance(q, S)
<1>1. Hunks!Expected(S) \in 0 .. Len(image)
  <2>1. Hunks!Source(S) \in Nat /\ Hunks!Target(S) \in Nat /\ Len(image) \in Nat
    BY StartsAreNumbers
  <2> QED
    BY <2>1 DEF Hunks!Expected
<1>2. ASSUME NEW q \in Hunks!Places(S) PROVE D(q) \in Nat
  <2>1. q \in Int /\ q >= 0
    <3>1. q \in 0 .. Len(image) - Len(Hunks!Preimage(S))
      BY DEF Hunks!Places
    <3> QED
      BY <3>1
  <2> QED
    BY <1>1, <2>1 DEF Hunks!Distance
<1>3. ASSUME Hunks!Places(S) # {}
      PROVE  \E p \in Hunks!Places(S) : \A q \in Hunks!Places(S) : D(p) <= D(q)
  <2> DEFINE V == {D(q) : q \in Hunks!Places(S)}
  <2>1. V \in SUBSET Nat /\ V # {}
    BY <1>2, <1>3
  <2>2. \E x \in V : \A y \in V : x <= y
    <3> HIDE DEF V
    <3> QED
      BY <2>1, Least
  <2> QED
    BY <2>2
<1> QED
  BY <1>1, <1>3 DEF Hunks!Place

\* What git looks for and what it puts there, as lists.
LEMMA ImagesAre ==
  ASSUME IsScript, NEW S \in SUBSET Hunks!Changed
  PROVE  /\ Hunks!Preimage(S) = Listed(Sources(S)) /\ Hunks!Postimage(S) = Listed(Targets(S))
         /\ Sources(S) \in SUBSET S /\ Targets(S) \in SUBSET S
         /\ Sources(S) \in SUBSET Nat /\ Targets(S) \in SUBSET Nat
         /\ IsFiniteSet(Sources(S)) /\ IsFiniteSet(Targets(S))
         /\ Lists(Hunks!Preimage(S), Sources(S)) /\ Lists(Hunks!Postimage(S), Targets(S))
         /\ Ascends(Hunks!Postimage(S))
         /\ Len(Hunks!Preimage(S)) = Cardinality(Sources(S)) /\ Cardinality(Sources(S)) \in Nat
         /\ Hunks!Range(Hunks!Postimage(S)) = Targets(S)
         /\ Hunks!Range(Hunks!Preimage(S)) = Sources(S)
<1>1. Sources(S) \in SUBSET S /\ Targets(S) \in SUBSET S
  BY DEF Sources, Targets, Hunks!Only
<1>2. Sources(S) \in SUBSET Nat /\ Targets(S) \in SUBSET Nat
      /\ Sources(S) \in SUBSET (1 .. Len(script)) /\ Targets(S) \in SUBSET (1 .. Len(script))
      /\ Len(script) \in Nat
  <2>1. \A i \in S : i \in Nat /\ i \in 1 .. Len(script)
    BY EntriesAre
  <2> QED
    BY <1>1, <2>1, EntriesAre
<1>3. IsFiniteSet(Sources(S)) /\ IsFiniteSet(Targets(S))
  BY <1>2, Bounded
<1>4. Hunks!Preimage(S) = Listed(Sources(S))
  BY SameSizes DEF Hunks!Preimage, Sources, SourceKind
<1>5. Hunks!Postimage(S) = Listed(Targets(S))
  BY SameSizes DEF Hunks!Postimage, Targets, TargetKind
<1>6. /\ Lists(Hunks!Preimage(S), Sources(S)) /\ Lists(Hunks!Postimage(S), Targets(S))
      /\ Ascends(Hunks!Postimage(S))
      /\ Len(Hunks!Preimage(S)) = Cardinality(Sources(S)) /\ Cardinality(Sources(S)) \in Nat
  BY <1>2, <1>3, <1>4, <1>5, ListedLists
<1>7. Hunks!Range(Hunks!Postimage(S)) = Targets(S) /\ Hunks!Range(Hunks!Preimage(S)) = Sources(S)
  BY <1>6, RangeIs
<1> QED
  BY <1>1, <1>2, <1>3, <1>4, <1>5, <1>6, <1>7

\* The start numbers in the header of a hunk that is a whole hunk of the diff: one more than
\* the lines before it, or as many, when it has no line of that version.
LEMMA StartsAre ==
  ASSUME IsScript, NEW m \in Hunks!Changed, \A j \in Hunks!HunkOf(m) : m <= j
  PROVE  LET S == Hunks!HunkOf(m) IN
         /\ Hunks!OldStart(S) = BeforeBut("new", m) + IF Hunks!Only("old", S) = {} THEN 0 ELSE 1
         /\ Hunks!NewStart(S) = BeforeBut("old", m) + IF Hunks!Only("new", S) = {} THEN 0 ELSE 1
<1> DEFINE n == Len(script)
           S == Hunks!HunkOf(m)
<1>1. /\ n \in Nat /\ Hunks!Changed = {j \in 1 .. n : script[j] # "both"} /\ m \in 1 .. n
      /\ \A j \in 1 .. n : script[j] \in {"both", "old", "new"} /\ j \in Nat
  BY EntriesAre
<1>2. /\ S \in SUBSET Hunks!Changed /\ m \in S /\ \A j \in S : m <= j
      /\ \A j \in S, k \in Nat : m <= k /\ k <= j => k \in S
      /\ \A j \in S : j \in 1 .. n /\ j \in Nat
  BY <1>1, HunkIsInterval
<1> HIDE DEF n, S
<1>3. Hunks!Min(S) = m
  <2>1. Hunks!Min(S) \in S /\ \A j \in S : Hunks!Min(S) <= j
    BY HunkIsInterval DEF S
  <2>2. Hunks!Min(S) <= m /\ m <= Hunks!Min(S) /\ Hunks!Min(S) \in Nat /\ m \in Nat
    BY <1>1, <1>2, <2>1
  <2> QED
    BY <2>2
\* up to its first line of a kind, a hunk has lines of the other kind only
<1>4. ASSUME NEW kind, NEW other, Hunks!Only(kind, S) # {},
             (kind = "old" /\ other = "new") \/ (kind = "new" /\ other = "old")
      PROVE  LET x == Hunks!Min(Hunks!Only(kind, S)) IN
             x \in Hunks!Only(kind, S) /\ BeforeBut(other, x) = BeforeBut(other, m)
  <2> DEFINE V == Hunks!Only(kind, S)
             x == Hunks!Min(V)
  <2>1. V = {i \in S : script[i] = kind}
    BY DEF Hunks!Only
  <2>2. x \in V /\ \A y \in V : x <= y
    <3>1. V \in SUBSET Nat
      BY <1>2, <2>1
    <3>2. \E z \in V : \A y \in V : z <= y
      BY <1>4, <3>1, Least
    <3> QED
      BY <3>2 DEF Hunks!Min
  <2> HIDE DEF V, x
  <2>3. x \in 1 .. n /\ m <= x /\ x \in S
    BY <1>2, <2>1, <2>2
  <2>4. {j \in 1 .. x - 1 : script[j] # other} = {j \in 1 .. m - 1 : script[j] # other}
    <3>1. ASSUME NEW j \in 1 .. x - 1, script[j] # other, ~(j <= m - 1) PROVE FALSE
      <4>1. j \in Nat /\ j \in 1 .. n /\ m <= j /\ j <= x /\ j < x
        BY <1>1, <2>3, <3>1
      <4>2. j \in S /\ script[j] # "both"
        BY <1>1, <1>2, <2>3, <4>1
      <4>3. j \in V
        BY <1>1, <1>4, <2>1, <3>1, <4>1, <4>2
      <4> QED
        BY <1>1, <2>2, <2>3, <4>1, <4>3
    <3>2. ASSUME NEW j \in 1 .. x - 1, script[j] # other PROVE j \in 1 .. m - 1
      BY <1>1, <2>3, <3>1, <3>2
    <3>3. 1 .. m - 1 \in SUBSET (1 .. x - 1)
      BY <1>1, <2>3
    <3> QED
      BY <3>2, <3>3
  <2> QED
    BY <2>2, <2>4 DEF BeforeBut, V, x
<1>5. Hunks!OldStart(S) = BeforeBut("new", m) + IF Hunks!Only("old", S) = {} THEN 0 ELSE 1
  <2>1. CASE Hunks!Only("old", S) = {}
    <3>1. Hunks!OldStart(S) = Hunks!OldCurrent(m)
      BY <1>3, <2>1 DEF Hunks!OldStart
    <3> QED
      BY <2>1, <3>1, CurrentIs DEF S
  <2>2. CASE Hunks!Only("old", S) # {}
    <3> DEFINE x == Hunks!Min(Hunks!Only("old", S))
    <3>1. x \in Hunks!Only("old", S) /\ BeforeBut("new", x) = BeforeBut("new", m)
      BY <1>4, <2>2
    <3>2. Hunks!OldStart(S) = Hunks!OldCurrent(x)
      BY <2>2 DEF Hunks!OldStart
    <3> HIDE DEF x
    <3>3. x \in Hunks!Changed /\ script[x] = "old"
      BY <1>2, <3>1 DEF Hunks!Only
    <3>4. x \in Hunks!Only("old", Hunks!HunkOf(x))
      BY <3>3, HunkIsInterval DEF Hunks!Only
    <3>5. Hunks!OldCurrent(x) = BeforeBut("new", x) + 1
      BY <3>3, <3>4, CurrentIs
    <3> QED
      BY <2>2, <3>1, <3>2, <3>5
  <2> QED
    BY <2>1, <2>2
<1>6. Hunks!NewStart(S) = BeforeBut("old", m) + IF Hunks!Only("new", S) = {} THEN 0 ELSE 1
  <2>1. CASE Hunks!Only("new", S) = {}
    <3>1. Hunks!NewStart(S) = Hunks!NewCurrent(m)
      BY <1>3, <2>1 DEF Hunks!NewStart
    <3> QED
      BY <2>1, <3>1, CurrentIs DEF S
  <2>2. CASE Hunks!Only("new", S) # {}
    <3> DEFINE x == Hunks!Min(Hunks!Only("new", S))
    <3>1. x \in Hunks!Only("new", S) /\ BeforeBut("old", x) = BeforeBut("old", m)
      BY <1>4, <2>2
    <3>2. Hunks!NewStart(S) = Hunks!NewCurrent(x)
      BY <2>2 DEF Hunks!NewStart
    <3> HIDE DEF x
    <3>3. x \in Hunks!Changed /\ script[x] = "new"
      BY <1>2, <3>1 DEF Hunks!Only
    <3>4. x \in Hunks!Only("new", Hunks!HunkOf(x))
      BY <3>3, HunkIsInterval DEF Hunks!Only
    <3>5. Hunks!NewCurrent(x) = BeforeBut("old", x) + 1
      BY <3>3, <3>4, CurrentIs
    <3> QED
      BY <2>2, <3>1, <3>2, <3>5
  <2> QED
    BY <2>1, <2>2
<1> QED
  BY <1>5, <1>6 DEF S

\* The lines of the index before the next hunk
Above == {j \in Standing : j < Hunks!Min(hunkTodo)}

\* With whole hunks from the top, the next hunk is a hunk of the diff, the changes above it
\* are made, and its lines are side by side in the index, after those above it.
LEMMA PrefixHunkIs ==
  ASSUME SelectionInv, hunkTodo # {}, Hunks!SelectsPrefix
  PROVE  LET m == Hunks!Min(hunkTodo)
             p == Cardinality(Above)
             k == Cardinality(Sources(NextHunk))
         IN  /\ NextHunk = Hunks!HunkOf(m)
             /\ Above = {j \in 1 .. m - 1 : script[j] # SourceKind}
             /\ p \in Nat /\ k \in Nat /\ p + k <= Len(image)
             /\ \A i \in 1 .. p : image[i] < m
             /\ \A l \in 1 .. k : image[p + l] = Hunks!Preimage(NextHunk)[l]
             /\ \A i \in p + k + 1 .. Len(image), j \in NextHunk : j < image[i]
<1> DEFINE n == Len(script)
           m == Hunks!Min(hunkTodo)
           p == Cardinality(Above)
           S == NextHunk
           sources == Sources(S)
           k == Cardinality(sources)
           q == Hunks!Preimage(S)
<1>0. IsScript /\ InPrefix /\ hunkTodo \in SUBSET Hunks!Asked
  BY DEF SelectionInv, SelectionTypes
<1>1. /\ n \in Nat /\ \A i \in 1 .. n : script[i] \in {"both", "old", "new"} /\ i \in Nat
      /\ Hunks!Changed = {i \in 1 .. n : script[i] # "both"} /\ DOMAIN script = 1 .. n
      /\ Standing \in SUBSET (1 .. n) /\ Standing \in SUBSET Nat /\ IsFiniteSet(Standing)
      /\ Hunks!Asked \in SUBSET Hunks!Changed
  BY <1>0, EntriesAre
<1>2. /\ m \in S /\ S \in SUBSET hunkTodo /\ S \in SUBSET Hunks!Changed /\ S \in SUBSET (1 .. n)
      /\ \A j \in hunkTodo : m <= j
      /\ \A j \in S, i \in Nat : m <= i /\ i <= j => i \in S
  BY NextHunkIs
<1>3. m \in hunkTodo /\ m \in Hunks!Asked /\ m \in Hunks!Changed /\ m \in 1 .. n
  BY <1>0, <1>1, <1>2
<1>4. S = Hunks!HunkOf(m)
  <2> DEFINE h == Hunks!HunkOf(m)
  <2>1. /\ h \in SUBSET Hunks!Changed /\ m \in h
        /\ \A j \in h, i \in Nat : (j <= i /\ i <= m) \/ (m <= i /\ i <= j) => i \in h
    BY <1>0, <1>3, HunkIsInterval
  <2>2. h \in SUBSET hunkTodo
    BY <1>0, <1>3 DEF InPrefix
  <2>3. S = {b \in hunkTodo : b >= m /\ m .. b \in SUBSET hunkTodo}
    BY DEF NextHunk, Hunks!Segment
  <2>4. h = {j \in 1 .. n : \A i \in (j .. m) \cup (m .. j) : script[i] # "both"}
    BY <1>0, EntriesAre DEF Hunks!HunkOf
  <2> HIDE DEF h, m, S, n
  <2>5. ASSUME NEW j \in S PROVE j \in h
    <3>1. j \in 1 .. n /\ j \in Nat /\ m <= j
      BY <1>1, <1>2
    <3>2. \A i \in m .. j : script[i] # "both"
      BY <1>1, <1>2, <1>3, <3>1
    <3>3. ASSUME NEW i \in j .. m PROVE i \in m .. j
      BY <1>1, <1>3, <3>1
    <3> QED
      BY <2>4, <3>1, <3>2, <3>3
  <2>6. ASSUME NEW j \in h PROVE j \in S
    <3>1. j \in hunkTodo /\ m <= j /\ j \in 1 .. n /\ j \in Nat /\ m \in Nat
      BY <1>1, <1>2, <1>3, <2>1, <2>2
    <3>2. \A i \in m .. j : i \in hunkTodo
      BY <2>1, <2>2, <3>1
    <3> QED
      BY <2>3, <3>1, <3>2
  <2>7. S = h
    BY <2>5, <2>6
  <2> QED
    BY <2>7 DEF h, m, S
<1>5. /\ q = Listed(sources) /\ sources \in SUBSET S /\ sources \in SUBSET Nat /\ IsFiniteSet(sources)
      /\ Len(q) = k /\ k \in Nat
  BY <1>0, <1>2, ImagesAre
<1>6. \A i \in S : i \in sources <=> script[i] = SourceKind
  BY DEF Sources, Hunks!Only
<1>7. \A i \in Standing : i \in S <=> i \in sources
  <2>1. ASSUME NEW i \in Standing, i \in S PROVE i \in sources
    <3>1. i \notin Made /\ script[i] # "both"
      BY <1>1, <1>2, <2>1 DEF Made
    <3> QED
      BY <1>6, <2>1, <3>1 DEF Standing
  <2> QED
    BY <1>5, <2>1
<1>8. sources \in SUBSET Standing
  <2> SUFFICES ASSUME NEW i \in sources PROVE i \in Standing
    OBVIOUS
  <2>1. i \in S /\ i \notin Made /\ i \in 1 .. n /\ script[i] = SourceKind
    BY <1>2, <1>5, <1>6 DEF Made
  <2> QED
    BY <1>1, <2>1 DEF Standing
<1>9. Above = {j \in Standing : j < m}
  BY DEF Above
<1>10. Above = {j \in 1 .. m - 1 : script[j] # SourceKind}
  <2>1. ASSUME NEW j \in 1 .. n, j < m, script[j] # "both" PROVE j \in Made
    <3>1. j \in Hunks!Asked
      BY <1>1, <1>3, <2>1 DEF Hunks!SelectsPrefix
    <3>2. j \notin hunkTodo
      BY <1>1, <1>2, <1>3, <2>1
    <3> QED
      BY <3>1, <3>2 DEF Made
  <2>2. SourceKind # "both" /\ TargetKind # "both" /\ SourceKind # TargetKind
        /\ {"both", "old", "new"} = {"both", SourceKind, TargetKind}
    BY DEF SourceKind, TargetKind
  <2>3. ASSUME NEW j \in 1 .. n, j < m PROVE j \in Standing <=> script[j] # SourceKind
    BY <1>1, <2>1, <2>2, <2>3 DEF Standing
  <2>4. \A j \in 1 .. m - 1 : j \in 1 .. n /\ j < m
    BY <1>1, <1>3
  <2>5. \A j \in Standing : j < m => j \in 1 .. m - 1
    BY <1>1, <1>3
  <2> QED
    BY <1>1, <1>9, <2>3, <2>4, <2>5
<1> HIDE DEF n, m, S, sources, q
<1>11. IsFiniteSet(Above) /\ p \in Nat /\ Above \in SUBSET Standing
  BY <1>1, <1>9, FS_Subset, FS_CardinalityType
<1> HIDE DEF p, k
\* the places of the lines of the hunk
<1>12. ASSUME NEW x \in Nat, m <= x, \E j \in S : x <= j
       PROVE  Rank(Standing, x) = p + Rank(sources, x) /\ Rank(sources, x) \in Nat /\ Rank(sources, x) <= k
  <2> DEFINE part == {j \in sources : j <= x}
  <2>1. {j \in Standing : j <= x} = Above \cup part
    <3>1. ASSUME NEW j \in Standing, j <= x PROVE j \in Above \cup part
      <4>1. j \in Nat /\ m \in Nat
        BY <1>1, <1>3
      <4>2. CASE j < m
        BY <1>9, <4>2
      <4>3. CASE ~(j < m)
        <5>1. PICK y \in S : x <= y
          BY <1>12
        <5>2. y \in Nat /\ m <= j /\ j <= y
          BY <1>1, <1>2, <3>1, <4>1, <4>3, <5>1
        <5>3. j \in S
          BY <1>2, <4>1, <5>2
        <5> QED
          BY <1>7, <3>1, <5>3
      <4> QED
        BY <4>2, <4>3
    <3>2. ASSUME NEW j \in Above PROVE j \in Standing /\ j <= x
      BY <1>1, <1>3, <1>9, <1>12
    <3>3. ASSUME NEW j \in part PROVE j \in Standing /\ j <= x
      BY <1>8
    <3> QED
      BY <3>1, <3>2, <3>3
  <2>2. Above \cap part = {}
    <3> SUFFICES ASSUME NEW j \in Above, j \in part PROVE FALSE
      OBVIOUS
    <3>1. j < m /\ m <= j /\ j \in Nat /\ m \in Nat
      BY <1>1, <1>2, <1>3, <1>5, <1>9
    <3> QED
      BY <3>1
  <2>3. IsFiniteSet(part) /\ Cardinality(part) <= k
    BY <1>5, FS_Subset DEF k
  <2>4. Cardinality(Above \cup part) = p + Cardinality(part) /\ Cardinality(part) \in Nat
    BY <1>11, <2>2, <2>3, Apart DEF p
  <2> QED
    BY <2>1, <2>3, <2>4 DEF Rank
<1>13. /\ image = Listed(Standing) /\ Len(image) = Cardinality(Standing) /\ Len(image) \in Nat
       /\ \A i \in Standing : Rank(Standing, i) \in 1 .. Len(image) /\ image[Rank(Standing, i)] = i
       /\ \A i \in 1 .. Len(image) : image[i] \in Standing /\ Rank(Standing, image[i]) = i
  <2>1. image = Listed(Standing)
    BY <1>0, <1>1, ListedIsOnly DEF SelectionInv, InPrefix, Ascends, Lists
  <2> QED
    BY <1>1, <2>1, ListedInOrder
<1>14. p + k <= Len(image)
  <2>1. Above \cap sources = {}
    <3> SUFFICES ASSUME NEW j \in Above, j \in sources PROVE FALSE
      OBVIOUS
    <3>1. j < m /\ m <= j /\ j \in Nat /\ m \in Nat
      BY <1>1, <1>2, <1>3, <1>5, <1>9
    <3> QED
      BY <3>1
  <2>2. Cardinality(Above \cup sources) = p + k
    BY <1>5, <1>11, <2>1, Apart DEF p, k
  <2>3. Above \cup sources \in SUBSET Standing
    BY <1>8, <1>11
  <2>4. Cardinality(Above \cup sources) <= Cardinality(Standing)
    BY <1>1, <2>3, FS_Subset
  <2> QED
    BY <1>13, <2>2, <2>4
<1>15. ASSUME NEW i \in 1 .. p PROVE image[i] < m
  <2>1. i \in 1 .. Len(image)
    BY <1>5, <1>11, <1>13, <1>14
  <2> DEFINE x == image[i]
  <2>2. x \in Standing /\ Rank(Standing, x) = i /\ x \in Nat /\ m \in Nat
    BY <1>1, <1>3, <1>13, <2>1
  <2> HIDE DEF x
  <2>3. ASSUME m <= x PROVE FALSE
    <3>0. ASSUME NEW y \in Above PROVE y \in Standing /\ y <= x /\ y # x
      <4>1. y \in Standing /\ y < m /\ y \in Nat
        BY <1>1, <1>9
      <4> QED
        BY <2>2, <2>3, <4>1
    <3>1. Above \cap {x} = {} /\ Above \cup {x} \in SUBSET {j \in Standing : j <= x}
      BY <2>2, <3>0
    <3>2. IsFiniteSet({x}) /\ Cardinality({x}) = 1
      BY FS_Singleton
    <3>3. Cardinality(Above \cup {x}) = p + 1
      BY <1>11, <3>1, <3>2, Apart DEF p
    <3>4. IsFiniteSet({j \in Standing : j <= x})
      BY <1>1, FS_Subset
    <3>5. p + 1 <= Rank(Standing, x)
      BY <3>1, <3>3, <3>4, FS_Subset DEF Rank
    <3> QED
      BY <1>11, <2>2, <3>5
  <2> QED
    BY <2>2, <2>3 DEF x
<1>16. ASSUME NEW l \in 1 .. k PROVE image[p + l] = q[l]
  <2>1. q[l] \in sources /\ Rank(sources, q[l]) = l
    BY <1>5, ListedInOrder DEF k
  <2>2. q[l] \in Nat /\ m <= q[l] /\ q[l] \in S /\ q[l] <= q[l] /\ q[l] \in Standing
    <3>1. q[l] \in S /\ q[l] \in Nat /\ q[l] \in Standing
      BY <1>5, <1>8, <2>1
    <3>2. m <= q[l]
      BY <1>2, <3>1
    <3> QED
      BY <3>1, <3>2
  <2>3. Rank(Standing, q[l]) = p + l
    BY <1>12, <2>1, <2>2
  <2> QED
    BY <1>13, <2>2, <2>3
<1>17. ASSUME NEW i \in p + k + 1 .. Len(image), NEW j \in S PROVE j < image[i]
  <2> DEFINE x == image[i]
  <2>1. i \in 1 .. Len(image) /\ i > p + k
    BY <1>5, <1>11, <1>13
  <2>2. x \in Standing /\ Rank(Standing, x) = i /\ x \in Nat /\ m \in Nat /\ j \in Nat
    BY <1>1, <1>2, <1>3, <1>13, <2>1
  <2> HIDE DEF x
  <2>3. ASSUME x <= j PROVE FALSE
    <3>1. CASE m <= x
      <4>1. Rank(Standing, x) = p + Rank(sources, x) /\ Rank(sources, x) \in Nat /\ Rank(sources, x) <= k
        BY <1>12, <2>2, <2>3, <3>1
      <4> QED
        BY <1>5, <1>11, <2>1, <2>2, <4>1
    <3>2. CASE ~(m <= x)
      <4>1. {y \in Standing : y <= x} \in SUBSET Above
        <5> SUFFICES ASSUME NEW y \in Standing, y <= x PROVE y \in Above
          OBVIOUS
        <5>1. y \in Nat /\ y < m
          BY <1>1, <2>2, <3>2
        <5> QED
          BY <1>9, <5>1
      <4>2. Rank(Standing, x) <= p
        BY <1>11, <4>1, FS_Subset DEF Rank, p
      <4> QED
        BY <1>5, <1>11, <2>1, <2>2, <4>2
    <3> QED
      BY <3>1, <3>2
  <2> QED
    BY <2>2, <2>3 DEF x
<1> QED
  BY <1>4, <1>5, <1>10, <1>11, <1>14, <1>15, <1>16, <1>17 DEF m, p, k, q, S, sources

\* With whole hunks from the top, git applies the next hunk after the lines above it.
LEMMA PrefixPlaceIs ==
  ASSUME SelectionInv, hunkTodo # {}, Hunks!SelectsPrefix
  PROVE  Hunks!Places(NextHunk) # {} /\ Hunks!Place(NextHunk) = Cardinality(Above)
<1> DEFINE n == Len(script)
           m == Hunks!Min(hunkTodo)
           p == Cardinality(Above)
           S == NextHunk
           k == Cardinality(Sources(S))
           q == Hunks!Preimage(S)
           places == Hunks!Places(S)
<1>0. IsScript /\ image \in Seq(Standing) /\ \A i, j \in 1 .. Len(image) : image[i] = image[j] => i = j
  BY DEF SelectionInv, SelectionTypes, Lists
<1>1. /\ n \in Nat /\ Hunks!Changed = {i \in 1 .. n : script[i] # "both"}
      /\ DOMAIN script = 1 .. n /\ Hunks!Entries = 1 .. n
      /\ Standing \in SUBSET Nat /\ Len(image) \in Nat
      /\ \A i \in 1 .. n : i \in Nat
  BY <1>0, EntriesAre
<1>2. /\ m \in S /\ S \in SUBSET hunkTodo /\ S \in SUBSET Hunks!Changed /\ S # {}
      /\ m \in Hunks!Changed /\ m \in 1 .. n /\ m \in Nat
      /\ \A j \in S : m <= j
  BY <1>1, NextHunkIs
<1>3. /\ S = Hunks!HunkOf(m) /\ Above = {j \in 1 .. m - 1 : script[j] # SourceKind}
      /\ p \in Nat /\ k \in Nat /\ p + k <= Len(image)
      /\ \A l \in 1 .. k : image[p + l] = q[l]
  BY PrefixHunkIs
<1>4. /\ Len(q) = k /\ Hunks!Range(q) = Sources(S) /\ q \in Seq(Sources(S))
      /\ Sources(S) \in SUBSET S /\ Targets(S) \in SUBSET S
  BY <1>0, <1>2, ImagesAre DEF Lists
<1>5. /\ Hunks!Source(S) = BeforeBut(TargetKind, m) + IF Sources(S) = {} THEN 0 ELSE 1
      /\ Hunks!Target(S) = p + IF Targets(S) = {} THEN 0 ELSE 1
      /\ BeforeBut(TargetKind, m) \in Nat
  <2>1. BeforeBut(SourceKind, m) = p
    BY <1>3 DEF BeforeBut
  <2>2. /\ Hunks!OldStart(S) = BeforeBut("new", m) + IF Hunks!Only("old", S) = {} THEN 0 ELSE 1
        /\ Hunks!NewStart(S) = BeforeBut("old", m) + IF Hunks!Only("new", S) = {} THEN 0 ELSE 1
        /\ BeforeBut("new", m) \in Nat /\ BeforeBut("old", m) \in Nat
    <3>1. \A j \in Hunks!HunkOf(m) : m <= j
      BY <1>2, <1>3
    <3> QED
      BY <1>0, <1>2, <1>3, <3>1, StartsAre, CurrentIs
  <2>3. CASE reverse
    BY <2>1, <2>2, <2>3
      DEF Hunks!Source, Hunks!Target, Sources, Targets, SourceKind, TargetKind
  <2>4. CASE ~reverse
    BY <2>1, <2>2, <2>4
      DEF Hunks!Source, Hunks!Target, Sources, Targets, SourceKind, TargetKind
  <2> QED
    BY <2>3, <2>4
<1>6. Sources(S) = {} => Targets(S) # {} /\ k = 0
  <2>1. script[m] = SourceKind \/ script[m] = TargetKind
    BY <1>0, <1>1, <1>2, EntriesAre DEF SourceKind, TargetKind
  <2>2. m \in Sources(S) \/ m \in Targets(S)
    BY <1>2, <2>1 DEF Sources, Targets, Hunks!Only
  <2> QED
    BY <2>2, FS_EmptySet
\* without a line of the version git reads, the hunk is the first thing of the diff
<1>7. Hunks!Source(S) = 0 => p = 0
  <2> SUFFICES ASSUME Hunks!Source(S) = 0 PROVE p = 0
    OBVIOUS
  <2> DEFINE others == {j \in 1 .. m - 1 : script[j] # TargetKind}
  <2>1. others = {}
    <3>1. Cardinality(others) = 0
      BY <1>5 DEF BeforeBut
    <3>2. IsFiniteSet(others)
      BY <1>2, Bounded
    <3> QED
      BY <3>1, <3>2, FS_EmptySet
  <2>2. m = 1
    <3> SUFFICES ASSUME m # 1 PROVE FALSE
      OBVIOUS
    <3>1. m - 1 \in 1 .. m - 1 /\ m - 1 \in 1 .. n
      BY <1>1, <1>2
    <3>2. script[m - 1] # "both" /\ script[m] # "both"
      BY <1>1, <1>2, <2>1, <3>1 DEF TargetKind
    <3>3. (m - 1 .. m) \cup (m .. m - 1) = {m - 1, m}
      BY <1>2
    <3>4. m - 1 \in Hunks!HunkOf(m)
      BY <1>1, <3>1, <3>2, <3>3 DEF Hunks!HunkOf
    <3> QED
      BY <1>2, <1>3, <3>4
  <2>3. Above = {}
    BY <1>3, <2>2
  <2> QED
    BY <2>3, FS_EmptySet
<1> HIDE DEF n, m, p, S, k, q
<1>8. p \in places
  <2>1. p \in 0 .. Len(image) - Len(q)
    BY <1>1, <1>3, <1>4
  <2>2. SubSeq(image, p + 1, p + Len(q)) = q
    <3> DEFINE r == SubSeq(image, p + 1, p + k)
    <3>1. Len(r) = k /\ DOMAIN r = 1 .. k /\ \A l \in 1 .. k : r[l] = image[p + l]
      BY <1>0, <1>1, <1>3
    <3>2. r = [l \in 1 .. k |-> r[l]] /\ q = [l \in 1 .. k |-> q[l]]
      <4>1. r \in Seq(Standing)
        BY <1>0, <1>1, <1>3
      <4> HIDE DEF r
      <4> QED
        BY <1>4, <3>1, <4>1
    <3> HIDE DEF r
    <3>3. r = q
      BY <1>3, <3>1, <3>2
    <3> QED
      BY <1>4, <3>3 DEF r
  <2>3. Hunks!Range(q) \cap patched = {}
    <3> SUFFICES ASSUME NEW x \in Sources(S), x \in patched PROVE FALSE
      BY <1>4
    <3>1. script[x] = SourceKind /\ script[x] = TargetKind
      BY DEF Sources, Hunks!Only, SelectionInv
    <3> QED
      BY <3>1 DEF SourceKind, TargetKind
  <2> QED
    BY <1>7, <2>1, <2>2, <2>3 DEF Hunks!Places, q
<1>9. ASSUME NEW x \in places PROVE x \in 0 .. Len(image) - k /\ \A l \in 1 .. k : image[x + l] = q[l]
  <2>1. x \in 0 .. Len(image) - k /\ SubSeq(image, x + 1, x + k) = q
    BY <1>4 DEF Hunks!Places, q
  <2>2. \A l \in 1 .. k : SubSeq(image, x + 1, x + k)[l] = image[x + l]
    BY <1>0, <1>1, <1>3, <2>1
  <2> QED
    BY <2>1, <2>2
<1>10. /\ Hunks!Expected(S) \in 0 .. Len(image)
       /\ Hunks!Place(S) \in places
       /\ \A x \in places : Hunks!Distance(Hunks!Place(S), S) <= Hunks!Distance(x, S)
  <2>1. image \in Seq(Nat)
    <3>1. image \in Seq(Standing) /\ \A i \in Standing : i \in Nat
      BY <1>0, <1>1
    <3> QED
      BY <3>1
  <2> QED
    BY <1>0, <1>2, <1>8, <2>1, PlaceIs
<1>11. Hunks!Place(S) = p
  <2> DEFINE x == Hunks!Place(S)
  <2>1. x \in 0 .. Len(image) - k /\ \A l \in 1 .. k : image[x + l] = q[l]
    BY <1>9, <1>10
  <2> HIDE DEF x
  <2>2. CASE k # 0
    <3>1. 1 \in 1 .. k /\ x + 1 \in 1 .. Len(image) /\ p + 1 \in 1 .. Len(image)
      BY <1>1, <1>3, <2>1, <2>2
    <3>2. image[x + 1] = image[p + 1]
      BY <1>3, <2>1, <3>1
    <3>3. x + 1 = p + 1
      BY <1>0, <3>1, <3>2
    <3> QED
      BY <1>1, <1>3, <2>1, <3>3 DEF x
  <2>3. CASE Hunks!Source(S) = 0
    <3>1. x = 0
      BY <1>10, <2>3 DEF Hunks!Places, x
    <3> QED
      BY <1>7, <2>3, <3>1 DEF x
  <2>4. CASE k = 0 /\ Hunks!Source(S) # 0
    <3>1. Sources(S) = {}
      <4>1. IsFiniteSet(Sources(S))
        BY <1>0, <1>2, ImagesAre
      <4> QED
        BY <2>4, <4>1, FS_EmptySet DEF k
    <3>2. Hunks!Target(S) = p + 1
      BY <1>5, <1>6, <3>1
    <3>3. Hunks!Expected(S) = p
      BY <1>1, <1>3, <2>4, <3>2 DEF Hunks!Expected
    <3>4. Hunks!Distance(p, S) = 0
      BY <1>3, <3>3 DEF Hunks!Distance
    <3>5. Hunks!Distance(x, S) <= 0
      BY <1>8, <1>10, <3>4 DEF x
    <3>6. x \in Nat
      BY <2>1
    <3>7. x = p
      BY <1>3, <3>3, <3>5, <3>6 DEF Hunks!Distance
    <3> QED
      BY <3>7 DEF x
  <2> QED
    BY <2>2, <2>3, <2>4
<1> QED
  BY <1>8, <1>11 DEF S, p

-----------------------------------------------------------------------------
(* The steps *)

\* What no hunk changes.
LEMMA SelectionFrame ==
  ASSUME UNCHANGED <<reverse, script, oldLines, newLines>>
  PROVE  /\ Hunks!Changed' = Hunks!Changed /\ Hunks!Asked' = Hunks!Asked
         /\ \A i : Hunks!HunkOf(i)' = Hunks!HunkOf(i)
         /\ Hunks!SelectsPrefix' <=> Hunks!SelectsPrefix
         /\ SourceKind' = SourceKind /\ TargetKind' = TargetKind
<1>1. Hunks!Changed' = Hunks!Changed /\ Hunks!Entries' = Hunks!Entries
  BY DEF Hunks!Changed, Hunks!Entries
<1>2. \A i : Hunks!OldBefore(i)' = Hunks!OldBefore(i) /\ Hunks!NewBefore(i)' = Hunks!NewBefore(i)
  BY DEF Hunks!OldBefore, Hunks!NewBefore
<1>3. Hunks!Asked' = Hunks!Asked
  BY <1>1, <1>2 DEF Hunks!Asked
<1>4. \A i : Hunks!HunkOf(i)' = Hunks!HunkOf(i)
  BY <1>1 DEF Hunks!HunkOf
<1>5. Hunks!SelectsPrefix' <=> Hunks!SelectsPrefix
  BY <1>1, <1>3, <1>4 DEF Hunks!SelectsPrefix
<1>6. SourceKind' = SourceKind /\ TargetKind' = TargetKind
  BY DEF SourceKind, TargetKind
<1> QED
  BY <1>1, <1>3, <1>4, <1>5, <1>6

\* A hunk that is applied.
LEMMA ApplyHunkInv ==
  ASSUME SelectionInv, Hunks!ApplyHunk
  PROVE  SelectionInv'
<1> DEFINE S == NextHunk
           m == Hunks!Min(hunkTodo)
           sources == Sources(S)
           targets == Targets(S)
           q == Hunks!Preimage(S)
           r == Hunks!Postimage(S)
           p == Hunks!Place(S)
           k == Len(q)
<1>1. /\ hunkTodo # {} /\ ~refused /\ Hunks!Places(S) # {}
      /\ image' = Instead(image, p, k, r)
      /\ patched' = patched \cup Hunks!Range(r)
      /\ hunkTodo' = hunkTodo \ S
      /\ UNCHANGED <<reverse, script, oldLines, newLines, refused>>
  BY DEF Hunks!ApplyHunk, NextHunk, Hunks!Remaining, Instead
<1>2. /\ Hunks!Changed' = Hunks!Changed /\ Hunks!Asked' = Hunks!Asked
      /\ \A i : Hunks!HunkOf(i)' = Hunks!HunkOf(i)
      /\ Hunks!SelectsPrefix' <=> Hunks!SelectsPrefix
      /\ SourceKind' = SourceKind /\ TargetKind' = TargetKind
  BY <1>1, SelectionFrame
<1>3. SelectionTypes'
  BY <1>1 DEF SelectionInv, SelectionTypes, IsScript
<1>4. /\ IsScript /\ hunkTodo \in SUBSET Hunks!Asked /\ Lists(image, Standing)
      /\ patched = {i \in Made : script[i] = TargetKind}
      /\ image \in Seq(Standing) /\ \A i, j \in 1 .. Len(image) : image[i] = image[j] => i = j
  BY DEF SelectionInv, SelectionTypes, Lists
<1>5. /\ m \in S /\ S \in SUBSET hunkTodo /\ S \in SUBSET Hunks!Changed /\ S # {}
      /\ S \in SUBSET (1 .. Len(script))
      /\ \A j \in hunkTodo : m <= j
      /\ \A j \in S, i \in Nat : m <= i /\ i <= j => i \in S
  BY <1>1, NextHunkIs
<1>6. /\ Len(script) \in Nat /\ \A i \in 1 .. Len(script) : i \in Nat
      /\ Hunks!Changed = {i \in 1 .. Len(script) : script[i] # "both"}
      /\ DOMAIN script = 1 .. Len(script)
      /\ \A i \in 1 .. Len(script) : script[i] \in {"both", "old", "new"}
      /\ Hunks!Asked \in SUBSET Hunks!Changed
  BY <1>4, EntriesAre
<1>7. /\ sources \in SUBSET S /\ targets \in SUBSET S
      /\ Lists(q, sources) /\ Lists(r, targets) /\ Ascends(r)
      /\ Hunks!Range(r) = targets /\ k = Cardinality(sources) /\ k \in Nat
  BY <1>4, <1>5, ImagesAre
<1>8. /\ \A i \in S : i \in sources <=> script[i] = SourceKind
      /\ \A i \in S : i \in targets <=> script[i] = TargetKind
      /\ SourceKind # "both" /\ TargetKind # "both" /\ SourceKind # TargetKind
  BY DEF Sources, Targets, Hunks!Only, SourceKind, TargetKind
<1>9. Made' = Made \cup S
  BY <1>1, <1>2, <1>4, <1>5 DEF Made
<1>10. S \cap Made = {}
  BY <1>5 DEF Made
<1> HIDE DEF S, m, sources, targets, q, r, k
<1>11. sources \in SUBSET Standing /\ targets \cap Standing = {}
  <2>1. \A i \in S : i \in DOMAIN script /\ i \notin Made /\ script[i] # "both"
    BY <1>5, <1>6, <1>10
  <2> QED
    BY <1>7, <1>8, <2>1 DEF Standing
<1>12. Standing' = (Standing \ sources) \cup targets
  <2>0. Standing' = {i \in DOMAIN script :
                       \/ script[i] = "both"
                       \/ script[i] = SourceKind /\ i \notin Made \cup S
                       \/ script[i] = TargetKind /\ i \in Made \cup S}
    BY <1>1, <1>2, <1>9 DEF Standing
  <2>1. ASSUME NEW i \in DOMAIN script PROVE i \in Standing' <=> i \in (Standing \ sources) \cup targets
    <3>1. CASE i \in S
      <4>1. i \notin Made /\ (i \in sources <=> script[i] = SourceKind)
            /\ (i \in targets <=> script[i] = TargetKind) /\ script[i] # "both"
        BY <1>5, <1>6, <1>8, <1>10, <3>1
      <4> QED
        BY <1>8, <2>0, <3>1, <4>1 DEF Standing
    <3>2. CASE i \notin S
      BY <1>7, <2>0, <3>2 DEF Standing
    <3> QED
      BY <3>1, <3>2
  <2>2. Standing' \in SUBSET DOMAIN script /\ (Standing \ sources) \cup targets \in SUBSET DOMAIN script
    BY <1>5, <1>6, <1>7, <2>0 DEF Standing
  <2> QED
    BY <2>1, <2>2
<1>13. image \in Seq(Nat)
  <2>1. \A i \in Standing : i \in Nat
    BY <1>4, EntriesAre
  <2> QED
    BY <1>4, <2>1
\* the lines the hunk takes away are where git applies it
<1>14. /\ p \in 0 .. Len(image) - k
       /\ \A l \in 1 .. k : image[p + l] = q[l]
  <2>1. p \in Hunks!Places(S)
    BY <1>1, <1>4, <1>5, <1>13, PlaceIs
  <2>2. p \in 0 .. Len(image) - k /\ SubSeq(image, p + 1, p + k) = q
    BY <2>1 DEF Hunks!Places, q, k
  <2> HIDE DEF p
  <2>3. \A l \in 1 .. k : SubSeq(image, p + 1, p + k)[l] = image[p + l]
    BY <1>4, <1>7, <2>2
  <2> QED
    BY <2>2, <2>3
<1> HIDE DEF p
<1>15. /\ \A l \in 1 .. k : image[p + l] \in sources
       /\ \A x \in sources : \E l \in 1 .. k : image[p + l] = x
  <2>1. /\ \A l \in 1 .. k : q[l] \in sources
        /\ \A x \in sources : \E l \in 1 .. k : q[l] = x
    BY <1>7 DEF Lists, k
  <2> QED
    BY <1>14, <2>1
<1>16. /\ Lists(image', (Standing \ sources) \cup targets)
       /\ (/\ Ascends(image) /\ Ascends(r)
           /\ \A b \in targets : /\ \A i \in 1 .. p : image[i] < b
                                 /\ \A i \in p + k + 1 .. Len(image) : b < image[i])
            => Ascends(image')
  BY <1>1, <1>4, <1>7, <1>11, <1>14, <1>15, Replaced
<1>17. patched' = {i \in Made' : script'[i] = TargetKind'}
  <2>1. patched' = patched \cup targets
    BY <1>1, <1>7
  <2> QED
    BY <1>1, <1>2, <1>4, <1>7, <1>8, <1>9, <2>1
<1>18. ASSUME Hunks!SelectsPrefix PROVE InPrefix'
  <2>1. InPrefix
    BY <1>18 DEF SelectionInv
  <2>2. /\ p = Cardinality(Above) /\ p \in Nat /\ S = Hunks!HunkOf(m)
        /\ \A i \in 1 .. p : image[i] < m
        /\ \A i \in p + k + 1 .. Len(image), j \in S : j < image[i]
    BY <1>1, <1>7, <1>18, PrefixHunkIs, PrefixPlaceIs DEF S, m, p, sources
  <2>3. Ascends(image')
    <3>1. ASSUME NEW b \in targets, NEW i \in 1 .. p PROVE image[i] < b
      <4>1. image[i] < m /\ m <= b /\ m \in Nat /\ b \in Nat
        BY <1>5, <1>6, <1>7, <2>2
      <4>2. image[i] \in Nat
        BY <1>7, <1>13, <1>14, <2>2
      <4> QED
        BY <4>1, <4>2
    <3>2. ASSUME NEW b \in targets, NEW i \in p + k + 1 .. Len(image) PROVE b < image[i]
      BY <1>7, <2>2
    <3> QED
      BY <1>7, <1>16, <2>1, <3>1, <3>2 DEF InPrefix
  <2>4. ASSUME NEW i \in hunkTodo \ S, NEW j \in Hunks!HunkOf(i) PROVE j \in hunkTodo \ S
    <3>1. j \in hunkTodo
      BY <2>1, <2>4 DEF InPrefix
    <3>2. ASSUME j \in S PROVE FALSE
      <4>1. i \in 1 .. Len(script) /\ j \in 1 .. Len(script) /\ i \in Nat /\ j \in Nat
            /\ m \in 1 .. Len(script) /\ m \in Nat /\ m <= j /\ m <= i
        BY <1>4, <1>5, <1>6, <3>1
      <4>2. j < i
        BY <1>5, <2>4, <3>2, <4>1
      <4>3. \A l \in j .. i : script[l] # "both"
        BY <1>4, <1>6, <4>1, EntriesAre DEF Hunks!HunkOf
      <4>4. \A l \in m .. j : script[l] # "both"
        BY <1>5, <1>6, <3>2, <4>1
      <4>5. ASSUME NEW l \in (i .. m) \cup (m .. i) PROVE script[l] # "both"
        <5>1. l \in m .. j \/ l \in j .. i
          BY <4>1, <4>2
        <5> QED
          BY <4>3, <4>4, <5>1
      <4>6. i \in Hunks!HunkOf(m)
        BY <1>4, <4>1, <4>5, EntriesAre DEF Hunks!HunkOf
      <4> QED
        BY <2>2, <2>4, <4>6
    <3> QED
      BY <3>1, <3>2
  <2> QED
    BY <1>1, <1>2, <2>1, <2>3, <2>4 DEF InPrefix
<1>19. Lists(image', Standing')
  BY <1>12, <1>16
<1>20. Lists(image, Standing)'
  BY <1>19 DEF Lists
<1>21. hunkTodo' \in SUBSET Hunks!Asked'
  BY <1>1, <1>2, <1>4
<1> QED
  BY <1>2, <1>3, <1>17, <1>18, <1>20, <1>21 DEF SelectionInv

\* A hunk git apply finds no place for: never one of whole hunks from the top.
LEMMA RefuseInv ==
  ASSUME SelectionInv, Hunks!Refuse
  PROVE  SelectionInv'
<1>1. /\ hunkTodo # {} /\ Hunks!Places(NextHunk) = {} /\ refused' = TRUE
      /\ UNCHANGED <<reverse, script, oldLines, newLines, hunkTodo, image, patched>>
  BY DEF Hunks!Refuse, NextHunk
<1>2. ~Hunks!SelectsPrefix
  BY <1>1, PrefixPlaceIs
<1>3. /\ Hunks!Asked' = Hunks!Asked /\ (Hunks!SelectsPrefix' <=> Hunks!SelectsPrefix)
      /\ SourceKind' = SourceKind /\ TargetKind' = TargetKind
  BY <1>1, SelectionFrame
<1>4. Made' = Made
  BY <1>1, <1>3 DEF Made
<1>5. Standing' = Standing
  BY <1>1, <1>3, <1>4 DEF Standing
<1>6. Lists(image, Standing)'
  BY <1>1, <1>5 DEF SelectionInv, Lists
<1>7. SelectionTypes'
  BY <1>1 DEF SelectionInv, SelectionTypes, IsScript
<1>8. patched' = {i \in Made' : script'[i] = TargetKind'}
  BY <1>1, <1>3, <1>4 DEF SelectionInv
<1>9. hunkTodo' \in SUBSET Hunks!Asked'
  BY <1>1, <1>3 DEF SelectionInv
<1> QED
  BY <1>2, <1>3, <1>6, <1>7, <1>8, <1>9 DEF SelectionInv

\* Every step keeps the invariant.
LEMMA SelectionStepInv ==
  SelectionInv /\ [Hunks!Next]_hunkVars => SelectionInv'
<1> SUFFICES ASSUME SelectionInv, [Hunks!Next]_hunkVars PROVE SelectionInv'
  OBVIOUS
<1>1. CASE Hunks!ApplyHunk
  BY <1>1, ApplyHunkInv
<1>2. CASE Hunks!Refuse
  BY <1>2, RefuseInv
<1>3. CASE UNCHANGED hunkVars
  <2>1. UNCHANGED <<reverse, script, oldLines, newLines, hunkTodo, image, patched, refused>>
    BY <1>3 DEF hunkVars
  <2>2. /\ Hunks!Asked' = Hunks!Asked /\ (Hunks!SelectsPrefix' <=> Hunks!SelectsPrefix)
        /\ (\A i : Hunks!HunkOf(i)' = Hunks!HunkOf(i))
        /\ SourceKind' = SourceKind /\ TargetKind' = TargetKind
    BY <2>1, SelectionFrame
  <2>3. Made' = Made
    BY <2>1, <2>2 DEF Made
  <2>4. Standing' = Standing
    BY <2>1, <2>2, <2>3 DEF Standing
  <2>5. Lists(image, Standing)'
    BY <2>1, <2>4 DEF SelectionInv, Lists
  <2>6. SelectionTypes'
    BY <2>1 DEF SelectionInv, SelectionTypes, IsScript
  <2>7. InPrefix' <=> InPrefix
    BY <2>1, <2>2 DEF InPrefix, Ascends
  <2>8. patched' = {i \in Made' : script'[i] = TargetKind'}
    BY <2>1, <2>2, <2>3 DEF SelectionInv
  <2>9. hunkTodo' \in SUBSET Hunks!Asked'
    BY <2>1, <2>2 DEF SelectionInv
  <2> QED
    BY <2>2, <2>5, <2>6, <2>7, <2>8, <2>9 DEF SelectionInv
<1> QED
  BY <1>1, <1>2, <1>3 DEF Hunks!Next

\* LocalSystem takes the steps of stage_lines and unstage_lines, and none between them.
THEOREM SelectionIsPart == LocalSpec => Hunks!Spec
<1>1. LocalInit => Hunks!Init
  BY DEF LocalInit
<1>2. [LocalNext]_LocalVars => [Hunks!Next]_Hunks!vars
  <2> SUFFICES ASSUME [LocalNext]_LocalVars PROVE [Hunks!Next]_Hunks!vars
    OBVIOUS
  <2> USE DEF LocalVars, hunkVars, Hunks!vars
  <2>1. CASE LocalNext
    BY <2>1 DEF LocalNext, StoreStep, MailStep, RebaseStep, PicksStep, MergeStep, FeedbackStep, ViewStep,
       SummaryStep, HunksStep, WorktreeStep, CloneStep, ApplyStep, IpcStep
  <2>2. CASE UNCHANGED LocalVars
    BY <2>2
  <2> QED
    BY <2>1, <2>2
<1> QED
  BY <1>1, <1>2, PTL DEF LocalSpec, Hunks!Spec

\* stage_lines and unstage_lines, for diffs of any length: the index has the lines of the
\* selected changes made so far, each once, and, with whole hunks from the top, in order.
THEOREM SelectionInvCorrect == Hunks!Spec => []SelectionInv
<1>1. Hunks!Init => SelectionInv
  BY LocalAssumption, SelectionInit DEF Hunks!SelectionAssumption
<1>2. [Hunks!Next]_Hunks!vars => [Hunks!Next]_hunkVars
  BY DEF Hunks!vars, hunkVars
<1> QED
  BY <1>1, <1>2, SelectionStepInv, PTL DEF Hunks!Spec

\* Whatever lines are staged (unstaged), the index gets those and no others, and whole
\* hunks from the top get to their place.
THEOREM SelectionTheorem == LocalSpec => []SelectionSafety
  BY SelectionIsPart, SelectionInvCorrect, SelectionHolds, PTL
=============================================================================
