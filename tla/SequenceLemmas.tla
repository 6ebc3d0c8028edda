--------------------------- MODULE SequenceLemmas ---------------------------
(***************************************************************************)
(* Facts about the sequence operators that the models are built from, and  *)
(* the least element of a set of numbers, which stands in for induction.   *)
(***************************************************************************)
EXTENDS Integers, Sequences, SequencesExt, SequenceTheorems, FiniteSetTheorems, TLAPS

\* What Python's del s[i] leaves: the other elements, in their order.
LEMMA RemoveAtElements ==
    ASSUME NEW S, NEW s \in Seq(S), NEW i \in DOMAIN s
    PROVE  /\ RemoveAt(s, i) \in Seq(S)
           /\ Len(RemoveAt(s, i)) = Len(s) - 1
           /\ \A j \in 1 .. Len(s) - 1 :
                 RemoveAt(s, i)[j] = IF j < i THEN s[j] ELSE s[j + 1]
  <1> DEFINE a == SubSeq(s, 1, i - 1)
             b == SubSeq(s, i + 1, Len(s))
  <1>1. i \in 1 .. Len(s) /\ Len(s) \in Nat
    OBVIOUS
  <1>2. /\ a \in Seq(S) /\ Len(a) = i - 1
        /\ \A j \in 1 .. i - 1 : a[j] = s[j]
    BY <1>1
  <1>3. /\ b \in Seq(S) /\ Len(b) = Len(s) - i
        /\ \A j \in 1 .. Len(s) - i : b[j] = s[i + j]
    BY <1>1
  <1>4. RemoveAt(s, i) = a \o b
    BY DEF RemoveAt
  <1> HIDE DEF a, b
  <1>5. /\ a \o b \in Seq(S)
        /\ Len(a \o b) = Len(a) + Len(b)
        /\ \A j \in 1 .. Len(a) + Len(b) :
              (a \o b)[j] = IF j <= Len(a) THEN a[j] ELSE b[j - Len(a)]
    BY <1>2, <1>3, ConcatProperties, Zenon
  <1> DEFINE c == a \o b
  <1> HIDE DEF c
  <1>6. ASSUME NEW j \in 1 .. Len(s) - 1
        PROVE  c[j] = IF j < i THEN s[j] ELSE s[j + 1]
    <2>1. j \in 1 .. Len(a) + Len(b)
      BY <1>1, <1>2, <1>3
    <2>2. c[j] = IF j <= Len(a) THEN a[j] ELSE b[j - Len(a)]
      BY <1>5, <2>1 DEF c
    <2>3. CASE j < i
      BY <1>1, <1>2, <2>2, <2>3
    <2>4. CASE ~(j < i)
      <3>1. c[j] = b[j - (i - 1)]
        BY <1>1, <1>2, <2>2, <2>4
      <3>2. j - (i - 1) \in 1 .. Len(s) - i /\ i + (j - (i - 1)) = j + 1
        BY <1>1, <2>4
      <3> QED
        BY <1>3, <2>4, <3>1, <3>2
    <2> QED
      BY <2>3, <2>4
  <1>7. Len(c) = Len(s) - 1
    BY <1>1, <1>2, <1>3, <1>5 DEF c
  <1> QED
    BY <1>4, <1>5, <1>6, <1>7 DEF c

\* Each element that del s[i] leaves is another one of s, and none is lost.
LEMMA RemoveAtKeeps ==
    ASSUME NEW S, NEW s \in Seq(S), NEW i \in DOMAIN s
    PROVE  LET new == RemoveAt(s, i) IN
           /\ \A j \in DOMAIN new : \E k \in DOMAIN s : k # i /\ new[j] = s[k]
           /\ \A k \in DOMAIN s : k # i => \E j \in DOMAIN new : new[j] = s[k]
  <1> DEFINE new == RemoveAt(s, i)
  <1>1. /\ new \in Seq(S)
        /\ Len(new) = Len(s) - 1
        /\ \A j \in 1 .. Len(s) - 1 : new[j] = IF j < i THEN s[j] ELSE s[j + 1]
    BY RemoveAtElements
  <1> HIDE DEF new
  <1>2. i \in 1 .. Len(s) /\ Len(s) \in Nat /\ DOMAIN s = 1 .. Len(s)
    OBVIOUS
  <1>3. DOMAIN new = 1 .. Len(s) - 1
    BY <1>1
  <1>4. \A j \in DOMAIN new : \E k \in DOMAIN s : k # i /\ new[j] = s[k]
    BY <1>1, <1>2, <1>3
  <1>5. ASSUME NEW k \in DOMAIN s, k # i
        PROVE  \E j \in DOMAIN new : new[j] = s[k]
    <2>1. CASE k < i
      BY <1>1, <1>2, <1>3, <1>5, <2>1
    <2>2. CASE k > i
      <3>1. k - 1 \in DOMAIN new /\ new[k - 1] = s[(k - 1) + 1]
        BY <1>1, <1>2, <1>3, <1>5, <2>2
      <3> QED
        BY <1>2, <3>1
    <2> QED
      BY <1>2, <1>5, <2>1, <2>2
  <1> QED
    BY <1>4, <1>5 DEF new

\* The elements of a sequence with an element more.
LEMMA AppendToSet ==
    ASSUME NEW S, NEW s \in Seq(S), NEW e \in S
    PROVE  /\ Append(s, e) \in Seq(S)
           /\ ToSet(Append(s, e)) = ToSet(s) \cup {e}
  <1> DEFINE new == Append(s, e)
  <1>1. /\ new \in Seq(S)
        /\ Len(s) \in Nat /\ DOMAIN s = 1 .. Len(s)
        /\ DOMAIN new = 1 .. Len(s) + 1
        /\ new[Len(s) + 1] = e
        /\ \A j \in DOMAIN s : new[j] = s[j]
    OBVIOUS
  <1> HIDE DEF new
  <1>2. \A j \in DOMAIN new : j \in DOMAIN s \/ j = Len(s) + 1
    BY <1>1
  <1>3. ToSet(new) = ToSet(s) \cup {e}
    BY <1>1, <1>2 DEF ToSet
  <1> QED
    BY <1>1, <1>3 DEF new

\* The elements of two sequences put together.
LEMMA ConcatToSet ==
    ASSUME NEW S, NEW s \in Seq(S), NEW t \in Seq(S)
    PROVE  /\ s \o t \in Seq(S)
           /\ ToSet(s \o t) = ToSet(s) \cup ToSet(t)
  <1> DEFINE new == s \o t
  <1>1. /\ new \in Seq(S)
        /\ Len(new) = Len(s) + Len(t)
        /\ \A j \in 1 .. Len(s) + Len(t) :
              new[j] = IF j <= Len(s) THEN s[j] ELSE t[j - Len(s)]
    BY ConcatProperties, Zenon
  <1> HIDE DEF new
  <1>2. /\ Len(s) \in Nat /\ DOMAIN s = 1 .. Len(s)
        /\ Len(t) \in Nat /\ DOMAIN t = 1 .. Len(t)
        /\ DOMAIN new = 1 .. Len(s) + Len(t)
    BY <1>1
  <1>3. \A j \in DOMAIN new : new[j] \in ToSet(s) \cup ToSet(t)
    <2> SUFFICES ASSUME NEW j \in DOMAIN new PROVE new[j] \in ToSet(s) \cup ToSet(t)
      OBVIOUS
    <2>1. CASE j <= Len(s)
      BY <1>1, <1>2, <2>1 DEF ToSet
    <2>2. CASE ~(j <= Len(s))
      <3>1. j - Len(s) \in DOMAIN t /\ new[j] = t[j - Len(s)]
        BY <1>1, <1>2, <2>2
      <3> QED
        BY <3>1 DEF ToSet
    <2> QED
      BY <2>1, <2>2
  <1>4. \A j \in DOMAIN s : j \in DOMAIN new /\ new[j] = s[j]
    BY <1>1, <1>2
  <1>5. \A j \in DOMAIN t : Len(s) + j \in DOMAIN new /\ new[Len(s) + j] = t[j]
    BY <1>1, <1>2
  <1>6. ToSet(new) = ToSet(s) \cup ToSet(t)
    BY <1>3, <1>4, <1>5 DEF ToSet
  <1> QED
    BY <1>1, <1>6 DEF new

\* A stack whose top is replaced.
LEMMA ReplaceTop ==
    ASSUME NEW S, NEW s \in Seq(S), s # <<>>, NEW e \in S
    PROVE  LET new == <<e>> \o Tail(s) IN
           /\ new \in Seq(S)
           /\ Len(new) = Len(s)
           /\ DOMAIN new = DOMAIN s
           /\ new[1] = e
           /\ \A k \in DOMAIN s : k # 1 => new[k] = s[k]
  <1> DEFINE new == <<e>> \o Tail(s)
  <1>1. /\ Tail(s) \in Seq(S)
        /\ Len(Tail(s)) = Len(s) - 1
        /\ \A k \in 1 .. Len(s) - 1 : Tail(s)[k] = s[k + 1]
    BY HeadTailProperties
  <1>2. <<e>> \in Seq(S) /\ Len(<<e>>) = 1 /\ <<e>>[1] = e
    OBVIOUS
  <1>3. /\ new \in Seq(S)
        /\ Len(new) = 1 + (Len(s) - 1)
        /\ \A k \in 1 .. 1 + (Len(s) - 1) :
              new[k] = IF k <= 1 THEN <<e>>[k] ELSE Tail(s)[k - 1]
    BY <1>1, <1>2, ConcatProperties
  <1> HIDE DEF new
  <1>4. Len(s) \in Nat /\ Len(s) >= 1 /\ DOMAIN s = 1 .. Len(s)
    BY LenProperties, EmptySeq
  <1>5. Len(new) = Len(s) /\ DOMAIN new = DOMAIN s
    BY <1>3, <1>4
  <1>6. new[1] = e
    BY <1>2, <1>3, <1>4
  <1>7. ASSUME NEW k \in DOMAIN s, k # 1
        PROVE  new[k] = s[k]
    <2>1. k - 1 \in 1 .. Len(s) - 1 /\ ~(k <= 1) /\ (k - 1) + 1 = k
      BY <1>4, <1>7
    <2>2. new[k] = Tail(s)[k - 1]
      BY <1>3, <1>4, <2>1
    <2> QED
      BY <1>1, <2>1, <2>2
  <1> QED
    BY <1>3, <1>5, <1>6, <1>7 DEF new

\* A stack with an element more on its top.
LEMMA PushTop ==
    ASSUME NEW S, NEW s \in Seq(S), NEW e \in S
    PROVE  LET new == <<e>> \o s IN
           /\ new \in Seq(S)
           /\ DOMAIN new = 1 .. Len(s) + 1
           /\ new[1] = e
           /\ \A k \in DOMAIN s : new[k + 1] = s[k]
  <1> DEFINE new == <<e>> \o s
  <1>1. <<e>> \in Seq(S) /\ Len(<<e>>) = 1 /\ <<e>>[1] = e
    OBVIOUS
  <1>2. /\ new \in Seq(S)
        /\ Len(new) = 1 + Len(s)
        /\ \A k \in 1 .. 1 + Len(s) :
              new[k] = IF k <= 1 THEN <<e>>[k] ELSE s[k - 1]
    BY <1>1, ConcatProperties
  <1> HIDE DEF new
  <1>3. Len(s) \in Nat /\ DOMAIN s = 1 .. Len(s)
    BY LenProperties
  <1>4. DOMAIN new = 1 .. Len(s) + 1 /\ new[1] = e
    BY <1>1, <1>2, <1>3
  <1>5. ASSUME NEW k \in DOMAIN s
        PROVE  new[k + 1] = s[k]
    <2>1. k + 1 \in 1 .. 1 + Len(s) /\ ~(k + 1 <= 1) /\ (k + 1) - 1 = k
      BY <1>3
    <2> QED
      BY <1>2, <2>1
  <1> QED
    BY <1>2, <1>4, <1>5 DEF new

\* A stack without its top.
LEMMA PopTop ==
    ASSUME NEW S, NEW s \in Seq(S), s # <<>>
    PROVE  /\ Tail(s) \in Seq(S)
           /\ DOMAIN Tail(s) = 1 .. Len(s) - 1
           /\ \A k \in DOMAIN Tail(s) : k + 1 \in DOMAIN s /\ Tail(s)[k] = s[k + 1]
  <1>1. /\ Tail(s) \in Seq(S)
        /\ Len(Tail(s)) = Len(s) - 1
        /\ \A k \in 1 .. Len(Tail(s)) : Tail(s)[k] = s[k + 1]
    BY HeadTailProperties
  <1>2. Len(s) \in Nat /\ DOMAIN s = 1 .. Len(s) /\ DOMAIN Tail(s) = 1 .. Len(s) - 1
    BY <1>1, LenProperties
  <1> QED
    BY <1>1, <1>2

\* A stack without its top, the next element of which is replaced.
LEMMA ReplaceSecond ==
    ASSUME NEW S, NEW s \in Seq(S), Len(s) > 1, NEW e \in S
    PROVE  LET new == <<e>> \o SubSeq(s, 3, Len(s)) IN
           /\ new \in Seq(S)
           /\ DOMAIN new = 1 .. Len(s) - 1
           /\ new[1] = e
           /\ \A k \in DOMAIN new : k # 1 => new[k] = s[k + 1]
  <1> DEFINE rest == SubSeq(s, 3, Len(s))
             new == <<e>> \o rest
  <1>1. Len(s) \in Nat /\ Len(s) >= 2 /\ DOMAIN s = 1 .. Len(s)
    BY LenProperties
  <1>2. /\ rest \in Seq(S)
        /\ Len(rest) = Len(s) - 2
        /\ \A k \in 1 .. Len(s) - 2 : rest[k] = s[k + 2]
    <2>1. \A i \in 3 .. Len(s) : s[i] \in S
      BY <1>1, ElementOfSeq
    <2>2. /\ rest \in Seq(S)
          /\ Len(rest) = IF 3 <= Len(s) THEN Len(s) - 3 + 1 ELSE 0
          /\ \A i \in 1 .. Len(s) - 3 + 1 : rest[i] = s[3 + i - 1]
      BY <1>1, <2>1, SubSeqProperties
    <2> HIDE DEF rest
    <2>3. Len(rest) = Len(s) - 2
      <3>1. CASE 3 <= Len(s)
        BY <1>1, <2>2, <3>1
      <3>2. CASE Len(s) = 2
        BY <2>2, <3>2
      <3>3. \A n \in Nat : n >= 2 => 3 <= n \/ n = 2
        OBVIOUS
      <3>4. Len(s) \in Nat /\ Len(s) >= 2
        BY <1>1
      <3>5. 3 <= Len(s) \/ Len(s) = 2
        BY <3>3, <3>4
      <3> QED
        BY <3>1, <3>2, <3>5
    <2>4. ASSUME NEW k \in 1 .. Len(s) - 2
          PROVE  rest[k] = s[k + 2]
      <3>1. k \in 1 .. Len(s) - 3 + 1 /\ 3 + k - 1 = k + 2
        BY <1>1
      <3> QED
        BY <2>2, <3>1
    <2> QED
      BY <2>2, <2>3, <2>4
  <1>3. <<e>> \in Seq(S) /\ Len(<<e>>) = 1 /\ <<e>>[1] = e
    OBVIOUS
  <1> HIDE DEF rest
  <1>4. /\ new \in Seq(S)
        /\ Len(new) = 1 + (Len(s) - 2)
        /\ \A k \in 1 .. 1 + (Len(s) - 2) :
              new[k] = IF k <= 1 THEN <<e>>[k] ELSE rest[k - 1]
    BY <1>2, <1>3, ConcatProperties
  <1> HIDE DEF new
  <1>5. DOMAIN new = 1 .. Len(s) - 1 /\ new[1] = e
    BY <1>1, <1>3, <1>4
  <1>6. ASSUME NEW k \in DOMAIN new, k # 1
        PROVE  new[k] = s[k + 1]
    <2>1. k - 1 \in 1 .. Len(s) - 2 /\ ~(k <= 1) /\ (k - 1) + 2 = k + 1
      BY <1>1, <1>5, <1>6
    <2>2. new[k] = rest[k - 1]
      BY <1>1, <1>4, <1>5, <2>1
    <2> QED
      BY <1>2, <2>1, <2>2
  <1> QED
    BY <1>4, <1>5, <1>6 DEF new, rest

----------------------------------------------------------------------------
(* Sequences that list a set.                                              *)

\* No element comes twice.
Injective(s) == \A j, k \in DOMAIN s : s[j] = s[k] => j = k

\* Two lists without a common element, put together.
LEMMA ConcatInjective ==
    ASSUME NEW S, NEW s \in Seq(S), NEW t \in Seq(S),
           Injective(s), Injective(t), ToSet(s) \cap ToSet(t) = {}
    PROVE  Injective(s \o t)
  <1> DEFINE new == s \o t
  <1>1. /\ new \in Seq(S)
        /\ Len(new) = Len(s) + Len(t)
        /\ \A j \in 1 .. Len(s) + Len(t) :
              new[j] = IF j <= Len(s) THEN s[j] ELSE t[j - Len(s)]
    BY ConcatProperties, Zenon
  <1> HIDE DEF new
  <1>2. /\ Len(s) \in Nat /\ DOMAIN s = 1 .. Len(s)
        /\ Len(t) \in Nat /\ DOMAIN t = 1 .. Len(t)
        /\ DOMAIN new = 1 .. Len(s) + Len(t)
    BY <1>1
  <1> SUFFICES ASSUME NEW j \in DOMAIN new, NEW k \in DOMAIN new, new[j] = new[k]
               PROVE  j = k
    BY DEF new, Injective
  <1>3. \A i \in DOMAIN new :
           \/ i <= Len(s) /\ i \in DOMAIN s /\ new[i] = s[i]
           \/ ~(i <= Len(s)) /\ i - Len(s) \in DOMAIN t /\ new[i] = t[i - Len(s)]
    BY <1>1, <1>2
  <1>4. \A x \in DOMAIN s, y \in DOMAIN t : s[x] # t[y]
    BY DEF ToSet
  <1>5. CASE j <= Len(s) /\ k <= Len(s)
    BY <1>3, <1>5 DEF Injective
  <1>6. CASE ~(j <= Len(s)) /\ ~(k <= Len(s))
    <2>1. j - Len(s) = k - Len(s)
      BY <1>3, <1>6 DEF Injective
    <2> QED
      BY <1>2, <2>1
  <1> QED
    BY <1>3, <1>4, <1>5, <1>6

\* A list without repetitions is as long as its set is large.
LEMMA CountToSet ==
    ASSUME NEW S, NEW s \in Seq(S), Injective(s)
    PROVE  Cardinality(ToSet(s)) = Len(s)
  <1>1. Len(s) \in Nat /\ DOMAIN s = 1 .. Len(s)
    OBVIOUS
  <1>2. s \in [1 .. Len(s) -> ToSet(s)]
    BY <1>1 DEF ToSet
  <1>3. s \in Bijection(1 .. Len(s), ToSet(s))
    BY <1>1, <1>2 DEF Injective, Bijection, Injection, Surjection, IsInjective, ToSet
  <1> QED
    BY <1>1, <1>3, FS_CountingElements DEF ExistsBijection

\* Two elements one after the other.
LEMMA ConcatPair ==
    ASSUME NEW S, NEW a \in S, NEW b \in S
    PROVE  <<a>> \o <<b>> = <<a, b>>
  <1> DEFINE new == <<a>> \o <<b>>
  <1>1. /\ <<a>> \in Seq(S) /\ Len(<<a>>) = 1 /\ <<a>>[1] = a
        /\ <<b>> \in Seq(S) /\ Len(<<b>>) = 1 /\ <<b>>[1] = b
    OBVIOUS
  <1>2. /\ new \in Seq(S)
        /\ Len(new) = 1 + 1
        /\ \A j \in 1 .. 1 + 1 : new[j] = IF j <= 1 THEN <<a>>[j] ELSE <<b>>[j - 1]
    <2>1. /\ new \in Seq(S)
          /\ Len(new) = Len(<<a>>) + Len(<<b>>)
          /\ \A j \in 1 .. Len(<<a>>) + Len(<<b>>) :
                new[j] = IF j <= Len(<<a>>) THEN <<a>>[j] ELSE <<b>>[j - Len(<<a>>)]
      BY <1>1, ConcatProperties, Zenon
    <2> QED
      BY <1>1, <2>1
  <1> HIDE DEF new
  <1>3. Len(new) = 2 /\ new[1] = a /\ new[2] = b
    BY <1>1, <1>2
  <1> DEFINE pair == <<a, b>>
  <1>4. pair \in Seq(S) /\ Len(pair) = 2 /\ pair[1] = a /\ pair[2] = b
    OBVIOUS
  <1> HIDE DEF pair
  <1>5. new = pair
    BY <1>2, <1>3, <1>4, SeqEqual
  <1> QED
    BY <1>5 DEF new, pair

\* What is left when the head of a sequence is taken off.
LEMMA TailToSet ==
    ASSUME NEW S, NEW s \in Seq(S), s # <<>>
    PROVE  /\ Tail(s) \in Seq(S)
           /\ ToSet(s) = {Head(s)} \cup ToSet(Tail(s))
  <1> DEFINE t == Tail(s)
  <1>1. /\ t \in Seq(S)
        /\ DOMAIN t = 1 .. Len(s) - 1
        /\ \A k \in DOMAIN t : k + 1 \in DOMAIN s /\ t[k] = s[k + 1]
    BY PopTop
  <1>2. Len(s) \in Nat /\ DOMAIN s = 1 .. Len(s) /\ Head(s) = s[1] /\ 1 \in DOMAIN s
    OBVIOUS
  <1> HIDE DEF t
  <1>3. \A k \in DOMAIN s : k = 1 \/ (k - 1 \in DOMAIN t /\ t[k - 1] = s[k])
    <2> SUFFICES ASSUME NEW k \in DOMAIN s, k # 1
                 PROVE  k - 1 \in DOMAIN t /\ t[k - 1] = s[k]
      OBVIOUS
    <2> DEFINE n == Len(s)
    <2>1. n \in Nat /\ k \in 1 .. n /\ DOMAIN t = 1 .. n - 1
      BY <1>1, <1>2
    <2> HIDE DEF n
    <2>2. k - 1 \in DOMAIN t /\ (k - 1) + 1 = k
      BY <2>1
    <2> QED
      BY <1>1, <2>2
  <1>4. ToSet(s) \subseteq {Head(s)} \cup ToSet(t)
    BY <1>2, <1>3 DEF ToSet
  <1>5. {Head(s)} \cup ToSet(t) \subseteq ToSet(s)
    BY <1>1, <1>2 DEF ToSet
  <1> QED
    BY <1>1, <1>4, <1>5 DEF t

----------------------------------------------------------------------------
(* Induction.                                                              *)

\* Every set of natural numbers has a least element: the first number for
\* which a statement would be false.
LEMMA Least ==
    ASSUME NEW T \in SUBSET Nat, T # {}
    PROVE  \E n \in T : \A m \in T : n <= m
  <1> DEFINE R == OpToRel(<, Nat)
  <1>1. IsWellFoundedOn(R, Nat)
    BY NatLessThanWellFounded, Zenon
  <1>2. \A n, m \in Nat : n < m => <<n, m>> \in R
    BY DEF OpToRel
  <1> HIDE DEF R
  <1>3. PICK x \in T : \A y \in T : ~(<<y, x>> \in R)
    BY <1>1, WFMin, Zenon
  <1>4. \A y \in T : ~(y < x)
    BY <1>2, <1>3
  <1> QED
    BY <1>4

\* So has a bounded one a greatest element.
LEMMA Greatest ==
    ASSUME NEW n \in Nat, NEW T \in SUBSET (0 .. n), T # {}
    PROVE  Max(T) \in T /\ \A k \in T : k <= Max(T)
  <1> DEFINE U == {n - k : k \in T}
  <1>1. U \in SUBSET Nat /\ U # {}
    <2>1. \A k \in T : n - k \in Nat
      OBVIOUS
    <2> QED
      BY <2>1
  <1>2. PICK u \in U : \A v \in U : u <= v
    BY <1>1, Least
  <1>3. PICK m \in T : u = n - m
    BY <1>2
  <1>4. \A k \in T : m >= k
    <2> SUFFICES ASSUME NEW k \in T
                 PROVE  m >= k
      OBVIOUS
    <2>1. n - m <= n - k
      BY <1>2, <1>3
    <2> QED
      BY <2>1
  <1>5. Max(T) \in T /\ \A k \in T : Max(T) >= k
    BY <1>4 DEF Max
  <1>6. \A k \in T : k \in Nat
    OBVIOUS
  <1> QED
    BY <1>5, <1>6
=============================================================================
