--------------------------- MODULE SequenceFacts ---------------------------
(***************************************************************************)
(* Facts about numbers and sequences that the proofs of several components *)
(* rest on: one of some numbers is the smallest, what 0 has and every next *)
(* number keeps all numbers have, and what it is to join sequences and to  *)
(* cut them.  A recursive function on numbers is reasoned about by the set *)
(* of the numbers at which it is as it should be (AllNumbers).             *)
(***************************************************************************)
EXTENDS SequencesExt, SequenceTheorems, WellFoundedInduction, TLAPS

-----------------------------------------------------------------------------
(* Numbers.                                                                *)

\* Of some numbers one is the smallest.
LEMMA SmallestOf ==
  ASSUME NEW S, S \subseteq Nat, S # {}
  PROVE  \E k \in S : \A j \in S : k <= j
<1>1. \A j, k \in Nat : <<j, k>> \in OpToRel(<, Nat) <=> j < k
  BY DEF OpToRel
<1>2. PICK before : IsWellFoundedOn(before, Nat) /\ \A j, k \in Nat : <<j, k>> \in before <=> j < k
  BY <1>1, NatLessThanWellFounded, Zenon
<1>3. PICK k \in S : \A j \in S : <<j, k>> \notin before
  <2>1. IsWellFoundedOn(before, Nat)
    BY <1>2
  <2> QED BY <2>1, WFMin, Zenon
<1>4. \A j \in S : ~(j < k)
  BY <1>2, <1>3, Zenon
<1> QED BY <1>4

\* Induction over the numbers, for a set of them.
LEMMA AllNumbers ==
  ASSUME NEW Good, 0 \in Good, \A n \in Nat : n \in Good => n + 1 \in Good
  PROVE  Nat \subseteq Good
<1> SUFFICES ASSUME Nat \ Good # {} PROVE FALSE
  OBVIOUS
<1>1. PICK n \in Nat \ Good : \A m \in Nat \ Good : n <= m
  BY SmallestOf
<1>2. n # 0 /\ n - 1 \in Nat /\ n - 1 \in Good
  BY <1>1
<1> QED BY <1>1, <1>2

-----------------------------------------------------------------------------
(* Sequences of sequences, one after the other.                            *)

\* f joins the sequences of s, one after the other.
Joins(f, s, i) == f[i] = IF i = 1 THEN s[i] ELSE f[i - 1] \o s[i]
Joining(f, s) == \A i \in 1 .. Len(s) : Joins(f, s, i)

LEMMA JoinExists ==
  ASSUME NEW s, Len(s) \in Nat, Len(s) # 0
  PROVE  \E f : Joining(f, s) /\ FlattenSeq(s) = f[Len(s)]
<1> DEFINE After(f) == [i \in 1 .. Len(s) |-> IF i = 1 THEN s[i] ELSE f[i - 1] \o s[i]]
           UpTo == {n \in Nat : \E f : \A i \in 1 .. Len(s) : i <= n => Joins(f, s, i)}
<1>1. 0 \in UpTo
  <2>1. \A i \in 1 .. Len(s) : ~(i <= 0)
    OBVIOUS
  <2> QED BY <2>1
<1>2. ASSUME NEW n \in Nat, n \in UpTo PROVE n + 1 \in UpTo
  <2>1. PICK f : \A i \in 1 .. Len(s) : i <= n => Joins(f, s, i)
    BY <1>2
  <2>2. \A i \in 1 .. Len(s) : After(f)[i] = IF i = 1 THEN s[i] ELSE f[i - 1] \o s[i]
    OBVIOUS
  <2> PICK h : h = After(f)
    OBVIOUS
  <2>3. \A i \in 1 .. Len(s) : i <= n => h[i] = f[i]
    BY <2>1, <2>2 DEF Joins
  <2>4. ASSUME NEW i \in 1 .. Len(s), i <= n + 1 PROVE Joins(h, s, i)
    <3>1. i # 1 => i - 1 \in 1 .. Len(s) /\ i - 1 <= n
      BY <2>4
    <3>2. i # 1 => h[i - 1] = f[i - 1]
      BY <2>3, <3>1
    <3> QED BY <2>2, <3>2 DEF Joins
  <2>5. \E k : \A i \in 1 .. Len(s) : i <= n + 1 => Joins(k, s, i)
    BY <2>4, Zenon
  <2>6. n + 1 \in Nat
    OBVIOUS
  <2> QED BY <2>5, <2>6, Zenon
<1>3. Len(s) \in UpTo
  <2> HIDE DEF UpTo
  <2>1. Nat \subseteq UpTo
    BY <1>1, <1>2, AllNumbers
  <2> QED BY <2>1
<1>4. PICK f : \A i \in 1 .. Len(s) : Joins(f, s, i)
  BY <1>3
<1>5. PICK h : h = After(f)
  OBVIOUS
<1>6. \A i \in 1 .. Len(s) : h[i] = f[i]
  BY <1>4, <1>5 DEF Joins
<1>7. After(f) = After(h)
  <2>1. \A i \in 1 .. Len(s) : i # 1 => i - 1 \in 1 .. Len(s)
    OBVIOUS
  <2>2. \A i \in 1 .. Len(s) : i # 1 => h[i - 1] = f[i - 1]
    BY <1>6, <2>1
  <2> QED BY <2>2
<1> DEFINE Is(k) == k = [i \in 1 .. Len(s) |-> IF i = 1 THEN s[i] ELSE k[i - 1] \o s[i]]
           flatten == CHOOSE k : Is(k)
<1>8. Is(h)
  BY <1>5, <1>7
<1>9. Is(flatten)
  <2> HIDE DEF Is
  <2> QED BY <1>8
<1>10. Joining(flatten, s)
  <2>1. PICK k : k = flatten
    OBVIOUS
  <2>2. k = After(k)
    BY <1>9, <2>1
  <2>3. \A i \in 1 .. Len(s) : Joins(k, s, i)
    BY <2>2 DEF Joins
  <2> QED BY <2>1, <2>3 DEF Joining
<1>11. FlattenSeq(s) = flatten[Len(s)]
  BY DEF FlattenSeq
<1> QED BY <1>10, <1>11

LEMMA FlattenEmpty == FlattenSeq(<<>>) = <<>>
  BY DEF FlattenSeq

\* One more sequence is joined to those before it.
LEMMA FlattenAppend ==
  ASSUME NEW C, NEW s \in Seq(Seq(C)), NEW x \in Seq(C)
  PROVE  FlattenSeq(Append(s, x)) = FlattenSeq(s) \o x
<1> PICK t : t = Append(s, x)
  OBVIOUS
<1>1. /\ t \in Seq(Seq(C)) /\ Len(t) = Len(s) + 1 /\ Len(s) \in Nat /\ t[Len(s) + 1] = x
      /\ \A i \in 1 .. Len(s) : t[i] = s[i]
  OBVIOUS
<1>2. PICK g : Joining(g, t) /\ FlattenSeq(t) = g[Len(t)]
  <2>1. Len(t) \in Nat /\ Len(t) # 0
    BY <1>1
  <2> QED BY <2>1, JoinExists, Zenon
<1>3. CASE Len(s) = 0
  <2>1. FlattenSeq(t) = t[1] /\ FlattenSeq(s) = s /\ s = <<>>
    BY <1>1, <1>2, <1>3 DEF Joining, Joins, FlattenSeq
  <2> QED BY <1>1, <1>3, <2>1
<1>4. CASE Len(s) # 0
  <2>1. PICK f : Joining(f, s) /\ FlattenSeq(s) = f[Len(s)]
    BY <1>1, <1>4, JoinExists
  <2> DEFINE Same == {n \in Nat : n \in 1 .. Len(s) => f[n] = g[n]}
  <2>2. 0 \in Same
    OBVIOUS
  <2>3. ASSUME NEW n \in Nat, n \in Same PROVE n + 1 \in Same
    <3> SUFFICES ASSUME n + 1 \in 1 .. Len(s) PROVE f[n + 1] = g[n + 1]
      OBVIOUS
    <3>1. Joins(f, s, n + 1) /\ Joins(g, t, n + 1) /\ t[n + 1] = s[n + 1]
      BY <1>1, <1>2, <2>1 DEF Joining
    <3>2. n + 1 # 1 => n \in 1 .. Len(s) /\ f[n] = g[n] /\ n + 1 - 1 = n
      BY <2>3
    <3> QED BY <3>1, <3>2 DEF Joins
  <2>4. Nat \subseteq Same
    <3> HIDE DEF Same
    <3> QED BY <2>2, <2>3, AllNumbers
  <2>5. f[Len(s)] = g[Len(s)]
    BY <1>1, <1>4, <2>4
  <2>6. g[Len(s) + 1] = g[Len(s)] \o x
    <3>1. PICK k \in 1 .. Len(t) : k = Len(s) + 1
      BY <1>1
    <3>2. k # 1 /\ k - 1 = Len(s)
      BY <1>1, <1>4, <3>1
    <3>3. g[k] = g[k - 1] \o t[k]
      BY <1>2, <3>2 DEF Joining, Joins
    <3> QED BY <1>1, <3>1, <3>2, <3>3
  <2> QED BY <1>1, <1>2, <2>1, <2>5, <2>6
<1> QED BY <1>3, <1>4

\* What is not empty ends with an element.
LEMMA LastOf ==
  ASSUME NEW D, NEW s \in Seq(D), NEW n \in Nat, Len(s) = n + 1
  PROVE  \E u \in Seq(D), x \in D : s = Append(u, x) /\ Len(u) = n
<1>1. PICK u : u = [i \in 1 .. n |-> s[i]]
  OBVIOUS
<1>2. u \in Seq(D) /\ Len(u) = n /\ s[n + 1] \in D
  BY <1>1
<1>3. s = Append(u, s[n + 1])
  BY <1>1, <1>2
<1> QED BY <1>2, <1>3

\* FlattenSeq takes sequences to one, and joined sequences to joined ones.
LEMMA FlattenType ==
  ASSUME NEW C, NEW s \in Seq(Seq(C))
  PROVE  FlattenSeq(s) \in Seq(C)
<1> DEFINE Good == {n \in Nat : \A t \in Seq(Seq(C)) : Len(t) = n => FlattenSeq(t) \in Seq(C)}
<1>1. 0 \in Good
  <2>1. \A t \in Seq(Seq(C)) : Len(t) = 0 => t = <<>>
    OBVIOUS
  <2>2. <<>> \in Seq(C)
    OBVIOUS
  <2> QED BY <2>1, <2>2, FlattenEmpty
<1>2. ASSUME NEW n \in Nat, n \in Good PROVE n + 1 \in Good
  <2> SUFFICES ASSUME NEW t \in Seq(Seq(C)), Len(t) = n + 1 PROVE FlattenSeq(t) \in Seq(C)
    OBVIOUS
  <2>1. PICK u \in Seq(Seq(C)), x \in Seq(C) : t = Append(u, x) /\ Len(u) = n
    BY LastOf
  <2>2. FlattenSeq(u) \in Seq(C)
    BY <1>2, <2>1
  <2>3. FlattenSeq(t) = FlattenSeq(u) \o x
    BY <2>1, FlattenAppend
  <2> QED BY <2>1, <2>2, <2>3
<1>3. Nat \subseteq Good
  <2> HIDE DEF Good
  <2> QED BY <1>1, <1>2, AllNumbers
<1> QED BY <1>3

LEMMA FlattenJoin ==
  ASSUME NEW C, NEW s \in Seq(Seq(C)), NEW t \in Seq(Seq(C))
  PROVE  FlattenSeq(s \o t) = FlattenSeq(s) \o FlattenSeq(t)
<1> DEFINE Good == {n \in Nat : \A u \in Seq(Seq(C)) :
                      Len(u) = n => FlattenSeq(s \o u) = FlattenSeq(s) \o FlattenSeq(u)}
<1>0. FlattenSeq(s) \in Seq(C)
  BY FlattenType
<1>1. 0 \in Good
  <2>1. \A u \in Seq(Seq(C)) : Len(u) = 0 => u = <<>>
    OBVIOUS
  <2>2. s \o <<>> = s /\ FlattenSeq(s) \o <<>> = FlattenSeq(s)
    BY <1>0
  <2> QED BY <2>1, <2>2, FlattenEmpty
<1>2. ASSUME NEW n \in Nat, n \in Good PROVE n + 1 \in Good
  <2> SUFFICES ASSUME NEW v \in Seq(Seq(C)), Len(v) = n + 1
               PROVE  FlattenSeq(s \o v) = FlattenSeq(s) \o FlattenSeq(v)
    OBVIOUS
  <2>1. PICK u \in Seq(Seq(C)), x \in Seq(C) : v = Append(u, x) /\ Len(u) = n
    BY LastOf
  <2>2. s \o v = Append(s \o u, x) /\ s \o u \in Seq(Seq(C))
    BY <2>1
  <2>3. FlattenSeq(s \o v) = FlattenSeq(s \o u) \o x /\ FlattenSeq(v) = FlattenSeq(u) \o x
    BY <2>1, <2>2, FlattenAppend
  <2>4. FlattenSeq(s \o u) = FlattenSeq(s) \o FlattenSeq(u)
    BY <1>2, <2>1
  <2>5. FlattenSeq(u) \in Seq(C)
    BY <2>1, FlattenType
  <2>6. \A a, b \in Seq(C) : (a \o b) \o x = a \o (b \o x)
    BY <2>1
  <2>7. (FlattenSeq(s) \o FlattenSeq(u)) \o x = FlattenSeq(s) \o (FlattenSeq(u) \o x)
    BY <1>0, <2>5, <2>6, Zenon
  <2> QED BY <2>3, <2>4, <2>7, Zenon
<1>3. Nat \subseteq Good
  <2> HIDE DEF Good
  <2> QED BY <1>1, <1>2, AllNumbers
<1> QED BY <1>3

LEMMA FlattenOne ==
  ASSUME NEW C, NEW x \in Seq(C)
  PROVE  FlattenSeq(<<x>>) = x
<1>1. <<x>> = Append(<<>>, x) /\ <<>> \in Seq(Seq(C)) /\ <<>> \o x = x
  OBVIOUS
<1> QED BY <1>1, FlattenAppend, FlattenEmpty

-----------------------------------------------------------------------------
(* Sequences, joined and cut.                                              *)

\* What follows in a joined sequence.
LEMMA Follows ==
  ASSUME NEW C, NEW a \in Seq(C), NEW b \in Seq(C)
  PROVE  /\ SubSeq(a \o b, Len(a) + 1, Len(a \o b)) = b
         /\ b # <<>> => (a \o b)[Len(a) + 1] = b[1]
<1>1. /\ a \o b \in Seq(C) /\ Len(a \o b) = Len(a) + Len(b) /\ Len(a) \in Nat /\ Len(b) \in Nat
      /\ \A i \in 1 .. Len(b) : (a \o b)[Len(a) + i] = b[i]
  OBVIOUS
<1>2. PICK c : c = SubSeq(a \o b, Len(a) + 1, Len(a \o b))
  OBVIOUS
<1>3. /\ c \in Seq(C) /\ Len(c) = Len(b)
      /\ \A i \in 1 .. Len(c) : c[i] = (a \o b)[Len(a) + i]
  BY <1>1, <1>2
<1>4. \A i \in 1 .. Len(b) : c[i] = b[i]
  BY <1>1, <1>3
<1>5. c = b
  BY <1>3, <1>4
<1>6. ASSUME b # <<>> PROVE (a \o b)[Len(a) + 1] = b[1]
  BY <1>1, <1>6
<1> QED BY <1>2, <1>5, <1>6

\* A sequence, cut at any place.
LEMMA Halves ==
  ASSUME NEW S, NEW path \in Seq(S), NEW k \in 0 .. Len(path)
  PROVE  /\ SubSeq(path, 1, k) \in Seq(S) /\ Len(SubSeq(path, 1, k)) = k
         /\ \A i \in 1 .. k : SubSeq(path, 1, k)[i] = path[i]
         /\ SubSeq(path, k + 1, Len(path)) \in Seq(S)
         /\ Len(SubSeq(path, k + 1, Len(path))) = Len(path) - k
         /\ \A i \in 1 .. Len(path) - k : SubSeq(path, k + 1, Len(path))[i] = path[k + i]
<1>0. Len(path) \in Nat /\ k \in Nat /\ k <= Len(path)
  OBVIOUS
<1>1. PICK a : a = [i \in 1 .. k |-> path[i]]
  OBVIOUS
<1>2. a = SubSeq(path, 1, k)
  BY <1>0, <1>1
<1>3. \A i \in 1 .. k : path[i] \in S
  BY <1>0
<1>4. a \in Seq(S) /\ Len(a) = k /\ \A i \in 1 .. k : a[i] = path[i]
  BY <1>0, <1>1, <1>3
<1>5. PICK b : b = [i \in 1 .. Len(path) - k |-> path[k + i]]
  OBVIOUS
<1>6. b = SubSeq(path, k + 1, Len(path))
  BY <1>0, <1>5
<1>7. \A i \in 1 .. Len(path) - k : path[k + i] \in S
  BY <1>0
<1>8. b \in Seq(S) /\ Len(b) = Len(path) - k /\ \A i \in 1 .. Len(path) - k : b[i] = path[k + i]
  BY <1>0, <1>5, <1>7
<1> QED BY <1>2, <1>4, <1>6, <1>8

\* The two parts of it together.
LEMMA Together ==
  ASSUME NEW S, NEW path \in Seq(S), NEW k \in 0 .. Len(path)
  PROVE  path = SubSeq(path, 1, k) \o SubSeq(path, k + 1, Len(path))
<1> PICK a, b : a = SubSeq(path, 1, k) /\ b = SubSeq(path, k + 1, Len(path))
  OBVIOUS
<1>0. Len(path) \in Nat /\ k \in Nat /\ k <= Len(path)
  OBVIOUS
<1>1. /\ a \in Seq(S) /\ Len(a) = k /\ \A i \in 1 .. k : a[i] = path[i]
      /\ b \in Seq(S) /\ Len(b) = Len(path) - k
      /\ \A i \in 1 .. Len(path) - k : b[i] = path[k + i]
  BY Halves, Zenon
<1>2. PICK e : e = a \o b
  OBVIOUS
<1>3. /\ e \in Seq(S) /\ Len(e) = Len(a) + Len(b)
      /\ \A i \in 1 .. Len(a) + Len(b) : e[i] = IF i <= Len(a) THEN a[i] ELSE b[i - Len(a)]
  <2>1. a \in Seq(S) /\ b \in Seq(S)
    BY <1>1
  <2> QED BY <1>2, <2>1, ConcatProperties
<1>4. Len(a) + Len(b) = Len(path)
  <2>1. \A n, m \in Nat : m + (n - m) = n
    OBVIOUS
  <2> QED BY <1>0, <1>1, <2>1, Zenon
<1>5. ASSUME NEW i \in 1 .. Len(path) PROVE e[i] = path[i]
  <2>0. e[i] = IF i <= k THEN a[i] ELSE b[i - k]
    BY <1>1, <1>3, <1>4, Zenon
  <2>1. CASE i <= k
    <3>1. i \in 1 .. k
      BY <1>0, <2>1
    <3> QED BY <1>1, <2>0, <2>1, <3>1, Zenon
  <2>2. CASE ~(i <= k)
    <3>1. i - k \in 1 .. Len(path) - k /\ k + (i - k) = i
      BY <1>0, <2>2
    <3>2. b[i - k] = path[k + (i - k)]
      BY <1>1, <3>1, Zenon
    <3> QED BY <2>0, <2>2, <3>1, <3>2, Zenon
  <2> QED BY <2>1, <2>2
<1>6. Len(e) = Len(path)
  BY <1>3, <1>4, Zenon
<1>7. e = path
  BY <1>3, <1>5, <1>6, SeqEqual
<1> QED BY <1>2, <1>7

LEMMA CutAt ==
  ASSUME NEW S, NEW path \in Seq(S), NEW k \in 0 .. Len(path), k < Len(path)
  PROVE  /\ path[k + 1] \in S
         /\ SubSeq(path, 1, k + 1) = Append(SubSeq(path, 1, k), path[k + 1])
         /\ path = SubSeq(path, 1, k) \o SubSeq(path, k + 1, Len(path))
         /\ SubSeq(path, k + 1, Len(path)) = <<path[k + 1]>> \o SubSeq(path, k + 2, Len(path))
<1>0. Len(path) \in Nat /\ k \in Nat /\ k + 1 \in 0 .. Len(path) /\ path[k + 1] \in S
  OBVIOUS
<1> PICK a, b, c, d : /\ a = SubSeq(path, 1, k) /\ b = SubSeq(path, k + 1, Len(path))
                      /\ c = SubSeq(path, 1, k + 1) /\ d = SubSeq(path, k + 2, Len(path))
  OBVIOUS
<1>1. /\ a \in Seq(S) /\ Len(a) = k /\ \A i \in 1 .. k : a[i] = path[i]
      /\ b \in Seq(S) /\ Len(b) = Len(path) - k
      /\ \A i \in 1 .. Len(path) - k : b[i] = path[k + i]
  BY Halves
<1>2. /\ c \in Seq(S) /\ Len(c) = k + 1 /\ \A i \in 1 .. k + 1 : c[i] = path[i]
      /\ SubSeq(path, (k + 1) + 1, Len(path)) \in Seq(S)
      /\ Len(SubSeq(path, (k + 1) + 1, Len(path))) = Len(path) - (k + 1)
      /\ \A i \in 1 .. Len(path) - (k + 1) : SubSeq(path, (k + 1) + 1, Len(path))[i] = path[(k + 1) + i]
  BY <1>0, Halves
<1>3. d \in Seq(S) /\ Len(d) = Len(path) - k - 1 /\ \A i \in 1 .. Len(path) - k - 1 : d[i] = path[k + 1 + i]
  <2>1. (k + 1) + 1 = k + 2 /\ Len(path) - (k + 1) = Len(path) - k - 1
    BY <1>0
  <2> QED BY <1>2, <2>1
<1>4. c = Append(a, path[k + 1])
  <2> PICK e : e = Append(a, path[k + 1])
    OBVIOUS
  <2>0. a \in Seq(S) /\ Len(a) = k /\ path[k + 1] \in S
    BY <1>0, <1>1, Zenon
  <2>1. /\ e \in Seq(S) /\ Len(e) = Len(a) + 1
        /\ \A i \in 1 .. Len(a) : e[i] = a[i]
        /\ e[Len(a) + 1] = path[k + 1]
    BY <2>0, AppendProperties
  <2>2. Len(e) = k + 1 /\ e[k + 1] = path[k + 1] /\ \A i \in 1 .. k : e[i] = path[i]
    BY <1>1, <2>1, Zenon
  <2>3. \A i \in 1 .. k + 1 : i = k + 1 \/ i \in 1 .. k
    BY <1>0
  <2>4. \A i \in 1 .. k + 1 : e[i] = path[i]
    BY <2>2, <2>3, Zenon
  <2>5. Len(c) = Len(e) /\ \A i \in 1 .. Len(c) : c[i] = e[i]
    BY <1>2, <2>2, <2>4, Zenon
  <2> QED BY <1>2, <2>1, <2>5, SeqEqual, Zenon
<1>5. path = a \o b
  BY Together, Zenon
<1>6. b = <<path[k + 1]>> \o d
  <2> PICK x : x = path[k + 1]
    OBVIOUS
  <2> PICK o, e : o = <<x>> /\ e = o \o d
    OBVIOUS
  <2>0. o \in Seq(S) /\ Len(o) = 1 /\ o[1] = x
    BY <1>0
  <2>1. /\ e \in Seq(S) /\ Len(e) = Len(o) + Len(d)
        /\ \A i \in 1 .. Len(o) + Len(d) : e[i] = IF i <= Len(o) THEN o[i] ELSE d[i - Len(o)]
    BY <1>3, <2>0, ConcatProperties
  <2>2. Len(o) + Len(d) = Len(path) - k
    BY <1>0, <1>3, <2>0
  <2>3. ASSUME NEW i \in 1 .. Len(path) - k PROVE e[i] = path[k + i]
    <3>0. e[i] = IF i <= 1 THEN o[i] ELSE d[i - 1]
      BY <2>0, <2>1, <2>2
    <3>1. CASE i = 1
      BY <2>0, <3>0, <3>1
    <3>2. CASE i # 1
      <4>1. i - 1 \in 1 .. Len(path) - k - 1
        BY <1>0, <3>2
      <4>2. k + 1 + (i - 1) = k + i /\ ~(i <= 1)
        BY <1>0, <3>2
      <4>3. d[i - 1] = path[k + 1 + (i - 1)]
        BY <1>3, <4>1
      <4> QED BY <3>0, <4>2, <4>3
    <3> QED BY <3>1, <3>2
  <2>4. \A i \in 1 .. Len(b) : b[i] = e[i]
    BY <1>1, <2>3
  <2>5. Len(b) = Len(e)
    BY <1>1, <2>1, <2>2
  <2> QED BY <1>1, <2>1, <2>4, <2>5, SeqEqual
<1> QED BY <1>0, <1>4, <1>5, <1>6

\* A sequence of one, and the start of a joined one.
LEMMA OneOf ==
  ASSUME NEW D, NEW x \in D
  PROVE  <<x>> \in Seq(D)
  OBVIOUS

LEMMA StartOf ==
  ASSUME NEW C, NEW x \in Seq(C), NEW y \in Seq(C), Len(x) # 0
  PROVE  (x \o y)[1] = x[1] /\ x \o y # <<>>
<1>1. Len(x \o y) = Len(x) + Len(y) /\ Len(x) \in Nat /\ Len(y) \in Nat
  OBVIOUS
<1>2. \A i \in 1 .. Len(x) + Len(y) : (x \o y)[i] = IF i <= Len(x) THEN x[i] ELSE y[i - Len(x)]
  BY ConcatProperties
<1>3. 1 \in 1 .. Len(x) + Len(y) /\ 1 <= Len(x)
  BY <1>1
<1>4. x \o y # <<>>
  BY <1>1
<1> QED BY <1>2, <1>3, <1>4

-----------------------------------------------------------------------------
(* Parts joined in any order, and where their elements are.               *)

\* Joining is associative; as a relation, for the provers to take as it is.
InThree(a, b, c) == (a \o b) \o c = a \o (b \o c)

\* So it is of all sequences.
LEMMA JoinedInAnyOrder ==
  ASSUME NEW C, NEW a \in Seq(C), NEW b \in Seq(C), NEW c \in Seq(C)
  PROVE  InThree(a, b, c)
  BY DEF InThree

\* The first part of a joined sequence.
LEMMA Before ==
  ASSUME NEW C, NEW a \in Seq(C), NEW b \in Seq(C)
  PROVE  SubSeq(a \o b, 1, Len(a)) = a
<1>1. /\ a \o b \in Seq(C) /\ Len(a \o b) = Len(a) + Len(b) /\ Len(a) \in Nat /\ Len(b) \in Nat
      /\ \A i \in 1 .. Len(a) : (a \o b)[i] = a[i]
  OBVIOUS
<1>2. PICK c : c = SubSeq(a \o b, 1, Len(a))
  OBVIOUS
<1>3. c \in Seq(C) /\ Len(c) = Len(a) /\ \A i \in 1 .. Len(c) : c[i] = (a \o b)[i]
  BY <1>1, <1>2
<1>4. \A i \in 1 .. Len(c) : c[i] = a[i]
  BY <1>1, <1>3
<1> QED BY <1>2, <1>3, <1>4, SeqEqual

\* The part between two others.
LEMMA Between ==
  ASSUME NEW C, NEW a \in Seq(C), NEW b \in Seq(C), NEW c \in Seq(C)
  PROVE  SubSeq((a \o b) \o c, Len(a) + 1, Len(a) + Len(b)) = b
<1> PICK ab : ab = a \o b
  OBVIOUS
<1>1. /\ ab \in Seq(C) /\ Len(ab) = Len(a) + Len(b) /\ Len(a) \in Nat /\ Len(b) \in Nat
      /\ \A i \in 1 .. Len(b) : ab[Len(a) + i] = b[i]
  OBVIOUS
<1> PICK s : s = ab \o c
  OBVIOUS
<1>2. /\ s \in Seq(C) /\ Len(c) \in Nat /\ Len(s) = Len(ab) + Len(c)
      /\ \A i \in 1 .. Len(ab) : s[i] = ab[i]
  BY <1>1
<1>3. PICK d : d = SubSeq(s, Len(a) + 1, Len(a) + Len(b))
  OBVIOUS
<1>4. d \in Seq(C) /\ Len(d) = Len(b) /\ \A i \in 1 .. Len(d) : d[i] = s[Len(a) + i]
  BY <1>1, <1>2, <1>3, SMTT(30)
<1>5. \A i \in 1 .. Len(b) : Len(a) + i \in 1 .. Len(ab)
  BY <1>1
<1>6. \A i \in 1 .. Len(d) : d[i] = b[i]
  BY <1>1, <1>2, <1>4, <1>5
<1> QED BY <1>3, <1>4, <1>6, SeqEqual

\* Where the elements of a joined sequence are.
LEMMA JoinedFacts ==
  ASSUME NEW C, NEW x \in Seq(C), NEW y \in Seq(C)
  PROVE  /\ x \o y \in Seq(C) /\ Len(x) \in Nat /\ Len(y) \in Nat
         /\ Len(x \o y) = Len(x) + Len(y)
         /\ \A i \in 1 .. Len(x) : (x \o y)[i] = x[i]
         /\ \A i \in 1 .. Len(y) : (x \o y)[Len(x) + i] = y[i]
  OBVIOUS

\* A sequence and one element more.
LEMMA OneMore ==
  ASSUME NEW C, NEW x \in Seq(C), NEW c \in C
  PROVE  /\ x \o <<c>> \in Seq(C) /\ Len(x) \in Nat /\ Len(x \o <<c>>) = Len(x) + 1
         /\ \A i \in 1 .. Len(x) : (x \o <<c>>)[i] = x[i]
         /\ (x \o <<c>>)[Len(x) + 1] = c
  OBVIOUS

\* s = t, for the provers to take as it is.
Exactly(s, t) == s = t

\* Where the elements of a sequence of parts are: of w, c, name and g.
LEMMA FourParts ==
  ASSUME NEW C, NEW w \in Seq(C), NEW name \in Seq(C), NEW g \in Seq(C), NEW c \in C,
         NEW s, Exactly(s, ((w \o <<c>>) \o name) \o g)
  PROVE  /\ s \in Seq(C) /\ Len(w) \in Nat /\ Len(name) \in Nat /\ Len(g) \in Nat
         /\ Len(s) = Len(w) + 1 + Len(name) + Len(g)
         /\ \A i \in 1 .. Len(w) : s[i] = w[i]
         /\ s[Len(w) + 1] = c
         /\ \A i \in 1 .. Len(name) : s[Len(w) + 1 + i] = name[i]
         /\ \A i \in 1 .. Len(g) : s[Len(w) + 1 + Len(name) + i] = g[i]
<1>1. PICK a : a = w \o <<c>>
  OBVIOUS
<1>2. /\ a \in Seq(C) /\ Len(w) \in Nat /\ Len(a) = Len(w) + 1
      /\ \A i \in 1 .. Len(w) : a[i] = w[i]
      /\ a[Len(w) + 1] = c
  BY <1>1
<1>3. PICK b : b = a \o name
  OBVIOUS
<1>4. /\ b \in Seq(C) /\ Len(name) \in Nat /\ Len(b) = Len(a) + Len(name)
      /\ \A i \in 1 .. Len(a) : b[i] = a[i]
      /\ \A i \in 1 .. Len(name) : b[Len(a) + i] = name[i]
  <2>1. a \in Seq(C)
    BY <1>2
  <2> QED BY <1>3, <2>1
<1>5. s = b \o g
  BY <1>1, <1>3 DEF Exactly
<1>6. /\ s \in Seq(C) /\ Len(g) \in Nat /\ Len(s) = Len(b) + Len(g)
      /\ \A i \in 1 .. Len(b) : s[i] = b[i]
      /\ \A i \in 1 .. Len(g) : s[Len(b) + i] = g[i]
  <2>1. b \in Seq(C)
    BY <1>4
  <2> QED BY <1>5, <2>1
<1>7. Len(s) = Len(w) + 1 + Len(name) + Len(g) /\ Len(a) = Len(w) + 1 /\ Len(a) <= Len(b)
  BY <1>2, <1>4, <1>6
<1>8. ASSUME NEW i \in 1 .. Len(w) PROVE s[i] = w[i]
  <2>1. i \in 1 .. Len(a) /\ i \in 1 .. Len(b)
    BY <1>2, <1>4
  <2> QED BY <1>2, <1>4, <1>6, <2>1, Zenon
<1>9. s[Len(w) + 1] = c
  <2>1. Len(w) + 1 \in 1 .. Len(a) /\ Len(w) + 1 \in 1 .. Len(b)
    BY <1>2, <1>4
  <2> QED BY <1>2, <1>4, <1>6, <2>1, Zenon
<1>10. ASSUME NEW i \in 1 .. Len(name) PROVE s[Len(w) + 1 + i] = name[i]
  <2>1. Len(a) + i \in 1 .. Len(b) /\ Len(a) + i = Len(w) + 1 + i
    BY <1>2, <1>4
  <2>2. s[Len(a) + i] = name[i]
    BY <1>4, <1>6, <2>1, Zenon
  <2> QED BY <2>1, <2>2, Zenon
<1>11. ASSUME NEW i \in 1 .. Len(g) PROVE s[Len(w) + 1 + Len(name) + i] = g[i]
  <2>1. Len(b) + i = Len(w) + 1 + Len(name) + i
    BY <1>2, <1>4
  <2> QED BY <1>6, <2>1, Zenon
<1> QED BY <1>2, <1>4, <1>6, <1>7, <1>8, <1>9, <1>10, <1>11, Zenon

\* The same of w, c and name.
LEMMA ThreeParts ==
  ASSUME NEW C, NEW w \in Seq(C), NEW name \in Seq(C), NEW c \in C,
         NEW s, Exactly(s, (w \o <<c>>) \o name)
  PROVE  /\ s \in Seq(C) /\ Len(w) \in Nat /\ Len(name) \in Nat
         /\ Len(s) = Len(w) + 1 + Len(name)
         /\ \A i \in 1 .. Len(w) : s[i] = w[i]
         /\ s[Len(w) + 1] = c
         /\ \A i \in 1 .. Len(name) : s[Len(w) + 1 + i] = name[i]
<1>1. PICK g : g = <<>> /\ g \in Seq(C)
  <2>1. <<>> \in Seq(C)
    OBVIOUS
  <2> QED BY <2>1, Zenon
<1>2. s \in Seq(C)
  <2>1. PICK a : a = w \o <<c>>
    OBVIOUS
  <2>2. a \in Seq(C)
    BY <2>1, OneMore, Zenon
  <2>3. s = a \o name
    BY <2>1, Zenon DEF Exactly
  <2>4. a \o name \in Seq(C)
    BY <2>2, JoinedFacts, Zenon
  <2> QED BY <2>3, <2>4, Zenon
<1>3. s \o g = s
  BY <1>1, <1>2, ConcatEmptySeq
<1>4. Exactly(s, ((w \o <<c>>) \o name) \o g)
  BY <1>3, Zenon DEF Exactly
<1>5. /\ s \in Seq(C) /\ Len(w) \in Nat /\ Len(name) \in Nat
      /\ Len(s) = Len(w) + 1 + Len(name) + Len(g)
      /\ \A i \in 1 .. Len(w) : s[i] = w[i]
      /\ s[Len(w) + 1] = c
      /\ \A i \in 1 .. Len(name) : s[Len(w) + 1 + i] = name[i]
  <2>1. g \in Seq(C)
    BY <1>1, Zenon
  <2> QED BY <2>1, <1>4, FourParts
<1>6. Len(g) = 0
  BY <1>1
<1>7. Len(w) + 1 + Len(name) + 0 = Len(w) + 1 + Len(name)
  BY <1>5
<1> QED BY <1>5, <1>6, <1>7, Zenon

\* No element of s is c.
Lacks(s, c) == \A i \in 1 .. Len(s) : s[i] # c

\* What is lacking in the elements is lacking in their sequences.
LEMMA LackingIn ==
  ASSUME NEW C, NEW c, NEW s \in Seq(C \ {c})
  PROVE  s \in Seq(C) /\ Lacks(s, c)
  BY DEF Lacks

\* x \o y, for the provers to take as it is: joining is associative.
Cat(x, y) == x \o y

Joinable(S) ==
  /\ \A x, y \in S : Cat(x, y) \in S
  /\ \A x, y, z \in S : Cat(x, Cat(y, z)) = Cat(Cat(x, y), z)

InAnyOrder(v, w, x, y, z) ==
  v \o (((w \o x) \o y) \o z) = (((v \o w) \o x) \o y) \o z

\* The sequences over C are closed under joining, which is associative.
LEMMA SequencesJoin ==
  ASSUME NEW C
  PROVE  Joinable(Seq(C))
<1>1. ASSUME NEW x \in Seq(C), NEW y \in Seq(C) PROVE Cat(x, y) \in Seq(C)
  BY JoinedFacts DEF Cat
<1>2. ASSUME NEW x \in Seq(C), NEW y \in Seq(C), NEW z \in Seq(C)
      PROVE  Cat(x, Cat(y, z)) = Cat(Cat(x, y), z)
  <2>1. InThree(x, y, z)
    BY JoinedInAnyOrder, Zenon
  <2> QED BY <2>1, Zenon DEF Cat, InThree
<1> QED BY <1>1, <1>2 DEF Joinable

\* Five of them join in any order.
LEMMA FiveParts ==
  ASSUME NEW S, Joinable(S)
  PROVE  \A v, w, x, y, z \in S : InAnyOrder(v, w, x, y, z)
<1> SUFFICES ASSUME NEW v \in S, NEW w \in S, NEW x \in S, NEW y \in S, NEW z \in S
             PROVE  Cat(v, Cat(Cat(Cat(w, x), y), z)) = Cat(Cat(Cat(Cat(v, w), x), y), z)
  BY DEF InAnyOrder, Cat
<1>1. \A a, b, c \in S : Cat(a, Cat(b, c)) = Cat(Cat(a, b), c)
  BY DEF Joinable
<1>2. \A a, b \in S : Cat(a, b) \in S
  BY DEF Joinable
<1>3. PICK wx, wxy : wx = Cat(w, x) /\ wxy = Cat(wx, y)
  OBVIOUS
<1>4. wx \in S /\ wxy \in S
  BY <1>2, <1>3, Zenon
<1>5. Cat(v, Cat(wxy, z)) = Cat(Cat(v, wxy), z)
  BY <1>1, <1>4
<1>6. Cat(v, Cat(wx, y)) = Cat(Cat(v, wx), y)
  BY <1>1, <1>4
<1>7. Cat(v, Cat(w, x)) = Cat(Cat(v, w), x)
  BY <1>1
<1> QED BY <1>3, <1>5, <1>6, <1>7, Zenon

\* Parts that join in any order.
Gathers(v, w, x, y, z) ==
  /\ v \o ((w \o x) \o y) = ((v \o w) \o x) \o y
  /\ v \o (((w \o x) \o y) \o z) = (((v \o w) \o x) \o y) \o z

\* Sequences over C join in the orders that the proofs need.
LEMMA Gathered ==
  ASSUME NEW C, NEW v \in Seq(C), NEW w \in Seq(C), NEW x \in Seq(C), NEW y \in Seq(C), NEW z \in Seq(C)
  PROVE  Gathers(v, w, x, y, z)
<1>1. PICK S : S = Seq(C) /\ Joinable(S)
  BY SequencesJoin, Zenon
<1>2. InAnyOrder(v, w, x, y, z)
  BY <1>1, FiveParts, Zenon
<1>3. w \o x \in Seq(C) /\ v \o w \in Seq(C)
  BY JoinedFacts, Zenon
<1>4. PICK u : u = w \o x
  OBVIOUS
<1>5. (v \o u) \o y = v \o (u \o y)
  <2>1. u \in S /\ v \in S /\ y \in S
    BY <1>1, <1>3, <1>4, Zenon
  <2>2. Joinable(S)
    BY <1>1, Zenon
  <2>3. Cat(v, Cat(u, y)) = Cat(Cat(v, u), y)
    BY <2>1, <2>2 DEF Joinable
  <2> QED BY <2>3, Zenon DEF Cat
<1>6. (v \o w) \o x = v \o u
  <2>1. InThree(v, w, x)
    BY JoinedInAnyOrder, Zenon
  <2> QED BY <1>4, <2>1, Zenon DEF InThree
<1> QED BY <1>2, <1>4, <1>5, <1>6, Zenon DEF InAnyOrder, Gathers

\* The sequences before i + 1, that one and those that follow it, joined.
LEMMA FlattenCut ==
  ASSUME NEW C, NEW s \in Seq(Seq(C)), NEW i \in Nat, i < Len(s)
  PROVE  /\ FlattenSeq(SubSeq(s, 1, i)) \in Seq(C) /\ s[i + 1] \in Seq(C)
         /\ FlattenSeq(SubSeq(s, i + 2, Len(s))) \in Seq(C)
         /\ FlattenSeq(SubSeq(s, 1, i + 1)) = FlattenSeq(SubSeq(s, 1, i)) \o s[i + 1]
         /\ FlattenSeq(SubSeq(s, i + 1, Len(s))) = s[i + 1] \o FlattenSeq(SubSeq(s, i + 2, Len(s)))
<1>0. i \in 0 .. Len(s) /\ i + 1 \in 0 .. Len(s) /\ (i + 1) + 1 = i + 2
  OBVIOUS
<1>1. /\ s[i + 1] \in Seq(C)
      /\ SubSeq(s, 1, i + 1) = Append(SubSeq(s, 1, i), s[i + 1])
      /\ SubSeq(s, i + 1, Len(s)) = <<s[i + 1]>> \o SubSeq(s, i + 2, Len(s))
  BY <1>0, CutAt, Zenon
<1>2. SubSeq(s, 1, i) \in Seq(Seq(C)) /\ SubSeq(s, (i + 1) + 1, Len(s)) \in Seq(Seq(C))
  BY <1>0, Halves, Zenon
<1>3. PICK u, v, x : u = SubSeq(s, 1, i) /\ v = SubSeq(s, i + 2, Len(s)) /\ x = s[i + 1]
  OBVIOUS
<1>4. u \in Seq(Seq(C)) /\ v \in Seq(Seq(C)) /\ x \in Seq(C)
  BY <1>0, <1>1, <1>2, <1>3, Zenon
<1>5. FlattenSeq(u) \in Seq(C) /\ FlattenSeq(v) \in Seq(C)
  BY <1>4, FlattenType, Zenon
<1>6. FlattenSeq(Append(u, x)) = FlattenSeq(u) \o x
  BY <1>4, FlattenAppend, Zenon
<1>7. FlattenSeq(<<x>> \o v) = x \o FlattenSeq(v)
  <2>1. <<x>> \in Seq(Seq(C)) /\ FlattenSeq(<<x>>) = x
    BY <1>4, OneOf, FlattenOne, Zenon
  <2>2. FlattenSeq(<<x>> \o v) = FlattenSeq(<<x>>) \o FlattenSeq(v)
    BY <1>4, <2>1, FlattenJoin, Zenon
  <2> QED BY <2>1, <2>2, Zenon
<1> QED BY <1>1, <1>3, <1>4, <1>5, <1>6, <1>7, Zenon

\* All of a sequence.
LEMMA NothingCut ==
  ASSUME NEW C, NEW s \in Seq(C)
  PROVE  SubSeq(s, 1, Len(s)) = s
  OBVIOUS

\* A sequence of two.
LEMMA TwoOf ==
  ASSUME NEW C, NEW c \in C, NEW d \in C
  PROVE  <<c, d>> \in Seq(C)
  OBVIOUS

\* A sequence over a set is one over every set that has it.
LEMMA Within ==
  ASSUME NEW C, NEW D, C \subseteq D, NEW s \in Seq(C)
  PROVE  s \in Seq(D)
  OBVIOUS

\* As many elements as there are sequences, when none of them is empty.
LEMMA FlattenLength ==
  ASSUME NEW C, NEW s \in Seq(Seq(C)), \A i \in 1 .. Len(s) : s[i] # <<>>
  PROVE  Len(s) <= Len(FlattenSeq(s))
<1> DEFINE Full(t) == \A i \in 1 .. Len(t) : t[i] # <<>>
           Good == {n \in Nat : \A t \in Seq(Seq(C)) :
                      Len(t) = n /\ Full(t) => n <= Len(FlattenSeq(t))}
<1>1. 0 \in Good
  <2>1. \A t \in Seq(Seq(C)) : FlattenSeq(t) \in Seq(C)
    BY FlattenType, Zenon
  <2>2. \A x \in Seq(C) : 0 <= Len(x)
    OBVIOUS
  <2> QED BY <2>1, <2>2
<1>2. ASSUME NEW n \in Nat, n \in Good PROVE n + 1 \in Good
  <2> SUFFICES ASSUME NEW t \in Seq(Seq(C)), Len(t) = n + 1, Full(t) PROVE n + 1 <= Len(FlattenSeq(t))
    OBVIOUS
  <2>1. PICK u \in Seq(Seq(C)), x \in Seq(C) : t = Append(u, x) /\ Len(u) = n
    BY LastOf
  <2>2. /\ \A i \in 1 .. n : t[i] = u[i]
        /\ t[n + 1] = x /\ n + 1 \in 1 .. Len(t)
    BY <2>1
  <2>3. Full(u) /\ x # <<>>
    BY <2>1, <2>2
  <2>4. n <= Len(FlattenSeq(u))
    BY <1>2, <2>1, <2>3
  <2>5. FlattenSeq(t) = FlattenSeq(u) \o x
    BY <2>1, FlattenAppend
  <2>6. FlattenSeq(u) \in Seq(C)
    BY <2>1, FlattenType
  <2>7. Len(FlattenSeq(u) \o x) = Len(FlattenSeq(u)) + Len(x) /\ Len(x) \in Nat /\ Len(x) # 0
        /\ Len(FlattenSeq(u)) \in Nat
    BY <2>3, <2>6
  <2> QED BY <2>4, <2>5, <2>7
<1>3. Nat \subseteq Good
  <2> HIDE DEF Good
  <2> QED BY <1>1, <1>2, AllNumbers
<1>4. Len(s) \in Nat
  OBVIOUS
<1> QED BY <1>3, <1>4

\* A function on 1 .. n is a sequence.
LEMMA Listed ==
  ASSUME NEW D, NEW n \in Nat, NEW f \in [1 .. n -> D]
  PROVE  f \in Seq(D) /\ Len(f) = n /\ DOMAIN f = 1 .. n
  OBVIOUS

\* Two sequences that differ in their last elements alone.
Ends(f, g, h, n) == g = Append(f, g[n + 1]) /\ h = Append(f, h[n + 1])

\* What two such sequences start with is one sequence f.
LEMMA LastApart ==
  ASSUME NEW D, NEW E, NEW n \in Nat, NEW g \in Seq(D), NEW h \in Seq(D),
         Len(g) = n + 1, Len(h) = n + 1, \A i \in 1 .. n : g[i] = h[i] /\ g[i] \in E
  PROVE  \E f \in Seq(E) : Ends(f, g, h, n)
<1>1. PICK f : f = [i \in 1 .. n |-> g[i]]
  OBVIOUS
<1>2. f \in Seq(E) /\ Len(f) = n /\ \A i \in 1 .. n : f[i] = g[i] /\ f[i] = h[i]
  BY <1>1
<1>3. ASSUME NEW q \in Seq(D), Len(q) = n + 1, \A i \in 1 .. n : f[i] = q[i]
      PROVE  q = Append(f, q[n + 1])
  <2>1. f \in Seq(D)
    <3>1. \A i \in 1 .. n : f[i] \in D
      BY <1>3
    <3> QED BY <1>1, <1>2, <3>1
  <2>2. q[n + 1] \in D
    BY <1>3
  <2>3. PICK r : r = Append(f, q[n + 1])
    OBVIOUS
  <2>4. r \in Seq(D) /\ Len(r) = n + 1 /\ r[n + 1] = q[n + 1] /\ \A i \in 1 .. n : r[i] = f[i]
    BY <1>2, <2>1, <2>2, <2>3
  <2>5. \A i \in 1 .. Len(q) : q[i] = r[i]
    BY <1>3, <2>4
  <2> QED BY <1>3, <2>3, <2>4, <2>5, SeqEqual
<1>4. g = Append(f, g[n + 1])
  BY <1>2, <1>3, Zenon
<1>5. h = Append(f, h[n + 1])
  BY <1>2, <1>3, Zenon
<1> QED BY <1>2, <1>4, <1>5, Zenon DEF Ends
=============================================================================
