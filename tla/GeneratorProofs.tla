--------------------------- MODULE GeneratorProofs ---------------------------
(***************************************************************************)
(* Generate, for every rule file: each mutant changes the one thing its    *)
(* candidate was made for, no change is tested twice, and every change of  *)
(* the reference is generated.                                             *)
(***************************************************************************)
EXTENDS Generator, SequenceTheorems, FiniteSetTheorems, WellFoundedInduction, TLAPS

-----------------------------------------------------------------------------
(* Sequences.                                                              *)

Occurs(x, s) == \E n \in DOMAIN s : s[n] = x
IsList(s) == s \in Seq({s[n] : n \in DOMAIN s})

LEMMA ListOf ==
  ASSUME NEW S, NEW s \in Seq(S)
  PROVE  IsList(s)
<1>1. s \in [1..Len(s) -> S] /\ Len(s) \in Nat /\ DOMAIN s = 1..Len(s)
  BY LenProperties
<1>2. s \in [1..Len(s) -> {s[n] : n \in DOMAIN s}]
  BY <1>1
<1> QED
  BY <1>1, <1>2, SeqDef DEF IsList

LEMMA ListShape ==
  ASSUME NEW s, IsList(s)
  PROVE  DOMAIN s = 1..Len(s) /\ Len(s) \in Nat
BY LenProperties DEF IsList

(* A function on 1..n is a list.                                           *)
LEMMA FunctionIsList ==
  ASSUME NEW s, NEW len \in Nat, s = [n \in 1..len |-> s[n]]
  PROVE  IsList(s) /\ Len(s) = len
<1>1. s \in [1..len -> {s[n] : n \in DOMAIN s}]
  OBVIOUS
<1> QED
  BY <1>1, SeqDef DEF IsList

LEMMA AppendList ==
  ASSUME NEW s, IsList(s), NEW x
  PROVE  /\ IsList(Append(s, x)) /\ Len(Append(s, x)) = Len(s) + 1
         /\ \A n \in DOMAIN s : n \in DOMAIN Append(s, x) /\ Append(s, x)[n] = s[n]
         /\ Append(s, x)[Len(s) + 1] = x
         /\ DOMAIN Append(s, x) = DOMAIN s \cup {Len(s) + 1}
         /\ Len(s) + 1 \notin DOMAIN s
<1> DEFINE S == {s[n] : n \in DOMAIN s} \cup {x}
<1>1. s \in Seq(S)
  BY SeqMonotonic DEF IsList
<1> HIDE DEF S
<1>2. x \in S
  BY DEF S
<1>3. /\ Append(s, x) \in Seq(S) /\ Len(Append(s, x)) = Len(s) + 1
      /\ \A n \in 1..Len(s) : Append(s, x)[n] = s[n]
      /\ Append(s, x)[Len(s) + 1] = x
  BY <1>1, <1>2, AppendProperties
<1>4. DOMAIN s = 1..Len(s) /\ Len(s) \in Nat
  BY ListShape
<1>5. DOMAIN Append(s, x) = 1..(Len(s) + 1)
  BY <1>3, LenProperties
<1>6. IsList(Append(s, x))
  BY <1>3, ListOf
<1>7. DOMAIN Append(s, x) = DOMAIN s \cup {Len(s) + 1} /\ Len(s) + 1 \notin DOMAIN s
  BY <1>4, <1>5
<1> QED
  BY <1>3, <1>4, <1>6, <1>7

LEMMA TailList ==
  ASSUME NEW s, IsList(s), s # <<>>
  PROVE  /\ IsList(Tail(s)) /\ Occurs(Head(s), s)
         /\ \A x : Occurs(x, s) <=> x = Head(s) \/ Occurs(x, Tail(s))
<1> DEFINE S == {s[n] : n \in DOMAIN s}
<1>1. s \in Seq(S)
  BY DEF IsList
<1> HIDE DEF S
<1>2. /\ Tail(s) \in Seq(S) /\ Len(Tail(s)) = Len(s) - 1 /\ Len(s) \in Nat \ {0}
      /\ \A n \in 1..Len(Tail(s)) : Tail(s)[n] = s[n + 1]
  BY <1>1, HeadTailProperties, EmptySeq
<1>3. DOMAIN s = 1..Len(s) /\ DOMAIN Tail(s) = 1..(Len(s) - 1) /\ Head(s) = s[1]
  BY <1>1, <1>2, LenProperties
<1>4. Occurs(Head(s), s)
  BY <1>2, <1>3 DEF Occurs
<1>5. ASSUME NEW x, Occurs(x, Tail(s)) PROVE Occurs(x, s)
  <2>1. PICK n \in 1..(Len(s) - 1) : Tail(s)[n] = x
    BY <1>3, <1>5 DEF Occurs
  <2>2. n + 1 \in 1..Len(s) /\ s[n + 1] = x
    BY <1>2, <2>1
  <2> QED
    BY <1>3, <2>2 DEF Occurs
<1>6. ASSUME NEW x, Occurs(x, s), x # Head(s) PROVE Occurs(x, Tail(s))
  <2>1. PICK n \in 1..Len(s) : s[n] = x
    BY <1>3, <1>6 DEF Occurs
  <2>2. PICK i \in Nat : n = i + 1
    BY <2>1, <1>2
  <2>3. i \in 1..(Len(s) - 1)
    BY <1>2, <1>3, <1>6, <2>1, <2>2
  <2> QED
    BY <1>2, <1>3, <2>1, <2>2, <2>3 DEF Occurs
<1> QED
  BY <1>2, <1>4, <1>5, <1>6, ListOf

LEMMA OccursInConcat ==
  ASSUME NEW S, NEW s \in Seq(S), NEW t \in Seq(S), NEW x
  PROVE  s \o t \in Seq(S) /\ (Occurs(x, s \o t) <=> Occurs(x, s) \/ Occurs(x, t))
<1>1. /\ s \o t \in Seq(S)
      /\ Len(s \o t) = Len(s) + Len(t)
      /\ \A i \in 1 .. Len(s) + Len(t) : (s \o t)[i] = IF i <= Len(s) THEN s[i] ELSE t[i - Len(s)]
  BY ConcatProperties
<1>2. /\ DOMAIN s = 1..Len(s) /\ DOMAIN t = 1..Len(t) /\ DOMAIN (s \o t) = 1..(Len(s) + Len(t))
      /\ Len(s) \in Nat /\ Len(t) \in Nat
  BY <1>1, LenProperties
<1>3. ASSUME Occurs(x, s) PROVE Occurs(x, s \o t)
  BY <1>1, <1>2, <1>3 DEF Occurs
<1>4. ASSUME Occurs(x, t) PROVE Occurs(x, s \o t)
  <2>1. PICK n \in 1..Len(t) : t[n] = x
    BY <1>2, <1>4 DEF Occurs
  <2>2. Len(s) + n \in 1..(Len(s) + Len(t)) /\ ~(Len(s) + n <= Len(s)) /\ (Len(s) + n) - Len(s) = n
    BY <1>2, <2>1
  <2>3. (s \o t)[Len(s) + n] = x
    BY <1>1, <2>1, <2>2
  <2> QED
    BY <1>2, <2>2, <2>3 DEF Occurs
<1>5. ASSUME Occurs(x, s \o t), ~Occurs(x, s) PROVE Occurs(x, t)
  <2>1. PICK n \in 1..(Len(s) + Len(t)) : (s \o t)[n] = x
    BY <1>2, <1>5 DEF Occurs
  <2>2. ~(n <= Len(s))
    BY <1>1, <1>2, <1>5, <2>1 DEF Occurs
  <2>3. n - Len(s) \in 1..Len(t) /\ t[n - Len(s)] = x
    BY <1>1, <1>2, <2>1, <2>2
  <2> QED
    BY <1>2, <2>3 DEF Occurs
<1> QED
  BY <1>1, <1>3, <1>4, <1>5

LEMMA LeastNumber ==
  ASSUME NEW T, T \subseteq Nat, T # {}
  PROVE  \E n \in T : \A m \in T : n <= m
<1>1. PICK n \in T : \A m \in T : ~(<<m, n>> \in OpToRel(<, Nat))
  BY NatLessThanWellFounded, WFMin
<1>2. \A m \in T : ~(m < n)
  BY <1>1 DEF OpToRel
<1> QED
  BY <1>2

-----------------------------------------------------------------------------
(* FlattenSeq: the recursive function exists, and its last value holds     *)
(* what the sequences hold.                                                *)

Flattens(f, ss, len) ==
  f = [i \in 1..len |-> IF i = 1 THEN ss[i] ELSE f[i-1] \o ss[i]]

LEMMA FlattenExists ==
  ASSUME NEW ss, NEW len \in Nat \ {0}
  PROVE  \E f : Flattens(f, ss, len)
<1> DEFINE T == {n \in Nat \ {0} : \A f : ~Flattens(f, ss, n)}
<1>1. SUFFICES ASSUME T # {} PROVE FALSE
  OBVIOUS
<1>2. PICK n \in T : \A m \in T : n <= m
  BY <1>1, LeastNumber
<1>3. CASE n = 1
  <2> DEFINE f == [i \in 1..1 |-> ss[i]]
  <2>1. Flattens(f, ss, 1)
    BY DEF Flattens
  <2> QED
    BY <1>3, <2>1
<1>4. CASE n # 1
  <2>1. PICK p \in Nat \ {0} : n = p + 1
    BY <1>2, <1>4
  <2>2. p \notin T
    BY <1>2, <2>1
  <2>3. PICK g : Flattens(g, ss, p)
    BY <2>2
  <2> DEFINE f == [i \in 1..n |-> IF i = n THEN g[p] \o ss[n] ELSE g[i]]
  <2>4. \A i \in 1..n : f[i] = IF i = 1 THEN ss[i] ELSE f[i-1] \o ss[i]
    <3> SUFFICES ASSUME NEW i \in 1..n PROVE f[i] = IF i = 1 THEN ss[i] ELSE f[i-1] \o ss[i]
      OBVIOUS
    <3>1. CASE i = n
      <4>1. i - 1 = p /\ p \in 1..n /\ p # n /\ i # 1
        BY <2>1, <3>1
      <4>2. f[i] = g[p] \o ss[n] /\ f[p] = g[p]
        BY <3>1, <4>1
      <4> QED
        BY <3>1, <4>1, <4>2
    <3>2. CASE i # n /\ i = 1
      BY <2>1, <2>3, <3>2 DEF Flattens
    <3>3. CASE i # n /\ i # 1
      <4>1. i \in 1..p /\ i - 1 \in 1..n /\ i - 1 # n
        BY <2>1, <3>3
      <4>2. f[i] = g[i] /\ f[i - 1] = g[i - 1]
        BY <3>3, <4>1
      <4>3. g[i] = g[i - 1] \o ss[i]
        BY <2>3, <3>3, <4>1 DEF Flattens
      <4> QED
        BY <3>3, <4>2, <4>3
    <3> QED
      BY <3>1, <3>2, <3>3
  <2>5. f = [i \in 1..n |-> IF i = 1 THEN ss[i] ELSE f[i-1] \o ss[i]]
    BY <2>4
  <2> HIDE DEF f
  <2>6. Flattens(f, ss, n)
    BY <2>5 DEF Flattens
  <2> QED
    BY <2>6
<1> QED
  BY <1>3, <1>4

LEMMA FlattenOccurs ==
  ASSUME NEW S, NEW ss \in Seq(Seq(S))
  PROVE  /\ FlattenSeq(ss) \in Seq(S)
         /\ \A x : Occurs(x, FlattenSeq(ss)) <=> \E i \in DOMAIN ss : Occurs(x, ss[i])
<1>0. DOMAIN ss = 1..Len(ss) /\ Len(ss) \in Nat /\ \A i \in 1..Len(ss) : ss[i] \in Seq(S)
  BY LenProperties, ElementOfSeq
<1>1. CASE Len(ss) = 0
  <2>1. FlattenSeq(ss) = ss /\ DOMAIN ss = {}
    BY <1>0, <1>1 DEF FlattenSeq
  <2>2. ss = <<>>
    BY <1>1, EmptySeq
  <2> QED
    BY <2>1, <2>2, EmptySeq DEF Occurs
<1>2. CASE Len(ss) # 0
  <2> DEFINE g == CHOOSE f : f = [i \in 1..Len(ss) |-> IF i = 1 THEN ss[i] ELSE f[i-1] \o ss[i]]
  <2>1. FlattenSeq(ss) = g[Len(ss)]
    BY <1>2 DEF FlattenSeq
  <2>2. g = [i \in 1..Len(ss) |-> IF i = 1 THEN ss[i] ELSE g[i-1] \o ss[i]]
    <3>1. Len(ss) \in Nat \ {0}
      BY <1>0, <1>2
    <3>2. \E f : f = [i \in 1..Len(ss) |-> IF i = 1 THEN ss[i] ELSE f[i-1] \o ss[i]]
      BY <3>1, FlattenExists, Zenon DEF Flattens
    <3> QED
      BY <3>2, Zenon
  <2> HIDE DEF g
  <2>3. \A i \in 1..Len(ss) : g[i] = IF i = 1 THEN ss[i] ELSE g[i-1] \o ss[i]
    BY <2>2
  <2> DEFINE Right(n) == /\ g[n] \in Seq(S)
                         /\ \A x : Occurs(x, g[n]) <=> \E i \in 1..n : Occurs(x, ss[i])
             T == {n \in 1..Len(ss) : ~Right(n)}
  <2>4. ASSUME T # {} PROVE FALSE
    <3>1. PICK n \in T : \A m \in T : n <= m
      <4>1. T \subseteq Nat
        OBVIOUS
      <4> HIDE DEF T
      <4> QED
        BY <2>4, <4>1, LeastNumber
    <3>2. n \in 1..Len(ss) /\ ~Right(n)
      OBVIOUS
    <3>3. CASE n = 1
      <4>1. g[n] = ss[n] /\ 1..n = {n}
        BY <2>3, <3>2, <3>3
      <4> QED
        BY <1>0, <3>2, <4>1
    <3>4. CASE n # 1
      <4>1. PICK p \in Nat : n = p + 1
        BY <3>2
      <4>2. p \in 1..Len(ss) /\ ~(n <= p) /\ n - 1 = p /\ 1..n = (1..p) \cup {n}
        BY <1>0, <3>2, <3>4, <4>1
      <4>3. Right(p)
        BY <3>1, <4>2
      <4>4. g[n] = g[p] \o ss[n]
        BY <2>3, <3>2, <3>4, <4>2
      <4>5. ss[n] \in Seq(S)
        BY <1>0, <3>2
      <4>6. g[n] \in Seq(S) /\ \A x : Occurs(x, g[n]) <=> Occurs(x, g[p]) \/ Occurs(x, ss[n])
        BY <4>3, <4>4, <4>5, OccursInConcat
      <4>7. ASSUME NEW x PROVE Occurs(x, g[n]) <=> \E i \in 1..n : Occurs(x, ss[i])
        BY <4>2, <4>3, <4>6
      <4> QED
        BY <3>2, <4>6, <4>7
    <3> QED
      BY <3>3, <3>4
  <2>5. Right(Len(ss))
    <3> HIDE DEF Right
    <3>1. Len(ss) \in 1..Len(ss)
      BY <1>0, <1>2
    <3> QED
      BY <2>4, <3>1
  <2> QED
    BY <1>0, <2>1, <2>5
<1> QED
  BY <1>1, <1>2

-----------------------------------------------------------------------------
(* Counting: a set that gains an element has more.                         *)

LEMMA MoreElements ==
  ASSUME NEW S, IsFiniteSet(S), NEW T, NEW x, T \cup {x} \subseteq S, x \notin T
  PROVE  /\ IsFiniteSet(T) /\ Cardinality(T) \in Nat /\ Cardinality(S) \in Nat
         /\ Cardinality(T) < Cardinality(S)
<1>1. IsFiniteSet(T) /\ Cardinality(T) \in Nat /\ Cardinality(S) \in Nat
  BY FS_Subset, FS_CardinalityType
<1>2. Cardinality(T \cup {x}) = Cardinality(T) + 1
  BY <1>1, FS_AddElement
<1>3. Cardinality(T \cup {x}) <= Cardinality(S)
  BY FS_Subset
<1> QED
  BY <1>1, <1>2, <1>3

(* A candidate finds its own node again.                                   *)
LEMMA NodeIsFound ==
  ASSUME NEW expr, DOMAIN expr = 1..Len(expr), Len(expr) \in Nat,
         NEW i \in DOMAIN expr, NEW to
  PROVE  mutateNth(expr, expr[i].kind, NthOf(expr, i), to) = WithValue(expr, i, to)
<1> DEFINE Earlier(h) == {j \in 1..(h - 1) : expr[j].kind = expr[i].kind}
           Hit(h) == /\ expr[h].kind = expr[i].kind
                     /\ Cardinality(Earlier(h)) = NthOf(expr, i)
<1>1. Cardinality(Earlier(i)) = NthOf(expr, i)
  BY DEF NthOf
<1>2. ASSUME NEW h \in DOMAIN expr, NEW k \in DOMAIN expr, h < k, expr[h].kind = expr[i].kind
      PROVE  Cardinality(Earlier(h)) # Cardinality(Earlier(k))
  <2>1. IsFiniteSet(Earlier(k))
    <3>1. k - 1 \in Int /\ Earlier(k) \subseteq 1..(k - 1)
      OBVIOUS
    <3>2. IsFiniteSet(1..(k - 1))
      BY <3>1, FS_Interval
    <3> QED
      BY <3>1, <3>2, FS_Subset
  <2>2. Earlier(h) \cup {h} \subseteq Earlier(k) /\ h \notin Earlier(h)
    BY <1>2
  <2> HIDE DEF Earlier
  <2> QED
    BY <2>1, <2>2, MoreElements
<1>3. \A h \in DOMAIN expr : Hit(h) <=> h = i
  <2> SUFFICES ASSUME NEW h \in DOMAIN expr, Hit(h), h # i PROVE FALSE
    BY <1>1
  <2>1. h < i \/ i < h
    OBVIOUS
  <2> HIDE DEF Earlier
  <2> QED
    BY <1>1, <1>2, <2>1
<1>4. mutateNth(expr, expr[i].kind, NthOf(expr, i), to)
        = WithValue(expr, CHOOSE h \in DOMAIN expr : Hit(h), to)
  BY DEF mutateNth
<1> HIDE DEF Hit
<1>5. (CHOOSE h \in DOMAIN expr : Hit(h)) = i
  BY <1>3
<1> QED
  BY <1>4, <1>5

(* Sorting by counting puts every element in one place.                    *)
Comes(list, j, i) ==
  \/ Before(list[j], list[i])
  \/ ~Before(list[i], list[j]) /\ j < i

Ordered(list) == \A i \in DOMAIN list : list[i].group \in Int /\ list[i].name \in Int

LEMMA PlacesInOrder ==
  ASSUME NEW list, Ordered(list), DOMAIN list \subseteq Nat,
         NEW i \in DOMAIN list, NEW j \in DOMAIN list
  PROVE  /\ ~Comes(list, i, i)
         /\ i # j => Comes(list, i, j) \/ Comes(list, j, i)
         /\ \A k \in DOMAIN list : Comes(list, k, j) /\ Comes(list, j, i) => Comes(list, k, i)
BY DEF Ordered, Comes, Before

LEMMA PlacesDiffer ==
  ASSUME NEW list, Ordered(list), NEW len \in Nat, DOMAIN list = 1..len,
         NEW i \in DOMAIN list, NEW j \in DOMAIN list
  PROVE  /\ Cardinality(Preceding(list, i)) \in Nat /\ Cardinality(Preceding(list, i)) < len
         /\ Comes(list, i, j) =>
              Cardinality(Preceding(list, i)) < Cardinality(Preceding(list, j))
<1>1. \A h \in DOMAIN list : Preceding(list, h) = {k \in DOMAIN list : Comes(list, k, h)}
  BY DEF Preceding, Comes
<1>2. IsFiniteSet(DOMAIN list) /\ Cardinality(DOMAIN list) = len /\ DOMAIN list \subseteq Nat
  BY FS_Interval
<1>3. Preceding(list, i) \cup {i} \subseteq DOMAIN list /\ i \notin Preceding(list, i)
  BY <1>1, <1>2, PlacesInOrder
<1>4. Cardinality(Preceding(list, i)) \in Nat /\ Cardinality(Preceding(list, i)) < len
  BY <1>2, <1>3, MoreElements
<1>5. ASSUME Comes(list, i, j)
      PROVE  Cardinality(Preceding(list, i)) < Cardinality(Preceding(list, j))
  <2>1. Preceding(list, i) \cup {i} \subseteq Preceding(list, j)
    BY <1>1, <1>2, <1>5, PlacesInOrder
  <2>2. IsFiniteSet(Preceding(list, j))
    <3>1. Preceding(list, j) \subseteq DOMAIN list
      BY <1>1
    <3> QED
      BY <1>2, <3>1, FS_Subset
  <2> QED
    BY <1>3, <2>1, <2>2, MoreElements
<1> QED
  BY <1>4, <1>5

LEMMA SortedPermutes ==
  ASSUME NEW list, IsList(list), Ordered(list)
  PROVE  /\ IsList(Sorted(list)) /\ Len(Sorted(list)) = Len(list)
         /\ \E p : /\ \A n \in DOMAIN list : p[n] \in DOMAIN list /\ Sorted(list)[n] = list[p[n]]
                   /\ \A n, k \in DOMAIN list : p[n] = p[k] => n = k
                   /\ \A i \in DOMAIN list : \E n \in DOMAIN list : p[n] = i
<1> DEFINE len == Len(list)
           D == DOMAIN list
           Card(i) == Cardinality(Preceding(list, i))
           f == [i \in D |-> Card(i) + 1]
           p == [n \in D |-> CHOOSE i \in D : Card(i) = n - 1]
<1>1. D = 1..len /\ len \in Nat
  BY ListShape
<1>2. \A i \in D : Card(i) \in Nat /\ Card(i) < len
  BY <1>1, PlacesDiffer
<1>3. \A i, j \in D : Comes(list, i, j) => Card(i) < Card(j)
  BY <1>1, PlacesDiffer
<1>4. \A i, j \in D : i # j => Comes(list, i, j) \/ Comes(list, j, i)
  <2>1. DOMAIN list \subseteq Nat
    BY <1>1
  <2> QED
    BY <2>1, PlacesInOrder
<1> HIDE DEF Card
<1>5. \A i, j \in D : Card(i) = Card(j) => i = j
  BY <1>2, <1>3, <1>4
<1>6. f \in Injection(D, D)
  <2>1. f \in [D -> D]
    BY <1>1, <1>2
  <2>2. \A i, j \in D : f[i] = f[j] => i = j
    BY <1>2, <1>5
  <2> HIDE DEF f, D
  <2> QED
    BY <2>1, <2>2 DEF Injection, IsInjective
<1>7. f \in Surjection(D, D)
  <2>1. IsFiniteSet(D)
    BY <1>1, FS_Interval
  <2> HIDE DEF f, D
  <2> QED
    BY <1>6, <2>1, FS_Injection
<1>8. \A n \in D : \E i \in D : f[i] = n
  <2> HIDE DEF f, D
  <2> QED
    BY <1>7 DEF Surjection
<1>9. \A n \in D : \E i \in D : Card(i) = n - 1
  BY <1>1, <1>2, <1>8
<1>10. \A n \in D : p[n] \in D /\ Card(p[n]) = n - 1
  BY <1>9
<1>11. \A i \in D : Card(i) + 1 \in D /\ p[Card(i) + 1] = i
  <2> SUFFICES ASSUME NEW i \in D PROVE Card(i) + 1 \in D /\ p[Card(i) + 1] = i
    OBVIOUS
  <2>1. Card(i) + 1 \in D /\ (Card(i) + 1) - 1 = Card(i)
    BY <1>1, <1>2
  <2>2. p[Card(i) + 1] \in D /\ Card(p[Card(i) + 1]) = Card(i)
    BY <1>10, <2>1
  <2> QED
    BY <1>5, <2>1, <2>2
<1>12. Sorted(list) = [n \in D |-> list[p[n]]]
  BY DEF Sorted, Card
<1>13. \A n, k \in D : p[n] = p[k] => n = k
  BY <1>1, <1>10
<1> HIDE DEF p
<1>14. IsList(Sorted(list)) /\ Len(Sorted(list)) = len
  <2>1. Sorted(list) = [n \in 1..len |-> Sorted(list)[n]]
    BY <1>1, <1>12
  <2> QED
    BY <1>1, <2>1, FunctionIsList
<1> QED
  BY <1>10, <1>11, <1>12, <1>13, <1>14

-----------------------------------------------------------------------------
(* What candidates and delay mutants a rule has.                           *)

Expr(i) == file[i].expr
Options(i, n) == Replacements(Expr(i)[n])
Site(i, n, k) == n \in DOMAIN Expr(i) /\ k \in DOMAIN Options(i, n)
Changed(i, n, k) == WithValue(Expr(i), n, Options(i, n)[k])
Candidate(i, n, k) == CandidateOf(Expr(i), n, Options(i, n)[k])

LEMMA ShortLists ==
  /\ IsList(<<>>) /\ \A a : IsList(<<a>>)
  /\ \A a, b : IsList(<<a, b>>)
  /\ \A a, b, c : IsList(<<a, b, c>>)
<1>1. IsList(<<>>)
  BY EmptySeq, ListOf
<1>2. ASSUME NEW a PROVE IsList(<<a>>)
  <2>1. <<a>> \in Seq({a})
    OBVIOUS
  <2> QED
    BY <2>1, ListOf
<1>3. ASSUME NEW a, NEW b PROVE IsList(<<a, b>>)
  <2>1. <<a, b>> \in Seq({a, b})
    OBVIOUS
  <2> QED
    BY <2>1, ListOf
<1>4. ASSUME NEW a, NEW b, NEW c PROVE IsList(<<a, b, c>>)
  <2>1. <<a, b, c>> \in Seq({a, b, c})
    OBVIOUS
  <2> QED
    BY <2>1, ListOf
<1> QED
  BY <1>1, <1>2, <1>3, <1>4

LEMMA ReplacementsAreLists ==
  ASSUME NEW node, IsNode(node)
  PROVE  IsList(Replacements(node))
<1>1. \A op : IsList(binaryReplacements(op))
  BY ShortLists DEF binaryReplacements
<1>2. \A op : IsList(aggregateReplacement(op))
  BY ShortLists DEF aggregateReplacement
<1>3. \A name : IsList(functionReplacement(name))
  BY ShortLists DEF functionReplacement
<1>4. \A v : IsList(thresholdReplacements(v))
  BY ShortLists DEF thresholdReplacements
<1>5. \A v : IsList(rangeReplacements(v))
  BY ShortLists DEF rangeReplacements
<1>6. \A v : IsList(<<negateMatcher(v)>>)
  BY ShortLists
<1> QED
  BY <1>1, <1>2, <1>3, <1>4, <1>5, <1>6, ShortLists DEF Replacements, IsNode, Kinds

LEMMA CandidatesOccur ==
  ASSUME NEW i, IsAlert(file[i])
  PROVE  /\ IsList(expressionCandidates(Expr(i)))
         /\ \A c : Occurs(c, expressionCandidates(Expr(i)))
                     <=> \E n, k : Site(i, n, k) /\ c = Candidate(i, n, k)
<1> DEFINE len == Len(Expr(i))
           Of(n) == CandidatesOf(Expr(i), n)
           S == UNION {{Of(n)[k] : k \in DOMAIN Of(n)} : n \in 1..len}
           ss == [n \in 1..len |-> Of(n)]
<1>1. /\ DOMAIN Expr(i) = 1..len /\ len \in Nat
      /\ \A n \in 1..len : IsNode(Expr(i)[n])
  BY DEF Expr, IsAlert
<1>2. \A n \in 1..len : IsList(Of(n)) /\ DOMAIN Of(n) = DOMAIN Options(i, n)
  <2> SUFFICES ASSUME NEW n \in 1..len PROVE IsList(Of(n)) /\ DOMAIN Of(n) = DOMAIN Options(i, n)
    OBVIOUS
  <2>1. DOMAIN Options(i, n) = 1..Len(Options(i, n)) /\ Len(Options(i, n)) \in Nat
    BY <1>1, ReplacementsAreLists, ListShape DEF Options
  <2>2. Of(n) = [k \in 1..Len(Options(i, n)) |-> Candidate(i, n, k)]
    BY <2>1 DEF CandidatesOf, Options, Candidate
  <2>3. Of(n) = [k \in 1..Len(Options(i, n)) |-> Of(n)[k]]
    BY <2>2
  <2> HIDE DEF Of
  <2> QED
    BY <2>1, <2>2, <2>3, FunctionIsList
<1>3. \A n \in 1..len : \A k \in DOMAIN Of(n) : Of(n)[k] = Candidate(i, n, k)
  BY <1>2 DEF CandidatesOf, Options, Candidate
<1>4. expressionCandidates(Expr(i)) = FlattenSeq(ss)
  BY <1>1 DEF expressionCandidates
<1> HIDE DEF Of
<1>5. ss \in Seq(Seq(S))
  <2>1. ASSUME NEW n \in 1..len PROVE Of(n) \in Seq(S)
    <3>1. {Of(n)[k] : k \in DOMAIN Of(n)} \subseteq S
      OBVIOUS
    <3>2. Of(n) \in Seq({Of(n)[k] : k \in DOMAIN Of(n)})
      BY <1>2 DEF IsList
    <3> HIDE DEF S
    <3> QED
      BY <3>1, <3>2, SeqMonotonic
  <2> HIDE DEF S
  <2>2. ss \in [1..len -> Seq(S)]
    BY <2>1
  <2> QED
    BY <1>1, <2>2, SeqDef
<1>6. DOMAIN ss = 1..len /\ \A n \in 1..len : ss[n] = Of(n)
  OBVIOUS
<1> HIDE DEF S, ss
<1>7. /\ FlattenSeq(ss) \in Seq(S)
      /\ \A c : Occurs(c, FlattenSeq(ss)) <=> \E n \in DOMAIN ss : Occurs(c, ss[n])
  BY <1>5, FlattenOccurs
<1>8. IsList(FlattenSeq(ss))
  BY <1>7, ListOf
<1>9. \A c : (\E n \in DOMAIN ss : Occurs(c, ss[n]))
              <=> \E n, k : Site(i, n, k) /\ c = Candidate(i, n, k)
  BY <1>1, <1>2, <1>3, <1>6 DEF Occurs, Site
<1> QED
  BY <1>4, <1>7, <1>8, <1>9

(* A mutant of the delay, and one of the expression.                       *)
OfRule(m) ==
  m.rule \in DOMAIN file /\ m.group = file[m.rule].group /\ m.name = file[m.rule].name

DelayMutant(m) ==
  /\ m.expression = <<>> /\ m.original = file[m.rule].for
  /\ m.replacement \in ForChanges(m.rule)
  /\ \/ m.removeFor = TRUE /\ m.for = None /\ m.replacement = None
     \/ m.removeFor = FALSE /\ m.for # None /\ m.replacement = m.for

ExprMutant(m) ==
  /\ m.removeFor = FALSE /\ m.for = None
  /\ \E n, k : /\ Site(m.rule, n, k) /\ m.expression = Changed(m.rule, n, k)
               /\ m.original = Expr(m.rule)[n].value /\ m.replacement = Options(m.rule, n)[k]
  /\ Parses(m.expression)

LEMMA DelayMutants ==
  ASSUME NEW i \in DOMAIN file, IsAlert(file[i])
  PROVE  /\ IsList(durationMutations(i))
         /\ \A m : Occurs(m, durationMutations(i)) => OfRule(m) /\ m.rule = i /\ DelayMutant(m)
         /\ \A d \in ForChanges(i) : \E m : Occurs(m, durationMutations(i)) /\ m.replacement = d
<1> DEFINE d == file[i].for
           for(operator, to) == [newMutation(i, operator, d, to) EXCEPT !.for = to]
           removed == [newMutation(i, "for.remove", d, None) EXCEPT !.removeFor = TRUE]
           Right(m, to) == OfRule(m) /\ m.rule = i /\ DelayMutant(m) /\ m.replacement = to
<1>1. None \notin Int /\ (d = None \/ d \in Int)
  BY DocumentsKnown DEF IsAlert
<1>2. ASSUME NEW to \in ForChanges(i), to # None, NEW operator PROVE Right(for(operator, to), to)
  BY <1>2 DEF OfRule, DelayMutant, newMutation
<1>3. ASSUME None \in ForChanges(i) PROVE Right(removed, None)
  BY <1>3 DEF OfRule, DelayMutant, newMutation
<1> HIDE DEF Right
<1>4. CASE d = None
  <2>1. durationMutations(i) = <<for("for.add", 300 * Second)>>
    BY <1>4 DEF durationMutations
  <2>2. ForChanges(i) = {300 * Second} /\ 300 * Second # None
    BY <1>1, <1>4 DEF ForChanges, Second
  <2>3. Right(for("for.add", 300 * Second), 300 * Second)
    BY <1>2, <2>2
  <2> HIDE DEF for
  <2> QED
    BY <2>1, <2>2, <2>3, ShortLists DEF Occurs, Right
<1>5. CASE d # None /\ d <= 0
  <2>1. durationMutations(i) = <<>> /\ ForChanges(i) = {}
    BY <1>5 DEF durationMutations, ForChanges
  <2> QED
    BY <2>1, ShortLists DEF Occurs
<1>6. CASE d # None /\ ~(d <= 0)
  <2>1. /\ durationMutations(i) = <<removed, for("for.contract", Contracted(d)), for("for.expand", d * 2)>>
        /\ ForChanges(i) = {None, Contracted(d), 2 * d}
    BY <1>6 DEF durationMutations, ForChanges
  <2>2. Contracted(d) # None /\ d * 2 # None /\ d * 2 = 2 * d
    BY <1>1, <1>6 DEF Contracted, Second
  <2>3. /\ Right(removed, None) /\ Right(for("for.contract", Contracted(d)), Contracted(d))
        /\ Right(for("for.expand", d * 2), d * 2)
    BY <1>2, <1>3, <2>1, <2>2
  <2> HIDE DEF for, removed
  <2>4. \A m : Occurs(m, durationMutations(i)) <=>
                 m \in {removed, for("for.contract", Contracted(d)), for("for.expand", d * 2)}
    BY <2>1 DEF Occurs
  <2>5. IsList(durationMutations(i))
    BY <2>1, ShortLists
  <2> QED
    BY <2>1, <2>2, <2>3, <2>4, <2>5 DEF Right
<1> QED
  BY <1>1, <1>4, <1>5, <1>6

-----------------------------------------------------------------------------
(* The inductive invariant.                                                *)

PhaseInv ==
  /\ file \in Documents /\ alert \in Nat \ {0} /\ alert <= Len(file) + 1
  /\ phase \in {"apply", "durations"} => alert <= Len(file)
  /\ phase = "done" => alert = Len(file) + 1

(* The mutants collected are what they say, and their keys are their own.  *)
MutantsSound ==
  /\ IsList(mutations)
  /\ \A n \in DOMAIN mutations :
       OfRule(mutations[n]) /\ (ExprMutant(mutations[n]) \/ DelayMutant(mutations[n]))

KeysSeen ==
  /\ seen = {Key(mutations[n]) : n \in DOMAIN mutations}
  /\ \A n, k \in DOMAIN mutations : Key(mutations[n]) = Key(mutations[k]) => n = k

(* What is pending belongs to the rule under way.                          *)
PendingSound ==
  /\ IsList(pending)
  /\ phase = "apply" => \A c : Occurs(c, pending) =>
       \E n, k : Site(alert, n, k) /\ c = Candidate(alert, n, k)
  /\ phase = "durations" => \A m : Occurs(m, pending) =>
       OfRule(m) /\ m.rule = alert /\ DelayMutant(m)

(* What has been collected, and what is still to come.                     *)
HasExpr(i, t) ==
  \E n \in DOMAIN mutations : mutations[n].rule = i /\ mutations[n].expression = t
HasDelay(i, d) ==
  \E n \in DOMAIN mutations :
    mutations[n].rule = i /\ mutations[n].expression = <<>> /\ mutations[n].replacement = d

IsChange(i, n, k) == Site(i, n, k) /\ Parses(Changed(i, n, k)) /\ Changed(i, n, k) # Expr(i)
ExprDone(i)  == \A n, k : IsChange(i, n, k) => HasExpr(i, Changed(i, n, k))
DelayDone(i) == \A d \in ForChanges(i) : HasDelay(i, d)
ExprUnderWay(i) ==
  \A n, k : IsChange(i, n, k) => HasExpr(i, Changed(i, n, k)) \/ Occurs(Candidate(i, n, k), pending)
DelayUnderWay(i) ==
  \A d \in ForChanges(i) : HasDelay(i, d) \/ \E m : Occurs(m, pending) /\ m.replacement = d

Progress ==
  \A i \in DOMAIN file : ~Namesake(i) =>
    /\ i < alert => ExprDone(i) /\ DelayDone(i)
    /\ i = alert /\ phase = "apply" => ExprUnderWay(i)
    /\ i = alert /\ phase = "durations" => ExprDone(i) /\ DelayUnderWay(i)

GenInv == PhaseInv /\ MutantsSound /\ KeysSeen /\ PendingSound /\ Progress

LEMMA FileShape ==
  ASSUME PhaseInv
  PROVE  /\ DOMAIN file = 1..Len(file) /\ Len(file) \in Nat
         /\ \A i \in DOMAIN file : IsAlert(file[i]) /\ Expr(i) = file[i].expr
         /\ phase \in {"apply", "durations"} => alert \in DOMAIN file
BY DocumentsKnown DEF PhaseInv, Expr

(* No step changes the file, nor what is said of its rules.                *)
LEMMA SameRules ==
  ASSUME UNCHANGED file
  PROVE  /\ \A i : /\ Expr(i)' = Expr(i) /\ ForChanges(i)' = ForChanges(i)
                   /\ Namesake(i)' <=> Namesake(i)
         /\ \A i, n, k : /\ Site(i, n, k)' <=> Site(i, n, k)
                         /\ IsChange(i, n, k)' <=> IsChange(i, n, k)
                         /\ Changed(i, n, k)' = Changed(i, n, k)
                         /\ Candidate(i, n, k)' = Candidate(i, n, k)
         /\ \A x : /\ OfRule(x)' <=> OfRule(x)
                   /\ ExprMutant(x)' <=> ExprMutant(x)
                   /\ DelayMutant(x)' <=> DelayMutant(x)
                   /\ Occurs(x, pending)' <=> Occurs(x, pending')
<1>1. \A i : /\ Expr(i)' = Expr(i) /\ ForChanges(i)' = ForChanges(i)
             /\ Namesake(i)' <=> Namesake(i)
  BY DEF Expr, ForChanges, Namesake
<1>2. \A i, n, k : /\ Site(i, n, k)' <=> Site(i, n, k)
                   /\ Changed(i, n, k)' = Changed(i, n, k)
                   /\ Candidate(i, n, k)' = Candidate(i, n, k)
                   /\ Options(i, n)' = Options(i, n)
  BY DEF Site, Changed, Candidate, Options, Expr
<1>3. \A i, n, k : IsChange(i, n, k)' <=> IsChange(i, n, k)
  BY <1>1, <1>2 DEF IsChange
<1>4. \A x : /\ OfRule(x)' <=> OfRule(x)
             /\ ExprMutant(x)' <=> ExprMutant(x)
             /\ DelayMutant(x)' <=> DelayMutant(x)
  BY <1>1, <1>2 DEF OfRule, ExprMutant, DelayMutant
<1>5. \A x : Occurs(x, pending)' <=> Occurs(x, pending')
  BY DEF Occurs
<1> QED
  BY <1>1, <1>2, <1>3, <1>4, <1>5

(* An expression that was changed is not empty.                            *)
LEMMA ChangedIsNotEmpty ==
  ASSUME NEW i, NEW n, NEW k, Site(i, n, k)
  PROVE  Changed(i, n, k) # <<>>
<1>1. n \in DOMAIN Changed(i, n, k)
  BY DEF Changed, WithValue, Site
<1> QED
  BY <1>1

LEMMA ExprIsNotDelay ==
  ASSUME NEW m, ExprMutant(m)
  PROVE  m.expression # <<>>
BY ChangedIsNotEmpty DEF ExprMutant

(* Adding a mutant: it is there or one with its key was, nothing is lost.  *)
LEMMA Collected ==
  ASSUME MutantsSound, KeysSeen, NEW m, OfRule(m), ExprMutant(m) \/ DelayMutant(m),
         Collect(m), UNCHANGED file
  PROVE  /\ MutantsSound' /\ KeysSeen'
         /\ \A n \in DOMAIN mutations : n \in DOMAIN mutations' /\ mutations'[n] = mutations[n]
         /\ \E n \in DOMAIN mutations' : Key(mutations'[n]) = Key(m)
<1>1. CASE Key(m) \in seen
  <2>1. UNCHANGED <<mutations, seen>>
    BY <1>1 DEF Collect, addUnique
  <2>2. MutantsSound'
    BY <2>1, SameRules DEF MutantsSound
  <2>3. KeysSeen'
    BY <2>1 DEF KeysSeen
  <2> QED
    BY <1>1, <2>1, <2>2, <2>3 DEF KeysSeen
<1>2. CASE Key(m) \notin seen
  <2>1. mutations' = Append(mutations, m) /\ seen' = seen \cup {Key(m)}
    BY <1>2 DEF Collect, addUnique
  <2> DEFINE last == Len(mutations) + 1
  <2>2. /\ IsList(mutations') /\ last \in DOMAIN mutations' /\ mutations'[last] = m
        /\ \A n \in DOMAIN mutations' : n # last => n \in DOMAIN mutations
        /\ \A n \in DOMAIN mutations : n # last /\ n \in DOMAIN mutations' /\ mutations'[n] = mutations[n]
    BY <2>1, AppendList DEF MutantsSound
  <2> HIDE DEF last
  <2>3. MutantsSound'
    BY <2>2, SameRules DEF MutantsSound
  <2>4. \A n \in DOMAIN mutations : Key(mutations[n]) # Key(m)
    BY <1>2 DEF KeysSeen
  <2>5. seen' = {Key(mutations'[n]) : n \in DOMAIN mutations'}
    BY <2>1, <2>2 DEF KeysSeen
  <2>6. \A n, k \in DOMAIN mutations' : Key(mutations'[n]) = Key(mutations'[k]) => n = k
    BY <2>2, <2>4 DEF KeysSeen
  <2>7. KeysSeen'
    BY <2>5, <2>6 DEF KeysSeen, Key
  <2> QED
    BY <2>2, <2>3, <2>7
<1> QED
  BY <1>1, <1>2

(* A rule with a name of its own loses no change as a duplicate.           *)
LEMMA CollectedCovers ==
  ASSUME MutantsSound, KeysSeen, NEW m, OfRule(m), ExprMutant(m) \/ DelayMutant(m),
         Collect(m), UNCHANGED file, ~Namesake(m.rule)
  PROVE  /\ ExprMutant(m) => HasExpr(m.rule, m.expression)'
         /\ DelayMutant(m) => HasDelay(m.rule, m.replacement)'
<1>1. PICK n \in DOMAIN mutations' : Key(mutations'[n]) = Key(m)
  BY Collected
<1> DEFINE x == mutations'[n]
<1>2. OfRule(x) /\ (ExprMutant(x) \/ DelayMutant(x))
  <2>1. MutantsSound'
    BY Collected
  <2> QED
    BY <2>1, SameRules DEF MutantsSound
<1> HIDE DEF x
<1>3. /\ x.group = m.group /\ x.name = m.name /\ x.expression = m.expression
      /\ x.for = m.for /\ x.removeFor = m.removeFor
  BY <1>1 DEF Key, x
<1>4. x.rule = m.rule
  BY <1>2, <1>3 DEF OfRule, Namesake
<1>5. ASSUME ExprMutant(m) PROVE HasExpr(m.rule, m.expression)'
  BY <1>3, <1>4 DEF HasExpr, x
<1>6. ASSUME DelayMutant(m) PROVE HasDelay(m.rule, m.replacement)'
  <2>1. x.expression = <<>> /\ DelayMutant(x)
    BY <1>2, <1>3, <1>6, ExprIsNotDelay DEF DelayMutant
  <2>2. x.replacement = m.replacement
    BY <1>3, <1>6, <2>1 DEF DelayMutant
  <2> QED
    BY <1>4, <2>1, <2>2 DEF HasDelay, x
<1> QED
  BY <1>5, <1>6

(* Nothing collected is lost.                                              *)
Kept == \A n \in DOMAIN mutations : n \in DOMAIN mutations' /\ mutations'[n] = mutations[n]

LEMMA DoneStaysDone ==
  ASSUME Kept, UNCHANGED file, NEW i
  PROVE  /\ \A t : HasExpr(i, t) => HasExpr(i, t)'
         /\ \A d : HasDelay(i, d) => HasDelay(i, d)'
         /\ ExprDone(i) => ExprDone(i)'
         /\ DelayDone(i) => DelayDone(i)'
<1>1. \A t : HasExpr(i, t) => HasExpr(i, t)'
  BY DEF HasExpr, Kept
<1>2. \A d : HasDelay(i, d) => HasDelay(i, d)'
  BY DEF HasDelay, Kept
<1>3. ExprDone(i) => ExprDone(i)'
  BY <1>1, SameRules DEF ExprDone
<1>4. DelayDone(i) => DelayDone(i)'
  BY <1>2, SameRules DEF DelayDone
<1> QED
  BY <1>1, <1>2, <1>3, <1>4

(* A candidate makes the change it was found for.                          *)
LEMMA CandidateMakesChange ==
  ASSUME PhaseInv, NEW i \in DOMAIN file, NEW n, NEW k, Site(i, n, k),
         NEW c, c = Candidate(i, n, k)
  PROVE  /\ mutateNth(file[i].expr, c.kind, c.nth, c.replacement) = Changed(i, n, k)
         /\ c.original = Expr(i)[n].value /\ c.replacement = Options(i, n)[k]
<1>1. /\ c.kind = Expr(i)[n].kind /\ c.nth = NthOf(Expr(i), n)
      /\ c.original = Expr(i)[n].value /\ c.replacement = Options(i, n)[k]
  BY DEF Candidate, CandidateOf
<1>2. DOMAIN Expr(i) = 1..Len(Expr(i)) /\ Len(Expr(i)) \in Nat /\ n \in DOMAIN Expr(i)
  BY FileShape DEF IsAlert, Site
<1>3. mutateNth(Expr(i), Expr(i)[n].kind, NthOf(Expr(i), n), Options(i, n)[k])
        = WithValue(Expr(i), n, Options(i, n)[k])
  BY <1>2, NodeIsFound
<1> QED
  BY <1>1, <1>3 DEF Changed, Expr

LEMMA InitGenInv ==
  Init => GenInv
<1> SUFFICES ASSUME Init PROVE GenInv
  OBVIOUS
<1>1. DOMAIN file = 1..Len(file) /\ Len(file) \in Nat
  BY DocumentsKnown DEF Init
<1>2. PhaseInv
  BY <1>1 DEF Init, PhaseInv
<1>3. DOMAIN mutations = {}
  BY DEF Init
<1>4. MutantsSound
  BY <1>3, ShortLists DEF Init, MutantsSound
<1>5. KeysSeen
  BY <1>3 DEF Init, KeysSeen
<1>6. PendingSound
  BY ShortLists DEF Init, PendingSound
<1>7. Progress
  BY <1>1 DEF Init, Progress
<1> QED
  BY <1>2, <1>4, <1>5, <1>6, <1>7 DEF GenInv

(* What is left alone stays sound.                                         *)
LEMMA SameMutants ==
  ASSUME MutantsSound, KeysSeen, UNCHANGED <<file, mutations, seen>>
  PROVE  MutantsSound' /\ KeysSeen' /\ Kept
<1>1. MutantsSound'
  BY SameRules DEF MutantsSound
<1>2. KeysSeen'
  BY DEF KeysSeen
<1> QED
  BY <1>1, <1>2 DEF Kept

LEMMA ParseAlertKeeps ==
  ASSUME GenInv, ParseAlert
  PROVE  GenInv'
<1> USE DEF GenInv
<1>1. alert \in DOMAIN file /\ DOMAIN file = 1..Len(file) /\ Len(file) \in Nat /\ UNCHANGED <<file, alert>>
  BY FileShape DEF ParseAlert, PhaseInv
<1>2. PhaseInv'
  BY <1>1 DEF PhaseInv, ParseAlert
<1>3. MutantsSound' /\ KeysSeen' /\ Kept
  BY SameMutants DEF ParseAlert
<1>4. CASE ~file[alert].parses
  <2>1. phase' = "failed" /\ UNCHANGED pending
    BY <1>4 DEF ParseAlert
  <2>2. PendingSound'
    BY <2>1 DEF PendingSound
  <2>3. Progress'
    BY <1>1, <1>3, <2>1, DoneStaysDone, SameRules DEF Progress
  <2> QED
    BY <1>2, <1>3, <2>2, <2>3
<1>5. CASE file[alert].parses
  <2>1. phase' = "apply" /\ pending' = expressionCandidates(Expr(alert))
    BY <1>5 DEF ParseAlert, Expr
  <2>2. /\ IsList(pending')
        /\ \A c : Occurs(c, pending') <=> \E n, k : Site(alert, n, k) /\ c = Candidate(alert, n, k)
    BY <1>1, <2>1, FileShape, CandidatesOccur
  <2>3. PendingSound'
    BY <1>1, <2>1, <2>2, SameRules DEF PendingSound
  <2>4. ExprUnderWay(alert)'
    BY <1>1, <2>2, SameRules DEF ExprUnderWay, IsChange
  <2>5. Progress'
    BY <1>1, <1>3, <2>1, <2>4, DoneStaysDone, SameRules DEF Progress
  <2> QED
    BY <1>2, <1>3, <2>3, <2>5
<1> QED
  BY <1>4, <1>5

LEMMA ApplyCandidateKeeps ==
  ASSUME GenInv, ApplyCandidate
  PROVE  GenInv'
<1> USE DEF GenInv
<1> DEFINE c    == Head(pending)
           tree == mutateNth(file[alert].expr, c.kind, c.nth, c.replacement)
           same == file[alert].canonical /\ tree = file[alert].expr
           m    == expressionMutation(c, tree)
<1>1. alert \in DOMAIN file /\ phase = "apply" /\ UNCHANGED <<file, alert, phase>>
  BY FileShape DEF ApplyCandidate
<1>2. PhaseInv'
  BY <1>1 DEF PhaseInv
<1>3. IsList(pending) /\ pending # <<>> /\ pending' = Tail(pending)
  BY DEF ApplyCandidate, PendingSound
<1>4. /\ IsList(pending') /\ Occurs(c, pending)
      /\ \A x : Occurs(x, pending) <=> x = c \/ Occurs(x, pending')
  <2>1. /\ IsList(Tail(pending)) /\ Occurs(c, pending)
        /\ \A x : Occurs(x, pending) <=> x = c \/ Occurs(x, Tail(pending))
    BY <1>3, TailList
  <2> HIDE DEF c
  <2> QED
    BY <1>3, <2>1
<1>5. IF same \/ ~Parses(tree) THEN UNCHANGED <<mutations, seen>> ELSE Collect(m)
  BY DEF ApplyCandidate
<1> HIDE DEF c
<1>6. PendingSound'
  BY <1>1, <1>4, SameRules DEF PendingSound
<1>7. PICK n, k : Site(alert, n, k) /\ c = Candidate(alert, n, k)
  BY <1>1, <1>4 DEF PendingSound
<1>8. \A x, y : Site(alert, x, y) /\ c = Candidate(alert, x, y) => tree = Changed(alert, x, y)
  BY <1>1, CandidateMakesChange
<1>9. /\ tree = Changed(alert, n, k)
      /\ c.original = Expr(alert)[n].value /\ c.replacement = Options(alert, n)[k]
  BY <1>1, <1>7, CandidateMakesChange
<1> HIDE DEF tree
<1>10. ASSUME Parses(tree)
       PROVE  OfRule(m) /\ ExprMutant(m) /\ m.rule = alert /\ m.expression = tree
  <2>1. /\ m.rule = alert /\ m.group = file[alert].group /\ m.name = file[alert].name
        /\ m.original = c.original /\ m.replacement = c.replacement
        /\ m.expression = tree /\ m.for = None /\ m.removeFor = FALSE
    BY DEF expressionMutation, newMutation
  <2> HIDE DEF m
  <2> QED
    BY <1>1, <1>7, <1>9, <1>10, <2>1 DEF OfRule, ExprMutant
<1> HIDE DEF m, same
<1>11. MutantsSound' /\ KeysSeen' /\ Kept
  <2>1. CASE same \/ ~Parses(tree)
    BY <1>1, <1>5, <2>1, SameMutants
  <2>2. CASE ~(same \/ ~Parses(tree))
    BY <1>1, <1>5, <1>10, <2>2, Collected DEF Kept
  <2> QED
    BY <2>1, <2>2
<1>12. ASSUME ~Namesake(alert), Parses(tree), tree # Expr(alert), NEW t, t = tree
       PROVE  HasExpr(alert, t)'
  <2>1. Collect(m)
    BY <1>5, <1>12 DEF same, Expr
  <2> QED
    BY <1>1, <1>10, <1>12, <2>1, CollectedCovers
<1>13. ASSUME ~Namesake(alert) PROVE ExprUnderWay(alert)'
  <2>1. ExprUnderWay(alert)
    BY <1>1, <1>13 DEF Progress
  <2>2. ASSUME NEW x, NEW y, IsChange(alert, x, y)
        PROVE  HasExpr(alert, Changed(alert, x, y))' \/ Occurs(Candidate(alert, x, y), pending)'
    <3>1. CASE HasExpr(alert, Changed(alert, x, y))
      BY <1>1, <1>11, <3>1, DoneStaysDone, SameRules
    <3>2. CASE Candidate(alert, x, y) = c
      BY <1>1, <1>8, <1>12, <1>13, <2>2, <3>2, SameRules DEF IsChange
    <3>3. CASE Occurs(Candidate(alert, x, y), pending')
      BY <1>1, <3>3, SameRules DEF Occurs
    <3> QED
      BY <1>4, <2>1, <2>2, <3>1, <3>2, <3>3 DEF ExprUnderWay
  <2> QED
    BY <1>1, <2>2, SameRules DEF ExprUnderWay
<1>14. Progress'
  BY <1>1, <1>11, <1>13, DoneStaysDone, SameRules DEF Progress
<1> QED
  BY <1>2, <1>6, <1>11, <1>14

LEMMA MutateDurationKeeps ==
  ASSUME GenInv, MutateDuration
  PROVE  GenInv'
<1> USE DEF GenInv
<1>1. /\ alert \in DOMAIN file /\ phase = "apply" /\ phase' = "durations"
      /\ pending = <<>> /\ pending' = durationMutations(alert)
      /\ UNCHANGED <<file, alert, mutations, seen>>
  BY FileShape DEF MutateDuration
<1>2. PhaseInv'
  BY <1>1 DEF PhaseInv
<1>3. MutantsSound' /\ KeysSeen' /\ Kept
  BY <1>1, SameMutants
<1>4. /\ IsList(pending')
      /\ \A m : Occurs(m, pending') => OfRule(m) /\ m.rule = alert /\ DelayMutant(m)
      /\ \A d \in ForChanges(alert) : \E m : Occurs(m, pending') /\ m.replacement = d
  BY <1>1, FileShape, DelayMutants
<1>5. PendingSound'
  BY <1>1, <1>4, SameRules DEF PendingSound
<1>6. DelayUnderWay(alert)'
  BY <1>1, <1>4, SameRules DEF DelayUnderWay
<1>7. ASSUME ExprUnderWay(alert) PROVE ExprDone(alert)'
  <2>1. \A c : ~Occurs(c, pending)
    BY <1>1 DEF Occurs
  <2>2. ExprDone(alert)
    BY <1>7, <2>1 DEF ExprUnderWay, ExprDone
  <2> QED
    BY <1>1, <1>3, <2>2, DoneStaysDone
<1>8. Progress'
  BY <1>1, <1>3, <1>6, <1>7, DoneStaysDone, SameRules DEF Progress
<1> QED
  BY <1>2, <1>3, <1>5, <1>8

LEMMA AddDurationKeeps ==
  ASSUME GenInv, AddDuration
  PROVE  GenInv'
<1> USE DEF GenInv
<1> DEFINE m == Head(pending)
<1>1. /\ alert \in DOMAIN file /\ phase = "durations" /\ Collect(m)
      /\ UNCHANGED <<file, alert, phase>>
  BY FileShape DEF AddDuration
<1>2. PhaseInv'
  BY <1>1 DEF PhaseInv
<1>3. IsList(pending) /\ pending # <<>> /\ pending' = Tail(pending)
  BY DEF AddDuration, PendingSound
<1>4. /\ IsList(pending') /\ Occurs(m, pending)
      /\ \A x : Occurs(x, pending) <=> x = m \/ Occurs(x, pending')
  <2>1. /\ IsList(Tail(pending)) /\ Occurs(m, pending)
        /\ \A x : Occurs(x, pending) <=> x = m \/ Occurs(x, Tail(pending))
    BY <1>3, TailList
  <2> HIDE DEF m
  <2> QED
    BY <1>3, <2>1
<1> HIDE DEF m
<1>5. OfRule(m) /\ m.rule = alert /\ DelayMutant(m)
  BY <1>1, <1>4 DEF PendingSound
<1>6. PendingSound'
  BY <1>1, <1>4, SameRules DEF PendingSound
<1>7. MutantsSound' /\ KeysSeen' /\ Kept
  BY <1>1, <1>5, Collected DEF Kept
<1>8. ASSUME ~Namesake(alert), NEW d, d = m.replacement PROVE HasDelay(alert, d)'
  BY <1>1, <1>5, <1>8, CollectedCovers
<1>9. ASSUME ~Namesake(alert) PROVE DelayUnderWay(alert)'
  <2>1. DelayUnderWay(alert)
    BY <1>1, <1>9 DEF Progress
  <2>2. ASSUME NEW d \in ForChanges(alert)
        PROVE  HasDelay(alert, d)' \/ \E x : Occurs(x, pending') /\ x.replacement = d
    <3>1. CASE HasDelay(alert, d)
      BY <1>1, <1>7, <3>1, DoneStaysDone
    <3>2. ASSUME NEW x, Occurs(x, pending), x.replacement = d
          PROVE  HasDelay(alert, d)' \/ \E y : Occurs(y, pending') /\ y.replacement = d
      <4>1. CASE x = m
        BY <1>1, <1>8, <1>9, <3>2, <4>1
      <4>2. CASE Occurs(x, pending')
        BY <3>2, <4>2
      <4> QED
        BY <1>4, <3>2, <4>1, <4>2
    <3> QED
      BY <2>1, <2>2, <3>1, <3>2 DEF DelayUnderWay
  <2> QED
    BY <1>1, <2>2, SameRules DEF DelayUnderWay
<1>10. Progress'
  BY <1>1, <1>7, <1>9, DoneStaysDone, SameRules DEF Progress
<1> QED
  BY <1>2, <1>6, <1>7, <1>10

LEMMA NextAlertKeeps ==
  ASSUME GenInv, NextAlert
  PROVE  GenInv'
<1> USE DEF GenInv
<1>1. /\ alert \in DOMAIN file /\ phase = "durations" /\ phase' = "parse"
      /\ pending = <<>> /\ alert' = alert + 1
      /\ UNCHANGED <<file, pending, mutations, seen>>
  BY FileShape DEF NextAlert
<1>2. DOMAIN file = 1..Len(file) /\ Len(file) \in Nat /\ alert \in Nat
  BY FileShape DEF PhaseInv
<1>3. PhaseInv'
  BY <1>1, <1>2 DEF PhaseInv
<1>4. MutantsSound' /\ KeysSeen' /\ Kept
  BY <1>1, SameMutants
<1>5. PendingSound'
  BY <1>1 DEF PendingSound
<1>6. ASSUME DelayUnderWay(alert) PROVE DelayDone(alert)
  <2>1. \A m : ~Occurs(m, pending)
    BY <1>1 DEF Occurs
  <2> QED
    BY <1>6, <2>1 DEF DelayUnderWay, DelayDone
<1>7. ASSUME NEW i \in DOMAIN file, ~Namesake(i), i < alert + 1
      PROVE  ExprDone(i)' /\ DelayDone(i)'
  <2>1. i < alert \/ i = alert
    BY <1>2, <1>7
  <2>2. ExprDone(i) /\ DelayDone(i)
    BY <1>1, <1>6, <1>7, <2>1 DEF Progress
  <2> QED
    BY <1>1, <1>4, <2>2, DoneStaysDone
<1>8. Progress'
  BY <1>1, <1>7, SameRules DEF Progress
<1> QED
  BY <1>3, <1>4, <1>5, <1>8

LEMMA SortMutationsKeeps ==
  ASSUME GenInv, SortMutations
  PROVE  GenInv'
<1> USE DEF GenInv
<1>1. /\ phase = "parse" /\ phase' = "done" /\ alert = Len(file) + 1
      /\ mutations' = Sorted(mutations) /\ UNCHANGED <<file, alert, pending, seen>>
  BY DEF SortMutations
<1>2. DOMAIN file = 1..Len(file) /\ Len(file) \in Nat
      /\ \A i \in DOMAIN file : file[i].group \in Int /\ file[i].name \in Int
  BY FileShape DEF IsAlert
<1>3. PhaseInv'
  BY <1>1 DEF PhaseInv
<1>4. IsList(mutations) /\ Ordered(mutations)
  BY <1>2 DEF MutantsSound, OfRule, Ordered
<1>5. PICK p :
        /\ IsList(mutations') /\ Len(mutations') = Len(mutations)
        /\ \A n \in DOMAIN mutations : p[n] \in DOMAIN mutations /\ mutations'[n] = mutations[p[n]]
        /\ \A n, k \in DOMAIN mutations : p[n] = p[k] => n = k
        /\ \A i \in DOMAIN mutations : \E n \in DOMAIN mutations : p[n] = i
  <2> DEFINE s == Sorted(mutations)
  <2>1. /\ IsList(s) /\ Len(s) = Len(mutations)
        /\ \E p : /\ \A n \in DOMAIN mutations : p[n] \in DOMAIN mutations /\ s[n] = mutations[p[n]]
                  /\ \A n, k \in DOMAIN mutations : p[n] = p[k] => n = k
                  /\ \A i \in DOMAIN mutations : \E n \in DOMAIN mutations : p[n] = i
    BY <1>4, SortedPermutes
  <2>2. mutations' = s
    BY <1>1
  <2> HIDE DEF s
  <2> QED
    BY <2>1, <2>2
<1>6. DOMAIN mutations' = DOMAIN mutations
  BY <1>4, <1>5, ListShape
<1>7. MutantsSound'
  BY <1>1, <1>5, <1>6, SameRules DEF MutantsSound
<1>8. KeysSeen'
  <2>1. seen' = {Key(mutations'[n]) : n \in DOMAIN mutations'}
    BY <1>1, <1>5, <1>6 DEF KeysSeen
  <2>2. ASSUME NEW n \in DOMAIN mutations', NEW k \in DOMAIN mutations',
               Key(mutations'[n]) = Key(mutations'[k])
        PROVE  n = k
    <3>1. /\ p[n] \in DOMAIN mutations /\ mutations'[n] = mutations[p[n]]
          /\ p[k] \in DOMAIN mutations /\ mutations'[k] = mutations[p[k]]
          /\ p[n] = p[k] => n = k
      BY <1>5, <1>6
    <3>2. Key(mutations[p[n]]) = Key(mutations[p[k]])
      BY <2>2, <3>1
    <3> QED
      BY <3>1, <3>2 DEF KeysSeen
  <2> QED
    BY <2>1, <2>2 DEF KeysSeen, Key
<1>9. PendingSound'
  BY <1>1 DEF PendingSound
<1>10. \A i : /\ \A t : HasExpr(i, t) => HasExpr(i, t)'
              /\ \A d : HasDelay(i, d) => HasDelay(i, d)'
  BY <1>5, <1>6 DEF HasExpr, HasDelay
<1>11. ASSUME NEW i \in DOMAIN file, ~Namesake(i) PROVE ExprDone(i)' /\ DelayDone(i)'
  <2>1. i < alert
    BY <1>1, <1>2
  <2>2. ExprDone(i) /\ DelayDone(i)
    BY <1>11, <2>1 DEF Progress
  <2> QED
    BY <1>1, <1>10, <2>2, SameRules DEF ExprDone, DelayDone
<1>12. Progress'
  BY <1>1, <1>11, SameRules DEF Progress
<1> QED
  BY <1>3, <1>7, <1>8, <1>9, <1>12

(* Every step of Generate keeps the invariant.                             *)
THEOREM GeneratorInvariance ==
  Spec => []GenInv
<1>1. Init => GenInv
  BY InitGenInv
<1>2. GenInv /\ [Next]_vars => GenInv'
  <2> SUFFICES ASSUME GenInv, [Next]_vars PROVE GenInv'
    OBVIOUS
  <2>1. CASE ParseAlert
    BY <2>1, ParseAlertKeeps
  <2>2. CASE ApplyCandidate
    BY <2>2, ApplyCandidateKeeps
  <2>3. CASE MutateDuration
    BY <2>3, MutateDurationKeeps
  <2>4. CASE AddDuration
    BY <2>4, AddDurationKeeps
  <2>5. CASE NextAlert
    BY <2>5, NextAlertKeeps
  <2>6. CASE SortMutations
    BY <2>6, SortMutationsKeeps
  <2>7. CASE UNCHANGED vars
    <3>1. UNCHANGED <<file, alert, pending, phase, mutations, seen>>
      BY <2>7 DEF vars
    <3>2. PhaseInv' /\ PendingSound'
      BY <3>1, SameRules DEF GenInv, PhaseInv, PendingSound, Occurs
    <3>3. MutantsSound' /\ KeysSeen' /\ Kept
      BY <3>1, SameMutants DEF GenInv
    <3>4. Progress'
      BY <3>1, SameRules DEF GenInv, Progress, ExprDone, DelayDone, ExprUnderWay, DelayUnderWay,
        HasExpr, HasDelay, Occurs
    <3> QED
      BY <3>2, <3>3, <3>4 DEF GenInv
  <2> QED
    BY <2>1, <2>2, <2>3, <2>4, <2>5, <2>6, <2>7 DEF Next
<1> QED
  BY <1>1, <1>2, PTL DEF Spec

-----------------------------------------------------------------------------
(* The properties.                                                         *)

(* What a mutant is in the rules that promtool is given.                   *)
LEMMA ExprRendered ==
  ASSUME NEW m, ExprMutant(m)
  PROVE  Rendered(m) = [rule |-> m.rule, expr |-> m.expression, for |-> file[m.rule].for]
BY ExprIsNotDelay DEF Rendered, ExprMutant

LEMMA DelayRendered ==
  ASSUME NEW m, DelayMutant(m)
  PROVE  Rendered(m) = [rule |-> m.rule, expr |-> file[m.rule].expr, for |-> m.replacement]
BY DEF Rendered, DelayMutant

(* A mutant changes the one node or the delay that it names, if anything.  *)
THEOREM OneThingIsChanged ==
  Spec => []ChangesOneThing
<1>1. GenInv => ChangesOneThing
  <2> SUFFICES ASSUME GenInv, NEW x \in DOMAIN mutations, NEW m, m = mutations[x]
               PROVE  LET r == Rendered(m)
                          changed == {i \in DOMAIN r.expr : r.expr[i] # file[m.rule].expr[i]}
                      IN  \/ /\ m.expression = <<>>
                             /\ m.original = file[m.rule].for /\ m.replacement = r.for
                          \/ /\ m.expression # <<>> /\ r.for = file[m.rule].for
                             /\ \/ changed = {} /\ m.original = m.replacement
                                \/ \E i \in changed :
                                     /\ changed = {i}
                                     /\ m.original = file[m.rule].expr[i].value
                                     /\ m.replacement = r.expr[i].value
    BY DEF ChangesOneThing
  <2>1. ExprMutant(m) \/ DelayMutant(m)
    BY DEF GenInv, MutantsSound
  <2>2. CASE DelayMutant(m)
    <3>1. Rendered(m).for = m.replacement
      BY <2>2, DelayRendered
    <3>2. m.expression = <<>> /\ m.original = file[m.rule].for
      BY <2>2 DEF DelayMutant
    <3> QED
      BY <3>1, <3>2
  <2>3. CASE ExprMutant(m)
    <3> DEFINE expr == file[m.rule].expr
               tree == m.expression
               changed == {i \in DOMAIN tree : tree[i] # expr[i]}
    <3>1. /\ Rendered(m).expr = tree /\ Rendered(m).for = file[m.rule].for /\ tree # <<>>
      BY <2>3, ExprRendered, ExprIsNotDelay
    <3>2. PICK n, k : /\ Site(m.rule, n, k) /\ tree = Changed(m.rule, n, k)
                      /\ m.original = expr[n].value /\ m.replacement = Options(m.rule, n)[k]
      BY <2>3 DEF ExprMutant, Expr
    <3>3. OfRule(m) /\ "value" \in DOMAIN expr[n]
      BY <3>2, FileShape DEF GenInv, MutantsSound, OfRule, IsAlert, IsNode, Site, Expr
    <3>4. /\ n \in DOMAIN expr /\ DOMAIN tree = DOMAIN expr
          /\ \A i \in DOMAIN expr : i # n => tree[i] = expr[i]
          /\ tree[n] = [expr[n] EXCEPT !.value = m.replacement]
      BY <3>2 DEF Site, Changed, WithValue, Expr
    <3>5. tree[n].value = m.replacement
      BY <3>3, <3>4
    <3> HIDE DEF expr, tree
    <3>6. CASE tree[n] = expr[n]
      <4>1. changed = {} /\ m.original = m.replacement
        BY <3>2, <3>4, <3>5, <3>6
      <4> QED
        BY <3>1, <4>1 DEF expr, tree
    <3>7. CASE tree[n] # expr[n]
      <4>1. changed = {n}
        BY <3>4, <3>7
      <4> QED
        BY <3>1, <3>2, <3>5, <4>1 DEF expr, tree
    <3> QED
      BY <3>6, <3>7
  <2> QED
    BY <2>1, <2>2, <2>3
<1> QED
  BY <1>1, GeneratorInvariance, PTL

(* No rule is tested twice with the same change.                           *)
THEOREM ChangesAreDistinct ==
  Spec => []NoChangeTwice
<1>1. GenInv => NoChangeTwice
  <2> SUFFICES ASSUME GenInv, NEW x \in DOMAIN mutations, NEW y \in DOMAIN mutations, x # y,
                      NEW m, m = mutations[x], NEW n, n = mutations[y],
                      Rendered(m) = Rendered(n)
               PROVE  Rendered(m) = Original(m.rule)
    BY DEF NoChangeTwice
  <2>1. /\ OfRule(m) /\ (ExprMutant(m) \/ DelayMutant(m))
        /\ OfRule(n) /\ (ExprMutant(n) \/ DelayMutant(n))
    BY DEF GenInv, MutantsSound
  <2>2. Key(m) # Key(n)
    BY DEF GenInv, KeysSeen
  <2>3. m.rule = n.rule /\ m.group = n.group /\ m.name = n.name
    BY <2>1 DEF Rendered, OfRule
  <2>4. CASE ExprMutant(m) /\ ExprMutant(n)
    <3>1. m.expression = n.expression
      BY <2>4, ExprRendered
    <3> QED
      BY <2>2, <2>3, <2>4, <3>1 DEF Key, ExprMutant
  <2>5. CASE DelayMutant(m) /\ DelayMutant(n)
    <3>1. m.replacement = n.replacement
      BY <2>5, DelayRendered
    <3>2. m.for = n.for /\ m.removeFor = n.removeFor /\ m.expression = n.expression
      BY <2>5, <3>1 DEF DelayMutant
    <3> QED
      BY <2>2, <2>3, <3>2 DEF Key
  <2>6. CASE ExprMutant(m) /\ DelayMutant(n)
    BY <2>3, <2>6, ExprRendered, DelayRendered DEF Original
  <2>7. CASE DelayMutant(m) /\ ExprMutant(n)
    BY <2>3, <2>7, ExprRendered, DelayRendered DEF Original
  <2> QED
    BY <2>1, <2>4, <2>5, <2>6, <2>7
<1> QED
  BY <1>1, GeneratorInvariance, PTL

(* Every change of the reference is generated, and no other change is.     *)
THEOREM EveryChangeIsGenerated ==
  Spec => []GeneratesEveryChange
<1>1. GenInv => GeneratesEveryChange
  <2> SUFFICES ASSUME GenInv, phase = "done", NEW i \in DOMAIN file
               PROVE  /\ Generated(i) \ {Original(i)} \subseteq Changes(i)
                      /\ ~Namesake(i) => Changes(i) \subseteq Generated(i)
    BY DEF GeneratesEveryChange
  <2>1. ASSUME NEW t
        PROVE  t \in ExprChanges(i) <=> \E n, k : /\ Site(i, n, k) /\ t = Changed(i, n, k)
                                                  /\ Parses(t)
    <3>1. ExprChanges(i) = {u \in UNION {{Changed(i, n, k) : k \in DOMAIN Options(i, n)} :
                                          n \in DOMAIN Expr(i)} : Parses(u)}
      BY DEF ExprChanges, Changed, Options, Expr
    <3> QED
      BY <3>1 DEF Site
  <2>2. \A c : c \in Changes(i) <=>
          /\ c # Original(i)
          /\ \/ \E t \in ExprChanges(i) : c = [rule |-> i, expr |-> t, for |-> file[i].for]
             \/ \E d \in ForChanges(i) : c = [rule |-> i, expr |-> file[i].expr, for |-> d]
    BY DEF Changes, Original
  <2>3. ASSUME NEW n \in DOMAIN mutations, mutations[n].rule = i,
               Rendered(mutations[n]) # Original(i)
        PROVE  Rendered(mutations[n]) \in Changes(i)
    <3> DEFINE m == mutations[n]
    <3>1. ExprMutant(m) \/ DelayMutant(m)
      BY DEF GenInv, MutantsSound
    <3> HIDE DEF m
    <3>2. CASE ExprMutant(m)
      <4>1. m.expression \in ExprChanges(i)
        BY <2>1, <2>3, <3>2 DEF ExprMutant, m
      <4> QED
        BY <2>2, <2>3, <3>2, <4>1, ExprRendered DEF m
    <3>3. CASE DelayMutant(m)
      <4>1. m.replacement \in ForChanges(i)
        BY <2>3, <3>3 DEF DelayMutant, m
      <4> QED
        BY <2>2, <2>3, <3>3, <4>1, DelayRendered DEF m
    <3> QED
      BY <3>1, <3>2, <3>3 DEF m
  <2>4. ASSUME ~Namesake(i), NEW c \in Changes(i)
        PROVE  c \in Generated(i)
    <3>1. ExprDone(i) /\ DelayDone(i)
      BY <2>4, FileShape DEF GenInv, PhaseInv, Progress
    <3>2. ASSUME NEW t \in ExprChanges(i), c = [rule |-> i, expr |-> t, for |-> file[i].for]
          PROVE  c \in Generated(i)
      <4>1. PICK n, k : Site(i, n, k) /\ t = Changed(i, n, k) /\ Parses(t)
        BY <2>1
      <4>2. t # Expr(i)
        BY <2>2, <2>4, <3>2 DEF Original, Expr
      <4>3. PICK a \in DOMAIN mutations : mutations[a].rule = i /\ mutations[a].expression = t
        BY <3>1, <4>1, <4>2 DEF ExprDone, IsChange, HasExpr
      <4>4. ExprMutant(mutations[a])
        BY <4>1, <4>3, ChangedIsNotEmpty DEF GenInv, MutantsSound, DelayMutant
      <4>5. c = Rendered(mutations[a])
        BY <3>2, <4>3, <4>4, ExprRendered
      <4> QED
        BY <4>3, <4>5 DEF Generated
    <3>3. ASSUME NEW d \in ForChanges(i), c = [rule |-> i, expr |-> file[i].expr, for |-> d]
          PROVE  c \in Generated(i)
      <4>1. PICK a \in DOMAIN mutations : /\ mutations[a].rule = i
                                          /\ mutations[a].expression = <<>>
                                          /\ mutations[a].replacement = d
        BY <3>1 DEF DelayDone, HasDelay
      <4>2. DelayMutant(mutations[a])
        BY <4>1, ExprIsNotDelay DEF GenInv, MutantsSound
      <4>3. c = Rendered(mutations[a])
        BY <3>3, <4>1, <4>2, DelayRendered
      <4> QED
        BY <4>1, <4>3 DEF Generated
    <3> QED
      BY <2>2, <2>4, <3>2, <3>3
  <2> QED
    BY <2>3, <2>4 DEF Generated
<1> QED
  BY <1>1, GeneratorInvariance, PTL
=============================================================================
