----------------------------- MODULE ListProofs -----------------------------
(***************************************************************************)
(* What the loops over lists compute, for lists of any length: sorting     *)
(* gives a permutation in the order of the keys, and putting lists one     *)
(* after the other has each of them, whole, in the result.  Induction over *)
(* the length is by the least number for which something does not hold.    *)
(***************************************************************************)
EXTENDS Lists, FiniteSetTheorems, TLAPS

\* The smaller-than relation on the natural numbers is well founded.
LEMMA NatWellFounded == IsWellFoundedOn({ss \in Nat \X Nat : ss[1] < ss[2]}, Nat)
BY NatLessThanWellFounded, Zenon DEF OpToRel

\* Every non-empty set of natural numbers has a least element.
LEMMA LeastNumber ==
  ASSUME NEW T \in SUBSET Nat, T # {}
  PROVE  \E m \in T : \A k \in T : m <= k
<1> DEFINE R == {ss \in Nat \X Nat : ss[1] < ss[2]}
<1>1. IsWellFoundedOn(R, Nat)
  BY NatWellFounded
<1>2. \A x, y \in Nat : <<y, x>> \in R <=> y < x
  OBVIOUS
<1> HIDE DEF R
<1>3. PICK m \in T : \A k \in T : ~(<<k, m>> \in R)
  BY <1>1, WFMin
<1>4. ASSUME NEW k \in T PROVE m <= k
  <2>1. k \in Nat /\ m \in Nat /\ ~(k < m)
    BY <1>2, <1>3
  <2> QED BY <2>1
<1> QED BY <1>4

\* A set of natural numbers that has 0 and with every number the next one up to n has
\* all numbers up to n.
LEMMA UpTo ==
  ASSUME NEW n \in Nat, NEW S, 0 \in S, \A m \in 1 .. n : m - 1 \in S => m \in S
  PROVE  0 .. n \subseteq S
<1> SUFFICES ASSUME (0 .. n) \ S # {} PROVE FALSE
  OBVIOUS
<1>1. PICK m \in (0 .. n) \ S : \A k \in (0 .. n) \ S : m <= k
  <2>1. (0 .. n) \ S \in SUBSET Nat
    OBVIOUS
  <2> QED BY <2>1, LeastNumber
<1>2. m \in 1 .. n
  BY <1>1
<1>3. m - 1 \in 0 .. n /\ ~(m <= m - 1)
  BY <1>2
<1> QED BY <1>1, <1>2, <1>3

-----------------------------------------------------------------------------
\* Sorting

\* The places of the elements that go before the i-th.
Before(keys, i) == {j \in DOMAIN keys : Precedes(keys, j, i)}

\* Going before is a total order of the places.
LEMMA PrecedesOrders ==
  ASSUME NEW keys \in Seq(Int)
  PROVE  /\ \A i \in DOMAIN keys : ~Precedes(keys, i, i)
         /\ \A i, j \in DOMAIN keys : i # j => Precedes(keys, i, j) \/ Precedes(keys, j, i)
         /\ \A i, j, k \in DOMAIN keys :
              Precedes(keys, i, j) /\ Precedes(keys, j, k) => Precedes(keys, i, k)
<1>1. \A i \in DOMAIN keys : keys[i] \in Int /\ i \in Nat
  OBVIOUS
<1> QED BY <1>1 DEF Precedes

\* Fewer elements go before one that goes before another.
LEMMA FewerBefore ==
  ASSUME NEW keys \in Seq(Int), NEW i \in DOMAIN keys
  PROVE  /\ Cardinality(Before(keys, i)) \in 0 .. Len(keys) - 1
         /\ \A j \in DOMAIN keys :
              Precedes(keys, i, j) => Cardinality(Before(keys, i)) < Cardinality(Before(keys, j))
<1> DEFINE n == Len(keys)
<1>1. DOMAIN keys = 1 .. n /\ n \in Nat
  OBVIOUS
<1>2. IsFiniteSet(1 .. n) /\ Cardinality(1 .. n) = n
  <2> HIDE DEF n
  <2>1. n \in Int /\ (IF 1 > n THEN 0 ELSE n - 1 + 1) = n
    BY <1>1
  <2> QED BY <2>1, FS_Interval
<1>3. ASSUME NEW S \in SUBSET (1 .. n), NEW T \in SUBSET S, NEW x \in S, x \notin T
      PROVE  Cardinality(T) \in Nat /\ Cardinality(S) \in Nat /\ Cardinality(T) < Cardinality(S)
  <2>1. IsFiniteSet(S)
    BY <1>2, FS_Subset
  <2>2. IsFiniteSet(T) /\ Cardinality(T) <= Cardinality(S) /\ Cardinality(S) # Cardinality(T)
    BY <2>1, <1>3, FS_Subset
  <2>3. Cardinality(S) \in Nat /\ Cardinality(T) \in Nat
    BY <2>1, <2>2, FS_CardinalityType
  <2> QED BY <2>2, <2>3
<1>4. Before(keys, i) \in SUBSET (1 .. n) /\ i \notin Before(keys, i)
  BY <1>1, PrecedesOrders DEF Before
<1>5. Cardinality(Before(keys, i)) \in 0 .. n - 1
  <2>1. Cardinality(Before(keys, i)) \in Nat /\ Cardinality(Before(keys, i)) < Cardinality(1 .. n)
    BY <1>1, <1>3, <1>4
  <2> QED BY <1>1, <1>2, <2>1
<1>6. ASSUME NEW j \in DOMAIN keys, Precedes(keys, i, j)
      PROVE  Cardinality(Before(keys, i)) < Cardinality(Before(keys, j))
  <2>1. Before(keys, j) \in SUBSET (1 .. n) /\ i \in Before(keys, j)
    BY <1>1, <1>6 DEF Before
  <2>2. Before(keys, i) \in SUBSET Before(keys, j)
    BY <1>6, PrecedesOrders DEF Before
  <2> QED BY <1>3, <1>4, <2>1, <2>2
<1> QED BY <1>5, <1>6

\* The order is a permutation of the places, in which of two places the one that goes
\* before the other comes first.
LEMMA StableOrderSorts ==
  ASSUME NEW keys \in Seq(Int)
  PROVE  /\ StableOrder(keys) \in [DOMAIN keys -> DOMAIN keys]
         /\ \A i \in DOMAIN keys : \E k \in DOMAIN keys : StableOrder(keys)[k] = i
         /\ \A k, l \in DOMAIN keys :
              k < l => Precedes(keys, StableOrder(keys)[k], StableOrder(keys)[l])
<1> DEFINE n == Len(keys)
           order == StableOrder(keys)
           pos == [i \in 1 .. n |-> Cardinality(Before(keys, i)) + 1]
<1>1. DOMAIN keys = 1 .. n /\ n \in Nat
  OBVIOUS
<1>2. pos \in [1 .. n -> 1 .. n]
  BY <1>1, FewerBefore
<1>3. \A i, j \in 1 .. n : Precedes(keys, i, j) => pos[i] < pos[j]
  <2> SUFFICES ASSUME NEW i \in 1 .. n, NEW j \in 1 .. n, Precedes(keys, i, j)
               PROVE  pos[i] < pos[j]
    OBVIOUS
  <2>1. /\ Cardinality(Before(keys, i)) < Cardinality(Before(keys, j))
        /\ Cardinality(Before(keys, i)) \in Int /\ Cardinality(Before(keys, j)) \in Int
    BY <1>1, FewerBefore
  <2> QED BY <2>1
<1>4. \A i \in 1 .. n, k \in 1 .. n : pos[i] = k <=> Cardinality(Before(keys, i)) = k - 1
  <2>1. \A i \in 1 .. n : Cardinality(Before(keys, i)) \in Int
    BY <1>1, FewerBefore
  <2> QED BY <2>1
<1> HIDE DEF pos, n, order
<1>5. \A i, j \in 1 .. n : pos[i] = pos[j] => i = j
  <2>1. \A i \in 1 .. n : pos[i] \in Int
    BY <1>2
  <2>2. \A i, j \in 1 .. n : i # j => pos[i] < pos[j] \/ pos[j] < pos[i]
    BY <1>1, <1>3, PrecedesOrders
  <2> QED BY <2>1, <2>2
<1>6. \A k \in 1 .. n : \E i \in 1 .. n : pos[i] = k
  <2>1. pos \in Injection(1 .. n, 1 .. n)
    BY <1>2, <1>5 DEF Injection, IsInjective
  <2>2. IsFiniteSet(1 .. n)
    BY <1>1, FS_Interval
  <2>3. pos \in Surjection(1 .. n, 1 .. n)
    BY <2>1, <2>2, FS_Injection
  <2> QED BY <2>3 DEF Surjection
<1>7. ASSUME NEW k \in 1 .. n
      PROVE  order[k] \in 1 .. n /\ pos[order[k]] = k
  <2> DEFINE Is(i) == Cardinality(Before(keys, i)) = k - 1
  <2>1. order[k] = CHOOSE i \in DOMAIN keys : Is(i)
    BY <1>1 DEF order, StableOrder, Before
  <2>2. \E i \in DOMAIN keys : Is(i)
    BY <1>1, <1>4, <1>6
  <2> HIDE DEF Is
  <2>3. order[k] \in DOMAIN keys /\ Is(order[k])
    BY <2>1, <2>2
  <2> QED BY <1>1, <1>4, <2>3 DEF Is
<1>8. order \in [1 .. n -> 1 .. n]
  <2>1. order \in [DOMAIN keys -> DOMAIN keys]
    BY <1>1, <1>7 DEF order, StableOrder
  <2> QED BY <1>1, <2>1
<1>9. ASSUME NEW i \in 1 .. n
      PROVE  order[pos[i]] = i
  BY <1>2, <1>5, <1>7
<1>10. ASSUME NEW k \in 1 .. n, NEW l \in 1 .. n, k < l
       PROVE  Precedes(keys, order[k], order[l])
  <2>1. order[k] # order[l]
    BY <1>7, <1>10
  <2>2. ~Precedes(keys, order[l], order[k])
    BY <1>3, <1>7, <1>10
  <2> QED BY <1>1, <1>7, <2>1, <2>2, PrecedesOrders
<1> QED BY <1>1, <1>2, <1>8, <1>9, <1>10 DEF order

-----------------------------------------------------------------------------
\* Putting lists one after the other

\* The recursive function of Concat exists: one that goes up to the list before can be
\* extended by another value.
LEMMA ConcatUnfolds ==
  ASSUME NEW T, NEW ss \in Seq(Seq(T))
  PROVE  \E f : /\ Concat(ss) = f[Len(ss)]
                /\ f = [n \in 0 .. Len(ss) |-> IF n = 0 THEN <<>> ELSE f[n - 1] \o ss[n]]
<1> DEFINE Is(f, k) == f = [n \in 0 .. k |-> IF n = 0 THEN <<>> ELSE f[n - 1] \o ss[n]]
           S == {k \in Nat : \E f : Is(f, k)}
           upTo == CHOOSE f : Is(f, Len(ss))
<1>1. 0 \in S
  <2>1. Is([n \in 0 .. 0 |-> <<>>], 0)
    OBVIOUS
  <2> HIDE DEF Is
  <2> QED BY <2>1
<1>2. ASSUME NEW m \in 1 .. Len(ss), m - 1 \in S
      PROVE  m \in S
  <2>1. PICK f : Is(f, m - 1)
    BY <1>2
  <2> DEFINE g == [n \in 0 .. m |-> IF n = m THEN f[n - 1] \o ss[n] ELSE f[n]]
  <2>2. ASSUME NEW n \in 0 .. m
        PROVE  g[n] = IF n = 0 THEN <<>> ELSE g[n - 1] \o ss[n]
    <3>1. CASE n = m
      <4>1. n # 0 /\ n - 1 \in 0 .. m /\ n - 1 # m
        BY <3>1
      <4> QED BY <3>1, <4>1
    <3>2. CASE n # m
      <4>1. n \in 0 .. (m - 1) /\ g[n] = f[n]
        BY <3>2
      <4>2. f[n] = IF n = 0 THEN <<>> ELSE f[n - 1] \o ss[n]
        BY <2>1, <4>1
      <4>3. n # 0 => g[n - 1] = f[n - 1]
        BY <4>1
      <4> QED BY <4>1, <4>2, <4>3
    <3> QED BY <3>1, <3>2
  <2>3. g = [n \in 0 .. m |-> g[n]]
    OBVIOUS
  <2> HIDE DEF g
  <2>4. Is(g, m)
    BY <2>2, <2>3
  <2> HIDE DEF Is
  <2> QED BY <2>4
<1>3. Len(ss) \in S
  <2> HIDE DEF S
  <2>1. Len(ss) \in Nat
    OBVIOUS
  <2>2. 0 .. Len(ss) \subseteq S
    BY <1>1, <1>2, <2>1, UpTo
  <2> QED BY <2>1, <2>2
<1>4. Concat(ss) = upTo[Len(ss)]
  BY DEF Concat
<1> HIDE DEF Is
<1>5. Is(upTo, Len(ss))
  BY <1>3
<1> QED BY <1>4, <1>5 DEF Is

\* The list b is part of the list whole, from the place after o on.
Placed(whole, b, o) ==
  o \in Nat /\ o + Len(b) <= Len(whole) /\ \A m \in 1 .. Len(b) : whole[o + m] = b[m]

\* A list stays where it is when another is appended, and the other comes after it.
LEMMA PlacedWhenAppended ==
  ASSUME NEW T, NEW a \in Seq(T), NEW b \in Seq(T)
  PROVE  /\ a \o b \in Seq(T)
         /\ \A c \in Seq(T) : \A o : Placed(a, c, o) => Placed(a \o b, c, o)
         /\ Placed(a \o b, b, Len(a))
<1>1. /\ a \o b \in Seq(T) /\ Len(a \o b) = Len(a) + Len(b)
      /\ Len(a) \in Nat /\ Len(b) \in Nat
      /\ \A i \in 1 .. Len(a) : (a \o b)[i] = a[i]
      /\ \A i \in 1 .. Len(b) : (a \o b)[Len(a) + i] = b[i]
  OBVIOUS
<1>2. ASSUME NEW c \in Seq(T), NEW o, Placed(a, c, o)
      PROVE  Placed(a \o b, c, o)
  <2>1. o \in Nat /\ Len(c) \in Nat /\ o + Len(c) <= Len(a) /\ \A m \in 1 .. Len(c) : a[o + m] = c[m]
    BY <1>2 DEF Placed
  <2>2. \A m \in 1 .. Len(c) : o + m \in 1 .. Len(a)
    BY <1>1, <2>1
  <2>3. o + Len(c) <= Len(a \o b)
    BY <1>1, <2>1
  <2> QED BY <1>1, <2>1, <2>2, <2>3 DEF Placed
<1>3. Placed(a \o b, b, Len(a))
  BY <1>1 DEF Placed
<1> QED BY <1>1, <1>2, <1>3

\* The list whole consists of the first n lists of ss: each is part of it, and every
\* element of it is in one of them.
Made(whole, ss, n) ==
  /\ \A i \in 1 .. n : \E o : Placed(whole, ss[i], o)
  /\ \A k \in 1 .. Len(whole) :
       \E i \in 1 .. n : \E o : Placed(whole, ss[i], o) /\ k - o \in 1 .. Len(ss[i])

\* Appending the next list keeps it so.
LEMMA MadeWhenAppended ==
  ASSUME NEW T, NEW ss \in Seq(Seq(T)), NEW n \in 1 .. Len(ss), NEW whole \in Seq(T),
         Made(whole, ss, n - 1)
  PROVE  whole \o ss[n] \in Seq(T) /\ Made(whole \o ss[n], ss, n)
<1> DEFINE new == whole \o ss[n]
<1>1. \A i \in 1 .. n : ss[i] \in Seq(T)
  OBVIOUS
<1>2. /\ new \in Seq(T) /\ Placed(new, ss[n], Len(whole))
      /\ \A i \in 1 .. n : \A o : Placed(whole, ss[i], o) => Placed(new, ss[i], o)
  BY <1>1, PlacedWhenAppended
<1>3. \A i \in 1 .. n : i = n \/ i \in 1 .. (n - 1)
  OBVIOUS
<1>4. Len(new) = Len(whole) + Len(ss[n]) /\ Len(whole) \in Nat /\ Len(ss[n]) \in Nat
  BY <1>1
<1> HIDE DEF new
<1>5. ASSUME NEW i \in 1 .. n
      PROVE  \E o : Placed(new, ss[i], o)
  BY <1>2, <1>3 DEF Made
<1>6. ASSUME NEW k \in 1 .. Len(new)
      PROVE  \E i \in 1 .. n : \E o : Placed(new, ss[i], o) /\ k - o \in 1 .. Len(ss[i])
  <2>1. CASE k \in 1 .. Len(whole)
    <3>1. PICK i \in 1 .. (n - 1) : \E o : Placed(whole, ss[i], o) /\ k - o \in 1 .. Len(ss[i])
      BY <2>1 DEF Made
    <3>2. i \in 1 .. n
      BY <3>1
    <3> QED BY <1>2, <3>1, <3>2
  <2>2. CASE k \notin 1 .. Len(whole)
    <3>1. k - Len(whole) \in 1 .. Len(ss[n]) /\ n \in 1 .. n
      BY <1>4, <2>2
    <3> QED BY <1>2, <3>1
  <2> QED BY <2>1, <2>2
<1>7. Made(new, ss, n)
  BY <1>5, <1>6 DEF Made
<1> QED BY <1>2, <1>7 DEF new

\* The lists one after the other have each of them as a part, and nothing else.
LEMMA ConcatMade ==
  ASSUME NEW T, NEW ss \in Seq(Seq(T))
  PROVE  Concat(ss) \in Seq(T) /\ Made(Concat(ss), ss, Len(ss))
<1>1. PICK f : /\ Concat(ss) = f[Len(ss)]
               /\ f = [n \in 0 .. Len(ss) |-> IF n = 0 THEN <<>> ELSE f[n - 1] \o ss[n]]
  BY ConcatUnfolds
<1> DEFINE S == {n \in Nat : f[n] \in Seq(T) /\ Made(f[n], ss, n)}
<1>2. 0 \in S
  <2>1. f[0] = <<>>
    BY <1>1
  <2>2. <<>> \in Seq(T) /\ Made(<<>>, ss, 0)
    BY DEF Made
  <2> QED BY <2>1, <2>2
<1>3. ASSUME NEW n \in 1 .. Len(ss), n - 1 \in S
      PROVE  n \in S
  <2>1. f[n] = f[n - 1] \o ss[n]
    <3>1. n \in 0 .. Len(ss) /\ n # 0
      OBVIOUS
    <3> QED BY <1>1, <3>1
  <2>2. f[n - 1] \in Seq(T) /\ Made(f[n - 1], ss, n - 1)
    BY <1>3
  <2>3. f[n] \in Seq(T) /\ Made(f[n], ss, n)
    BY <2>1, <2>2, MadeWhenAppended
  <2> QED BY <2>3
<1>4. Len(ss) \in S
  <2>1. Len(ss) \in Nat
    OBVIOUS
  <2> HIDE DEF S
  <2>2. 0 .. Len(ss) \subseteq S
    BY <1>2, <1>3, <2>1, UpTo
  <2> QED BY <2>1, <2>2
<1> QED BY <1>1, <1>4

\* Their elements are those of the lists.
LEMMA ConcatElements ==
  ASSUME NEW T, NEW ss \in Seq(Seq(T))
  PROVE  Range(Concat(ss)) = UNION {Range(ss[i]) : i \in DOMAIN ss}
<1> DEFINE whole == Concat(ss)
<1>1. /\ whole \in Seq(T) /\ Made(whole, ss, Len(ss))
      /\ DOMAIN ss = 1 .. Len(ss) /\ \A i \in DOMAIN ss : DOMAIN ss[i] = 1 .. Len(ss[i]) /\ Len(ss[i]) \in Nat
  BY ConcatMade
<1> HIDE DEF whole
<1>2. DOMAIN whole = 1 .. Len(whole) /\ Len(whole) \in Nat
  BY <1>1
<1>3. ASSUME NEW k \in DOMAIN whole
      PROVE  \E i \in DOMAIN ss : whole[k] \in Range(ss[i])
  <2>1. PICK i \in DOMAIN ss : \E o : Placed(whole, ss[i], o) /\ k - o \in 1 .. Len(ss[i])
    BY <1>1, <1>2 DEF Made
  <2>2. PICK o : Placed(whole, ss[i], o) /\ k - o \in 1 .. Len(ss[i])
    BY <2>1
  <2>3. whole[o + (k - o)] = ss[i][k - o] /\ o + (k - o) = k
    BY <1>2, <2>2 DEF Placed
  <2> QED BY <1>1, <2>2, <2>3 DEF Range
<1>4. ASSUME NEW i \in DOMAIN ss, NEW m \in DOMAIN ss[i]
      PROVE  ss[i][m] \in Range(whole)
  <2>1. PICK o : Placed(whole, ss[i], o)
    BY <1>1 DEF Made
  <2>2. m \in 1 .. Len(ss[i]) /\ Len(ss[i]) \in Nat
    BY <1>1
  <2>3. whole[o + m] = ss[i][m] /\ o + m \in 1 .. Len(whole)
    BY <1>2, <2>1, <2>2 DEF Placed
  <2> QED BY <1>2, <2>3 DEF Range
<1> QED BY <1>3, <1>4 DEF whole, Range

\* A function of the places of a list is a list, with the same places.
LEMMA MappedList ==
  ASSUME NEW e, IsList(e), NEW new, new = [k \in DOMAIN e |-> new[k]]
  PROVE  IsList(new)
<1>1. DOMAIN e = 1 .. Len(e) /\ Len(e) \in Nat
  BY DEF IsList
<1>2. new \in [1 .. Len(e) -> Range(new)]
  BY <1>1 DEF Range
<1> QED BY <1>1, <1>2 DEF IsList

\* A list of elements of a set is a list.
LEMMA ListOfOwn ==
  ASSUME NEW T, NEW e \in Seq(T)
  PROVE  IsList(e)
<1>1. DOMAIN e = 1 .. Len(e) /\ Len(e) \in Nat /\ e = [k \in DOMAIN e |-> e[k]]
  OBVIOUS
<1>2. e \in [1 .. Len(e) -> Range(e)]
  BY <1>1 DEF Range
<1> QED BY <1>1, <1>2 DEF IsList

\* Two lists one after the other are a list of the elements of both.
LEMMA AppendedList ==
  ASSUME NEW a, IsList(a), NEW b, IsList(b)
  PROVE  IsList(a \o b) /\ Range(a \o b) = Range(a) \cup Range(b)
<1> DEFINE T == Range(a) \cup Range(b)
<1>1. a \in Seq(T) /\ b \in Seq(T)
  <2>1. /\ DOMAIN a = 1 .. Len(a) /\ Len(a) \in Nat /\ a \in [1 .. Len(a) -> T]
        /\ DOMAIN b = 1 .. Len(b) /\ Len(b) \in Nat /\ b \in [1 .. Len(b) -> T]
    BY DEF IsList
  <2> HIDE DEF T
  <2> QED BY <2>1
<1> HIDE DEF T
<1>2. a \o b \in Seq(T)
  BY <1>1
<1>3. /\ Len(a) \in Nat /\ Len(b) \in Nat
      /\ DOMAIN a = 1 .. Len(a) /\ DOMAIN b = 1 .. Len(b) /\ DOMAIN (a \o b) = 1 .. Len(a) + Len(b)
      /\ \A i \in 1 .. Len(a) : (a \o b)[i] = a[i]
      /\ \A i \in 1 .. Len(b) : (a \o b)[Len(a) + i] = b[i]
  BY <1>1
<1>4. ASSUME NEW i \in DOMAIN (a \o b)
      PROVE  (a \o b)[i] \in Range(a) \cup Range(b)
  <2>1. CASE i \in 1 .. Len(a)
    BY <1>3, <2>1 DEF Range
  <2>2. CASE i - Len(a) \in 1 .. Len(b)
    <3>1. (a \o b)[i] = b[i - Len(a)]
      BY <1>3, <2>2
    <3> QED BY <1>3, <2>2, <3>1 DEF Range
  <2> QED BY <1>3, <2>1, <2>2
<1>5. Range(a) \subseteq Range(a \o b)
  BY <1>3 DEF Range
<1>6. ASSUME NEW i \in 1 .. Len(b) PROVE b[i] \in Range(a \o b)
  <2>1. Len(a) + i \in DOMAIN (a \o b) /\ (a \o b)[Len(a) + i] = b[i]
    BY <1>3
  <2> QED BY <2>1 DEF Range
<1>7. Range(a \o b) = Range(a) \cup Range(b)
  BY <1>3, <1>4, <1>5, <1>6 DEF Range
<1> QED BY <1>2, <1>7, ListOfOwn

\* Lists one after the other are a list of their elements, with each of them in it as a
\* block.
LEMMA ConcatList ==
  ASSUME NEW ss, IsList(ss), \A i \in DOMAIN ss : IsList(ss[i])
  PROVE  /\ IsList(Concat(ss))
         /\ Range(Concat(ss)) = UNION {Range(ss[i]) : i \in DOMAIN ss}
         /\ Made(Concat(ss), ss, Len(ss))
<1> DEFINE T == UNION {Range(ss[i]) : i \in DOMAIN ss}
<1>1. DOMAIN ss = 1 .. Len(ss) /\ Len(ss) \in Nat /\ ss = [i \in DOMAIN ss |-> ss[i]]
  BY DEF IsList
<1>2. ASSUME NEW i \in DOMAIN ss PROVE ss[i] \in Seq(T)
  <2>1. ss[i] \in Seq(Range(ss[i])) /\ Range(ss[i]) \subseteq T
    BY DEF IsList
  <2> HIDE DEF T
  <2>2. DOMAIN ss[i] = 1 .. Len(ss[i]) /\ Len(ss[i]) \in Nat /\ ss[i] \in [1 .. Len(ss[i]) -> T]
    BY <2>1
  <2> QED BY <2>2
<1>3. ss \in Seq(Seq(T))
  <2>1. ss \in [1 .. Len(ss) -> Seq(T)]
    BY <1>1, <1>2
  <2> HIDE DEF T
  <2> QED BY <1>1, <2>1
<1> QED BY <1>3, ConcatMade, ConcatElements, ListOfOwn

\* The list of nothing and the lists of one element.
LEMMA ShortLists ==
  /\ IsList(<<>>) /\ Range(<<>>) = {} /\ DOMAIN <<>> = {}
  /\ \A x : IsList(<<x>>) /\ Range(<<x>>) = {x}
<1>1. Range(<<>>) = {} /\ DOMAIN <<>> = {} /\ \A x : Range(<<x>>) = {x}
  BY DEF Range
<1>2. <<>> \in Seq({}) /\ \A x : <<x>> \in Seq({x})
  OBVIOUS
<1> QED BY <1>1, <1>2 DEF IsList

\* A loop that appends at most one element at a time gives those elements.
LEMMA SelectedList ==
  ASSUME NEW ss, IsList(ss), \A i \in DOMAIN ss : ss[i] = <<>> \/ \E x : ss[i] = <<x>>
  PROVE  IsList(Concat(ss)) /\ \A x : x \in Range(Concat(ss)) <=> \E i \in DOMAIN ss : ss[i] = <<x>>
<1>1. \A i \in DOMAIN ss : IsList(ss[i]) /\ \A x : x \in Range(ss[i]) <=> ss[i] = <<x>>
  <2> SUFFICES ASSUME NEW i \in DOMAIN ss
               PROVE  IsList(ss[i]) /\ \A x : x \in Range(ss[i]) <=> ss[i] = <<x>>
    OBVIOUS
  <2>1. CASE ss[i] = <<>>
    BY <2>1, ShortLists
  <2>2. CASE \E x : ss[i] = <<x>>
    <3>1. PICK x : ss[i] = <<x>>
      BY <2>2
    <3>2. \A y : <<x>> = <<y>> <=> x = y
      OBVIOUS
    <3> QED BY <3>1, <3>2, ShortLists
  <2> QED BY <2>1, <2>2
<1>2. IsList(Concat(ss)) /\ Range(Concat(ss)) = UNION {Range(ss[i]) : i \in DOMAIN ss}
  BY <1>1, ConcatList
<1> QED BY <1>1, <1>2

\* The places of a list are 1 to its length.
LEMMA ListPlaces ==
  ASSUME NEW e, IsList(e)
  PROVE  DOMAIN e = 1 .. Len(e) /\ Len(e) \in Nat /\ \A i \in DOMAIN e : i \in Nat /\ i >= 1
<1>1. DOMAIN e = 1 .. Len(e) /\ Len(e) \in Nat
  BY DEF IsList
<1> QED BY <1>1
=============================================================================
