---------------------------- MODULE SessionProofs ----------------------------
(***************************************************************************)
(* What a session's client sees and hears of its stream: the memory map,   *)
(* the newest frame and its JPEGs, for every camera, view and name of a    *)
(* map, and the sound, for every prebuffer and number of frames.           *)
(***************************************************************************)
EXTENDS Viewer, AudioRenderer, SequenceTheorems, FiniteSetTheorems, TLAPS

(***************************************************************************)
(* Sequences without repetitions: an element that is put into one or taken *)
(* out of it leaves the order of the others as it was.                     *)
(***************************************************************************)
Has(g, x) == \E i \in 1..Len(g) : g[i] = x
Before(g, x, y) == \E i, j \in 1..Len(g) : i < j /\ g[i] = x /\ g[j] = y
Chain(g) == g \in Seq(Element) /\ \A i, j \in 1..Len(g) : g[i] = g[j] => i = j

LEMMA ChainIsInjective == ASSUME NEW g, Chain(g) PROVE IsInjective(g)
BY DEF Chain, IsInjective

LEMMA PlaceIs ==
  ASSUME NEW g, Chain(g), NEW i \in 1..Len(g) PROVE Place(g, g[i]) = i
<1> DEFINE I == {j \in 1..Len(g) : g[j] = g[i]}
<1>1. I = {i}
  BY DEF Chain
<1>2. Len(g) \in Nat
  BY DEF Chain
<1>3. Min({i}) = i
  BY <1>2 DEF Min
<1>4. Place(g, g[i]) = IF I # {} THEN Min(I) ELSE 0
  BY DEF Place, SelectInSeq
<1> QED
  BY <1>1, <1>3, <1>4

\* An element that is somewhere has its place, and of two the one that is read first the lesser.
LEMMA PlacesInOrder ==
  ASSUME NEW g, Chain(g), NEW x, NEW y, Before(g, x, y) PROVE Place(g, x) < Place(g, y)
<1>1. PICK i \in 1..Len(g), j \in 1..Len(g) : i < j /\ g[i] = x /\ g[j] = y
  BY DEF Before
<1>2. Place(g, x) = i /\ Place(g, y) = j
  BY <1>1, PlaceIs
<1> QED
  BY <1>1, <1>2

LEMMA BeforeIsTransitive ==
  ASSUME NEW g, Chain(g), NEW x, NEW y, NEW z, Before(g, x, y), Before(g, y, z) PROVE Before(g, x, z)
<1>1. PICK i \in 1..Len(g), j \in 1..Len(g) : i < j /\ g[i] = x /\ g[j] = y
  BY DEF Before
<1>2. PICK k \in 1..Len(g), l \in 1..Len(g) : k < l /\ g[k] = y /\ g[l] = z
  BY DEF Before
<1>3. j = k /\ Len(g) \in Nat
  BY <1>1, <1>2 DEF Chain
<1>4. i < l
  BY <1>1, <1>2, <1>3
<1> QED
  BY <1>1, <1>2, <1>4 DEF Before

LEMMA PartIs ==
  ASSUME NEW g \in Seq(Element), NEW m \in 1..(Len(g) + 1), NEW n \in 0..Len(g), m <= n + 1
  PROVE  /\ SubSeq(g, m, n) \in Seq(Element) /\ Len(SubSeq(g, m, n)) = n - m + 1
         /\ \A i \in 1..(n - m + 1) : SubSeq(g, m, n)[i] = g[m + i - 1]
<1>1. Len(g) \in Nat /\ m \in Int /\ n \in Int
  OBVIOUS
<1>2. \A i \in m..n : g[i] \in Element
  BY <1>1
<1>3. /\ SubSeq(g, m, n) \in Seq(Element)
      /\ Len(SubSeq(g, m, n)) = IF m <= n THEN n - m + 1 ELSE 0
      /\ \A i \in 1..(n - m + 1) : SubSeq(g, m, n)[i] = g[m + i - 1]
  BY <1>1, <1>2, SubSeqProperties
<1>4. ~(m <= n) => n - m + 1 = 0
  BY <1>1
<1> QED
  BY <1>3, <1>4

LEMMA JoinIs ==
  ASSUME NEW a \in Seq(Element), NEW b \in Seq(Element), NEW n \in Nat, Len(a) = n
  PROVE  /\ a \o b \in Seq(Element) /\ Len(a \o b) = n + Len(b)
         /\ \A i \in 1..n : (a \o b)[i] = a[i]
         /\ \A i \in (n + 1)..(n + Len(b)) : (a \o b)[i] = b[i - n]
<1>1. Len(b) \in Nat
  OBVIOUS
<1>2. /\ a \o b \in Seq(Element) /\ Len(a \o b) = n + Len(b)
      /\ \A i \in 1..(n + Len(b)) : (a \o b)[i] = IF i <= n THEN a[i] ELSE b[i - n]
  BY ConcatProperties
<1>3. (\A i \in 1..n : i \in 1..(n + Len(b)) /\ i <= n)
      /\ (\A i \in (n + 1)..(n + Len(b)) : i \in 1..(n + Len(b)) /\ ~(i <= n))
  BY <1>1
<1> QED
  BY <1>2, <1>3, Zenon

LEMMA InsertAtIs ==
  ASSUME NEW g \in Seq(Element), NEW e \in Element, NEW k \in 1..Len(g)
  PROVE  /\ InsertAt(g, k, e) \in Seq(Element) /\ Len(InsertAt(g, k, e)) = Len(g) + 1
         /\ \A i \in 1..(k - 1) : InsertAt(g, k, e)[i] = g[i]
         /\ InsertAt(g, k, e)[k] = e
         /\ \A i \in (k + 1)..(Len(g) + 1) : InsertAt(g, k, e)[i] = g[i - 1]
<1> DEFINE n == Len(g)
           a == SubSeq(g, 1, k - 1)
           b == SubSeq(g, k, n)
           m == a \o <<e>>
<1>0. n \in Nat /\ k \in Nat /\ k - 1 \in Nat /\ k <= n
  OBVIOUS
<1>1. a \in Seq(Element) /\ Len(a) = k - 1 /\ \A i \in 1..(k - 1) : a[i] = g[i]
  <2>1. 1 \in 1..(n + 1) /\ k - 1 \in 0..n /\ 1 <= (k - 1) + 1
    BY <1>0
  <2>2. a \in Seq(Element) /\ Len(a) = (k - 1) - 1 + 1 /\ \A i \in 1..((k - 1) - 1 + 1) : a[i] = g[1 + i - 1]
    BY <2>1, PartIs
  <2> HIDE DEF a
  <2> QED
    BY <2>2, <1>0
<1>2. b \in Seq(Element) /\ Len(b) = n - k + 1 /\ \A i \in 1..(n - k + 1) : b[i] = g[k + i - 1]
  <2>1. k \in 1..(n + 1) /\ n \in 0..n /\ k <= n + 1
    BY <1>0
  <2> QED
    BY <2>1, PartIs
<1>3. InsertAt(g, k, e) = m \o b
  BY DEF InsertAt
<1> HIDE DEF a, b
<1>4. m \in Seq(Element) /\ Len(m) = k /\ m[k] = e /\ \A i \in 1..(k - 1) : m[i] = g[i]
  <2>1. <<e>> \in Seq(Element) /\ Len(<<e>>) = 1 /\ <<e>>[1] = e
    OBVIOUS
  <2>2. /\ m \in Seq(Element) /\ Len(m) = (k - 1) + 1
        /\ \A i \in 1..(k - 1) : m[i] = a[i]
        /\ \A i \in ((k - 1) + 1)..((k - 1) + 1) : m[i] = <<e>>[i - (k - 1)]
    BY <1>0, <1>1, <2>1, JoinIs
  <2>3. k \in ((k - 1) + 1)..((k - 1) + 1) /\ k - (k - 1) = 1 /\ (k - 1) + 1 = k
    BY <1>0
  <2> QED
    BY <2>1, <2>2, <2>3, <1>1
<1> HIDE DEF m
<1>5. /\ m \o b \in Seq(Element) /\ Len(m \o b) = k + Len(b)
      /\ \A i \in 1..k : (m \o b)[i] = m[i]
      /\ \A i \in (k + 1)..(k + Len(b)) : (m \o b)[i] = b[i - k]
  BY <1>0, <1>2, <1>4, JoinIs
<1>6. k + Len(b) = n + 1
  BY <1>0, <1>2
<1>7. ASSUME NEW i \in (k + 1)..(n + 1) PROVE (m \o b)[i] = g[i - 1]
  <2>1. i \in (k + 1)..(k + Len(b)) /\ i - k \in 1..(n - k + 1) /\ k + (i - k) - 1 = i - 1
    BY <1>0, <1>6
  <2> QED
    BY <2>1, <1>5, <1>2
<1>8. k \in 1..k /\ \A i \in 1..(k - 1) : i \in 1..k
  BY <1>0
<1> QED
  BY <1>3, <1>4, <1>5, <1>6, <1>7, <1>8

LEMMA RemoveAtIs ==
  ASSUME NEW g \in Seq(Element), NEW k \in 1..Len(g)
  PROVE  /\ RemoveAt(g, k) \in Seq(Element) /\ Len(RemoveAt(g, k)) = Len(g) - 1
         /\ \A i \in 1..(k - 1) : RemoveAt(g, k)[i] = g[i]
         /\ \A i \in k..(Len(g) - 1) : RemoveAt(g, k)[i] = g[i + 1]
<1> DEFINE n == Len(g)
           a == SubSeq(g, 1, k - 1)
           b == SubSeq(g, k + 1, n)
<1>0. n \in Nat /\ k \in Nat /\ k - 1 \in Nat /\ k <= n
  OBVIOUS
<1>1. a \in Seq(Element) /\ Len(a) = k - 1 /\ \A i \in 1..(k - 1) : a[i] = g[i]
  <2>1. 1 \in 1..(n + 1) /\ k - 1 \in 0..n /\ 1 <= (k - 1) + 1
    BY <1>0
  <2>2. a \in Seq(Element) /\ Len(a) = (k - 1) - 1 + 1 /\ \A i \in 1..((k - 1) - 1 + 1) : a[i] = g[1 + i - 1]
    BY <2>1, PartIs
  <2> HIDE DEF a
  <2> QED
    BY <2>2, <1>0
<1>2. b \in Seq(Element) /\ Len(b) = n - k /\ \A i \in 1..(n - k) : b[i] = g[k + i]
  <2>1. k + 1 \in 1..(n + 1) /\ n \in 0..n /\ k + 1 <= n + 1
    BY <1>0
  <2>2. b \in Seq(Element) /\ Len(b) = n - (k + 1) + 1 /\ \A i \in 1..(n - (k + 1) + 1) : b[i] = g[(k + 1) + i - 1]
    BY <2>1, PartIs
  <2> HIDE DEF b
  <2>3. n - (k + 1) + 1 = n - k /\ \A i \in 1..(n - k) : (k + 1) + i - 1 = k + i
    BY <1>0
  <2> QED
    BY <2>2, <2>3
<1>3. RemoveAt(g, k) = a \o b
  BY DEF RemoveAt
<1> HIDE DEF a, b
<1>4. /\ a \o b \in Seq(Element) /\ Len(a \o b) = (k - 1) + Len(b)
      /\ \A i \in 1..(k - 1) : (a \o b)[i] = a[i]
      /\ \A i \in ((k - 1) + 1)..((k - 1) + Len(b)) : (a \o b)[i] = b[i - (k - 1)]
  <2> DEFINE before == k - 1
  <2>1. a \in Seq(Element) /\ b \in Seq(Element) /\ before \in Nat /\ Len(a) = before
    BY <1>0, <1>1, <1>2
  <2> HIDE DEF before
  <2>2. /\ a \o b \in Seq(Element) /\ Len(a \o b) = before + Len(b)
        /\ \A i \in 1..before : (a \o b)[i] = a[i]
        /\ \A i \in (before + 1)..(before + Len(b)) : (a \o b)[i] = b[i - before]
    BY <2>1, JoinIs
  <2> QED
    BY <2>2 DEF before
<1>5. (k - 1) + Len(b) = n - 1
  BY <1>0, <1>2
<1>6. ASSUME NEW i \in k..(n - 1) PROVE (a \o b)[i] = g[i + 1]
  <2>1. i \in ((k - 1) + 1)..((k - 1) + Len(b))
    BY <1>0, <1>5
  <2>2. i \in Int /\ k <= i /\ i <= n - 1
    BY <1>0
  <2>3. i - (k - 1) \in 1..(n - k) /\ k + (i - (k - 1)) = i + 1
    BY <1>0, <2>2
  <2> QED
    BY <2>1, <2>3, <1>4, <1>2
<1> QED
  BY <1>1, <1>3, <1>4, <1>5, <1>6

(***************************************************************************)
(* What an insertion and a removal do to a chain.                          *)
(***************************************************************************)
LEMMA InsertedIs ==
  ASSUME NEW g, Chain(g), NEW at \in Element, Has(g, at), NEW e \in Element, ~Has(g, e), at # None
  PROVE  LET h == Inserted(g, at, e)
         IN /\ Chain(h) /\ Len(h) = Len(g) + 1
            /\ \A x : Has(h, x) <=> (Has(g, x) \/ x = e)
            /\ \A x, y : Before(g, x, y) => Before(h, x, y)
            /\ \A x : Before(g, x, at) => Before(h, x, e)
            /\ \A x : Before(g, at, x) => Before(h, e, x)
            /\ Before(h, e, at)
            /\ h[Len(h)] = g[Len(g)]
<1>1. PICK k \in 1..Len(g) : g[k] = at
  BY DEF Has
<1>2. Place(g, at) = k
  BY <1>1, PlaceIs
<1> DEFINE n == Len(g)
           h == InsertAt(g, k, e)
<1>3. Inserted(g, at, e) = h
  BY <1>2 DEF Inserted
<1>4. g \in Seq(Element) /\ n \in Nat /\ k <= n /\ 1 <= k /\ k \in Nat
  BY DEF Chain
<1>5. /\ h \in Seq(Element) /\ Len(h) = n + 1 /\ h[k] = e
      /\ \A i \in 1..(k - 1) : h[i] = g[i]
      /\ \A i \in (k + 1)..(n + 1) : h[i] = g[i - 1]
  BY <1>4, InsertAtIs
<1> HIDE DEF h
<1>6. \A i \in 1..n : g[i] # e
  BY DEF Has
<1> DEFINE To(i) == IF i < k THEN i ELSE i + 1
           From(i) == IF i < k THEN i ELSE i - 1
<1>7. ASSUME NEW i \in 1..n PROVE To(i) \in 1..(n + 1) /\ To(i) # k /\ h[To(i)] = g[i]
  <2>1. CASE i < k
    BY <2>1, <1>4, <1>5
  <2>2. CASE ~(i < k)
    <3>1. i + 1 \in (k + 1)..(n + 1) /\ (i + 1) - 1 = i
      BY <2>2, <1>4
    <3> QED
      BY <2>2, <3>1, <1>4, <1>5
  <2> QED
    BY <2>1, <2>2
<1>8. ASSUME NEW i \in 1..(n + 1), i # k PROVE From(i) \in 1..n /\ h[i] = g[From(i)] /\ i = To(From(i))
  <2>1. CASE i < k
    BY <2>1, <1>4, <1>5
  <2>2. CASE ~(i < k)
    <3>1. i \in (k + 1)..(n + 1) /\ ~(i - 1 < k) /\ (i - 1) + 1 = i
      BY <2>2, <1>4, <1>8
    <3> QED
      BY <2>2, <3>1, <1>4, <1>5
  <2> QED
    BY <2>1, <2>2
<1>9. \A i, j \in 1..n : i < j => To(i) < To(j)
  BY <1>4
<1>10. \A i \in 1..n : (i < k => To(i) < k) /\ (i >= k => To(i) > k)
  BY <1>4
<1> HIDE DEF To, From
<1>11. Chain(h)
  <2> SUFFICES ASSUME NEW i \in 1..(n + 1), NEW j \in 1..(n + 1), h[i] = h[j] PROVE i = j
    BY <1>5 DEF Chain
  <2>1. CASE i # k /\ j # k
    <3>1. g[From(i)] = g[From(j)] /\ From(i) \in 1..n /\ From(j) \in 1..n
      BY <2>1, <1>8
    <3>2. From(i) = From(j)
      BY <3>1 DEF Chain
    <3> QED
      BY <3>2, <2>1, <1>8
  <2>2. CASE i # k /\ j = k
    BY <2>2, <1>5, <1>6, <1>8
  <2>3. CASE i = k /\ j # k
    BY <2>3, <1>5, <1>6, <1>8
  <2> QED
    BY <2>1, <2>2, <2>3
<1>12. k \in 1..(n + 1) /\ n \in 1..n
  BY <1>4
<1>13. \A x : Has(h, x) <=> (Has(g, x) \/ x = e)
  <2>1. ASSUME NEW x, Has(h, x) PROVE Has(g, x) \/ x = e
    BY <2>1, <1>5, <1>8 DEF Has
  <2>2. ASSUME NEW x, Has(g, x) PROVE Has(h, x)
    BY <2>2, <1>5, <1>7 DEF Has
  <2>3. Has(h, e)
    BY <1>5, <1>12 DEF Has
  <2> QED
    BY <2>1, <2>2, <2>3
<1>14. ASSUME NEW x, NEW y, Before(g, x, y) PROVE Before(h, x, y)
  <2>1. PICK i \in 1..n, j \in 1..n : i < j /\ g[i] = x /\ g[j] = y
    BY <1>14 DEF Before
  <2>2. To(i) < To(j) /\ h[To(i)] = x /\ h[To(j)] = y /\ To(i) \in 1..(n + 1) /\ To(j) \in 1..(n + 1)
    BY <2>1, <1>7, <1>9
  <2> QED
    BY <2>2, <1>5 DEF Before
<1>15. ASSUME NEW x, Before(g, x, at) PROVE Before(h, x, e)
  <2>1. PICK i \in 1..n, j \in 1..n : i < j /\ g[i] = x /\ g[j] = at
    BY <1>15 DEF Before
  <2>2. j = k
    BY <2>1, <1>1 DEF Chain
  <2>3. To(i) < k /\ h[To(i)] = x /\ To(i) \in 1..(n + 1)
    BY <2>1, <2>2, <1>7, <1>10
  <2> QED
    BY <2>3, <1>5, <1>12 DEF Before
<1>16. ASSUME NEW x, Before(g, at, x) PROVE Before(h, e, x)
  <2>1. PICK i \in 1..n, j \in 1..n : i < j /\ g[i] = at /\ g[j] = x
    BY <1>16 DEF Before
  <2>2. i = k /\ j >= k
    BY <2>1, <1>1, <1>4 DEF Chain
  <2>3. To(j) > k /\ h[To(j)] = x /\ To(j) \in 1..(n + 1)
    BY <2>1, <2>2, <1>7, <1>10
  <2> QED
    BY <2>3, <1>4, <1>5, <1>12 DEF Before
<1>17. Before(h, e, at)
  <2>1. To(k) > k /\ h[To(k)] = at /\ To(k) \in 1..(n + 1)
    BY <1>1, <1>4, <1>7, <1>10
  <2> QED
    BY <2>1, <1>4, <1>5, <1>12 DEF Before
<1>18. h[Len(h)] = g[n]
  <2>1. n + 1 \in (k + 1)..(n + 1) /\ (n + 1) - 1 = n
    BY <1>4
  <2> QED
    BY <2>1, <1>5
<1> QED
  BY <1>3, <1>5, <1>11, <1>13, <1>14, <1>15, <1>16, <1>17, <1>18

LEMMA PrependedIs ==
  ASSUME NEW g, Chain(g), NEW e \in Element, ~Has(g, e)
  PROVE  LET h == Inserted(g, None, e)
         IN /\ Chain(h) /\ Len(h) = Len(g) + 1
            /\ \A x : Has(h, x) <=> (Has(g, x) \/ x = e)
            /\ \A x, y : Before(g, x, y) => Before(h, x, y)
            /\ \A x : Has(g, x) => Before(h, e, x)
            /\ Len(g) > 0 => h[Len(h)] = g[Len(g)]
<1> DEFINE n == Len(g)
           h == <<e>> \o g
<1>1. Inserted(g, None, e) = h
  BY DEF Inserted
<1>2. g \in Seq(Element) /\ n \in Nat
  BY DEF Chain
<1>3. h \in Seq(Element) /\ Len(h) = n + 1 /\ h[1] = e /\ \A i \in 2..(n + 1) : h[i] = g[i - 1]
  <2>1. <<e>> \in Seq(Element) /\ Len(<<e>>) = 1 /\ <<e>>[1] = e
    OBVIOUS
  <2>2. /\ h \in Seq(Element) /\ Len(h) = 1 + n
        /\ \A i \in 1..1 : h[i] = <<e>>[i]
        /\ \A i \in (1 + 1)..(1 + n) : h[i] = g[i - 1]
    BY <1>2, <2>1, JoinIs
  <2> HIDE DEF h
  <2>3. 1 \in 1..1 /\ 1 + n = n + 1 /\ 1 + 1 = 2
    BY <1>2
  <2> QED
    BY <2>1, <2>2, <2>3
<1> HIDE DEF h
<1>4. ASSUME NEW i \in 1..n PROVE i + 1 \in 2..(n + 1) /\ i + 1 \in 1..(n + 1) /\ h[i + 1] = g[i]
  <2>1. i + 1 \in 2..(n + 1) /\ (i + 1) - 1 = i
    BY <1>2
  <2> QED
    BY <2>1, <1>2, <1>3
<1>5. ASSUME NEW i \in 1..(n + 1), i # 1 PROVE i - 1 \in 1..n /\ h[i] = g[i - 1]
  BY <1>2, <1>3, <1>5
<1>6. \A i \in 1..n : g[i] # e
  BY DEF Has
<1>7. Chain(h)
  <2> SUFFICES ASSUME NEW i \in 1..(n + 1), NEW j \in 1..(n + 1), h[i] = h[j] PROVE i = j
    BY <1>3 DEF Chain
  <2>1. CASE i # 1 /\ j # 1
    <3>1. g[i - 1] = g[j - 1] /\ i - 1 \in 1..n /\ j - 1 \in 1..n
      BY <2>1, <1>5
    <3>2. i - 1 = j - 1
      BY <3>1 DEF Chain
    <3> QED
      BY <3>2, <2>1, <1>2
  <2>2. CASE i # 1 /\ j = 1
    BY <2>2, <1>3, <1>5, <1>6
  <2>3. CASE i = 1 /\ j # 1
    BY <2>3, <1>3, <1>5, <1>6
  <2> QED
    BY <2>1, <2>2, <2>3
<1>8. 1 \in 1..(n + 1) /\ (n > 0 => n + 1 \in 2..(n + 1) /\ (n + 1) - 1 = n)
  BY <1>2
<1>9. \A x : Has(h, x) <=> (Has(g, x) \/ x = e)
  <2>1. ASSUME NEW x, Has(h, x) PROVE Has(g, x) \/ x = e
    BY <2>1, <1>3, <1>5 DEF Has
  <2>2. ASSUME NEW x, Has(g, x) PROVE Has(h, x)
    BY <2>2, <1>3, <1>4 DEF Has
  <2>3. Has(h, e)
    BY <1>3, <1>8 DEF Has
  <2> QED
    BY <2>1, <2>2, <2>3
<1>10. ASSUME NEW x, NEW y, Before(g, x, y) PROVE Before(h, x, y)
  <2>1. PICK i \in 1..n, j \in 1..n : i < j /\ g[i] = x /\ g[j] = y
    BY <1>10 DEF Before
  <2>2. i + 1 < j + 1 /\ h[i + 1] = x /\ h[j + 1] = y /\ i + 1 \in 1..(n + 1) /\ j + 1 \in 1..(n + 1)
    BY <2>1, <1>2, <1>4
  <2> QED
    BY <2>2, <1>3 DEF Before
<1>11. ASSUME NEW x, Has(g, x) PROVE Before(h, e, x)
  <2>1. PICK i \in 1..n : g[i] = x
    BY <1>11 DEF Has
  <2>2. 1 < i + 1 /\ h[i + 1] = x /\ i + 1 \in 1..(n + 1)
    BY <2>1, <1>2, <1>4
  <2> QED
    BY <2>2, <1>3, <1>8 DEF Before
<1>12. n > 0 => h[Len(h)] = g[n]
  BY <1>3, <1>8
<1> QED
  BY <1>1, <1>3, <1>7, <1>9, <1>10, <1>11, <1>12

LEMMA RemovedIs ==
  ASSUME NEW g, Chain(g), NEW e \in Element
  PROVE  LET h == Removed(g, e)
         IN /\ Chain(h)
            /\ \A x : Has(h, x) <=> (Has(g, x) /\ x # e)
            /\ \A x, y : Before(g, x, y) /\ x # e /\ y # e => Before(h, x, y)
            /\ Len(g) > 0 /\ g[Len(g)] # e => Len(h) > 0 /\ h[Len(h)] = g[Len(g)]
<1>1. CASE ~Has(g, e)
  <2>1. Removed(g, e) = g
    BY <1>1, Zenon DEF Removed, RemoveFirst, Has
  <2> QED
    BY <1>1, <2>1 DEF Has
<1>2. CASE Has(g, e)
  <2>1. PICK k \in 1..Len(g) : g[k] = e
    BY <1>2 DEF Has
  <2> DEFINE n == Len(g)
             h == RemoveAt(g, k)
  <2>2. Removed(g, e) = h
    <3>1. Place(g, e) = k
      BY <2>1, PlaceIs
    <3>2. Place(g, e) = SelectInSeq(g, LAMBDA v : v = e)
      BY DEF Place
    <3>3. RemoveFirst(g, e) = RemoveAt(g, SelectInSeq(g, LAMBDA v : v = e))
      BY <2>1 DEF RemoveFirst
    <3> QED
      BY <3>1, <3>2, <3>3 DEF Removed
  <2>3. g \in Seq(Element) /\ n \in Nat /\ k <= n /\ 1 <= k /\ k \in Nat
    BY DEF Chain
  <2>4. /\ h \in Seq(Element) /\ Len(h) = n - 1
        /\ \A i \in 1..(k - 1) : h[i] = g[i]
        /\ \A i \in k..(n - 1) : h[i] = g[i + 1]
    BY <2>3, RemoveAtIs
  <2> HIDE DEF h
  <2> DEFINE From(i) == IF i < k THEN i ELSE i + 1
             To(i) == IF i < k THEN i ELSE i - 1
  <2>5. ASSUME NEW i \in 1..(n - 1) PROVE From(i) \in 1..n /\ h[i] = g[From(i)] /\ From(i) # k /\ i = To(From(i))
    BY <2>3, <2>4
  <2>6. ASSUME NEW i \in 1..n, i # k PROVE To(i) \in 1..(n - 1) /\ h[To(i)] = g[i]
    <3>1. CASE i < k
      BY <3>1, <2>3, <2>4
    <3>2. CASE ~(i < k)
      <4>1. i - 1 \in k..(n - 1) /\ (i - 1) + 1 = i
        BY <3>2, <2>3, <2>6
      <4> QED
        BY <3>2, <4>1, <2>3, <2>4
    <3> QED
      BY <3>1, <3>2
  <2>7. \A i, j \in 1..n : i < j /\ i # k /\ j # k => To(i) < To(j)
    BY <2>3
  <2> HIDE DEF From, To
  <2>8. \A i \in 1..n : i # k => g[i] # e
    BY <2>1 DEF Chain
  <2>9. Chain(h)
    <3> SUFFICES ASSUME NEW i \in 1..(n - 1), NEW j \in 1..(n - 1), h[i] = h[j] PROVE i = j
      BY <2>4 DEF Chain
    <3>1. g[From(i)] = g[From(j)] /\ From(i) \in 1..n /\ From(j) \in 1..n
      BY <2>5
    <3>2. From(i) = From(j)
      BY <3>1 DEF Chain
    <3> QED
      BY <3>2, <2>5
  <2>10. \A x : Has(h, x) <=> (Has(g, x) /\ x # e)
    <3>1. ASSUME NEW x, Has(h, x) PROVE Has(g, x) /\ x # e
      <4>1. PICK i \in 1..(n - 1) : h[i] = x
        BY <3>1, <2>4 DEF Has
      <4> QED
        BY <4>1, <2>5, <2>8 DEF Has
    <3>2. ASSUME NEW x, Has(g, x), x # e PROVE Has(h, x)
      <4>1. PICK i \in 1..n : g[i] = x
        BY <3>2 DEF Has
      <4>2. i # k
        BY <3>2, <4>1, <2>1
      <4> QED
        BY <4>1, <4>2, <2>4, <2>6 DEF Has
    <3> QED
      BY <3>1, <3>2
  <2>11. ASSUME NEW x, NEW y, Before(g, x, y), x # e, y # e PROVE Before(h, x, y)
    <3>1. PICK i \in 1..n, j \in 1..n : i < j /\ g[i] = x /\ g[j] = y
      BY <2>11 DEF Before
    <3>2. i # k /\ j # k
      BY <2>11, <3>1, <2>1
    <3>3. /\ To(i) < To(j) /\ h[To(i)] = x /\ h[To(j)] = y
          /\ To(i) \in 1..(n - 1) /\ To(j) \in 1..(n - 1)
      BY <3>1, <3>2, <2>6, <2>7
    <3> QED
      BY <3>3, <2>4 DEF Before
  <2>12. ASSUME g[n] # e PROVE Len(h) > 0 /\ h[Len(h)] = g[n]
    <3>1. k # n
      BY <2>12, <2>1
    <3>2. n - 1 \in k..(n - 1) /\ (n - 1) + 1 = n /\ n - 1 > 0
      BY <3>1, <2>3
    <3> QED
      BY <3>2, <2>4
  <2> QED
    BY <2>2, <2>9, <2>10, <2>11, <2>12
<1> QED
  BY <1>1, <1>2

(***************************************************************************)
(* The graph of a stream that is open.  Each of these pairs is read in     *)
(* this order, if both are there; the camera is read last.                 *)
(***************************************************************************)
Order == {<<"procResize", "procPixfmt">>, <<"procPixfmt", "tc_edge">>, <<"tc_edge", "decoder">>,
          <<"tc_edge", "fileRecorder">>, <<"fileRecorderSync", "tc_edge">>, <<"tc_edge", "hls">>,
          <<"audio_render", "audio_decode">>}
Processing == {"procResize", "procPixfmt", "tc_edge"}

Proper(g) ==
  /\ Chain(g) /\ Len(g) > 0 /\ g[Len(g)] = "demux"
  /\ \A x \in Processing : Has(g, x)
  /\ \A p \in Order : Has(g, p[1]) /\ Has(g, p[2]) => Before(g, p[1], p[2])

LEMMA InsertKeeps ==
  ASSUME NEW g, Proper(g), NEW at \in Element, Has(g, at), NEW e \in Element, ~Has(g, e),
         \A p \in Order : p[2] = e /\ Has(g, p[1]) => Before(g, p[1], at),
         \A p \in Order : p[1] = e /\ Has(g, p[2]) => p[2] = at
  PROVE  Proper(Inserted(g, at, e))
<1> DEFINE h == Inserted(g, at, e)
<1>1. Chain(g) /\ at # None
  BY SessionAssumption DEF Proper
<1>2. /\ Chain(h) /\ Len(h) = Len(g) + 1
      /\ \A x : Has(h, x) <=> (Has(g, x) \/ x = e)
      /\ \A x, y : Before(g, x, y) => Before(h, x, y)
      /\ \A x : Before(g, x, at) => Before(h, x, e)
      /\ Before(h, e, at)
      /\ h[Len(h)] = g[Len(g)]
  BY <1>1, InsertedIs
<1> HIDE DEF h
<1>3. Len(h) > 0 /\ h[Len(h)] = "demux" /\ \A x \in Processing : Has(h, x)
  BY <1>1, <1>2 DEF Proper, Chain
<1>4. ASSUME NEW p \in Order, Has(h, p[1]), Has(h, p[2]) PROVE Before(h, p[1], p[2])
  <2>1. p[1] # p[2]
    BY DEF Order
  <2>2. CASE p[1] # e /\ p[2] # e
    BY <1>2, <1>4, <2>2 DEF Proper
  <2>3. CASE p[2] = e
    BY <1>2, <1>4, <2>1, <2>3
  <2>4. CASE p[1] = e
    BY <1>2, <1>4, <2>1, <2>4
  <2> QED
    BY <2>2, <2>3, <2>4
<1>5. Proper(h)
  BY <1>2, <1>3, <1>4 DEF Proper
<1> QED
  BY <1>5 DEF h

LEMMA PrependKeeps ==
  ASSUME NEW g, Proper(g), NEW e \in Element, ~Has(g, e), \A p \in Order : ~(p[2] = e /\ Has(g, p[1]))
  PROVE  Proper(Inserted(g, None, e))
<1> DEFINE h == Inserted(g, None, e)
<1>1. Chain(g) /\ Len(g) > 0
  BY DEF Proper
<1>2. /\ Chain(h) /\ Len(h) = Len(g) + 1
      /\ \A x : Has(h, x) <=> (Has(g, x) \/ x = e)
      /\ \A x, y : Before(g, x, y) => Before(h, x, y)
      /\ \A x : Has(g, x) => Before(h, e, x)
      /\ h[Len(h)] = g[Len(g)]
  BY <1>1, PrependedIs
<1> HIDE DEF h
<1>3. Len(h) > 0 /\ h[Len(h)] = "demux" /\ \A x \in Processing : Has(h, x)
  BY <1>1, <1>2 DEF Proper, Chain
<1>4. ASSUME NEW p \in Order, Has(h, p[1]), Has(h, p[2]) PROVE Before(h, p[1], p[2])
  <2>1. p[1] # p[2]
    BY DEF Order
  <2>2. CASE p[1] # e /\ p[2] # e
    BY <1>2, <1>4, <2>2 DEF Proper
  <2>3. CASE p[2] = e
    BY <1>2, <1>4, <2>1, <2>3
  <2>4. CASE p[1] = e
    BY <1>2, <1>4, <2>1, <2>4
  <2> QED
    BY <2>2, <2>3, <2>4
<1>5. Proper(h)
  BY <1>2, <1>3, <1>4 DEF Proper
<1> QED
  BY <1>5 DEF h

LEMMA RemoveKeeps ==
  ASSUME NEW g, Proper(g), NEW e \in Element \ (Processing \cup {"demux"}) PROVE Proper(Removed(g, e))
<1> DEFINE h == Removed(g, e)
<1>1. Chain(g) /\ Len(g) > 0 /\ g[Len(g)] # e
  BY DEF Proper
<1>2. /\ Chain(h) /\ Len(h) > 0 /\ h[Len(h)] = g[Len(g)]
      /\ \A x : Has(h, x) <=> (Has(g, x) /\ x # e)
      /\ \A x, y : Before(g, x, y) /\ x # e /\ y # e => Before(h, x, y)
  BY <1>1, RemovedIs
<1> HIDE DEF h
<1>3. \A x \in Processing : Has(h, x)
  BY <1>2 DEF Proper
<1>4. ASSUME NEW p \in Order, Has(h, p[1]), Has(h, p[2]) PROVE Before(h, p[1], p[2])
  BY <1>2, <1>4 DEF Proper
<1>5. Proper(h)
  BY <1>2, <1>3, <1>4 DEF Proper
<1> QED
  BY <1>5 DEF h

\* Everything else is read before the camera.
LEMMA CameraIsLast ==
  ASSUME NEW g, Proper(g), NEW x, Has(g, x), x # "demux" PROVE Before(g, x, "demux")
<1>1. PICK i \in 1..Len(g) : g[i] = x
  BY DEF Has
<1>2. Len(g) \in Nat /\ i # Len(g) /\ g[Len(g)] = "demux"
  BY <1>1 DEF Proper, Chain
<1>3. i < Len(g) /\ Len(g) \in 1..Len(g)
  BY <1>2
<1> QED
  BY <1>1, <1>2, <1>3 DEF Before

LEMMA CameraIsThere == ASSUME NEW g, Proper(g) PROVE Has(g, "demux")
<1>1. Len(g) \in Nat /\ Len(g) > 0 /\ g[Len(g)] = "demux"
  BY DEF Proper, Chain
<1>2. Len(g) \in 1..Len(g)
  BY <1>1
<1> QED
  BY <1>1, <1>2 DEF Has

\* The places where a map, a recorder or a live stream is put.
LEMMA PlacesKnown ==
  ASSUME NEW g, Proper(g)
  PROVE  /\ Before(g, "procResize", "procPixfmt") /\ Before(g, "procPixfmt", "tc_edge") /\ Before(g, "procResize", "tc_edge")
         /\ \A a \in {"decoder", "demux"} : Has(g, a) => Before(g, "tc_edge", a) /\ Before(g, "procResize", a)
<1>1. Chain(g) /\ Has(g, "procResize") /\ Has(g, "procPixfmt") /\ Has(g, "tc_edge")
  BY DEF Proper, Processing
<1>2. \A p \in Order : Has(g, p[1]) /\ Has(g, p[2]) => Before(g, p[1], p[2])
  BY DEF Proper
<1>3. Before(g, "procResize", "procPixfmt") /\ Before(g, "procPixfmt", "tc_edge")
  <2>1. <<"procResize", "procPixfmt">> \in Order /\ <<"procPixfmt", "tc_edge">> \in Order
    BY DEF Order
  <2> QED
    BY <2>1, <1>1, <1>2
<1>4. Before(g, "procResize", "tc_edge")
  BY <1>1, <1>3, BeforeIsTransitive
<1>5. ASSUME NEW a \in {"decoder", "demux"}, Has(g, a) PROVE Before(g, "tc_edge", a)
  <2>1. CASE a = "decoder"
    <3>1. <<"tc_edge", "decoder">> \in Order
      BY DEF Order
    <3> QED
      BY <1>1, <1>2, <1>5, <2>1, <3>1
  <2>2. CASE a = "demux"
    BY <1>1, <2>2, CameraIsLast
  <2> QED
    BY <2>1, <2>2
<1>6. \A a \in {"decoder", "demux"} : Has(g, a) => Before(g, "procResize", a)
  BY <1>1, <1>4, <1>5, BeforeIsTransitive
<1> QED
  BY <1>3, <1>4, <1>5, <1>6

(***************************************************************************)
(* The invariant of the session.  A graph that was cut off stays so.       *)
(***************************************************************************)
PlaceFor(v) == IF ~Large(v) THEN "procResize" ELSE IF v.fps > Fps THEN Aux ELSE "procPixfmt"

\* Where the map is, its frames are those the place stands for.
Serves(g, place) ==
  Has(g, "mmapSplitter") =>
    /\ place = "procResize" => Before(g, "mmapSplitter", "procResize")
    /\ place # "procResize" => Before(g, "procResize", "mmapSplitter")
    /\ place = Aux => Before(g, "tc_edge", "mmapSplitter")

\* The filter that resizes for the analysis is the head.
ResizeFirst(g) == \A x : (Has(g, x) /\ x # "procResize") => Before(g, "procResize", x)

WholeInv ==
  /\ Proper(graph) /\ (Has(graph, "decoder") <=> ~local)
  /\ Has(graph, "audio_decode") <=> audioVolume = 1
  /\ Has(graph, "audio_render") <=> audioVolume = 1
  /\ Has(graph, "mmapSplitter") => mmapPosition = PlaceFor(view) /\ mmapFilename # None
  /\ Serves(graph, mmapPosition)
  /\ mmapFilename # None /\ mmapOpened /\ ~mmapPaused =>
       \/ Has(graph, "mmapSplitter")
       \/ mmapPosition = "procResize" /\ PlaceFor(view) = "procResize" /\ ResizeFirst(graph)

GraphInv == Whole => WholeInv

LEMMA InGraphIs == \A e : InGraph(e) <=> Has(graph, e)
BY DEF InGraph, Contains, Has

LEMMA ProperIsNotCutOff == ASSUME NEW g, Proper(g) PROVE g # <<"mmapSplitter">>
<1>1. <<"mmapSplitter">>[Len(<<"mmapSplitter">>)] = "mmapSplitter"
  OBVIOUS
<1> QED
  BY <1>1 DEF Proper

\* The place of a view is found in every graph that is whole.
LEMMA PlaceForIsThere ==
  ASSUME NEW g, Proper(g), Has(g, "decoder") <=> ~local, NEW v
  PROVE  PlaceFor(v) \in Element /\ Has(g, PlaceFor(v)) /\ PlaceFor(v) # "mmapSplitter"
<1>1. Has(g, "procResize") /\ Has(g, "procPixfmt")
  BY DEF Proper, Processing
<1>2. Has(g, Aux) /\ Aux \in {"demux", "decoder"}
  BY CameraIsThere DEF Aux
<1> QED
  BY <1>1, <1>2 DEF PlaceFor, Element

LEMMA PositionIs == ASSUME WholeInv, NEW v PROVE Position(v) = PlaceFor(v)
<1>1. InGraph("procPixfmt")
  BY InGraphIs DEF WholeInv, Proper, Processing
<1> QED
  BY <1>1 DEF Position, PlaceFor

\* A map that is put into a graph lies where its view needs it.
LEMMA MapInserted ==
  ASSUME NEW g, Proper(g), ~Has(g, "mmapSplitter"), Has(g, "decoder") <=> ~local, NEW v
  PROVE  LET h == Inserted(g, PlaceFor(v), "mmapSplitter")
         IN /\ Proper(h) /\ Serves(h, PlaceFor(v))
            /\ \A x : Has(h, x) <=> (Has(g, x) \/ x = "mmapSplitter")
<1> DEFINE at == PlaceFor(v)
           h == Inserted(g, at, "mmapSplitter")
<1>1. at \in Element /\ Has(g, at) /\ at # None /\ "mmapSplitter" \in Element /\ Chain(g)
  BY PlaceForIsThere, SessionAssumption DEF Element, Proper
<1>2. Proper(h)
  <2>1. \A p \in Order : p[1] # "mmapSplitter" /\ p[2] # "mmapSplitter"
    BY DEF Order
  <2> HIDE DEF at
  <2> QED
    BY <1>1, <2>1, InsertKeeps
<1>3. /\ \A x : Has(h, x) <=> (Has(g, x) \/ x = "mmapSplitter")
      /\ \A x, y : Before(g, x, y) => Before(h, x, y)
      /\ \A x : Before(g, x, at) => Before(h, x, "mmapSplitter")
      /\ Before(h, "mmapSplitter", at)
  <2> HIDE DEF at
  <2> QED
    BY <1>1, InsertedIs
<1>4. /\ Before(g, "procResize", "procPixfmt") /\ Before(g, "procResize", "tc_edge")
      /\ Has(g, Aux) => Before(g, "tc_edge", Aux) /\ Before(g, "procResize", Aux)
  BY PlacesKnown DEF Aux
<1>5. at \in {"procResize", Aux, "procPixfmt"} /\ Aux # "procResize"
  BY DEF PlaceFor, Aux
<1> HIDE DEF at, h
<1>6. Serves(h, at)
  <2>1. at = "procResize" => Before(h, "mmapSplitter", "procResize")
    BY <1>3
  <2>2. at # "procResize" => Before(h, "procResize", "mmapSplitter")
    BY <1>1, <1>3, <1>4, <1>5
  <2>3. at = Aux => Before(h, "tc_edge", "mmapSplitter")
    BY <1>1, <1>3, <1>4
  <2> QED
    BY <2>1, <2>2, <2>3 DEF Serves
<1> QED
  BY <1>2, <1>3, <1>6 DEF at, h

LEMMA ClosedIs ==
  ASSUME WholeInv
  PROVE  Proper(Closed) /\ \A x : Has(Closed, x) <=> (Has(graph, x) /\ x # "mmapSplitter")
<1>1. "mmapSplitter" \in Element \ (Processing \cup {"demux"}) /\ Chain(graph)
  BY DEF Element, Processing, WholeInv, Proper
<1>2. Proper(graph)
  BY DEF WholeInv
<1> QED
  BY <1>1, <1>2, RemoveKeeps, RemovedIs DEF Closed

LEMMA PutKeeps ==
  ASSUME WholeInv, NEW name \in Filenames, PutMmap(Closed, name), UNCHANGED <<local, audioVolume>>
  PROVE  WholeInv'
<1>1. Proper(Closed) /\ \A x : Has(Closed, x) <=> (Has(graph, x) /\ x # "mmapSplitter")
  BY ClosedIs
<1>2. name # None
  BY SessionAssumption
<1>3. mmapFilename' = name /\ mmapPosition' = PlaceFor(view') /\ PlaceFor(view)' = PlaceFor(view') /\ Aux' = Aux
  BY PositionIs DEF PutMmap, PlaceFor, Aux, Large
<1>4. Has(Closed, "decoder") <=> ~local
  BY <1>1 DEF WholeInv
<1>5. CASE graph' = Inserted(Closed, mmapPosition', "mmapSplitter")
  <2>1. Proper(graph') /\ Serves(graph', mmapPosition')
        /\ \A x : Has(graph', x) <=> (Has(Closed, x) \/ x = "mmapSplitter")
    BY <1>1, <1>3, <1>4, <1>5, MapInserted
  <2> QED
    BY <1>1, <1>2, <1>3, <1>4, <2>1 DEF WholeInv, Serves
<1>6. CASE graph' = Closed /\ ~mmapOpened'
  <2>1. ~Has(graph', "mmapSplitter")
    BY <1>1, <1>6
  <2> QED
    BY <1>1, <1>2, <1>3, <1>4, <1>6, <2>1 DEF WholeInv, Serves
<1> QED
  BY <1>5, <1>6 DEF PutMmap

\* A view whose place is the head takes the frames that were resized for the analysis.
LEMMA PlaceAtHead ==
  ASSUME NEW g, Proper(g), NEW v, Has(g, PlaceFor(v)), PlaceFor(v) = Head(g)
  PROVE  PlaceFor(v) = "procResize" /\ ResizeFirst(g)
<1>1. Chain(g) /\ Len(g) \in Nat /\ Len(g) > 0 /\ g[1] = PlaceFor(v)
  BY DEF Proper, Chain
<1>2. \A i \in 1..Len(g) : g[i] = g[1] => i = 1
  BY <1>1 DEF Chain
<1>3. \A x : ~Before(g, x, g[1])
  <2> SUFFICES ASSUME NEW x, Before(g, x, g[1]) PROVE FALSE
    OBVIOUS
  <2>1. PICK i \in 1..Len(g), j \in 1..Len(g) : i < j /\ g[i] = x /\ g[j] = g[1]
    BY DEF Before
  <2> QED
    BY <1>1, <1>2, <2>1
<1>4. PlaceFor(v) = "procResize"
  <2>1. PlaceFor(v) \in {"procResize", "procPixfmt", "decoder", "demux"}
    BY DEF PlaceFor, Aux
  <2>2. PlaceFor(v) # "procResize" => Before(g, "procResize", PlaceFor(v))
    BY <2>1, PlacesKnown
  <2> QED
    BY <1>1, <1>3, <2>2
<1>5. ResizeFirst(g)
  <2> SUFFICES ASSUME NEW x, Has(g, x), x # "procResize" PROVE Before(g, "procResize", x)
    BY DEF ResizeFirst
  <2>1. PICK i \in 1..Len(g) : g[i] = x
    BY DEF Has
  <2>2. 1 < i /\ 1 \in 1..Len(g)
    BY <1>1, <1>4, <2>1
  <2> QED
    BY <1>1, <1>4, <2>1, <2>2 DEF Before
<1> QED
  BY <1>4, <1>5

LEMMA ResizeIsHead == ASSUME NEW g, Proper(g), ResizeFirst(g) PROVE Head(g) = "procResize"
<1>1. Chain(g) /\ Len(g) \in Nat /\ Len(g) > 0 /\ Head(g) = g[1] /\ 1 \in 1..Len(g)
  BY DEF Proper, Chain
<1>2. SUFFICES ASSUME g[1] # "procResize" PROVE FALSE
  BY <1>1
<1>3. Has(g, g[1])
  BY <1>1 DEF Has
<1>4. PICK i \in 1..Len(g), j \in 1..Len(g) : i < j /\ g[i] = "procResize" /\ g[j] = g[1]
  BY <1>2, <1>3 DEF ResizeFirst, Before
<1>5. j = 1
  BY <1>1, <1>4 DEF Chain
<1> QED
  BY <1>4, <1>5

LEMMA UnpauseKeeps ==
  ASSUME WholeInv, Unpause, ~InGraph("mmapSplitter"), mmapFilename # None,
         UNCHANGED <<local, audioVolume, view, mmapFilename, mmapOpened>>, mmapPaused
  PROVE  WholeInv'
<1>1. Proper(graph) /\ ~Has(graph, "mmapSplitter") /\ (Has(graph, "decoder") <=> ~local)
  BY InGraphIs DEF WholeInv
<1>2. mmapPosition' = PlaceFor(view) /\ PlaceFor(view)' = PlaceFor(view) /\ Aux' = Aux
  BY PositionIs DEF Unpause, PlaceFor, Aux, Large
<1>3. InGraph(mmapPosition') /\ Has(graph, PlaceFor(view))
  BY <1>1, <1>2, PlaceForIsThere, InGraphIs
<1>4. CASE mmapPosition' # Head(graph)
  <2>1. graph' = Inserted(graph, mmapPosition', "mmapSplitter")
    BY <1>3, <1>4 DEF Unpause, PutBack
  <2>2. Proper(graph') /\ Serves(graph', mmapPosition')
        /\ \A x : Has(graph', x) <=> (Has(graph, x) \/ x = "mmapSplitter")
    BY <1>1, <1>2, <2>1, MapInserted
  <2> QED
    BY <1>1, <1>2, <2>2 DEF WholeInv, Serves
<1>5. CASE mmapPosition' = Head(graph)
  <2>1. graph' = graph
    BY <1>3, <1>5 DEF Unpause, PutBack
  <2>2. PlaceFor(view) = "procResize" /\ ResizeFirst(graph)
    BY <1>1, <1>2, <1>3, <1>5, PlaceAtHead
  <2> QED
    BY <1>1, <1>2, <2>1, <2>2 DEF WholeInv, Serves
<1> QED
  BY <1>4, <1>5

LEMMA OpenMmapKeeps ==
  ASSUME WholeInv, Whole, NEW name \in Filenames, OpenMmap(name), Whole' PROVE WholeInv'
<1>1. ~CutOff /\ status' # "crashed" /\ UNCHANGED <<local, audioVolume, view>>
  BY DEF Whole, Open, OpenMmap, camera
<1>2. CASE mmapFilename # name /\ PutMmap(Closed, name)
  BY <1>1, <1>2, PutKeeps
<1>3. CASE mmapFilename = name /\ CanUnpause /\ ~InGraph("mmapSplitter") /\ Unpause /\ UNCHANGED <<mmapFilename, mmapOpened>>
  BY <1>1, <1>3, UnpauseKeeps DEF CanUnpause
<1> QED
  BY <1>1, <1>2, <1>3 DEF OpenMmap, Crash

\* When the map is taken out of its place, or changed where it is.
LEMMA ClosedKeeps ==
  ASSUME WholeInv, graph' = Closed, UNCHANGED <<local, audioVolume, mmapFilename>>, mmapPaused' PROVE WholeInv'
<1>1. Proper(Closed) /\ \A x : Has(Closed, x) <=> (Has(graph, x) /\ x # "mmapSplitter")
  BY ClosedIs
<1> QED
  BY <1>1 DEF WholeInv, Serves

LEMMA CloseMmapKeeps == ASSUME WholeInv, Whole, CloseMmap, Whole' PROVE WholeInv'
<1>1. UNCHANGED <<local, audioVolume, mmapFilename>> /\ mmapPaused' /\ graph' = Detached
  BY DEF CloseMmap, camera
<1>2. graph' = Closed
  BY <1>1 DEF Detached, Whole, CutOff
<1> QED
  BY <1>1, <1>2, ClosedKeeps

LEMMA SetMmapParamsKeeps ==
  ASSUME WholeInv, Whole, NEW v \in Views, SetMmapParams(v), Whole', mmapFilename \in Filenames \cup {None}
  PROVE  WholeInv'
<1>1. ~CutOff /\ status' # "crashed" /\ UNCHANGED <<local, audioVolume>> /\ view' = v
  BY DEF Whole, Open, SetMmapParams, camera
<1>2. CASE Repositions
  <2>1. PutMmap(Closed, mmapFilename) /\ mmapFilename \in Filenames
    BY <1>1, <1>2 DEF SetMmapParams, Repositions
  <2> QED
    BY <1>1, <2>1, PutKeeps
<1>3. CASE ~Repositions
  <2>1. Reconfigure
    BY <1>3 DEF SetMmapParams
  <2>2. PlaceFor(view)' = PlaceFor(view') /\ Aux' = Aux /\ Position(view') = PlaceFor(view')
    BY <1>1, PositionIs DEF PlaceFor, Aux, Large
  <2>3. mmapFilename # None => PlaceFor(view') = mmapPosition
    BY <1>3, <2>2 DEF Repositions
  <2>4. graph' = graph /\ UNCHANGED <<mmapFilename, mmapOpened>> /\ mmapPosition' \in {mmapPosition, PlaceFor(view')}
        /\ (mmapPosition' # mmapPosition => mmapFilename # None) /\ (mmapPaused => mmapPaused')
    BY <2>1, <2>2 DEF Reconfigure, CanPause, Detached, Whole, CutOff
  <2>5. mmapPosition' = mmapPosition
    BY <2>3, <2>4
  <2> QED
    BY <1>1, <2>2, <2>3, <2>4, <2>5 DEF WholeInv, Serves
<1> QED
  BY <1>2, <1>3

\* An element that is no map and is put into the graph or taken out of it leaves the map where it is.
LEMMA OthersKeepServing ==
  ASSUME NEW g, NEW h, NEW place, Serves(g, place), Has(h, "mmapSplitter") => Has(g, "mmapSplitter"),
         \A x, y \in {"mmapSplitter", "procResize", "tc_edge"} : Before(g, x, y) => Before(h, x, y)
  PROVE  Serves(h, place)
BY DEF Serves

LEMMA PrepareLiveKeeps ==
  ASSUME WholeInv, Whole, NEW remux \in BOOLEAN, PrepareLive(remux) PROVE WholeInv'
<1>1. PICK at \in {"decoder", "demux"} : graph' = Inserted(graph, at, "hls") /\ Has(graph, at)
  BY InGraphIs, CameraIsThere DEF PrepareLive, WholeInv
<1>2. Proper(graph) /\ Chain(graph) /\ ~Has(graph, "hls") /\ at \in Element /\ at # None /\ "hls" \in Element
  BY InGraphIs, SessionAssumption DEF PrepareLive, WholeInv, Proper, Element
<1>3. UNCHANGED <<local, audioVolume, view, mmapFilename, mmapPosition, mmapPaused, mmapOpened>>
  BY DEF PrepareLive, camera, mmap
<1>4. Proper(graph')
  <2>1. Before(graph, "tc_edge", at)
    BY <1>1, <1>2, PlacesKnown
  <2>2. \A p \in Order : p[1] # "hls" /\ (p[2] = "hls" => p[1] = "tc_edge")
    BY DEF Order
  <2> QED
    BY <1>1, <1>2, <2>1, <2>2, InsertKeeps
<1>5. /\ \A x : Has(graph', x) <=> (Has(graph, x) \/ x = "hls")
      /\ \A x, y : Before(graph, x, y) => Before(graph', x, y)
  BY <1>1, <1>2, InsertedIs
<1>6. Serves(graph', mmapPosition)
  BY <1>5, OthersKeepServing DEF WholeInv
<1>7. PlaceFor(view)' = PlaceFor(view) /\ Aux' = Aux
  BY <1>3 DEF PlaceFor, Aux, Large
<1>8. Before(graph', "procResize", "hls")
  <2>1. Before(graph, "procResize", at)
    BY <1>1, <1>2, PlacesKnown
  <2> QED
    BY <1>1, <1>2, <2>1, InsertedIs
<1>9. ResizeFirst(graph) => ResizeFirst(graph')
  BY <1>5, <1>8 DEF ResizeFirst
<1> QED
  BY <1>3, <1>4, <1>5, <1>6, <1>7, <1>9 DEF WholeInv, Serves

LEMMA WithAudioIs ==
  ASSUME NEW g, Proper(g), ~Has(g, "audio_decode"), ~Has(g, "audio_render"), NEW at \in {None, "tc_edge"}
  PROVE  LET h == WithAudio(g, at)
         IN /\ Proper(h)
            /\ \A x : Has(h, x) <=> (Has(g, x) \/ x \in {"audio_decode", "audio_render"})
            /\ \A x, y : Before(g, x, y) => Before(h, x, y)
            /\ \A x : (at # None /\ Before(g, x, at)) => Before(h, x, "audio_decode") /\ Before(h, x, "audio_render")
<1> DEFINE m == Inserted(g, at, "audio_decode")
           h == Inserted(m, "audio_decode", "audio_render")
<1>1. /\ "audio_decode" \in Element /\ "audio_render" \in Element /\ "tc_edge" \in Element
      /\ "audio_decode" # None /\ "tc_edge" # None /\ Chain(g) /\ Len(g) > 0 /\ Has(g, "tc_edge")
  BY SessionAssumption DEF Element, Proper, Processing
<1>2. \A p \in Order : (p[2] = "audio_decode" => p[1] = "audio_render") /\ p[1] # "audio_decode"
                       /\ p[2] # "audio_render" /\ (p[1] = "audio_render" => p[2] = "audio_decode")
  BY DEF Order
<1>3. Proper(m)
  <2>1. CASE at = None
    BY <1>1, <1>2, <2>1, PrependKeeps
  <2>2. CASE at = "tc_edge"
    BY <1>1, <1>2, <2>2, InsertKeeps
  <2> QED
    BY <2>1, <2>2
<1>4. /\ \A x : Has(m, x) <=> (Has(g, x) \/ x = "audio_decode")
      /\ \A x, y : Before(g, x, y) => Before(m, x, y)
      /\ \A x : (at # None /\ Before(g, x, at)) => Before(m, x, "audio_decode")
  <2>1. CASE at = None
    BY <1>1, <2>1, PrependedIs
  <2>2. CASE at = "tc_edge"
    BY <1>1, <2>2, InsertedIs
  <2> QED
    BY <2>1, <2>2
<1> HIDE DEF m
<1>5. Has(m, "audio_decode") /\ ~Has(m, "audio_render") /\ Chain(m)
  BY <1>3, <1>4 DEF Proper
<1>6. Proper(h)
  BY <1>1, <1>2, <1>3, <1>5, InsertKeeps
<1>7. /\ \A x : Has(h, x) <=> (Has(m, x) \/ x = "audio_render")
      /\ \A x, y : Before(m, x, y) => Before(h, x, y)
      /\ \A x : Before(m, x, "audio_decode") => Before(h, x, "audio_render")
  BY <1>1, <1>5, InsertedIs
<1>8. WithAudio(g, at) = h
  BY DEF WithAudio, m
<1> HIDE DEF h
<1> QED
  BY <1>4, <1>6, <1>7, <1>8

LEMMA SetAudioVolumeKeeps ==
  ASSUME WholeInv, Whole, NEW volume \in {0, 1}, SetAudioVolume(volume) PROVE WholeInv'
<1>1. UNCHANGED <<local, view, mmapFilename, mmapPosition, mmapPaused, mmapOpened>> /\ audioVolume' = volume
      /\ volume # audioVolume /\ ~CutOff
  BY DEF SetAudioVolume, camera, mmap, Whole
<1>2. PlaceFor(view)' = PlaceFor(view) /\ Aux' = Aux
  BY <1>1 DEF PlaceFor, Aux, Large
<1>3. CASE volume = 1
  <2>1. graph' = WithAudio(graph, "tc_edge") /\ ~Has(graph, "audio_decode") /\ ~Has(graph, "audio_render") /\ Proper(graph)
    BY <1>1, <1>3 DEF SetAudioVolume, WholeInv
  <2>2. /\ Proper(graph')
        /\ \A x : Has(graph', x) <=> (Has(graph, x) \/ x \in {"audio_decode", "audio_render"})
        /\ \A x, y : Before(graph, x, y) => Before(graph', x, y)
    BY <2>1, WithAudioIs
  <2>3. Serves(graph', mmapPosition)
    BY <2>2, OthersKeepServing DEF WholeInv
  <2>4. Before(graph', "procResize", "audio_decode") /\ Before(graph', "procResize", "audio_render")
    <3>1. Before(graph, "procResize", "tc_edge") /\ "tc_edge" # None
      BY <2>1, PlacesKnown, SessionAssumption DEF Element
    <3> QED
      BY <2>1, <3>1, WithAudioIs
  <2>5. ResizeFirst(graph) => ResizeFirst(graph')
    BY <2>2, <2>4 DEF ResizeFirst
  <2> QED
    BY <1>1, <1>2, <1>3, <2>1, <2>2, <2>3, <2>5 DEF WholeInv, Serves
<1>4. CASE volume = 0
  <2> DEFINE m == Removed(graph, "audio_decode")
  <2>1. graph' = Removed(m, "audio_render") /\ Proper(graph) /\ Chain(graph)
    BY <1>1, <1>4 DEF SetAudioVolume, WholeInv, Proper
  <2>2. {"audio_decode", "audio_render"} \subseteq Element \ (Processing \cup {"demux"})
    BY DEF Element, Processing
  <2>3. /\ Proper(m) /\ Chain(m)
        /\ \A x : Has(m, x) <=> (Has(graph, x) /\ x # "audio_decode")
        /\ \A x, y : Before(graph, x, y) /\ x # "audio_decode" /\ y # "audio_decode" => Before(m, x, y)
    BY <2>1, <2>2, RemoveKeeps, RemovedIs DEF Proper
  <2> HIDE DEF m
  <2>4. /\ Proper(graph')
        /\ \A x : Has(graph', x) <=> (Has(m, x) /\ x # "audio_render")
        /\ \A x, y : Before(m, x, y) /\ x # "audio_render" /\ y # "audio_render" => Before(graph', x, y)
    BY <2>1, <2>2, <2>3, RemoveKeeps, RemovedIs
  <2>5. Serves(graph', mmapPosition)
    BY <2>3, <2>4, OthersKeepServing DEF WholeInv
  <2>6. ResizeFirst(graph) => ResizeFirst(graph')
    BY <2>3, <2>4 DEF ResizeFirst
  <2> QED
    BY <1>1, <1>2, <1>4, <2>3, <2>4, <2>5, <2>6 DEF WholeInv, Serves
<1> QED
  BY <1>3, <1>4

\* The graph that is opened, for a camera with and without a decoder.
LEMMA OpenedIs ==
  ASSUME NEW isLocal \in BOOLEAN
  PROVE  /\ Proper(Opened(isLocal))
         /\ \A x : Has(Opened(isLocal), x) <=> (x \in Processing \cup {"demux"} \/ (x = "decoder" /\ ~isLocal))
<1> DEFINE g == Opened(isLocal)
<1>1. CASE isLocal
  <2>1. g = <<"procResize", "procPixfmt", "tc_edge", "demux">>
    BY <1>1 DEF Opened
  <2> HIDE DEF g
  <2>2. /\ g \in Seq(Element) /\ Len(g) = 4
        /\ g[1] = "procResize" /\ g[2] = "procPixfmt" /\ g[3] = "tc_edge" /\ g[4] = "demux"
    BY <2>1 DEF Element
  <2>3. 1..Len(g) = {1, 2, 3, 4}
    BY <2>2
  <2>4. Chain(g)
    BY <2>2, <2>3 DEF Chain
  <2>5. \A x : Has(g, x) <=> x \in Processing \cup {"demux"}
    BY <2>2, <2>3 DEF Has, Processing
  <2>6. Before(g, "procResize", "procPixfmt") /\ Before(g, "procPixfmt", "tc_edge")
    BY <2>2, <2>3 DEF Before
  <2>7. \A p \in Order : Has(g, p[1]) /\ Has(g, p[2]) => Before(g, p[1], p[2])
    BY <2>5, <2>6 DEF Order, Processing
  <2>8. Proper(g)
    BY <2>2, <2>4, <2>5, <2>7 DEF Proper
  <2> QED
    BY <1>1, <2>5, <2>8 DEF g
<1>2. CASE ~isLocal
  <2>1. g = <<"procResize", "procPixfmt", "tc_edge", "decoder", "demux">>
    BY <1>2 DEF Opened
  <2> HIDE DEF g
  <2>2. /\ g \in Seq(Element) /\ Len(g) = 5
        /\ g[1] = "procResize" /\ g[2] = "procPixfmt" /\ g[3] = "tc_edge" /\ g[4] = "decoder" /\ g[5] = "demux"
    BY <2>1 DEF Element
  <2>3. 1..Len(g) = {1, 2, 3, 4, 5}
    BY <2>2
  <2>4. Chain(g)
    BY <2>2, <2>3 DEF Chain
  <2>5. \A x : Has(g, x) <=> x \in Processing \cup {"demux", "decoder"}
    BY <2>2, <2>3 DEF Has, Processing
  <2>6. Before(g, "procResize", "procPixfmt") /\ Before(g, "procPixfmt", "tc_edge") /\ Before(g, "tc_edge", "decoder")
    BY <2>2, <2>3 DEF Before
  <2>7. \A p \in Order : Has(g, p[1]) /\ Has(g, p[2]) => Before(g, p[1], p[2])
    BY <2>5, <2>6 DEF Order, Processing
  <2>8. Proper(g)
    BY <2>2, <2>4, <2>5, <2>7 DEF Proper
  <2> QED
    BY <1>2, <2>5, <2>8 DEF g
<1> QED
  BY <1>1, <1>2

LEMMA RecorderIs ==
  ASSUME NEW g, Proper(g), ~Has(g, "fileRecorder"), ~Has(g, "fileRecorderSync"),
         NEW at \in {"decoder", "demux"}, Has(g, at)
  PROVE  LET h == Inserted(Inserted(g, at, "fileRecorder"), None, "fileRecorderSync")
         IN /\ Proper(h)
            /\ \A x : Has(h, x) <=> (Has(g, x) \/ x \in {"fileRecorder", "fileRecorderSync"})
<1> DEFINE m == Inserted(g, at, "fileRecorder")
           h == Inserted(m, None, "fileRecorderSync")
<1>1. /\ "fileRecorder" \in Element /\ "fileRecorderSync" \in Element /\ at \in Element /\ at # None /\ Chain(g)
      /\ Before(g, "tc_edge", at)
  BY SessionAssumption, PlacesKnown DEF Element, Proper
<1>2. \A p \in Order : (p[2] = "fileRecorder" => p[1] = "tc_edge") /\ p[1] # "fileRecorder" /\ p[2] # "fileRecorderSync"
  BY DEF Order
<1>3. Proper(m)
  BY <1>1, <1>2, InsertKeeps
<1>4. \A x : Has(m, x) <=> (Has(g, x) \/ x = "fileRecorder")
  BY <1>1, InsertedIs
<1> HIDE DEF m
<1>5. ~Has(m, "fileRecorderSync") /\ Chain(m)
  BY <1>3, <1>4 DEF Proper
<1>6. Proper(h)
  BY <1>1, <1>2, <1>3, <1>5, PrependKeeps
<1>7. \A x : Has(h, x) <=> (Has(m, x) \/ x = "fileRecorderSync")
  BY <1>1, <1>5, PrependedIs
<1> HIDE DEF h
<1>8. Proper(h) /\ \A x : Has(h, x) <=> (Has(g, x) \/ x \in {"fileRecorder", "fileRecorderSync"})
  BY <1>4, <1>6, <1>7
<1> QED
  BY <1>8 DEF h, m

LEMMA OpenStreamKeeps ==
  ASSUME OpenStream, status' = "open", mmapFilename = None PROVE WholeInv'
<1>1. mmapFilename' = None /\ local' \in BOOLEAN
  BY DEF OpenStream, mmap
<1>2. PICK records \in BOOLEAN, h264 \in BOOLEAN :
        /\ h264 => ~local'
        /\ LET recorded == IF records THEN WithRecorder(Opened(local'), h264) ELSE Opened(local')
           IN graph' = IF audioVolume' = 1 THEN WithAudio(recorded, None) ELSE recorded
  BY DEF OpenStream
<1> DEFINE g == Opened(local')
           at == RecordAt(h264)
           m == IF records THEN WithRecorder(g, h264) ELSE g
<1>3. Proper(g) /\ \A x : Has(g, x) <=> (x \in Processing \cup {"demux"} \/ (x = "decoder" /\ ~local'))
  BY <1>1, OpenedIs
<1> HIDE DEF g
<1>4. at \in {"decoder", "demux"} /\ Has(g, at)
  BY <1>1, <1>3 DEF RecordAt, Aux
<1>5. Proper(m) /\ \A x : Has(m, x) => Has(g, x) \/ x \in {"fileRecorder", "fileRecorderSync"}
  <2>1. ~Has(g, "fileRecorder") /\ ~Has(g, "fileRecorderSync")
    BY <1>3 DEF Processing
  <2>2. CASE records
    BY <1>3, <1>4, <2>1, <2>2, RecorderIs DEF WithRecorder
  <2>3. CASE ~records
    BY <1>3, <2>3
  <2> QED
    BY <2>2, <2>3
<1>6. Has(m, "decoder") <=> ~local'
  <2>1. CASE records
    <3>1. \A x : Has(m, x) <=> (Has(g, x) \/ x \in {"fileRecorder", "fileRecorderSync"})
      BY <1>3, <1>4, <2>1, RecorderIs DEF WithRecorder, Processing
    <3> QED
      BY <3>1, <1>3 DEF Processing
  <2>2. CASE ~records
    BY <1>3, <2>2 DEF Processing
  <2> QED
    BY <2>1, <2>2
<1>7. graph' = IF audioVolume' = 1 THEN WithAudio(m, None) ELSE m
  BY <1>2 DEF g
<1> HIDE DEF m
<1>8. ~Has(m, "audio_decode") /\ ~Has(m, "audio_render") /\ ~Has(m, "mmapSplitter")
  BY <1>3, <1>5 DEF Processing
<1>9. CASE audioVolume' = 1
  <2>1. Proper(graph') /\ \A x : Has(graph', x) <=> (Has(m, x) \/ x \in {"audio_decode", "audio_render"})
    BY <1>5, <1>7, <1>8, <1>9, WithAudioIs
  <2> QED
    BY <1>1, <1>6, <1>8, <1>9, <2>1 DEF WholeInv, Serves
<1>10. CASE audioVolume' # 1
  BY <1>1, <1>5, <1>6, <1>7, <1>8, <1>10 DEF WholeInv, Serves
<1> QED
  BY <1>9, <1>10

\* A graph that was cut off is not put together again.
LEMMA CutOffStays ==
  ASSUME Open, CutOff, [SessionNext]_sessionVars PROVE ~Whole'
<1>1. ~Has(graph, "procResize") /\ ~Has(graph, "tc_edge") /\ ~Has(graph, Aux) /\ ~Has(graph, "procPixfmt")
  <2>1. Len(graph) = 1 /\ graph[1] = "mmapSplitter" /\ 1..1 = {1}
    BY DEF CutOff
  <2> QED
    BY <2>1 DEF Has, Aux
<1>2. graph = <<"mmapSplitter">> /\ Head(graph) = "mmapSplitter" /\ Detached = graph
  BY DEF CutOff, Detached
<1>3. \A v : ~InGraph(Position(v))
  BY <1>1, InGraphIs DEF Position
<1>4. CASE CloseMmap \/ GetNewFrame \/ SourceEnds \/ OpenStream \/ FreeStreamData
  BY <1>2, <1>4 DEF CloseMmap, GetNewFrame, SourceEnds, OpenStream, FreeStreamData, Crash, Whole, Open, CutOff
<1>5. ASSUME NEW name \in Filenames, OpenMmap(name) PROVE ~Whole'
  BY <1>2, <1>3, <1>5 DEF OpenMmap, Crash, Unpause, PutBack, Whole, Open, CutOff
<1>6. ASSUME NEW v \in Views, SetMmapParams(v) PROVE ~Whole'
  BY <1>2, <1>6 DEF SetMmapParams, Crash, Reconfigure, Whole, Open, CutOff
<1>7. ASSUME NEW remux \in BOOLEAN, PrepareLive(remux) PROVE ~Whole'
  BY <1>7 DEF PrepareLive
<1>8. ASSUME NEW volume \in {0, 1}, SetAudioVolume(volume) PROVE ~Whole'
  BY <1>2, <1>8 DEF SetAudioVolume, Whole, Open, CutOff
<1>9. CASE UNCHANGED sessionVars
  BY <1>9 DEF sessionVars, Whole, Open, CutOff
<1> QED
  BY <1>4, <1>5, <1>6, <1>7, <1>8, <1>9 DEF SessionNext

NameInv == mmapFilename \in Filenames \cup {None} /\ (status = "new" => mmapFilename = None)

LEMMA NameStep == NameInv /\ [SessionNext]_sessionVars => NameInv'
<1> SUFFICES ASSUME NameInv, [SessionNext]_sessionVars PROVE NameInv'
  OBVIOUS
<1>1. CASE CloseMmap \/ GetNewFrame \/ SourceEnds \/ OpenStream \/ FreeStreamData
  BY <1>1 DEF NameInv, CloseMmap, GetNewFrame, SourceEnds, OpenStream, FreeStreamData, Crash, Open, mmap
<1>2. ASSUME NEW name \in Filenames, OpenMmap(name) PROVE NameInv'
  BY <1>2 DEF NameInv, OpenMmap, Crash, PutMmap, Open
<1>3. ASSUME NEW v \in Views, SetMmapParams(v) PROVE NameInv'
  BY <1>3 DEF NameInv, SetMmapParams, Crash, Reconfigure, PutMmap, Open
<1>4. ASSUME NEW remux \in BOOLEAN, PrepareLive(remux) PROVE NameInv'
  BY <1>4 DEF NameInv, PrepareLive, Open, mmap
<1>5. ASSUME NEW volume \in {0, 1}, SetAudioVolume(volume) PROVE NameInv'
  BY <1>5 DEF NameInv, SetAudioVolume, Open, mmap
<1>6. CASE UNCHANGED sessionVars
  BY <1>6 DEF NameInv, sessionVars, mmap
<1> QED
  BY <1>1, <1>2, <1>3, <1>4, <1>5, <1>6 DEF SessionNext

LEMMA GraphStep == NameInv /\ GraphInv /\ [SessionNext]_sessionVars => GraphInv'
<1> SUFFICES ASSUME NameInv, GraphInv, [SessionNext]_sessionVars, Whole' PROVE WholeInv'
  BY DEF GraphInv
<1>1. CASE OpenStream
  BY <1>1, OpenStreamKeeps DEF NameInv, OpenStream, Whole, Open
<1>2. CASE ~OpenStream
  <2>1. Open
    <3>1. ~OpenStream => status' = status \/ Open
      BY DEF SessionNext, sessionVars, GetNewFrame, SourceEnds, CloseMmap, FreeStreamData, OpenMmap, SetMmapParams,
             PrepareLive, SetAudioVolume
    <3> QED
      BY <1>2, <3>1 DEF Whole, Open
  <2>2. Whole /\ WholeInv
    BY <2>1, CutOffStays DEF Whole, GraphInv
  <2>3. CASE CloseMmap
    BY <2>2, <2>3, CloseMmapKeeps
  <2>4. CASE GetNewFrame \/ SourceEnds \/ UNCHANGED sessionVars
    <3>1. UNCHANGED <<local, graph, audioVolume, view, mmapFilename, mmapPosition, mmapPaused, mmapOpened>>
      BY <2>4 DEF GetNewFrame, SourceEnds, sessionVars, mmap, camera
    <3>2. PlaceFor(view)' = PlaceFor(view) /\ Aux' = Aux
      BY <3>1 DEF PlaceFor, Aux, Large
    <3> QED
      BY <2>2, <3>1, <3>2 DEF WholeInv, Serves
  <2>5. CASE FreeStreamData
    BY <2>5 DEF FreeStreamData, Crash, Whole, Open
  <2>6. ASSUME NEW name \in Filenames, OpenMmap(name) PROVE WholeInv'
    BY <2>2, <2>6, OpenMmapKeeps
  <2>7. ASSUME NEW v \in Views, SetMmapParams(v) PROVE WholeInv'
    BY <2>2, <2>7, SetMmapParamsKeeps DEF NameInv
  <2>8. ASSUME NEW remux \in BOOLEAN, PrepareLive(remux) PROVE WholeInv'
    BY <2>2, <2>8, PrepareLiveKeeps
  <2>9. ASSUME NEW volume \in {0, 1}, SetAudioVolume(volume) PROVE WholeInv'
    BY <2>2, <2>9, SetAudioVolumeKeeps
  <2> QED
    BY <1>2, <2>3, <2>4, <2>5, <2>6, <2>7, <2>8, <2>9 DEF SessionNext
<1> QED
  BY <1>1, <1>2

LEMMA OrderIsUpstream ==
  ASSUME Proper(graph), NEW x, NEW y, <<x, y>> \in Order PROVE Upstream(y, x)
<1>1. \A p \in Order : Has(graph, p[1]) /\ Has(graph, p[2]) => Before(graph, p[1], p[2])
  BY DEF Proper
<1>2. Has(graph, x) /\ Has(graph, y) => Before(graph, x, y)
  BY <1>1
<1>3. ASSUME Has(graph, x), Has(graph, y) PROVE Place(graph, y) > Place(graph, x)
  <2>1. PICK i \in 1..Len(graph), j \in 1..Len(graph) : i < j /\ graph[i] = x /\ graph[j] = y
    BY <1>2, <1>3 DEF Before
  <2>2. Place(graph, x) = i /\ Place(graph, y) = j
    BY <2>1, PlaceIs DEF Proper
  <2> QED
    BY <2>1, <2>2
<1> QED
  BY <1>3, InGraphIs DEF Upstream

LEMMA GraphInvServes == GraphInv => GraphServesViewer
<1> SUFFICES ASSUME WholeInv, Whole PROVE ElementsInOrder /\ MmapFitsView /\ ViewerIsServed
  BY DEF GraphInv, GraphServesViewer, ElementsInOrder, MmapFitsView, ViewerIsServed
<1>1. Proper(graph) /\ Chain(graph)
  BY DEF WholeInv, Proper
<1>2. ElementsInOrder
  <2>1. IsInjective(graph) /\ Last(graph) = "demux"
    BY <1>1, ChainIsInjective DEF Proper, Last
  <2>2. /\ Upstream("decoder", "tc_edge")
        /\ Upstream("tc_edge", "procPixfmt") /\ Upstream("procPixfmt", "procResize")
        /\ Upstream("fileRecorder", "tc_edge") /\ Upstream("tc_edge", "fileRecorderSync")
        /\ Upstream("hls", "tc_edge")
        /\ Upstream("audio_decode", "audio_render")
    BY <1>1, OrderIsUpstream DEF Order
  <2>3. \A x : x \in Range(graph) <=> Has(graph, x)
    <3>1. DOMAIN graph = 1..Len(graph)
      BY <1>1 DEF Chain
    <3> QED
      BY <3>1 DEF Range, Has
  <2>4. (audioVolume = 1) <=> ({"audio_decode", "audio_render"} \subseteq Range(graph))
    BY <2>3 DEF WholeInv
  <2> QED
    BY <2>1, <2>2, <2>4 DEF ElementsInOrder
<1>3. MmapFitsView
  <2> SUFFICES ASSUME Has(graph, "mmapSplitter")
               PROVE  /\ Large(view) <=> (Place(graph, "mmapSplitter") > Place(graph, "procResize"))
                      /\ Large(view) /\ view.fps > Fps => Place(graph, "mmapSplitter") > Place(graph, "tc_edge")
    BY InGraphIs DEF MmapFitsView
  <2>1. mmapPosition = PlaceFor(view) /\ Serves(graph, mmapPosition)
    BY DEF WholeInv
  <2>2. Aux # "procResize"
    BY DEF Aux
  <2>3. ASSUME NEW x, NEW y, Before(graph, x, y)
        PROVE  Place(graph, y) > Place(graph, x) /\ ~(Place(graph, x) > Place(graph, y))
    <3>1. PICK i \in 1..Len(graph), j \in 1..Len(graph) : i < j /\ graph[i] = x /\ graph[j] = y
      BY <2>3 DEF Before
    <3>2. Place(graph, x) = i /\ Place(graph, y) = j
      BY <1>1, <3>1, PlaceIs
    <3> QED
      BY <3>1, <3>2
  <2>4. CASE ~Large(view)
    <3>1. Before(graph, "mmapSplitter", "procResize")
      BY <2>1, <2>4 DEF PlaceFor, Serves
    <3> QED
      BY <2>3, <2>4, <3>1
  <2>5. CASE Large(view)
    <3>1. Before(graph, "procResize", "mmapSplitter") /\ (view.fps > Fps => Before(graph, "tc_edge", "mmapSplitter"))
      BY <2>1, <2>2, <2>5 DEF PlaceFor, Serves
    <3> QED
      BY <2>3, <2>5, <3>1
  <2> QED
    BY <2>4, <2>5
<1>4. ViewerIsServed
  BY <1>1, InGraphIs, ResizeIsHead DEF WholeInv, ViewerIsServed
<1> QED
  BY <1>2, <1>3, <1>4

LEMMA InitGraph == SessionInit => NameInv /\ GraphInv
BY DEF SessionInit, NameInv, GraphInv, Whole, Open

\* The viewer's steps are the session's: what is seen of it changes nothing of it.
LEMMA ViewerStep == [ViewerNext]_viewerVars => [SessionNext]_sessionVars
<1> SUFFICES ASSUME [ViewerNext]_viewerVars PROVE [SessionNext]_sessionVars
  OBVIOUS
<1>1. CASE Others \/ FrameArrives \/ ReaderGetsFrame \/ FreeFrame \/ JpegEnds \/ StreamIsFreed
  BY <1>1 DEF Others, FrameArrives, ReaderGetsFrame, FreeFrame, JpegEnds, StreamIsFreed, SessionNext
<1>2. ASSUME NEW name \in Filenames, ViewerOpensMmap(name) PROVE SessionNext
  BY <1>2 DEF ViewerOpensMmap, SessionNext
<1>3. ASSUME NEW v \in Views, ViewerSetsParams(v) PROVE SessionNext
  BY <1>3 DEF ViewerSetsParams, SessionNext
<1>4. ASSUME NEW size \in Requests, JpegBegins(size) PROVE UNCHANGED sessionVars
  BY <1>4 DEF JpegBegins
<1>5. CASE UNCHANGED viewerVars
  BY <1>5 DEF viewerVars
<1> QED
  BY <1>1, <1>2, <1>3, <1>4, <1>5 DEF ViewerNext

(***************************************************************************)
(* The memory map, the JPEGs and the frames as other threads and processes *)
(* see them belong to one session: Viewer implements Session.              *)
(***************************************************************************)
THEOREM ViewerIsASession == ViewerSpec => SessionSpec
<1>1. ViewerInit => SessionInit
  BY DEF ViewerInit
<1> QED
  BY <1>1, ViewerStep, PTL DEF ViewerSpec, SessionSpec

(***************************************************************************)
(* While the graph of a stream is whole its elements lie in the order of   *)
(* the diagram in open_input, none twice, and the map that is to be served *)
(* is in it at the place for the present view: for any views and names of  *)
(* maps, and any sequence of calls.                                        *)
(***************************************************************************)
THEOREM SessionGraphServesViewer == SessionSpec => []GraphServesViewer
<1>1. SessionSpec => [](NameInv /\ GraphInv)
  BY InitGraph, NameStep, GraphStep, PTL DEF SessionSpec
<1> QED
  BY <1>1, GraphInvServes, PTL

THEOREM GraphServesViewerHolds == ViewerSpec => []GraphServesViewer
BY ViewerIsASession, SessionGraphServesViewer, PTL

-----------------------------------------------------------------------------
(***************************************************************************)
(* Sizes of pictures.                                                      *)
(***************************************************************************)
\* The code scales pictures of any shape; one that is more than four times as wide as it is high,
\* or as high as it is wide, may be left with no pixels at all.
CameraIsProportionate == Camera.w <= 4 * Camera.h /\ Camera.h <= 4 * Camera.w

LEMMA DivisionIs ==
  ASSUME NEW x \in Nat, NEW d \in Nat \ {0}
  PROVE  x \div d \in Nat /\ d * (x \div d) <= x /\ x < d * (x \div d) + d
OBVIOUS

LEMMA DivisionBounds ==
  ASSUME NEW x \in Nat, NEW d \in Nat \ {0}, NEW lo \in Nat, NEW hi \in Nat, d * lo <= x, x < d * hi + d
  PROVE  x \div d \in lo..hi
<1> DEFINE q == x \div d
<1>1. q \in Nat /\ d * q <= x /\ x < d * q + d
  BY DivisionIs
<1> HIDE DEF q
<1>2. q >= lo
  <2> SUFFICES ASSUME q + 1 <= lo PROVE FALSE
    BY <1>1
  <2>1. d * (q + 1) <= d * lo
    BY <1>1
  <2>2. d * (q + 1) = d * q + d
    BY <1>1
  <2> QED
    BY <1>1, <2>1, <2>2
<1>3. q <= hi
  <2> SUFFICES ASSUME hi + 1 <= q PROVE FALSE
    BY <1>1
  <2>1. d * (hi + 1) <= d * q
    BY <1>1
  <2>2. d * (hi + 1) = d * hi + d
    OBVIOUS
  <2> QED
    BY <1>1, <2>1, <2>2
<1> QED
  BY <1>1, <1>2, <1>3 DEF q

LEMMA AlignedIs ==
  ASSUME NEW n \in Nat PROVE Aligned(n) \in Nat /\ Aligned(n) <= n /\ n <= Aligned(n) + 3 /\ (n >= 4 => Aligned(n) >= 4)
BY DEF Aligned

\* A picture in a frame of a size: neither of its sides is longer, and each is at least lo, if the
\* frame is that large and the other picture's shape allows it.
Suits(W, H, sw, sh, lw, lh) ==
  /\ W \in Nat \ {0} /\ H \in Nat \ {0} /\ sw \in Nat /\ sh \in Nat
  /\ lw \in 4..sw /\ lh \in 4..sh
  /\ 2 * (H * lw) <= 2 * (W * sh) + H /\ 2 * (W * lh) <= 2 * (H * sw) + W

LEMMA AspectRatioFits ==
  ASSUME NEW W, NEW H, NEW sw, NEW sh, NEW lw, NEW lh, Suits(W, H, sw, sh, lw, lh)
  PROVE  LET s == PreserveAspectRatio([w |-> W, h |-> H], [w |-> sw, h |-> sh])
         IN /\ s.w \in 4..sw /\ s.h \in 4..sh
            /\ s.w >= lw - 3 /\ s.h >= lh - 3
<1> DEFINE a == W * sh
           b == H * sw
           nw == IF a < b THEN Nearest(a, H) ELSE sw
           nh == IF a > b THEN Nearest(b, W) ELSE sh
           in == [w |-> W, h |-> H]
           size == PreserveAspectRatio(in, [w |-> sw, h |-> sh])
<1>0. /\ W \in Nat \ {0} /\ H \in Nat \ {0} /\ sw \in Nat /\ sh \in Nat
      /\ lw \in Nat /\ lh \in Nat /\ lw >= 4 /\ lh >= 4 /\ lw <= sw /\ lh <= sh
      /\ 2 * (H * lw) <= 2 * (W * sh) + H /\ 2 * (W * lh) <= 2 * (H * sw) + W
  BY DEF Suits
<1> USE <1>0
<1>1. size.w = Aligned(nw) /\ size.h = Aligned(nh)
  BY DEF PreserveAspectRatio
<1>2. a \in Nat /\ b \in Nat
  OBVIOUS
<1>3. nw \in lw..sw
  <2>1. CASE a < b
    <3> DEFINE x == 2 * a + H
               d == 2 * H
    <3>1. x \in Nat /\ d \in Nat \ {0}
      BY <1>2
    <3>2. d * lw <= x
      <4>1. d * lw = 2 * (H * lw)
        OBVIOUS
      <4> QED
        BY <4>1
    <3>3. x < d * sw + d
      <4>1. d * sw = 2 * b
        OBVIOUS
      <4> HIDE DEF a, b
      <4> QED
        BY <1>2, <2>1, <4>1
    <3>4. x \div d \in lw..sw
      <4> HIDE DEF x, d
      <4> QED
        BY <3>1, <3>2, <3>3, DivisionBounds
    <3> QED
      BY <2>1, <3>4 DEF Nearest
  <2>2. CASE ~(a < b)
    BY <2>2
  <2> QED
    BY <2>1, <2>2
<1>4. nh \in lh..sh
  <2>1. CASE a > b
    <3> DEFINE x == 2 * b + W
               d == 2 * W
    <3>1. x \in Nat /\ d \in Nat \ {0}
      BY <1>2
    <3>2. d * lh <= x
      <4>1. d * lh = 2 * (W * lh)
        OBVIOUS
      <4> QED
        BY <4>1
    <3>3. x < d * sh + d
      <4>1. d * sh = 2 * a
        OBVIOUS
      <4> HIDE DEF a, b
      <4> QED
        BY <1>2, <2>1, <4>1
    <3>4. x \div d \in lh..sh
      <4> HIDE DEF x, d
      <4> QED
        BY <3>1, <3>2, <3>3, DivisionBounds
    <3> QED
      BY <2>1, <3>4 DEF Nearest
  <2>2. CASE ~(a > b)
    BY <2>2
  <2> QED
    BY <2>1, <2>2
<1> HIDE DEF nw, nh, size
<1>5. nw \in Nat /\ nh \in Nat
  BY <1>3, <1>4
<1>6. size.w \in 4..sw /\ size.h \in 4..sh /\ size.w >= lw - 3 /\ size.h >= lh - 3
  BY <1>1, <1>3, <1>4, <1>5, AlignedIs
<1> QED
  BY <1>6 DEF size

LEMMA ProcImageIs ==
  ASSUME CameraIsProportionate
  PROVE  ProcImage.w \in 57..426 /\ ProcImage.h \in 103..240
<1> DEFINE W == Camera.w
           H == Camera.h
           s == [w |-> 426, h |-> 240]
           size == PreserveAspectRatio([w |-> W, h |-> H], s)
<1>1. W \in Nat \ {0} /\ H \in Nat \ {0} /\ W <= 4 * H /\ H <= 4 * W
  BY ViewerAssumption DEF Image, CameraIsProportionate
<1>2. (16 * 240) \div 9 = 426
  OBVIOUS
<1>3. PreserveAspectRatio(Camera, s) = size
  BY DEF PreserveAspectRatio
<1>4. ProcImage = Rgb(size)
  BY <1>2, <1>3 DEF ProcImage, Fitted, ProcHeight
<1>5. size.w \in 4..426 /\ size.h \in 4..240 /\ size.w >= 60 - 3 /\ size.h >= 106 - 3
  <2>1. 2 * (H * 60) <= 2 * (W * 240) + H /\ 2 * (W * 106) <= 2 * (H * 426) + W
    BY <1>1
  <2> HIDE DEF W, H
  <2>2. Suits(W, H, 426, 240, 60, 106)
    BY <1>1, <2>1 DEF Suits
  <2>3. LET p == PreserveAspectRatio([w |-> W, h |-> H], [w |-> 426, h |-> 240])
        IN p.w \in 4..426 /\ p.h \in 4..240 /\ p.w >= 60 - 3 /\ p.h >= 106 - 3
    BY <2>2, AspectRatioFits
  <2> QED
    BY <2>3
<1> HIDE DEF size
<1> QED
  BY <1>4, <1>5 DEF Rgb

LEMMA ClampedIs ==
  ASSUME NEW n \in Int, NEW limit \in Nat, limit >= 16 PROVE Clamped(n, limit) \in 16..limit
<1> DEFINE m == IF n < 16 THEN 16 ELSE n
<1>1. m \in Int /\ m >= 16
  OBVIOUS
<1>2. Min({m, limit}) \in {m, limit} /\ \A y \in {m, limit} : Min({m, limit}) <= y
  <2>1. \E x \in {m, limit} : \A y \in {m, limit} : x <= y
    BY <1>1
  <2> HIDE DEF m
  <2> QED
    BY <2>1 DEF Min
<1> HIDE DEF m
<1>3. Min({m, limit}) \in 16..limit
  BY <1>1, <1>2
<1> QED
  BY <1>3 DEF Clamped, m

LEMMA JpegHasPixels ==
  ASSUME CameraIsProportionate, NEW size \in Requests
  PROVE  JpegSize(size).w \in 4..ProcImage.w /\ JpegSize(size).h \in 4..ProcImage.h
<1> DEFINE W == ProcImage.w
           H == ProcImage.h
           sw == Clamped(size.w, W)
           sh == Clamped(size.h, H)
<1>1. W \in 57..426 /\ H \in 103..240
  BY ProcImageIs
<1>2. size.w \in Int /\ size.h \in Int
  BY ViewerAssumption
<1>3. sw \in 16..W /\ sh \in 16..H
  <2>1. W \in Nat /\ H \in Nat /\ W >= 16 /\ H >= 16
    BY <1>1
  <2> HIDE DEF W, H
  <2> QED
    BY <1>2, <2>1, ClampedIs
<1>4. PreserveAspectRatio(ProcImage, [w |-> sw, h |-> sh]) = PreserveAspectRatio([w |-> W, h |-> H], [w |-> sw, h |-> sh])
  BY DEF PreserveAspectRatio
<1>5. JpegSize(size) = PreserveAspectRatio([w |-> W, h |-> H], [w |-> sw, h |-> sh])
  BY <1>4 DEF JpegSize
<1> HIDE DEF W, H, sw, sh
<1>6. 2 * (H * 4) <= 2 * (W * sh) + H /\ 2 * (W * 4) <= 2 * (H * sw) + W
  <2>1. W * sh >= W * 16 /\ H * sw >= H * 16
    BY <1>1, <1>3
  <2>2. W * sh \in Nat /\ H * sw \in Nat
    BY <1>1, <1>3
  <2> QED
    BY <1>1, <2>1, <2>2
<1>7. Suits(W, H, sw, sh, 4, 4)
  BY <1>1, <1>3, <1>6 DEF Suits
<1>8. /\ PreserveAspectRatio([w |-> W, h |-> H], [w |-> sw, h |-> sh]).w \in 4..sw
      /\ PreserveAspectRatio([w |-> W, h |-> H], [w |-> sw, h |-> sh]).h \in 4..sh
  BY <1>7, AspectRatioFits
<1>9. JpegSize(size).w \in 4..W /\ JpegSize(size).h \in 4..H
  BY <1>1, <1>3, <1>5, <1>8
<1> QED
  BY <1>9 DEF W, H

(***************************************************************************)
(* References.  The reader only gets a frame when the application has      *)
(* freed the last, so that of three frames one is unused.                  *)
(***************************************************************************)
One(b) == IF b THEN 1 ELSE 0
Users(x) == (One(lastFrameRead = x) + One(frameData = x)) + One(jpeg.frame = x)

FrameInv ==
  /\ refs \in [FrameIds -> Nat]
  /\ lastFrameRead \in FrameIds \cup {NoFrame} /\ frameData \in FrameIds \cup {NoFrame}
  /\ jpeg.frame \in FrameIds \cup {NoFrame} /\ (jpeg # NoJpeg <=> jpeg.frame # NoFrame)
  /\ \A x \in FrameIds : refs[x] = Users(x)

JpegInv ==
  jpeg # NoJpeg => jpeg.size.w \in 4..ProcImage.w /\ jpeg.size.h \in 4..ProcImage.h

LEMMA QuantifyIs ==
  ASSUME NEW a \in BOOLEAN, NEW b \in BOOLEAN, NEW c \in BOOLEAN
  PROVE  Cardinality({who \in {"last", "data", "jpeg"} :
                      CASE who = "last" -> a [] who = "data" -> b [] who = "jpeg" -> c}) = (One(a) + One(b)) + One(c)
<1> DEFINE S == {who \in {"last", "data", "jpeg"} : CASE who = "last" -> a [] who = "data" -> b [] who = "jpeg" -> c}
           A == IF a THEN {"last"} ELSE {}
           B == IF b THEN A \cup {"data"} ELSE A
           C == IF c THEN B \cup {"jpeg"} ELSE B
<1>1. S = C
  OBVIOUS
<1>2. IsFiniteSet(A) /\ Cardinality(A) = One(a) /\ "data" \notin A
  BY FS_EmptySet, FS_Singleton DEF One
<1>3. IsFiniteSet(B) /\ Cardinality(B) = One(a) + One(b) /\ "jpeg" \notin B
  <2>1. "jpeg" \notin B
    OBVIOUS
  <2> HIDE DEF A
  <2>2. Cardinality(A) \in Nat /\ One(a) \in Nat
    BY <1>2 DEF One
  <2>3. CASE b
    BY <1>2, <2>1, <2>2, <2>3, FS_AddElement DEF One
  <2>4. CASE ~b
    BY <1>2, <2>1, <2>2, <2>4 DEF One
  <2> QED
    BY <2>3, <2>4
<1> HIDE DEF B
<1>4. Cardinality(C) = (One(a) + One(b)) + One(c)
  <2>1. One(a) + One(b) \in Nat
    BY DEF One
  <2>2. CASE c
    BY <1>3, <2>1, <2>2, FS_AddElement DEF One
  <2>3. CASE ~c
    BY <1>3, <2>1, <2>3 DEF One
  <2> QED
    BY <2>2, <2>3
<1> QED
  BY <1>1, <1>4

LEMMA UnusedIs ==
  ASSUME FrameInv, frameData = NoFrame PROVE Unused \in FrameIds /\ refs[Unused] = 0
<1> DEFINE S == {x \in FrameIds : refs[x] = 0}
<1>1. FrameIds = {1, 2, 3}
  BY DEF FrameIds
<1>2. \E x \in S : TRUE
  <2>1. \A x \in FrameIds : lastFrameRead # x /\ jpeg.frame # x => x \in S
    BY <1>1 DEF FrameInv, Users, One, NoFrame
  <2> QED
    BY <1>1, <2>1
<1>3. \E x \in S : \A y \in S : x <= y
  <2>1. CASE 1 \in S
    BY <1>1, <2>1
  <2>2. CASE 1 \notin S /\ 2 \in S
    BY <1>1, <2>2
  <2>3. CASE 1 \notin S /\ 2 \notin S
    BY <1>1, <1>2, <2>3
  <2> QED
    BY <2>1, <2>2, <2>3
<1>4. Min(S) \in S
  BY <1>3 DEF Min
<1> QED
  BY <1>4 DEF Unused

LEMMA WithIs ==
  ASSUME NEW x \in FrameIds \cup {NoFrame}, NEW n \in Int, NEW counts \in [FrameIds -> Int]
  PROVE  /\ With(x, n, counts) \in [FrameIds -> Int]
         /\ \A y \in FrameIds : With(x, n, counts)[y] = counts[y] + (IF y = x THEN n ELSE 0)
<1>1. NoFrame \notin FrameIds
  BY DEF NoFrame, FrameIds
<1> QED
  BY <1>1 DEF With

LEMMA UsersAreCounted == \A x : Users(x) \in Nat
BY DEF Users, One

LEMMA FrameStep == FrameInv /\ [ViewerNext]_viewerVars => FrameInv'
<1> SUFFICES ASSUME FrameInv, [ViewerNext]_viewerVars PROVE FrameInv'
  OBVIOUS
<1>1. /\ refs \in [FrameIds -> Int] /\ NoFrame \notin FrameIds /\ NoJpeg.frame = NoFrame
      /\ \A x \in FrameIds : refs[x] = Users(x)
  BY DEF FrameInv, NoFrame, FrameIds, NoJpeg
<1> DEFINE Counted == /\ refs' \in [FrameIds -> Int]
                      /\ \A x \in FrameIds : refs'[x] = Users(x)'
                      /\ lastFrameRead' \in FrameIds \cup {NoFrame} /\ frameData' \in FrameIds \cup {NoFrame}
                      /\ jpeg'.frame \in FrameIds \cup {NoFrame} /\ (jpeg' # NoJpeg <=> jpeg'.frame # NoFrame)
<1>2. ASSUME Counted PROVE FrameInv'
  <2>1. \A x \in FrameIds : refs'[x] \in Nat
    <3>1. \A x \in FrameIds : Users(x)' \in Nat
      BY UsersAreCounted DEF Users, One
    <3> QED
      BY <1>2, <3>1
  <2>2. refs' \in [FrameIds -> Nat]
    BY <1>2, <2>1
  <2> QED
    BY <1>2, <2>2 DEF FrameInv
<1>3. CASE ReaderGetsFrame
  <2>1. CASE isRunning'
    <3> DEFINE u == Unused
               one == With(lastFrameRead, -1, refs)
    <3>1. /\ frameData = NoFrame /\ lastFrameRead' = u /\ frameData' = u /\ jpeg' = jpeg
          /\ refs' = With(u, 2, one)
      BY <1>3, <2>1 DEF ReaderGetsFrame
    <3>2. u \in FrameIds /\ refs[u] = 0
      BY <3>1, UnusedIs
    <3>3. one \in [FrameIds -> Int] /\ \A y \in FrameIds : one[y] = refs[y] + (IF y = lastFrameRead THEN -1 ELSE 0)
      BY <1>1, WithIs DEF FrameInv
    <3> HIDE DEF u, one
    <3>4. refs' \in [FrameIds -> Int] /\ \A y \in FrameIds : refs'[y] = one[y] + (IF y = u THEN 2 ELSE 0)
      BY <3>1, <3>2, <3>3, WithIs
    <3>5. u # lastFrameRead /\ jpeg.frame # u
      BY <1>1, <3>2 DEF Users, One
    <3>6. ASSUME NEW x \in FrameIds PROVE refs'[x] = Users(x)'
      <4>1. refs'[x] = (refs[x] + (IF x = lastFrameRead THEN -1 ELSE 0)) + (IF x = u THEN 2 ELSE 0)
        BY <3>3, <3>4
      <4>2. refs[x] = (One(lastFrameRead = x) + One(frameData = x)) + One(jpeg.frame = x) /\ frameData # x
        BY <1>1, <3>1 DEF Users
      <4>3. Users(x)' = (One(u = x) + One(u = x)) + One(jpeg.frame = x)
        BY <3>1 DEF Users
      <4> QED
        BY <3>5, <4>1, <4>2, <4>3 DEF One
    <3> QED
      BY <1>2, <3>1, <3>2, <3>4, <3>6 DEF FrameInv
  <2>2. CASE ~isRunning'
    BY <1>1, <1>2, <1>3, <2>2 DEF ReaderGetsFrame, Users, FrameInv
  <2> QED
    BY <2>1, <2>2
<1>4. CASE FreeFrame
  <2>1. frameData' = NoFrame /\ refs' = With(frameData, -1, refs) /\ frameData # NoFrame /\ UNCHANGED <<lastFrameRead, jpeg>>
    BY <1>4 DEF FreeFrame
  <2>2. refs' \in [FrameIds -> Int] /\ \A y \in FrameIds : refs'[y] = refs[y] + (IF y = frameData THEN -1 ELSE 0)
    BY <1>1, <2>1, WithIs DEF FrameInv
  <2>3. \A x \in FrameIds : refs'[x] = Users(x)'
    BY <1>1, <2>1, <2>2 DEF Users, One
  <2> QED
    BY <1>2, <2>1, <2>2, <2>3 DEF FrameInv
<1>5. ASSUME NEW size \in Requests, JpegBegins(size) PROVE FrameInv'
  <2>1. /\ jpeg = NoJpeg /\ lastFrameRead # NoFrame /\ jpeg'.frame = lastFrameRead
        /\ refs' = With(lastFrameRead, 1, refs) /\ UNCHANGED <<lastFrameRead, frameData>>
    BY <1>5 DEF JpegBegins
  <2>2. refs' \in [FrameIds -> Int] /\ \A y \in FrameIds : refs'[y] = refs[y] + (IF y = lastFrameRead THEN 1 ELSE 0)
    <3>1. 1 \in Int /\ lastFrameRead \in FrameIds \cup {NoFrame} /\ refs \in [FrameIds -> Int]
      BY <1>1 DEF FrameInv
    <3> QED
      BY <2>1, <3>1, WithIs
  <2>3. \A x \in FrameIds : refs'[x] = Users(x)'
    BY <1>1, <2>1, <2>2 DEF Users, One
  <2> QED
    BY <1>1, <1>2, <2>1, <2>2, <2>3 DEF FrameInv
<1>6. CASE JpegEnds
  <2>1. /\ jpeg # NoJpeg /\ jpeg' = NoJpeg /\ refs' = With(jpeg.frame, -1, refs) /\ UNCHANGED <<lastFrameRead, frameData>>
    BY <1>6 DEF JpegEnds
  <2>2. refs' \in [FrameIds -> Int] /\ \A y \in FrameIds : refs'[y] = refs[y] + (IF y = jpeg.frame THEN -1 ELSE 0)
    BY <1>1, <2>1, WithIs DEF FrameInv
  <2>3. \A x \in FrameIds : refs'[x] = Users(x)'
    BY <1>1, <2>1, <2>2 DEF Users, One
  <2> QED
    BY <1>1, <1>2, <2>1, <2>2, <2>3 DEF FrameInv
<1>7. CASE StreamIsFreed
  <2>1. jpeg = NoJpeg /\ UNCHANGED <<frameData, jpeg>>
    BY <1>7 DEF StreamIsFreed
  <2>2. CASE status' = "closed"
    <3>1. lastFrameRead' = NoFrame /\ refs' = With(lastFrameRead, -1, refs)
      BY <1>7, <2>2 DEF StreamIsFreed
    <3>2. refs' \in [FrameIds -> Int] /\ \A y \in FrameIds : refs'[y] = refs[y] + (IF y = lastFrameRead THEN -1 ELSE 0)
      BY <1>1, <3>1, WithIs DEF FrameInv
    <3>3. \A x \in FrameIds : refs'[x] = Users(x)'
      BY <1>1, <2>1, <3>1, <3>2 DEF Users, One
    <3> QED
      BY <1>1, <1>2, <2>1, <3>1, <3>2, <3>3 DEF FrameInv
  <2>3. CASE status' # "closed"
    <3>1. UNCHANGED <<lastFrameRead, refs>>
      BY <1>7, <2>3 DEF StreamIsFreed
    <3> QED
      BY <2>1, <3>1 DEF FrameInv, Users
  <2> QED
    BY <2>2, <2>3
<1>8. CASE UNCHANGED frames
  BY <1>8 DEF frames, FrameInv, Users
<1>9. ASSUME NEW name \in Filenames, ViewerOpensMmap(name) PROVE UNCHANGED frames
  BY <1>9 DEF ViewerOpensMmap
<1>10. ASSUME NEW v \in Views, ViewerSetsParams(v) PROVE UNCHANGED frames
  BY <1>10 DEF ViewerSetsParams
<1>11. Others \/ FrameArrives \/ UNCHANGED viewerVars => UNCHANGED frames
  BY DEF Others, FrameArrives, viewerVars
<1> QED
  BY <1>3, <1>4, <1>5, <1>6, <1>7, <1>8, <1>9, <1>10, <1>11 DEF ViewerNext

LEMMA JpegStep == CameraIsProportionate /\ JpegInv /\ [ViewerNext]_viewerVars => JpegInv'
<1> SUFFICES ASSUME CameraIsProportionate, JpegInv, [ViewerNext]_viewerVars PROVE JpegInv'
  OBVIOUS
<1>1. ASSUME NEW size \in Requests, JpegBegins(size) PROVE JpegInv'
  <2>1. jpeg'.size = JpegSize(size)
    BY <1>1 DEF JpegBegins
  <2> QED
    BY <2>1, JpegHasPixels DEF JpegInv
<1>2. CASE jpeg' \in {jpeg, NoJpeg}
  BY <1>2 DEF JpegInv
<1>3. CASE Others \/ FrameArrives \/ ReaderGetsFrame \/ FreeFrame \/ JpegEnds \/ StreamIsFreed \/ UNCHANGED viewerVars
  BY <1>2, <1>3 DEF Others, FrameArrives, ReaderGetsFrame, FreeFrame, JpegEnds, StreamIsFreed, viewerVars, frames
<1>4. ASSUME NEW name \in Filenames, ViewerOpensMmap(name) PROVE JpegInv'
  BY <1>2, <1>4 DEF ViewerOpensMmap, frames
<1>5. ASSUME NEW v \in Views, ViewerSetsParams(v) PROVE JpegInv'
  BY <1>2, <1>5 DEF ViewerSetsParams, frames
<1> QED
  BY <1>1, <1>3, <1>4, <1>5 DEF ViewerNext

LEMMA InitFrames == ViewerInit => FrameInv /\ JpegInv
<1> SUFFICES ASSUME ViewerInit PROVE FrameInv /\ JpegInv
  OBVIOUS
<1>1. NoJpeg.frame = NoFrame /\ NoFrame \notin FrameIds
  BY DEF NoJpeg, NoFrame, FrameIds
<1> QED
  BY <1>1 DEF ViewerInit, FrameInv, JpegInv, Users, One

\* A frame has the references of those who use it, for any camera and requests.
THEOREM FramesAreCounted == ViewerSpec => []FrameInv
BY InitFrames, FrameStep, PTL DEF ViewerSpec

(***************************************************************************)
(* The frame a JPEG is made of is kept while the reader replaces and frees *)
(* it, and the JPEG has pixels, for every size that is asked for of any    *)
(* camera whose pictures are not more than four times as long as they are  *)
(* wide.                                                                   *)
(***************************************************************************)
THEOREM JpegKeepsItsFrameHolds ==
  ASSUME CameraIsProportionate PROVE ViewerSpec => []JpegKeepsItsFrame
<1>1. FrameInv /\ JpegInv => JpegKeepsItsFrame
  <2> SUFFICES ASSUME FrameInv, JpegInv PROVE JpegKeepsItsFrame
    OBVIOUS
  <2>1. ASSUME NEW x \in FrameIds
        PROVE  refs[x] = Quantify({"last", "data", "jpeg"}, LAMBDA who :
                   CASE who = "last" -> lastFrameRead = x
                     [] who = "data" -> frameData = x
                     [] who = "jpeg" -> jpeg.frame = x)
    <3>1. refs[x] = (One(lastFrameRead = x) + One(frameData = x)) + One(jpeg.frame = x)
      BY DEF FrameInv, Users
    <3>2. Cardinality({who \in {"last", "data", "jpeg"} :
                         CASE who = "last" -> lastFrameRead = x
                           [] who = "data" -> frameData = x
                           [] who = "jpeg" -> jpeg.frame = x})
            = (One(lastFrameRead = x) + One(frameData = x)) + One(jpeg.frame = x)
      BY QuantifyIs
    <3> QED
      BY <3>1, <3>2 DEF Quantify
  <2> QED
    BY <2>1 DEF JpegInv, JpegKeepsItsFrame
<1>2. JpegInv /\ [ViewerNext]_viewerVars => JpegInv'
  BY JpegStep
<1> QED
  BY <1>1, <1>2, InitFrames, FramesAreCounted, PTL DEF ViewerSpec

-----------------------------------------------------------------------------
(***************************************************************************)
(* What is heard: the device gets the frames of the stream in order, for   *)
(* any prebuffer and any number of frames, seeks and failures.             *)
(***************************************************************************)
USE RendererAssumption

Loops == {"loop", "take", "wait"}
TypeInv ==
  /\ apc \in {"closed", "open", "stopping", "signalling", "joining", "destroyed", "crashed"}
  /\ tpc \in Loops \cup {"none", "decide", "abort", "start", "write", "leave", "exited", "crashed"}
  /\ bufferQueue \in Seq(Nat)
  /\ f \in Nat \cup {NoBuffer}
  /\ buffersPlayed \in Nat /\ framesRead \in Nat /\ failures \in Nat
  /\ lastWritten \in Nat /\ flushedTo \in Nat
  /\ passthrough \in BOOLEAN /\ initializationPending \in BOOLEAN /\ muted \in BOOLEAN
  /\ playing \in BOOLEAN /\ needsStart \in BOOLEAN /\ needsStop \in BOOLEAN

\* The thread knows whether the device is started, and buffersPlayed, which the application
\* sets to zero at any time, decides only what is still true afterwards: a device that is
\* not playing has played nothing, wherever the thread looks.
DeviceInv ==
  /\ playing => device = "started"
  /\ apc = "closed" \/ initializationPending => tpc = "none"
  /\ tpc = "none" => ~playing /\ f = NoBuffer /\ buffersPlayed = 0
  /\ tpc \in Loops => f = NoBuffer /\ (playing \/ buffersPlayed = 0)
  /\ tpc \in {"abort", "leave", "exited", "crashed"} => f = NoBuffer
  /\ tpc = "abort" => buffersPlayed = 0
  /\ tpc = "exited" => ~playing
  /\ tpc = "decide" /\ f = NoBuffer => ~needsStart /\ (playing \/ buffersPlayed = 0) /\ (needsStop => buffersPlayed = 0)
  /\ tpc = "decide" /\ f # NoBuffer => needsStart \/ playing
  /\ tpc = "start" => f # NoBuffer
  /\ tpc = "write" /\ f # NoBuffer => playing
  /\ apc = "destroyed" => tpc \in {"none", "exited"} /\ f = NoBuffer /\ bufferQueue = << >> /\ ~playing

Taken == framesRead - Len(bufferQueue)

\* What waits are the last frames read; the frame in the thread's hand is the one before
\* them, unless a flush made it obsolete, and then nothing was taken since.
OrderInv ==
  apc # "destroyed" =>
    /\ \A i \in 1..Len(bufferQueue) : bufferQueue[i] = Taken + i
    /\ flushedTo <= Taken
    /\ apc = "closed" \/ passthrough \/ muted \/ initializationPending => bufferQueue = << >>
    /\ muted => flushedTo = framesRead
    /\ lastWritten <= Taken
    /\ f # NoBuffer => lastWritten < f /\ f <= Taken /\ Taken = (IF f > flushedTo THEN f ELSE flushedTo)
    /\ failures = 0 /\ f = NoBuffer /\ Taken > flushedTo => lastWritten = Taken
    /\ failures = 0 /\ f # NoBuffer /\ f > flushedTo + 1 => lastWritten = f - 1

RendererInv == TypeInv /\ DeviceInv /\ OrderInv

-----------------------------------------------------------------------------
(***************************************************************************)
(* The queue.                                                              *)
(***************************************************************************)
\* A queue that holds the last of n frames.
LastOf(q, n) == q \in Seq(Nat) /\ \A i \in 1..Len(q) : q[i] = (n - Len(q)) + i

\* One more is read and queued.
LEMMA QueueGrows ==
  ASSUME NEW q, NEW n \in Nat, LastOf(q, n)
  PROVE  LastOf(Append(q, n + 1), n + 1) /\ Len(Append(q, n + 1)) = Len(q) + 1
<1>1. /\ Append(q, n + 1) \in Seq(Nat) /\ Len(Append(q, n + 1)) = Len(q) + 1 /\ Len(q) \in Nat
      /\ \A i \in 1..Len(q) : Append(q, n + 1)[i] = q[i]
      /\ Append(q, n + 1)[Len(q) + 1] = n + 1
  BY AppendProperties, LenProperties DEF LastOf
<1> QED
  BY <1>1 DEF LastOf

\* The first of the queue is taken: it is the one after those taken before.
LEMMA QueueShrinks ==
  ASSUME NEW q, NEW n \in Nat, LastOf(q, n), Len(q) > 0
  PROVE  /\ LastOf(Tail(q), n) /\ Len(Tail(q)) = Len(q) - 1
         /\ Head(q) \in Nat /\ Head(q) = (n - Len(q)) + 1
<1>1. /\ Tail(q) \in Seq(Nat) /\ Len(Tail(q)) = Len(q) - 1 /\ Len(q) \in Nat
      /\ \A i \in 1..Len(Tail(q)) : Tail(q)[i] = q[i + 1]
      /\ Head(q) = q[1] /\ Head(q) \in Nat
  BY HeadTailProperties, LenProperties, EmptySeq DEF LastOf
<1> QED
  BY <1>1 DEF LastOf

LEMMA EmptyQueue == \A n : LastOf(<< >>, n) /\ Len(<< >>) = 0
BY EmptySeq DEF LastOf

-----------------------------------------------------------------------------
(***************************************************************************)
(* The invariant is inductive.                                             *)
(***************************************************************************)
LEMMA InitHolds == Init => RendererInv
<1> SUFFICES ASSUME Init PROVE RendererInv
  OBVIOUS
<1>1. bufferQueue \in Seq(Nat) /\ Len(bufferQueue) = 0
  BY EmptySeq DEF Init
<1>2. TypeInv
  BY <1>1 DEF Init, TypeInv, Loops
<1>3. DeviceInv
  BY DEF Init, DeviceInv, Loops
<1>4. OrderInv
  BY <1>1 DEF Init, OrderInv, Taken
<1> QED
  BY <1>2, <1>3, <1>4 DEF RendererInv

\* What OrderInv says of the queue, as it is used below.
LEMMA QueueIsLast ==
  ASSUME TypeInv, OrderInv
  PROVE  Len(bufferQueue) \in Nat /\ (apc # "destroyed" => LastOf(bufferQueue, framesRead))
BY LenProperties DEF TypeInv, OrderInv, Taken, LastOf

\* The numbers, for the steps that need nothing else of their types.
LEMMA Numbers ==
  ASSUME TypeInv
  PROVE  /\ {lastWritten, flushedTo, failures, framesRead, buffersPlayed, Len(bufferQueue)} \subseteq Nat
         /\ Taken \in Int
BY LenProperties DEF TypeInv, Taken

\* Calls that read the graph or change its state.
LEMMA OpenKeeps ==
  ASSUME RendererInv, OpenIn PROVE RendererInv'
<1>1. TypeInv'
  BY ZenonT(30) DEF RendererInv, TypeInv, Loops, OpenIn, AttemptInit, queue, locals, counters
<1>2. DeviceInv'
  BY DEF RendererInv, TypeInv, DeviceInv, Loops, OpenIn, AttemptInit, queue, locals, counters
<1>3. OrderInv'
  BY DEF RendererInv, TypeInv, DeviceInv, OrderInv, Taken, OpenIn, AttemptInit, queue, locals,
     counters
<1> QED
  BY <1>1, <1>2, <1>3 DEF RendererInv

LEMMA ReadKeeps ==
  ASSUME RendererInv, ReadAudio PROVE RendererInv'
<1> DEFINE q == bufferQueue
           r == bufferQueue'
<1>1. Len(q) \in Nat /\ LastOf(q, framesRead) /\ framesRead' = framesRead + 1 /\ framesRead \in Nat
  BY QueueIsLast DEF RendererInv, TypeInv, ReadAudio
<1>2. (passthrough' \/ muted) => r = q /\ q = << >> /\ flushedTo' = framesRead'
  BY DEF RendererInv, TypeInv, OrderInv, ReadAudio, AttemptInit
<1>3. ~(passthrough' \/ muted) => r = Append(q, framesRead + 1) /\ flushedTo' = flushedTo
  BY <1>1 DEF ReadAudio
<1>4. LastOf(r, framesRead') /\ Len(r) \in Nat
      /\ ((passthrough' \/ muted) => Len(r) = 0 /\ Len(q) = 0)
      /\ (~(passthrough' \/ muted) => Len(r) = Len(q) + 1 /\ r # << >>)
  <2>1. CASE passthrough' \/ muted
    BY <2>1, <1>1, <1>2, EmptyQueue
  <2>2. CASE ~(passthrough' \/ muted)
    <3>1. r = Append(q, framesRead + 1)
      BY <2>2, <1>3
    <3>2. LastOf(r, framesRead + 1) /\ Len(r) = Len(q) + 1
      BY <1>1, <3>1, QueueGrows
    <3>3. r # << >>
      BY <1>1, <3>2, EmptyQueue
    <3> QED
      BY <2>2, <1>1, <3>2, <3>3
  <2> QED
    BY <2>1, <2>2
<1>5. TypeInv'
  <2>1. /\ passthrough' \in BOOLEAN /\ initializationPending' \in BOOLEAN
        /\ tpc' \in {tpc, "loop"} /\ apc' = "open"
        /\ UNCHANGED <<muted, buffersPlayed, locals, counters, lastWritten>>
    BY DEF RendererInv, TypeInv, ReadAudio, AttemptInit
  <2>2. r \in Seq(Nat)
    BY <1>4 DEF LastOf
  <2>3. flushedTo' \in Nat
    BY <1>1, <1>2, <1>3 DEF RendererInv, TypeInv
  <2> QED
    BY <1>1, <2>1, <2>2, <2>3 DEF RendererInv, TypeInv, Loops, locals, counters
<1>6. DeviceInv'
  BY DEF RendererInv, TypeInv, DeviceInv, Loops, ReadAudio, AttemptInit, locals, counters
<1>7. OrderInv'
  <2>1. /\ ~muted' \/ (passthrough' \/ muted)
        /\ ~initializationPending' /\ apc = "open" /\ apc' = "open"
        /\ UNCHANGED <<muted, f, lastWritten, failures>>
    BY DEF RendererInv, TypeInv, ReadAudio, AttemptInit, locals, counters
  <2>2. /\ Taken = framesRead - Len(q) /\ Taken' = framesRead' - Len(r)
        /\ Taken \in Int /\ Taken' \in Int
    BY <1>1, <1>4 DEF Taken
  <2>3. \A i \in 1..Len(r) : r[i] = Taken' + i
    BY <1>4, <2>2 DEF LastOf
  <2>4. OrderInv /\ TypeInv
    BY DEF RendererInv
  <2>5. CASE passthrough' \/ muted
    BY <1>1, <1>2, <1>4, <2>1, <2>2, <2>3, <2>4, <2>5 DEF OrderInv, TypeInv
  <2>6. CASE ~(passthrough' \/ muted)
    <3>1. Taken' = Taken /\ flushedTo' = flushedTo
      BY <1>1, <1>3, <1>4, <2>2, <2>6
    <3> QED
      BY <2>1, <2>3, <2>4, <2>6, <3>1 DEF OrderInv, TypeInv
  <2> QED
    BY <2>5, <2>6
<1> QED
  BY <1>5, <1>6, <1>7 DEF RendererInv

LEMMA SeekKeeps ==
  ASSUME RendererInv, Seek PROVE RendererInv'
<1>1. TypeInv'
  BY EmptyQueue, QueueIsLast DEF RendererInv, TypeInv, Loops, Seek, FlushQueue, locals
<1>2. DeviceInv'
  BY EmptyQueue, QueueIsLast DEF RendererInv, TypeInv, DeviceInv, Loops, Seek, FlushQueue, locals
<1>3. OrderInv'
  BY EmptyQueue, QueueIsLast DEF RendererInv, TypeInv, DeviceInv, OrderInv, Taken, LastOf, Seek,
     FlushQueue, locals
<1> QED
  BY <1>1, <1>2, <1>3 DEF RendererInv

LEMMA MuteKeeps ==
  ASSUME RendererInv, SetMute PROVE RendererInv'
<1>1. TypeInv'
  <2>1. muted' \in BOOLEAN
    BY Zenon DEF SetMute
  <2>2. bufferQueue' \in Seq(Nat) /\ buffersPlayed' \in Nat /\ flushedTo' \in Nat /\ framesRead' = framesRead
    <3>1. CASE muted'
      <4>1. FlushQueue /\ framesRead' = framesRead
        BY <3>1, Zenon DEF SetMute
      <4> QED
        BY <4>1, EmptySeq, Numbers DEF RendererInv, FlushQueue
    <3>2. CASE ~muted'
      BY <3>2 DEF RendererInv, TypeInv, SetMute, queue
    <3> QED
      BY <3>1, <3>2
  <2>3. apc' = apc /\ UNCHANGED <<tpc, passthrough, initializationPending, locals, failures, lastWritten>>
    BY DEF SetMute
  <2> QED
    BY <2>1, <2>2, <2>3 DEF RendererInv, TypeInv, Loops, locals
<1>2. DeviceInv'
  BY DEF RendererInv, TypeInv, DeviceInv, Loops, SetMute, FlushQueue, queue, locals
<1>3. CASE muted'
  <2>1. bufferQueue' = << >> /\ Len(bufferQueue') = 0 /\ flushedTo' = framesRead' /\ framesRead' = framesRead
    BY <1>3, EmptyQueue DEF SetMute, FlushQueue
  <2>2. OrderInv'
    BY <1>3, <2>1, QueueIsLast DEF RendererInv, TypeInv, OrderInv, Taken, SetMute, locals
  <2> QED
    BY <1>1, <1>2, <2>2 DEF RendererInv
<1>4. CASE ~muted'
  <2>1. OrderInv'
    BY <1>4, QueueIsLast DEF RendererInv, TypeInv, OrderInv, Taken, SetMute, queue, locals
  <2> QED
    BY <1>1, <1>2, <2>1 DEF RendererInv
<1> QED
  BY <1>3, <1>4

LEMMA CloseKeeps ==
  ASSUME RendererInv, Close PROVE RendererInv'
<1>1. TypeInv'
  BY DEF RendererInv, TypeInv, Loops, Close, queue, locals, counters
<1>2. DeviceInv'
  BY DEF RendererInv, TypeInv, DeviceInv, Loops, Close, queue, locals, counters
<1>3. OrderInv'
  BY DEF RendererInv, TypeInv, DeviceInv, OrderInv, Taken, Close, queue, locals, counters
<1> QED
  BY <1>1, <1>2, <1>3 DEF RendererInv

LEMMA StopKeeps ==
  ASSUME RendererInv, StopThread PROVE RendererInv'
<1>1. TypeInv'
  BY DEF RendererInv, TypeInv, Loops, StopThread, StopThenSignal, FirstStop, ThenSignal, queue,
     locals, counters
<1>2. DeviceInv'
  BY DEF RendererInv, TypeInv, DeviceInv, Loops, StopThread, StopThenSignal, FirstStop,
     ThenSignal, queue, locals, counters
<1>3. OrderInv'
  BY DEF RendererInv, TypeInv, DeviceInv, OrderInv, Taken, StopThread, StopThenSignal, FirstStop,
     ThenSignal, queue, locals, counters
<1> QED
  BY <1>1, <1>2, <1>3 DEF RendererInv

LEMMA DestroyKeeps ==
  ASSUME RendererInv, Destroy PROVE RendererInv'
<1>1. TypeInv'
  BY EmptyQueue DEF RendererInv, TypeInv, Loops, Destroy, locals, counters
<1>2. DeviceInv'
  BY EmptyQueue DEF RendererInv, TypeInv, DeviceInv, Loops, Destroy, locals, counters
<1>3. OrderInv'
  BY EmptyQueue DEF RendererInv, TypeInv, DeviceInv, OrderInv, LastOf, Destroy, locals, counters
<1> QED
  BY <1>1, <1>2, <1>3 DEF RendererInv

\* The renderer's thread.
LEMMA TakeKeeps ==
  ASSUME RendererInv, Take PROVE RendererInv'
<1>1. apc # "destroyed" /\ f = NoBuffer
  BY DEF RendererInv, DeviceInv, Loops, Take
<1>2. CASE EnoughToPlay /\ TakeFront
  <2>1. Len(bufferQueue) \in Nat /\ Len(bufferQueue) > 0 /\ LastOf(bufferQueue, framesRead)
    BY <1>1, <1>2, QueueIsLast DEF EnoughToPlay, RendererInv, TypeInv
  <2>2. /\ LastOf(bufferQueue', framesRead') /\ Len(bufferQueue') = Len(bufferQueue) - 1
        /\ f' \in Nat /\ f' = (framesRead - Len(bufferQueue)) + 1 /\ framesRead' = framesRead
    BY <1>2, <2>1, QueueShrinks DEF TakeFront, Take, app, RendererInv, TypeInv
  <2>3. /\ tpc' = "decide" /\ buffersPlayed' = buffersPlayed + 1
        /\ needsStart' = (buffersPlayed = 0 /\ ~playing) /\ needsStop' = FALSE
        /\ UNCHANGED <<app, threadRunning, playing, device, counters, lastWritten>>
    BY <1>1, <1>2, <2>2 DEF Take, RendererInv, TypeInv
  <2>4. f' # NoBuffer /\ bufferQueue # << >>
    BY <2>1, <2>2, EmptyQueue
  <2>5. TypeInv'
    <3>1. needsStart' \in BOOLEAN
      BY <2>3, Zenon
    <3>2. bufferQueue' \in Seq(Nat)
      BY <2>2 DEF LastOf
    <3>3. /\ tpc' = "decide" /\ buffersPlayed' = buffersPlayed + 1 /\ needsStop' = FALSE
          /\ UNCHANGED <<app, playing, counters, lastWritten>>
      BY <2>3, Zenon
    <3> QED
      <4>1. /\ apc' \in {"closed", "open", "stopping", "signalling", "joining", "destroyed", "crashed"}
            /\ tpc' \in Loops \cup {"none", "decide", "abort", "start", "write", "leave", "exited", "crashed"}
        BY <3>3 DEF RendererInv, TypeInv, app
      <4>2. /\ f' \in Nat \cup {NoBuffer}
            /\ buffersPlayed' \in Nat /\ framesRead' \in Nat /\ failures' \in Nat
            /\ lastWritten' \in Nat /\ flushedTo' \in Nat
        BY <2>2, <3>3, Numbers DEF RendererInv, app, counters
      <4>3. /\ passthrough' \in BOOLEAN /\ initializationPending' \in BOOLEAN /\ muted' \in BOOLEAN
            /\ playing' \in BOOLEAN /\ needsStop' \in BOOLEAN
        BY <3>3 DEF RendererInv, TypeInv, app
      <4> QED
        BY <3>1, <3>2, <4>1, <4>2, <4>3 DEF TypeInv
  <2>6. DeviceInv'
    <3>1. ~needsStart' => playing
      BY <1>1, <2>3, Numbers DEF RendererInv, DeviceInv, Loops, Take
    <3> QED
      BY <1>1, <2>3, <2>4, <3>1 DEF RendererInv, DeviceInv, Loops, app, Take
  <2>7. /\ Taken = framesRead - Len(bufferQueue) /\ Taken \in Int
        /\ Taken' = Taken + 1 /\ f' = Taken'
    BY <2>1, <2>2 DEF Taken, RendererInv, TypeInv
  <2>8. \A i \in 1..Len(bufferQueue') : bufferQueue'[i] = Taken' + i
    BY <2>2 DEF Taken, LastOf
  <2>9. OrderInv'
    BY <1>1, <2>2, <2>3, <2>4, <2>7, <2>8, Numbers, SMTT(30) DEF RendererInv, OrderInv, app, counters
  <2> QED
    BY <2>5, <2>6, <2>9 DEF RendererInv
<1>3. CASE ~EnoughToPlay
  BY <1>1, <1>3 DEF RendererInv, TypeInv, DeviceInv, OrderInv, Taken, Loops, Take,
     StopsAfterFlush, queue, app, counters
<1> QED
  BY <1>2, <1>3 DEF Take

LEMMA ThreadKeeps ==
  ASSUME RendererInv, TestRunning \/ Decide \/ Abort \/ Wait PROVE RendererInv'
<1>1. CASE TestRunning
  BY <1>1 DEF RendererInv, TypeInv, DeviceInv, OrderInv, Taken, Loops, TestRunning, app, queue,
     locals, counters
<1>2. CASE Decide
  BY <1>2 DEF RendererInv, TypeInv, DeviceInv, OrderInv, Taken, Loops, Decide, app, queue,
     locals, counters
<1>3. CASE Abort
  BY <1>3 DEF RendererInv, TypeInv, DeviceInv, OrderInv, Taken, Loops, Abort, app, queue, counters
<1>4. CASE Wait
  BY <1>4 DEF RendererInv, TypeInv, DeviceInv, OrderInv, Taken, Loops, Wait, app, queue, locals,
     counters
<1> QED
  BY <1>1, <1>2, <1>3, <1>4

LEMMA DeviceKeeps ==
  ASSUME RendererInv, Start \/ Write \/ WriteNothing \/ Leave PROVE RendererInv'
<1>0. Len(bufferQueue) \in Nat
  BY QueueIsLast DEF RendererInv
<1>1. CASE Start
  <2>1. /\ UNCHANGED <<app, queue, needsStart, needsStop, lastWritten>>
        /\ f' \in {f, NoBuffer} /\ playing' \in {playing, TRUE} /\ failures' \in {failures, failures + 1}
        /\ tpc' \in {"write", "leave"}
    BY <1>1 DEF Start
  <2>2. TypeInv'
    <3>1. playing' \in BOOLEAN
      BY <2>1, Zenon DEF RendererInv, TypeInv
    <3>2. /\ UNCHANGED <<app, queue, needsStart, needsStop, lastWritten>>
          /\ f' \in {f, NoBuffer} /\ failures' \in {failures, failures + 1} /\ tpc' \in {"write", "leave"}
      BY <2>1, Zenon
    <3> QED
      BY <3>1, <3>2 DEF RendererInv, TypeInv, Loops, app, queue
  <2>3. DeviceInv'
    BY <1>1 DEF RendererInv, DeviceInv, Loops, Start, app, queue
  <2>4. (f' = f /\ failures' = failures) \/ (f' = NoBuffer /\ failures' = failures + 1)
    BY <1>1 DEF Start
  <2>5. Taken' = Taken
    BY <2>1 DEF Taken, app, queue
  <2>6. f' = NoBuffer \/ failures' = 0 => failures' # 0 \/ f' = f
    BY <2>4, Numbers DEF RendererInv
  <2>7. OrderInv'
    BY <2>1, <2>4, <2>5, <2>6, Numbers DEF RendererInv, OrderInv, app, queue
  <2> QED
    BY <2>2, <2>3, <2>7 DEF RendererInv
<1>2. CASE Write
  <2>1. TypeInv'
    BY <1>2, <1>0 DEF RendererInv, TypeInv, Loops, Write, app, queue, counters
  <2>2. DeviceInv'
    BY <1>2, <1>0 DEF RendererInv, TypeInv, DeviceInv, Loops, Write, app, queue, counters
  <2>3. OrderInv'
    BY <1>2, <1>0 DEF RendererInv, TypeInv, DeviceInv, OrderInv, Taken, Loops, Write, app, queue,
       counters
  <2> QED
    BY <2>1, <2>2, <2>3 DEF RendererInv
<1>3. CASE WriteNothing
  BY <1>3 DEF RendererInv, TypeInv, DeviceInv, OrderInv, Taken, Loops, WriteNothing, app, queue,
     locals, counters
<1>4. CASE Leave
  BY <1>4 DEF RendererInv, TypeInv, DeviceInv, OrderInv, Taken, Loops, Leave, app, queue, counters
<1> QED
  BY <1>1, <1>2, <1>3, <1>4

LEMMA StutterKeeps ==
  ASSUME RendererInv, UNCHANGED vars PROVE RendererInv'
BY DEF RendererInv, TypeInv, DeviceInv, OrderInv, Taken, Loops, vars, app, queue, locals, counters

\* The strengthened invariant, from which the theorem follows.
THEOREM RendererInvHolds == Spec => []RendererInv
<1>1. RendererInv /\ [Next]_vars => RendererInv'
  BY OpenKeeps, ReadKeeps, SeekKeeps, MuteKeeps, CloseKeeps, StopKeeps, DestroyKeeps, TakeKeeps,
     ThreadKeeps, DeviceKeeps, StutterKeeps DEF Next, Calls, Closing, Renderer
<1> QED
  BY <1>1, InitHolds, PTL DEF Spec

\* What the invariant says of the frames that are not played yet.
LEMMA PendingInOrder ==
  ASSUME RendererInv PROVE PlayedInOrder
<1> DEFINE inHand == IF f = NoBuffer THEN << >> ELSE <<f>>
           pending == inHand \o bufferQueue
<1>1. CASE apc = "destroyed"
  <2>1. f = NoBuffer /\ bufferQueue = << >>
    BY <1>1 DEF RendererInv, DeviceInv
  <2>2. pending = << >>
    BY <2>1
  <2> QED
    BY <2>1, <2>2 DEF PlayedInOrder
<1>2. CASE apc # "destroyed"
  <2>1. /\ Len(bufferQueue) \in Nat /\ LastOf(bufferQueue, framesRead)
        /\ Taken = framesRead - Len(bufferQueue) /\ Taken \in Int
    BY <1>2, QueueIsLast DEF Taken, RendererInv, TypeInv
  <2>2. \A i \in 1..Len(bufferQueue) : bufferQueue[i] = Taken + i
    BY <2>1 DEF LastOf
  <2>3. CASE f = NoBuffer
    <3>1. pending = bufferQueue
      BY <2>1, <2>3, ConcatEmptySeq DEF LastOf
    <3> HIDE DEF pending
    <3>2. flushedTo <= Taken /\ flushedTo \in Nat
      BY <1>2, Numbers DEF RendererInv, OrderInv
    <3>3. \A i \in 1..Len(bufferQueue) : bufferQueue[i] > flushedTo
      BY <2>1, <2>2, <3>2
    <3>4. /\ \A i \in 1..Len(pending) - 1 : pending[i + 1] = pending[i] + 1
          /\ Len(pending) > 0 => pending[1] = Taken + 1
      BY <2>1, <2>2, <3>1, SMTT(30)
    <3>5. /\ Len(pending) > 0 => lastWritten < pending[1]
          /\ failures = 0 /\ Len(pending) > 0 /\ pending[1] > flushedTo + 1 => lastWritten = pending[1] - 1
      BY <1>2, <2>1, <2>3, <3>2, <3>4, Numbers, SMTT(30) DEF RendererInv, OrderInv
    <3> QED
      BY <2>3, <3>3, <3>4, <3>5 DEF PlayedInOrder, pending, inHand
  <2>4. CASE f # NoBuffer
    <3>1. f \in Nat /\ <<f>> \in Seq(Nat) /\ Len(<<f>>) = 1 /\ <<f>>[1] = f
      BY <2>4 DEF RendererInv, TypeInv
    <3>2. /\ Len(pending) = Len(bufferQueue) + 1 /\ pending[1] = f
          /\ \A i \in 2..Len(pending) : pending[i] = bufferQueue[i - 1]
      BY <2>1, <2>4, <3>1, ConcatProperties DEF LastOf
    <3> HIDE DEF pending
    <3>3. \A i \in 2..Len(pending) : pending[i] = Taken + i - 1
      BY <2>1, <2>2, <3>2
    <3>4. flushedTo <= Taken /\ flushedTo \in Nat /\ (f > flushedTo => Taken = f)
      BY <1>2, <2>4, Numbers DEF RendererInv, OrderInv
    <3>5. \A i \in 1..Len(bufferQueue) : bufferQueue[i] > flushedTo
      BY <2>1, <2>2, <3>4
    <3>6. ASSUME NEW i \in 1..Len(pending) - 1
          PROVE  pending[i + 1] = pending[i] + 1 \/ (i = 1 /\ f # NoBuffer /\ f <= flushedTo)
      <4>1. CASE i = 1
        BY <4>1, <2>1, <2>4, <3>1, <3>2, <3>3, <3>4
      <4>2. CASE i # 1
        BY <4>2, <2>1, <3>2, <3>3, SMTT(30)
      <4> QED
        BY <4>1, <4>2
    <3>7. /\ lastWritten < pending[1]
          /\ failures = 0 /\ pending[1] > flushedTo + 1 => lastWritten = pending[1] - 1
      BY <1>2, <2>4, <3>2 DEF RendererInv, OrderInv
    <3> QED
      BY <3>5, <3>6, <3>7 DEF PlayedInOrder, pending, inHand
  <2> QED
    BY <2>3, <2>4
<1> QED
  BY <1>1, <1>2

\* The device, while it is started, gets the frames in order, none twice and none left out,
\* with seeks, mutes and failures between any two steps of the renderer's thread, for every
\* length of the prebuffer.
THEOREM DeviceGetsFramesInOrderHolds == Spec => []DeviceGetsFramesInOrder
<1>1. RendererInv => WritesToStartedDevice
  BY DEF RendererInv, DeviceInv, WritesToStartedDevice
<1>2. RendererInv => DeviceGetsFramesInOrder
  BY <1>1, PendingInOrder DEF DeviceGetsFramesInOrder
<1> QED
  BY <1>2, RendererInvHolds, PTL
=============================================================================
