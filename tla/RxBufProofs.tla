---------------------------- MODULE RxBufProofs ----------------------------
(* Proofs about the receive buffers: for any memory, table, ring and number *)
(* of descriptors every buffer has one owner, the table lists what the      *)
(* firmware has, its supply is kept, and a filled descriptor keeps its      *)
(* interrupt.                                                               *)
EXTENDS RxBuf, FiniteSetTheorems, WellFoundedInduction, TLAPS

----------------------------------------------------------------------------
(* Recursive functions: what they compute is shown by the least number for  *)
(* which it would fail.                                                     *)

LEMMA LeastNat ==
  ASSUME NEW S \in SUBSET Nat, S # {}
  PROVE  \E m \in S : \A n \in S : m <= n
<1>1. OpToRel(<, Nat) = {p \in Nat \X Nat : p[1] < p[2]}
  BY DEF OpToRel
<1>2. PICK m \in S : \A n \in S : <<n, m>> \notin OpToRel(<, Nat)
  BY NatLessThanWellFounded, WFMin
<1>3. ASSUME NEW n \in S
      PROVE  ~(n < m)
  <2> DEFINE p == <<n, m>>
  <2>1. p \in Nat \X Nat /\ p[1] = n /\ p[2] = m
    OBVIOUS
  <2>2. p \notin {q \in Nat \X Nat : q[1] < q[2]}
    BY <1>1, <1>2, Zenon
  <2> QED  BY <2>1, <2>2
<1> QED  BY <1>3

LEMMA UpTo ==
  ASSUME NEW n \in Nat, NEW A, 0 \in A,
         \A m \in 1 .. n : m - 1 \in A => m \in A
  PROVE  \A m \in 0 .. n : m \in A
<1> DEFINE F == {m \in 0 .. n : m \notin A}
<1> SUFFICES ASSUME F # {}  PROVE FALSE
  OBVIOUS
<1>1. PICK m \in F : \A k \in F : m <= k
  <2>1. F \in SUBSET Nat
    OBVIOUS
  <2> QED  BY <2>1, LeastNat
<1>2. m \in 1 .. n /\ m - 1 \in 0 .. n /\ m - 1 \notin F
  BY <1>1
<1> QED  BY <1>1, <1>2

\* A step applied n times.
Run(g, S, b, G, n) ==
  /\ g \in [0 .. n -> S]
  /\ g[0] = b
  /\ \A m \in 1 .. n : g[m] = G[m][g[m - 1]]

LEMMA RunExists ==
  ASSUME NEW S, NEW b \in S, NEW n \in Nat, NEW G \in [1 .. n -> [S -> S]]
  PROVE  \E g : Run(g, S, b, G, n)
<1> DEFINE A == {m \in Nat : m <= n => \E g : Run(g, S, b, G, m)}
<1>1. 0 \in A
  <2>1. Run([m \in 0 .. 0 |-> b], S, b, G, 0)
    BY DEF Run
  <2> QED  BY <2>1
<1>2. ASSUME NEW m \in 1 .. n, m - 1 \in A
      PROVE  m \in A
  <2>1. PICK g : Run(g, S, b, G, m - 1)
    BY <1>2
  <2>2. g[m - 1] \in S /\ G[m][g[m - 1]] \in S
    BY <2>1 DEF Run
  <2> DEFINE h == [k \in 0 .. m |-> IF k = m THEN G[m][g[m - 1]] ELSE g[k]]
  <2>3. h \in [0 .. m -> S] /\ h[0] = b
    BY <2>1, <2>2 DEF Run
  <2>4. ASSUME NEW k \in 1 .. m
        PROVE  h[k] = G[k][h[k - 1]]
    BY <2>1 DEF Run
  <2>5. Run(h, S, b, G, m)
    BY <2>3, <2>4 DEF Run
  <2> QED  BY <2>5
<1>5. \A m \in 1 .. n : m - 1 \in A => m \in A
  BY <1>2
<1> HIDE DEF A
<1>3. n \in A
  <2>1. \A m \in 0 .. n : m \in A
    BY <1>1, <1>5, UpTo
  <2> QED  BY <2>1
<1>4. n <= n
  OBVIOUS
<1> QED  BY <1>3, <1>4, Zenon DEF A

----------------------------------------------------------------------------
(* Sums over the descriptors.                                               *)

PartialSum(g, h) ==
  /\ g \in [0 .. Len(h) -> Nat]
  /\ g[0] = 0
  /\ \A m \in 1 .. Len(h) : g[m] = g[m - 1] + h[m]

IsSum(x, h) == \E g : PartialSum(g, h) /\ x = g[Len(h)]

LEMMA PartialSumExists ==
  ASSUME NEW h \in Seq(Nat)
  PROVE  \E g : PartialSum(g, h)
<1> DEFINE G == [m \in 1 .. Len(h) |-> [x \in Nat |-> x + h[m]]]
<1>1. G \in [1 .. Len(h) -> [Nat -> Nat]]
  OBVIOUS
<1>2. \A m \in 1 .. Len(h), x \in Nat : G[m][x] = x + h[m]
  OBVIOUS
<1> HIDE DEF G
<1>3. PICK g : Run(g, Nat, 0, G, Len(h))
  <2>1. Len(h) \in Nat /\ 0 \in Nat
    OBVIOUS
  <2> QED  BY <1>1, <2>1, RunExists
<1>4. PartialSum(g, h)
  <2>1. g \in [0 .. Len(h) -> Nat] /\ g[0] = 0
    BY <1>3 DEF Run
  <2>2. ASSUME NEW m \in 1 .. Len(h)
        PROVE  g[m] = g[m - 1] + h[m]
    <3>1. g[m] = G[m][g[m - 1]]
      BY <1>3 DEF Run
    <3>2. g[m - 1] \in Nat
      BY <2>1
    <3> QED  BY <1>2, <3>1, <3>2
  <2> QED  BY <2>1, <2>2 DEF PartialSum
<1> QED  BY <1>4

\* Two partial sums that add the same up to k.
LEMMA PartialSumsAgree ==
  ASSUME NEW h \in Seq(Nat), NEW l \in Seq(Nat), NEW g, NEW f,
         PartialSum(g, h), PartialSum(f, l), NEW k \in Nat, k <= Len(h), k <= Len(l),
         \A m \in 1 .. k : h[m] = l[m]
  PROVE  g[k] = f[k]
<1> DEFINE A == {m \in Nat : m <= k => g[m] = f[m]}
<1>1. 0 \in A
  BY DEF PartialSum
<1>2. \A m \in 1 .. k : m - 1 \in A => m \in A
  BY DEF PartialSum
<1> HIDE DEF A
<1>3. k \in A
  <2>1. \A m \in 0 .. k : m \in A
    BY <1>1, <1>2, UpTo
  <2> QED  BY <2>1
<1> QED  BY <1>3 DEF A

LEMMA SumOfNone ==
  ASSUME NEW x, IsSum(x, <<>>)
  PROVE  x = 0
BY DEF IsSum, PartialSum

LEMMA SumIsNat ==
  ASSUME NEW h \in Seq(Nat), NEW x, IsSum(x, h)
  PROVE  x \in Nat
BY DEF IsSum, PartialSum

LEMMA SumOfMore ==
  ASSUME NEW h \in Seq(Nat), NEW d \in Nat, NEW x, NEW y,
         IsSum(x, h), IsSum(y, Append(h, d))
  PROVE  y = x + d
<1> DEFINE l == Append(h, d)
           n == Len(h)
<1>1. PICK g : PartialSum(g, h) /\ x = g[n]
  BY DEF IsSum
<1>2. l \in Seq(Nat) /\ Len(l) = n + 1 /\ l[n + 1] = d /\ (\A m \in 1 .. n : l[m] = h[m]) /\ n \in Nat
  OBVIOUS
<1>3. PICK f : PartialSum(f, l) /\ y = f[n + 1]
  BY <1>2 DEF IsSum
<1>4. f[n + 1] = f[n] + d
  BY <1>2, <1>3 DEF PartialSum
<1> HIDE DEF l
<1>5. g[n] = f[n]
  <2>1. n <= Len(h) /\ n <= Len(l) /\ \A m \in 1 .. n : h[m] = l[m]
    BY <1>2
  <2>2. PartialSum(g, h) /\ PartialSum(f, l) /\ l \in Seq(Nat) /\ n \in Nat
    BY <1>1, <1>2, <1>3
  <2> HIDE DEF n
  <2> QED  BY <2>1, <2>2, PartialSumsAgree
<1> QED  BY <1>1, <1>3, <1>4, <1>5

LEMMA SumOfRest ==
  ASSUME NEW h \in Seq(Nat), h # <<>>, NEW x, NEW y,
         IsSum(x, h), IsSum(y, Tail(h))
  PROVE  x = y + Head(h)
<1> DEFINE l == Tail(h)
           n == Len(h)
<1>1. PICK g : PartialSum(g, h) /\ x = g[n]
  BY DEF IsSum
<1>2. /\ l \in Seq(Nat) /\ Len(l) = n - 1 /\ n - 1 \in Nat /\ n \in Nat
      /\ \A m \in 1 .. n - 1 : l[m] = h[m + 1]
      /\ Head(h) = h[1] /\ h[1] \in Nat /\ \A m \in 1 .. n : h[m] \in Nat
  OBVIOUS
<1>3. PICK f : PartialSum(f, l) /\ y = f[n - 1]
  BY <1>2 DEF IsSum
<1> HIDE DEF l
<1> DEFINE A == {m \in Nat : m <= n - 1 => g[m + 1] = f[m] + h[1]}
<1>4. 0 \in A
  BY <1>1, <1>2, <1>3 DEF PartialSum
<1>5. \A m \in 1 .. n - 1 : m - 1 \in A => m \in A
  <2> SUFFICES ASSUME NEW m \in 1 .. n - 1, m - 1 \in A
               PROVE  m \in A
    OBVIOUS
  <2>1. g[m] = f[m - 1] + h[1]
    BY <1>2
  <2>2. g[m + 1] = g[m] + h[m + 1]
    <3>1. \A i \in 1 .. Len(h) : g[i] = g[i - 1] + h[i]
      BY <1>1 DEF PartialSum
    <3>2. m + 1 \in 1 .. Len(h) /\ (m + 1) - 1 = m
      BY <1>2
    <3> QED  BY <3>1, <3>2
  <2>3. f[m] = f[m - 1] + h[m + 1] /\ f[m - 1] \in Nat
    <3>1. m \in 1 .. Len(l) /\ m - 1 \in 0 .. Len(l) /\ l[m] = h[m + 1]
      BY <1>2
    <3>2. f \in [0 .. Len(l) -> Nat] /\ \A i \in 1 .. Len(l) : f[i] = f[i - 1] + l[i]
      BY <1>3 DEF PartialSum
    <3> HIDE DEF A, n
    <3>3. f[m] = f[m - 1] + l[m]
      BY <3>1, <3>2
    <3>4. f[m - 1] \in Nat
      BY <3>1, <3>2
    <3> QED  BY <3>1, <3>3, <3>4, Zenon
  <2>4. g[m + 1] = f[m] + h[1]
    <3>1. h[m + 1] \in Nat /\ h[1] \in Nat
      BY <1>2
    <3>2. \A a, b, c \in Nat : (a + b) + c = (a + c) + b
      OBVIOUS
    <3>3. (f[m - 1] + h[1]) + h[m + 1] = (f[m - 1] + h[m + 1]) + h[1]
      BY <2>3, <3>1, <3>2, Zenon
    <3> QED  BY <2>1, <2>2, <2>3, <3>3, Zenon
  <2> QED  BY <2>4
<1> HIDE DEF A
<1>6. n - 1 \in A
  <2>1. \A m \in 0 .. n - 1 : m \in A
    BY <1>2, <1>4, <1>5, UpTo
  <2> QED  BY <1>2, <2>1
<1>7. g[n] = f[n - 1] + h[1]
  BY <1>2, <1>6 DEF A
<1> QED  BY <1>1, <1>2, <1>3, <1>7

----------------------------------------------------------------------------
(* Descriptors: what becomes of the buffers of each.                        *)

Elems(q) == {q[n] : n \in DOMAIN q}
Distinct(q) == \A m, n \in DOMAIN q : q[m] = q[n] => m = n

Single == {{"SPURIOUS"}, {"FORWARD"}, {"DELETE"}, {"LEN_UPDATE"}}
             \cup IF MonitorVif THEN {{"MONITOR"}} ELSE {}

Desc ==
  {d \in [ids : Seq(Index),
          status : Single \cup {{"FORWARD", "ALLOC"}, {"ALLOC"}}] :
     /\ Len(d.ids) \in 1 .. MaxMsdu
     /\ d.status \in Single => Len(d.ids) = 1
     /\ Distinct(d.ids)}

LEMMA IndexFinite == \A S \in SUBSET Index : IsFiniteSet(S) /\ Cardinality(S) \in Nat
<1>1. IsFiniteSet(Index)
  BY ParamAssumption, FS_Interval DEF Index, ParamAssumption
<1> QED  BY <1>1, FS_Subset, FS_CardinalityType

LEMMA AsManyAsPlaces ==
  ASSUME NEW q \in Seq(Index), Len(q) \in 1 .. MaxMsdu, Distinct(q)
  PROVE  Cardinality(Elems(q)) = Len(q)
<1>1. CASE Len(q) = 1
  <2>1. Elems(q) = {q[1]}
    BY <1>1 DEF Elems
  <2> QED  BY <1>1, <2>1, FS_Singleton
<1>2. CASE Len(q) = 2
  <2>1. Elems(q) = {q[1]} \cup {q[2]} /\ q[2] \notin {q[1]}
    BY <1>2 DEF Elems, Distinct
  <2>2. IsFiniteSet({q[1]}) /\ Cardinality({q[1]}) = 1
    BY FS_Singleton
  <2>3. Cardinality({q[1]} \cup {q[2]}) = 1 + 1
    BY <2>1, <2>2, FS_AddElement
  <2> QED  BY <1>2, <2>1, <2>3
<1> QED  BY <1>1, <1>2 DEF MaxMsdu

LEMMA DescFacts ==
  ASSUME NEW d \in Desc
  PROVE  /\ d.ids \in Seq(Index) /\ Len(d.ids) \in 1 .. MaxMsdu /\ d.ids[1] \in Ids(d)
         /\ Ids(d) \in SUBSET Index /\ Ids(d) = Elems(d.ids)
         /\ Returned(d) \in SUBSET Index
         /\ Cardinality(Ids(d)) = Len(d.ids)
         /\ d.status \in Single => Ids(d) = {d.ids[1]} /\ Len(d.ids) = 1 /\ Asked(d) = 0
         /\ d.status \notin Single => Asked(d) = Len(d.ids)
         /\ Asked(d) \in 0 .. MaxMsdu
         /\ Owed(d) \in Nat /\ ReturnedBy(d) \in Nat
<1>1. /\ d.ids \in Seq(Index) /\ Len(d.ids) \in 1 .. MaxMsdu /\ Distinct(d.ids)
      /\ d.status \in Single \cup {{"FORWARD", "ALLOC"}, {"ALLOC"}}
      /\ d.status \in Single => Len(d.ids) = 1
  BY DEF Desc
<1>2. Ids(d) \in SUBSET Index /\ Ids(d) = Elems(d.ids) /\ d.ids[1] \in Ids(d)
  BY <1>1 DEF Ids, Elems
<1>3. Cardinality(Ids(d)) = Len(d.ids)
  BY <1>1, <1>2, AsManyAsPlaces
<1>4. Returned(d) \in SUBSET Index
  BY <1>2 DEF Returned
<1>5. d.status \in Single => Ids(d) = {d.ids[1]}
  BY <1>1 DEF Ids
<1>6. /\ d.status \in Single => Asked(d) = 0
      /\ d.status \notin Single => Asked(d) = Len(d.ids)
  BY <1>1 DEF Asked, Single
<1>7. Asked(d) \in 0 .. MaxMsdu
  <2>1. CASE d.status \in Single
    BY <1>6, <2>1 DEF MaxMsdu
  <2>2. CASE d.status \notin Single
    <3>1. Asked(d) = Len(d.ids)
      BY <1>6, <2>2
    <3>2. Len(d.ids) \in 0 .. MaxMsdu
      BY <1>1 DEF MaxMsdu
    <3> QED  BY <3>1, <3>2
  <2> QED  BY <2>1, <2>2
<1>8. Owed(d) \in Nat
  BY <1>7 DEF Owed, MaxMsdu
<1>9. ReturnedBy(d) \in Nat
  BY <1>4, IndexFinite DEF ReturnedBy
<1> QED  BY <1>1, <1>2, <1>3, <1>4, <1>5, <1>6, <1>7, <1>8, <1>9

ReturnedSum(q) ==
  LET sum[n \in 0 .. Len(q)] == IF n = 0 THEN 0 ELSE sum[n - 1] + ReturnedBy(q[n])
  IN  sum[Len(q)]

OwedSum(q) ==
  LET sum[n \in 0 .. Len(q)] == IF n = 0 THEN 0 ELSE sum[n - 1] + Owed(q[n])
  IN  sum[Len(q)]

LEMMA TotalsAreSums ==
  /\ Total(ReturnedBy) = ReturnedSum(ind) /\ Total(ReturnedBy)' = ReturnedSum(ind')
  /\ Total(Owed) = OwedSum(ind) /\ Total(Owed)' = OwedSum(ind')
<1>1. Total(ReturnedBy) = ReturnedSum(ind)
  BY DEF Total, ReturnedSum
<1>2. Total(ReturnedBy)' = ReturnedSum(ind')
  BY DEF Total, ReturnedSum
<1>3. Total(Owed) = OwedSum(ind)
  BY DEF Total, OwedSum
<1>4. Total(Owed)' = OwedSum(ind')
  BY DEF Total, OwedSum
<1> QED  BY <1>1, <1>2, <1>3, <1>4

LEMMA ReturnedSumIs ==
  ASSUME NEW q \in Seq(Desc)
  PROVE  IsSum(ReturnedSum(q), [m \in 1 .. Len(q) |-> ReturnedBy(q[m])])
<1> DEFINE h == [m \in 1 .. Len(q) |-> ReturnedBy(q[m])]
           P(s) == s = [n \in 0 .. Len(q) |->
                          IF n = 0 THEN 0 ELSE s[n - 1] + ReturnedBy(q[n])]
           c == CHOOSE s : P(s)
<1>1. \A m \in 1 .. Len(q) : ReturnedBy(q[m]) \in Nat
  BY DescFacts
<1>2. h \in Seq(Nat) /\ Len(h) = Len(q) /\ Len(q) \in Nat
      /\ \A m \in 1 .. Len(q) : h[m] = ReturnedBy(q[m])
  BY <1>1
<1> HIDE DEF h
<1>3. PICK g : PartialSum(g, h)
  BY <1>2, PartialSumExists
<1>4. P(g)
  BY <1>2, <1>3 DEF PartialSum
<1>5. P(c)
  BY <1>4
<1>6. ReturnedSum(q) = c[Len(q)]
  BY DEF ReturnedSum
<1> HIDE DEF c
<1>7. /\ c[0] = 0 /\ \A n \in 1 .. Len(q) : c[n] = c[n - 1] + h[n]
      /\ c = [n \in 0 .. Len(q) |-> c[n]]
  BY <1>2, <1>5
<1> HIDE DEF P
<1> DEFINE A == {m \in Nat : c[m] \in Nat}
<1>8. 0 \in A
  BY <1>7
<1>9. \A m \in 1 .. Len(q) : m - 1 \in A => m \in A
  <2> SUFFICES ASSUME NEW m \in 1 .. Len(q), c[m - 1] \in Nat
               PROVE  c[m] \in Nat
    OBVIOUS
  <2>1. h[m] \in Nat /\ c[m] = c[m - 1] + h[m]
    BY <1>1, <1>2, <1>7
  <2> QED  BY <2>1
<1>10. \A m \in 0 .. Len(q) : m \in A
  <2> HIDE DEF A
  <2> QED  BY <1>2, <1>8, <1>9, UpTo
<1>11. c \in [0 .. Len(q) -> Nat]
  BY <1>7, <1>10
<1>12. PartialSum(c, h)
  BY <1>2, <1>7, <1>11 DEF PartialSum
<1> QED  BY <1>2, <1>6, <1>12 DEF IsSum, h

LEMMA OwedSumIs ==
  ASSUME NEW q \in Seq(Desc)
  PROVE  IsSum(OwedSum(q), [m \in 1 .. Len(q) |-> Owed(q[m])])
<1> DEFINE h == [m \in 1 .. Len(q) |-> Owed(q[m])]
           P(s) == s = [n \in 0 .. Len(q) |->
                          IF n = 0 THEN 0 ELSE s[n - 1] + Owed(q[n])]
           c == CHOOSE s : P(s)
<1>1. \A m \in 1 .. Len(q) : Owed(q[m]) \in Nat
  BY DescFacts
<1>2. h \in Seq(Nat) /\ Len(h) = Len(q) /\ Len(q) \in Nat
      /\ \A m \in 1 .. Len(q) : h[m] = Owed(q[m])
  BY <1>1
<1> HIDE DEF h
<1>3. PICK g : PartialSum(g, h)
  BY <1>2, PartialSumExists
<1>4. P(g)
  BY <1>2, <1>3 DEF PartialSum
<1>5. P(c)
  BY <1>4
<1>6. OwedSum(q) = c[Len(q)]
  BY DEF OwedSum
<1> HIDE DEF c
<1>7. /\ c[0] = 0 /\ \A n \in 1 .. Len(q) : c[n] = c[n - 1] + h[n]
      /\ c = [n \in 0 .. Len(q) |-> c[n]]
  BY <1>2, <1>5
<1> HIDE DEF P
<1> DEFINE A == {m \in Nat : c[m] \in Nat}
<1>8. 0 \in A
  BY <1>7
<1>9. \A m \in 1 .. Len(q) : m - 1 \in A => m \in A
  <2> SUFFICES ASSUME NEW m \in 1 .. Len(q), c[m - 1] \in Nat
               PROVE  c[m] \in Nat
    OBVIOUS
  <2>1. h[m] \in Nat /\ c[m] = c[m - 1] + h[m]
    BY <1>1, <1>2, <1>7
  <2> QED  BY <2>1
<1>10. \A m \in 0 .. Len(q) : m \in A
  <2> HIDE DEF A
  <2> QED  BY <1>2, <1>8, <1>9, UpTo
<1>11. c \in [0 .. Len(q) -> Nat]
  BY <1>7, <1>10
<1>12. PartialSum(c, h)
  BY <1>2, <1>7, <1>11 DEF PartialSum
<1> QED  BY <1>2, <1>6, <1>12 DEF IsSum, h

\* One more descriptor, and one served, of the sum.
LEMMA ReturnedSumOfMore ==
  ASSUME NEW q \in Seq(Desc), NEW d \in Desc
  PROVE  ReturnedSum(Append(q, d)) = ReturnedSum(q) + ReturnedBy(d)
<1> DEFINE w(p) == [m \in 1 .. Len(p) |-> ReturnedBy(p[m])]
<1>1. \A e \in Desc : ReturnedBy(e) \in Nat
  BY DescFacts
<1>2. w(q) \in Seq(Nat) /\ ReturnedBy(d) \in Nat
  BY <1>1
<1>3. w(Append(q, d)) = Append(w(q), ReturnedBy(d))
  BY <1>1
<1>4. IsSum(ReturnedSum(q), w(q)) /\ IsSum(ReturnedSum(Append(q, d)), w(Append(q, d)))
  <2>1. Append(q, d) \in Seq(Desc)
    OBVIOUS
  <2> QED  BY <2>1, ReturnedSumIs
<1> HIDE DEF w
<1> QED  BY <1>2, <1>3, <1>4, SumOfMore

LEMMA ReturnedSumOfRest ==
  ASSUME NEW q \in Seq(Desc), q # <<>>
  PROVE  ReturnedSum(q) = ReturnedSum(Tail(q)) + ReturnedBy(Head(q))
<1> DEFINE w(p) == [m \in 1 .. Len(p) |-> ReturnedBy(p[m])]
<1>1. \A e \in Desc : ReturnedBy(e) \in Nat
  BY DescFacts
<1>2. w(q) \in Seq(Nat) /\ w(q) # <<>> /\ Head(w(q)) = ReturnedBy(Head(q))
  BY <1>1
<1>3. w(Tail(q)) = Tail(w(q))
  BY <1>1
<1>4. IsSum(ReturnedSum(q), w(q)) /\ IsSum(ReturnedSum(Tail(q)), w(Tail(q)))
  <2>1. Tail(q) \in Seq(Desc)
    OBVIOUS
  <2> QED  BY <2>1, ReturnedSumIs
<1> HIDE DEF w
<1> QED  BY <1>2, <1>3, <1>4, SumOfRest

LEMMA ReturnedSumType ==
  ASSUME NEW q \in Seq(Desc)
  PROVE  ReturnedSum(q) \in Nat /\ (q = <<>> => ReturnedSum(q) = 0)
<1> DEFINE h == [m \in 1 .. Len(q) |-> ReturnedBy(q[m])]
<1>1. h \in Seq(Nat) /\ (q = <<>> => h = <<>>)
  BY DescFacts
<1>2. IsSum(ReturnedSum(q), h)
  BY ReturnedSumIs
<1> HIDE DEF h
<1> QED  BY <1>1, <1>2, SumIsNat, SumOfNone

\* One more descriptor, and one served, of the sum.
LEMMA OwedSumOfMore ==
  ASSUME NEW q \in Seq(Desc), NEW d \in Desc
  PROVE  OwedSum(Append(q, d)) = OwedSum(q) + Owed(d)
<1> DEFINE w(p) == [m \in 1 .. Len(p) |-> Owed(p[m])]
<1>1. \A e \in Desc : Owed(e) \in Nat
  BY DescFacts
<1>2. w(q) \in Seq(Nat) /\ Owed(d) \in Nat
  BY <1>1
<1>3. w(Append(q, d)) = Append(w(q), Owed(d))
  BY <1>1
<1>4. IsSum(OwedSum(q), w(q)) /\ IsSum(OwedSum(Append(q, d)), w(Append(q, d)))
  <2>1. Append(q, d) \in Seq(Desc)
    OBVIOUS
  <2> QED  BY <2>1, OwedSumIs
<1> HIDE DEF w
<1> QED  BY <1>2, <1>3, <1>4, SumOfMore

LEMMA OwedSumOfRest ==
  ASSUME NEW q \in Seq(Desc), q # <<>>
  PROVE  OwedSum(q) = OwedSum(Tail(q)) + Owed(Head(q))
<1> DEFINE w(p) == [m \in 1 .. Len(p) |-> Owed(p[m])]
<1>1. \A e \in Desc : Owed(e) \in Nat
  BY DescFacts
<1>2. w(q) \in Seq(Nat) /\ w(q) # <<>> /\ Head(w(q)) = Owed(Head(q))
  BY <1>1
<1>3. w(Tail(q)) = Tail(w(q))
  BY <1>1
<1>4. IsSum(OwedSum(q), w(q)) /\ IsSum(OwedSum(Tail(q)), w(Tail(q)))
  <2>1. Tail(q) \in Seq(Desc)
    OBVIOUS
  <2> QED  BY <2>1, OwedSumIs
<1> HIDE DEF w
<1> QED  BY <1>2, <1>3, <1>4, SumOfRest

LEMMA OwedSumType ==
  ASSUME NEW q \in Seq(Desc)
  PROVE  OwedSum(q) \in Nat /\ (q = <<>> => OwedSum(q) = 0)
<1> DEFINE h == [m \in 1 .. Len(q) |-> Owed(q[m])]
<1>1. h \in Seq(Nat) /\ (q = <<>> => h = <<>>)
  BY DescFacts
<1>2. IsSum(OwedSum(q), h)
  BY OwedSumIs
<1> HIDE DEF h
<1> QED  BY <1>1, <1>2, SumIsNat, SumOfNone

----------------------------------------------------------------------------
(* The search for a free place of the table.                                *)

LEMMA Division ==
  ASSUME NEW m \in Nat \ {0}, NEW a \in Int
  PROVE  a % m \in 0 .. m - 1 /\ a \div m \in Int /\ a = m * (a \div m) + (a % m)
OBVIOUS

LEMMA Multiple ==
  ASSUME NEW m \in Nat \ {0}, NEW d \in Int, d # 0
  PROVE  m * d >= m \/ m * d <= -m
<1>1. CASE d >= 1
  BY <1>1
<1>2. CASE d <= -1
  BY <1>2
<1> QED  BY <1>1, <1>2

LEMMA UniqueRemainder ==
  ASSUME NEW m \in Nat \ {0}, NEW q \in Int, NEW p \in Int,
         NEW r \in 0 .. m - 1, NEW s \in 0 .. m - 1, m * q + r = m * p + s
  PROVE  q = p /\ r = s
<1>1. m * (q - p) = s - r /\ q - p \in Int
  OBVIOUS
<1>2. q - p = 0
  BY <1>1, Multiple
<1> QED  BY <1>1, <1>2

LEMMA Remainder ==
  ASSUME NEW m \in Nat \ {0}, NEW q \in Int, NEW r \in 0 .. m - 1
  PROVE  (m * q + r) % m = r
<1>1. m * q + r \in Int
  OBVIOUS
<1>2. PICK a \in Int : a = m * q + r
  BY <1>1
<1>3. a % m \in 0 .. m - 1 /\ a \div m \in Int /\ a = m * (a \div m) + (a % m)
  BY Division
<1>4. PICK p \in Int, s \in 0 .. m - 1 : p = a \div m /\ s = a % m
  BY <1>3
<1>5. m * q + r = m * p + s
  BY <1>2, <1>3, <1>4
<1>6. r = s
  BY <1>5, UniqueRemainder
<1> QED  BY <1>2, <1>4, <1>6

LEMMA Around ==
  ASSUME NEW x \in Index, NEW n \in Index
  PROVE  (x + n) % Size = IF x + n < Size THEN x + n ELSE x + n - Size
<1>0. Size \in Nat \ {0}
  BY ParamAssumption DEF ParamAssumption
<1>1. CASE x + n < Size
  <2>1. Size * 0 + (x + n) = x + n /\ x + n \in 0 .. Size - 1
    BY <1>0, <1>1 DEF Index
  <2> QED  BY <1>0, <1>1, <2>1, Remainder
<1>2. CASE x + n >= Size
  <2>1. Size * 1 + (x + n - Size) = x + n /\ x + n - Size \in 0 .. Size - 1
    BY <1>0, <1>2 DEF Index
  <2> QED  BY <1>0, <1>2, <2>1, Remainder DEF Index
<1> QED  BY <1>0, <1>1, <1>2 DEF Index

Pool == [listed : SUBSET Index, idx : Index, free : Nat, stack : Nat, fail : Int]
States == [b : Pool, ring : Seq(Index)]

LEMMA PlaceIsFree ==
  ASSUME NEW b \in Pool, b.listed # Index
  PROVE  Place(b) \in Index /\ Place(b) \notin b.listed
<1> DEFINE at(n) == (b.idx + n) % Size
           Free(n) == at(n) \notin b.listed /\ \A m \in 0 .. n - 1 : at(m) \in b.listed
           S == {n \in Index : at(n) \notin b.listed}
           p == CHOOSE n \in Index : Free(n)
<1>0. Size \in Nat \ {0} /\ b.idx \in Index /\ b.listed \in SUBSET Index
  BY ParamAssumption DEF ParamAssumption, Pool
<1>1. ASSUME NEW n \in Index
      PROVE  at(n) = (IF b.idx + n < Size THEN b.idx + n ELSE b.idx + n - Size)
             /\ at(n) \in Index
  <2>1. at(n) = IF b.idx + n < Size THEN b.idx + n ELSE b.idx + n - Size
    BY <1>0, Around
  <2> HIDE DEF at
  <2> QED  BY <1>0, <2>1 DEF Index
<1>2. PICK i \in Index : i \notin b.listed
  BY <1>0
<1> DEFINE k == IF i >= b.idx THEN i - b.idx ELSE i - b.idx + Size
<1>3. k \in Index /\ at(k) = i
  <2>1. k \in Index
    BY <1>0, <1>2 DEF Index
  <2>2. b.idx + k = i \/ b.idx + k = i + Size
    BY <1>0, <1>2 DEF Index
  <2> HIDE DEF k, at
  <2>3. at(k) = IF b.idx + k < Size THEN b.idx + k ELSE b.idx + k - Size
    BY <1>1, <2>1
  <2> QED  BY <1>0, <1>2, <2>1, <2>2, <2>3 DEF Index
<1>4. S # {} /\ S \in SUBSET Nat
  BY <1>2, <1>3 DEF Index
<1> HIDE DEF k, at
<1>5. PICK n \in S : \A m \in S : n <= m
  <2> HIDE DEF S
  <2> QED  BY <1>4, LeastNat
<1>6. n \in Index /\ Free(n)
  <2>1. \A m \in 0 .. n - 1 : m \in Index /\ m \notin S
    BY <1>0, <1>5 DEF Index
  <2> QED  BY <1>5, <2>1
<1>7. p \in Index /\ Free(p)
  BY <1>6
<1>8. Place(b) = at(p)
  BY DEF Place, at
<1> QED  BY <1>1, <1>7, <1>8

----------------------------------------------------------------------------
(* Lending: what it keeps.                                                  *)

\* t is s after buffers were lent: those added to the table are those pushed,
\* and each was free.
Grown(s, t) ==
  /\ t \in States
  /\ s.b.listed \subseteq t.b.listed
  /\ t.b.stack = s.b.stack
  /\ Cardinality(t.b.listed) + t.b.free = Cardinality(s.b.listed) + s.b.free
  /\ Elems(t.ring) = Elems(s.ring) \cup (t.b.listed \ s.b.listed)
  /\ Len(t.ring) + Cardinality(s.b.listed) = Len(s.ring) + Cardinality(t.b.listed)
  /\ Distinct(s.ring) /\ Elems(s.ring) \subseteq s.b.listed => Distinct(t.ring)

LEMMA StateFacts ==
  ASSUME NEW s \in States
  PROVE  /\ s.b.listed \in SUBSET Index /\ s.b.idx \in Index
         /\ s.b.free \in Nat /\ s.b.stack \in Nat /\ s.b.fail \in Int
         /\ s.ring \in Seq(Index) /\ Len(s.ring) \in Nat
         /\ IsFiniteSet(s.b.listed) /\ Cardinality(s.b.listed) \in Nat
<1>1. s.b \in Pool /\ s.ring \in Seq(Index)
  BY DEF States
<1>2. s.b.listed \in SUBSET Index
  BY <1>1 DEF Pool
<1> QED  BY <1>1, <1>2, IndexFinite DEF Pool

LEMMA GrownSame ==
  ASSUME NEW s \in States, NEW t \in States,
         t.b.listed = s.b.listed, t.b.stack = s.b.stack, t.b.free = s.b.free,
         t.ring = s.ring
  PROVE  Grown(s, t)
BY DEF Grown

LEMMA GrownAgain ==
  ASSUME NEW s \in States, NEW t, NEW u, Grown(s, t), Grown(t, u)
  PROVE  Grown(s, u)
<1>1. t \in States /\ u \in States
  BY DEF Grown
<1>2. /\ Cardinality(s.b.listed) \in Nat /\ Cardinality(t.b.listed) \in Nat
      /\ Cardinality(u.b.listed) \in Nat
      /\ s.b.free \in Nat /\ t.b.free \in Nat /\ u.b.free \in Nat
      /\ Len(s.ring) \in Nat /\ Len(t.ring) \in Nat /\ Len(u.ring) \in Nat
  BY <1>1, StateFacts
<1>3. /\ s.b.listed \subseteq u.b.listed /\ u.b.stack = s.b.stack
      /\ Elems(u.ring) = Elems(s.ring) \cup (u.b.listed \ s.b.listed)
  BY DEF Grown
<1>4. /\ Cardinality(u.b.listed) + u.b.free = Cardinality(s.b.listed) + s.b.free
      /\ Len(u.ring) + Cardinality(s.b.listed) = Len(s.ring) + Cardinality(u.b.listed)
  <2>1. /\ Cardinality(u.b.listed) + u.b.free = Cardinality(t.b.listed) + t.b.free
        /\ Cardinality(t.b.listed) + t.b.free = Cardinality(s.b.listed) + s.b.free
    BY DEF Grown
  <2>2. /\ Len(u.ring) + Cardinality(t.b.listed) = Len(t.ring) + Cardinality(u.b.listed)
        /\ Len(t.ring) + Cardinality(s.b.listed) = Len(s.ring) + Cardinality(t.b.listed)
    BY DEF Grown
  <2>3. Len(u.ring) + Cardinality(s.b.listed) = Len(s.ring) + Cardinality(u.b.listed)
    <3> DEFINE a == Len(u.ring)
               b == Cardinality(t.b.listed)
               c == Len(t.ring)
               d == Cardinality(u.b.listed)
               e == Cardinality(s.b.listed)
               f == Len(s.ring)
    <3>1. /\ a \in Nat /\ b \in Nat /\ c \in Nat /\ d \in Nat /\ e \in Nat /\ f \in Nat
          /\ a + b = c + d /\ c + e = f + b
      BY <1>2, <2>2
    <3> HIDE DEF a, b, c, d, e, f
    <3>2. a + e = f + d
      BY <3>1
    <3> QED  BY <3>2 DEF a, b, c, d, e, f
  <2> QED  BY <2>1, <2>3
<1>5. Distinct(s.ring) /\ Elems(s.ring) \subseteq s.b.listed => Distinct(u.ring)
  BY DEF Grown
<1> QED  BY <1>1, <1>3, <1>4, <1>5 DEF Grown

LEMMA AppendIs ==
  ASSUME NEW q \in Seq(Index), NEW i \in Index
  PROVE  /\ Append(q, i) \in Seq(Index) /\ Len(Append(q, i)) = Len(q) + 1
         /\ Elems(Append(q, i)) = Elems(q) \cup {i}
         /\ Distinct(q) /\ i \notin Elems(q) => Distinct(Append(q, i))
<1> DEFINE r == Append(q, i)
<1>1. /\ r \in Seq(Index) /\ Len(r) = Len(q) + 1 /\ Len(q) \in Nat
      /\ DOMAIN q = 1 .. Len(q) /\ DOMAIN r = 1 .. Len(q) + 1
      /\ r[Len(q) + 1] = i /\ \A n \in 1 .. Len(q) : r[n] = q[n]
  OBVIOUS
<1> HIDE DEF r
<1>2. Elems(r) = Elems(q) \cup {i}
  BY <1>1 DEF Elems
<1>3. Distinct(q) /\ i \notin Elems(q) => Distinct(r)
  BY <1>1 DEF Elems, Distinct
<1> QED  BY <1>1, <1>2, <1>3 DEF r

LEMMA LentOneGrows ==
  ASSUME NEW s \in States, CanAlloc(s.b)
  PROVE  /\ Grown(s, LentOne(s)) /\ LentOne(s).b.fail = s.b.fail
         /\ Len(LentOne(s).ring) = Len(s.ring) + 1
<1> DEFINE i == Place(s.b)
           t == LentOne(s)
<1>0. /\ s.b \in Pool /\ s.ring \in Seq(Index) /\ Size \in Nat \ {0}
      /\ s.b.free > 0 /\ s.b.listed # Index
  BY ParamAssumption DEF States, ParamAssumption, CanAlloc
<1>1. i \in Index /\ i \notin s.b.listed
  BY <1>0, PlaceIsFree
<1> HIDE DEF i
<1>2. (i + 1) % Size \in Index
  BY <1>0, <1>1, Division DEF Index
<1>3. /\ t.b = [s.b EXCEPT !.listed = @ \cup {i}, !.free = @ - 1, !.idx = (i + 1) % Size]
      /\ t.ring = Append(s.ring, i)
      /\ t = [b |-> t.b, ring |-> t.ring]
  BY DEF LentOne, i
<1> HIDE DEF t
<1>4. /\ t.b \in Pool /\ t.b.listed = s.b.listed \cup {i} /\ t.b.free = s.b.free - 1
      /\ t.b.stack = s.b.stack /\ t.b.fail = s.b.fail
  <2>1. /\ s.b = [listed |-> s.b.listed, idx |-> s.b.idx, free |-> s.b.free,
                  stack |-> s.b.stack, fail |-> s.b.fail]
        /\ s.b.listed \in SUBSET Index /\ s.b.free - 1 \in Nat /\ s.b.stack \in Nat
        /\ s.b.fail \in Int
    BY <1>0 DEF Pool
  <2>2. t.b = [listed |-> s.b.listed \cup {i}, idx |-> (i + 1) % Size, free |-> s.b.free - 1,
               stack |-> s.b.stack, fail |-> s.b.fail]
    BY <1>3, <2>1
  <2> QED  BY <1>1, <1>2, <2>1, <2>2 DEF Pool
<1>5. /\ t.ring \in Seq(Index) /\ Len(t.ring) = Len(s.ring) + 1
      /\ Elems(t.ring) = Elems(s.ring) \cup {i}
      /\ Distinct(s.ring) /\ i \notin Elems(s.ring) => Distinct(t.ring)
  BY <1>0, <1>1, <1>3, AppendIs
<1>6. Cardinality(t.b.listed) = Cardinality(s.b.listed) + 1
  BY <1>1, <1>4, StateFacts, FS_AddElement
<1>7. t \in States
  BY <1>3, <1>4, <1>5 DEF States
<1>8. Grown(s, t)
  <2>1. Cardinality(t.b.listed) + t.b.free = Cardinality(s.b.listed) + s.b.free
    BY <1>4, <1>6, StateFacts
  <2>2. Len(t.ring) + Cardinality(s.b.listed) = Len(s.ring) + Cardinality(t.b.listed)
    <3>1. Len(s.ring) \in Nat /\ Cardinality(s.b.listed) \in Nat
      BY StateFacts
    <3> QED  BY <1>5, <1>6, <3>1
  <2>3. Elems(t.ring) = Elems(s.ring) \cup (t.b.listed \ s.b.listed)
    BY <1>1, <1>4, <1>5
  <2>4. Distinct(s.ring) /\ Elems(s.ring) \subseteq s.b.listed => Distinct(t.ring)
    BY <1>1, <1>5
  <2> QED  BY <1>4, <1>7, <2>1, <2>2, <2>3, <2>4 DEF Grown
<1> QED  BY <1>4, <1>5, <1>8 DEF t

\* A buffer lent, or counted as missing.
LEMMA LendGrows ==
  ASSUME NEW s \in States
  PROVE  /\ Grown(s, Lend(s))
         /\ Lend(s).b.fail >= s.b.fail
         /\ Len(Lend(s).ring) + Lend(s).b.fail = Len(s.ring) + s.b.fail + 1
<1>0. s.b \in Pool /\ s.ring \in Seq(Index) /\ s.b.fail \in Int /\ Len(s.ring) \in Nat
  BY StateFacts DEF States
<1>1. CASE CanAlloc(s.b)
  BY <1>0, <1>1, LentOneGrows DEF Lend
<1>2. CASE ~CanAlloc(s.b)
  <2> DEFINE t == [s EXCEPT !.b.fail = @ + 1]
  <2>1. Lend(s) = t
    BY <1>2 DEF Lend
  <2>2. /\ t \in States /\ t.b.listed = s.b.listed /\ t.b.stack = s.b.stack
        /\ t.b.free = s.b.free /\ t.ring = s.ring /\ t.b.fail = s.b.fail + 1
    BY <1>0 DEF States, Pool
  <2> HIDE DEF t
  <2>3. Grown(s, t)
    BY <2>2, GrownSame
  <2> QED  BY <1>0, <2>1, <2>2, <2>3
<1> QED  BY <1>1, <1>2

LEMMA LendManyGrows ==
  ASSUME NEW s \in States, NEW n \in 0 .. MaxMsdu
  PROVE  LET t == LendMany(s, n) IN
         /\ Grown(s, t)
         /\ t.b.fail >= s.b.fail
         /\ Len(t.ring) + t.b.fail = Len(s.ring) + s.b.fail + n
<1> DEFINE P(l) == l = [m \in 0 .. MaxMsdu |-> IF m = 0 THEN s ELSE Lend(l[m - 1])]
           c == CHOOSE l : P(l)
           g == [m \in 0 .. MaxMsdu |-> IF m = 0 THEN s ELSE IF m = 1 THEN Lend(s)
                                        ELSE Lend(Lend(s))]
<1>1. P(g)
  BY DEF MaxMsdu
<1>2. P(c)
  BY <1>1
<1>3. LendMany(s, n) = c[n]
  BY DEF LendMany
<1> HIDE DEF c
<1>4. /\ n = 0 => c[n] = s
      /\ n = 1 => c[n] = Lend(s)
      /\ n = 2 => c[n] = Lend(Lend(s))
  BY <1>2 DEF MaxMsdu
<1> HIDE DEF P
<1>5. s.b.fail \in Int /\ Len(s.ring) \in Nat /\ Grown(s, s)
  BY StateFacts, GrownSame
<1>6. CASE n = 0
  BY <1>3, <1>4, <1>5, <1>6
<1> DEFINE t == Lend(s)
           u == Lend(Lend(s))
<1>7. /\ Grown(s, t) /\ t.b.fail >= s.b.fail /\ t \in States
      /\ Len(t.ring) + t.b.fail = Len(s.ring) + s.b.fail + 1
      /\ t.b.fail \in Int /\ Len(t.ring) \in Nat
  <2>1. /\ Grown(s, t) /\ t.b.fail >= s.b.fail
        /\ Len(t.ring) + t.b.fail = Len(s.ring) + s.b.fail + 1
    BY LendGrows
  <2>2. t \in States
    BY <2>1 DEF Grown
  <2> QED  BY <2>1, <2>2, StateFacts
<1>8. CASE n = 1
  BY <1>3, <1>4, <1>7, <1>8
<1>9. CASE n = 2
  <2>1. /\ Grown(t, u) /\ u.b.fail >= t.b.fail
        /\ Len(u.ring) + u.b.fail = Len(t.ring) + t.b.fail + 1
    <3> HIDE DEF t
    <3>1. t \in States
      BY <1>7
    <3> QED  BY <3>1, LendGrows DEF t
  <2>2. u \in States
    BY <2>1 DEF Grown
  <2>3. u.b.fail \in Int /\ Len(u.ring) \in Nat
    BY <2>2, StateFacts
  <2> HIDE DEF t, u
  <2>4. Grown(s, u)
    BY <1>7, <2>1, GrownAgain
  <2>5. u.b.fail >= s.b.fail
    BY <1>5, <1>7, <2>1, <2>3
  <2>6. Len(u.ring) + u.b.fail = Len(s.ring) + s.b.fail + 2
    BY <1>5, <1>7, <2>1, <2>3
  <2>7. LendMany(s, n) = u
    BY <1>3, <1>4, <1>9 DEF u
  <2> QED  BY <1>9, <2>4, <2>5, <2>6, <2>7
<1> QED  BY <1>6, <1>8, <1>9 DEF MaxMsdu

\* Nothing asked for, nothing lent.
LEMMA LendNone ==
  ASSUME NEW s
  PROVE  LendMany(s, 0) = s
<1> DEFINE P(l) == l = [m \in 0 .. MaxMsdu |-> IF m = 0 THEN s ELSE Lend(l[m - 1])]
           c == CHOOSE l : P(l)
           g == [m \in 0 .. MaxMsdu |-> IF m = 0 THEN s ELSE IF m = 1 THEN Lend(s)
                                        ELSE Lend(Lend(s))]
<1>1. P(g)
  BY DEF MaxMsdu
<1>2. P(c)
  BY <1>1
<1>3. LendMany(s, 0) = c[0]
  BY DEF LendMany
<1> HIDE DEF c
<1> QED  BY <1>2, <1>3 DEF MaxMsdu

\* A failed allocation is tried again.
Again(x) == IF CanAlloc(x.b) THEN LentOne([x EXCEPT !.b.fail = @ - 1]) ELSE x

LEMMA AgainGrows ==
  ASSUME NEW s \in States
  PROVE  LET t == Again(s) IN
         /\ Grown(s, t)
         /\ t.b.fail \in s.b.fail - 1 .. s.b.fail
         /\ Len(t.ring) + t.b.fail = Len(s.ring) + s.b.fail
<1>0. s.b \in Pool /\ s.ring \in Seq(Index) /\ s.b.fail \in Int /\ Len(s.ring) \in Nat
  BY StateFacts DEF States
<1>1. CASE CanAlloc(s.b)
  <2> DEFINE y == [s EXCEPT !.b.fail = @ - 1]
             t == LentOne(y)
  <2>1. /\ y \in States /\ y.b.listed = s.b.listed /\ y.b.stack = s.b.stack
        /\ y.b.free = s.b.free /\ y.ring = s.ring /\ y.b.fail = s.b.fail - 1
    BY <1>0 DEF States, Pool
  <2>2. Again(s) = t
    BY <1>1 DEF Again
  <2> HIDE DEF y
  <2>3. CanAlloc(y.b)
    BY <1>1, <2>1 DEF CanAlloc
  <2>4. /\ Grown(y, t) /\ t.b.fail = y.b.fail /\ Len(t.ring) = Len(y.ring) + 1
    BY <2>1, <2>3, LentOneGrows
  <2> HIDE DEF t
  <2>5. Grown(s, t)
    BY <2>1, <2>4, GrownSame, GrownAgain
  <2> QED  BY <1>0, <2>1, <2>2, <2>4, <2>5
<1>2. CASE ~CanAlloc(s.b)
  <2>1. Again(s) = s
    BY <1>2 DEF Again
  <2> QED  BY <1>0, <2>1, GrownSame
<1> QED  BY <1>1, <1>2

LEMMA FailCheckGrows ==
  ASSUME NEW s \in States, s.b.fail \in Nat
  PROVE  LET t == FailCheck(s) IN
         /\ Grown(s, t)
         /\ t.b.fail \in Nat
         /\ Len(t.ring) + t.b.fail = Len(s.ring) + s.b.fail
<1> DEFINE n == s.b.fail
           P(l) == l = [m \in 0 .. n |-> IF m = 0 THEN s ELSE Again(l[m - 1])]
           c == CHOOSE l : P(l)
           G == [m \in 1 .. n |-> [x \in States |-> Again(x)]]
<1>1. \A x \in States : Again(x) \in States
  BY AgainGrows DEF Grown
<1>2. G \in [1 .. n -> [States -> States]] /\ \A m \in 1 .. n, x \in States : G[m][x] = Again(x)
  BY <1>1
<1> HIDE DEF G
<1>3. PICK g : Run(g, States, s, G, n)
  BY <1>2, RunExists
<1>4. /\ g \in [0 .. n -> States] /\ g[0] = s
      /\ \A m \in 1 .. n : g[m] = Again(g[m - 1])
  <2>1. g \in [0 .. n -> States] /\ g[0] = s
    BY <1>3 DEF Run
  <2>2. ASSUME NEW m \in 1 .. n
        PROVE  g[m] = Again(g[m - 1])
    <3>1. g[m] = G[m][g[m - 1]]
      BY <1>3 DEF Run
    <3>2. g[m - 1] \in States
      BY <2>1
    <3> QED  BY <1>2, <3>1, <3>2
  <2> QED  BY <2>1, <2>2
<1>5. P(g)
  BY <1>4
<1>6. P(c)
  BY <1>5
<1>7. FailCheck(s) = c[n]
  BY DEF FailCheck, Again
<1> HIDE DEF c
<1>8. c[0] = s /\ \A m \in 1 .. n : c[m] = Again(c[m - 1])
  BY <1>6
<1> HIDE DEF P
<1> DEFINE A == {m \in 0 .. n :
                   /\ Grown(s, c[m])
                   /\ c[m].b.fail \in n - m .. n
                   /\ Len(c[m].ring) + c[m].b.fail = Len(s.ring) + s.b.fail}
<1>9. 0 \in A
  BY <1>8, GrownSame
<1>10. \A m \in 1 .. n : m - 1 \in A => m \in A
  <2> SUFFICES ASSUME NEW m \in 1 .. n, m - 1 \in A
               PROVE  m \in A
    OBVIOUS
  <2> DEFINE x == c[m - 1]
             y == c[m]
  <2>1. /\ Grown(s, x) /\ x.b.fail \in n - (m - 1) .. n
        /\ Len(x.ring) + x.b.fail = Len(s.ring) + s.b.fail
    OBVIOUS
  <2>2. x \in States /\ y = Again(x)
    BY <1>8, <2>1 DEF Grown
  <2> HIDE DEF x, y, A
  <2>3. /\ Grown(x, y) /\ y.b.fail \in x.b.fail - 1 .. x.b.fail
        /\ Len(y.ring) + y.b.fail = Len(x.ring) + x.b.fail
    BY <2>2, AgainGrows
  <2>4. Grown(s, y)
    BY <2>1, <2>3, GrownAgain
  <2>5. y.b.fail \in n - m .. n
    BY <2>1, <2>3
  <2> QED  BY <2>1, <2>3, <2>4, <2>5 DEF A, y
<1> HIDE DEF A
<1>11. n \in A
  <2>1. \A m \in 0 .. n : m \in A
    BY <1>9, <1>10, UpTo
  <2> QED  BY <2>1
<1> QED  BY <1>7, <1>11 DEF A

\* The buffers of a new start.
LEMMA InitialGrows ==
  ASSUME NEW b \in Pool
  PROVE  LET s == [b |-> b, ring |-> <<>>]
             t == InitialBuf(b)
         IN  /\ Grown(s, t)
             /\ t.b.fail >= b.fail
             /\ Len(t.ring) + t.b.fail = b.fail + N
<1> DEFINE s == [b |-> b, ring |-> <<>>]
           P(l) == l = [m \in 0 .. N |-> IF m = 0 THEN s ELSE Lend(l[m - 1])]
           c == CHOOSE l : P(l)
           G == [m \in 1 .. N |-> [x \in States |-> Lend(x)]]
<1>0. N \in Nat /\ s \in States /\ b.fail \in Int
  BY ParamAssumption DEF ParamAssumption, States, Pool
<1>1. \A x \in States : Lend(x) \in States
  BY LendGrows DEF Grown
<1>2. G \in [1 .. N -> [States -> States]] /\ \A m \in 1 .. N, x \in States : G[m][x] = Lend(x)
  BY <1>1
<1> HIDE DEF G
<1>3. PICK g : Run(g, States, s, G, N)
  <2> HIDE DEF s
  <2> QED  BY <1>0, <1>2, RunExists
<1>4. /\ g \in [0 .. N -> States] /\ g[0] = s
      /\ \A m \in 1 .. N : g[m] = Lend(g[m - 1])
  <2>1. g \in [0 .. N -> States] /\ g[0] = s
    BY <1>3 DEF Run
  <2>2. ASSUME NEW m \in 1 .. N
        PROVE  g[m] = Lend(g[m - 1])
    <3>1. g[m] = G[m][g[m - 1]]
      BY <1>3 DEF Run
    <3>2. g[m - 1] \in States
      BY <1>0, <2>1
    <3> QED  BY <1>2, <3>1, <3>2
  <2> QED  BY <2>1, <2>2
<1>5. P(g)
  BY <1>0, <1>4
<1>6. P(c)
  BY <1>5
<1>7. InitialBuf(b) = c[N]
  BY DEF InitialBuf
<1> HIDE DEF c
<1>8. c[0] = s /\ \A m \in 1 .. N : c[m] = Lend(c[m - 1])
  BY <1>0, <1>6
<1> HIDE DEF P
<1> DEFINE A == {m \in 0 .. N :
                   /\ Grown(s, c[m])
                   /\ c[m].b.fail \in Int /\ c[m].b.fail >= b.fail
                   /\ Len(c[m].ring) + c[m].b.fail = b.fail + m}
<1>9. 0 \in A
  BY <1>0, <1>8, GrownSame
<1>10. \A m \in 1 .. N : m - 1 \in A => m \in A
  <2> SUFFICES ASSUME NEW m \in 1 .. N, m - 1 \in A
               PROVE  m \in A
    OBVIOUS
  <2> DEFINE x == c[m - 1]
             y == c[m]
  <2>1. /\ Grown(s, x) /\ x.b.fail \in Int /\ x.b.fail >= b.fail
        /\ Len(x.ring) + x.b.fail = b.fail + (m - 1)
    OBVIOUS
  <2>2. x \in States /\ y = Lend(x)
    BY <1>8, <2>1 DEF Grown
  <2> HIDE DEF x, y, A, s
  <2>3. /\ Grown(x, y) /\ y.b.fail >= x.b.fail
        /\ Len(y.ring) + y.b.fail = Len(x.ring) + x.b.fail + 1
    BY <2>2, LendGrows
  <2>4. Grown(s, y)
    BY <1>0, <2>1, <2>3, GrownAgain
  <2>5. y \in States /\ y.b.fail \in Int /\ Len(y.ring) \in Nat /\ Len(x.ring) \in Nat
    BY <2>2, <2>3, StateFacts DEF Grown
  <2>6. y.b.fail >= b.fail /\ Len(y.ring) + y.b.fail = b.fail + m
    BY <1>0, <2>1, <2>3, <2>5
  <2> QED  BY <2>4, <2>5, <2>6 DEF A, y
<1> HIDE DEF A
<1>11. N \in A
  <2>1. \A m \in 0 .. N : m \in A
    BY <1>0, <1>9, <1>10, UpTo
  <2> QED  BY <1>0, <2>1
<1> QED  BY <1>7, <1>11 DEF A

----------------------------------------------------------------------------
(* What the host does with a descriptor.                                    *)

\* The buffers it returns leave the table, and those pushed were not in it.
Served(s, t, d) ==
  /\ t \in States /\ t.b.fail \in Nat
  /\ \E new \in SUBSET Index :
       /\ new \cap (s.b.listed \ Returned(d)) = {}
       /\ t.b.listed = (s.b.listed \ Returned(d)) \cup new
       /\ Elems(t.ring) = Elems(s.ring) \cup new
  /\ Distinct(t.ring)
  /\ Cardinality(t.b.listed) + t.b.free + t.b.stack
       = Cardinality(s.b.listed) + s.b.free + s.b.stack
  /\ Len(t.ring) + Cardinality(s.b.listed)
       = Len(s.ring) + Cardinality(t.b.listed) + ReturnedBy(d)
  /\ Len(t.ring) + t.b.fail <= Len(s.ring) + s.b.fail + Owed(d)
  /\ ~MonitorVif => Len(t.ring) + t.b.fail = Len(s.ring) + s.b.fail + Owed(d)

LEMMA PullIs ==
  ASSUME NEW s \in States, NEW ids \in SUBSET s.b.listed, NEW t \in {PullUp(s, ids), PullFree(s, ids)}
  PROVE  /\ t \in States /\ t.b.listed = s.b.listed \ ids
         /\ t.ring = s.ring /\ t.b.fail = s.b.fail
         /\ Cardinality(t.b.listed) = Cardinality(s.b.listed) - Cardinality(ids)
         /\ t.b.free + t.b.stack = s.b.free + s.b.stack + Cardinality(ids)
         /\ Cardinality(ids) \in Nat
<1>1. s.b \in Pool /\ s.ring \in Seq(Index) /\ ids \in SUBSET Index
  BY StateFacts DEF States
<1>2. Cardinality(ids) \in Nat /\ IsFiniteSet(ids)
  BY <1>1, IndexFinite
<1>3. Cardinality(s.b.listed \ ids) = Cardinality(s.b.listed) - Cardinality(ids)
  <2>1. /\ IsFiniteSet(s.b.listed \ ids) /\ Cardinality(s.b.listed \ ids) \in Nat
        /\ s.b.listed = (s.b.listed \ ids) \cup ids /\ (s.b.listed \ ids) \cap ids = {}
    BY <1>1, IndexFinite DEF Pool
  <2>2. Cardinality(s.b.listed) = Cardinality(s.b.listed \ ids) + Cardinality(ids) - Cardinality({})
    BY <1>2, <2>1, FS_Union
  <2> QED  BY <1>2, <2>1, <2>2, FS_EmptySet
<1>4. /\ s = [b |-> s.b, ring |-> s.ring]
      /\ s.b = [listed |-> s.b.listed, idx |-> s.b.idx, free |-> s.b.free,
                stack |-> s.b.stack, fail |-> s.b.fail]
      /\ s.b.listed \in SUBSET Index /\ s.b.idx \in Index /\ s.b.free \in Nat
      /\ s.b.stack \in Nat /\ s.b.fail \in Int
  BY <1>1 DEF States, Pool
<1> DEFINE k == Cardinality(ids)
<1>5. \/ t = [b |-> [listed |-> s.b.listed \ ids, idx |-> s.b.idx, free |-> s.b.free,
                     stack |-> s.b.stack + k, fail |-> s.b.fail], ring |-> s.ring]
      \/ t = [b |-> [listed |-> s.b.listed \ ids, idx |-> s.b.idx, free |-> s.b.free + k,
                     stack |-> s.b.stack, fail |-> s.b.fail], ring |-> s.ring]
  <2> HIDE DEF k
  <2>1. CASE t = PullUp(s, ids)
    BY <1>4, <2>1 DEF PullUp, Unlisted, k
  <2>2. CASE t = PullFree(s, ids)
    BY <1>4, <2>2 DEF PullFree, Unlisted, k
  <2> QED  BY <2>1, <2>2
<1>6. k \in Nat
  BY <1>2
<1> HIDE DEF k
<1>7. t \in States
  BY <1>1, <1>4, <1>5, <1>6 DEF States, Pool
<1>8. t.b.free + t.b.stack = s.b.free + s.b.stack + k
  BY <1>4, <1>5, <1>6
<1>9. t.b.listed = s.b.listed \ ids /\ t.ring = s.ring /\ t.b.fail = s.b.fail
  BY <1>5
<1> QED  BY <1>2, <1>3, <1>7, <1>8, <1>9 DEF k

\* One pull, then lending.
LEMMA PulledAndLent ==
  ASSUME NEW s \in States, s.b.fail \in Nat, NEW d \in Desc,
         Distinct(s.ring), Elems(s.ring) \subseteq s.b.listed,
         Returned(d) \subseteq s.b.listed, Returned(d) \cap Elems(s.ring) = {},
         NEW u \in {PullUp(s, Returned(d)), PullFree(s, Returned(d))} , NEW n \in 0 .. MaxMsdu,
         n <= Owed(d), ~MonitorVif => n = Owed(d)
  PROVE  Served(s, LendMany(u, n), d)
<1> DEFINE t == LendMany(u, n)
           new == t.b.listed \ u.b.listed
           R == Returned(d)
<1>1. /\ u \in States /\ u.b.listed = s.b.listed \ R
      /\ u.ring = s.ring /\ u.b.fail = s.b.fail
      /\ Cardinality(u.b.listed) = Cardinality(s.b.listed) - Cardinality(R)
      /\ u.b.free + u.b.stack = s.b.free + s.b.stack + Cardinality(R)
      /\ Cardinality(R) \in Nat
  BY PullIs
<1>2. /\ Grown(u, t) /\ t.b.fail >= u.b.fail
      /\ Len(t.ring) + t.b.fail = Len(u.ring) + u.b.fail + n
  BY <1>1, LendManyGrows
<1> HIDE DEF t
<1>3. /\ t \in States /\ u.b.listed \subseteq t.b.listed /\ t.b.stack = u.b.stack
      /\ Elems(t.ring) = Elems(u.ring) \cup new
      /\ Distinct(u.ring) /\ Elems(u.ring) \subseteq u.b.listed => Distinct(t.ring)
  BY <1>2 DEF Grown
<1>4. /\ Cardinality(t.b.listed) + t.b.free = Cardinality(u.b.listed) + u.b.free
      /\ Len(t.ring) + Cardinality(u.b.listed) = Len(u.ring) + Cardinality(t.b.listed)
  BY <1>2 DEF Grown
<1>5. /\ Cardinality(s.b.listed) \in Nat /\ Cardinality(t.b.listed) \in Nat
      /\ s.b.free \in Nat /\ s.b.stack \in Nat /\ u.b.free \in Nat /\ u.b.stack \in Nat
      /\ t.b.free \in Nat /\ Len(s.ring) \in Nat /\ Len(t.ring) \in Nat
      /\ t.b.fail \in Int /\ t.b.listed \in SUBSET Index
  BY <1>1, <1>3, StateFacts
<1>6. Owed(d) \in Nat /\ ReturnedBy(d) = Cardinality(R)
  BY DescFacts DEF ReturnedBy
<1>7. Cardinality(t.b.listed) + t.b.free + t.b.stack
        = Cardinality(s.b.listed) + s.b.free + s.b.stack
  <2> DEFINE ct == Cardinality(t.b.listed)
             cu == Cardinality(u.b.listed)
             cs == Cardinality(s.b.listed)
             cr == Cardinality(R)
             tf == t.b.free
             uf == u.b.free
             sf == s.b.free
             us == u.b.stack
             ss == s.b.stack
  <2>1. /\ ct \in Nat /\ cs \in Nat /\ cr \in Nat /\ tf \in Nat /\ uf \in Nat /\ sf \in Nat
        /\ us \in Nat /\ ss \in Nat
        /\ cu = cs - cr /\ uf + us = sf + ss + cr /\ ct + tf = cu + uf
    BY <1>1, <1>4, <1>5
  <2> HIDE DEF ct, cu, cs, cr, tf, uf, sf, us, ss
  <2>2. ct + tf + us = cs + sf + ss
    BY <2>1
  <2>3. t.b.stack = us
    BY <1>3 DEF us
  <2> QED  BY <2>2, <2>3 DEF ct, cs, tf, sf, ss
<1>8. Len(t.ring) + Cardinality(s.b.listed)
        = Len(s.ring) + Cardinality(t.b.listed) + ReturnedBy(d)
  BY <1>1, <1>4, <1>5, <1>6
<1>9. t.b.fail \in Nat
  BY <1>1, <1>2, <1>5
<1>10. /\ Len(t.ring) + t.b.fail <= Len(s.ring) + s.b.fail + Owed(d)
       /\ ~MonitorVif => Len(t.ring) + t.b.fail = Len(s.ring) + s.b.fail + Owed(d)
  <2> DEFINE a == Len(t.ring) + t.b.fail
             b == Len(s.ring) + s.b.fail
  <2>1. a = b + n
    BY <1>1, <1>2
  <2>2. b \in Int
    BY <1>5
  <2> HIDE DEF a, b
  <2>3. n \in Nat /\ n <= Owed(d) /\ a <= b + Owed(d) /\ (~MonitorVif => a = b + Owed(d))
    BY <1>6, <2>1, <2>2 DEF MaxMsdu
  <2> QED  BY <2>3 DEF a, b
<1>11. /\ new \in SUBSET Index /\ new \cap (s.b.listed \ R) = {}
       /\ t.b.listed = (s.b.listed \ R) \cup new
       /\ Elems(t.ring) = Elems(s.ring) \cup new
  BY <1>1, <1>3, <1>5
<1>12. Distinct(t.ring)
  BY <1>1, <1>3
<1> HIDE DEF new
<1> QED  BY <1>3, <1>7, <1>8, <1>9, <1>10, <1>11, <1>12 DEF Served, t

\* The first buffer pulled, the new ones lent, the second pulled, both freed.
LEMMA FailingIsServed ==
  ASSUME NEW s \in States, s.b.fail \in Nat, NEW d \in Desc,
         Distinct(s.ring), Elems(s.ring) \subseteq s.b.listed,
         Returned(d) \subseteq s.b.listed, Returned(d) \cap Elems(s.ring) = {},
         d.ids[1] \in Returned(d), Returned(d) = Ids(d), Asked(d) \in 0 .. MaxMsdu,
         Asked(d) = Owed(d)
  PROVE  Served(s, ForwardFails(s, d), d)
<1> DEFINE i == d.ids[1]
           n == Asked(d)
           R == Returned(d)
           u == Unlisted(s, {i})
           v == LendMany(u, n)
           rest == R \ {i}
           x == PullFree(v, rest)
           t == [x EXCEPT !.b.free = @ + 1]
           new == v.b.listed \ u.b.listed
<1>0. ForwardFails(s, d) = t
  BY DEF ForwardFails
<1>1. /\ u \in States /\ u.b.listed = s.b.listed \ {i}
      /\ u.ring = s.ring /\ u.b.fail = s.b.fail
      /\ Cardinality(u.b.listed) = Cardinality(s.b.listed) - 1
      /\ u.b.free = s.b.free /\ u.b.stack = s.b.stack
  <2>1. {i} \in SUBSET s.b.listed /\ Cardinality({i}) = 1
    BY FS_Singleton
  <2>2. /\ PullUp(s, {i}).b.listed = s.b.listed \ {i}
        /\ Cardinality(PullUp(s, {i}).b.listed) = Cardinality(s.b.listed) - Cardinality({i})
    BY <2>1, PullIs
  <2>3. /\ s = [b |-> s.b, ring |-> s.ring] /\ s.ring \in Seq(Index)
        /\ s.b = [listed |-> s.b.listed, idx |-> s.b.idx, free |-> s.b.free,
                  stack |-> s.b.stack, fail |-> s.b.fail]
        /\ s.b.listed \in SUBSET Index /\ s.b.idx \in Index /\ s.b.free \in Nat
        /\ s.b.stack \in Nat /\ s.b.fail \in Int
    BY DEF States, Pool
  <2> HIDE DEF i
  <2>4. u = [b |-> [listed |-> s.b.listed \ {i}, idx |-> s.b.idx, free |-> s.b.free,
                    stack |-> s.b.stack, fail |-> s.b.fail], ring |-> s.ring]
    <3>1. u = [s EXCEPT !.b = [s.b EXCEPT !.listed = s.b.listed \ {i}]]
      BY <2>3 DEF Unlisted
    <3> QED  BY ONLY <2>3, <3>1
  <2> HIDE DEF u
  <2>5. u \in States
    BY <2>3, <2>4 DEF States, Pool
  <2> QED  BY <2>1, <2>2, <2>4, <2>5
<1>20. i \in R /\ n = Owed(d) /\ n \in 0 .. MaxMsdu
  OBVIOUS
<1> HIDE DEF u
<1>2. /\ Grown(u, v) /\ v.b.fail >= u.b.fail
      /\ Len(v.ring) + v.b.fail = Len(u.ring) + u.b.fail + n
  BY <1>1, LendManyGrows
<1> HIDE DEF v, i, n
<1>3. /\ v \in States /\ u.b.listed \subseteq v.b.listed /\ v.b.stack = u.b.stack
      /\ Elems(v.ring) = Elems(u.ring) \cup new
      /\ Distinct(u.ring) /\ Elems(u.ring) \subseteq u.b.listed => Distinct(v.ring)
  BY <1>2 DEF Grown
<1>4. /\ Cardinality(v.b.listed) + v.b.free = Cardinality(u.b.listed) + u.b.free
      /\ Len(v.ring) + Cardinality(u.b.listed) = Len(u.ring) + Cardinality(v.b.listed)
  BY <1>2 DEF Grown
<1>15. /\ x \in States /\ x.b.listed = v.b.listed \ rest
       /\ x.ring = v.ring /\ x.b.fail = v.b.fail
       /\ Cardinality(x.b.listed) = Cardinality(v.b.listed) - Cardinality(rest)
       /\ x.b.free + x.b.stack = v.b.free + v.b.stack + Cardinality(rest)
       /\ Cardinality(rest) \in Nat
  <2>1. rest \in SUBSET v.b.listed
    BY <1>1, <1>3
  <2> QED  BY <1>3, <2>1, PullIs
<1> HIDE DEF x
<1>5. /\ t \in States /\ t.b.listed = v.b.listed \ rest
      /\ t.ring = v.ring /\ t.b.fail = v.b.fail
      /\ Cardinality(t.b.listed) = Cardinality(v.b.listed) - Cardinality(rest)
      /\ t.b.free + t.b.stack = v.b.free + v.b.stack + Cardinality(rest) + 1
      /\ Cardinality(rest) \in Nat
  <2>1. /\ x = [b |-> x.b, ring |-> x.ring] /\ x.ring \in Seq(Index)
        /\ x.b = [listed |-> x.b.listed, idx |-> x.b.idx, free |-> x.b.free,
                  stack |-> x.b.stack, fail |-> x.b.fail]
        /\ x.b.listed \in SUBSET Index /\ x.b.idx \in Index /\ x.b.free \in Nat
        /\ x.b.stack \in Nat /\ x.b.fail \in Int
    BY <1>15 DEF States, Pool
  <2>2. t = [b |-> [listed |-> x.b.listed, idx |-> x.b.idx, free |-> x.b.free + 1,
                    stack |-> x.b.stack, fail |-> x.b.fail], ring |-> x.ring]
    BY <2>1
  <2>3. t \in States
    BY <2>1, <2>2 DEF States, Pool
  <2>4. /\ t.b.listed = x.b.listed /\ t.ring = x.ring /\ t.b.fail = x.b.fail
        /\ t.b.free = x.b.free + 1 /\ t.b.stack = x.b.stack
    BY <2>2
  <2> DEFINE a == v.b.free
             b == v.b.stack
             c == Cardinality(rest)
             e == x.b.free
             f == x.b.stack
  <2>5. a \in Nat /\ b \in Nat /\ c \in Nat /\ e \in Nat /\ f \in Nat /\ e + f = a + b + c
    BY <1>3, <1>15, <2>1, StateFacts
  <2> HIDE DEF a, b, c, e, f
  <2>6. (e + 1) + f = a + b + c + 1
    BY <2>5
  <2> QED  BY <1>15, <2>3, <2>4, <2>6 DEF a, b, c, e, f
<1> HIDE DEF t
<1>6. Cardinality(R) = Cardinality(rest) + 1 /\ ReturnedBy(d) = Cardinality(R)
  <2>1. IsFiniteSet(rest)
    BY DescFacts, IndexFinite
  <2>2. rest \cup {i} = R /\ i \notin rest
    BY <1>20
  <2>3. Cardinality(rest \cup {i}) = Cardinality(rest) + 1
    BY <2>1, <2>2, FS_AddElement
  <2> QED  BY <2>2, <2>3 DEF ReturnedBy
<1> DEFINE cs == Cardinality(s.b.listed)
           cu == Cardinality(u.b.listed)
           cv == Cardinality(v.b.listed)
           ct == Cardinality(t.b.listed)
           cr == Cardinality(rest)
<1>7. /\ cs \in Nat /\ cu \in Nat /\ cv \in Nat /\ ct \in Nat /\ cr \in Nat
      /\ s.b.free \in Nat /\ u.b.free \in Nat /\ v.b.free \in Nat /\ t.b.free \in Nat
      /\ s.b.stack \in Nat /\ u.b.stack \in Nat /\ v.b.stack \in Nat /\ t.b.stack \in Nat
      /\ v.b.fail \in Int /\ Len(s.ring) \in Nat /\ Len(v.ring) \in Nat
      /\ v.b.listed \in SUBSET Index
  BY <1>1, <1>3, <1>5, StateFacts
<1>8. /\ cu = cs - 1 /\ cv + v.b.free = cu + u.b.free /\ ct = cv - cr
      /\ Len(v.ring) + cu = Len(u.ring) + cv /\ u.ring = s.ring /\ t.ring = v.ring
      /\ ReturnedBy(d) = cr + 1
      /\ u.b.free = s.b.free /\ u.b.stack = s.b.stack /\ v.b.stack = u.b.stack
      /\ t.b.free + t.b.stack = v.b.free + v.b.stack + cr + 1
  BY <1>1, <1>3, <1>4, <1>5, <1>6
<1> HIDE DEF cs, cu, cv, ct, cr
<1>9. ct + t.b.free + t.b.stack = cs + s.b.free + s.b.stack
  <2> DEFINE sf == s.b.free
             ss == s.b.stack
             vf == v.b.free
             vs == v.b.stack
             tf == t.b.free
             ts == t.b.stack
  <2>1. /\ sf \in Nat /\ ss \in Nat
        /\ vf \in Nat /\ vs \in Nat /\ tf \in Nat /\ ts \in Nat
    BY <1>7
  <2>2. /\ cu = cs - 1 /\ cv + vf = cu + sf /\ ct = cv - cr
        /\ vs = ss /\ tf + ts = vf + vs + cr + 1
    BY <1>8
  <2> HIDE DEF sf, ss, vf, vs, tf, ts
  <2>3. cs \in Nat /\ cu \in Nat /\ cv \in Nat /\ ct \in Nat /\ cr \in Nat
    BY <1>7
  <2>4. ct + tf + ts = cs + sf + ss
    BY <2>1, <2>2, <2>3
  <2> QED  BY <2>4 DEF sf, ss, tf, ts
<1>10. Len(t.ring) + cs = Len(s.ring) + ct + ReturnedBy(d)
  <2> DEFINE lv == Len(v.ring)
             ls == Len(s.ring)
             rb == ReturnedBy(d)
  <2>1. lv \in Nat /\ ls \in Nat
    BY <1>7
  <2>2. /\ lv + cu = ls + cv /\ rb = cr + 1 /\ cu = cs - 1 /\ ct = cv - cr
    BY <1>8
  <2>3. cs \in Nat /\ cu \in Nat /\ cv \in Nat /\ ct \in Nat /\ cr \in Nat
    BY <1>7
  <2> HIDE DEF lv, ls, rb
  <2>4. lv + cs = ls + ct + rb
    BY <2>1, <2>2, <2>3
  <2> QED  BY <1>8, <2>4 DEF lv, ls, rb
<1>11. /\ t.b.fail \in Nat
       /\ Len(t.ring) + t.b.fail = Len(s.ring) + s.b.fail + Owed(d)
  <2>1. v.b.fail >= s.b.fail /\ v.b.fail \in Int /\ t.b.fail = v.b.fail
    BY <1>1, <1>2, <1>5, <1>7
  <2>2. t.b.fail \in Nat
    BY <2>1
  <2>3. Len(v.ring) + v.b.fail = Len(s.ring) + s.b.fail + Owed(d)
    BY <1>1, <1>2, <1>20
  <2> QED  BY <1>5, <2>2, <2>3
<1>12. /\ new \in SUBSET Index /\ new \cap (s.b.listed \ R) = {}
       /\ t.b.listed = (s.b.listed \ R) \cup new
       /\ Elems(t.ring) = Elems(s.ring) \cup new
  BY <1>1, <1>3, <1>5, <1>7, <1>20
<1>13. Distinct(t.ring)
  BY <1>1, <1>3, <1>5, <1>20
<1>14. Owed(d) \in Nat
  BY DescFacts
<1> HIDE DEF new
<1>16. Len(t.ring) + t.b.fail <= Len(s.ring) + s.b.fail + Owed(d)
  <2>1. Len(s.ring) + s.b.fail + Owed(d) \in Int
    BY <1>7, <1>14
  <2> QED  BY <1>11, <2>1
<1>17. Served(s, t, d)
  BY <1>5, <1>9, <1>10, <1>11, <1>12, <1>13, <1>16 DEF Served, cs, ct
<1> QED  BY <1>0, <1>17

\* The same buffer pushed again.
LEMMA PushedAgain ==
  ASSUME NEW s \in States, s.b.fail \in Nat, NEW d \in Desc,
         Distinct(s.ring), Elems(s.ring) \subseteq s.b.listed,
         Returned(d) \subseteq s.b.listed, Returned(d) \cap Elems(s.ring) = {},
         NEW i \in Index, Returned(d) = {i}, Owed(d) = 1
  PROVE  Served(s, Repush(s, i), d)
<1> DEFINE t == Repush(s, i)
<1>1. s.b \in Pool /\ s.ring \in Seq(Index) /\ s = [b |-> s.b, ring |-> s.ring]
  BY DEF States
<1>2. t = [b |-> s.b, ring |-> Append(s.ring, i)]
  BY <1>1, AppendIs DEF Repush, States
<1> HIDE DEF t
<1>3. /\ t.b = s.b /\ t.ring = Append(s.ring, i) /\ t.ring \in Seq(Index) /\ t \in States
      /\ Len(t.ring) = Len(s.ring) + 1
      /\ Elems(t.ring) = Elems(s.ring) \cup {i}
      /\ Distinct(t.ring)
  BY <1>1, <1>2, AppendIs DEF States
<1>4. Len(s.ring) \in Nat /\ Cardinality(s.b.listed) \in Nat /\ s.b.fail \in Nat
  BY StateFacts
<1>5. ReturnedBy(d) = 1
  BY FS_Singleton DEF ReturnedBy
<1>6. /\ {i} \in SUBSET Index /\ {i} \cap (s.b.listed \ {i}) = {}
      /\ t.b.listed = (s.b.listed \ {i}) \cup {i}
  BY <1>3
<1>7. /\ Len(t.ring) + Cardinality(s.b.listed)
           = Len(s.ring) + Cardinality(t.b.listed) + ReturnedBy(d)
      /\ Len(t.ring) + t.b.fail = Len(s.ring) + s.b.fail + Owed(d)
      /\ Len(t.ring) + t.b.fail <= Len(s.ring) + s.b.fail + Owed(d)
  <2> DEFINE a == Len(t.ring)
             b == Len(s.ring)
             c == Cardinality(s.b.listed)
             f == s.b.fail
  <2>1. a = b + 1 /\ b \in Nat /\ c \in Nat /\ f \in Nat
    BY <1>3, <1>4
  <2> HIDE DEF a, b, c, f
  <2>2. a + c = b + c + 1 /\ a + f = b + f + 1 /\ a + f <= b + f + 1
    BY <2>1
  <2> QED  BY <1>3, <1>5, <2>2 DEF a, b, c, f
<1> QED  BY <1>3, <1>4, <1>6, <1>7 DEF Served, t

\* Pulling nothing.
LEMMA PullNone ==
  ASSUME NEW s \in States
  PROVE  PullUp(s, {}) = s
<1>1. /\ s.b \in [listed : SUBSET Index, idx : Index, free : Nat, stack : Nat, fail : Int]
      /\ s = [b |-> s.b, ring |-> s.ring]
  BY DEF States, Pool
<1>2. /\ s.b = [listed |-> s.b.listed, idx |-> s.b.idx, free |-> s.b.free,
                stack |-> s.b.stack, fail |-> s.b.fail]
      /\ s.b.stack \in Nat /\ Cardinality({}) = 0
  BY <1>1, FS_EmptySet
<1>3. s.b.listed \ {} = s.b.listed /\ s.b.stack + 0 = s.b.stack
  BY <1>2
<1> QED  BY <1>1, <1>2, <1>3 DEF PullUp, Unlisted

\* Every status a descriptor may have.
LEMMA EachIsServed ==
  ASSUME NEW s \in States, s.b.fail \in Nat, NEW d \in Desc,
         Distinct(s.ring), Elems(s.ring) \subseteq s.b.listed,
         Returned(d) \subseteq s.b.listed, Returned(d) \cap Elems(s.ring) = {},
         NEW t \in Results(s, d)
  PROVE  Served(s, t, d) \/ (MonitorVif /\ t = s)
<1>1. /\ d.ids \in Seq(Index) /\ Len(d.ids) \in 1 .. MaxMsdu /\ d.ids[1] \in Ids(d)
      /\ Ids(d) \in SUBSET Index
      /\ d.status \in Single => Ids(d) = {d.ids[1]} /\ Len(d.ids) = 1 /\ Asked(d) = 0
      /\ d.status \notin Single => Asked(d) = Len(d.ids)
      /\ Asked(d) \in 0 .. MaxMsdu /\ Owed(d) \in Nat
  BY DescFacts
<1>2. d.status \in Single \cup {{"FORWARD", "ALLOC"}, {"ALLOC"}}
  BY DEF Desc
<1>3. 0 \in 0 .. MaxMsdu
  BY DEF MaxMsdu
<1>4. ASSUME NEW u \in {PullUp(s, Returned(d)), PullFree(s, Returned(d))}, Asked(d) = 0,
             ~MonitorVif => Owed(d) = 0
      PROVE  Served(s, u, d)
  <2>1. Served(s, LendMany(u, 0), d)
    BY <1>1, <1>3, <1>4, PulledAndLent
  <2> QED  BY <2>1, LendNone
<1>5. CASE d.status = {"DELETE"}
  <2>1. d.status \in Single /\ Returned(d) = Ids(d) /\ t = PullFree(s, Ids(d))
    BY <1>5 DEF Returned, Results, Single
  <2>2. Owed(d) = 0
    BY <1>1, <1>5, <2>1 DEF Owed
  <2> QED  BY <1>1, <1>4, <2>1, <2>2
<1>6. CASE d.status = {"MONITOR"}
  <2>1. MonitorVif
    BY <1>2, <1>6 DEF Single
  <2>2. d.status \in Single /\ Returned(d) = Ids(d) /\ t \in Monitor(s, d)
    BY <1>6, <2>1 DEF Returned, Results, Single
  <2>3. t \in {PullUp(s, Returned(d)), PullFree(s, Returned(d))} \/ t = s
    BY <2>2 DEF Monitor
  <2> QED  BY <1>1, <1>4, <2>1, <2>2, <2>3
<1>7. CASE d.status = {"LEN_UPDATE"}
  <2>1. d.status \in Single /\ Returned(d) = {} /\ t = s
    BY <1>7 DEF Returned, Results, Single
  <2>2. Owed(d) = 0
    BY <1>1, <1>7, <2>1 DEF Owed
  <2> QED  BY <1>1, <1>4, <2>1, <2>2, PullNone
<1>8. CASE d.status = {"SPURIOUS"}
  <2>1. d.status \in Single /\ Returned(d) = Ids(d) /\ t = Repush(s, d.ids[1])
    BY <1>8 DEF Returned, Results, Single
  <2>2. Owed(d) = 1
    BY <1>1, <1>8, <2>1 DEF Owed
  <2> QED  BY <1>1, <2>1, <2>2, PushedAgain
<1>9. CASE d.status = {"FORWARD"}
  <2>1. /\ d.status \in Single /\ Returned(d) = Ids(d)
        /\ t \in {Forward(s, d), ForwardFails(s, d), ForwardDrops(s, d)}
    BY <1>9 DEF Returned, Results, Single
  <2>2. Owed(d) = 0
    BY <1>1, <1>9, <2>1 DEF Owed
  <2>3. CASE t \in {Forward(s, d), ForwardDrops(s, d)}
    <3>1. PullUp(s, Returned(d)) = t \/ PullFree(s, Returned(d)) = t
      BY <1>1, <2>1, <2>3, LendNone DEF Forward, ForwardDrops
    <3> QED  BY <1>1, <1>4, <2>1, <2>2, <3>1
  <2>4. CASE t = ForwardFails(s, d)
    BY <1>1, <2>1, <2>2, <2>4, FailingIsServed
  <2> QED  BY <2>1, <2>3, <2>4
<1>10. CASE d.status = {"FORWARD", "ALLOC"}
  <2>1. /\ d.status \notin Single /\ Returned(d) = Ids(d)
        /\ t \in {Forward(s, d), ForwardFails(s, d), ForwardDrops(s, d)}
    BY <1>10 DEF Returned, Results, Single
  <2>2. Owed(d) = Asked(d)
    BY <1>1, <1>10 DEF Owed
  <2>3. CASE t = Forward(s, d)
    BY <1>1, <2>1, <2>2, <2>3, PulledAndLent DEF Forward
  <2>4. CASE t = ForwardDrops(s, d)
    BY <1>1, <2>1, <2>2, <2>4, PulledAndLent DEF ForwardDrops
  <2>5. CASE t = ForwardFails(s, d)
    BY <1>1, <2>1, <2>2, <2>5, FailingIsServed
  <2> QED  BY <2>1, <2>3, <2>4, <2>5
<1>11. CASE d.status = {"ALLOC"}
  <2>1. Returned(d) = {} /\ t = LendMany(s, Asked(d)) /\ Owed(d) = Asked(d)
    BY <1>1, <1>11 DEF Returned, Results, Owed
  <2>2. s \in {PullUp(s, Returned(d)), PullFree(s, Returned(d))}
    BY <2>1, PullNone
  <2>3. Asked(d) <= Owed(d) /\ (~MonitorVif => Asked(d) = Owed(d))
    BY <1>1, <2>1
  <2>4. Served(s, LendMany(s, Asked(d)), d)
    BY <1>1, <2>2, <2>3, PulledAndLent
  <2> QED  BY <2>1, <2>4
<1> QED  BY <1>2, <1>5, <1>6, <1>7, <1>8, <1>9, <1>10, <1>11 DEF Single

----------------------------------------------------------------------------
(* The queue of filled descriptors.                                         *)

ReturnedOf(q) == UNION {Returned(q[n]) : n \in DOMAIN q}

\* No buffer is returned twice.
OnceEach(q) == \A m, n \in DOMAIN q : Returned(q[m]) \cap Returned(q[n]) # {} => m = n

\* What a descriptor names is in the reordering or still to be returned.
AwaitedIn(q, w) ==
  \A n \in DOMAIN q : \A i \in Ids(q[n]) :
    i \in w \/ \E m \in DOMAIN q : m >= n /\ i \in Returned(q[m])

LEMMA QueueOfMore ==
  ASSUME NEW q \in Seq(Desc), NEW d \in Desc
  PROVE  LET r == Append(q, d) IN
         /\ r \in Seq(Desc) /\ Len(r) = Len(q) + 1
         /\ ReturnedOf(r) = ReturnedOf(q) \cup Returned(d)
         /\ OnceEach(q) /\ Returned(d) \cap ReturnedOf(q) = {} => OnceEach(r)
         /\ \A v, w : (/\ AwaitedIn(q, w)
                       /\ w \subseteq v \cup Returned(d)
                       /\ Ids(d) \subseteq v \cup Returned(d)) => AwaitedIn(r, v)
<1> DEFINE r == Append(q, d)
           k == Len(q) + 1
<1>1. /\ r \in Seq(Desc) /\ Len(r) = k /\ Len(q) \in Nat
      /\ DOMAIN q = 1 .. Len(q) /\ DOMAIN r = 1 .. k
      /\ k \in DOMAIN r /\ r[k] = d /\ \A n \in DOMAIN q : n \in DOMAIN r /\ r[n] = q[n] /\ n <= k
      /\ \A n \in DOMAIN r : n = k \/ n \in DOMAIN q
  OBVIOUS
<1> HIDE DEF r
<1>2. ReturnedOf(r) = ReturnedOf(q) \cup Returned(d)
  <2>1. ASSUME NEW i \in ReturnedOf(r)
        PROVE  i \in ReturnedOf(q) \cup Returned(d)
    <3>1. PICK n \in DOMAIN r : i \in Returned(r[n])
      BY <2>1 DEF ReturnedOf
    <3> QED  BY <1>1, <3>1 DEF ReturnedOf
  <2>2. ASSUME NEW i \in ReturnedOf(q)
        PROVE  i \in ReturnedOf(r)
    <3>1. PICK n \in DOMAIN q : i \in Returned(q[n])
      BY <2>2 DEF ReturnedOf
    <3> QED  BY <1>1, <3>1 DEF ReturnedOf
  <2>3. Returned(d) \subseteq ReturnedOf(r)
    BY <1>1 DEF ReturnedOf
  <2> QED  BY <2>1, <2>2, <2>3
<1>3. ASSUME OnceEach(q), Returned(d) \cap ReturnedOf(q) = {}
      PROVE  OnceEach(r)
  <2>1. \A n \in DOMAIN q : Returned(d) \cap Returned(q[n]) = {}
    BY <1>3 DEF ReturnedOf
  <2>2. ASSUME NEW m \in DOMAIN r, NEW n \in DOMAIN r, Returned(r[m]) \cap Returned(r[n]) # {}
        PROVE  m = n
    <3>1. CASE m \in DOMAIN q /\ n \in DOMAIN q
      BY <1>1, <1>3, <2>2, <3>1 DEF OnceEach
    <3>2. CASE m = k /\ n \in DOMAIN q
      BY <1>1, <2>1, <2>2, <3>2
    <3>3. CASE m \in DOMAIN q /\ n = k
      BY <1>1, <2>1, <2>2, <3>3
    <3> QED  BY <1>1, <3>1, <3>2, <3>3
  <2> QED  BY <2>2 DEF OnceEach
<1>4. ASSUME NEW v, NEW w, AwaitedIn(q, w), w \subseteq v \cup Returned(d),
             Ids(d) \subseteq v \cup Returned(d)
      PROVE  AwaitedIn(r, v)
  <2>1. ASSUME NEW n \in DOMAIN r, NEW i \in Ids(r[n])
        PROVE  i \in v \/ \E m \in DOMAIN r : m >= n /\ i \in Returned(r[m])
    <3>1. CASE i \in v \cup Returned(d)
      <4>1. k >= n
        BY <1>1
      <4> QED  BY <1>1, <3>1, <4>1
    <3>2. CASE i \notin v \cup Returned(d)
      <4>1. n \in DOMAIN q /\ i \in Ids(q[n]) /\ i \notin w
        BY <1>1, <1>4, <2>1, <3>2
      <4>2. PICK m \in DOMAIN q : m >= n /\ i \in Returned(q[m])
        BY <1>4, <4>1 DEF AwaitedIn
      <4> QED  BY <1>1, <4>2
    <3> QED  BY <3>1, <3>2
  <2> QED  BY <2>1 DEF AwaitedIn
<1> QED  BY <1>1, <1>2, <1>3, <1>4 DEF r

LEMMA QueueOfRest ==
  ASSUME NEW q \in Seq(Desc), q # <<>>
  PROVE  LET r == Tail(q) IN
         /\ Head(q) \in Desc /\ r \in Seq(Desc) /\ Len(q) = Len(r) + 1 /\ Len(r) \in Nat
         /\ ReturnedOf(q) = Returned(Head(q)) \cup ReturnedOf(r)
         /\ OnceEach(q) => OnceEach(r) /\ Returned(Head(q)) \cap ReturnedOf(r) = {}
         /\ \A w : AwaitedIn(q, w) =>
              AwaitedIn(r, w) /\ Ids(Head(q)) \subseteq w \cup ReturnedOf(q)
<1> DEFINE r == Tail(q)
<1>1. /\ Head(q) \in Desc /\ r \in Seq(Desc) /\ Len(q) = Len(r) + 1 /\ Len(r) \in Nat
      /\ DOMAIN q = 1 .. Len(q) /\ DOMAIN r = 1 .. Len(r)
      /\ 1 \in DOMAIN q /\ q[1] = Head(q)
      /\ \A n \in DOMAIN r : n + 1 \in DOMAIN q /\ n + 1 # 1 /\ r[n] = q[n + 1]
      /\ \A n \in DOMAIN q : n = 1 \/ n - 1 \in DOMAIN r
  OBVIOUS
<1> HIDE DEF r
<1>2. ASSUME NEW n \in DOMAIN q, n # 1
      PROVE  n - 1 \in DOMAIN r /\ r[n - 1] = q[n]
  BY <1>1, <1>2
<1>3. ReturnedOf(q) = Returned(Head(q)) \cup ReturnedOf(r)
  <2>1. ASSUME NEW i \in ReturnedOf(q)
        PROVE  i \in Returned(Head(q)) \cup ReturnedOf(r)
    <3>1. PICK n \in DOMAIN q : i \in Returned(q[n])
      BY <2>1 DEF ReturnedOf
    <3> QED  BY <1>1, <1>2, <3>1 DEF ReturnedOf
  <2>2. ASSUME NEW i \in ReturnedOf(r)
        PROVE  i \in ReturnedOf(q)
    <3>1. PICK n \in DOMAIN r : i \in Returned(r[n])
      BY <2>2 DEF ReturnedOf
    <3> QED  BY <1>1, <3>1 DEF ReturnedOf
  <2>3. Returned(Head(q)) \subseteq ReturnedOf(q)
    BY <1>1 DEF ReturnedOf
  <2> QED  BY <2>1, <2>2, <2>3
<1>4. ASSUME OnceEach(q)
      PROVE  OnceEach(r) /\ Returned(Head(q)) \cap ReturnedOf(r) = {}
  <2>1. OnceEach(r)
    <3>1. ASSUME NEW m \in DOMAIN r, NEW n \in DOMAIN r, Returned(r[m]) \cap Returned(r[n]) # {}
          PROVE  m = n
      <4>1. m + 1 = n + 1
        BY <1>1, <1>4, <3>1 DEF OnceEach
      <4> QED  BY <1>1, <4>1
    <3> QED  BY <3>1 DEF OnceEach
  <2>2. ASSUME NEW i \in Returned(Head(q)) \cap ReturnedOf(r)
        PROVE  FALSE
    <3>1. PICK n \in DOMAIN r : i \in Returned(r[n])
      BY <2>2 DEF ReturnedOf
    <3>2. n + 1 = 1
      BY <1>1, <1>4, <2>2, <3>1 DEF OnceEach
    <3> QED  BY <1>1, <3>2
  <2> QED  BY <2>1, <2>2
<1>5. ASSUME NEW w, AwaitedIn(q, w)
      PROVE  AwaitedIn(r, w) /\ Ids(Head(q)) \subseteq w \cup ReturnedOf(q)
  <2>1. ASSUME NEW n \in DOMAIN r, NEW i \in Ids(r[n])
        PROVE  i \in w \/ \E m \in DOMAIN r : m >= n /\ i \in Returned(r[m])
    <3>1. i \in w \/ \E m \in DOMAIN q : m >= n + 1 /\ i \in Returned(q[m])
      BY <1>1, <1>5, <2>1 DEF AwaitedIn
    <3>2. ASSUME NEW m \in DOMAIN q, m >= n + 1, i \in Returned(q[m])
          PROVE  \E p \in DOMAIN r : p >= n /\ i \in Returned(r[p])
      <4>1. m # 1 /\ m - 1 >= n
        BY <1>1, <3>2
      <4> QED  BY <1>2, <3>2, <4>1
    <3> QED  BY <3>1, <3>2
  <2>2. Ids(Head(q)) \subseteq w \cup ReturnedOf(q)
    BY <1>1, <1>5 DEF AwaitedIn, ReturnedOf
  <2> QED  BY <2>1, <2>2 DEF AwaitedIn
<1> QED  BY <1>1, <1>3, <1>4, <1>5 DEF r

----------------------------------------------------------------------------
(* The inductive invariant.                                                 *)

\* Of the buffers and the ring in s, the reordering w and the descriptors q: what
\* the table lists although the firmware is done with it.
Lost(s, w, q) == s.b.listed \ (Elems(s.ring) \cup w \cup ReturnedOf(q))

\* The buffers add up to the memory, the table lists what the firmware has, in
\* one place each, and a descriptor names nothing else.
Consistent(s, w, q) ==
  /\ s \in States /\ s.b.fail \in Nat
  /\ w \in SUBSET Index
  /\ q \in Seq(Desc)
  /\ Cardinality(s.b.listed) + s.b.free + s.b.stack = Memory
  /\ Distinct(s.ring) /\ OnceEach(q)
  /\ Elems(s.ring) \cap w = {}
  /\ Elems(s.ring) \cap ReturnedOf(q) = {}
  /\ w \cap ReturnedOf(q) = {}
  /\ Elems(s.ring) \cup w \cup ReturnedOf(q) \subseteq s.b.listed
  /\ ~MonitorVif => Lost(s, w, q) = {}
  /\ Cardinality(s.b.listed)
       = Len(s.ring) + Cardinality(w) + ReturnedSum(q) + Cardinality(Lost(s, w, q))
  /\ AwaitedIn(q, w)

\* What the firmware has to receive into, is about to get and was refused.
Supply(s, q) == Len(s.ring) + OwedSum(q) + s.b.fail

Held == [b |-> buf, ring |-> ring]

Supplied ==
  /\ Supply(Held, ind) <= N
  /\ (~MonitorVif /\ pc # "off") => Supply(Held, ind) = N

\* A band that is off has nothing on the way.
WhenOff ==
  pc = "off" => ring = <<>> /\ ind = <<>> /\ reord = {} /\ ~unraised /\ buf.listed = {}

\* A filled descriptor has its interrupt, or the tasklet's last pass has room
\* for it.
Raised ==
  /\ pc = "first" => irq
  /\ (pc \in {"rest", "idle"} /\ ind # <<>>) => irq \/ unraised
  /\ (pc = "second" /\ ~irq /\ ~unraised) => Len(ind) + count <= MaxRx + 2

Flags ==
  /\ unraised \in BOOLEAN /\ irq \in BOOLEAN
  /\ rx_status \in BOOLEAN /\ pending \in BOOLEAN
  /\ pc \in {"idle", "first", "rest", "second", "off"}
  /\ count \in 0 .. MaxRx + 1
  /\ Len(ind) <= D

BufInv == Consistent(Held, reord, ind) /\ Supplied /\ WhenOff /\ Flags /\ Raised

\* Lending keeps the buffers consistent.
LEMMA LendingKeeps ==
  ASSUME NEW s, NEW w, NEW q, Consistent(s, w, q), NEW t, Grown(s, t), t.b.fail \in Nat
  PROVE  Consistent(t, w, q)
<1>1. /\ s \in States /\ w \in SUBSET Index /\ q \in Seq(Desc)
      /\ Distinct(s.ring) /\ OnceEach(q) /\ AwaitedIn(q, w)
      /\ Elems(s.ring) \cap w = {} /\ Elems(s.ring) \cap ReturnedOf(q) = {}
      /\ w \cap ReturnedOf(q) = {}
      /\ Elems(s.ring) \cup w \cup ReturnedOf(q) \subseteq s.b.listed
      /\ ~MonitorVif => Lost(s, w, q) = {}
  BY DEF Consistent
<1>2. /\ t \in States /\ s.b.listed \subseteq t.b.listed /\ t.b.stack = s.b.stack
      /\ Elems(t.ring) = Elems(s.ring) \cup (t.b.listed \ s.b.listed)
      /\ Distinct(s.ring) /\ Elems(s.ring) \subseteq s.b.listed => Distinct(t.ring)
  BY DEF Grown
<1>3. /\ Distinct(t.ring)
      /\ Elems(t.ring) \cap w = {} /\ Elems(t.ring) \cap ReturnedOf(q) = {}
      /\ Elems(t.ring) \cup w \cup ReturnedOf(q) \subseteq t.b.listed
      /\ Lost(t, w, q) = Lost(s, w, q)
  BY <1>1, <1>2 DEF Lost
<1> DEFINE cs == Cardinality(s.b.listed)
           ct == Cardinality(t.b.listed)
           cw == Cardinality(w)
           fs == s.b.free
           ft == t.b.free
           st == s.b.stack
           ls == Len(s.ring)
           lt == Len(t.ring)
           sum == ReturnedSum(q)
           lost == Cardinality(Lost(s, w, q))
<1>4. /\ cs \in Nat /\ ct \in Nat /\ cw \in Nat /\ fs \in Nat /\ ft \in Nat /\ st \in Nat
      /\ ls \in Nat /\ lt \in Nat /\ sum \in Nat /\ Memory \in Nat
      /\ lost \in Nat
  <2>1. Lost(s, w, q) \in SUBSET Index
    BY <1>1, StateFacts DEF Lost
  <2> QED
    BY <1>1, <1>2, <2>1, StateFacts, IndexFinite, ReturnedSumType, ParamAssumption
    DEF ParamAssumption
<1>5. cs + fs + st = Memory /\ cs = ls + cw + sum + lost
  BY DEF Consistent
<1>6. ct + ft = cs + fs /\ lt + cs = ls + ct
  BY DEF Grown
<1> HIDE DEF cs, ct, cw, fs, ft, st, ls, lt, sum, lost
<1>7. ct + ft + st = Memory /\ ct = lt + cw + sum + lost
  BY <1>4, <1>5, <1>6
<1> QED  BY <1>1, <1>2, <1>3, <1>7 DEF Consistent, ct, ft, st, lt, cw, sum, lost

\* Serving the oldest descriptor keeps them consistent, and the supply.
LEMMA ServingKeeps ==
  ASSUME NEW s, NEW w, NEW q, Consistent(s, w, q), q # <<>>, NEW t, Served(s, t, Head(q))
  PROVE  /\ Consistent(t, w, Tail(q))
         /\ Supply(t, Tail(q)) <= Supply(s, q)
         /\ ~MonitorVif => Supply(t, Tail(q)) = Supply(s, q)
<1> DEFINE d == Head(q)
           r == Tail(q)
<1>1. /\ s \in States /\ w \in SUBSET Index /\ q \in Seq(Desc)
      /\ Distinct(s.ring) /\ OnceEach(q) /\ AwaitedIn(q, w)
      /\ Elems(s.ring) \cap w = {} /\ Elems(s.ring) \cap ReturnedOf(q) = {}
      /\ w \cap ReturnedOf(q) = {}
      /\ Elems(s.ring) \cup w \cup ReturnedOf(q) \subseteq s.b.listed
      /\ ~MonitorVif => Lost(s, w, q) = {}
  BY DEF Consistent
<1>2. /\ d \in Desc /\ r \in Seq(Desc)
      /\ ReturnedOf(q) = Returned(d) \cup ReturnedOf(r)
      /\ OnceEach(r) /\ Returned(d) \cap ReturnedOf(r) = {}
      /\ AwaitedIn(r, w)
  BY <1>1, QueueOfRest
<1>3. t \in States /\ t.b.fail \in Nat /\ Distinct(t.ring)
  BY DEF Served
<1> HIDE DEF d, r
<1>4. PICK new \in SUBSET Index :
        /\ new \cap (s.b.listed \ Returned(d)) = {}
        /\ t.b.listed = (s.b.listed \ Returned(d)) \cup new
        /\ Elems(t.ring) = Elems(s.ring) \cup new
  BY DEF Served, d
<1>5. /\ Elems(t.ring) \cap w = {} /\ Elems(t.ring) \cap ReturnedOf(r) = {}
      /\ w \cap ReturnedOf(r) = {}
      /\ Elems(t.ring) \cup w \cup ReturnedOf(r) \subseteq t.b.listed
      /\ Lost(t, w, r) = Lost(s, w, q)
  BY <1>1, <1>2, <1>4 DEF Lost
<1> DEFINE cs == Cardinality(s.b.listed)
           ct == Cardinality(t.b.listed)
           cw == Cardinality(w)
           fs == s.b.free
           ft == t.b.free
           ss == s.b.stack
           st == t.b.stack
           ls == Len(s.ring)
           lt == Len(t.ring)
           rq == ReturnedSum(q)
           rr == ReturnedSum(r)
           rd == ReturnedBy(d)
           oq == OwedSum(q)
           ow == OwedSum(r)
           od == Owed(d)
           ks == s.b.fail
           lost == Cardinality(Lost(s, w, q))
           kt == t.b.fail
<1>6. /\ cs \in Nat /\ ct \in Nat /\ cw \in Nat /\ fs \in Nat /\ ft \in Nat
      /\ ss \in Nat /\ st \in Nat /\ ls \in Nat /\ lt \in Nat /\ Memory \in Nat
  BY <1>1, <1>3, StateFacts, IndexFinite, ParamAssumption DEF ParamAssumption
<1>7. rq \in Nat /\ rr \in Nat /\ oq \in Nat /\ ow \in Nat /\ rd \in Nat /\ od \in Nat
  BY <1>1, <1>2, ReturnedSumType, OwedSumType, DescFacts
<1>8. ks \in Nat /\ kt \in Nat
  BY <1>3 DEF Consistent
<1>15. lost \in Nat
  <2>1. Lost(s, w, q) \in SUBSET Index
    BY <1>1, StateFacts DEF Lost
  <2> QED  BY <2>1, IndexFinite
<1>9. cs + fs + ss = Memory /\ cs = ls + cw + rq + lost
  BY DEF Consistent
<1>10. /\ ct + ft + st = cs + fs + ss /\ lt + cs = ls + ct + rd
       /\ lt + kt <= ls + ks + od /\ (~MonitorVif => lt + kt = ls + ks + od)
  BY DEF Served, d
<1>11. rq = rr + rd /\ oq = ow + od
  BY <1>1, ReturnedSumOfRest, OwedSumOfRest DEF d, r
<1> HIDE DEF cs, ct, cw, fs, ft, ss, st, ls, lt, rq, rr, rd, oq, ow, od, ks, kt, lost
<1>12. ct + ft + st = Memory /\ ct = lt + cw + rr + lost
  BY <1>6, <1>7, <1>9, <1>10, <1>11, <1>15
<1>13. lt + ow + kt <= ls + oq + ks /\ (~MonitorVif => lt + ow + kt = ls + oq + ks)
  BY <1>6, <1>7, <1>8, <1>10, <1>11
<1>14. Consistent(t, w, r)
  BY <1>1, <1>2, <1>3, <1>5, <1>12 DEF Consistent, ct, ft, st, lt, cw, rr, lost
<1> QED  BY <1>13, <1>14 DEF Supply, lt, ow, kt, ls, oq, ks, r

\* A frame for a monitor interface that is gone only loses its buffer.
LEMMA LosingKeeps ==
  ASSUME NEW s, NEW w, NEW q, Consistent(s, w, q), q # <<>>, MonitorVif
  PROVE  Consistent(s, w, Tail(q)) /\ Supply(s, Tail(q)) <= Supply(s, q)
<1> DEFINE d == Head(q)
           r == Tail(q)
<1>1. /\ s \in States /\ w \in SUBSET Index /\ q \in Seq(Desc) /\ s.b.fail \in Nat
      /\ Distinct(s.ring) /\ OnceEach(q) /\ AwaitedIn(q, w)
      /\ Elems(s.ring) \cap w = {} /\ Elems(s.ring) \cap ReturnedOf(q) = {}
      /\ w \cap ReturnedOf(q) = {}
      /\ Elems(s.ring) \cup w \cup ReturnedOf(q) \subseteq s.b.listed
      /\ Cardinality(s.b.listed) + s.b.free + s.b.stack = Memory
  BY DEF Consistent
<1>2. /\ d \in Desc /\ r \in Seq(Desc)
      /\ ReturnedOf(q) = Returned(d) \cup ReturnedOf(r)
      /\ OnceEach(r) /\ Returned(d) \cap ReturnedOf(r) = {}
      /\ AwaitedIn(r, w)
  BY <1>1, QueueOfRest
<1>3. /\ ReturnedSum(q) = ReturnedSum(r) + ReturnedBy(d) /\ OwedSum(q) = OwedSum(r) + Owed(d)
      /\ ReturnedSum(q) \in Nat /\ ReturnedSum(r) \in Nat /\ ReturnedBy(d) \in Nat
      /\ OwedSum(q) \in Nat /\ OwedSum(r) \in Nat /\ Owed(d) \in Nat
      /\ Len(s.ring) \in Nat /\ Cardinality(w) \in Nat /\ Cardinality(s.b.listed) \in Nat
  BY <1>1, <1>2, ReturnedSumOfRest, OwedSumOfRest, ReturnedSumType, OwedSumType, DescFacts,
     StateFacts, IndexFinite
<1> HIDE DEF d, r
<1> DEFINE L == Lost(s, w, q)
           M == Lost(s, w, r)
<1>4. M = L \cup Returned(d) /\ L \cap Returned(d) = {}
  BY <1>1, <1>2 DEF Lost
<1>5. L \in SUBSET Index /\ Returned(d) \in SUBSET Index
  BY <1>1, <1>2, StateFacts DEF Lost
<1> HIDE DEF L, M
<1>6. Cardinality(M) = Cardinality(L) + ReturnedBy(d) /\ Cardinality(L) \in Nat
  <2>1. IsFiniteSet(L) /\ IsFiniteSet(Returned(d)) /\ Cardinality(L) \in Nat
    BY <1>5, IndexFinite
  <2>2. Cardinality(L \cup Returned(d))
          = Cardinality(L) + Cardinality(Returned(d)) - Cardinality(L \cap Returned(d))
    BY <2>1, FS_Union
  <2>3. Cardinality(L \cap Returned(d)) = 0
    BY <1>4, FS_EmptySet
  <2>4. Cardinality(Returned(d)) = ReturnedBy(d) /\ Cardinality(M) = Cardinality(L \cup Returned(d))
    BY <1>4 DEF ReturnedBy
  <2> QED  BY <1>3, <2>1, <2>2, <2>3, <2>4
<1>7. Cardinality(s.b.listed) = Len(s.ring) + Cardinality(w) + ReturnedSum(q) + Cardinality(L)
  BY DEF Consistent, L
<1>8. Cardinality(s.b.listed) = Len(s.ring) + Cardinality(w) + ReturnedSum(r) + Cardinality(M)
  BY <1>3, <1>6, <1>7
<1>9. Consistent(s, w, r)
  BY <1>1, <1>2, <1>8 DEF Consistent, M
<1>10. Supply(s, r) <= Supply(s, q)
  BY <1>1, <1>3 DEF Supply
<1> QED  BY <1>9, <1>10 DEF r

\* An empty table, and the buffers of a new start.
LEMMA EmptyIsConsistent ==
  ASSUME NEW b \in Pool, b.listed = {}, b.fail = 0, b.free + b.stack = Memory
  PROVE  /\ Consistent([b |-> b, ring |-> <<>>], {}, <<>>)
         /\ Supply([b |-> b, ring |-> <<>>], <<>>) = 0
<1> DEFINE s == [b |-> b, ring |-> <<>>]
<1>1. s \in States /\ s.b = b /\ s.ring = <<>> /\ Elems(s.ring) = {} /\ Distinct(s.ring)
  BY DEF States, Elems, Distinct
<1>2. <<>> \in Seq(Desc) /\ ReturnedOf(<<>>) = {} /\ OnceEach(<<>>) /\ AwaitedIn(<<>>, {})
  BY DEF ReturnedOf, OnceEach, AwaitedIn
<1>3. ReturnedSum(<<>>) = 0 /\ OwedSum(<<>>) = 0 /\ Cardinality({}) = 0 /\ Len(<<>>) = 0
  BY <1>2, ReturnedSumType, OwedSumType, FS_EmptySet
<1>4. b.free \in Nat /\ b.stack \in Nat
  BY DEF Pool
<1> HIDE DEF s
<1>5. Cardinality(s.b.listed) = 0 /\ Len(s.ring) = 0
  BY <1>1, <1>3
<1>6. Cardinality(s.b.listed) + s.b.free + s.b.stack = Memory
  BY <1>1, <1>4, <1>5
<1>8. s.b.fail \in Nat /\ s.b.listed = {} /\ Lost(s, {}, <<>>) = {}
  BY <1>1 DEF Lost
<1>7. Cardinality(s.b.listed)
        = Len(s.ring) + Cardinality({}) + ReturnedSum(<<>>) + Cardinality(Lost(s, {}, <<>>))
  <2>1. Cardinality(Lost(s, {}, <<>>)) = 0
    BY <1>3, <1>8
  <2> QED  BY <1>3, <1>5, <2>1
<1>9. Consistent(s, {}, <<>>)
  BY <1>1, <1>2, <1>6, <1>7, <1>8 DEF Consistent
<1>10. Supply(s, <<>>) = 0
  BY <1>1, <1>3, <1>5 DEF Supply
<1> QED  BY <1>9, <1>10 DEF s

LEMMA StartIsConsistent ==
  ASSUME NEW b \in Pool, b.listed = {}, b.fail = 0, b.free + b.stack = Memory
  PROVE  Consistent(InitialBuf(b), {}, <<>>) /\ Supply(InitialBuf(b), <<>>) = N
<1> DEFINE s == [b |-> b, ring |-> <<>>]
           t == InitialBuf(b)
<1>1. Consistent(s, {}, <<>>)
  BY EmptyIsConsistent
<1>2. /\ Grown(s, t) /\ t.b.fail >= 0
      /\ Len(t.ring) + t.b.fail = 0 + N
  BY InitialGrows
<1>3. t \in States
  BY <1>2 DEF Grown
<1> HIDE DEF s, t
<1>4. t.b.fail \in Nat /\ Len(t.ring) \in Nat /\ N \in Nat
  BY <1>2, <1>3, StateFacts, ParamAssumption DEF ParamAssumption
<1>5. Consistent(t, {}, <<>>)
  BY <1>1, <1>2, <1>4, LendingKeeps
<1>6. OwedSum(<<>>) = 0
  <2>1. <<>> \in Seq(Desc)
    OBVIOUS
  <2> QED  BY <2>1, OwedSumType
<1>7. Supply(t, <<>>) = N
  BY <1>2, <1>4, <1>6 DEF Supply
<1> QED  BY <1>5, <1>7 DEF t

LEMMA SplitIs ==
  ASSUME NEW q \in Seq(Index), NEW n \in 1 .. Len(q)
  PROVE  LET a == SubSeq(q, 1, n)
             r == SubSeq(q, n + 1, Len(q))
         IN  /\ a \in Seq(Index) /\ Len(a) = n
             /\ r \in Seq(Index) /\ Len(r) = Len(q) - n
             /\ Elems(q) = Elems(a) \cup Elems(r)
             /\ Distinct(q) => Distinct(a) /\ Distinct(r) /\ Elems(a) \cap Elems(r) = {}
<1> DEFINE a == SubSeq(q, 1, n)
           r == SubSeq(q, n + 1, Len(q))
<1>1. /\ Len(q) \in Nat /\ DOMAIN q = 1 .. Len(q) /\ \A m \in DOMAIN q : q[m] \in Index
      /\ a \in Seq(Index) /\ Len(a) = n /\ DOMAIN a = 1 .. n
      /\ \A m \in 1 .. n : a[m] = q[m]
  OBVIOUS
<1>2. /\ r \in Seq(Index) /\ Len(r) = Len(q) - n /\ DOMAIN r = 1 .. Len(q) - n
      /\ \A m \in 1 .. Len(q) - n : r[m] = q[m + n]
  OBVIOUS
<1> HIDE DEF a, r
<1>3. \A m \in DOMAIN a : m \in DOMAIN q /\ a[m] = q[m] /\ m <= n
  BY <1>1
<1>4. \A m \in DOMAIN r : m + n \in DOMAIN q /\ r[m] = q[m + n] /\ m + n > n
  BY <1>1, <1>2
<1>5. ASSUME NEW m \in DOMAIN q
      PROVE  m \in DOMAIN a \/ (m - n \in DOMAIN r /\ r[m - n] = q[m])
  BY <1>1, <1>2
<1>6. Elems(q) = Elems(a) \cup Elems(r)
  <2>1. ASSUME NEW i \in Elems(q)
        PROVE  i \in Elems(a) \cup Elems(r)
    BY <1>3, <1>5 DEF Elems
  <2>2. Elems(a) \subseteq Elems(q)
    BY <1>3 DEF Elems
  <2>3. Elems(r) \subseteq Elems(q)
    BY <1>4 DEF Elems
  <2> QED  BY <2>1, <2>2, <2>3
<1>7. ASSUME Distinct(q)
      PROVE  Distinct(a) /\ Distinct(r) /\ Elems(a) \cap Elems(r) = {}
  <2>1. Distinct(a)
    BY <1>3, <1>7 DEF Distinct
  <2>2. Distinct(r)
    <3>1. ASSUME NEW k \in DOMAIN r, NEW m \in DOMAIN r, r[k] = r[m]
          PROVE  k = m
      <4>1. k + n = m + n
        BY <1>4, <1>7, <3>1 DEF Distinct
      <4> QED  BY <1>2, <4>1
    <3> QED  BY <3>1 DEF Distinct
  <2>3. ASSUME NEW i \in Elems(a) \cap Elems(r)
        PROVE  FALSE
    <3>1. PICK k \in DOMAIN a : i = a[k]
      BY <2>3 DEF Elems
    <3>2. PICK m \in DOMAIN r : i = r[m]
      BY <2>3 DEF Elems
    <3>3. k = m + n
      BY <1>3, <1>4, <1>7, <3>1, <3>2 DEF Distinct
    <3> QED  BY <1>1, <1>3, <1>4, <3>3
  <2> QED  BY <2>1, <2>2, <2>3
<1> QED  BY <1>1, <1>2, <1>6, <1>7 DEF a, r

LEMMA NotSingle == \A x \in Single : "ALLOC" \notin x
BY DEF Single

\* A frame received into the next n buffers of the ring, what is left of the
\* ring, and the reordering after it.
Frame(s, n, status) == [ids |-> SubSeq(s.ring, 1, n), status |-> status]
LeftOf(s, n) == [b |-> s.b, ring |-> SubSeq(s.ring, n + 1, Len(s.ring))]
KeptWith(w, d) == IF d.status = {"ALLOC"} THEN w \cup Ids(d) ELSE w

LEMMA ReceivingKeeps ==
  ASSUME NEW s, NEW w, NEW q, Consistent(s, w, q),
         NEW n \in 1 .. MaxMsdu, n <= Len(s.ring), NEW status \in Statuses(n)
  PROVE  LET d == Frame(s, n, status)
             t == LeftOf(s, n)
         IN  /\ Consistent(t, KeptWith(w, d), Append(q, d))
             /\ Supply(t, Append(q, d)) = Supply(s, q)
<1> DEFINE d == Frame(s, n, status)
           t == LeftOf(s, n)
           v == KeptWith(w, d)
<1>0. /\ d = [ids |-> SubSeq(s.ring, 1, n), status |-> status]
      /\ t = [b |-> s.b, ring |-> SubSeq(s.ring, n + 1, Len(s.ring))]
      /\ v = IF status = {"ALLOC"} THEN w \cup Ids(d) ELSE w
  BY DEF Frame, LeftOf, KeptWith
<1> HIDE DEF d, t, v
<1>1. /\ s \in States /\ w \in SUBSET Index /\ q \in Seq(Desc) /\ s.b.fail \in Nat
      /\ Distinct(s.ring) /\ OnceEach(q) /\ AwaitedIn(q, w)
      /\ Elems(s.ring) \cap w = {} /\ Elems(s.ring) \cap ReturnedOf(q) = {}
      /\ w \cap ReturnedOf(q) = {}
      /\ Elems(s.ring) \cup w \cup ReturnedOf(q) \subseteq s.b.listed
      /\ ~MonitorVif => Lost(s, w, q) = {}
  BY DEF Consistent
<1>2. s.b \in Pool /\ s.ring \in Seq(Index) /\ Len(s.ring) \in Nat /\ n \in 1 .. Len(s.ring)
  BY <1>1, StateFacts DEF States, MaxMsdu
<1>3. /\ d.status = status /\ d.ids = SubSeq(s.ring, 1, n)
      /\ t.b = s.b /\ t.ring = SubSeq(s.ring, n + 1, Len(s.ring))
  BY <1>0
<1>4. /\ d.ids \in Seq(Index) /\ Len(d.ids) = n /\ Distinct(d.ids)
      /\ t.ring \in Seq(Index) /\ Len(t.ring) = Len(s.ring) - n /\ Distinct(t.ring)
      /\ Elems(s.ring) = Elems(d.ids) \cup Elems(t.ring)
      /\ Elems(d.ids) \cap Elems(t.ring) = {}
  BY <1>1, <1>2, <1>3, SplitIs
<1>5. t \in States
  BY <1>0, <1>2, <1>4 DEF States
<1>6. /\ status \in {{"FORWARD", "ALLOC"}, {"ALLOC"}, {"SPURIOUS"}, {"MONITOR"}}
      /\ status \in {{"SPURIOUS"}, {"MONITOR"}} => n = 1
      /\ status = {"MONITOR"} => MonitorVif
  BY DEF Statuses
<1>7. d \in Desc
  <2>1. status \in Single \cup {{"FORWARD", "ALLOC"}, {"ALLOC"}}
    BY <1>6 DEF Single
  <2>2. status \in Single => n = 1
    BY <1>6, NotSingle
  <2>3. d \in [ids : Seq(Index), status : Single \cup {{"FORWARD", "ALLOC"}, {"ALLOC"}}]
    BY <1>0, <1>3, <1>4, <2>1
  <2> QED  BY <1>3, <1>4, <2>2, <2>3 DEF Desc
<1>8. /\ Ids(d) = Elems(d.ids) /\ Ids(d) \in SUBSET Index /\ Cardinality(Ids(d)) = n
      /\ d.status \notin Single => Asked(d) = n
      /\ d.status \in Single => Asked(d) = 0
  BY <1>4, <1>7, DescFacts
<1>9. Owed(d) = n
  <2>1. CASE status \in {{"FORWARD", "ALLOC"}, {"ALLOC"}}
    <3>1. d.status \notin Single /\ d.status \cap {"SPURIOUS", "MONITOR"} = {}
      BY <1>3, <2>1, NotSingle
    <3> QED  BY <1>8, <3>1 DEF Owed
  <2>2. CASE status \in {{"SPURIOUS"}, {"MONITOR"}}
    <3>1. d.status \in Single /\ d.status \cap {"SPURIOUS", "MONITOR"} # {} /\ n = 1
      BY <1>3, <1>6, <2>2 DEF Single
    <3> QED  BY <1>8, <3>1 DEF Owed
  <2> QED  BY <1>6, <2>1, <2>2
<1>10. \/ status = {"ALLOC"} /\ Returned(d) = {} /\ v = w \cup Ids(d)
       \/ status # {"ALLOC"} /\ Returned(d) = Ids(d) /\ v = w
  BY <1>0, <1>3, <1>6 DEF Returned
<1> DEFINE r == Append(q, d)
<1>11. /\ r \in Seq(Desc) /\ ReturnedOf(r) = ReturnedOf(q) \cup Returned(d)
       /\ OnceEach(q) /\ Returned(d) \cap ReturnedOf(q) = {} => OnceEach(r)
       /\ (/\ AwaitedIn(q, w)
           /\ w \subseteq v \cup Returned(d)
           /\ Ids(d) \subseteq v \cup Returned(d)) => AwaitedIn(r, v)
  BY <1>1, <1>7, QueueOfMore
<1>12. /\ ReturnedSum(r) = ReturnedSum(q) + ReturnedBy(d)
       /\ OwedSum(r) = OwedSum(q) + n
       /\ ReturnedSum(q) \in Nat /\ OwedSum(q) \in Nat
  BY <1>1, <1>7, <1>9, ReturnedSumOfMore, OwedSumOfMore, ReturnedSumType, OwedSumType
<1> HIDE DEF r
<1>13. /\ v \in SUBSET Index /\ OnceEach(r) /\ AwaitedIn(r, v)
       /\ Elems(t.ring) \cap v = {} /\ Elems(t.ring) \cap ReturnedOf(r) = {}
       /\ v \cap ReturnedOf(r) = {}
       /\ Elems(t.ring) \cup v \cup ReturnedOf(r) \subseteq t.b.listed
       /\ Lost(t, v, r) = Lost(s, w, q)
  <2> DEFINE E == Elems(d.ids)
             F == Elems(t.ring)
             R == ReturnedOf(q)
             T == ReturnedOf(r)
  <2>1. /\ Elems(s.ring) = E \cup F /\ E \cap F = {} /\ Ids(d) = E /\ E \in SUBSET Index
        /\ (E \cup F) \cap w = {} /\ (E \cup F) \cap R = {} /\ w \cap R = {}
        /\ E \cup F \cup w \cup R \subseteq t.b.listed
        /\ w \in SUBSET Index
    BY <1>1, <1>3, <1>4, <1>8
  <2>2. T = R \cup Returned(d)
    BY <1>11
  <2> HIDE DEF E, F, R, T
  <2>3. \/ Returned(d) = {} /\ v = w \cup E
        \/ Returned(d) = E /\ v = w
    BY <1>10, <2>1
  <2>4. /\ v \in SUBSET Index
        /\ F \cap v = {} /\ F \cap T = {} /\ v \cap T = {}
        /\ F \cup v \cup T = E \cup F \cup w \cup R
        /\ Returned(d) \cap R = {}
        /\ w \subseteq v \cup Returned(d) /\ E \subseteq v \cup Returned(d)
    <3>1. CASE Returned(d) = {} /\ v = w \cup E
      BY <2>1, <2>2, <3>1
    <3>2. CASE Returned(d) = E /\ v = w
      BY <2>1, <2>2, <3>2
    <3> QED  BY <2>3, <3>1, <3>2
  <2>5. OnceEach(r) /\ AwaitedIn(r, v)
    BY <1>1, <1>11, <2>1, <2>4 DEF R
  <2>6. /\ Lost(t, v, r) = t.b.listed \ (F \cup v \cup T)
        /\ Lost(s, w, q) = t.b.listed \ (E \cup F \cup w \cup R)
    BY <1>3, <2>1 DEF Lost, F, T, R
  <2> QED  BY <2>1, <2>4, <2>5, <2>6 DEF F, T
<1>14. Cardinality(v) + ReturnedBy(d) = Cardinality(w) + n
  <2>1. Cardinality(w) \in Nat /\ IsFiniteSet(w) /\ IsFiniteSet(Ids(d))
    BY <1>1, <1>8, IndexFinite
  <2>2. CASE status = {"ALLOC"}
    <3>1. v = w \cup Ids(d) /\ Returned(d) = {}
      BY <1>10, <2>2
    <3>2. w \cap Ids(d) = {}
      BY <1>1, <1>4, <1>8
    <3>3. Cardinality(w \cup Ids(d))
            = Cardinality(w) + Cardinality(Ids(d)) - Cardinality(w \cap Ids(d))
      BY <2>1, FS_Union
    <3>4. Cardinality(w \cap Ids(d)) = 0 /\ ReturnedBy(d) = 0
      BY <3>1, <3>2, FS_EmptySet DEF ReturnedBy
    <3>5. Cardinality(v) = Cardinality(w \cup Ids(d))
      BY <3>1, Zenon
    <3> DEFINE a == Cardinality(w)
               b == Cardinality(w \cup Ids(d))
               c == Cardinality(v)
               k == ReturnedBy(d)
    <3>6. b = a + n - 0 /\ a \in Nat /\ n \in Nat
      BY <1>8, <2>1, <3>3, <3>4 DEF MaxMsdu
    <3>7. c = b /\ k = 0
      BY <3>4, <3>5
    <3> HIDE DEF a, b, c, k
    <3>8. c + k = a + n
      BY <3>6, <3>7
    <3> QED  BY <3>8 DEF a, c, k
  <2>3. CASE status # {"ALLOC"}
    BY <1>8, <1>10, <2>3 DEF ReturnedBy
  <2> QED  BY <2>2, <2>3
<1> DEFINE cw == Cardinality(w)
           cv == Cardinality(v)
           ls == Len(s.ring)
           lt == Len(t.ring)
           rq == ReturnedSum(q)
           rr == ReturnedSum(r)
           rd == ReturnedBy(d)
           oq == OwedSum(q)
           ow == OwedSum(r)
           k  == s.b.fail
           cs == Cardinality(s.b.listed)
           lost == Cardinality(Lost(s, w, q))
<1>15. /\ cw \in Nat /\ cv \in Nat /\ ls \in Nat /\ lt = ls - n /\ n \in Nat
       /\ rq \in Nat /\ rd \in Nat /\ oq \in Nat /\ k \in Nat /\ cs \in Nat
       /\ lost \in Nat
  <2>1. cw \in Nat /\ cv \in Nat /\ cs \in Nat
    BY <1>1, <1>13, IndexFinite, StateFacts
  <2>2. rd \in Nat
    BY <1>7, DescFacts
  <2>3. ls \in Nat /\ lt = ls - n /\ k \in Nat
    BY <1>1, <1>2, <1>4
  <2>4. n \in Nat
    BY DEF MaxMsdu
  <2>5. Lost(s, w, q) \in SUBSET Index
    BY <1>2 DEF Lost, Pool
  <2> QED  BY <1>12, <2>1, <2>2, <2>3, <2>4, <2>5, IndexFinite
<1>16. cs = ls + cw + rq + lost /\ rr = rq + rd /\ ow = oq + n /\ cv + rd = cw + n
  BY <1>12, <1>14 DEF Consistent
<1> HIDE DEF cw, cv, ls, lt, rq, rr, rd, oq, ow, k, cs, lost
<1>17. cs = lt + cv + rr + lost /\ lt + ow + k = ls + oq + k
  BY <1>15, <1>16
<1>18. /\ Cardinality(t.b.listed)
            = Len(t.ring) + Cardinality(v) + ReturnedSum(r) + Cardinality(Lost(s, w, q))
       /\ Cardinality(t.b.listed) + t.b.free + t.b.stack = Memory
       /\ t.b.fail \in Nat
  BY <1>1, <1>3, <1>17 DEF cs, lt, cv, rr, lost, Consistent
<1>19. Supply(t, r) = Supply(s, q)
  BY <1>3, <1>17 DEF Supply, lt, ow, k, ls, oq
<1>20. Consistent(t, v, r)
  BY <1>1, <1>4, <1>5, <1>11, <1>13, <1>18 DEF Consistent
<1> QED  BY <1>19, <1>20 DEF r, v, t, d

\* A buffer of the reordering given back, or its length corrected.
LEMMA ReleasingKeeps ==
  ASSUME NEW s, NEW w, NEW q, Consistent(s, w, q),
         NEW i \in w, NEW status \in {{"FORWARD"}, {"DELETE"}, {"LEN_UPDATE"}},
         NEW d, d = [ids |-> <<i>>, status |-> status],
         NEW v, v = IF status = {"LEN_UPDATE"} THEN w ELSE w \ {i}
  PROVE  Consistent(s, v, Append(q, d)) /\ Supply(s, Append(q, d)) = Supply(s, q)
<1>1. /\ s \in States /\ w \in SUBSET Index /\ q \in Seq(Desc) /\ s.b.fail \in Nat
      /\ Distinct(s.ring) /\ OnceEach(q) /\ AwaitedIn(q, w)
      /\ Elems(s.ring) \cap w = {} /\ Elems(s.ring) \cap ReturnedOf(q) = {}
      /\ w \cap ReturnedOf(q) = {}
      /\ Elems(s.ring) \cup w \cup ReturnedOf(q) \subseteq s.b.listed
      /\ ~MonitorVif => Lost(s, w, q) = {}
  BY DEF Consistent
<1>2. d.status = status /\ d.ids = <<i>> /\ i \in Index
  BY <1>1
<1>3. d \in Desc
  <2>1. status \in Single
    BY DEF Single
  <2>2. <<i>> \in Seq(Index) /\ Len(<<i>>) = 1 /\ Len(<<i>>) \in 1 .. MaxMsdu
    BY <1>2 DEF MaxMsdu
  <2>3. Distinct(<<i>>)
    BY DEF Distinct
  <2>4. d \in [ids : Seq(Index), status : Single \cup {{"FORWARD", "ALLOC"}, {"ALLOC"}}]
    BY <2>1, <2>2
  <2> QED  BY <1>2, <2>2, <2>3, <2>4 DEF Desc
<1>4. Ids(d) = {i} /\ Asked(d) = 0
  <2>1. d.status \in Single
    BY <1>2 DEF Single
  <2> QED  BY <1>2, <1>3, <2>1, DescFacts
<1>5. Owed(d) = 0
  BY <1>2, <1>4 DEF Owed
<1>6. \/ status = {"LEN_UPDATE"} /\ Returned(d) = {} /\ v = w
      \/ status # {"LEN_UPDATE"} /\ Returned(d) = {i} /\ v = w \ {i}
  BY <1>2, <1>4 DEF Returned
<1> DEFINE r == Append(q, d)
<1>7. /\ r \in Seq(Desc) /\ ReturnedOf(r) = ReturnedOf(q) \cup Returned(d)
      /\ OnceEach(q) /\ Returned(d) \cap ReturnedOf(q) = {} => OnceEach(r)
      /\ (/\ AwaitedIn(q, w)
          /\ w \subseteq v \cup Returned(d)
          /\ Ids(d) \subseteq v \cup Returned(d)) => AwaitedIn(r, v)
  BY <1>1, <1>3, QueueOfMore
<1>8. /\ ReturnedSum(r) = ReturnedSum(q) + ReturnedBy(d)
      /\ OwedSum(r) = OwedSum(q) + 0
      /\ ReturnedSum(q) \in Nat /\ OwedSum(q) \in Nat
  BY <1>1, <1>3, <1>5, ReturnedSumOfMore, OwedSumOfMore, ReturnedSumType, OwedSumType
<1> HIDE DEF r
<1>9. /\ v \in SUBSET Index /\ OnceEach(r) /\ AwaitedIn(r, v)
      /\ Elems(s.ring) \cap v = {} /\ Elems(s.ring) \cap ReturnedOf(r) = {}
      /\ v \cap ReturnedOf(r) = {}
      /\ Elems(s.ring) \cup v \cup ReturnedOf(r) \subseteq s.b.listed
      /\ Lost(s, v, r) = Lost(s, w, q)
  BY <1>1, <1>4, <1>6, <1>7 DEF Lost
<1>10. Cardinality(v) + ReturnedBy(d) = Cardinality(w)
  <2>1. Cardinality(w) \in Nat /\ IsFiniteSet(w) /\ Cardinality(v) \in Nat
    BY <1>1, <1>9, IndexFinite
  <2>2. CASE status = {"LEN_UPDATE"}
    <3>1. ReturnedBy(d) = 0
      BY <1>6, <2>2, FS_EmptySet DEF ReturnedBy
    <3> QED  BY <1>6, <2>1, <2>2, <3>1
  <2>3. CASE status # {"LEN_UPDATE"}
    <3>1. ReturnedBy(d) = 1 /\ v = w \ {i}
      BY <1>6, <2>3, FS_Singleton DEF ReturnedBy
    <3>2. Cardinality(w \ {i}) = Cardinality(w) - 1
      BY <2>1, FS_RemoveElement
    <3> QED  BY <2>1, <3>1, <3>2
  <2> QED  BY <2>2, <2>3
<1> DEFINE cw == Cardinality(w)
           cv == Cardinality(v)
           ls == Len(s.ring)
           rq == ReturnedSum(q)
           rr == ReturnedSum(r)
           rd == ReturnedBy(d)
           cs == Cardinality(s.b.listed)
           lost == Cardinality(Lost(s, w, q))
<1>11. /\ cw \in Nat /\ cv \in Nat /\ ls \in Nat
       /\ rq \in Nat /\ rd \in Nat /\ cs \in Nat /\ lost \in Nat
  <2>1. Lost(s, w, q) \in SUBSET Index
    BY <1>1, StateFacts DEF Lost
  <2> QED  BY <1>1, <1>3, <1>8, <1>9, <2>1, IndexFinite, DescFacts, StateFacts
<1>12. cs = ls + cw + rq + lost /\ rr = rq + rd /\ cv + rd = cw
  BY <1>8, <1>10 DEF Consistent
<1> HIDE DEF cw, cv, ls, rq, rr, rd, cs, lost
<1>13. cs = ls + cv + rr + lost
  BY <1>11, <1>12
<1>14. /\ Cardinality(s.b.listed)
            = Len(s.ring) + Cardinality(v) + ReturnedSum(r) + Cardinality(Lost(s, w, q))
       /\ Cardinality(s.b.listed) + s.b.free + s.b.stack = Memory
  BY <1>13 DEF cs, ls, cv, rr, lost, Consistent
<1>15. OwedSum(r) = OwedSum(q)
  BY <1>8
<1>16. Supply(s, r) = Supply(s, q)
  BY <1>15 DEF Supply
<1>17. Consistent(s, v, r)
  BY <1>1, <1>7, <1>9, <1>14 DEF Consistent
<1> QED  BY <1>16, <1>17 DEF r

----------------------------------------------------------------------------
(* Each action keeps the invariant.                                         *)

LEMMA BoundsAreNat == /\ MaxRx \in Nat /\ D \in Nat /\ N \in Nat /\ Memory \in Nat
                      /\ D <= MaxRx + 2
BY ParamAssumption DEF ParamAssumption

LEMMA StartKeeps == Init => BufInv
<1> SUFFICES ASSUME Init  PROVE BufInv
  OBVIOUS
<1> DEFINE s == InitialBuf(NoBuf)
<1>1. /\ NoBuf \in Pool /\ NoBuf.listed = {} /\ NoBuf.fail = 0
      /\ NoBuf.free + NoBuf.stack = Memory
  BY ParamAssumption DEF ParamAssumption, NoBuf, Pool, Index
<1>2. Consistent(s, {}, <<>>) /\ Supply(s, <<>>) = N
  BY <1>1, StartIsConsistent
<1>3. s \in States
  BY <1>2 DEF Consistent
<1>4. buf = s.b /\ ring = s.ring /\ reord = {} /\ ind = <<>>
  BY DEF Init
<1> HIDE DEF s
<1>5. Held = s
  BY <1>3, <1>4 DEF Held, States
<1>6. Consistent(Held, reord, ind) /\ Supply(Held, ind) = N
  BY <1>2, <1>4, <1>5, Zenon
<1>7. Supplied
  BY <1>6, ParamAssumption DEF Supplied, ParamAssumption
<1>8. WhenOff /\ Flags /\ Raised
  <2>1. /\ ind = <<>> /\ Len(<<>>) = 0 /\ pc = "idle" /\ count = 0
        /\ ~unraised /\ ~irq /\ ~rx_status /\ ~pending
        /\ unraised \in BOOLEAN /\ irq \in BOOLEAN
        /\ rx_status \in BOOLEAN /\ pending \in BOOLEAN
    BY DEF Init
  <2>2. WhenOff /\ Raised
    BY <2>1 DEF WhenOff, Raised
  <2>3. Flags
    BY <2>1, BoundsAreNat DEF Flags
  <2> QED  BY <2>2, <2>3
<1> QED  BY <1>6, <1>7, <1>8 DEF BufInv

\* Nothing moves between the host and the firmware.
LEMMA NothingMoves ==
  ASSUME BufInv, buf' = buf, ring' = ring, reord' = reord, ind' = ind,
         (pc' = "off") <=> (pc = "off")
  PROVE  Consistent(Held, reord, ind)' /\ Supplied'
<1>1. Held' = Held
  BY DEF Held
<1>2. Consistent(Held, reord, ind)'
  BY <1>1 DEF BufInv
<1>3. Supplied'
  BY <1>1 DEF BufInv, Supplied
<1> QED  BY <1>2, <1>3

LEMMA IrqKeeps == BufInv /\ Irq => BufInv'
<1> SUFFICES ASSUME BufInv, Irq  PROVE BufInv'
  OBVIOUS
<1>1. Consistent(Held, reord, ind)' /\ Supplied'
  <2>1. /\ buf' = buf /\ ring' = ring /\ reord' = reord /\ ind' = ind
        /\ (pc' = "off") <=> (pc = "off")
    BY DEF Irq
  <2> QED  BY <2>1, NothingMoves
<1>2. WhenOff' /\ Flags' /\ Raised'
  <2>1. Flags /\ Raised
    BY DEF BufInv
  <2>2. WhenOff' /\ Raised'
    BY <2>1 DEF Irq, WhenOff, Flags, Raised
  <2>3. Flags'
    <3>1. /\ ind' = ind /\ unraised' = unraised /\ irq' = irq /\ rx_status' = irq
          /\ pc' \in {"first", "rest"} /\ pending' \in BOOLEAN /\ count' \in {0, count}
      BY <2>1 DEF Irq, Flags
    <3>2. count' \in 0 .. MaxRx + 1
      BY <2>1, <3>1, BoundsAreNat DEF Flags
    <3> QED  BY <2>1, <3>1, <3>2 DEF Flags
  <2> QED  BY <2>2, <2>3
<1> QED  BY <1>1, <1>2 DEF BufInv

LEMMA RxEndKeeps == BufInv /\ RxEnd => BufInv'
<1> SUFFICES ASSUME BufInv, RxEnd  PROVE BufInv'
  OBVIOUS
<1>1. Consistent(Held, reord, ind)' /\ Supplied'
  <2>1. /\ buf' = buf /\ ring' = ring /\ reord' = reord /\ ind' = ind
        /\ (pc' = "off") <=> (pc = "off")
    BY DEF RxEnd, AfterPass
  <2> QED  BY <2>1, NothingMoves
<1>2. ind = <<>>
  <2> SUFFICES ASSUME ind # <<>>  PROVE FALSE
    OBVIOUS
  <2>1. /\ ind \in Seq(Desc) /\ AwaitedIn(ind, reord)
        /\ Elems(Held.ring) \cup reord \cup ReturnedOf(ind) \subseteq Held.b.listed
    BY DEF BufInv, Consistent
  <2>2. Ids(Head(ind)) \subseteq reord \cup ReturnedOf(ind) /\ Head(ind) \in Desc
    BY <2>1, QueueOfRest
  <2>3. Head(ind).ids[1] \in Ids(Head(ind))
    BY <2>2, DescFacts
  <2>4. Head(ind).ids[1] \in buf.listed
    BY <2>1, <2>2, <2>3 DEF Held
  <2> QED  BY <2>4 DEF RxEnd
<1>3. WhenOff' /\ Flags' /\ Raised'
  BY <1>2, ParamAssumption DEF BufInv, RxEnd, AfterPass, WhenOff, Flags, Raised, ParamAssumption
<1> QED  BY <1>1, <1>3 DEF BufInv

LEMMA RxDescKeeps == BufInv /\ RxDesc => BufInv'
<1> SUFFICES ASSUME BufInv, RxDesc  PROVE BufInv'
  OBVIOUS
<1>1. /\ Consistent(Held, reord, ind) /\ Supplied /\ Flags /\ Raised
      /\ ind # <<>> /\ pc \in {"first", "second"}
  BY DEF BufInv, RxDesc
<1>2. PICK t \in Results(Held, Head(ind)) : buf' = t.b /\ ring' = t.ring
  BY DEF RxDesc, Held
<1>3. /\ Held \in States /\ Held.b.fail \in Nat /\ ind \in Seq(Desc)
      /\ Distinct(Held.ring)
      /\ Elems(Held.ring) \cap ReturnedOf(ind) = {}
      /\ Elems(Held.ring) \cup reord \cup ReturnedOf(ind) \subseteq Held.b.listed
  BY <1>1 DEF Consistent
<1>4. /\ Head(ind) \in Desc /\ Tail(ind) \in Seq(Desc)
      /\ Len(ind) = Len(Tail(ind)) + 1 /\ Len(Tail(ind)) \in Nat
      /\ ReturnedOf(ind) = Returned(Head(ind)) \cup ReturnedOf(Tail(ind))
  BY <1>1, <1>3, QueueOfRest
<1>5. Served(Held, t, Head(ind)) \/ (MonitorVif /\ t = Held)
  <2>1. /\ Elems(Held.ring) \subseteq Held.b.listed
        /\ Returned(Head(ind)) \subseteq Held.b.listed
        /\ Returned(Head(ind)) \cap Elems(Held.ring) = {}
    BY <1>3, <1>4
  <2> QED  BY <1>3, <1>4, <2>1, EachIsServed
<1>6. /\ Consistent(t, reord, Tail(ind))
      /\ Supply(t, Tail(ind)) <= Supply(Held, ind)
      /\ ~MonitorVif => Supply(t, Tail(ind)) = Supply(Held, ind)
  BY <1>1, <1>5, ServingKeeps, LosingKeeps
<1>7. /\ ind' = Tail(ind) /\ reord' = reord /\ unraised' = unraised
      /\ irq' = irq /\ rx_status' = rx_status
  BY DEF RxDesc
<1>8. Held' = t
  <2>1. t \in States
    BY <1>6 DEF Consistent
  <2> QED  BY <1>2, <2>1 DEF Held, States
<1>9. Consistent(Held, reord, ind)'
  BY <1>6, <1>7, <1>8
<1>10. Supplied'
  <2> DEFINE x == Supply(Held, ind)
             y == Supply(t, Tail(ind))
  <2>1. x \in Int /\ y \in Int /\ N \in Int
    <3>1. t \in States /\ t.b.fail \in Nat
      BY <1>6 DEF Consistent
    <3>2. Len(t.ring) \in Nat /\ Len(Held.ring) \in Nat
      BY <1>3, <3>1, StateFacts
    <3>3. OwedSum(ind) \in Nat /\ OwedSum(Tail(ind)) \in Nat
      BY <1>3, <1>4, OwedSumType
    <3> QED  BY <1>3, <3>1, <3>2, <3>3, BoundsAreNat DEF Supply
  <2>2. /\ y <= x /\ (~MonitorVif => y = x)
        /\ x <= N /\ ((~MonitorVif /\ pc # "off") => x = N)
    BY <1>1, <1>6 DEF Supplied
  <2>3. Supply(Held, ind)' = y
    BY <1>7, <1>8
  <2> HIDE DEF x, y
  <2>4. pc # "off"
    BY <1>1
  <2> QED  BY <2>1, <2>2, <2>3, <2>4 DEF Supplied
<1>11. WhenOff' /\ Flags'
  <2>1. WhenOff'
    BY <1>1 DEF RxDesc, AfterPass, WhenOff
  <2>2. Len(ind') <= D
    BY <1>1, <1>4, <1>7, BoundsAreNat DEF Flags
  <2>3. count' \in 0 .. MaxRx + 1
    BY <1>1, BoundsAreNat DEF RxDesc, Flags
  <2>4. pc' \in {"idle", "rest", "first", "second"} /\ pending' \in BOOLEAN
    BY <1>1 DEF RxDesc, AfterPass, Flags
  <2> QED  BY <1>1, <1>7, <2>1, <2>2, <2>3, <2>4 DEF Flags
<1>12. Raised'
  <2>1. CASE pc = "first"
    BY <1>1, <1>7, <2>1 DEF RxDesc, AfterPass, Raised
  <2>2. CASE pc = "second" /\ count > MaxRx
    <3>1. ~irq /\ ~unraised => Len(ind) + count <= MaxRx + 2
      BY <1>1, <2>2 DEF Raised
    <3>2. ~irq /\ ~unraised => Len(Tail(ind)) = 0
      BY <1>1, <1>4, <2>2, <3>1, ParamAssumption DEF Flags, ParamAssumption
    <3>3. ~irq /\ ~unraised => ind' = <<>>
      BY <1>4, <1>7, <3>2
    <3>4. pc' = "idle"
      BY <2>2 DEF RxDesc, AfterPass
    <3> QED  BY <1>1, <1>7, <3>3, <3>4 DEF Raised, Flags
  <2>3. CASE pc = "second" /\ ~(count > MaxRx)
    <3>1. pc' = "second" /\ count' = count + 1
      BY <2>3 DEF RxDesc
    <3>2. Len(ind') + count' = Len(ind) + count
      BY <1>1, <1>4, <1>7, <3>1 DEF Flags
    <3> QED  BY <1>1, <1>7, <2>3, <3>1, <3>2 DEF Raised
  <2> QED  BY <1>1, <2>1, <2>2, <2>3
<1> QED  BY <1>9, <1>10, <1>11, <1>12 DEF BufInv

LEMMA TaskRestKeeps == BufInv /\ TaskRest => BufInv'
<1> SUFFICES ASSUME BufInv, TaskRest  PROVE BufInv'
  OBVIOUS
<1> DEFINE t == FailCheck(Held)
<1>1. /\ Consistent(Held, reord, ind) /\ Supplied /\ Flags /\ Raised /\ pc = "rest"
      /\ buf' = t.b /\ ring' = t.ring
      /\ reord' = reord /\ ind' = ind /\ unraised' = unraised /\ rx_status' = rx_status
  BY DEF BufInv, TaskRest, Retry, Held
<1>2. Held \in States /\ Held.b.fail \in Nat
  BY <1>1 DEF Consistent
<1>3. /\ Grown(Held, t) /\ t.b.fail \in Nat
      /\ Len(t.ring) + t.b.fail = Len(Held.ring) + Held.b.fail
  BY <1>2, FailCheckGrows
<1> HIDE DEF t
<1>4. Consistent(t, reord, ind)
  BY <1>1, <1>3, LendingKeeps
<1>5. t \in States /\ ind \in Seq(Desc)
  BY <1>1, <1>4 DEF Consistent
<1>6. Held' = t
  BY <1>1, <1>5 DEF Held, States
<1>7. Supply(t, ind) = Supply(Held, ind)
  <2> DEFINE a == Len(t.ring)
             b == t.b.fail
             c == Len(Held.ring)
             d == Held.b.fail
             e == OwedSum(ind)
  <2>1. a \in Nat /\ b \in Nat /\ c \in Nat /\ d \in Nat /\ e \in Nat /\ a + b = c + d
    BY <1>2, <1>3, <1>5, StateFacts, OwedSumType
  <2> HIDE DEF a, b, c, d, e
  <2>2. a + e + b = c + e + d
    BY <2>1
  <2> QED  BY <2>2 DEF Supply, a, b, c, d, e
<1>8. \/ pc' = "idle" /\ irq' = irq /\ pending' = pending /\ count' = count
      \/ pc' = "second" /\ irq' = FALSE /\ pending' = FALSE /\ count' = 0
  BY DEF TaskRest, Acknowledge
<1>9. Consistent(Held, reord, ind)' /\ Supplied'
  BY <1>1, <1>4, <1>6, <1>7, <1>8 DEF Supplied
<1>10. Flags'
  <2>1. count' \in 0 .. MaxRx + 1 /\ pc' \in {"idle", "second"}
    BY <1>1, <1>8, BoundsAreNat DEF Flags
  <2> QED  BY <1>1, <1>8, <2>1 DEF Flags
<1>11. WhenOff' /\ Raised'
  <2>1. CASE pc' = "idle" /\ irq' = irq
    BY <1>1, <2>1 DEF WhenOff, Raised
  <2>2. CASE pc' = "second" /\ count' = 0
    <3>1. Len(ind') + count' <= MaxRx + 2
      BY <1>1, <1>5, <2>2, BoundsAreNat DEF Flags
    <3> QED  BY <2>2, <3>1 DEF WhenOff, Raised
  <2> QED  BY <1>8, <2>1, <2>2
<1> QED  BY <1>9, <1>10, <1>11 DEF BufInv

LEMMA RestartKeeps == BufInv /\ Restart => BufInv'
<1> SUFFICES ASSUME BufInv, Restart  PROVE BufInv'
  OBVIOUS
<1> DEFINE back == [NoBuf EXCEPT !.free = Memory - buf.stack, !.stack = buf.stack]
           s == InitialBuf(back)
<1>1. Held \in States /\ buf \in Pool
      /\ Cardinality(buf.listed) + buf.free + buf.stack = Memory
  BY DEF BufInv, Consistent, Held, States
<1>2. Cardinality(buf.listed) \in Nat /\ buf.free \in Nat /\ buf.stack \in Nat
  BY <1>1, IndexFinite DEF Pool
<1>3. Memory - buf.stack \in Nat /\ Memory - buf.stack + buf.stack = Memory
  <2> DEFINE a == Cardinality(buf.listed)
             b == buf.free
             c == buf.stack
  <2>1. a \in Nat /\ b \in Nat /\ c \in Nat /\ a + b + c = Memory /\ Memory \in Nat
    BY <1>1, <1>2, BoundsAreNat
  <2> HIDE DEF a, b, c
  <2>2. Memory - c \in Nat /\ Memory - c + c = Memory
    BY <2>1
  <2> QED  BY <2>2 DEF c
<1>4. /\ back \in Pool /\ back.listed = {} /\ back.fail = 0
      /\ back.free + back.stack = Memory
  <2> DEFINE c == buf.stack
             a == Memory - c
             half == [NoBuf EXCEPT !.free = a]
  <2>1. a \in Nat /\ c \in Nat /\ a + c = Memory
    BY <1>2, <1>3
  <2>2. NoBuf \in Pool /\ NoBuf.listed = {} /\ NoBuf.fail = 0
    BY ParamAssumption DEF ParamAssumption, NoBuf, Pool, Index
  <2>3. back = [half EXCEPT !.stack = c]
    OBVIOUS
  <2> HIDE DEF a, c, back
  <2>4. half \in Pool /\ half.listed = {} /\ half.fail = 0 /\ half.free = a
    BY <2>1, <2>2 DEF Pool
  <2> HIDE DEF half
  <2>5. back \in Pool /\ back.listed = {} /\ back.fail = 0 /\ back.free = a /\ back.stack = c
    BY <2>1, <2>3, <2>4 DEF Pool
  <2> QED  BY <2>1, <2>5
<1>5. /\ \/ buf' = s.b /\ ring' = s.ring /\ pc' = "idle"
         \/ buf' = back /\ ring' = <<>> /\ pc' = "off"
      /\ reord' = {} /\ ind' = <<>> /\ unraised' = FALSE /\ irq' = FALSE
      /\ count' = 0 /\ rx_status' = FALSE /\ pending' = FALSE
  BY DEF Restart
<1> HIDE DEF back
<1>7. CASE buf' = s.b /\ ring' = s.ring /\ pc' = "idle"
  <2>1. Consistent(s, {}, <<>>) /\ Supply(s, <<>>) = N
    BY <1>4, StartIsConsistent
  <2> HIDE DEF s
  <2>2. s \in States
    BY <2>1 DEF Consistent
  <2>3. Held' = s
    BY <1>7, <2>2 DEF Held, States
  <2>4. Consistent(Held', reord', ind') /\ Supply(Held', ind') = N
    BY <1>5, <2>1, <2>3, Zenon
  <2>5. Supplied'
    BY <2>4, BoundsAreNat DEF Supplied
  <2>6. WhenOff' /\ Raised'
    BY <1>5, <1>7 DEF WhenOff, Raised
  <2>7. Flags'
    <3>1. Len(ind') <= D /\ count' \in 0 .. MaxRx + 1
      BY <1>5, BoundsAreNat
    <3> QED  BY <1>5, <1>7, <3>1 DEF Flags
  <2> QED  BY <2>4, <2>5, <2>6, <2>7 DEF BufInv
<1>8. CASE buf' = back /\ ring' = <<>> /\ pc' = "off"
  <2>1. /\ Consistent([b |-> back, ring |-> <<>>], {}, <<>>)
        /\ Supply([b |-> back, ring |-> <<>>], <<>>) = 0
    BY <1>4, EmptyIsConsistent
  <2>2. Held' = [b |-> back, ring |-> <<>>]
    BY <1>8 DEF Held
  <2>3. Consistent(Held', reord', ind') /\ Supply(Held', ind') = 0
    BY <1>5, <2>1, <2>2, Zenon
  <2>4. Supplied'
    BY <1>8, <2>3, BoundsAreNat DEF Supplied
  <2>5. WhenOff' /\ Raised'
    BY <1>5, <1>4, <1>8 DEF WhenOff, Raised
  <2>6. Flags'
    <3>1. Len(ind') <= D /\ count' \in 0 .. MaxRx + 1
      BY <1>5, BoundsAreNat
    <3> QED  BY <1>5, <1>8, <3>1 DEF Flags
  <2> QED  BY <2>3, <2>4, <2>5, <2>6 DEF BufInv
<1> QED  BY <1>5, <1>7, <1>8

LEMMA StackFreesKeeps == BufInv /\ StackFrees => BufInv'
<1> SUFFICES ASSUME BufInv, StackFrees  PROVE BufInv'
  OBVIOUS
<1>1. Consistent(Held, reord, ind) /\ Supplied /\ WhenOff /\ Flags /\ Raised
  BY DEF BufInv
<1>2. /\ buf.stack > 0 /\ buf' = [buf EXCEPT !.stack = @ - 1, !.free = @ + 1]
      /\ ring' = ring /\ reord' = reord /\ ind' = ind /\ unraised' = unraised
      /\ irq' = irq /\ pc' = pc /\ count' = count /\ rx_status' = rx_status
      /\ pending' = pending
  BY DEF StackFrees
<1>3. buf \in Pool /\ ring \in Seq(Index)
  BY <1>1 DEF Consistent, Held, States
<1>4. /\ buf' \in Pool /\ buf'.listed = buf.listed /\ buf'.fail = buf.fail
      /\ buf'.free = buf.free + 1 /\ buf'.stack = buf.stack - 1
      /\ buf.free \in Nat /\ buf.stack \in Nat /\ Cardinality(buf.listed) \in Nat
  <2>1. /\ buf = [listed |-> buf.listed, idx |-> buf.idx, free |-> buf.free,
                 stack |-> buf.stack, fail |-> buf.fail]
        /\ buf.listed \in SUBSET Index /\ buf.idx \in Index /\ buf.free \in Nat
        /\ buf.stack \in Nat /\ buf.fail \in Int
    BY <1>3 DEF Pool
  <2>2. buf' = [listed |-> buf.listed, idx |-> buf.idx, free |-> buf.free + 1,
                stack |-> buf.stack - 1, fail |-> buf.fail]
    BY <1>2, <2>1
  <2>3. buf.free + 1 \in Nat /\ buf.stack - 1 \in Nat
    BY <1>2, <2>1
  <2>4. buf' \in Pool
    BY <2>1, <2>2, <2>3 DEF Pool
  <2> QED  BY <2>1, <2>2, <2>4, IndexFinite
<1>5. /\ Held' \in States /\ Held'.b.listed = Held.b.listed /\ Held'.b.fail = Held.b.fail
      /\ Held'.ring = Held.ring
  BY <1>2, <1>3, <1>4 DEF Held, States
<1>6. Cardinality(Held'.b.listed) + Held'.b.free + Held'.b.stack = Memory
  <2> DEFINE c == Cardinality(buf.listed)
             f == buf.free
             k == buf.stack
  <2>1. c + f + k = Memory /\ c \in Nat /\ f \in Nat /\ k \in Nat
    BY <1>1, <1>4 DEF Consistent, Held
  <2> HIDE DEF c, f, k
  <2>2. c + (f + 1) + (k - 1) = Memory
    BY <2>1
  <2> QED  BY <1>4, <2>2 DEF Held, c, f, k
<1>7. Consistent(Held', reord', ind')
  BY <1>1, <1>2, <1>5, <1>6 DEF Consistent, Lost
<1>8. Supply(Held', ind') = Supply(Held, ind)
  BY <1>2, <1>5 DEF Supply
<1>9. Supplied'
  BY <1>1, <1>2, <1>8 DEF Supplied
<1>10. WhenOff' /\ Flags' /\ Raised'
  BY <1>1, <1>2, <1>4 DEF WhenOff, Flags, Raised
<1> QED  BY <1>7, <1>9, <1>10 DEF BufInv

\* What a descriptor filled by the firmware keeps.
LEMMA IndicatingKeeps ==
  ASSUME BufInv, NEW d, Indicate(d), NEW t \in States, t.b = buf, ring' = t.ring,
         Consistent(t, reord', Append(ind, d)),
         Supply(t, Append(ind, d)) = Supply(Held, ind), rx_status' = rx_status
  PROVE  BufInv'
<1>1. Supplied /\ Flags /\ ind \in Seq(Desc)
  BY DEF BufInv, Consistent
<1>2. /\ pc # "off" /\ Len(ind) < D /\ ind' = Append(ind, d) /\ unraised' = TRUE
      /\ buf' = buf /\ irq' = irq /\ pc' = pc /\ count' = count /\ pending' = pending
  BY DEF Indicate
<1>3. Held' = t
  BY <1>2 DEF Held, States
<1>4. Consistent(Held', reord', ind') /\ Supply(Held', ind') = Supply(Held, ind)
  BY <1>2, <1>3, Zenon
<1>5. Supplied'
  BY <1>1, <1>2, <1>4 DEF Supplied
<1>6. Len(ind') <= D
  BY <1>1, <1>2, BoundsAreNat
<1>7. WhenOff' /\ Flags'
  BY <1>1, <1>2, <1>6 DEF WhenOff, Flags
<1>8. Raised'
  BY <1>2 DEF BufInv, Raised
<1> QED  BY <1>4, <1>5, <1>7, <1>8 DEF BufInv

LEMMA FwReceiveKeeps == BufInv /\ FwReceive => BufInv'
<1> SUFFICES ASSUME BufInv, FwReceive  PROVE BufInv'
  OBVIOUS
<1>0. PICK n \in 1 .. MaxMsdu : \E status \in Statuses(n) :
        LET d == [ids |-> SubSeq(ring, 1, n), status |-> status]
        IN  /\ n <= Len(ring)
            /\ Indicate(d)
            /\ ring' = SubSeq(ring, n + 1, Len(ring))
            /\ reord' = IF status = {"ALLOC"} THEN reord \cup Ids(d) ELSE reord
  BY DEF FwReceive
<1>1. PICK status \in Statuses(n) :
        LET d == [ids |-> SubSeq(ring, 1, n), status |-> status]
        IN  /\ n <= Len(ring)
            /\ Indicate(d)
            /\ ring' = SubSeq(ring, n + 1, Len(ring))
            /\ reord' = IF status = {"ALLOC"} THEN reord \cup Ids(d) ELSE reord
  BY <1>0
<1> DEFINE d == Frame(Held, n, status)
           t == LeftOf(Held, n)
<1>2. Held.ring = ring /\ Held.b = buf
  BY DEF Held
<1>3. /\ n <= Len(Held.ring) /\ Indicate(d) /\ t.b = buf /\ ring' = t.ring
      /\ reord' = KeptWith(reord, d)
  BY <1>1, <1>2 DEF Frame, LeftOf, KeptWith
<1>4. Consistent(Held, reord, ind) /\ rx_status' = rx_status
  BY <1>3 DEF BufInv, Indicate
<1>5. /\ Consistent(t, KeptWith(reord, d), Append(ind, d))
      /\ Supply(t, Append(ind, d)) = Supply(Held, ind)
  BY <1>3, <1>4, ReceivingKeeps
<1>6. t \in States
  BY <1>5 DEF Consistent
<1> HIDE DEF d, t
<1>7. Consistent(t, reord', Append(ind, d))
  BY <1>3, <1>5
<1> QED  BY <1>3, <1>4, <1>5, <1>6, <1>7, IndicatingKeeps

LEMMA FwReleaseKeeps == BufInv /\ FwRelease => BufInv'
<1> SUFFICES ASSUME BufInv, FwRelease  PROVE BufInv'
  OBVIOUS
<1>1. PICK i \in reord, status \in {{"FORWARD"}, {"DELETE"}, {"LEN_UPDATE"}} :
        /\ Indicate([ids |-> <<i>>, status |-> status])
        /\ reord' = IF status = {"LEN_UPDATE"} THEN reord ELSE reord \ {i}
        /\ ring' = ring
  BY DEF FwRelease
<1> DEFINE d == [ids |-> <<i>>, status |-> status]
<1>2. Held.ring = ring /\ Held.b = buf /\ Indicate(d)
  BY <1>1 DEF Held
<1>3. Consistent(Held, reord, ind) /\ rx_status' = rx_status
  BY <1>2 DEF BufInv, Indicate
<1>4. /\ Consistent(Held, reord', Append(ind, d))
      /\ Supply(Held, Append(ind, d)) = Supply(Held, ind)
  BY <1>1, <1>3, ReleasingKeeps
<1>5. Held \in States
  BY <1>3 DEF Consistent
<1> HIDE DEF d
<1> QED  BY <1>1, <1>2, <1>3, <1>4, <1>5, IndicatingKeeps

LEMMA FwRaiseKeeps == BufInv /\ FwRaise => BufInv'
<1> SUFFICES ASSUME BufInv, FwRaise  PROVE BufInv'
  OBVIOUS
<1>1. Consistent(Held, reord, ind)' /\ Supplied'
  <2>1. /\ buf' = buf /\ ring' = ring /\ reord' = reord /\ ind' = ind
        /\ (pc' = "off") <=> (pc = "off")
    BY DEF FwRaise
  <2> QED  BY <2>1, NothingMoves
<1>2. WhenOff /\ Flags /\ Raised
  BY DEF BufInv
<1>3. WhenOff' /\ Flags' /\ Raised'
  BY <1>2 DEF FwRaise, WhenOff, Flags, Raised
<1> QED  BY <1>1, <1>3 DEF BufInv

LEMMA StutterKeeps == BufInv /\ UNCHANGED vars => BufInv'
<1> SUFFICES ASSUME BufInv, UNCHANGED vars  PROVE BufInv'
  OBVIOUS
<1>1. Consistent(Held, reord, ind)' /\ Supplied'
  <2>1. /\ buf' = buf /\ ring' = ring /\ reord' = reord /\ ind' = ind
        /\ (pc' = "off") <=> (pc = "off")
    BY DEF vars
  <2> QED  BY <2>1, NothingMoves
<1>2. WhenOff /\ Flags /\ Raised
  BY DEF BufInv
<1>3. WhenOff' /\ Flags' /\ Raised'
  BY <1>2 DEF vars, WhenOff, Flags, Raised
<1> QED  BY <1>1, <1>3 DEF BufInv

\* The buffers, the descriptors and the interrupt stay consistent in every step.
LEMMA BufInvAlways == Spec => []BufInv
<1>1. BufInv /\ [Next]_vars => BufInv'
  <2> SUFFICES ASSUME BufInv, [Next]_vars  PROVE BufInv'
    OBVIOUS
  <2>1. CASE Irq  BY <2>1, IrqKeeps
  <2>2. CASE Task  BY <2>2, RxDescKeeps, RxEndKeeps, TaskRestKeeps DEF Task
  <2>3. CASE Restart  BY <2>3, RestartKeeps
  <2>4. CASE Firmware  BY <2>4, FwReceiveKeeps, FwReleaseKeeps, FwRaiseKeeps DEF Firmware
  <2>5. CASE StackFrees  BY <2>5, StackFreesKeeps
  <2>6. CASE Off  BY <2>6, StutterKeeps DEF Off
  <2>7. CASE UNCHANGED vars  BY <2>7, StutterKeeps
  <2> QED  BY <2>1, <2>2, <2>3, <2>4, <2>5, <2>6, <2>7 DEF Next
<1> QED  BY <1>1, StartKeeps, PTL DEF Spec

----------------------------------------------------------------------------
(* Theorems                                                                 *)

LEMMA BufInvTypes ==
  ASSUME BufInv
  PROVE  TypeOK /\ OneOwnerEach
<1>1. /\ Held \in States /\ buf.fail \in Nat /\ reord \in SUBSET Index /\ ind \in Seq(Desc)
      /\ Cardinality(buf.listed) + buf.free + buf.stack = Memory
      /\ Flags /\ Supply(Held, ind) <= N
  BY DEF BufInv, Consistent, Supplied, Held
<1>2. /\ buf \in Pool /\ ring \in Seq(Index) /\ Len(ring) \in Nat
      /\ Cardinality(buf.listed) \in Nat /\ OwedSum(ind) \in Nat
  BY <1>1, StateFacts, OwedSumType DEF Held, States
<1>3. buf.free \in 0 .. Memory /\ buf.stack \in 0 .. Memory
  <2> DEFINE c == Cardinality(buf.listed)
             f == buf.free
             k == buf.stack
  <2>1. c + f + k = Memory /\ c \in Nat /\ f \in Nat /\ k \in Nat
    BY <1>1, <1>2 DEF Pool
  <2> HIDE DEF c, f, k
  <2>2. f \in 0 .. Memory /\ k \in 0 .. Memory
    BY <2>1, BoundsAreNat
  <2> QED  BY <2>2 DEF f, k
<1>4. buf.fail \in 0 .. N /\ Len(ring) <= N
  <2> DEFINE l == Len(ring)
             o == OwedSum(ind)
             k == buf.fail
  <2>1. l + o + k <= N /\ l \in Nat /\ o \in Nat /\ k \in Nat
    BY <1>1, <1>2 DEF Supply, Held
  <2> HIDE DEF l, o, k
  <2>2. k \in 0 .. N /\ l <= N
    BY <2>1, BoundsAreNat
  <2> QED  BY <2>2 DEF l, k
<1>5. buf \in [listed : SUBSET Index, idx : Index, free : 0 .. Memory,
               stack : 0 .. Memory, fail : 0 .. N]
  BY <1>2, <1>3, <1>4 DEF Pool
<1> QED  BY <1>1, <1>2, <1>4, <1>5 DEF TypeOK, OneOwnerEach, Flags

\* Memory, host table and firmware agree on every buffer, through allocations
\* that fail, descriptors of every status and restarts: each is free, in the
\* stack or listed, and what the firmware has is listed, in one place each.
\* Nothing else is listed, unless frames are delivered for a monitor interface:
\* one that comes when the interface is gone loses its buffer until a restart
\* (siwifi_ipc_rxbuf_elem_allocs, siwifi_ipc_rxbuf_elem_pull,
\* siwifi_rx_monitor_skb and ipc_host_rxdesc_handler).
THEOREM EveryBufferTracked == Spec => []BuffersAreTracked
<1>1. BufInv => BuffersAreTracked
  <2> SUFFICES ASSUME BufInv  PROVE BuffersAreTracked
    OBVIOUS
  <2>1. TypeOK /\ OneOwnerEach
    BY BufInvTypes
  <2>2. TableMatchesFirmware
    <3> DEFINE has == Pushed \cup reord \cup Coming
               lost == Lost(Held, reord, ind)
    <3>1. Pushed = Elems(Held.ring) /\ Coming = ReturnedOf(ind) /\ Held.b = buf /\ Held.ring = ring
      BY DEF Pushed, Elems, Held, Coming, ReturnedOf
    <3>2. /\ Elems(Held.ring) \cup reord \cup ReturnedOf(ind) \subseteq Held.b.listed
          /\ ~MonitorVif => lost = {}
          /\ Cardinality(Held.b.listed)
               = Len(Held.ring) + Cardinality(reord) + ReturnedSum(ind) + Cardinality(lost)
          /\ Held \in States /\ ind \in Seq(Desc) /\ reord \in SUBSET Index
      BY DEF BufInv, Consistent
    <3>3. Total(ReturnedBy) = ReturnedSum(ind)
      BY TotalsAreSums
    <3>4. has \subseteq buf.listed /\ lost = buf.listed \ has
      BY <3>1, <3>2 DEF Lost
    <3>5. ~MonitorVif => buf.listed = has
      BY <3>2, <3>4
    <3>6. buf.listed \in SUBSET Index
      BY <3>1, <3>2, StateFacts
    <3> HIDE DEF has, lost
    <3>7. /\ IsFiniteSet(has) /\ IsFiniteSet(lost) /\ has \cap lost = {}
          /\ has \cup lost = buf.listed
          /\ Cardinality(has) \in Nat /\ Cardinality(lost) \in Nat
      BY <3>4, <3>6, IndexFinite
    <3>8. Cardinality(buf.listed) = Cardinality(has) + Cardinality(lost)
      <4>1. Cardinality(has \cup lost)
              = Cardinality(has) + Cardinality(lost) - Cardinality(has \cap lost)
        BY <3>7, FS_Union
      <4>2. Cardinality(has \cap lost) = 0
        BY <3>7, FS_EmptySet
      <4>3. Cardinality(buf.listed) = Cardinality(has \cup lost)
        BY <3>7
      <4> DEFINE x == Cardinality(has)
                 y == Cardinality(lost)
                 z == Cardinality(has \cup lost)
      <4>4. z = x + y - 0 /\ x \in Nat /\ y \in Nat
        BY <3>7, <4>1, <4>2
      <4> HIDE DEF x, y, z
      <4>5. z = x + y
        BY <4>4
      <4> QED  BY <4>3, <4>5 DEF x, y, z
    <3>9. Cardinality(has) = Len(ring) + Cardinality(reord) + Total(ReturnedBy)
      <4> DEFINE a == Len(ring)
                 b == Cardinality(reord)
                 c == Total(ReturnedBy)
                 h == Cardinality(has)
                 l == Cardinality(lost)
      <4>1. a \in Nat /\ b \in Nat /\ c \in Nat /\ h \in Nat /\ l \in Nat
        BY <3>1, <3>2, <3>3, <3>7, StateFacts, IndexFinite, ReturnedSumType
      <4>2. a + b + c + l = h + l
        BY <3>1, <3>2, <3>3, <3>8
      <4> HIDE DEF a, b, c, h, l
      <4>3. h = a + b + c
        BY <4>1, <4>2
      <4> QED  BY <4>3 DEF a, b, c, h
    <3> QED  BY <3>4, <3>5, <3>9 DEF TableMatchesFirmware, has
  <2> QED  BY <2>1, <2>2 DEF BuffersAreTracked
<1> QED  BY <1>1, BufInvAlways, PTL

\* Unless a monitor interface is delivered to, the buffers the firmware has to
\* receive into, those it is about to get and those the memory refused always
\* add up to rx_bufnb: no sequence of failed allocations and descriptors drains
\* the ring for good (rx_skb_alloc_fail_cnt, siwifi_ipc_rxbuf_elem_fail_check).
\* A monitored frame is never replaced (siwifi_rx_monitor_skb), which is why the
\* assumption is needed.
THEOREM SupplyAlwaysKept ==
  ASSUME ~MonitorVif
  PROVE  Spec => []SupplyKept
<1>1. BufInv => SupplyKept
  BY TotalsAreSums DEF BufInv, Supplied, Supply, Held, SupplyKept
<1> QED  BY <1>1, BufInvAlways, PTL

\* The interrupt is acknowledged between two looks at the descriptors: when the
\* tasklet ends, one that is filled has an interrupt raised or to be raised,
\* whatever the firmware filled in between (siwifi_task, ipc_host_rxdesc_handler).
THEOREM NoDescriptorIsForgotten == Spec => []NeverStalls
<1>1. BufInv => NeverStalls
  BY DEF BufInv, Raised, NeverStalls
<1> QED  BY <1>1, BufInvAlways, PTL
============================================================================
