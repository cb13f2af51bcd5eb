---------------------------- MODULE TxSchedOps ----------------------------
(* The invariant of the scheduler (Good), and what each operator on its     *)
(* state does to it: queueing a frame, stopping and starting, dropping and  *)
(* flushing, power save, stations that come and go. Folds and recursive     *)
(* functions are reasoned about by the least number for which they would    *)
(* fail.                                                                    *)
EXTENDS TxSched, FiniteSetTheorems, WellFoundedInduction, TLAPS

----------------------------------------------------------------------------
(* Lists of queues and of frames.                                           *)

Once(q) == \A i, j \in 1 .. Len(q) : q[i] = q[j] => i = j

LEMMA SetIs ==
  ASSUME NEW S, NEW q \in Seq(S)
  PROVE  /\ ToSet(q) = {q[i] : i \in 1 .. Len(q)}
         /\ ToSet(q) \subseteq S
         /\ \A e : Contains(q, e) <=> e \in ToSet(q)
         /\ ToSet(q) = {} <=> q = <<>>
         /\ q = <<>> <=> Len(q) = 0
         /\ Len(q) \in Nat
BY DEF ToSet, Contains

LEMMA NoneIn ==
  /\ ToSet(<<>>) = {} /\ Once(<<>>) /\ \A S : <<>> \in Seq(S)
BY DEF ToSet, Once

LEMMA Appended ==
  ASSUME NEW S, NEW q \in Seq(S), NEW e \in S
  PROVE  /\ Append(q, e) \in Seq(S)
         /\ Len(Append(q, e)) = Len(q) + 1
         /\ ToSet(Append(q, e)) = ToSet(q) \cup {e}
         /\ Once(q) /\ e \notin ToSet(q) => Once(Append(q, e))
<1> DEFINE r == Append(q, e)
<1>1. /\ r \in Seq(S) /\ Len(r) = Len(q) + 1 /\ r[Len(q) + 1] = e /\ Len(q) \in Nat
      /\ \A i \in 1 .. Len(q) : r[i] = q[i]
  OBVIOUS
<1> HIDE DEF r
<1>2. \A i \in 1 .. Len(r) : i = Len(q) + 1 \/ i \in 1 .. Len(q)
  BY <1>1
<1>3. ToSet(r) = ToSet(q) \cup {e}
  <2>1. ASSUME NEW x \in ToSet(r)  PROVE x \in ToSet(q) \cup {e}
    BY <1>1, <1>2, <2>1, SetIs
  <2>2. ASSUME NEW x \in ToSet(q)  PROVE x \in ToSet(r)
    BY <1>1, <2>2, SetIs
  <2>3. e \in ToSet(r)
    BY <1>1, SetIs
  <2> QED  BY <2>1, <2>2, <2>3
<1>4. ASSUME Once(q), e \notin ToSet(q)  PROVE Once(r)
  BY <1>1, <1>2, <1>4, SetIs DEF Once
<1> QED  BY <1>1, <1>3, <1>4 DEF r

\* A list cut in two.
LEMMA Cut ==
  ASSUME NEW S, NEW q \in Seq(S), NEW n \in 0 .. Len(q)
  PROVE  /\ SubSeq(q, 1, n) \in Seq(S) /\ SubSeq(q, n + 1, Len(q)) \in Seq(S)
         /\ Len(SubSeq(q, 1, n)) = n /\ Len(SubSeq(q, n + 1, Len(q))) = Len(q) - n
         /\ \A i \in 1 .. n : SubSeq(q, 1, n)[i] = q[i]
         /\ \A i \in 1 .. Len(q) - n : SubSeq(q, n + 1, Len(q))[i] = q[i + n]
         /\ ToSet(q) = ToSet(SubSeq(q, 1, n)) \cup ToSet(SubSeq(q, n + 1, Len(q)))
         /\ Once(q) => /\ Once(SubSeq(q, 1, n)) /\ Once(SubSeq(q, n + 1, Len(q)))
                       /\ ToSet(SubSeq(q, 1, n)) \cap ToSet(SubSeq(q, n + 1, Len(q))) = {}
<1> DEFINE a == SubSeq(q, 1, n)
           b == SubSeq(q, n + 1, Len(q))
<1>1. /\ a \in Seq(S) /\ b \in Seq(S) /\ Len(q) \in Nat /\ n \in Nat
      /\ Len(a) = n /\ Len(b) = Len(q) - n
  OBVIOUS
<1>2. \A i \in 1 .. n : a[i] = q[i]
  OBVIOUS
<1>3. \A i \in 1 .. Len(q) - n : b[i] = q[i + n]
  <2> TAKE i \in 1 .. Len(q) - n
  <2>1. b[i] = q[n + 1 + i - 1]
    OBVIOUS
  <2> QED  BY <2>1, <1>1
<1> HIDE DEF a, b
<1>4. ToSet(q) = ToSet(a) \cup ToSet(b)
  <2>1. ASSUME NEW x \in ToSet(q)  PROVE x \in ToSet(a) \cup ToSet(b)
    <3>1. PICK i \in 1 .. Len(q) : x = q[i]
      BY DEF ToSet
    <3>2. CASE i <= n
      <4>1. i \in 1 .. Len(a) /\ a[i] = x
        BY <1>1, <1>2, <3>1, <3>2
      <4> QED  BY <1>1, <4>1 DEF ToSet
    <3>3. CASE i > n
      <4>1. i - n \in 1 .. Len(b) /\ b[i - n] = x
        BY <1>1, <1>3, <3>1, <3>3
      <4> QED  BY <1>1, <4>1 DEF ToSet
    <3> QED  BY <1>1, <3>2, <3>3
  <2>2. ASSUME NEW x \in ToSet(a)  PROVE x \in ToSet(q)
    <3>1. PICK i \in 1 .. Len(a) : x = a[i]
      BY <1>1 DEF ToSet
    <3>2. i \in 1 .. Len(q) /\ q[i] = x
      BY <1>1, <1>2, <3>1
    <3> QED  BY <3>2 DEF ToSet
  <2>3. ASSUME NEW x \in ToSet(b)  PROVE x \in ToSet(q)
    <3>1. PICK i \in 1 .. Len(b) : x = b[i]
      BY <1>1 DEF ToSet
    <3>2. i + n \in 1 .. Len(q) /\ q[i + n] = x
      BY <1>1, <1>3, <3>1
    <3> QED  BY <3>2 DEF ToSet
  <2> QED  BY <2>1, <2>2, <2>3
<1>5. ASSUME Once(q)
      PROVE  Once(a) /\ Once(b) /\ ToSet(a) \cap ToSet(b) = {}
  <2>1. Once(a)
    BY <1>1, <1>2, <1>5 DEF Once
  <2>2. Once(b)
    <3> SUFFICES ASSUME NEW i \in 1 .. Len(b), NEW j \in 1 .. Len(b), b[i] = b[j]
                 PROVE  i = j
      BY DEF Once
    <3>1. i + n \in 1 .. Len(q) /\ j + n \in 1 .. Len(q) /\ q[i + n] = q[j + n]
      BY <1>1, <1>3
    <3>2. i + n = j + n
      BY <3>1, <1>5 DEF Once
    <3> QED  BY <1>1, <3>2
  <2>3. ASSUME NEW x \in ToSet(a), x \in ToSet(b)  PROVE FALSE
    <3>1. PICK i \in 1 .. n : x = q[i]
      BY <1>1, <1>2 DEF ToSet
    <3>2. PICK j \in 1 .. Len(b) : x = b[j]
      BY <1>1, <2>3 DEF ToSet
    <3>3. j + n \in 1 .. Len(q) /\ i \in 1 .. Len(q) /\ q[j + n] = q[i]
      BY <1>1, <1>3, <3>1, <3>2
    <3>4. j + n = i
      BY <1>5, <3>3 DEF Once
    <3> QED  BY <1>1, <3>1, <3>2, <3>4
  <2> QED  BY <2>1, <2>2, <2>3
<1> QED  BY <1>1, <1>2, <1>3, <1>4, <1>5 DEF a, b

\* Two lists one after the other.
LEMMA Joined ==
  ASSUME NEW S, NEW a \in Seq(S), NEW b \in Seq(S)
  PROVE  /\ a \o b \in Seq(S) /\ Len(a \o b) = Len(a) + Len(b)
         /\ ToSet(a \o b) = ToSet(a) \cup ToSet(b)
         /\ Once(a) /\ Once(b) /\ ToSet(a) \cap ToSet(b) = {} => Once(a \o b)
         /\ \A i \in 1 .. Len(a) + Len(b) :
              (a \o b)[i] = IF i <= Len(a) THEN a[i] ELSE b[i - Len(a)]
<1> DEFINE q == a \o b
           n == Len(a)
<1>1. /\ q \in Seq(S) /\ Len(q) = n + Len(b) /\ n \in Nat /\ Len(b) \in Nat
      /\ \A i \in 1 .. n : q[i] = a[i]
  OBVIOUS
<1>2. \A i \in 1 .. Len(b) : q[i + n] = b[i]
  OBVIOUS
<1>3. \A i \in 1 .. n + Len(b) : q[i] = IF i <= n THEN a[i] ELSE b[i - n]
  OBVIOUS
<1> HIDE DEF q, n
<1>4. n = Len(a)
  BY DEF n
<1>5. ToSet(q) = ToSet(a) \cup ToSet(b)
  <2>1. ASSUME NEW x \in ToSet(q)  PROVE x \in ToSet(a) \cup ToSet(b)
    <3>1. PICK i \in 1 .. n + Len(b) : x = q[i]
      BY <1>1 DEF ToSet
    <3>2. CASE i <= n
      <4>1. i \in 1 .. Len(a) /\ a[i] = x
        BY <1>1, <1>4, <3>1, <3>2
      <4> QED  BY <4>1 DEF ToSet
    <3>3. CASE i > n
      <4>1. i - n \in 1 .. Len(b) /\ b[i - n] = x
        BY <1>1, <1>3, <3>1, <3>3
      <4> QED  BY <4>1 DEF ToSet
    <3> QED  BY <1>1, <3>2, <3>3
  <2>2. ASSUME NEW x \in ToSet(a)  PROVE x \in ToSet(q)
    <3>1. PICK i \in 1 .. n : x = a[i]
      BY <1>4 DEF ToSet
    <3>2. i \in 1 .. Len(q) /\ q[i] = x
      BY <1>1, <3>1
    <3> QED  BY <1>1, <3>2 DEF ToSet
  <2>3. ASSUME NEW x \in ToSet(b)  PROVE x \in ToSet(q)
    <3>1. PICK i \in 1 .. Len(b) : x = b[i]
      BY DEF ToSet
    <3>2. i + n \in 1 .. Len(q) /\ q[i + n] = x
      BY <1>1, <1>2, <3>1
    <3> QED  BY <1>1, <3>2, SMTT(30) DEF ToSet
  <2> QED  BY <2>1, <2>2, <2>3
<1>6. ASSUME Once(a), Once(b), ToSet(a) \cap ToSet(b) = {}
      PROVE  Once(q)
  <2> SUFFICES ASSUME NEW i \in 1 .. Len(q), NEW j \in 1 .. Len(q), q[i] = q[j]
               PROVE  i = j
    BY DEF Once
  <2>1. \A k \in 1 .. Len(q) : k <= n => k \in 1 .. Len(a) /\ q[k] = a[k] /\ q[k] \in ToSet(a)
    BY <1>1, <1>4 DEF ToSet
  <2>2. \A k \in 1 .. Len(q) : k > n =>
          k - n \in 1 .. Len(b) /\ q[k] = b[k - n] /\ b[k - n] \in ToSet(b)
    <3> SUFFICES ASSUME NEW k \in 1 .. Len(q), k > n
                 PROVE k - n \in 1 .. Len(b) /\ q[k] = b[k - n] /\ b[k - n] \in ToSet(b)
      OBVIOUS
    <3>1. k - n \in 1 .. Len(b) /\ q[k] = b[k - n]
      BY <1>1, <1>3
    <3> QED  BY <3>1 DEF ToSet
  <2>3. CASE i <= n /\ j <= n
    BY <1>6, <2>1, <2>3 DEF Once
  <2>4. CASE i > n /\ j > n
    <3>1. i - n = j - n
      BY <1>6, <2>2, <2>4 DEF Once
    <3> QED  BY <1>1, <3>1
  <2>5. CASE i <= n /\ j > n
    BY <1>6, <2>1, <2>2, <2>5
  <2>6. CASE i > n /\ j <= n
    BY <1>6, <2>1, <2>2, <2>6
  <2> QED  BY <1>1, <2>3, <2>4, <2>5, <2>6
<1> QED  BY <1>1, <1>3, <1>5, <1>6 DEF q, n

\* list_del.
LEMMA Removed ==
  ASSUME NEW S, NEW q \in Seq(S), NEW e, Once(q)
  PROVE  /\ RemoveFirst(q, e) \in Seq(S)
         /\ ToSet(RemoveFirst(q, e)) = ToSet(q) \ {e}
         /\ Once(RemoveFirst(q, e))
<1>1. CASE e \notin ToSet(q)
  <2>1. RemoveFirst(q, e) = q
    BY <1>1, SetIs DEF RemoveFirst
  <2> QED  BY <1>1, <2>1
<1>2. CASE e \in ToSet(q)
  <2>1. PICK k \in 1 .. Len(q) : q[k] = e
    BY <1>2, SetIs
  <2>2. {i \in 1 .. Len(q) : q[i] = e} = {k}
    BY <2>1 DEF Once
  <2>3. Min({k}) = k
    <3>1. \A x \in {k} : \A y \in {k} : x <= y
      BY <2>1
    <3> QED  BY <3>1 DEF Min
  <2>4. RemoveFirst(q, e) = SubSeq(q, 1, k - 1) \o SubSeq(q, k + 1, Len(q))
    BY <2>1, <2>2, <2>3 DEF RemoveFirst, SelectInSeq, RemoveAt
  <2> DEFINE a == SubSeq(q, 1, k - 1)
             c == SubSeq(q, k, Len(q))
             b == SubSeq(q, k + 1, Len(q))
             d == SubSeq(q, 1, k)
  <2>5. /\ a \in Seq(S) /\ Once(a) /\ c \in Seq(S) /\ ToSet(q) = ToSet(a) \cup ToSet(c)
        /\ ToSet(a) \cap ToSet(c) = {} /\ Len(c) = Len(q) - (k - 1)
        /\ \A i \in 1 .. Len(q) - (k - 1) : c[i] = q[i + (k - 1)]
    <3>1. k - 1 \in 0 .. Len(q) /\ (k - 1) + 1 = k
      BY <2>1
    <3> QED  BY <3>1, Cut
  <2>6. /\ b \in Seq(S) /\ Once(b) /\ d \in Seq(S) /\ ToSet(q) = ToSet(d) \cup ToSet(b)
        /\ ToSet(d) \cap ToSet(b) = {} /\ Len(d) = k
        /\ \A i \in 1 .. k : d[i] = q[i]
        /\ Len(b) = Len(q) - k
        /\ \A i \in 1 .. Len(q) - k : b[i] = q[i + k]
    BY <2>1, Cut
  <2> HIDE DEF a, b, c, d
  <2>7. e \in ToSet(c) /\ e \in ToSet(d)
    <3>1. 1 \in 1 .. Len(c) /\ c[1] = e
      BY <2>1, <2>5
    <3>2. k \in 1 .. Len(d) /\ d[k] = e
      BY <2>1, <2>6
    <3>3. e \in ToSet(c)
      BY <2>5, <3>1, SetIs
    <3>4. e \in ToSet(d)
      BY <2>6, <3>2, SetIs
    <3> QED  BY <3>3, <3>4
  <2>8. ToSet(b) \subseteq ToSet(c)
    <3> SUFFICES ASSUME NEW x \in ToSet(b)  PROVE x \in ToSet(c)
      OBVIOUS
    <3>1. PICK i \in 1 .. Len(b) : x = b[i]
      BY <2>6, SetIs
    <3>2. i + 1 \in 1 .. Len(c) /\ c[i + 1] = x
      <4>1. i + 1 \in 1 .. Len(q) - (k - 1) /\ (i + 1) + (k - 1) = i + k
        BY <2>1, <2>6, <3>1
      <4> QED  BY <2>5, <2>6, <3>1, <4>1
    <3> QED  BY <2>5, <3>2, SetIs
  <2>9. ToSet(c) \subseteq ToSet(b) \cup {e}
    <3> SUFFICES ASSUME NEW x \in ToSet(c)  PROVE x \in ToSet(b) \cup {e}
      OBVIOUS
    <3>1. PICK i \in 1 .. Len(c) : x = c[i]
      BY <2>5, SetIs
    <3>2. CASE i = 1
      BY <2>1, <2>5, <3>1, <3>2
    <3>3. CASE i # 1
      <4>1. i - 1 \in 1 .. Len(b) /\ (i - 1) + k = i + (k - 1)
        BY <2>1, <2>5, <2>6, <3>1, <3>3
      <4>2. b[i - 1] = x
        BY <2>5, <2>6, <3>1, <4>1
      <4> QED  BY <2>6, <4>1, <4>2, SetIs
    <3> QED  BY <3>2, <3>3
  <2>10. ToSet(a) \cap ToSet(b) = {} /\ ToSet(a) \cup ToSet(b) = ToSet(q) \ {e}
    BY <2>5, <2>6, <2>7, <2>8, <2>9
  <2>11. RemoveFirst(q, e) = a \o b
    BY <2>4 DEF a, b
  <2> QED  BY <2>5, <2>6, <2>10, <2>11, Joined
<1> QED  BY <1>1, <1>2

\* A frame put at a place.
LEMMA Inserted ==
  ASSUME NEW S, NEW q \in Seq(S), NEW e \in S, NEW n \in 1 .. Len(q) + 1
  PROVE  /\ InsertAt(q, n, e) \in Seq(S)
         /\ Len(InsertAt(q, n, e)) = Len(q) + 1
         /\ ToSet(InsertAt(q, n, e)) = ToSet(q) \cup {e}
         /\ Once(q) /\ e \notin ToSet(q) => Once(InsertAt(q, n, e))
         /\ InsertAt(q, n, e)[n] = e
         /\ \A i \in 1 .. n - 1 : InsertAt(q, n, e)[i] = q[i]
<1> DEFINE m == n - 1
           a == SubSeq(q, 1, m)
           b == SubSeq(q, m + 1, Len(q))
           c == a \o <<e>>
<1>1. m \in 0 .. Len(q) /\ m + 1 = n /\ m \in Nat
  OBVIOUS
<1>2. InsertAt(q, n, e) = c \o b
  BY <1>1 DEF InsertAt
<1> HIDE DEF m
<1>3. /\ a \in Seq(S) /\ b \in Seq(S) /\ Len(a) = m /\ Len(b) = Len(q) - m
      /\ \A i \in 1 .. m : a[i] = q[i]
      /\ ToSet(q) = ToSet(a) \cup ToSet(b)
      /\ Once(q) => Once(a) /\ Once(b) /\ ToSet(a) \cap ToSet(b) = {}
  BY <1>1, Cut
<1>4. <<e>> \in Seq(S) /\ Len(<<e>>) = 1 /\ ToSet(<<e>>) = {e} /\ Once(<<e>>) /\ <<e>>[1] = e
  BY DEF ToSet, Once
<1> HIDE DEF a, b, c
<1>5. /\ c \in Seq(S) /\ Len(c) = m + 1 /\ ToSet(c) = ToSet(a) \cup {e}
      /\ Once(a) /\ e \notin ToSet(a) => Once(c)
      /\ \A i \in 1 .. m + 1 : c[i] = IF i <= m THEN a[i] ELSE <<e>>[i - m]
  <2>1. /\ a \o <<e>> \in Seq(S) /\ Len(a \o <<e>>) = Len(a) + Len(<<e>>)
        /\ ToSet(a \o <<e>>) = ToSet(a) \cup ToSet(<<e>>)
        /\ Once(a) /\ Once(<<e>>) /\ ToSet(a) \cap ToSet(<<e>>) = {} => Once(a \o <<e>>)
        /\ \A i \in 1 .. Len(a) + Len(<<e>>) :
              (a \o <<e>>)[i] = IF i <= Len(a) THEN a[i] ELSE <<e>>[i - Len(a)]
    <3>1. a \in Seq(S) /\ <<e>> \in Seq(S)
      BY <1>3, <1>4
    <3> DEFINE z == <<e>>
    <3>2. z \in Seq(S)
      BY <3>1
    <3> HIDE DEF z
    <3>3. /\ a \o z \in Seq(S) /\ Len(a \o z) = Len(a) + Len(z)
          /\ ToSet(a \o z) = ToSet(a) \cup ToSet(z)
          /\ Once(a) /\ Once(z) /\ ToSet(a) \cap ToSet(z) = {} => Once(a \o z)
          /\ \A i \in 1 .. Len(a) + Len(z) :
                (a \o z)[i] = IF i <= Len(a) THEN a[i] ELSE z[i - Len(a)]
      BY <3>1, <3>2, Joined
    <3> QED  BY <3>3 DEF z
  <2>2. ToSet(a) \cap {e} = {} <=> e \notin ToSet(a)
    OBVIOUS
  <2> QED  BY <1>3, <1>4, <2>1, <2>2 DEF c
<1>6. /\ c \o b \in Seq(S) /\ Len(c \o b) = Len(c) + Len(b)
      /\ ToSet(c \o b) = ToSet(c) \cup ToSet(b)
      /\ Once(c) /\ Once(b) /\ ToSet(c) \cap ToSet(b) = {} => Once(c \o b)
      /\ \A i \in 1 .. Len(c) + Len(b) : (c \o b)[i] = IF i <= Len(c) THEN c[i] ELSE b[i - Len(c)]
  <2>1. c \in Seq(S) /\ b \in Seq(S)
    BY <1>3, <1>5
  <2> QED  BY <2>1, Joined
<1>7. Len(q) \in Nat
  OBVIOUS
<1>8. (c \o b)[n] = e
  <2>1. n \in 1 .. Len(c) + Len(b) /\ n <= Len(c) /\ n = m + 1 /\ n - m = 1 /\ ~(n <= m)
    BY <1>1, <1>3, <1>5, <1>7
  <2>2. (c \o b)[n] = c[n]
    BY <1>6, <2>1
  <2>3. c[n] = <<e>>[1]
    BY <1>5, <2>1
  <2> QED  BY <1>4, <2>2, <2>3
<1>9. \A i \in 1 .. n - 1 : (c \o b)[i] = q[i]
  <2> SUFFICES ASSUME NEW i \in 1 .. n - 1  PROVE (c \o b)[i] = q[i]
    OBVIOUS
  <2>1. i \in 1 .. Len(c) + Len(b) /\ i <= Len(c) /\ i \in 1 .. m + 1 /\ i <= m /\ i \in 1 .. m
    BY <1>1, <1>3, <1>5, <1>7
  <2> QED  BY <1>3, <1>5, <1>6, <2>1
<1>10. Len(c \o b) = Len(q) + 1
  BY <1>1, <1>3, <1>5, <1>6, <1>7
<1>11. ASSUME Once(q), e \notin ToSet(q)  PROVE Once(c \o b)
  <2>1. Once(a) /\ Once(b) /\ ToSet(a) \cap ToSet(b) = {} /\ e \notin ToSet(a) /\ e \notin ToSet(b)
    BY <1>3, <1>11
  <2> QED  BY <1>5, <1>6, <2>1
<1>12. ToSet(c \o b) = ToSet(q) \cup {e}
  BY <1>3, <1>5, <1>6
<1> QED  BY <1>2, <1>6, <1>8, <1>9, <1>10, <1>11, <1>12

\* The first of a list, and the rest.
LEMMA Behead ==
  ASSUME NEW S, NEW q \in Seq(S), q # <<>>
  PROVE  /\ Tail(q) \in Seq(S) /\ Head(q) \in S /\ Len(Tail(q)) = Len(q) - 1
         /\ Head(q) = q[1] /\ Head(q) \in ToSet(q)
         /\ \A i \in 1 .. Len(q) - 1 : Tail(q)[i] = q[i + 1]
         /\ ToSet(q) = ToSet(Tail(q)) \cup {Head(q)}
         /\ Once(q) => Once(Tail(q)) /\ Head(q) \notin ToSet(Tail(q))
<1> DEFINE r == Tail(q)
<1>1. /\ r \in Seq(S) /\ Len(r) = Len(q) - 1 /\ Len(q) \in Nat /\ Len(q) >= 1
      /\ Head(q) = q[1] /\ q[1] \in S
      /\ \A i \in 1 .. Len(q) - 1 : r[i] = q[i + 1]
  OBVIOUS
<1> HIDE DEF r
<1>2. q[1] \in ToSet(q)
  BY <1>1, SetIs
<1>3. ToSet(q) = ToSet(r) \cup {q[1]}
  <2>1. ASSUME NEW x \in ToSet(q)  PROVE x \in ToSet(r) \cup {q[1]}
    <3>1. PICK i \in 1 .. Len(q) : x = q[i]
      BY SetIs
    <3>2. CASE i # 1
      <4>1. i - 1 \in 1 .. Len(r) /\ r[i - 1] = x
        BY <1>1, <3>1, <3>2
      <4> QED  BY <1>1, <4>1, SetIs
    <3> QED  BY <3>1, <3>2
  <2>2. ASSUME NEW x \in ToSet(r)  PROVE x \in ToSet(q)
    <3>1. PICK i \in 1 .. Len(r) : x = r[i]
      BY <1>1, SetIs
    <3>2. i + 1 \in 1 .. Len(q) /\ q[i + 1] = x
      BY <1>1, <3>1
    <3> QED  BY <3>2, SetIs
  <2> QED  BY <1>2, <2>1, <2>2
<1>4. ASSUME Once(q)  PROVE Once(r) /\ q[1] \notin ToSet(r)
  <2>1. Once(r)
    <3> SUFFICES ASSUME NEW i \in 1 .. Len(r), NEW j \in 1 .. Len(r), r[i] = r[j]
                 PROVE  i = j
      BY DEF Once
    <3>1. i + 1 \in 1 .. Len(q) /\ j + 1 \in 1 .. Len(q) /\ q[i + 1] = q[j + 1]
      BY <1>1
    <3>2. i + 1 = j + 1
      BY <1>4, <3>1 DEF Once
    <3> QED  BY <1>1, <3>2
  <2>2. ASSUME q[1] \in ToSet(r)  PROVE FALSE
    <3>1. PICK i \in 1 .. Len(r) : q[1] = r[i]
      BY <1>1, <2>2, SetIs
    <3>2. i + 1 \in 1 .. Len(q) /\ 1 \in 1 .. Len(q) /\ q[i + 1] = q[1]
      BY <1>1, <3>1
    <3>3. i + 1 = 1
      BY <1>4, <3>2 DEF Once
    <3> QED  BY <1>1, <3>1, <3>3
  <2> QED  BY <2>1, <2>2
<1> QED  BY <1>1, <1>2, <1>3, <1>4 DEF r

\* list_rotate_left.
LEMMA Turned ==
  ASSUME NEW S, NEW q \in Seq(S), q # <<>>
  PROVE  /\ Append(Tail(q), Head(q)) \in Seq(S)
         /\ ToSet(Append(Tail(q), Head(q))) = ToSet(q)
         /\ Once(q) => Once(Append(Tail(q), Head(q)))
<1> DEFINE r == Tail(q)
           e == Head(q)
<1>1. /\ r \in Seq(S) /\ e \in S /\ ToSet(q) = ToSet(r) \cup {e}
      /\ Once(q) => Once(r) /\ e \notin ToSet(r)
  BY Behead
<1> HIDE DEF r, e
<1>2. /\ Append(r, e) \in Seq(S) /\ ToSet(Append(r, e)) = ToSet(r) \cup {e}
      /\ Once(r) /\ e \notin ToSet(r) => Once(Append(r, e))
  BY <1>1, Appended
<1> QED  BY <1>1, <1>2 DEF r, e

----------------------------------------------------------------------------
(* What the operators do to the parts of the state they are meant for.     *)

Stops == {"FULL", "STA_PS"} \cup Reasons

Queue ==
  [active : BOOLEAN, flow : BOOLEAN, ps_active : BOOLEAN, stop : SUBSET Stops,
   credits : Int, sk_list : Seq(Skb), last_retry_skb : Skb \cup {None},
   nb_retry : Nat, push_limit : Nat, token_pkt_num : [Token -> Int],
   init_time : 0 .. MaxInit, ps_id : PsIds, pkt_ready : Int, sp_cnt : Int]

HwQueue ==
  [list : Seq(Txq), credits : Int, dec : 0 .. Size - 1, need_processing : BOOLEAN,
   token_status : [Token -> BOOLEAN], outstanding_tokens : Int]

Hdr ==
  [txq : Txq \cup {None}, init_time : 0 .. MaxInit, token : Token \cup {None},
   status : {"pending", "ok", "retry"}, credits : Nat]

Raw == [txq : [Txq -> Queue], hwq : HwQueue, skb : [Skb -> Hdr],
          ring : Seq(Skb), stuck : SUBSET Txq]

State == {s \in Raw : Once(s.hwq.list)}

Listed(s) == ToSet(s.hwq.list)

SameFrames(r, s) == r.skb = s.skb /\ r.ring = s.ring

SameHw(r, s) ==
  /\ r.hwq.credits = s.hwq.credits /\ r.hwq.dec = s.hwq.dec
  /\ r.hwq.token_status = s.hwq.token_status
  /\ r.hwq.outstanding_tokens = s.hwq.outstanding_tokens

LEMMA AddEffect ==
  ASSUME NEW s \in State, NEW t \in Txq, NEW r, r = AddToHwList(s, t)
  PROVE  /\ r \in State /\ r.txq = s.txq /\ SameFrames(r, s) /\ SameHw(r, s)
         /\ Listed(r) = Listed(s) \cup {t}
         /\ r.stuck = IF t \in Listed(s) THEN s.stuck ELSE s.stuck \ {t}
         /\ r.hwq.need_processing = (s.hwq.need_processing \/ t \notin Listed(s))
<1>1. s \in Raw /\ Once(s.hwq.list) /\ s.hwq.list \in Seq(Txq)
  BY DEF State, Raw, HwQueue
<1>2. IsScheduled(s, t) <=> t \in Listed(s)
  BY <1>1, SetIs DEF IsScheduled, Listed
<1>3. CASE t \in Listed(s)
  <2>1. r = s
    BY <1>2, <1>3 DEF AddToHwList
  <2> QED  BY <1>1, <1>3, <2>1 DEF State, Raw, HwQueue, SameFrames, SameHw
<1>4. CASE t \notin Listed(s)
  <2>1. r = [[s EXCEPT !.stuck = @ \ {t}] EXCEPT !.hwq.list = Append(@, t), !.hwq.need_processing = TRUE]
    BY <1>2, <1>4 DEF AddToHwList, DelFromStuckCheckList
  <2> DEFINE l == Append(s.hwq.list, t)
  <2>2. l \in Seq(Txq) /\ ToSet(l) = Listed(s) \cup {t} /\ Once(l)
    BY <1>1, <1>4, Appended DEF Listed
  <2>3. r = [s EXCEPT !.stuck = @ \ {t}, !.hwq = [@ EXCEPT !.list = l, !.need_processing = TRUE]]
    BY <1>1, <2>1 DEF Raw, HwQueue
  <2> HIDE DEF l
  <2>4. /\ r.txq = s.txq /\ r.skb = s.skb /\ r.ring = s.ring /\ r.stuck = s.stuck \ {t}
        /\ r.hwq = [s.hwq EXCEPT !.list = l, !.need_processing = TRUE]
    BY <1>1, <2>3 DEF Raw
  <2>5. /\ r.hwq \in HwQueue /\ SameHw(r, s) /\ r.hwq.list = l /\ r.hwq.need_processing
    BY <1>1, <2>2, <2>4 DEF Raw, HwQueue, SameHw
  <2>6. r \in Raw
    BY <1>1, <2>3, <2>4, <2>5 DEF Raw
  <2> QED  BY <1>1, <1>4, <2>2, <2>4, <2>5, <2>6 DEF State, SameFrames, Listed
<1> QED  BY <1>3, <1>4

LEMMA DelEffect ==
  ASSUME NEW s \in State, NEW t \in Txq, NEW r, r = DelFromHwList(s, t)
  PROVE  /\ r \in State /\ r.txq = s.txq /\ SameFrames(r, s) /\ SameHw(r, s)
         /\ Listed(r) = Listed(s) \ {t}
         /\ r.stuck = IF t \in Listed(s) /\ s.txq[t].sk_list # <<>>
                      THEN s.stuck \cup {t} ELSE s.stuck
         /\ r.hwq.need_processing = s.hwq.need_processing
<1>1. s \in Raw /\ Once(s.hwq.list) /\ s.hwq.list \in Seq(Txq)
  BY DEF State, Raw, HwQueue
<1>2. IsScheduled(s, t) <=> t \in Listed(s)
  BY <1>1, SetIs DEF IsScheduled, Listed
<1>3. CASE t \notin Listed(s)
  <2>1. r = s
    BY <1>2, <1>3 DEF DelFromHwList
  <2> QED  BY <1>1, <1>3, <2>1 DEF State, Raw, HwQueue, SameFrames, SameHw
<1>4. CASE t \in Listed(s)
  <2> DEFINE l == RemoveFirst(s.hwq.list, t)
             off == [s EXCEPT !.hwq.list = l]
  <2>1. r = IF HasData(s, t) THEN AddToStuckCheckList(off, t) ELSE off
    BY <1>2, <1>4 DEF DelFromHwList
  <2>2. l \in Seq(Txq) /\ ToSet(l) = Listed(s) \ {t} /\ Once(l)
    BY <1>1, <1>4, Removed DEF Listed
  <2> HIDE DEF l
  <2>3. /\ r.txq = s.txq /\ r.skb = s.skb /\ r.ring = s.ring
        /\ r.stuck = IF s.txq[t].sk_list # <<>> THEN s.stuck \cup {t} ELSE s.stuck
        /\ r.hwq = [s.hwq EXCEPT !.list = l]
    BY <1>1, <2>1 DEF Raw, HasData, AddToStuckCheckList
  <2>4. /\ r.hwq \in HwQueue /\ SameHw(r, s) /\ r.hwq.list = l
        /\ r.hwq.need_processing = s.hwq.need_processing
    BY <1>1, <2>2, <2>3 DEF Raw, HwQueue, SameHw
  <2>5. r \in Raw
    <3>1. off \in Raw
      <4>1. [s.hwq EXCEPT !.list = l] \in HwQueue
        BY <2>3, <2>4
      <4>2. off = [s EXCEPT !.hwq = [s.hwq EXCEPT !.list = l]]
        BY <1>1 DEF Raw
      <4> QED  BY <1>1, <4>1, <4>2 DEF Raw
    <3>2. AddToStuckCheckList(off, t) \in Raw
      BY <3>1 DEF Raw, AddToStuckCheckList
    <3> QED  BY ONLY <2>1, <3>1, <3>2
  <2> QED  BY <1>1, <1>4, <2>2, <2>3, <2>4, <2>5 DEF State, SameFrames, Listed
<1> QED  BY <1>3, <1>4

\* One queue replaced.
LEMMA SetQueue ==
  ASSUME NEW s \in State, NEW t \in Txq, NEW q \in Queue
  PROVE  LET r == [s EXCEPT !.txq = [@ EXCEPT ![t] = q]]
         IN  /\ r \in State /\ r.txq = [s.txq EXCEPT ![t] = q]
             /\ r.hwq = s.hwq /\ r.skb = s.skb /\ r.ring = s.ring /\ r.stuck = s.stuck
             /\ r.txq[t] = q /\ \A u \in Txq \ {t} : r.txq[u] = s.txq[u]
             /\ s.txq[t] \in Queue
BY DEF State, Raw

LEMMA StopsAs ==
  ASSUME NEW s \in State, NEW t \in Txq, NEW set \in SUBSET Stops
  PROVE  LET q == [s.txq[t] EXCEPT !.stop = set]
             r == [s EXCEPT !.txq = [@ EXCEPT ![t] = q]]
         IN  /\ q \in Queue
             /\ [s EXCEPT !.txq[t].stop = set] = r
             /\ r \in State /\ r.txq = [s.txq EXCEPT ![t] = q]
             /\ r.hwq = s.hwq /\ r.skb = s.skb /\ r.ring = s.ring /\ r.stuck = s.stuck
             /\ r.txq[t] = q /\ \A u \in Txq \ {t} : r.txq[u] = s.txq[u]
<1> DEFINE q == [s.txq[t] EXCEPT !.stop = set]
<1>1. s.txq[t] \in Queue /\ s \in Raw
  BY DEF State, Raw
<1>2. q \in Queue
  BY <1>1 DEF Queue
<1>3. [s EXCEPT !.txq[t].stop = set] = [s EXCEPT !.txq = [@ EXCEPT ![t] = q]]
  BY <1>1 DEF Raw
<1> QED  BY <1>2, <1>3, SetQueue

\* What siwifi_txq_stop and siwifi_txq_start do to a queue in use.
Stopped(r, s, t, reason) ==
  /\ r \in State /\ SameFrames(r, s) /\ SameHw(r, s)
  /\ r.txq[t] = [s.txq[t] EXCEPT !.stop = @ \cup {reason}]
  /\ \A u \in Txq \ {t} : r.txq[u] = s.txq[u]
  /\ Listed(r) = Listed(s) \ {t}
  /\ r.stuck = IF t \in Listed(s) /\ s.txq[t].sk_list # <<>>
               THEN s.stuck \cup {t} ELSE s.stuck
  /\ r.hwq.need_processing = s.hwq.need_processing

Started(r, s, t, reason, run) ==
  /\ r \in State /\ SameFrames(r, s) /\ SameHw(r, s)
  /\ r.txq[t] = [s.txq[t] EXCEPT !.stop = @ \ {reason}]
  /\ \A u \in Txq \ {t} : r.txq[u] = s.txq[u]
  /\ Listed(r) = IF run THEN Listed(s) \cup {t} ELSE Listed(s)
  /\ r.stuck = IF run /\ t \notin Listed(s) THEN s.stuck \ {t} ELSE s.stuck
  /\ r.hwq.need_processing = (s.hwq.need_processing \/ (run /\ t \notin Listed(s)))

Runs(s, t, reason) == s.txq[t].stop = {reason} /\ s.txq[t].sk_list # <<>>

LEMMA StopEffect ==
  ASSUME NEW s \in State, NEW t \in Txq, NEW reason \in Stops,
         NEW r, r = Stop(s, t, reason), s.txq[t].active
  PROVE  Stopped(r, s, t, reason)
<1> DEFINE set == s.txq[t].stop \cup {reason}
           q == [s.txq[t] EXCEPT !.stop = set]
           m == [s EXCEPT !.txq = [@ EXCEPT ![t] = q]]
<1>1. s.txq[t] \in Queue /\ s \in Raw
  BY DEF State, Raw
<1>2. set \in SUBSET Stops
  BY <1>1 DEF Queue
<1>3. /\ q \in Queue /\ [s EXCEPT !.txq[t].stop = set] = m
      /\ m \in State /\ m.txq = [s.txq EXCEPT ![t] = q]
      /\ m.hwq = s.hwq /\ m.skb = s.skb /\ m.ring = s.ring /\ m.stuck = s.stuck
      /\ m.txq[t] = q /\ \A u \in Txq \ {t} : m.txq[u] = s.txq[u]
  <2> HIDE DEF set
  <2> QED  BY <1>2, StopsAs
<1>4. r = DelFromHwList(m, t)
  BY <1>1, <1>3 DEF Stop, Raw
<1>5. q.sk_list = s.txq[t].sk_list
  BY <1>1 DEF Queue
<1>6. q = [s.txq[t] EXCEPT !.stop = @ \cup {reason}]
  BY <1>1 DEF Queue
<1> HIDE DEF m, q, set
<1>8. /\ m \in State /\ m.hwq = s.hwq /\ m.skb = s.skb /\ m.ring = s.ring
      /\ m.stuck = s.stuck /\ m.txq[t].sk_list = s.txq[t].sk_list
  BY <1>3, <1>5
<1>7. /\ r \in State /\ r.txq = m.txq /\ SameFrames(r, m) /\ SameHw(r, m)
      /\ Listed(r) = Listed(m) \ {t}
      /\ r.stuck = IF t \in Listed(m) /\ m.txq[t].sk_list # <<>>
                   THEN m.stuck \cup {t} ELSE m.stuck
      /\ r.hwq.need_processing = m.hwq.need_processing
  <2>1. PICK y \in State : y = m
    BY <1>8
  <2>2. t \in Txq /\ r = DelFromHwList(y, t)
    BY <1>4, <2>1
  <2>3. /\ r \in State /\ r.txq = y.txq /\ SameFrames(r, y) /\ SameHw(r, y)
        /\ Listed(r) = Listed(y) \ {t}
        /\ r.stuck = IF t \in Listed(y) /\ y.txq[t].sk_list # <<>>
                     THEN y.stuck \cup {t} ELSE y.stuck
        /\ r.hwq.need_processing = y.hwq.need_processing
    BY ONLY <2>2, y \in State, DelEffect, ZenonT(30)
  <2> QED  BY <2>1, <2>3
<1>9. /\ m.txq[t] = [s.txq[t] EXCEPT !.stop = @ \cup {reason}]
      /\ \A u \in Txq \ {t} : m.txq[u] = s.txq[u]
  BY <1>3, <1>6
<1>10. /\ SameFrames(r, s) /\ SameHw(r, s) /\ Listed(r) = Listed(s) \ {t}
       /\ r.stuck = IF t \in Listed(s) /\ s.txq[t].sk_list # <<>>
                    THEN s.stuck \cup {t} ELSE s.stuck
       /\ r.hwq.need_processing = s.hwq.need_processing
  BY <1>7, <1>8 DEF SameFrames, SameHw, Listed
<1> QED  BY <1>7, <1>9, <1>10 DEF Stopped

LEMMA StartEffect ==
  ASSUME NEW s \in State, NEW t \in Txq, NEW reason \in Stops,
         NEW r, r = Start(s, t, reason), s.txq[t].active
  PROVE  Started(r, s, t, reason, Runs(s, t, reason))
<1> DEFINE set == s.txq[t].stop \ {reason}
           q == [s.txq[t] EXCEPT !.stop = set]
           m == [s EXCEPT !.txq = [@ EXCEPT ![t] = q]]
           run == Runs(s, t, reason)
<1>1. s.txq[t] \in Queue /\ s \in Raw /\ s.hwq.need_processing \in BOOLEAN
  BY DEF State, Raw, HwQueue
<1>2. set \in SUBSET Stops
  BY <1>1 DEF Queue
<1>3. /\ q \in Queue /\ [s EXCEPT !.txq[t].stop = set] = m
      /\ m \in State /\ m.txq = [s.txq EXCEPT ![t] = q]
      /\ m.hwq = s.hwq /\ m.skb = s.skb /\ m.ring = s.ring /\ m.stuck = s.stuck
      /\ m.txq[t] = q /\ \A u \in Txq \ {t} : m.txq[u] = s.txq[u]
  <2> HIDE DEF set
  <2> QED  BY <1>2, StopsAs
<1>5. q.sk_list = s.txq[t].sk_list /\ q.stop = set
  BY <1>1 DEF Queue
<1>6. q = [s.txq[t] EXCEPT !.stop = @ \ {reason}]
  BY <1>1 DEF Queue
<1>7. CASE reason \notin s.txq[t].stop
  <2>1. r = s
    BY <1>7 DEF Start
  <2>2. q = s.txq[t]
    <3>1. set = s.txq[t].stop
      BY <1>7
    <3> QED  BY <1>1, <3>1 DEF Queue
  <2>3. m.txq = s.txq
    BY <1>1, <1>3, <2>2 DEF Raw
  <2>4. ~run
    BY <1>7 DEF Runs
  <2>5. m.txq[t] = [s.txq[t] EXCEPT !.stop = @ \ {reason}]
    BY <1>3, <1>6
  <2> HIDE DEF m, q, run, set
  <2>6. SameFrames(r, s) /\ SameHw(r, s) /\ Listed(r) = Listed(s)
    BY <2>1 DEF SameFrames, SameHw
  <2> QED  BY <1>1, <1>3, <2>1, <2>3, <2>4, <2>5, <2>6, ZenonT(30) DEF Started, run
<1>8. CASE reason \in s.txq[t].stop
  <2>1. r = IF ~IsStopped(m, t) /\ HasData(m, t) THEN AddToHwList(m, t) ELSE m
    BY <1>1, <1>3, <1>8 DEF Start, Raw
  <2>2. (~IsStopped(m, t) /\ HasData(m, t)) <=> run
    BY <1>3, <1>5, <1>8, ZenonT(30) DEF IsStopped, HasData, Runs
  <2> HIDE DEF m, q, run, set
  <2>3. /\ m \in State /\ m.hwq = s.hwq /\ m.skb = s.skb /\ m.ring = s.ring
        /\ m.stuck = s.stuck
    BY <1>3
  <2>4. /\ r \in State /\ r.txq = m.txq /\ SameFrames(r, m) /\ SameHw(r, m)
        /\ Listed(r) = IF run THEN Listed(s) \cup {t} ELSE Listed(s)
        /\ r.stuck = IF run /\ t \notin Listed(s) THEN s.stuck \ {t} ELSE s.stuck
        /\ r.hwq.need_processing = (s.hwq.need_processing \/ (run /\ t \notin Listed(s)))
    <3>1. CASE run
      <4>1. r = AddToHwList(m, t)
        BY <2>1, <2>2, <3>1
      <4>2. /\ r \in State /\ r.txq = m.txq /\ SameFrames(r, m) /\ SameHw(r, m)
            /\ Listed(r) = Listed(m) \cup {t}
            /\ r.stuck = IF t \in Listed(m) THEN m.stuck ELSE m.stuck \ {t}
            /\ r.hwq.need_processing = (m.hwq.need_processing \/ t \notin Listed(m))
        BY <2>3, <4>1, AddEffect
      <4> QED  BY <2>3, <3>1, <4>2 DEF Listed
    <3>2. CASE ~run
      <4>1. r = m
        BY <2>1, <2>2, <3>2
      <4> QED  BY <1>1, <2>3, <3>2, <4>1 DEF SameFrames, SameHw, Listed
    <3> QED  BY <3>1, <3>2
  <2>5. /\ m.txq[t] = [s.txq[t] EXCEPT !.stop = @ \ {reason}]
        /\ \A u \in Txq \ {t} : m.txq[u] = s.txq[u]
    BY <1>3, <1>6
  <2>6. SameFrames(r, s) /\ SameHw(r, s)
    BY <2>3, <2>4 DEF SameFrames, SameHw
  <2> QED  BY <2>4, <2>5, <2>6 DEF Started, run
<1> QED  BY <1>7, <1>8

----------------------------------------------------------------------------
(* Folds: a fold takes the elements of a finite set one by one, c[s] last. *)

LEMMA LeastNat ==
  ASSUME NEW S \in SUBSET Nat, S # {}
  PROVE  \E m \in S : \A n \in S : m <= n
<1>1. OpToRel(<, Nat) = {p \in Nat \X Nat : p[1] < p[2]}
  BY DEF OpToRel
<1>2. PICK m \in S : \A n \in S : <<n, m>> \notin OpToRel(<, Nat)
  BY NatLessThanWellFounded, WFMin
<1>3. ASSUME NEW n \in S
      PROVE  ~(n < m)
  <2> DEFINE p == <<n, m>>
  <2>1. p \in Nat \X Nat /\ p[1] = n /\ p[2] = m
    OBVIOUS
  <2>2. p \notin {q \in Nat \X Nat : q[1] < q[2]}
    BY <1>1, <1>2, Zenon
  <2> QED  BY <2>1, <2>2
<1> QED  BY <1>3

LEMMA UpTo ==
  ASSUME NEW n \in Nat, NEW A, 0 \in A,
         \A m \in 1 .. n : m - 1 \in A => m \in A
  PROVE  \A m \in 0 .. n : m \in A
<1> DEFINE F == {m \in 0 .. n : m \notin A}
<1> SUFFICES ASSUME F # {}  PROVE FALSE
  OBVIOUS
<1>1. PICK m \in F : \A k \in F : m <= k
  <2>1. F \in SUBSET Nat
    OBVIOUS
  <2> QED  BY <2>1, LeastNat
<1>2. m \in 1 .. n /\ m - 1 \in 0 .. n /\ m - 1 \notin F
  BY <1>1
<1> QED  BY <1>1, <1>2

LEMMA SubsetsInduct ==
  ASSUME NEW T, IsFiniteSet(T), NEW c, \A s \in SUBSET T : s # {} => c[s] \in s,
         NEW A, {} \in A,
         \A s \in SUBSET T : s # {} /\ s \ {c[s]} \in A => s \in A
  PROVE  \A s \in SUBSET T : s \in A
<1> DEFINE F == {s \in SUBSET T : s \notin A}
<1> SUFFICES ASSUME F # {}  PROVE FALSE
  OBVIOUS
<1>1. \A s \in SUBSET T : IsFiniteSet(s) /\ Cardinality(s) \in Nat
  BY FS_Subset, FS_CardinalityType
<1>2. PICK m \in {Cardinality(s) : s \in F} : \A k \in {Cardinality(s) : s \in F} : m <= k
  <2>1. {Cardinality(s) : s \in F} \in SUBSET Nat /\ {Cardinality(s) : s \in F} # {}
    BY <1>1
  <2> QED  BY <2>1, LeastNat
<1>3. PICK s \in F : m = Cardinality(s)
  BY <1>2
<1>4. s # {} /\ s \in SUBSET T /\ c[s] \in s
  BY <1>3
<1> DEFINE r == s \ {c[s]}
<1>5. Cardinality(r) = m - 1 /\ m \in Nat
  BY <1>1, <1>3, <1>4, FS_RemoveElement
<1>6. r \in F
  BY <1>3, <1>4
<1> QED  BY <1>2, <1>5, <1>6

\* The folds of the scheduler, named.
PushAll(t, k, base, q) == FoldLeft(LAMBDA r, f : TxPush(r, t, f, k), base, q)
ProcessAll(skip, rotate, base, q) == FoldLeft(LAMBDA p, t : ProcessTxq(p, t, skip, rotate), base, q)
CfmAll(base, q) == FoldLeft(TxDataCfm, base, q)
StopAll(reason, base, T) == FoldSet(LAMBDA t, r : Stop(r, t, reason), base, T)
StartAll(reason, base, T) == FoldSet(LAMBDA t, r : Start(r, t, reason), base, T)

\* The states a fold goes through, one element at a time.
PushRun(t, k, base, n, q) ==
  \E g : /\ g[0] = base
         /\ \A i \in 1 .. n : g[i] = TxPush(g[i - 1], t, q[i], k)
         /\ PushAll(t, k, base, q) = g[n]
ProcessRun(skip, rotate, base, n, q) ==
  \E g : /\ g[0] = base
         /\ \A i \in 1 .. n : g[i] = ProcessTxq(g[i - 1], q[i], skip, rotate)
         /\ ProcessAll(skip, rotate, base, q) = g[n]
CfmRun(base, n, q) ==
  \E g : /\ g[0] = base
         /\ \A i \in 1 .. n : g[i] = TxDataCfm(g[i - 1], q[i])
         /\ CfmAll(base, q) = g[n]

LEMMA UpToOne ==
  ASSUME NEW n \in Nat, NEW i \in 1 .. n
  PROVE  1 .. i \in SUBSET (1 .. n) /\ 1 .. i # {} /\ i \in 1 .. i /\ (1 .. i) \ {i} = 1 .. i - 1
<1>1. i \in 1 .. i
  OBVIOUS
<1>2. 1 .. i \in SUBSET (1 .. n)
  OBVIOUS
<1>3. \A x : x \in (1 .. i) \ {i} <=> x \in 1 .. i - 1
  OBVIOUS
<1> QED  BY <1>1, <1>2, <1>3

LEMMA Greatest ==
  ASSUME NEW n \in Nat, NEW s \in SUBSET (1 .. n), s # {}
  PROVE  \E x \in s : \A y \in s : x >= y
<1>1. PICK m \in {n - x : x \in s} : \A k \in {n - x : x \in s} : m <= k
  <2>1. \A x \in s : n - x \in Nat
    OBVIOUS
  <2>3. {n - x : x \in s} \in SUBSET Nat /\ {n - x : x \in s} # {}
    BY <2>1
  <2> QED  BY <2>3, LeastNat
<1>2. PICK x \in s : m = n - x
  OBVIOUS
<1>3. \A y \in s : n - x <= n - y
  BY <1>1, <1>2
<1> QED  BY <1>3

\* The frames a queue is allowed, pushed one after the other.
LEMMA PushFold ==
  ASSUME NEW t, NEW k, NEW base, NEW n \in Nat, NEW q, DOMAIN q = 1 .. n
  PROVE  PushRun(t, k, base, n, q)
<1> DEFINE T == 1 .. n
           c == [s \in SUBSET T |-> CHOOSE x \in s : \A y \in s : x >= y]
           Eq(it) == it = [s \in SUBSET T |-> IF s = {} THEN base ELSE
                       TxPush(it[s \ {CHOOSE x \in s : \A y \in s : x >= y}], t, q[CHOOSE x \in s : \A y \in s : x >= y], k)]
           it == CHOOSE it : Eq(it)
<1>1. PushAll(t, k, base, q) = it[T]
  BY DEF FoldLeft, MapThenFoldSet, Max, PushAll
<1>2. IsFiniteSet(T) /\ \A s \in SUBSET T : s # {} => c[s] \in s /\ \A y \in s : c[s] >= y
  <2>1. IsFiniteSet(T)
    BY FS_Interval
  <2>2. ASSUME NEW s \in SUBSET T, s # {}  PROVE \E x \in s : \A y \in s : x >= y
    BY <2>2, Greatest
  <2> QED  BY <2>1, <2>2
<1>3. \E h : Eq(h)
  <2> DEFINE Small(m) == {s \in SUBSET T : Cardinality(s) <= m}
             Up(h, s) == IF s = {} THEN base ELSE TxPush(h[s \ {c[s]}], t, q[c[s]], k)
             A == {m \in Nat : \E h : /\ h = [s \in Small(m) |-> h[s]]
                                      /\ \A s \in Small(m) : h[s] = Up(h, s)}
             N == Cardinality(T)
  <2>1. \A s \in SUBSET T : IsFiniteSet(s) /\ Cardinality(s) \in 0 .. N
    <3>1. IsFiniteSet(T)
      BY <1>2
    <3> HIDE DEF T, c
    <3> QED  BY <3>1, FS_Subset, FS_CardinalityType
  <2>2. N \in Nat
    BY <1>2, FS_CardinalityType
  <2>3. \A s \in SUBSET T : s # {} => c[s] \in T /\ s \ {c[s]} \in SUBSET T
          /\ Cardinality(s \ {c[s]}) = Cardinality(s) - 1
    <3> HIDE DEF c
    <3> QED  BY <1>2, <2>1, FS_RemoveElement
  <2>4. 0 \in A
    <3>1. Small(0) = {{}}
      BY <2>1, FS_EmptySet
    <3> DEFINE h == [s \in Small(0) |-> base]
    <3>2. h = [s \in Small(0) |-> h[s]] /\ \A s \in Small(0) : h[s] = Up(h, s)
      BY <3>1
    <3> HIDE DEF h, Small, Up
    <3> QED  BY <3>2
  <2>5. ASSUME NEW m \in 1 .. N, m - 1 \in A  PROVE m \in A
    <3>0. m \in Nat /\ m - 1 \in Nat
      BY <2>2
    <3>1. PICK g : /\ g = [s \in Small(m - 1) |-> g[s]]
                   /\ \A s \in Small(m - 1) : g[s] = Up(g, s)
      <4> HIDE DEF Small, Up
      <4> QED  BY <2>5
    <3> DEFINE h == [s \in Small(m) |-> IF Cardinality(s) <= m - 1 THEN g[s] ELSE Up(g, s)]
    <3>2. \A s \in Small(m) : s # {} => s \ {c[s]} \in Small(m - 1)
      <4> HIDE DEF c
      <4> QED  BY <2>1, <2>3, <3>0
    <3>3. \A s \in Small(m - 1) : s \in Small(m) /\ h[s] = g[s]
      <4> HIDE DEF Up
      <4> QED  BY <2>1, <3>0
    <3>4. \A s \in Small(m) : Up(h, s) = Up(g, s)
      <4> TAKE s \in Small(m)
      <4>1. s # {} => h[s \ {c[s]}] = g[s \ {c[s]}]
        <5> HIDE DEF h, Small, c
        <5> QED  BY <3>2, <3>3
      <4> HIDE DEF h, c
      <4> QED  BY <4>1
    <3>5. \A s \in Small(m) : h[s] = Up(g, s)
      <4> TAKE s \in Small(m)
      <4>1. CASE Cardinality(s) <= m - 1
        <5>1. s \in Small(m - 1)
          BY <4>1
        <5> HIDE DEF Up
        <5> QED  BY <3>1, <4>1, <5>1
      <4>2. CASE ~(Cardinality(s) <= m - 1)
        <5> HIDE DEF Up
        <5> QED  BY <4>2
      <4> QED  BY <4>1, <4>2
    <3>6. h = [s \in Small(m) |-> h[s]]
      <4> HIDE DEF Up
      <4> QED  OBVIOUS
    <3>7. \A s \in Small(m) : h[s] = Up(h, s)
      <4> HIDE DEF h, Small, Up
      <4> QED  BY <3>4, <3>5
    <3> HIDE DEF h, Small, Up
    <3> QED  BY <3>0, <3>6, <3>7
  <2>6. N \in A
    <3> HIDE DEF A
    <3>1. \A m \in 1 .. N : m - 1 \in A => m \in A
      BY <2>5
    <3> HIDE DEF N
    <3>2. \A m \in 0 .. N : m \in A
      BY <2>2, <2>4, <3>1, UpTo
    <3> QED  BY <2>2, <3>2
  <2>7. Small(N) = SUBSET T
    <3> HIDE DEF T, N
    <3> QED  BY <2>1
  <2>8. PICK h : /\ h = [s \in SUBSET T |-> h[s]] /\ \A s \in SUBSET T : h[s] = Up(h, s)
    <3> HIDE DEF Small, Up
    <3> QED  BY <2>6, <2>7
  <2>9. h = [s \in SUBSET T |-> Up(h, s)]
    <3> HIDE DEF Up, T
    <3> QED  BY <2>8
  <2>10. Eq(h)
    <3> HIDE DEF T
    <3> QED  BY <2>9
  <2> QED  BY <2>10
<1>4. Eq(it)
  <2> HIDE DEF Eq
  <2> QED  BY <1>3
<1> DEFINE g == [i \in 0 .. n |-> it[1 .. i]]
<1>5. \A i \in 1 .. n : c[1 .. i] = i /\ (1 .. i) \ {i} = 1 .. i - 1 /\ 1 .. i \in SUBSET T /\ 1 .. i # {}
  <2> TAKE i \in 1 .. n
  <2>1. 1 .. i \in SUBSET T /\ 1 .. i # {} /\ i \in 1 .. i /\ (1 .. i) \ {i} = 1 .. i - 1
    BY UpToOne
  <2>2. c[1 .. i] \in 1 .. i /\ c[1 .. i] >= i
    <3> HIDE DEF c, T
    <3> QED  BY <1>2, <2>1
  <2> QED  BY <2>1, <2>2
<1>6. g[0] = base
  <2>1. g[0] = it[{}]
    <3>1. 1 .. 0 = {} /\ 0 \in 0 .. n
      OBVIOUS
    <3> HIDE DEF it
    <3> QED  BY <3>1
  <2> HIDE DEF g, it
  <2> QED  BY <1>4, <2>1
<1>7. \A i \in 1 .. n : g[i] = TxPush(g[i - 1], t, q[i], k)
  <2> TAKE i \in 1 .. n
  <2>1. g[i] = it[1 .. i] /\ g[i - 1] = it[1 .. i - 1]
    <3> HIDE DEF it
    <3> QED  OBVIOUS
  <2>2. (CHOOSE x \in 1 .. i : \A y \in 1 .. i : x >= y) = i
    BY <1>5
  <2>3. /\ (1 .. i) \ {i} = 1 .. i - 1 /\ 1 .. i \in SUBSET T /\ 1 .. i # {}
    BY <1>5
  <2> HIDE DEF g, it, c, T
  <2>4. it[1 .. i] = TxPush(it[1 .. i - 1], t, q[i], k)
    BY <1>4, <2>2, <2>3
  <2> QED  BY <2>1, <2>4
<1>8. it[T] = g[n]
  <2> HIDE DEF it
  <2> QED  OBVIOUS
<1> HIDE DEF g, it
<1> QED  BY <1>1, <1>6, <1>7, <1>8 DEF PushRun

\* The queues of the list, processed one after the other.
LEMMA ProcessFold ==
  ASSUME NEW skip, NEW rotate, NEW base, NEW n \in Nat, NEW q, DOMAIN q = 1 .. n
  PROVE  ProcessRun(skip, rotate, base, n, q)
<1> DEFINE T == 1 .. n
           c == [s \in SUBSET T |-> CHOOSE x \in s : \A y \in s : x >= y]
           Eq(it) == it = [s \in SUBSET T |-> IF s = {} THEN base ELSE
                       ProcessTxq(it[s \ {CHOOSE x \in s : \A y \in s : x >= y}], q[CHOOSE x \in s : \A y \in s : x >= y], skip, rotate)]
           it == CHOOSE it : Eq(it)
<1>1. ProcessAll(skip, rotate, base, q) = it[T]
  BY DEF FoldLeft, MapThenFoldSet, Max, ProcessAll
<1>2. IsFiniteSet(T) /\ \A s \in SUBSET T : s # {} => c[s] \in s /\ \A y \in s : c[s] >= y
  <2>1. IsFiniteSet(T)
    BY FS_Interval
  <2>2. ASSUME NEW s \in SUBSET T, s # {}  PROVE \E x \in s : \A y \in s : x >= y
    BY <2>2, Greatest
  <2> QED  BY <2>1, <2>2
<1>3. \E h : Eq(h)
  <2> DEFINE Small(m) == {s \in SUBSET T : Cardinality(s) <= m}
             Up(h, s) == IF s = {} THEN base ELSE ProcessTxq(h[s \ {c[s]}], q[c[s]], skip, rotate)
             A == {m \in Nat : \E h : /\ h = [s \in Small(m) |-> h[s]]
                                      /\ \A s \in Small(m) : h[s] = Up(h, s)}
             N == Cardinality(T)
  <2>1. \A s \in SUBSET T : IsFiniteSet(s) /\ Cardinality(s) \in 0 .. N
    <3>1. IsFiniteSet(T)
      BY <1>2
    <3> HIDE DEF T, c
    <3> QED  BY <3>1, FS_Subset, FS_CardinalityType
  <2>2. N \in Nat
    BY <1>2, FS_CardinalityType
  <2>3. \A s \in SUBSET T : s # {} => c[s] \in T /\ s \ {c[s]} \in SUBSET T
          /\ Cardinality(s \ {c[s]}) = Cardinality(s) - 1
    <3> HIDE DEF c
    <3> QED  BY <1>2, <2>1, FS_RemoveElement
  <2>4. 0 \in A
    <3>1. Small(0) = {{}}
      BY <2>1, FS_EmptySet
    <3> DEFINE h == [s \in Small(0) |-> base]
    <3>2. h = [s \in Small(0) |-> h[s]] /\ \A s \in Small(0) : h[s] = Up(h, s)
      BY <3>1
    <3> HIDE DEF h, Small, Up
    <3> QED  BY <3>2
  <2>5. ASSUME NEW m \in 1 .. N, m - 1 \in A  PROVE m \in A
    <3>0. m \in Nat /\ m - 1 \in Nat
      BY <2>2
    <3>1. PICK g : /\ g = [s \in Small(m - 1) |-> g[s]]
                   /\ \A s \in Small(m - 1) : g[s] = Up(g, s)
      <4> HIDE DEF Small, Up
      <4> QED  BY <2>5
    <3> DEFINE h == [s \in Small(m) |-> IF Cardinality(s) <= m - 1 THEN g[s] ELSE Up(g, s)]
    <3>2. \A s \in Small(m) : s # {} => s \ {c[s]} \in Small(m - 1)
      <4> HIDE DEF c
      <4> QED  BY <2>1, <2>3, <3>0
    <3>3. \A s \in Small(m - 1) : s \in Small(m) /\ h[s] = g[s]
      <4> HIDE DEF Up
      <4> QED  BY <2>1, <3>0
    <3>4. \A s \in Small(m) : Up(h, s) = Up(g, s)
      <4> TAKE s \in Small(m)
      <4>1. s # {} => h[s \ {c[s]}] = g[s \ {c[s]}]
        <5> HIDE DEF h, Small, c
        <5> QED  BY <3>2, <3>3
      <4> HIDE DEF h, c
      <4> QED  BY <4>1
    <3>5. \A s \in Small(m) : h[s] = Up(g, s)
      <4> TAKE s \in Small(m)
      <4>1. CASE Cardinality(s) <= m - 1
        <5>1. s \in Small(m - 1)
          BY <4>1
        <5> HIDE DEF Up
        <5> QED  BY <3>1, <4>1, <5>1
      <4>2. CASE ~(Cardinality(s) <= m - 1)
        <5> HIDE DEF Up
        <5> QED  BY <4>2
      <4> QED  BY <4>1, <4>2
    <3>6. h = [s \in Small(m) |-> h[s]]
      <4> HIDE DEF Up
      <4> QED  OBVIOUS
    <3>7. \A s \in Small(m) : h[s] = Up(h, s)
      <4> HIDE DEF h, Small, Up
      <4> QED  BY <3>4, <3>5
    <3> HIDE DEF h, Small, Up
    <3> QED  BY <3>0, <3>6, <3>7
  <2>6. N \in A
    <3> HIDE DEF A
    <3>1. \A m \in 1 .. N : m - 1 \in A => m \in A
      BY <2>5
    <3> HIDE DEF N
    <3>2. \A m \in 0 .. N : m \in A
      BY <2>2, <2>4, <3>1, UpTo
    <3> QED  BY <2>2, <3>2
  <2>7. Small(N) = SUBSET T
    <3> HIDE DEF T, N
    <3> QED  BY <2>1
  <2>8. PICK h : /\ h = [s \in SUBSET T |-> h[s]] /\ \A s \in SUBSET T : h[s] = Up(h, s)
    <3> HIDE DEF Small, Up
    <3> QED  BY <2>6, <2>7
  <2>9. h = [s \in SUBSET T |-> Up(h, s)]
    <3> HIDE DEF Up, T
    <3> QED  BY <2>8
  <2>10. Eq(h)
    <3> HIDE DEF T
    <3> QED  BY <2>9
  <2> QED  BY <2>10
<1>4. Eq(it)
  <2> HIDE DEF Eq
  <2> QED  BY <1>3
<1> DEFINE g == [i \in 0 .. n |-> it[1 .. i]]
<1>5. \A i \in 1 .. n : c[1 .. i] = i /\ (1 .. i) \ {i} = 1 .. i - 1 /\ 1 .. i \in SUBSET T /\ 1 .. i # {}
  <2> TAKE i \in 1 .. n
  <2>1. 1 .. i \in SUBSET T /\ 1 .. i # {} /\ i \in 1 .. i /\ (1 .. i) \ {i} = 1 .. i - 1
    BY UpToOne
  <2>2. c[1 .. i] \in 1 .. i /\ c[1 .. i] >= i
    <3> HIDE DEF c, T
    <3> QED  BY <1>2, <2>1
  <2> QED  BY <2>1, <2>2
<1>6. g[0] = base
  <2>1. g[0] = it[{}]
    <3>1. 1 .. 0 = {} /\ 0 \in 0 .. n
      OBVIOUS
    <3> HIDE DEF it
    <3> QED  BY <3>1
  <2> HIDE DEF g, it
  <2> QED  BY <1>4, <2>1
<1>7. \A i \in 1 .. n : g[i] = ProcessTxq(g[i - 1], q[i], skip, rotate)
  <2> TAKE i \in 1 .. n
  <2>1. g[i] = it[1 .. i] /\ g[i - 1] = it[1 .. i - 1]
    <3> HIDE DEF it
    <3> QED  OBVIOUS
  <2>2. (CHOOSE x \in 1 .. i : \A y \in 1 .. i : x >= y) = i
    BY <1>5
  <2>3. /\ (1 .. i) \ {i} = 1 .. i - 1 /\ 1 .. i \in SUBSET T /\ 1 .. i # {}
    BY <1>5
  <2> HIDE DEF g, it, c, T
  <2>4. it[1 .. i] = ProcessTxq(it[1 .. i - 1], q[i], skip, rotate)
    BY <1>4, <2>2, <2>3
  <2> QED  BY <2>1, <2>4
<1>8. it[T] = g[n]
  <2> HIDE DEF it
  <2> QED  OBVIOUS
<1> HIDE DEF g, it
<1> QED  BY <1>1, <1>6, <1>7, <1>8 DEF ProcessRun

\* The frames the firmware is done with, confirmed one after the other.
LEMMA CfmFold ==
  ASSUME NEW base, NEW n \in Nat, NEW q, DOMAIN q = 1 .. n
  PROVE  CfmRun(base, n, q)
<1> DEFINE T == 1 .. n
           c == [s \in SUBSET T |-> CHOOSE x \in s : \A y \in s : x >= y]
           Eq(it) == it = [s \in SUBSET T |-> IF s = {} THEN base ELSE
                       TxDataCfm(it[s \ {CHOOSE x \in s : \A y \in s : x >= y}], q[CHOOSE x \in s : \A y \in s : x >= y])]
           it == CHOOSE it : Eq(it)
<1>1. CfmAll(base, q) = it[T]
  BY DEF FoldLeft, MapThenFoldSet, Max, CfmAll
<1>2. IsFiniteSet(T) /\ \A s \in SUBSET T : s # {} => c[s] \in s /\ \A y \in s : c[s] >= y
  <2>1. IsFiniteSet(T)
    BY FS_Interval
  <2>2. ASSUME NEW s \in SUBSET T, s # {}  PROVE \E x \in s : \A y \in s : x >= y
    BY <2>2, Greatest
  <2> QED  BY <2>1, <2>2
<1>3. \E h : Eq(h)
  <2> DEFINE Small(m) == {s \in SUBSET T : Cardinality(s) <= m}
             Up(h, s) == IF s = {} THEN base ELSE TxDataCfm(h[s \ {c[s]}], q[c[s]])
             A == {m \in Nat : \E h : /\ h = [s \in Small(m) |-> h[s]]
                                      /\ \A s \in Small(m) : h[s] = Up(h, s)}
             N == Cardinality(T)
  <2>1. \A s \in SUBSET T : IsFiniteSet(s) /\ Cardinality(s) \in 0 .. N
    <3>1. IsFiniteSet(T)
      BY <1>2
    <3> HIDE DEF T, c
    <3> QED  BY <3>1, FS_Subset, FS_CardinalityType
  <2>2. N \in Nat
    BY <1>2, FS_CardinalityType
  <2>3. \A s \in SUBSET T : s # {} => c[s] \in T /\ s \ {c[s]} \in SUBSET T
          /\ Cardinality(s \ {c[s]}) = Cardinality(s) - 1
    <3> HIDE DEF c
    <3> QED  BY <1>2, <2>1, FS_RemoveElement
  <2>4. 0 \in A
    <3>1. Small(0) = {{}}
      BY <2>1, FS_EmptySet
    <3> DEFINE h == [s \in Small(0) |-> base]
    <3>2. h = [s \in Small(0) |-> h[s]] /\ \A s \in Small(0) : h[s] = Up(h, s)
      BY <3>1
    <3> HIDE DEF h, Small, Up
    <3> QED  BY <3>2
  <2>5. ASSUME NEW m \in 1 .. N, m - 1 \in A  PROVE m \in A
    <3>0. m \in Nat /\ m - 1 \in Nat
      BY <2>2
    <3>1. PICK g : /\ g = [s \in Small(m - 1) |-> g[s]]
                   /\ \A s \in Small(m - 1) : g[s] = Up(g, s)
      <4> HIDE DEF Small, Up
      <4> QED  BY <2>5
    <3> DEFINE h == [s \in Small(m) |-> IF Cardinality(s) <= m - 1 THEN g[s] ELSE Up(g, s)]
    <3>2. \A s \in Small(m) : s # {} => s \ {c[s]} \in Small(m - 1)
      <4> HIDE DEF c
      <4> QED  BY <2>1, <2>3, <3>0
    <3>3. \A s \in Small(m - 1) : s \in Small(m) /\ h[s] = g[s]
      <4> HIDE DEF Up
      <4> QED  BY <2>1, <3>0
    <3>4. \A s \in Small(m) : Up(h, s) = Up(g, s)
      <4> TAKE s \in Small(m)
      <4>1. s # {} => h[s \ {c[s]}] = g[s \ {c[s]}]
        <5> HIDE DEF h, Small, c
        <5> QED  BY <3>2, <3>3
      <4> HIDE DEF h, c
      <4> QED  BY <4>1
    <3>5. \A s \in Small(m) : h[s] = Up(g, s)
      <4> TAKE s \in Small(m)
      <4>1. CASE Cardinality(s) <= m - 1
        <5>1. s \in Small(m - 1)
          BY <4>1
        <5> HIDE DEF Up
        <5> QED  BY <3>1, <4>1, <5>1
      <4>2. CASE ~(Cardinality(s) <= m - 1)
        <5> HIDE DEF Up
        <5> QED  BY <4>2
      <4> QED  BY <4>1, <4>2
    <3>6. h = [s \in Small(m) |-> h[s]]
      <4> HIDE DEF Up
      <4> QED  OBVIOUS
    <3>7. \A s \in Small(m) : h[s] = Up(h, s)
      <4> HIDE DEF h, Small, Up
      <4> QED  BY <3>4, <3>5
    <3> HIDE DEF h, Small, Up
    <3> QED  BY <3>0, <3>6, <3>7
  <2>6. N \in A
    <3> HIDE DEF A
    <3>1. \A m \in 1 .. N : m - 1 \in A => m \in A
      BY <2>5
    <3> HIDE DEF N
    <3>2. \A m \in 0 .. N : m \in A
      BY <2>2, <2>4, <3>1, UpTo
    <3> QED  BY <2>2, <3>2
  <2>7. Small(N) = SUBSET T
    <3> HIDE DEF T, N
    <3> QED  BY <2>1
  <2>8. PICK h : /\ h = [s \in SUBSET T |-> h[s]] /\ \A s \in SUBSET T : h[s] = Up(h, s)
    <3> HIDE DEF Small, Up
    <3> QED  BY <2>6, <2>7
  <2>9. h = [s \in SUBSET T |-> Up(h, s)]
    <3> HIDE DEF Up, T
    <3> QED  BY <2>8
  <2>10. Eq(h)
    <3> HIDE DEF T
    <3> QED  BY <2>9
  <2> QED  BY <2>10
<1>4. Eq(it)
  <2> HIDE DEF Eq
  <2> QED  BY <1>3
<1> DEFINE g == [i \in 0 .. n |-> it[1 .. i]]
<1>5. \A i \in 1 .. n : c[1 .. i] = i /\ (1 .. i) \ {i} = 1 .. i - 1 /\ 1 .. i \in SUBSET T /\ 1 .. i # {}
  <2> TAKE i \in 1 .. n
  <2>1. 1 .. i \in SUBSET T /\ 1 .. i # {} /\ i \in 1 .. i /\ (1 .. i) \ {i} = 1 .. i - 1
    BY UpToOne
  <2>2. c[1 .. i] \in 1 .. i /\ c[1 .. i] >= i
    <3> HIDE DEF c, T
    <3> QED  BY <1>2, <2>1
  <2> QED  BY <2>1, <2>2
<1>6. g[0] = base
  <2>1. g[0] = it[{}]
    <3>1. 1 .. 0 = {} /\ 0 \in 0 .. n
      OBVIOUS
    <3> HIDE DEF it
    <3> QED  BY <3>1
  <2> HIDE DEF g, it
  <2> QED  BY <1>4, <2>1
<1>7. \A i \in 1 .. n : g[i] = TxDataCfm(g[i - 1], q[i])
  <2> TAKE i \in 1 .. n
  <2>1. g[i] = it[1 .. i] /\ g[i - 1] = it[1 .. i - 1]
    <3> HIDE DEF it
    <3> QED  OBVIOUS
  <2>2. (CHOOSE x \in 1 .. i : \A y \in 1 .. i : x >= y) = i
    BY <1>5
  <2>3. /\ (1 .. i) \ {i} = 1 .. i - 1 /\ 1 .. i \in SUBSET T /\ 1 .. i # {}
    BY <1>5
  <2> HIDE DEF g, it, c, T
  <2>4. it[1 .. i] = TxDataCfm(it[1 .. i - 1], q[i])
    BY <1>4, <2>2, <2>3
  <2> QED  BY <2>1, <2>4
<1>8. it[T] = g[n]
  <2> HIDE DEF it
  <2> QED  OBVIOUS
<1> HIDE DEF g, it
<1> QED  BY <1>1, <1>6, <1>7, <1>8 DEF CfmRun

\* Queues stopped one after the other.
LEMMA StopFold ==
  ASSUME NEW reason, NEW base, NEW T, IsFiniteSet(T),
         NEW P, base \in P[{}],
         \A s \in SUBSET T : \A x \in s : \A y \in P[s \ {x}] : Stop(y, x, reason) \in P[s]
  PROVE  StopAll(reason, base, T) \in P[T]
<1> DEFINE c == [s \in SUBSET T |-> CHOOSE x \in s : TRUE]
           Eq(it) == it = [s \in SUBSET T |-> IF s = {} THEN base ELSE
                       Stop(it[s \ {CHOOSE x \in s : TRUE}], CHOOSE x \in s : TRUE, reason)]
           it == CHOOSE it : Eq(it)
<1>1. StopAll(reason, base, T) = it[T]
  BY DEF FoldSet, MapThenFoldSet, StopAll
<1>2. IsFiniteSet(T) /\ \A s \in SUBSET T : s # {} => c[s] \in s
  OBVIOUS
<1>3. \E h : Eq(h)
  <2> DEFINE Small(m) == {s \in SUBSET T : Cardinality(s) <= m}
             Up(h, s) == IF s = {} THEN base ELSE Stop(h[s \ {c[s]}], c[s], reason)
             A == {m \in Nat : \E h : /\ h = [s \in Small(m) |-> h[s]]
                                      /\ \A s \in Small(m) : h[s] = Up(h, s)}
             N == Cardinality(T)
  <2>1. \A s \in SUBSET T : IsFiniteSet(s) /\ Cardinality(s) \in 0 .. N
    BY <1>2, FS_Subset, FS_CardinalityType
  <2>2. N \in Nat
    BY <1>2, FS_CardinalityType
  <2>3. \A s \in SUBSET T : s # {} => c[s] \in T /\ s \ {c[s]} \in SUBSET T
          /\ Cardinality(s \ {c[s]}) = Cardinality(s) - 1
    <3> HIDE DEF c
    <3> QED  BY <1>2, <2>1, FS_RemoveElement
  <2>4. 0 \in A
    <3>1. Small(0) = {{}}
      BY <2>1, FS_EmptySet
    <3> DEFINE h == [s \in Small(0) |-> base]
    <3>2. h = [s \in Small(0) |-> h[s]] /\ \A s \in Small(0) : h[s] = Up(h, s)
      BY <3>1
    <3> HIDE DEF h, Small, Up
    <3> QED  BY <3>2
  <2>5. ASSUME NEW m \in 1 .. N, m - 1 \in A  PROVE m \in A
    <3>0. m \in Nat /\ m - 1 \in Nat
      BY <2>2
    <3>1. PICK g : /\ g = [s \in Small(m - 1) |-> g[s]]
                   /\ \A s \in Small(m - 1) : g[s] = Up(g, s)
      <4> HIDE DEF Small, Up
      <4> QED  BY <2>5
    <3> DEFINE h == [s \in Small(m) |-> IF Cardinality(s) <= m - 1 THEN g[s] ELSE Up(g, s)]
    <3>2. \A s \in Small(m) : s # {} => s \ {c[s]} \in Small(m - 1)
      <4> HIDE DEF c
      <4> QED  BY <2>1, <2>3, <3>0
    <3>3. \A s \in Small(m - 1) : s \in Small(m) /\ h[s] = g[s]
      <4> HIDE DEF Up
      <4> QED  BY <2>1, <3>0
    <3>4. \A s \in Small(m) : Up(h, s) = Up(g, s)
      <4> TAKE s \in Small(m)
      <4>1. s # {} => h[s \ {c[s]}] = g[s \ {c[s]}]
        <5> HIDE DEF h, Small, c
        <5> QED  BY <3>2, <3>3
      <4> HIDE DEF h, c
      <4> QED  BY <4>1
    <3>5. \A s \in Small(m) : h[s] = Up(g, s)
      <4> TAKE s \in Small(m)
      <4>1. CASE Cardinality(s) <= m - 1
        <5>1. s \in Small(m - 1)
          BY <4>1
        <5> HIDE DEF Up
        <5> QED  BY <3>1, <4>1, <5>1
      <4>2. CASE ~(Cardinality(s) <= m - 1)
        <5> HIDE DEF Up
        <5> QED  BY <4>2
      <4> QED  BY <4>1, <4>2
    <3>6. h = [s \in Small(m) |-> h[s]]
      <4> HIDE DEF Up
      <4> QED  OBVIOUS
    <3>7. \A s \in Small(m) : h[s] = Up(h, s)
      <4> HIDE DEF h, Small, Up
      <4> QED  BY <3>4, <3>5
    <3> HIDE DEF h, Small, Up
    <3> QED  BY <3>0, <3>6, <3>7
  <2>6. N \in A
    <3> HIDE DEF A
    <3>1. \A m \in 1 .. N : m - 1 \in A => m \in A
      BY <2>5
    <3> HIDE DEF N
    <3>2. \A m \in 0 .. N : m \in A
      BY <2>2, <2>4, <3>1, UpTo
    <3> QED  BY <2>2, <3>2
  <2>7. Small(N) = SUBSET T
    <3> HIDE DEF N
    <3> QED  BY <2>1
  <2>8. PICK h : /\ h = [s \in SUBSET T |-> h[s]] /\ \A s \in SUBSET T : h[s] = Up(h, s)
    <3> HIDE DEF Small, Up
    <3> QED  BY <2>6, <2>7
  <2>9. h = [s \in SUBSET T |-> Up(h, s)]
    <3> HIDE DEF Up
    <3> QED  BY <2>8
  <2>10. Eq(h)
    BY <2>9
  <2> QED  BY <2>10, ZenonT(30)
<1>4. Eq(it)
  <2> HIDE DEF Eq
  <2> QED  BY <1>3
<1> DEFINE A == {s \in SUBSET T : it[s] \in P[s]}
<1>5. {} \in A
  <2> HIDE DEF it
  <2> QED  BY <1>4
<1>6. \A s \in SUBSET T : s # {} /\ s \ {c[s]} \in A => s \in A
  <2> HIDE DEF it
  <2> TAKE s \in SUBSET T
  <2> HAVE s # {} /\ s \ {c[s]} \in A
  <2>1. it[s] = Stop(it[s \ {c[s]}], c[s], reason)
    BY <1>4
  <2>2. c[s] \in s /\ it[s \ {c[s]}] \in P[s \ {c[s]}]
    BY <1>2
  <2> HIDE DEF c
  <2> QED  BY <2>1, <2>2
<1>7. \A s \in SUBSET T : s \in A
  <2> HIDE DEF A, c
  <2>1. IsFiniteSet(T)
    OBVIOUS
  <2> QED  BY ONLY <1>2, <1>5, <1>6, <2>1, SubsetsInduct, SMTT(30)
<1> HIDE DEF it
<1> QED  BY <1>1, <1>7

\* Queues started one after the other.
LEMMA StartFold ==
  ASSUME NEW reason, NEW base, NEW T, IsFiniteSet(T),
         NEW P, base \in P[{}],
         \A s \in SUBSET T : \A x \in s : \A y \in P[s \ {x}] : Start(y, x, reason) \in P[s]
  PROVE  StartAll(reason, base, T) \in P[T]
<1> DEFINE c == [s \in SUBSET T |-> CHOOSE x \in s : TRUE]
           Eq(it) == it = [s \in SUBSET T |-> IF s = {} THEN base ELSE
                       Start(it[s \ {CHOOSE x \in s : TRUE}], CHOOSE x \in s : TRUE, reason)]
           it == CHOOSE it : Eq(it)
<1>1. StartAll(reason, base, T) = it[T]
  BY DEF FoldSet, MapThenFoldSet, StartAll
<1>2. IsFiniteSet(T) /\ \A s \in SUBSET T : s # {} => c[s] \in s
  OBVIOUS
<1>3. \E h : Eq(h)
  <2> DEFINE Small(m) == {s \in SUBSET T : Cardinality(s) <= m}
             Up(h, s) == IF s = {} THEN base ELSE Start(h[s \ {c[s]}], c[s], reason)
             A == {m \in Nat : \E h : /\ h = [s \in Small(m) |-> h[s]]
                                      /\ \A s \in Small(m) : h[s] = Up(h, s)}
             N == Cardinality(T)
  <2>1. \A s \in SUBSET T : IsFiniteSet(s) /\ Cardinality(s) \in 0 .. N
    BY <1>2, FS_Subset, FS_CardinalityType
  <2>2. N \in Nat
    BY <1>2, FS_CardinalityType
  <2>3. \A s \in SUBSET T : s # {} => c[s] \in T /\ s \ {c[s]} \in SUBSET T
          /\ Cardinality(s \ {c[s]}) = Cardinality(s) - 1
    <3> HIDE DEF c
    <3> QED  BY <1>2, <2>1, FS_RemoveElement
  <2>4. 0 \in A
    <3>1. Small(0) = {{}}
      BY <2>1, FS_EmptySet
    <3> DEFINE h == [s \in Small(0) |-> base]
    <3>2. h = [s \in Small(0) |-> h[s]] /\ \A s \in Small(0) : h[s] = Up(h, s)
      BY <3>1
    <3> HIDE DEF h, Small, Up
    <3> QED  BY <3>2
  <2>5. ASSUME NEW m \in 1 .. N, m - 1 \in A  PROVE m \in A
    <3>0. m \in Nat /\ m - 1 \in Nat
      BY <2>2
    <3>1. PICK g : /\ g = [s \in Small(m - 1) |-> g[s]]
                   /\ \A s \in Small(m - 1) : g[s] = Up(g, s)
      <4> HIDE DEF Small, Up
      <4> QED  BY <2>5
    <3> DEFINE h == [s \in Small(m) |-> IF Cardinality(s) <= m - 1 THEN g[s] ELSE Up(g, s)]
    <3>2. \A s \in Small(m) : s # {} => s \ {c[s]} \in Small(m - 1)
      <4> HIDE DEF c
      <4> QED  BY <2>1, <2>3, <3>0
    <3>3. \A s \in Small(m - 1) : s \in Small(m) /\ h[s] = g[s]
      <4> HIDE DEF Up
      <4> QED  BY <2>1, <3>0
    <3>4. \A s \in Small(m) : Up(h, s) = Up(g, s)
      <4> TAKE s \in Small(m)
      <4>1. s # {} => h[s \ {c[s]}] = g[s \ {c[s]}]
        <5> HIDE DEF h, Small, c
        <5> QED  BY <3>2, <3>3
      <4> HIDE DEF h, c
      <4> QED  BY <4>1
    <3>5. \A s \in Small(m) : h[s] = Up(g, s)
      <4> TAKE s \in Small(m)
      <4>1. CASE Cardinality(s) <= m - 1
        <5>1. s \in Small(m - 1)
          BY <4>1
        <5> HIDE DEF Up
        <5> QED  BY <3>1, <4>1, <5>1
      <4>2. CASE ~(Cardinality(s) <= m - 1)
        <5> HIDE DEF Up
        <5> QED  BY <4>2
      <4> QED  BY <4>1, <4>2
    <3>6. h = [s \in Small(m) |-> h[s]]
      <4> HIDE DEF Up
      <4> QED  OBVIOUS
    <3>7. \A s \in Small(m) : h[s] = Up(h, s)
      <4> HIDE DEF h, Small, Up
      <4> QED  BY <3>4, <3>5
    <3> HIDE DEF h, Small, Up
    <3> QED  BY <3>0, <3>6, <3>7
  <2>6. N \in A
    <3> HIDE DEF A
    <3>1. \A m \in 1 .. N : m - 1 \in A => m \in A
      BY <2>5
    <3> HIDE DEF N
    <3>2. \A m \in 0 .. N : m \in A
      BY <2>2, <2>4, <3>1, UpTo
    <3> QED  BY <2>2, <3>2
  <2>7. Small(N) = SUBSET T
    <3> HIDE DEF N
    <3> QED  BY <2>1
  <2>8. PICK h : /\ h = [s \in SUBSET T |-> h[s]] /\ \A s \in SUBSET T : h[s] = Up(h, s)
    <3> HIDE DEF Small, Up
    <3> QED  BY <2>6, <2>7
  <2>9. h = [s \in SUBSET T |-> Up(h, s)]
    <3> HIDE DEF Up
    <3> QED  BY <2>8
  <2>10. Eq(h)
    BY <2>9
  <2> QED  BY <2>10
<1>4. Eq(it)
  <2> HIDE DEF Eq
  <2> QED  BY <1>3
<1> DEFINE A == {s \in SUBSET T : it[s] \in P[s]}
<1>5. {} \in A
  <2> HIDE DEF it
  <2> QED  BY <1>4
<1>6. \A s \in SUBSET T : s # {} /\ s \ {c[s]} \in A => s \in A
  <2> HIDE DEF it
  <2> TAKE s \in SUBSET T
  <2> HAVE s # {} /\ s \ {c[s]} \in A
  <2>1. it[s] = Start(it[s \ {c[s]}], c[s], reason)
    BY <1>4
  <2>2. c[s] \in s /\ it[s \ {c[s]}] \in P[s \ {c[s]}]
    BY <1>2
  <2> HIDE DEF c
  <2> QED  BY <2>1, <2>2
<1>7. \A s \in SUBSET T : s \in A
  <2> HIDE DEF A, c
  <2>1. IsFiniteSet(T)
    OBVIOUS
  <2> QED  BY ONLY <1>2, <1>5, <1>6, <2>1, SubsetsInduct, SMTT(30)
<1> HIDE DEF it
<1> QED  BY <1>1, <1>7

\* Queues flushed one after the other.
LEMMA FlushFold ==
  ASSUME NEW base, NEW T, IsFiniteSet(T),
         NEW P, base \in P[{}],
         \A s \in SUBSET T : \A x \in s : \A y \in P[s \ {x}] : Flush(y, x) \in P[s]
  PROVE  FoldSet(LAMBDA t, r : Flush(r, t), base, T) \in P[T]
<1> DEFINE c == [s \in SUBSET T |-> CHOOSE x \in s : TRUE]
           Eq(it) == it = [s \in SUBSET T |-> IF s = {} THEN base ELSE
                       Flush(it[s \ {CHOOSE x \in s : TRUE}], CHOOSE x \in s : TRUE)]
           it == CHOOSE it : Eq(it)
<1>1. FoldSet(LAMBDA t, r : Flush(r, t), base, T) = it[T]
  BY DEF FoldSet, MapThenFoldSet
<1>2. IsFiniteSet(T) /\ \A s \in SUBSET T : s # {} => c[s] \in s
  OBVIOUS
<1>3. \E h : Eq(h)
  <2> DEFINE Small(m) == {s \in SUBSET T : Cardinality(s) <= m}
             Up(h, s) == IF s = {} THEN base ELSE Flush(h[s \ {c[s]}], c[s])
             A == {m \in Nat : \E h : /\ h = [s \in Small(m) |-> h[s]]
                                      /\ \A s \in Small(m) : h[s] = Up(h, s)}
             N == Cardinality(T)
  <2>1. \A s \in SUBSET T : IsFiniteSet(s) /\ Cardinality(s) \in 0 .. N
    BY <1>2, FS_Subset, FS_CardinalityType
  <2>2. N \in Nat
    BY <1>2, FS_CardinalityType
  <2>3. \A s \in SUBSET T : s # {} => c[s] \in T /\ s \ {c[s]} \in SUBSET T
          /\ Cardinality(s \ {c[s]}) = Cardinality(s) - 1
    <3> HIDE DEF c
    <3> QED  BY <1>2, <2>1, FS_RemoveElement
  <2>4. 0 \in A
    <3>1. Small(0) = {{}}
      BY <2>1, FS_EmptySet
    <3> DEFINE h == [s \in Small(0) |-> base]
    <3>2. h = [s \in Small(0) |-> h[s]] /\ \A s \in Small(0) : h[s] = Up(h, s)
      BY <3>1
    <3> HIDE DEF h, Small, Up
    <3> QED  BY <3>2
  <2>5. ASSUME NEW m \in 1 .. N, m - 1 \in A  PROVE m \in A
    <3>0. m \in Nat /\ m - 1 \in Nat
      BY <2>2
    <3>1. PICK g : /\ g = [s \in Small(m - 1) |-> g[s]]
                   /\ \A s \in Small(m - 1) : g[s] = Up(g, s)
      <4> HIDE DEF Small, Up
      <4> QED  BY <2>5
    <3> DEFINE h == [s \in Small(m) |-> IF Cardinality(s) <= m - 1 THEN g[s] ELSE Up(g, s)]
    <3>2. \A s \in Small(m) : s # {} => s \ {c[s]} \in Small(m - 1)
      <4> HIDE DEF c
      <4> QED  BY <2>1, <2>3, <3>0
    <3>3. \A s \in Small(m - 1) : s \in Small(m) /\ h[s] = g[s]
      <4> HIDE DEF Up
      <4> QED  BY <2>1, <3>0
    <3>4. \A s \in Small(m) : Up(h, s) = Up(g, s)
      <4> TAKE s \in Small(m)
      <4>1. s # {} => h[s \ {c[s]}] = g[s \ {c[s]}]
        <5> HIDE DEF h, Small, c
        <5> QED  BY <3>2, <3>3
      <4> HIDE DEF h, c
      <4> QED  BY <4>1
    <3>5. \A s \in Small(m) : h[s] = Up(g, s)
      <4> TAKE s \in Small(m)
      <4>1. CASE Cardinality(s) <= m - 1
        <5>1. s \in Small(m - 1)
          BY <4>1
        <5> HIDE DEF Up
        <5> QED  BY <3>1, <4>1, <5>1
      <4>2. CASE ~(Cardinality(s) <= m - 1)
        <5> HIDE DEF Up
        <5> QED  BY <4>2
      <4> QED  BY <4>1, <4>2
    <3>6. h = [s \in Small(m) |-> h[s]]
      <4> HIDE DEF Up
      <4> QED  OBVIOUS
    <3>7. \A s \in Small(m) : h[s] = Up(h, s)
      <4> HIDE DEF h, Small, Up
      <4> QED  BY <3>4, <3>5
    <3> HIDE DEF h, Small, Up
    <3> QED  BY <3>0, <3>6, <3>7
  <2>6. N \in A
    <3> HIDE DEF A
    <3>1. \A m \in 1 .. N : m - 1 \in A => m \in A
      BY <2>5
    <3> HIDE DEF N
    <3>2. \A m \in 0 .. N : m \in A
      BY <2>2, <2>4, <3>1, UpTo
    <3> QED  BY <2>2, <3>2
  <2>7. Small(N) = SUBSET T
    <3> HIDE DEF N
    <3> QED  BY <2>1
  <2>8. PICK h : /\ h = [s \in SUBSET T |-> h[s]] /\ \A s \in SUBSET T : h[s] = Up(h, s)
    <3> HIDE DEF Small, Up
    <3> QED  BY <2>6, <2>7
  <2>9. h = [s \in SUBSET T |-> Up(h, s)]
    <3> HIDE DEF Up
    <3> QED  BY <2>8
  <2>10. Eq(h)
    BY <2>9
  <2> QED  BY <2>10
<1>4. Eq(it)
  <2> HIDE DEF Eq
  <2> QED  BY <1>3
<1> DEFINE A == {s \in SUBSET T : it[s] \in P[s]}
<1>5. {} \in A
  <2> HIDE DEF it
  <2> QED  BY <1>4
<1>6. \A s \in SUBSET T : s # {} /\ s \ {c[s]} \in A => s \in A
  <2> HIDE DEF it
  <2> TAKE s \in SUBSET T
  <2> HAVE s # {} /\ s \ {c[s]} \in A
  <2>1. it[s] = Flush(it[s \ {c[s]}], c[s])
    BY <1>4
  <2>2. c[s] \in s /\ it[s \ {c[s]}] \in P[s \ {c[s]}]
    BY <1>2
  <2> HIDE DEF c
  <2> QED  BY <2>1, <2>2
<1>7. \A s \in SUBSET T : s \in A
  <2> HIDE DEF A, c
  <2>1. IsFiniteSet(T)
    OBVIOUS
  <2> QED  BY ONLY <1>2, <1>5, <1>6, <2>1, SubsetsInduct
<1> HIDE DEF it
<1> QED  BY <1>1, <1>7

----------------------------------------------------------------------------
(* The invariant.                                                          *)

\* A station's frames are flushed from under its service period by OFF_FORCE,
\* which ends it, and by the 40 seconds of the stuck list, which do not.
NoFlush == "OFF_FORCE" \notin PsStates /\ (Stuck => "ON" \notin PsStates)

QueueOK(q) ==
  /\ q.pkt_ready >= 0
  /\ ~q.active => q.sk_list = <<>> /\ ~q.ps_active
  /\ q.active => ("FULL" \in q.stop <=> q.credits <= 0)
  /\ Once(q.sk_list)
  /\ q.nb_retry <= Len(q.sk_list)
  /\ q.last_retry_skb = IF q.nb_retry = 0 THEN None ELSE q.sk_list[q.nb_retry]
  /\ q.ps_active => /\ q.pkt_ready = Len(q.sk_list) /\ q.sp_cnt = q.push_limit
                    /\ "STA_PS" \in q.stop /\ "ON" \in PsStates
  /\ q.active /\ q.push_limit > 0 => q.ps_active
  /\ FlowRestart # 0 /\ q.flow => q.sk_list # <<>>
  /\ NoFlush /\ q.active => q.push_limit <= Len(q.sk_list)

PlaceOK(s, t) ==
  LET q == s.txq[t] IN
  /\ t \in Listed(s) =>
       /\ q.active /\ "FULL" \notin q.stop /\ t \notin s.stuck
       /\ q.stop = {} \/ "ON" \in PsStates
       /\ NoFlush => q.sk_list # <<>>
       /\ q.ps_active /\ q.ps_id = "UAPSD_ID" => q.push_limit > 0
  /\ t \in s.stuck => q.active
  /\ q.active /\ q.sk_list # <<>> /\ t \notin Listed(s) => t \in s.stuck /\ q.stop # {}

\* loose: the frames an operation has in its hands.
Frames(s, loose) ==
  /\ Once(s.ring)
  /\ \A t \in Txq : \A f \in ToSet(s.txq[t].sk_list) :
       /\ s.skb[f].txq = t /\ s.skb[f].init_time = s.txq[t].init_time
       /\ f \notin ToSet(s.ring) /\ f \notin loose
  /\ \A f \in ToSet(s.ring) :
       s.skb[f].txq \in Txq /\ s.skb[f].token \in Token /\ f \notin loose
  /\ \A f \in Skb : s.skb[f].txq \in Txq =>
       /\ s.skb[f].init_time <= s.txq[s.skb[f].txq].init_time
       /\ f \in loose \cup ToSet(s.ring) \cup ToSet(s.txq[s.skb[f].txq].sk_list)
  /\ loose \subseteq Skb /\ \A f \in loose : s.skb[f].txq \in Txq

Flight(s, t, k) ==
  {f \in ToSet(s.ring) : /\ s.skb[f].txq = t
                         /\ s.skb[f].init_time = s.txq[t].init_time
                         /\ s.skb[f].token = k}

Busy(s) == {k \in Token : s.hwq.token_status[k]}

TokensOK(s) ==
  /\ \A t \in Txq, k \in Token :
       /\ s.txq[t].token_pkt_num[k] >= 0
       /\ s.txq[t].active => s.txq[t].token_pkt_num[k] = Cardinality(Flight(s, t, k))
       /\ s.txq[t].active /\ s.txq[t].token_pkt_num[k] > 0 => s.hwq.token_status[k]
  /\ \A t, u \in Txq, k \in Token :
       /\ s.txq[t].active /\ s.txq[t].token_pkt_num[k] > 0
       /\ s.txq[u].active /\ s.txq[u].token_pkt_num[k] > 0
       => t = u
  /\ s.hwq.outstanding_tokens = Cardinality(Busy(s))

SumOK(s) == s.hwq.credits + Len(s.ring) + s.hwq.dec = Size

Good(s, loose) ==
  /\ s \in State
  /\ \A t \in Txq : QueueOK(s.txq[t]) /\ PlaceOK(s, t)
  /\ Frames(s, loose) /\ TokensOK(s) /\ SumOK(s)

----------------------------------------------------------------------------
(* What a step that leaves the frames alone keeps.                          *)

LEMMA StateIs ==
  ASSUME NEW s \in State
  PROVE  /\ s.hwq.list \in Seq(Txq) /\ Once(s.hwq.list) /\ Listed(s) \subseteq Txq
         /\ s.hwq \in HwQueue /\ s.ring \in Seq(Skb) /\ s.stuck \subseteq Txq
         /\ ToSet(s.ring) \subseteq Skb /\ Len(s.ring) \in Nat
         /\ \A t \in Txq : s.txq[t] \in Queue /\ ToSet(s.txq[t].sk_list) \subseteq Skb
                           /\ s.txq[t].sk_list \in Seq(Skb) /\ Len(s.txq[t].sk_list) \in Nat
         /\ \A f \in Skb : s.skb[f] \in Hdr
<1>1. /\ s \in Raw /\ s.hwq.list \in Seq(Txq) /\ Once(s.hwq.list) /\ s.hwq \in HwQueue
      /\ s.ring \in Seq(Skb) /\ s.stuck \subseteq Txq
      /\ \A t \in Txq : s.txq[t] \in Queue
      /\ \A f \in Skb : s.skb[f] \in Hdr
  BY DEF State, Raw, HwQueue
<1>2. \A t \in Txq : s.txq[t].sk_list \in Seq(Skb)
  BY <1>1 DEF Queue
<1>3. ToSet(s.ring) \subseteq Skb /\ Listed(s) \subseteq Txq
  BY <1>1, SetIs DEF Listed
<1>4. \A t \in Txq : ToSet(s.txq[t].sk_list) \subseteq Skb
  BY <1>2, SetIs
<1>5. Len(s.ring) \in Nat /\ \A t \in Txq : Len(s.txq[t].sk_list) \in Nat
  BY <1>1, <1>2
<1> QED  BY <1>1, <1>2, <1>3, <1>4, <1>5

LEMMA TokensSame ==
  ASSUME NEW s \in State, NEW r \in State, TokensOK(s),
         ToSet(r.ring) = ToSet(s.ring),
         \A f \in ToSet(s.ring) : /\ r.skb[f].txq = s.skb[f].txq
                                  /\ r.skb[f].init_time = s.skb[f].init_time
                                  /\ r.skb[f].token = s.skb[f].token,
         \A t \in Txq : /\ r.txq[t].active = s.txq[t].active
                        /\ r.txq[t].init_time = s.txq[t].init_time
                        /\ r.txq[t].token_pkt_num = s.txq[t].token_pkt_num,
         r.hwq.token_status = s.hwq.token_status,
         r.hwq.outstanding_tokens = s.hwq.outstanding_tokens
  PROVE  TokensOK(r)
<1>1. \A t \in Txq, k \in Token : Flight(r, t, k) = Flight(s, t, k)
  BY DEF Flight
<1>2. Busy(r) = Busy(s)
  BY DEF Busy
<1> QED  BY <1>1, <1>2 DEF TokensOK

LEMMA FramesSame ==
  ASSUME NEW s \in State, NEW r \in State, NEW loose, Frames(s, loose),
         SameFrames(r, s),
         \A t \in Txq : /\ r.txq[t].sk_list = s.txq[t].sk_list
                        /\ r.txq[t].init_time = s.txq[t].init_time
  PROVE  Frames(r, loose)
BY DEF Frames, SameFrames

\* A step on the state of one queue and on its places.
LEMMA StatusOnly ==
  ASSUME NEW s \in State, NEW r \in State, NEW loose, Good(s, loose), NEW t \in Txq,
         SameFrames(r, s), SameHw(r, s),
         \A u \in Txq \ {t} : r.txq[u] = s.txq[u],
         r.txq[t].sk_list = s.txq[t].sk_list,
         r.txq[t].init_time = s.txq[t].init_time,
         r.txq[t].active = s.txq[t].active,
         r.txq[t].token_pkt_num = s.txq[t].token_pkt_num,
         Listed(r) \ {t} = Listed(s) \ {t}, r.stuck \ {t} = s.stuck \ {t},
         QueueOK(r.txq[t]), PlaceOK(r, t)
  PROVE  Good(r, loose)
<1>1. Frames(r, loose)
  BY FramesSame DEF Good
<1>2. TokensOK(r)
  BY TokensSame DEF Good, SameFrames, SameHw
<1>3. SumOK(r)
  BY DEF Good, SumOK, SameFrames, SameHw
<1>4. \A u \in Txq \ {t} : QueueOK(r.txq[u]) /\ PlaceOK(r, u)
  <2> TAKE u \in Txq \ {t}
  <2>1. (u \in Listed(r) <=> u \in Listed(s)) /\ (u \in r.stuck <=> u \in s.stuck)
    OBVIOUS
  <2> QED  BY <2>1 DEF Good, PlaceOK
<1> QED  BY <1>1, <1>2, <1>3, <1>4 DEF Good

----------------------------------------------------------------------------
(* Credits given to a queue, and the tokens a confirmation returns.        *)

\* A step that keeps the frames where they are, and wakes the hwq for every
\* queue it schedules.
Gentle(r, s) ==
  /\ SameFrames(r, s) /\ SameHw(r, s)
  /\ \A t \in Txq : /\ r.txq[t].active = s.txq[t].active
                    /\ r.txq[t].init_time = s.txq[t].init_time
                    /\ r.txq[t].token_pkt_num = s.txq[t].token_pkt_num
                    /\ r.txq[t].sk_list = s.txq[t].sk_list
  /\ s.hwq.need_processing => r.hwq.need_processing
  /\ Listed(r) \subseteq Listed(s) \/ r.hwq.need_processing

\* The vif's stop reasons stay.
Stays(r, s) ==
  \A u \in Txq : s.txq[u].stop \ {"FULL", "STA_PS"} \subseteq r.txq[u].stop

LEMMA StaysTwice ==
  ASSUME NEW r, NEW s, NEW p, Stays(r, s), Stays(s, p)
  PROVE  Stays(r, p)
BY DEF Stays

LEMMA GentleTwice ==
  ASSUME NEW r, NEW s, NEW p, Gentle(r, s), Gentle(s, p)
  PROVE  Gentle(r, p)
BY DEF Gentle, SameFrames, SameHw

LEMMA Names == "FULL" \in Stops /\ "STA_PS" \in Stops /\ Reasons \subseteq Stops
               /\ "FULL" \notin Reasons /\ "STA_PS" \notin Reasons
<1>1. Reasons \subseteq {"CHAN", "RECALI", "VIF_PS", "CSA"}
  BY SchedAssumption DEF SchedAssumption
<1> QED  BY <1>1 DEF Stops

\* siwifi_txq_add_to_hw_list for a queue that may send.
LEMMA AddGood ==
  ASSUME NEW s \in State, NEW loose, Good(s, loose), NEW t \in Txq,
         NEW r, r = AddToHwList(s, t),
         s.txq[t].active, "FULL" \notin s.txq[t].stop,
         s.txq[t].stop = {} \/ "ON" \in PsStates,
         NoFlush => s.txq[t].sk_list # <<>>,
         s.txq[t].ps_active /\ s.txq[t].ps_id = "UAPSD_ID" => s.txq[t].push_limit > 0
  PROVE  /\ r \in State /\ Good(r, loose) /\ Gentle(r, s) /\ r.txq = s.txq
<1>1. /\ r \in State /\ r.txq = s.txq /\ SameFrames(r, s) /\ SameHw(r, s)
      /\ Listed(r) = Listed(s) \cup {t}
      /\ r.stuck = IF t \in Listed(s) THEN s.stuck ELSE s.stuck \ {t}
      /\ r.hwq.need_processing = (s.hwq.need_processing \/ t \notin Listed(s))
  BY ONLY s \in State, t \in Txq, r = AddToHwList(s, t), AddEffect
<1>2. QueueOK(r.txq[t])
  BY <1>1 DEF Good
<1>3. t \notin r.stuck
  <2>1. PlaceOK(s, t)
    BY DEF Good
  <2> QED  BY <1>1, <2>1 DEF PlaceOK
<1>4. PlaceOK(r, t)
  BY <1>1, <1>3 DEF PlaceOK
<1>5. Good(r, loose)
  BY <1>1, <1>2, <1>4, StatusOnly
<1>6. Gentle(r, s)
  <2>1. s.hwq.need_processing \in BOOLEAN
    BY StateIs DEF HwQueue
  <2> QED  BY <1>1, <2>1 DEF Gentle
<1> QED  BY <1>1, <1>5, <1>6

\* The vif stops and starts its queues.
Adds(r, s, t, reason) ==
  r.txq[t].stop = IF s.txq[t].active THEN s.txq[t].stop \cup {reason} ELSE s.txq[t].stop
Takes(r, s, t, reason) ==
  r.txq[t].stop = IF s.txq[t].active THEN s.txq[t].stop \ {reason} ELSE s.txq[t].stop

LEMMA StopGood ==
  ASSUME NEW s \in State, NEW loose, Good(s, loose), NEW t \in Txq, NEW reason \in Reasons,
         NEW r, r = Stop(s, t, reason)
  PROVE  /\ r \in State /\ Good(r, loose) /\ Gentle(r, s)
         /\ \A u \in Txq \ {t} : r.txq[u] = s.txq[u]
         /\ Adds(r, s, t, reason)
         /\ Listed(r) \subseteq Listed(s)
<1>1. CASE ~s.txq[t].active
  <2>1. r = s
    BY <1>1 DEF Stop
  <2> QED  BY <1>1, <2>1 DEF Gentle, SameFrames, SameHw, Adds
<1>2. CASE s.txq[t].active
  <2> DEFINE q == r.txq[t]
  <2>0. reason \in Stops
    BY Names
  <2>7. Stopped(r, s, t, reason)
    BY <1>2, <2>0, StopEffect
  <2>1. /\ r \in State /\ q = [s.txq[t] EXCEPT !.stop = @ \cup {reason}] /\ q \in Queue
        /\ \A u \in Txq \ {t} : r.txq[u] = s.txq[u]
        /\ SameFrames(r, s) /\ SameHw(r, s)
        /\ Listed(r) = Listed(s) \ {t}
        /\ r.stuck = IF t \in Listed(s) /\ s.txq[t].sk_list # <<>>
                     THEN s.stuck \cup {t} ELSE s.stuck
        /\ r.hwq.need_processing = s.hwq.need_processing
    BY <2>7, StateIs DEF Stopped
  <2>2. s.txq[t] \in Queue /\ QueueOK(s.txq[t]) /\ PlaceOK(s, t)
    BY StateIs DEF Good
  <2>3. /\ q.active = s.txq[t].active /\ q.init_time = s.txq[t].init_time
        /\ q.token_pkt_num = s.txq[t].token_pkt_num /\ q.sk_list = s.txq[t].sk_list
        /\ q.stop = s.txq[t].stop \cup {reason} /\ q.credits = s.txq[t].credits
        /\ q.ps_active = s.txq[t].ps_active
        /\ q.nb_retry = s.txq[t].nb_retry /\ q.last_retry_skb = s.txq[t].last_retry_skb
        /\ q.push_limit = s.txq[t].push_limit /\ q.pkt_ready = s.txq[t].pkt_ready
        /\ q.sp_cnt = s.txq[t].sp_cnt /\ q.flow = s.txq[t].flow
    BY <2>1, <2>2 DEF Queue
  <2> HIDE DEF q
  <2>4. QueueOK(q)
    <3>1. q.active => ("FULL" \in q.stop <=> q.credits <= 0)
      BY <2>2, <2>3, Names DEF QueueOK
    <3>2. q.ps_active => "STA_PS" \in q.stop
      BY <2>2, <2>3 DEF QueueOK
    <3>3. s.txq[t] \in Queue /\ q \in Queue /\ QueueOK(s.txq[t])
      BY <2>1, <2>2
    <3> QED  BY <2>3, <3>1, <3>2, <3>3 DEF QueueOK
  <2>5. PlaceOK(r, t)
    BY <1>2, <2>1, <2>2, <2>3 DEF PlaceOK, q
  <2>6. Good(r, loose)
    <3>1. Listed(r) \ {t} = Listed(s) \ {t} /\ r.stuck \ {t} = s.stuck \ {t}
      BY <2>1
    <3> QED  BY <2>1, <2>3, <2>4, <2>5, <3>1, StatusOnly DEF q
  <2>8. Gentle(r, s)
    BY <2>1, <2>3 DEF Gentle, q
  <2> QED  BY <1>2, <2>1, <2>3, <2>6, <2>8 DEF q, Adds
<1> QED  BY <1>1, <1>2

LEMMA StartGood ==
  ASSUME NEW s \in State, NEW loose, Good(s, loose), NEW t \in Txq, NEW reason \in Reasons,
         NEW r, r = Start(s, t, reason)
  PROVE  /\ r \in State /\ Good(r, loose) /\ Gentle(r, s)
         /\ \A u \in Txq \ {t} : r.txq[u] = s.txq[u]
         /\ Takes(r, s, t, reason)
<1>1. CASE ~s.txq[t].active
  <2>1. r = s
    BY <1>1 DEF Start
  <2> QED  BY <1>1, <2>1 DEF Gentle, SameFrames, SameHw, Takes
<1>2. CASE s.txq[t].active
  <2> DEFINE q == r.txq[t]
             run == Runs(s, t, reason)
  <2>0. reason \in Stops
    BY Names
  <2>8. Started(r, s, t, reason, run)
    BY <1>2, <2>0, StartEffect
  <2>1. /\ r \in State /\ q = [s.txq[t] EXCEPT !.stop = @ \ {reason}] /\ q \in Queue
        /\ \A u \in Txq \ {t} : r.txq[u] = s.txq[u]
        /\ SameFrames(r, s) /\ SameHw(r, s)
        /\ Listed(r) = IF run THEN Listed(s) \cup {t} ELSE Listed(s)
        /\ r.stuck = IF run /\ t \notin Listed(s) THEN s.stuck \ {t} ELSE s.stuck
        /\ r.hwq.need_processing = (s.hwq.need_processing \/ (run /\ t \notin Listed(s)))
    BY <2>8, StateIs DEF Started
  <2>9. run => s.txq[t].stop = {reason} /\ s.txq[t].sk_list # <<>>
    BY DEF Runs
  <2>10. ~run => s.txq[t].stop # {reason} \/ s.txq[t].sk_list = <<>>
    BY DEF Runs
  <2> HIDE DEF run
  <2>2. s.txq[t] \in Queue /\ QueueOK(s.txq[t]) /\ PlaceOK(s, t) /\ s.hwq.need_processing \in BOOLEAN
    BY StateIs DEF Good, HwQueue
  <2>3. /\ q.active = s.txq[t].active /\ q.init_time = s.txq[t].init_time
        /\ q.token_pkt_num = s.txq[t].token_pkt_num /\ q.sk_list = s.txq[t].sk_list
        /\ q.stop = s.txq[t].stop \ {reason} /\ q.credits = s.txq[t].credits
        /\ q.ps_active = s.txq[t].ps_active
        /\ q.nb_retry = s.txq[t].nb_retry /\ q.last_retry_skb = s.txq[t].last_retry_skb
        /\ q.push_limit = s.txq[t].push_limit /\ q.pkt_ready = s.txq[t].pkt_ready
        /\ q.sp_cnt = s.txq[t].sp_cnt /\ q.flow = s.txq[t].flow /\ q.ps_id = s.txq[t].ps_id
    BY <2>1, <2>2 DEF Queue
  <2> HIDE DEF q
  <2>4. QueueOK(q)
    <3>1. q.active => ("FULL" \in q.stop <=> q.credits <= 0)
      BY <2>2, <2>3, Names DEF QueueOK
    <3>2. q.ps_active => "STA_PS" \in q.stop
      BY <2>2, <2>3, Names DEF QueueOK
    <3>3. s.txq[t] \in Queue /\ q \in Queue /\ QueueOK(s.txq[t])
      BY <2>1, <2>2
    <3> QED  BY <2>3, <3>1, <3>2, <3>3 DEF QueueOK
  <2>5. PlaceOK(r, t)
    <3>1. run => "FULL" \notin s.txq[t].stop /\ ~s.txq[t].ps_active /\ q.stop = {}
      BY <2>2, <2>3, <2>9, Names DEF QueueOK
    <3>2. CASE run
      <4>1. t \in Listed(r) /\ t \notin r.stuck /\ q.sk_list # <<>>
        BY <2>1, <2>2, <2>3, <2>9, <3>2 DEF PlaceOK
      <4> QED  BY <1>2, <2>1, <2>3, <3>1, <3>2, <4>1 DEF PlaceOK, q
    <3>3. CASE ~run
      <4>1. (t \in Listed(r) <=> t \in Listed(s)) /\ (t \in r.stuck <=> t \in s.stuck)
        BY <2>1, <3>3
      <4>2. s.txq[t].sk_list # <<>> /\ q.stop = {} => s.txq[t].stop = {}
        BY <2>3, <2>10, <3>3
      <4> QED  BY <1>2, <2>1, <2>2, <2>3, <4>1, <4>2 DEF PlaceOK, q
    <3> QED  BY <3>2, <3>3
  <2>6. Good(r, loose)
    <3>1. Listed(r) \ {t} = Listed(s) \ {t} /\ r.stuck \ {t} = s.stuck \ {t}
      BY <2>1
    <3> QED  BY <2>1, <2>3, <2>4, <2>5, <3>1, StatusOnly DEF q
  <2>7. Gentle(r, s)
    BY <2>1, <2>2, <2>3 DEF Gentle, q
  <2> QED  BY <1>2, <2>1, <2>3, <2>6, <2>7 DEF q, Takes
<1> QED  BY <1>1, <1>2

\* The places of a queue after a stop, and after the end of one.
LEMMA PlaceStopped ==
  ASSUME NEW s \in State, NEW r \in State, NEW t \in Txq, PlaceOK(s, t),
         s.txq[t].active, r.txq[t].active, r.txq[t].sk_list = s.txq[t].sk_list,
         Listed(r) = Listed(s) \ {t},
         r.stuck = IF t \in Listed(s) /\ s.txq[t].sk_list # <<>>
                   THEN s.stuck \cup {t} ELSE s.stuck,
         r.txq[t].stop # {}
  PROVE  PlaceOK(r, t)
BY DEF PlaceOK

LEMMA PlaceStarted ==
  ASSUME NEW s \in State, NEW r \in State, NEW t \in Txq, PlaceOK(s, t), NEW reason, NEW run,
         s.txq[t].active, r.txq[t].active, r.txq[t].sk_list = s.txq[t].sk_list,
         run <=> s.txq[t].stop = {reason} /\ s.txq[t].sk_list # <<>>,
         r.txq[t].stop = s.txq[t].stop \ {reason},
         run => ~r.txq[t].ps_active,
         r.txq[t].ps_active /\ r.txq[t].ps_id = "UAPSD_ID" =>
           /\ s.txq[t].ps_active /\ s.txq[t].ps_id = "UAPSD_ID"
           /\ s.txq[t].push_limit > 0 => r.txq[t].push_limit > 0,
         Listed(r) = IF run THEN Listed(s) \cup {t} ELSE Listed(s),
         r.stuck = IF run /\ t \notin Listed(s) THEN s.stuck \ {t} ELSE s.stuck
  PROVE  PlaceOK(r, t)
<1>1. CASE run
  <2>1. t \in Listed(r) /\ r.txq[t].sk_list # <<>> /\ r.txq[t].stop = {}
    BY <1>1
  <2>2. t \notin r.stuck
    BY <1>1 DEF PlaceOK
  <2> QED  BY <1>1, <2>1, <2>2 DEF PlaceOK
<1>2. CASE ~run
  <2>1. (t \in Listed(r) <=> t \in Listed(s)) /\ (t \in r.stuck <=> t \in s.stuck)
    BY <1>2
  <2>2. s.txq[t].sk_list # <<>> /\ r.txq[t].stop = {} => s.txq[t].stop = {}
    BY <1>2
  <2> QED  BY <1>2, <2>1, <2>2 DEF PlaceOK
<1> QED  BY <1>1, <1>2

SetCredits(s, t, c) == [s EXCEPT !.txq[t].credits = c]

LEMMA CreditsAs ==
  ASSUME NEW s \in State, NEW t \in Txq, NEW c \in Int,
         NEW m, m = SetCredits(s, t, c)
  PROVE  /\ m \in State /\ m.txq[t] = [s.txq[t] EXCEPT !.credits = c]
         /\ m.hwq = s.hwq /\ m.skb = s.skb /\ m.ring = s.ring /\ m.stuck = s.stuck
         /\ \A u \in Txq \ {t} : m.txq[u] = s.txq[u]
<1> DEFINE q == [s.txq[t] EXCEPT !.credits = c]
<1>1. s.txq[t] \in Queue /\ s \in Raw
  BY DEF State, Raw
<1>2. q \in Queue
  BY <1>1 DEF Queue
<1>3. m = [s EXCEPT !.txq = [@ EXCEPT ![t] = q]]
  BY <1>1 DEF Raw, SetCredits
<1> HIDE DEF q
<1>4. LET r == [s EXCEPT !.txq = [@ EXCEPT ![t] = q]]
      IN  /\ r \in State /\ r.hwq = s.hwq /\ r.skb = s.skb /\ r.ring = s.ring /\ r.stuck = s.stuck
          /\ r.txq[t] = q /\ \A u \in Txq \ {t} : r.txq[u] = s.txq[u]
  BY <1>2, SetQueue
<1> QED  BY <1>3, <1>4 DEF q

\* All of a queue but its stop reasons and its credits.
SameQueue(q, a) ==
  /\ q.active = a.active /\ q.init_time = a.init_time
  /\ q.token_pkt_num = a.token_pkt_num /\ q.sk_list = a.sk_list
  /\ q.ps_active = a.ps_active /\ q.ps_id = a.ps_id
  /\ q.nb_retry = a.nb_retry /\ q.last_retry_skb = a.last_retry_skb
  /\ q.push_limit = a.push_limit /\ q.pkt_ready = a.pkt_ready
  /\ q.sp_cnt = a.sp_cnt /\ q.flow = a.flow

WithStop(q, set) == [q EXCEPT !.stop = set]

LEMMA StopFields ==
  ASSUME NEW q \in Queue, NEW a, SameQueue(q, a), NEW set
  PROVE  /\ SameQueue(WithStop(q, set), a) /\ WithStop(q, set).stop = set
         /\ WithStop(q, set).credits = q.credits
BY DEF Queue, SameQueue, WithStop

LEMMA SameIsOK ==
  ASSUME NEW q, NEW a, SameQueue(q, a), QueueOK(a),
         q.active => ("FULL" \in q.stop <=> q.credits <= 0),
         q.ps_active => "STA_PS" \in q.stop
  PROVE  QueueOK(q)
BY DEF QueueOK, SameQueue

\* What stopping or starting one queue comes to, its stop reasons apart.
QueueMoved(r, s, t) ==
  /\ r \in State /\ SameFrames(r, s) /\ SameHw(r, s)
  /\ \A u \in Txq \ {t} : r.txq[u] = s.txq[u]
  /\ s.hwq.need_processing => r.hwq.need_processing
  /\ Listed(r) \subseteq Listed(s) \/ r.hwq.need_processing
  /\ Listed(r) \ {t} = Listed(s) \ {t} /\ r.stuck \ {t} = s.stuck \ {t}

LEMMA MovedGood ==
  ASSUME NEW s \in State, NEW loose, Good(s, loose), NEW t \in Txq, NEW r,
         QueueMoved(r, s, t), SameQueue(r.txq[t], s.txq[t]), QueueOK(r.txq[t]), PlaceOK(r, t)
  PROVE  Good(r, loose) /\ Gentle(r, s)
<1>1. Good(r, loose)
  BY StatusOnly DEF QueueMoved, SameQueue
<1>2. Gentle(r, s)
  <2>1. \A u \in Txq : /\ r.txq[u].active = s.txq[u].active
                       /\ r.txq[u].init_time = s.txq[u].init_time
                       /\ r.txq[u].token_pkt_num = s.txq[u].token_pkt_num
                       /\ r.txq[u].sk_list = s.txq[u].sk_list
    BY DEF QueueMoved, SameQueue
  <2> QED  BY <2>1 DEF QueueMoved, Gentle
<1> QED  BY <1>1, <1>2

\* Credits given to a queue, and its full flag brought up to date.
Flagged(r, m, s, t, c) ==
  \/ c <= 0 /\ r = Stop(m, t, "FULL")
  \/ c <= 0 /\ c >= s.txq[t].credits /\ r = m
  \/ c > 0 /\ r = Start(m, t, "FULL")

LEMMA CreditsGood ==
  ASSUME NEW s \in State, NEW loose, Good(s, loose), NEW t \in Txq, s.txq[t].active,
         NEW c \in Int, NEW m, m = SetCredits(s, t, c),
         NEW r, Flagged(r, m, s, t, c)
  PROVE  /\ r \in State /\ Good(r, loose) /\ Gentle(r, s)
         /\ \A u \in Txq \ {t} : r.txq[u] = s.txq[u]
         /\ r.txq[t].ps_active = s.txq[t].ps_active /\ Stays(r, s)
<1>1. /\ s.txq[t] \in Queue /\ QueueOK(s.txq[t]) /\ PlaceOK(s, t)
      /\ s.hwq.need_processing \in BOOLEAN /\ s.txq[t].credits \in Int
  <2>1. s.txq[t] \in Queue /\ QueueOK(s.txq[t]) /\ PlaceOK(s, t) /\ s.hwq \in HwQueue
    BY StateIs DEF Good
  <2> QED  BY <2>1 DEF HwQueue, Queue
<1>2. /\ m \in State /\ m.txq[t] = [s.txq[t] EXCEPT !.credits = c]
      /\ m.hwq = s.hwq /\ m.skb = s.skb /\ m.ring = s.ring /\ m.stuck = s.stuck
      /\ \A u \in Txq \ {t} : m.txq[u] = s.txq[u]
  BY CreditsAs
<1>3. /\ m.txq[t].credits = c /\ m.txq[t].stop = s.txq[t].stop
      /\ m.txq[t].sk_list = s.txq[t].sk_list /\ m.txq[t].active
      /\ SameQueue(m.txq[t], s.txq[t]) /\ m.txq[t] \in Queue
  <2>1. m.txq[t] \in Queue
    BY <1>2, StateIs
  <2>2. s.txq[t] \in Queue /\ m.txq[t] = [s.txq[t] EXCEPT !.credits = c] /\ s.txq[t].active
    BY <1>1, <1>2
  <2> QED  BY <2>1, <2>2, ZenonT(30) DEF Queue, SameQueue
<1> SUFFICES /\ QueueMoved(r, s, t) /\ PlaceOK(r, t) /\ SameQueue(r.txq[t], s.txq[t])
             /\ r.txq[t].credits = c
             /\ "FULL" \in r.txq[t].stop <=> c <= 0
             /\ s.txq[t].stop \ {"FULL"} \subseteq r.txq[t].stop
  <2>1. r.txq[t].ps_active => "STA_PS" \in r.txq[t].stop
    BY <1>1 DEF QueueOK, SameQueue
  <2>2. QueueOK(r.txq[t])
    BY <1>1, <2>1, SameIsOK
  <2>3. Stays(r, s)
    BY DEF QueueMoved, Stays
  <2> QED  BY <2>2, <2>3, MovedGood DEF QueueMoved, SameQueue
<1>4. CASE c <= 0 /\ r = Stop(m, t, "FULL")
  <2>1. Stopped(r, m, t, "FULL")
    BY <1>2, <1>3, <1>4, Names, StopEffect
  <2>2. /\ r.txq[t].stop = s.txq[t].stop \cup {"FULL"} /\ r.txq[t].credits = c
        /\ SameQueue(r.txq[t], s.txq[t])
    <3>1. r.txq[t] = WithStop(m.txq[t], m.txq[t].stop \cup {"FULL"})
      BY <1>3, <2>1 DEF Stopped, WithStop, Queue
    <3> QED  BY <1>3, <3>1, StopFields
  <2>3. /\ r \in State /\ SameFrames(r, s) /\ SameHw(r, s)
        /\ \A u \in Txq \ {t} : r.txq[u] = s.txq[u]
        /\ r.hwq.need_processing = s.hwq.need_processing
        /\ Listed(r) = Listed(s) \ {t}
        /\ r.stuck = IF t \in Listed(s) /\ s.txq[t].sk_list # <<>>
                     THEN s.stuck \cup {t} ELSE s.stuck
    BY <1>2, <1>3, <2>1 DEF Stopped, SameFrames, SameHw, Listed
  <2>4. PlaceOK(r, t)
    <3>1. r.txq[t].active /\ r.txq[t].sk_list = s.txq[t].sk_list /\ r.txq[t].stop # {}
      BY <2>2 DEF SameQueue
    <3> QED  BY <1>1, <2>3, <3>1, PlaceStopped
  <2>5. QueueMoved(r, s, t)
    BY <2>3 DEF QueueMoved
  <2> QED  BY <1>4, <2>2, <2>4, <2>5
<1>5. CASE c <= 0 /\ c >= s.txq[t].credits /\ r = m
  <2>1. "FULL" \in s.txq[t].stop
    <3>1. s.txq[t].credits <= 0
      BY <1>1, <1>5
    <3> QED  BY <1>1, <3>1 DEF QueueOK
  <2>2. QueueMoved(r, s, t)
    BY <1>2, <1>5 DEF QueueMoved, SameFrames, SameHw, Listed
  <2>3. PlaceOK(r, t)
    BY <1>1, <1>2, <1>3, <1>5 DEF PlaceOK, Listed, SameQueue
  <2> QED  BY <1>3, <1>5, <2>1, <2>2, <2>3
<1>6. CASE c > 0 /\ r = Start(m, t, "FULL")
  <2>1. Started(r, m, t, "FULL", Runs(m, t, "FULL"))
    BY <1>2, <1>3, <1>6, Names, StartEffect
  <2>2. /\ r.txq[t].stop = s.txq[t].stop \ {"FULL"} /\ r.txq[t].credits = c
        /\ SameQueue(r.txq[t], s.txq[t])
    <3>1. r.txq[t] = WithStop(m.txq[t], m.txq[t].stop \ {"FULL"})
      BY <1>3, <2>1 DEF Started, WithStop, Queue
    <3> QED  BY <1>3, <3>1, StopFields
  <2>3. PICK run : run = Runs(m, t, "FULL")
    OBVIOUS
  <2>4. /\ r \in State /\ SameFrames(r, s) /\ SameHw(r, s)
        /\ \A u \in Txq \ {t} : r.txq[u] = s.txq[u]
        /\ Listed(r) = IF run THEN Listed(s) \cup {t} ELSE Listed(s)
        /\ r.stuck = IF run /\ t \notin Listed(s) THEN s.stuck \ {t} ELSE s.stuck
        /\ r.hwq.need_processing = (s.hwq.need_processing \/ (run /\ t \notin Listed(s)))
    BY <1>2, <1>3, <2>1, <2>3 DEF Started, SameFrames, SameHw, Listed
  <2>5. run <=> s.txq[t].stop = {"FULL"} /\ s.txq[t].sk_list # <<>>
    BY <1>3, <2>3 DEF Runs
  <2>6. run => ~s.txq[t].ps_active
    BY <1>1, <2>5 DEF QueueOK
  <2>7. PlaceOK(r, t)
    <3>1. /\ r.txq[t].active /\ r.txq[t].sk_list = s.txq[t].sk_list
          /\ run => ~r.txq[t].ps_active
          /\ r.txq[t].ps_active /\ r.txq[t].ps_id = "UAPSD_ID" =>
             /\ s.txq[t].ps_active /\ s.txq[t].ps_id = "UAPSD_ID"
             /\ s.txq[t].push_limit > 0 => r.txq[t].push_limit > 0
      BY <2>2, <2>6 DEF SameQueue
    <3>2. r.txq[t].stop = s.txq[t].stop \ {"FULL"}
      BY <2>2
    <3> QED  BY <1>1, <2>4, <2>5, <3>1, <3>2, PlaceStarted
  <2>8. QueueMoved(r, s, t)
    BY <1>1, <2>4 DEF QueueMoved
  <2>9. ~(c <= 0)
    BY <1>6
  <2> QED  BY <2>2, <2>7, <2>8, <2>9
<1> QED  BY <1>4, <1>5, <1>6 DEF Flagged

LEMMA GiveCreditsGood ==
  ASSUME NEW s \in State, NEW loose, Good(s, loose), NEW t \in Txq, s.txq[t].active,
         NEW n \in Int, NEW r, r = GiveCredits(s, t, n)
  PROVE  /\ r \in State /\ Good(r, loose) /\ Gentle(r, s)
         /\ \A u \in Txq \ {t} : r.txq[u] = s.txq[u]
         /\ r.txq[t].ps_active = s.txq[t].ps_active /\ Stays(r, s)
<1>1. PICK c \in Int : c = s.txq[t].credits + n
  <2>1. s.txq[t].credits \in Int
    BY StateIs DEF Queue
  <2> QED  BY <2>1
<1>2. PICK m : m = SetCredits(s, t, c)
  OBVIOUS
<1>3. m = [s EXCEPT !.txq[t].credits = @ + n]
  BY <1>1, <1>2 DEF State, Raw, SetCredits
<1>4. m.txq[t].credits = c
  <2>1. m.txq[t] = [s.txq[t] EXCEPT !.credits = c]
    BY <1>2, CreditsAs
  <2> QED  BY <2>1, StateIs DEF Queue
<1>5. r = IF c <= 0 THEN Stop(m, t, "FULL") ELSE Start(m, t, "FULL")
  BY <1>3, <1>4 DEF GiveCredits
<1>6. c <= 0 \/ c > 0
  OBVIOUS
<1>7. Flagged(r, m, s, t, c)
  BY <1>5, <1>6 DEF Flagged
<1> QED  BY ONLY s \in State, Good(s, loose), t \in Txq, s.txq[t].active, c \in Int,
                 <1>2, <1>7, CreditsGood

LEMMA ContinueGood ==
  ASSUME NEW s \in State, NEW loose, Good(s, loose), NEW t \in Txq, s.txq[t].active,
         NEW r, r = ContinueService(s, t)
  PROVE  r \in State /\ Good(r, loose) /\ Gentle(r, s) /\ r.txq = s.txq
<1>1. CASE s.txq[t].push_limit > 0 /\ "FULL" \notin s.txq[t].stop
  <2>1. r = AddToHwList(s, t)
    BY <1>1 DEF ContinueService
  <2>2. s.txq[t] \in Queue /\ QueueOK(s.txq[t])
    BY StateIs DEF Good
  <2>3. "ON" \in PsStates
    BY <1>1, <2>2 DEF QueueOK
  <2>4. NoFlush => s.txq[t].sk_list # <<>>
    <3>1. NoFlush => Len(s.txq[t].sk_list) >= s.txq[t].push_limit
      BY <2>2, StateIs DEF QueueOK, Queue
    <3>2. s.txq[t].sk_list = <<>> => Len(s.txq[t].sk_list) = 0
      OBVIOUS
    <3> QED  BY <1>1, <2>2, <3>1, <3>2 DEF Queue
  <2> QED  BY <1>1, <2>1, <2>3, <2>4, AddGood
<1>2. CASE ~(s.txq[t].push_limit > 0 /\ "FULL" \notin s.txq[t].stop)
  <2>1. r = s
    BY <1>2 DEF ContinueService
  <2> QED  BY <2>1 DEF Gentle, SameFrames, SameHw
<1> QED  BY <1>1, <1>2

\* A step that keeps the ring and the tokens, and wakes the hwq for every
\* queue it schedules.
Soft(r, s) ==
  /\ r.ring = s.ring /\ SameHw(r, s)
  /\ \A t \in Txq : /\ r.txq[t].active = s.txq[t].active
                    /\ r.txq[t].init_time = s.txq[t].init_time
                    /\ r.txq[t].token_pkt_num = s.txq[t].token_pkt_num
  /\ s.hwq.need_processing => r.hwq.need_processing
  /\ Listed(r) \subseteq Listed(s) \/ r.hwq.need_processing

LEMMA SoftTwice ==
  ASSUME NEW r, NEW s, NEW p, Soft(r, s), Soft(s, p)
  PROVE  Soft(r, p)
BY DEF Soft, SameHw

LEMMA GentleIsSoft ==
  ASSUME NEW r, NEW s, Gentle(r, s)
  PROVE  Soft(r, s)
BY DEF Soft, Gentle, SameFrames

\* A queue gives up the frames of drop and takes those of put.
LEMMA MoveFrames ==
  ASSUME NEW s \in State, NEW r \in State, NEW loose, Frames(s, loose), NEW t \in Txq,
         NEW drop, drop \subseteq ToSet(s.txq[t].sk_list) \cup loose,
         NEW put, put \subseteq loose \ drop,
         \A f \in put : s.skb[f].txq = t /\ s.skb[f].init_time = s.txq[t].init_time,
         r.ring = s.ring,
         \A f \in Skb : r.skb[f] = IF f \in drop THEN NoHdr ELSE s.skb[f],
         \A u \in Txq \ {t} : r.txq[u] = s.txq[u],
         r.txq[t].init_time = s.txq[t].init_time,
         ToSet(r.txq[t].sk_list) = (ToSet(s.txq[t].sk_list) \ drop) \cup put
  PROVE  Frames(r, loose \ (drop \cup put))
<1>1. None \notin Txq /\ NoHdr.txq = None
  BY SchedAssumption DEF SchedAssumption, NoHdr
<1>2. \A u \in Txq : ToSet(s.txq[u].sk_list) \subseteq Skb /\ ToSet(r.txq[u].sk_list) \subseteq Skb
  BY StateIs
<1>3. ToSet(s.ring) \subseteq Skb
  BY StateIs
<1>4. \A u \in Txq : r.txq[u].init_time = s.txq[u].init_time
  OBVIOUS
<1>5. \A f \in ToSet(s.ring) : f \notin drop
  BY DEF Frames
<1>6. \A u \in Txq : \A f \in ToSet(r.txq[u].sk_list) :
        /\ r.skb[f].txq = u /\ r.skb[f].init_time = r.txq[u].init_time
        /\ f \notin ToSet(r.ring) /\ f \notin loose \ (drop \cup put)
  <2> TAKE u \in Txq
  <2> TAKE f \in ToSet(r.txq[u].sk_list)
  <2>1. CASE u = t /\ f \in put
    <3>1. f \in loose /\ f \in Skb /\ r.skb[f] = s.skb[f] /\ f \notin ToSet(s.ring)
      BY <1>2, <2>1 DEF Frames
    <3> QED  BY <2>1, <3>1
  <2>2. CASE ~(u = t /\ f \in put)
    <3>1. f \in ToSet(s.txq[u].sk_list)
      BY <2>2
    <3>2. f \notin drop
      <4>1. CASE u = t
        BY <2>2, <4>1
      <4>2. CASE u # t
        <5>1. f \notin ToSet(s.txq[t].sk_list) /\ f \notin loose
          BY <3>1, <4>2 DEF Frames
        <5> QED  BY <5>1
      <4> QED  BY <4>1, <4>2
    <3>3. r.skb[f] = s.skb[f]
      BY <1>2, <3>1, <3>2
    <3> QED  BY <1>4, <3>1, <3>3 DEF Frames
  <2> QED  BY <2>1, <2>2
<1>7. \A f \in ToSet(r.ring) :
        r.skb[f].txq \in Txq /\ r.skb[f].token \in Token /\ f \notin loose \ (drop \cup put)
  BY <1>3, <1>5 DEF Frames
<1>8. ASSUME NEW f \in Skb, r.skb[f].txq \in Txq
      PROVE  /\ r.skb[f].init_time <= r.txq[r.skb[f].txq].init_time
             /\ f \in (loose \ (drop \cup put)) \cup ToSet(r.ring) \cup ToSet(r.txq[r.skb[f].txq].sk_list)
  <2>1. f \notin drop /\ r.skb[f] = s.skb[f]
    BY <1>1, <1>8
  <2>2. /\ s.skb[f].init_time <= s.txq[s.skb[f].txq].init_time
        /\ f \in loose \cup ToSet(s.ring) \cup ToSet(s.txq[s.skb[f].txq].sk_list)
    BY <1>8, <2>1 DEF Frames
  <2>3. f \in put => s.skb[f].txq = t
    OBVIOUS
  <2>4. \A u \in Txq : f \in ToSet(s.txq[u].sk_list) => f \in ToSet(r.txq[u].sk_list)
    BY <2>1
  <2> QED  BY <1>4, <1>8, <2>1, <2>2, <2>3, <2>4
<1>9. loose \subseteq Skb /\ \A f \in loose \ (drop \cup put) : r.skb[f].txq \in Txq
  BY DEF Frames
<1>10. Once(r.ring)
  BY DEF Frames
<1> QED  BY <1>6, <1>7, <1>8, <1>9, <1>10 DEF Frames

LEMMA MoveGood ==
  ASSUME NEW s \in State, NEW r \in State, NEW loose, Good(s, loose), NEW t \in Txq,
         NEW drop, drop \subseteq ToSet(s.txq[t].sk_list) \cup loose,
         NEW put, put \subseteq loose \ drop,
         \A f \in put : s.skb[f].txq = t /\ s.skb[f].init_time = s.txq[t].init_time,
         r.ring = s.ring, SameHw(r, s),
         \A f \in Skb : r.skb[f] = IF f \in drop THEN NoHdr ELSE s.skb[f],
         \A u \in Txq \ {t} : r.txq[u] = s.txq[u],
         r.txq[t].init_time = s.txq[t].init_time,
         r.txq[t].active = s.txq[t].active,
         r.txq[t].token_pkt_num = s.txq[t].token_pkt_num,
         ToSet(r.txq[t].sk_list) = (ToSet(s.txq[t].sk_list) \ drop) \cup put,
         Listed(r) \ {t} = Listed(s) \ {t}, r.stuck \ {t} = s.stuck \ {t},
         QueueOK(r.txq[t]), PlaceOK(r, t)
  PROVE  Good(r, loose \ (drop \cup put))
<1>1. Frames(r, loose \ (drop \cup put))
  BY MoveFrames, ZenonT(30) DEF Good
<1>2. \A f \in ToSet(s.ring) : f \in Skb /\ f \notin drop
  BY StateIs DEF Good, Frames
<1>3. TokensOK(r)
  <2>1. ToSet(r.ring) = ToSet(s.ring)
    OBVIOUS
  <2>2. \A f \in ToSet(s.ring) : r.skb[f] = s.skb[f]
    BY <1>2
  <2> QED  BY <2>1, <2>2, TokensSame DEF Good, SameHw
<1>4. SumOK(r)
  BY DEF Good, SumOK, SameHw
<1>5. \A u \in Txq \ {t} : QueueOK(r.txq[u]) /\ PlaceOK(r, u)
  <2> TAKE u \in Txq \ {t}
  <2>1. (u \in Listed(r) <=> u \in Listed(s)) /\ (u \in r.stuck <=> u \in s.stuck)
    OBVIOUS
  <2> QED  BY <2>1 DEF Good, PlaceOK
<1> QED  BY <1>1, <1>3, <1>4, <1>5 DEF Good

\* siwifi_txq_free_skb and friends: frames in the hands of the code are freed.
LEMMA FreeGood ==
  ASSUME NEW s \in State, NEW loose, Good(s, loose), NEW f \in loose, f \in Skb,
         NEW r, r = FreeSkbs(s, {f})
  PROVE  /\ r \in State /\ Good(r, loose \ {f}) /\ Soft(r, s) /\ r.txq = s.txq
         /\ r.hwq = s.hwq /\ r.stuck = s.stuck
<1>1. PICK t \in Txq : s.skb[f].txq = t
  BY DEF Good, Frames
<1>2. NoHdr \in Hdr
  BY SchedAssumption DEF SchedAssumption, NoHdr, Hdr
<1>3. /\ r \in State /\ r.txq = s.txq /\ r.hwq = s.hwq /\ r.ring = s.ring /\ r.stuck = s.stuck
      /\ \A g \in Skb : r.skb[g] = IF g \in {f} THEN NoHdr ELSE s.skb[g]
  <2>1. s \in Raw /\ Once(s.hwq.list) /\ s.skb \in [Skb -> Hdr]
    BY DEF State, Raw
  <2>2. r = [s EXCEPT !.skb = [g \in Skb |-> IF g \in {f} THEN NoHdr ELSE s.skb[g]]]
    BY <2>1 DEF FreeSkbs, Raw
  <2>3. [g \in Skb |-> IF g \in {f} THEN NoHdr ELSE s.skb[g]] \in [Skb -> Hdr]
    BY <1>2, <2>1
  <2>4. r.skb = [g \in Skb |-> IF g \in {f} THEN NoHdr ELSE s.skb[g]]
    BY <2>1, <2>2 DEF Raw
  <2>5. r \in Raw
    BY <2>1, <2>2, <2>3 DEF Raw
  <2>6. r.txq = s.txq /\ r.hwq = s.hwq /\ r.ring = s.ring /\ r.stuck = s.stuck
    BY <2>1, <2>2 DEF Raw
  <2> QED  BY <2>1, <2>4, <2>5, <2>6 DEF State
<1>4. SameHw(r, s) /\ Listed(r) = Listed(s) /\ Soft(r, s)
  BY <1>3 DEF SameHw, Listed, Soft
<1>5. QueueOK(r.txq[t]) /\ PlaceOK(r, t)
  BY <1>3, <1>4 DEF Good, PlaceOK
<1>6. Good(r, loose \ ({f} \cup {}))
  <2>1. f \notin ToSet(s.txq[t].sk_list)
    BY DEF Good, Frames
  <2>2. ToSet(r.txq[t].sk_list) = (ToSet(s.txq[t].sk_list) \ {f}) \cup {}
    BY <1>3, <2>1
  <2>3. {f} \subseteq ToSet(s.txq[t].sk_list) \cup loose /\ {} \subseteq loose \ {f}
    OBVIOUS
  <2>4. Listed(r) \ {t} = Listed(s) \ {t} /\ r.stuck \ {t} = s.stuck \ {t}
    BY <1>3, <1>4
  <2> QED  BY <1>3, <1>4, <1>5, <2>2, <2>3, <2>4, MoveGood
<1>7. loose \ ({f} \cup {}) = loose \ {f}
  OBVIOUS
<1> QED  BY <1>3, <1>4, <1>6, <1>7

----------------------------------------------------------------------------
(* Frames put into a queue, new ones and those the firmware gave back.     *)

SetQ(s, t, q) == [s EXCEPT !.txq = [@ EXCEPT ![t] = q]]

\* One queue of r differs from s, and it is q.
Only(r, s, t, q) ==
  /\ r \in State /\ r.txq[t] = q /\ \A u \in Txq \ {t} : r.txq[u] = s.txq[u]
  /\ r.hwq = s.hwq /\ r.skb = s.skb /\ r.ring = s.ring /\ r.stuck = s.stuck

LEMMA SetQIs ==
  ASSUME NEW s \in State, NEW t \in Txq, NEW q \in Queue
  PROVE  Only(SetQ(s, t, q), s, t, q)
BY SetQueue DEF Only, SetQ

LEMMA SetQTwice ==
  ASSUME NEW s \in State, NEW t \in Txq, NEW q, NEW p
  PROVE  SetQ(SetQ(s, t, q), t, p) = SetQ(s, t, p)
BY DEF SetQ, State, Raw

LEMMA Behind ==
  ASSUME NEW q \in Queue, QueueOK(q)
  PROVE  BehindRetries(q) = q.nb_retry + 1 /\ BehindRetries(q) \in 1 .. Len(q.sk_list) + 1
<1>1. /\ q.sk_list \in Seq(Skb) /\ q.nb_retry \in Nat /\ Len(q.sk_list) \in Nat
      /\ q.nb_retry <= Len(q.sk_list) /\ Once(q.sk_list)
      /\ q.last_retry_skb = IF q.nb_retry = 0 THEN None ELSE q.sk_list[q.nb_retry]
  BY DEF Queue, QueueOK
<1>2. None \notin Skb
  BY SchedAssumption DEF SchedAssumption
<1>3. CASE q.nb_retry = 0
  BY <1>1, <1>3 DEF BehindRetries
<1>4. CASE q.nb_retry # 0
  <2>1. q.nb_retry \in 1 .. Len(q.sk_list) /\ q.sk_list[q.nb_retry] = q.last_retry_skb
    BY <1>1, <1>4
  <2>2. q.last_retry_skb # None
    BY <1>1, <1>2, <2>1
  <2>3. \A i \in 1 .. Len(q.sk_list) : q.sk_list[i] = q.last_retry_skb => i = q.nb_retry
    BY <1>1, <2>1 DEF Once
  <2>4. (CHOOSE i \in 1 .. Len(q.sk_list) : q.sk_list[i] = q.last_retry_skb) = q.nb_retry
    BY <2>1, <2>3
  <2>5. BehindRetries(q) = 1 + (CHOOSE i \in 1 .. Len(q.sk_list) : q.sk_list[i] = q.last_retry_skb)
    BY <2>2 DEF BehindRetries
  <2>6. BehindRetries(q) = 1 + q.nb_retry
    BY <2>4, <2>5
  <2> QED  BY <1>1, <2>1, <2>6
<1> QED  BY <1>3, <1>4

\* The queue once the frame is in it.
Place(q, how) == IF how = "tail" THEN Len(q.sk_list) + 1 ELSE BehindRetries(q)

WithFrame(q, f, how) ==
  [q EXCEPT !.pkt_ready = IF q.ps_active THEN @ + 1 ELSE @,
            !.sk_list = InsertAt(@, Place(q, how), f),
            !.last_retry_skb = IF how = "retry" THEN f ELSE @,
            !.nb_retry = IF how = "retry" THEN @ + 1 ELSE @,
            !.flow = @ \/ Len(InsertAt(q.sk_list, Place(q, how), f)) > FlowStop]

\* p is q with the frame f put in it.
HasFrame(p, q, f) ==
  /\ p \in Queue /\ QueueOK(p) /\ p.sk_list # <<>>
  /\ ToSet(p.sk_list) = ToSet(q.sk_list) \cup {f}
  /\ p.active = q.active /\ p.stop = q.stop /\ p.init_time = q.init_time
  /\ p.token_pkt_num = q.token_pkt_num /\ p.ps_active = q.ps_active
  /\ p.ps_id = q.ps_id /\ p.push_limit = q.push_limit

LEMMA InsertedQueue ==
  ASSUME NEW q \in Queue, QueueOK(q), q.active, NEW f \in Skb, f \notin ToSet(q.sk_list),
         NEW how
  PROVE  HasFrame(WithFrame(q, f, how), q, f)
<1> DEFINE n == Place(q, how)
           l == InsertAt(q.sk_list, n, f)
           p == WithFrame(q, f, how)
<1>1. /\ q.sk_list \in Seq(Skb) /\ q.nb_retry \in Nat /\ Len(q.sk_list) \in Nat
      /\ q.nb_retry <= Len(q.sk_list) /\ Once(q.sk_list)
      /\ q.last_retry_skb = IF q.nb_retry = 0 THEN None ELSE q.sk_list[q.nb_retry]
      /\ q.pkt_ready \in Int /\ q.push_limit \in Nat
  BY DEF Queue, QueueOK
<1>2. n \in 1 .. Len(q.sk_list) + 1 /\ n > q.nb_retry /\ (how = "retry" => n = q.nb_retry + 1)
  <2>1. BehindRetries(q) = q.nb_retry + 1 /\ BehindRetries(q) \in 1 .. Len(q.sk_list) + 1
    BY Behind
  <2> QED  BY <1>1, <2>1 DEF Place
<1> HIDE DEF n
<1>3. /\ l \in Seq(Skb) /\ Len(l) = Len(q.sk_list) + 1 /\ ToSet(l) = ToSet(q.sk_list) \cup {f}
      /\ Once(l) /\ l[n] = f /\ \A i \in 1 .. n - 1 : l[i] = q.sk_list[i]
  <2>1. q.sk_list \in Seq(Skb) /\ n \in 1 .. Len(q.sk_list) + 1
    BY <1>1, <1>2
  <2>2. /\ l \in Seq(Skb) /\ Len(l) = Len(q.sk_list) + 1 /\ ToSet(l) = ToSet(q.sk_list) \cup {f}
        /\ Once(q.sk_list) /\ f \notin ToSet(q.sk_list) => Once(l)
        /\ l[n] = f /\ \A i \in 1 .. n - 1 : l[i] = q.sk_list[i]
    BY <2>1, Inserted
  <2> QED  BY <1>1, <2>2
<1> HIDE DEF l
<1>4. p = [q EXCEPT !.pkt_ready = IF q.ps_active THEN @ + 1 ELSE @, !.sk_list = l,
            !.last_retry_skb = IF how = "retry" THEN f ELSE @,
            !.nb_retry = IF how = "retry" THEN @ + 1 ELSE @,
            !.flow = @ \/ Len(l) > FlowStop]
  BY DEF WithFrame, l, n
<1> HIDE DEF p
<1>5. /\ p.pkt_ready = IF q.ps_active THEN q.pkt_ready + 1 ELSE q.pkt_ready
      /\ p.sk_list = l /\ p.last_retry_skb = (IF how = "retry" THEN f ELSE q.last_retry_skb)
      /\ p.nb_retry = (IF how = "retry" THEN q.nb_retry + 1 ELSE q.nb_retry)
      /\ p.flow = (q.flow \/ Len(l) > FlowStop)
      /\ p.active = q.active /\ p.stop = q.stop /\ p.init_time = q.init_time
      /\ p.token_pkt_num = q.token_pkt_num /\ p.ps_active = q.ps_active /\ p.ps_id = q.ps_id
      /\ p.push_limit = q.push_limit /\ p.credits = q.credits /\ p.sp_cnt = q.sp_cnt
  BY <1>4 DEF Queue
<1>6. p \in Queue
  <2>1. (IF q.ps_active THEN q.pkt_ready + 1 ELSE q.pkt_ready) \in Int
    BY <1>1
  <2>2. (IF how = "retry" THEN f ELSE q.last_retry_skb) \in Skb \cup {None}
    BY DEF Queue
  <2>3. (IF how = "retry" THEN q.nb_retry + 1 ELSE q.nb_retry) \in Nat
    BY <1>1
  <2>4. (q.flow \/ Len(l) > FlowStop) \in BOOLEAN
    OBVIOUS
  <2> QED  BY <1>3, <1>4, <2>1, <2>2, <2>3, <2>4, ZenonT(30) DEF Queue
<1>7. l # <<>>
  BY <1>1, <1>3
<1>8. p.nb_retry <= Len(p.sk_list)
      /\ p.last_retry_skb = IF p.nb_retry = 0 THEN None ELSE p.sk_list[p.nb_retry]
  <2>1. CASE how = "retry"
    BY <1>1, <1>2, <1>3, <1>5, <2>1
  <2>2. CASE how # "retry"
    <3>1. q.nb_retry # 0 => q.nb_retry \in 1 .. n - 1
      BY <1>1, <1>2
    <3> QED  BY <1>1, <1>3, <1>5, <2>2, <3>1
  <2> QED  BY <2>1, <2>2
<1>9. QueueOK(p)
  <2>1. p.pkt_ready >= 0
    BY <1>1, <1>5 DEF QueueOK
  <2>2. p.ps_active => /\ p.pkt_ready = Len(p.sk_list) /\ p.sp_cnt = p.push_limit
                       /\ "STA_PS" \in p.stop /\ "ON" \in PsStates
    BY <1>3, <1>5 DEF QueueOK
  <2>3. NoFlush => p.push_limit <= Len(p.sk_list)
    BY <1>1, <1>3, <1>5 DEF QueueOK
  <2> QED  BY <1>3, <1>5, <1>7, <1>8, <2>1, <2>2, <2>3 DEF QueueOK
<1> QED  BY <1>3, <1>5, <1>6, <1>7, <1>9 DEF p, HasFrame

LEMMA ReadySet ==
  ASSUME NEW q \in Queue, NEW x \in Int
  PROVE  [q EXCEPT !.pkt_ready = x] \in Queue
BY DEF Queue

LEMMA RetriedSet ==
  ASSUME NEW q \in Queue, NEW f \in Skb
  PROVE  [q EXCEPT !.last_retry_skb = f, !.nb_retry = @ + 1] \in Queue
<1>1. PICK n \in Nat : n = q.nb_retry + 1
  BY DEF Queue
<1>2. [q EXCEPT !.last_retry_skb = f, !.nb_retry = n] \in Queue
  BY DEF Queue
<1>3. [q EXCEPT !.last_retry_skb = f, !.nb_retry = n] = [q EXCEPT !.last_retry_skb = f, !.nb_retry = @ + 1]
  BY <1>1 DEF Queue
<1> QED  BY <1>2, <1>3

Retried(s, t, f) == [s EXCEPT !.txq[t].last_retry_skb = f, !.txq[t].nb_retry = @ + 1]

TakenBack(q, f) == [q EXCEPT !.last_retry_skb = f, !.nb_retry = @ + 1]

LEMMA RetriedIn ==
  ASSUME NEW m \in State, NEW t \in Txq, NEW f
  PROVE  Retried(m, t, f) = SetQ(m, t, TakenBack(m.txq[t], f))
<1> DEFINE b == m.txq[t]
<1>1. b \in Queue /\ m \in Raw
  BY DEF State, Raw
<1>2. [m EXCEPT !.txq[t].last_retry_skb = f, !.txq[t].nb_retry = @ + 1]
        = [[m EXCEPT !.txq[t].last_retry_skb = f] EXCEPT !.txq[t].nb_retry = b.nb_retry + 1]
  BY <1>1 DEF Raw, Queue
<1> HIDE DEF b
<1>9. m.txq[t] = b
  BY DEF b
<1>3. [m EXCEPT !.txq[t].last_retry_skb = f] = SetQ(m, t, [b EXCEPT !.last_retry_skb = f])
  BY <1>1, <1>9 DEF Raw, SetQ
<1> DEFINE p == [b EXCEPT !.last_retry_skb = f]
<1>4. [SetQ(m, t, p) EXCEPT !.txq[t].nb_retry = b.nb_retry + 1]
        = SetQ(SetQ(m, t, p), t, [p EXCEPT !.nb_retry = b.nb_retry + 1])
  <2> HIDE DEF p
  <2> QED  BY <1>1, <1>9 DEF Raw, SetQ
<1>5. [p EXCEPT !.nb_retry = b.nb_retry + 1] = [b EXCEPT !.last_retry_skb = f, !.nb_retry = @ + 1]
  BY <1>1 DEF Queue
<1> HIDE DEF p
<1>6. SetQ(SetQ(m, t, p), t, [p EXCEPT !.nb_retry = b.nb_retry + 1])
        = SetQ(m, t, [p EXCEPT !.nb_retry = b.nb_retry + 1])
  BY SetQTwice
<1> QED  BY <1>2, <1>3, <1>4, <1>5, <1>6, <1>9 DEF p, Retried, TakenBack

LEMMA QueuedIs ==
  ASSUME NEW s \in State, NEW t \in Txq, QueueOK(s.txq[t]), s.txq[t].active,
         NEW f \in Skb, f \notin ToSet(s.txq[t].sk_list), NEW how,
         NEW m, m = [s EXCEPT !.txq[t].pkt_ready = IF s.txq[t].ps_active THEN @ + 1 ELSE @]
  PROVE  CheckFlowCtrl(Insert(m, t, f, how), t) = SetQ(s, t, WithFrame(s.txq[t], f, how))
<1> DEFINE q == s.txq[t]
           n == Place(q, how)
           l == InsertAt(q.sk_list, n, f)
           a == [q EXCEPT !.pkt_ready = IF q.ps_active THEN @ + 1 ELSE @]
           b == [a EXCEPT !.sk_list = l]
           c == [b EXCEPT !.last_retry_skb = f, !.nb_retry = @ + 1]
           d == IF how = "retry" THEN c ELSE b
           e == [d EXCEPT !.flow = TRUE]
           w == WithFrame(q, f, how)
<1>1. q \in Queue /\ s \in Raw
  BY DEF State, Raw
<1>2. a \in Queue /\ m = SetQ(s, t, a)
  <2>1. (IF q.ps_active THEN q.pkt_ready + 1 ELSE q.pkt_ready) \in Int
    BY <1>1 DEF Queue
  <2>2. a = [q EXCEPT !.pkt_ready = IF q.ps_active THEN q.pkt_ready + 1 ELSE q.pkt_ready]
    BY <1>1 DEF Queue
  <2>3. a \in Queue
    BY <1>1, <2>1, <2>2, ReadySet
  <2>4. m = SetQ(s, t, a)
    BY <1>1 DEF Raw, SetQ
  <2> QED  BY <2>3, <2>4
<1>3. Only(m, s, t, a)
  BY <1>2, SetQIs
<1>4. a.sk_list = q.sk_list /\ a.last_retry_skb = q.last_retry_skb
  BY <1>1 DEF Queue
<1>5. (IF how = "tail" THEN Len(a.sk_list) + 1 ELSE BehindRetries(a)) = n
  BY <1>4 DEF Place, BehindRetries
<1>6. l \in Seq(Skb)
  <2>1. w \in Queue
    <3>1. QueueOK(q) /\ q.active /\ f \notin ToSet(q.sk_list)
      OBVIOUS
    <3>2. HasFrame(w, q, f)
      BY ONLY f \in Skb, <1>1, <3>1, InsertedQueue DEF w
    <3> QED  BY ONLY <3>2 DEF HasFrame
  <2>2. w.sk_list = l
    BY <1>1 DEF WithFrame, Queue
  <2> HIDE DEF w, l
  <2> QED  BY <2>1, <2>2 DEF Queue
<1> HIDE DEF n, a
<1>7. b \in Queue /\ c \in Queue /\ b.sk_list = l
  <2> HIDE DEF l
  <2>1. b \in Queue /\ b.sk_list = l
    BY <1>2, <1>6 DEF Queue
  <2> HIDE DEF b
  <2>2. c \in Queue
    BY <2>1, RetriedSet
  <2> QED  BY <2>1, <2>2
<1>8. Insert(m, t, f, how) = SetQ(m, t, d)
  <2>1. m \in Raw /\ m.txq[t] = a
    BY <1>3 DEF Only, State, Raw
  <2>2. InsertAt(a.sk_list, n, f) = l
    BY <1>4
  <2> HIDE DEF l
  <2>3. [m EXCEPT !.txq[t].sk_list = l] = SetQ(m, t, b)
    BY <2>1 DEF Raw, SetQ
  <2>4. Insert(m, t, f, how) =
          IF how = "retry" THEN [SetQ(m, t, b) EXCEPT !.txq[t].last_retry_skb = f, !.txq[t].nb_retry = @ + 1]
          ELSE SetQ(m, t, b)
    <3>1. [m EXCEPT !.txq[t].sk_list = InsertAt(@, n, f)] = [m EXCEPT !.txq[t].sk_list = l]
      BY <2>1, <2>2 DEF Raw
    <3>2. PICK at : at = IF how = "tail" THEN Len(m.txq[t].sk_list) + 1 ELSE BehindRetries(m.txq[t])
      OBVIOUS
    <3>3. at = n
      BY <1>5, <2>1, <3>2
    <3>4. Insert(m, t, f, how) =
            IF how = "retry" THEN [[m EXCEPT !.txq[t].sk_list = InsertAt(@, at, f)] EXCEPT
                                      !.txq[t].last_retry_skb = f, !.txq[t].nb_retry = @ + 1]
            ELSE [m EXCEPT !.txq[t].sk_list = InsertAt(@, at, f)]
      BY <3>2 DEF Insert
    <3> QED  BY <2>3, <3>1, <3>3, <3>4
  <2> HIDE DEF b
  <2>5. Only(SetQ(m, t, b), m, t, b)
    BY <1>3, <1>7, SetQIs DEF Only
  <2>6. [SetQ(m, t, b) EXCEPT !.txq[t].last_retry_skb = f, !.txq[t].nb_retry = @ + 1] = SetQ(SetQ(m, t, b), t, c)
    <3>1. SetQ(m, t, b) \in State /\ SetQ(m, t, b).txq[t] = b
      BY <2>5 DEF Only
    <3>2. PICK x : x = SetQ(m, t, b)
      OBVIOUS
    <3>3. x \in State /\ x.txq[t] = b
      BY <3>1, <3>2
    <3>4. Retried(x, t, f) = SetQ(x, t, TakenBack(x.txq[t], f))
      BY <3>3, RetriedIn
    <3> QED  BY <3>2, <3>3, <3>4 DEF Retried, TakenBack
  <2> HIDE DEF c
  <2>7. SetQ(SetQ(m, t, b), t, c) = SetQ(m, t, c)
    BY <1>3, SetQTwice DEF Only
  <2> QED  BY <2>4, <2>6, <2>7
<1>9. d \in Queue /\ d.sk_list = l
  <2> HIDE DEF l
  <2>1. c.sk_list = l
    BY <1>7 DEF Queue
  <2> HIDE DEF b, c
  <2> QED  BY <1>7, <2>1
<1>10. SetQ(m, t, d) = SetQ(s, t, d)
  BY <1>2, SetQTwice
<1>11. Only(SetQ(s, t, d), s, t, d)
  <2> HIDE DEF d
  <2> QED  BY <1>9, SetQIs
<1>12. CheckFlowCtrl(SetQ(s, t, d), t) = SetQ(s, t, IF Len(l) > FlowStop THEN e ELSE d)
  <2> HIDE DEF d, l
  <2>1. SetQ(s, t, d).txq[t].sk_list = l
    BY <1>9, <1>11 DEF Only
  <2>2. [SetQ(s, t, d) EXCEPT !.txq[t].flow = TRUE] = SetQ(SetQ(s, t, d), t, e)
    BY <1>11 DEF Only, State, Raw, SetQ
  <2>3. SetQ(SetQ(s, t, d), t, e) = SetQ(s, t, e)
    BY SetQTwice
  <2> QED  BY <2>1, <2>2, <2>3 DEF CheckFlowCtrl
<1>13. w = IF Len(l) > FlowStop THEN e ELSE d
  <2>1. q.flow \in BOOLEAN
    BY <1>1 DEF Queue
  <2>2. w = [q EXCEPT !.pkt_ready = IF q.ps_active THEN @ + 1 ELSE @, !.sk_list = l,
            !.last_retry_skb = IF how = "retry" THEN f ELSE @,
            !.nb_retry = IF how = "retry" THEN @ + 1 ELSE @,
            !.flow = @ \/ Len(l) > FlowStop]
    BY DEF WithFrame, n
  <2> HIDE DEF w, l, q
  <2>3. CASE how = "retry" /\ Len(l) > FlowStop
    BY <1>1, <2>1, <2>2, <2>3 DEF Queue, a
  <2>4. CASE how = "retry" /\ ~(Len(l) > FlowStop)
    BY <1>1, <2>1, <2>2, <2>4 DEF Queue, a
  <2>5. CASE how # "retry" /\ Len(l) > FlowStop
    BY <1>1, <2>1, <2>2, <2>5 DEF Queue, a
  <2>6. CASE how # "retry" /\ ~(Len(l) > FlowStop)
    BY <1>1, <2>1, <2>2, <2>6 DEF Queue, a
  <2> QED  BY <2>3, <2>4, <2>5, <2>6
<1> HIDE DEF d, e, l, w
<1> QED  BY <1>8, <1>10, <1>12, <1>13 DEF w, q

\* Service periods and stop reasons stay, and queued frames stay queued.
KeepsService(r, s) ==
  \A u \in Txq : /\ r.txq[u].ps_active = s.txq[u].ps_active
                 /\ r.txq[u].ps_id = s.txq[u].ps_id
                 /\ r.txq[u].push_limit = s.txq[u].push_limit
                 /\ r.txq[u].stop = s.txq[u].stop
                 /\ ToSet(s.txq[u].sk_list) \subseteq ToSet(r.txq[u].sk_list)

LEMMA QueueSkbGood ==
  ASSUME NEW s \in State, NEW loose, Good(s, loose), NEW t \in Txq, NEW f \in loose, NEW how,
         s.txq[t].active, s.skb[f].txq = t, s.skb[f].init_time = s.txq[t].init_time,
         NEW r, r = QueueSkb(s, t, f, how)
  PROVE  /\ r \in State /\ Good(r, loose \ {f}) /\ Soft(r, s) /\ KeepsService(r, s)
         /\ \A u \in Txq \ {t} : r.txq[u] = s.txq[u]
<1> DEFINE q == s.txq[t]
           w == WithFrame(q, f, how)
           dropped == q.ps_active /\ q.pkt_ready > PsDrop /\ f \notin Mgmt
<1>1. /\ q \in Queue /\ QueueOK(q) /\ PlaceOK(s, t) /\ s.hwq.need_processing \in BOOLEAN
  <2>1. q \in Queue /\ QueueOK(q) /\ PlaceOK(s, t) /\ s.hwq \in HwQueue
    BY StateIs DEF Good
  <2> QED  BY <2>1 DEF HwQueue
<1>2. f \in Skb /\ f \notin ToSet(q.sk_list)
  BY DEF Good, Frames
<1>3. PICK m : m = IF dropped THEN FreeSkbs(s, {f}) ELSE SetQ(s, t, w)
  OBVIOUS
<1>4. r = IF ~IsStopped(m, t) THEN AddToHwList(m, t)
          ELSE IF HasData(m, t) /\ ~IsScheduled(m, t) THEN AddToStuckCheckList(m, t)
          ELSE m
  <2>1. PICK p : p = [s EXCEPT !.txq[t].pkt_ready = IF s.txq[t].ps_active THEN @ + 1 ELSE @]
    OBVIOUS
  <2>2. CheckFlowCtrl(Insert(p, t, f, how), t) = SetQ(s, t, w)
    BY <1>1, <1>2, <2>1, QueuedIs
  <2>3. m = IF q.ps_active /\ q.pkt_ready > PsDrop /\ f \notin Mgmt THEN FreeSkbs(s, {f})
            ELSE CheckFlowCtrl(Insert(p, t, f, how), t)
    BY <1>3, <2>2
  <2> HIDE DEF w, dropped
  <2> QED  BY <2>1, <2>3 DEF QueueSkb
<1>5. CASE dropped
  <2>1. m = FreeSkbs(s, {f})
    BY <1>3, <1>5
  <2>2. /\ m \in State /\ Good(m, loose \ {f}) /\ Soft(m, s) /\ m.txq = s.txq
        /\ m.hwq = s.hwq /\ m.stuck = s.stuck
    BY <1>2, <2>1, FreeGood
  <2>3. IsStopped(m, t)
    BY <1>1, <1>5, <2>2 DEF IsStopped, QueueOK
  <2>4. IsScheduled(m, t) <=> t \in Listed(s)
    BY <2>2, StateIs, SetIs DEF IsScheduled, Listed
  <2>5. HasData(m, t) /\ ~IsScheduled(m, t) => t \in m.stuck
    BY <1>1, <2>2, <2>4, <1>5 DEF HasData, PlaceOK
  <2>6. t \in m.stuck => AddToStuckCheckList(m, t) = m
    <3>1. t \in m.stuck => m.stuck \cup {t} = m.stuck
      OBVIOUS
    <3> QED  BY <2>2, <3>1 DEF AddToStuckCheckList, State, Raw
  <2>7. r = m
    BY <1>4, <2>3, <2>5, <2>6
  <2> QED  BY <2>2, <2>7 DEF KeepsService
<1>6. CASE ~dropped
  <2>1. m = SetQ(s, t, w)
    BY <1>3, <1>6
  <2> HIDE DEF dropped
  <2>2. /\ w \in Queue /\ QueueOK(w) /\ ToSet(w.sk_list) = ToSet(q.sk_list) \cup {f}
        /\ w.sk_list # <<>> /\ w.active /\ w.active = q.active /\ w.stop = q.stop
        /\ w.init_time = q.init_time /\ w.token_pkt_num = q.token_pkt_num
        /\ w.ps_active = q.ps_active /\ w.ps_id = q.ps_id /\ w.push_limit = q.push_limit
    <3>1. HasFrame(w, q, f)
      BY ONLY <1>1, <1>2, s.txq[t].active, InsertedQueue DEF w, q
    <3> HIDE DEF w, q
    <3>2. w.active
      BY <3>1, s.txq[t].active DEF HasFrame, q
    <3> QED  BY <3>1, <3>2 DEF HasFrame
  <2> HIDE DEF w
  <2>3. /\ m \in State /\ m.txq[t] = w /\ \A u \in Txq \ {t} : m.txq[u] = s.txq[u]
        /\ m.hwq = s.hwq /\ m.skb = s.skb /\ m.ring = s.ring /\ m.stuck = s.stuck
    BY <2>1, <2>2, SetQIs DEF Only
  <2>4. /\ IsStopped(m, t) <=> q.stop # {}
        /\ HasData(m, t)
        /\ IsScheduled(m, t) <=> t \in Listed(s)
    <3>1. IsScheduled(m, t) <=> t \in Listed(s)
      BY <2>3, StateIs, SetIs DEF IsScheduled, Listed
    <3> QED  BY <2>2, <2>3, <3>1 DEF IsStopped, HasData
  <2>5. /\ r \in State /\ r.txq = m.txq /\ r.skb = s.skb /\ r.ring = s.ring /\ SameHw(r, s)
        /\ Listed(r) = IF q.stop = {} THEN Listed(s) \cup {t} ELSE Listed(s)
        /\ r.stuck = IF t \in Listed(s) THEN s.stuck
                     ELSE IF q.stop = {} THEN s.stuck \ {t} ELSE s.stuck \cup {t}
        /\ s.hwq.need_processing => r.hwq.need_processing
        /\ Listed(r) \subseteq Listed(s) \/ r.hwq.need_processing
    <3>1. CASE q.stop = {}
      <4>1. r = AddToHwList(m, t)
        BY <1>4, <2>4, <3>1
      <4>2. /\ r \in State /\ r.txq = m.txq /\ SameFrames(r, m) /\ SameHw(r, m)
            /\ Listed(r) = Listed(m) \cup {t}
            /\ r.stuck = IF t \in Listed(m) THEN m.stuck ELSE m.stuck \ {t}
            /\ r.hwq.need_processing = (m.hwq.need_processing \/ t \notin Listed(m))
        <5>1. m \in State
          BY <2>3
        <5> QED  BY ONLY <4>1, <5>1, t \in Txq, AddEffect, ZenonT(30)
      <4> QED  BY <1>1, <2>3, <3>1, <4>2, ZenonT(30) DEF SameFrames, SameHw, Listed
    <3>2. CASE q.stop # {} /\ t \notin Listed(s)
      <4>1. r = [m EXCEPT !.stuck = @ \cup {t}]
        BY <1>4, <2>4, <3>2 DEF AddToStuckCheckList
      <4>2. /\ r \in State /\ r.txq = m.txq /\ r.hwq = m.hwq /\ r.skb = m.skb /\ r.ring = m.ring
            /\ r.stuck = m.stuck \cup {t}
        BY <2>3, <4>1 DEF State, Raw
      <4> QED  BY <2>3, <3>2, <4>2 DEF SameHw, Listed
    <3>3. CASE q.stop # {} /\ t \in Listed(s)
      <4>1. r = m
        BY <1>4, <2>4, <3>3
      <4> QED  BY <2>3, <3>3, <4>1 DEF SameHw, Listed
    <3> QED  BY <3>1, <3>2, <3>3
  <2>6. PlaceOK(r, t)
    <3>1. CASE t \in Listed(s)
      <4>1. t \in Listed(r) /\ r.stuck = s.stuck
        BY <2>5, <3>1
      <4> QED  BY <1>1, <2>2, <2>3, <2>5, <3>1, <4>1 DEF PlaceOK
    <3>2. CASE t \notin Listed(s) /\ q.stop = {}
      <4>1. t \in Listed(r) /\ t \notin r.stuck /\ ~w.ps_active
        BY <1>1, <2>2, <2>5, <3>2 DEF QueueOK
      <4> QED  BY <2>2, <2>3, <2>5, <3>2, <4>1 DEF PlaceOK
    <3>3. CASE t \notin Listed(s) /\ q.stop # {}
      <4>1. t \notin Listed(r) /\ t \in r.stuck
        BY <2>5, <3>3
      <4> QED  BY <2>2, <2>3, <2>5, <3>3, <4>1 DEF PlaceOK
    <3> QED  BY <3>1, <3>2, <3>3
  <2>7. \A u \in Txq \ {t} : r.txq[u] = s.txq[u]
    BY <2>3, <2>5
  <2>11. r.txq[t] = w
    BY <2>3, <2>5
  <2>8. Good(r, loose \ {f})
    <3>0. PICK drop, put : drop = {} /\ put = {f}
      OBVIOUS
    <3>1. /\ drop \subseteq ToSet(s.txq[t].sk_list) \cup loose /\ put \subseteq loose \ drop
          /\ \A g \in put : s.skb[g].txq = t /\ s.skb[g].init_time = s.txq[t].init_time
          /\ \A g \in Skb : r.skb[g] = IF g \in drop THEN NoHdr ELSE s.skb[g]
      BY <2>5, <3>0
    <3>2. /\ r.txq[t].init_time = s.txq[t].init_time
          /\ r.txq[t].active = s.txq[t].active
          /\ r.txq[t].token_pkt_num = s.txq[t].token_pkt_num
          /\ ToSet(r.txq[t].sk_list) = (ToSet(s.txq[t].sk_list) \ drop) \cup put
          /\ QueueOK(r.txq[t])
      BY <2>2, <2>11, <3>0
    <3>3. Listed(r) \ {t} = Listed(s) \ {t} /\ r.stuck \ {t} = s.stuck \ {t}
      BY <2>5
    <3>4. r.ring = s.ring /\ SameHw(r, s) /\ r \in State
      BY <2>5
    <3>5. Good(r, loose \ (drop \cup put))
      BY ONLY s \in State, t \in Txq, Good(s, loose), <2>6, <2>7, <3>1, <3>2, <3>3, <3>4, MoveGood
    <3>6. loose \ (drop \cup put) = loose \ {f}
      BY <3>0
    <3> QED  BY <3>5, <3>6
  <2>9. Soft(r, s)
    <3>1. \A u \in Txq : /\ r.txq[u].active = s.txq[u].active
                         /\ r.txq[u].init_time = s.txq[u].init_time
                         /\ r.txq[u].token_pkt_num = s.txq[u].token_pkt_num
      BY ONLY <2>2, <2>7, <2>11, t \in Txq DEF q
    <3> QED  BY <2>5, <3>1 DEF Soft
  <2>10. KeepsService(r, s)
    BY <2>2, <2>7, <2>11 DEF KeepsService
  <2> QED  BY <2>5, <2>7, <2>8, <2>9, <2>10
<1> QED  BY <1>5, <1>6

----------------------------------------------------------------------------
(* Flushing and dropping.                                                   *)

LEMMA FreeIs ==
  ASSUME NEW s \in State, NEW dead, NEW m, m = FreeSkbs(s, dead)
  PROVE  /\ m \in State /\ m.txq = s.txq /\ m.hwq = s.hwq /\ m.ring = s.ring /\ m.stuck = s.stuck
         /\ \A g \in Skb : m.skb[g] = IF g \in dead THEN NoHdr ELSE s.skb[g]
<1>1. NoHdr \in Hdr
  BY SchedAssumption DEF SchedAssumption, NoHdr, Hdr
<1>2. s \in Raw /\ Once(s.hwq.list) /\ s.skb \in [Skb -> Hdr]
  BY DEF State, Raw
<1>3. PICK h : h = [g \in Skb |-> IF g \in dead THEN NoHdr ELSE s.skb[g]]
  OBVIOUS
<1>4. m = [s EXCEPT !.skb = h]
  BY <1>2, <1>3 DEF FreeSkbs, Raw
<1>5. h \in [Skb -> Hdr]
  BY <1>1, <1>2, <1>3
<1>6. m \in Raw
  BY <1>2, <1>4, <1>5 DEF Raw
<1>7. m.txq = s.txq /\ m.hwq = s.hwq /\ m.ring = s.ring /\ m.stuck = s.stuck /\ m.skb = h
  BY <1>2, <1>4 DEF Raw
<1> QED  BY <1>2, <1>3, <1>6, <1>7 DEF State

\* The list of a queue, its retried frames and its flow control, set together.
SetList(m, t, list, ready, last, nb, flow) ==
  [m EXCEPT !.txq[t].sk_list = list, !.txq[t].pkt_ready = ready,
            !.txq[t].last_retry_skb = last, !.txq[t].nb_retry = nb, !.txq[t].flow = flow]

WithList(q, list, ready, last, nb, flow) ==
  [q EXCEPT !.sk_list = list, !.pkt_ready = ready, !.last_retry_skb = last,
            !.nb_retry = nb, !.flow = flow]

LEMMA SetListIs ==
  ASSUME NEW m \in State, NEW t \in Txq, NEW x, NEW y, NEW z, NEW a, NEW b
  PROVE  SetList(m, t, x, y, z, a, b) = SetQ(m, t, WithList(m.txq[t], x, y, z, a, b))
<1>1. m \in Raw
  BY DEF State
<1>2. PICK p : p = [m EXCEPT !.txq[t].sk_list = x, !.txq[t].pkt_ready = y,
                             !.txq[t].last_retry_skb = z]
  OBVIOUS
<1>3. SetList(m, t, x, y, z, a, b) = [p EXCEPT !.txq[t].nb_retry = a, !.txq[t].flow = b]
  BY <1>2 DEF SetList
<1>4. PICK q : q = [m.txq[t] EXCEPT !.sk_list = x, !.pkt_ready = y, !.last_retry_skb = z]
  OBVIOUS
<1>5. p = SetQ(m, t, q)
  <2>1. PICK c : c = m.txq[t]
    OBVIOUS
  <2>2. c \in Queue
    BY <1>1, <2>1 DEF Raw
  <2> QED  BY <1>1, <1>2, <1>4, <2>1, <2>2 DEF Raw, SetQ
<1>6. [p EXCEPT !.txq[t].nb_retry = a, !.txq[t].flow = b]
        = SetQ(m, t, [q EXCEPT !.nb_retry = a, !.flow = b])
  BY ONLY <1>1, <1>5, t \in Txq DEF Raw, SetQ
<1>7. [q EXCEPT !.nb_retry = a, !.flow = b] = WithList(m.txq[t], x, y, z, a, b)
  BY <1>4 DEF WithList
<1> QED  BY <1>3, <1>6, <1>7

ListIs(p, q, x, y, z, a, b) ==
  /\ p \in Queue /\ p.sk_list = x /\ p.pkt_ready = y /\ p.last_retry_skb = z
  /\ p.nb_retry = a /\ p.flow = b
  /\ p.active = q.active /\ p.stop = q.stop /\ p.init_time = q.init_time
  /\ p.token_pkt_num = q.token_pkt_num /\ p.ps_active = q.ps_active
  /\ p.ps_id = q.ps_id /\ p.push_limit = q.push_limit /\ p.credits = q.credits
  /\ p.sp_cnt = q.sp_cnt

LEMMA ListFields ==
  ASSUME NEW q \in Queue, NEW x \in Seq(Skb), NEW y \in Int, NEW z \in Skb \cup {None},
         NEW a \in Nat, NEW b \in BOOLEAN, NEW p, p = WithList(q, x, y, z, a, b)
  PROVE  ListIs(p, q, x, y, z, a, b)
<1>1. p = [q EXCEPT !.sk_list = x, !.pkt_ready = y, !.last_retry_skb = z,
                    !.nb_retry = a, !.flow = b]
  BY DEF WithList
<1>2. p \in Queue
  BY <1>1, ZenonT(30) DEF Queue
<1> QED  BY <1>1, <1>2 DEF Queue, ListIs

\* siwifi_txq_flush.
Flushed(r, s, t) ==
  /\ r \in State /\ r.hwq = s.hwq /\ r.ring = s.ring /\ r.stuck = s.stuck
  /\ \A f \in Skb : r.skb[f] = IF f \in ToSet(s.txq[t].sk_list) THEN NoHdr ELSE s.skb[f]
  /\ \A u \in Txq \ {t} : r.txq[u] = s.txq[u]
  /\ LET p == r.txq[t]
         q == s.txq[t]
     IN  /\ p \in Queue /\ p.sk_list = <<>> /\ p.last_retry_skb = None /\ p.nb_retry = 0
         /\ p.pkt_ready = (IF q.ps_active THEN q.pkt_ready - Len(q.sk_list) ELSE q.pkt_ready)
         /\ p.flow = FALSE \/ (p.flow = q.flow /\ q.sk_list = <<>>)
         /\ p.active = q.active /\ p.stop = q.stop /\ p.init_time = q.init_time
         /\ p.token_pkt_num = q.token_pkt_num /\ p.ps_active = q.ps_active
         /\ p.ps_id = q.ps_id /\ p.push_limit = q.push_limit /\ p.credits = q.credits
         /\ p.sp_cnt = q.sp_cnt

LEMMA FlushIs ==
  ASSUME NEW s \in State, NEW t \in Txq, NEW r, r = Flush(s, t)
  PROVE  Flushed(r, s, t)
<1>1. PICK q : q = s.txq[t]
  OBVIOUS
<1>2. /\ q \in Queue /\ q.sk_list \in Seq(Skb) /\ Len(q.sk_list) \in Nat
      /\ q.sk_list = <<>> <=> Len(q.sk_list) = 0
  BY <1>1, StateIs, SetIs
<1>3. PICK m : m = FreeSkbs(s, ToSet(q.sk_list))
  OBVIOUS
<1>4. /\ m \in State /\ m.txq = s.txq /\ m.hwq = s.hwq /\ m.ring = s.ring /\ m.stuck = s.stuck
      /\ \A g \in Skb : m.skb[g] = IF g \in ToSet(q.sk_list) THEN NoHdr ELSE s.skb[g]
  BY <1>3, FreeIs
<1>5. PICK y : y = IF q.ps_active THEN q.pkt_ready - Len(q.sk_list) ELSE q.pkt_ready
  OBVIOUS
<1>6. PICK b : b = (q.flow /\ Len(q.sk_list) = 0)
  OBVIOUS
<1>7. r = SetList(m, t, <<>>, y, None, 0, b)
  <2>1. m.txq[t] = q /\ m \in Raw /\ m.txq \in [Txq -> Queue]
    BY <1>1, <1>4 DEF State, Raw
  <2>2. r = [m EXCEPT
         !.txq[t].sk_list = <<>>,
         !.txq[t].pkt_ready = IF q.ps_active THEN @ - Len(q.sk_list) ELSE @,
         !.txq[t].last_retry_skb = None,
         !.txq[t].nb_retry = 0,
         !.txq[t].flow = b]
    BY <1>1, <1>3, <1>6 DEF Flush
  <2>3. y = IF q.ps_active THEN m.txq[t].pkt_ready - Len(q.sk_list) ELSE m.txq[t].pkt_ready
    BY <1>5, <2>1
  <2>4. r = [m EXCEPT !.txq[t].sk_list = <<>>, !.txq[t].pkt_ready = y,
                      !.txq[t].last_retry_skb = None, !.txq[t].nb_retry = 0, !.txq[t].flow = b]
    BY <2>2, <2>3
  <2> QED  BY <2>4 DEF SetList
<1>8. PICK p : p = WithList(q, <<>>, y, None, 0, b)
  OBVIOUS
<1>9. r = SetQ(m, t, p)
  BY <1>1, <1>4, <1>7, <1>8, SetListIs
<1>10. <<>> \in Seq(Skb) /\ y \in Int /\ None \in Skb \cup {None} /\ 0 \in Nat /\ b \in BOOLEAN
  <2>1. q.flow \in BOOLEAN /\ q.pkt_ready \in Int
    BY <1>2 DEF Queue
  <2> QED  BY <1>2, <1>5, <1>6, <2>1
<1>11. /\ p \in Queue /\ p.sk_list = <<>> /\ p.pkt_ready = y /\ p.last_retry_skb = None
       /\ p.nb_retry = 0 /\ p.flow = b
       /\ p.active = q.active /\ p.stop = q.stop /\ p.init_time = q.init_time
       /\ p.token_pkt_num = q.token_pkt_num /\ p.ps_active = q.ps_active
       /\ p.ps_id = q.ps_id /\ p.push_limit = q.push_limit /\ p.credits = q.credits
       /\ p.sp_cnt = q.sp_cnt
  <2>1. ListIs(p, q, <<>>, y, None, 0, b)
    BY ONLY <1>2, <1>8, <1>10, ListFields
  <2> QED  BY <2>1 DEF ListIs
<1>12. Only(r, m, t, p)
  BY ONLY <1>4, <1>9, <1>11, t \in Txq, SetQIs
<1>13. b = FALSE \/ (b = q.flow /\ q.sk_list = <<>>)
  BY <1>2, <1>6 DEF Queue
<1>14. /\ r \in State /\ r.hwq = s.hwq /\ r.ring = s.ring /\ r.stuck = s.stuck /\ r.txq[t] = p
       /\ \A f \in Skb : r.skb[f] = IF f \in ToSet(q.sk_list) THEN NoHdr ELSE s.skb[f]
       /\ \A u \in Txq \ {t} : r.txq[u] = s.txq[u]
  BY <1>4, <1>12 DEF Only
<1> QED  BY <1>1, <1>5, <1>11, <1>13, <1>14 DEF Flushed

LEMMA FlushGood ==
  ASSUME NEW s \in State, NEW loose, Good(s, loose), NEW t \in Txq,
         NoFlush => t \notin Listed(s) /\ s.txq[t].push_limit = 0,
         NEW r, r = Flush(s, t)
  PROVE  /\ r \in State /\ Good(r, loose) /\ Soft(r, s) /\ Flushed(r, s, t)
<1>1. PICK q, p : q = s.txq[t] /\ p = r.txq[t]
  OBVIOUS
<1>2. Flushed(r, s, t)
  BY FlushIs
<1>3. /\ r \in State /\ r.hwq = s.hwq /\ r.ring = s.ring /\ r.stuck = s.stuck
      /\ \A f \in Skb : r.skb[f] = IF f \in ToSet(q.sk_list) THEN NoHdr ELSE s.skb[f]
      /\ \A u \in Txq \ {t} : r.txq[u] = s.txq[u]
      /\ p \in Queue /\ p.sk_list = <<>> /\ p.last_retry_skb = None /\ p.nb_retry = 0
      /\ p.pkt_ready = (IF q.ps_active THEN q.pkt_ready - Len(q.sk_list) ELSE q.pkt_ready)
      /\ p.flow = FALSE \/ (p.flow = q.flow /\ q.sk_list = <<>>)
      /\ p.active = q.active /\ p.stop = q.stop /\ p.init_time = q.init_time
      /\ p.token_pkt_num = q.token_pkt_num /\ p.ps_active = q.ps_active
      /\ p.ps_id = q.ps_id /\ p.push_limit = q.push_limit /\ p.credits = q.credits
      /\ p.sp_cnt = q.sp_cnt
  BY <1>1, <1>2 DEF Flushed
<1>4. /\ q \in Queue /\ QueueOK(q) /\ PlaceOK(s, t) /\ q.sk_list \in Seq(Skb)
      /\ Len(q.sk_list) \in Nat /\ q.pkt_ready \in Int /\ p.push_limit \in Nat
  BY <1>1, <1>3, StateIs DEF Good, Queue
<1>5. QueueOK(p)
  <2>1. p.pkt_ready >= 0 /\ (p.ps_active => p.pkt_ready = Len(p.sk_list))
    BY <1>3, <1>4, NoneIn, SetIs DEF QueueOK
  <2>2. Once(p.sk_list) /\ Len(p.sk_list) = 0
    BY <1>3, NoneIn
  <2>3. FlowRestart # 0 /\ p.flow => p.sk_list # <<>>
    BY <1>3, <1>4 DEF QueueOK
  <2>4. NoFlush /\ p.active => p.push_limit <= Len(p.sk_list)
    BY <1>1, <1>3, <2>2
  <2> QED  BY <1>3, <1>4, <2>1, <2>2, <2>3, <2>4 DEF QueueOK
<1>6. Listed(r) = Listed(s)
  BY <1>3 DEF Listed
<1>7. PlaceOK(r, t)
  BY <1>1, <1>3, <1>4, <1>6 DEF PlaceOK
<1>8. Soft(r, s)
  <2>1. \A u \in Txq : /\ r.txq[u].active = s.txq[u].active
                       /\ r.txq[u].init_time = s.txq[u].init_time
                       /\ r.txq[u].token_pkt_num = s.txq[u].token_pkt_num
    BY <1>1, <1>3
  <2> QED  BY <1>3, <1>6, <2>1 DEF Soft, SameHw
<1>9. Good(r, loose)
  <2>1. PICK drop, put : drop = ToSet(q.sk_list) /\ put = {}
    OBVIOUS
  <2>2. \A f \in drop : f \notin loose
    BY <1>1, <2>1 DEF Good, Frames
  <2>3. /\ drop \subseteq ToSet(s.txq[t].sk_list) \cup loose /\ put \subseteq loose \ drop
        /\ \A g \in put : s.skb[g].txq = t /\ s.skb[g].init_time = s.txq[t].init_time
        /\ \A g \in Skb : r.skb[g] = IF g \in drop THEN NoHdr ELSE s.skb[g]
    BY <1>1, <1>3, <2>1
  <2>4. /\ r.txq[t].init_time = s.txq[t].init_time
        /\ r.txq[t].active = s.txq[t].active
        /\ r.txq[t].token_pkt_num = s.txq[t].token_pkt_num
        /\ QueueOK(r.txq[t])
    BY <1>1, <1>3, <1>5
  <2>5. ToSet(r.txq[t].sk_list) = (ToSet(s.txq[t].sk_list) \ drop) \cup put
    BY <1>1, <1>3, <2>1, NoneIn
  <2>6. Listed(r) \ {t} = Listed(s) \ {t} /\ r.stuck \ {t} = s.stuck \ {t}
    BY <1>3, <1>6
  <2>7. r.ring = s.ring /\ SameHw(r, s) /\ r \in State /\ \A u \in Txq \ {t} : r.txq[u] = s.txq[u]
    BY <1>3 DEF SameHw
  <2>8. Good(r, loose \ (drop \cup put))
    BY ONLY s \in State, t \in Txq, Good(s, loose), <1>7, <2>3, <2>4, <2>5, <2>6, <2>7, MoveGood
  <2>9. loose \ (drop \cup put) = loose
    BY <2>1, <2>2
  <2> QED  BY <2>8, <2>9
<1> QED  BY <1>2, <1>3, <1>8, <1>9

\* siwifi_ps_drop_skb, of a queue whose retried frames lead it.
Leads(q) ==
  /\ Once(q.sk_list) /\ q.nb_retry <= Len(q.sk_list)
  /\ q.last_retry_skb = IF q.nb_retry = 0 THEN None ELSE q.sk_list[q.nb_retry]

DroppedQ(p, q, dead) ==
  /\ p \in Queue /\ Leads(p) /\ p.flow = FALSE
  /\ dead \subseteq ToSet(q.sk_list) /\ ToSet(p.sk_list) = ToSet(q.sk_list) \ dead
  /\ p.active = q.active /\ p.stop = q.stop /\ p.init_time = q.init_time
  /\ p.token_pkt_num = q.token_pkt_num /\ p.ps_active = q.ps_active
  /\ p.ps_id = q.ps_id /\ p.push_limit = q.push_limit /\ p.credits = q.credits
  /\ p.sp_cnt = q.sp_cnt

Dropped(r, s, t, dead) ==
  /\ r \in State /\ r.hwq = s.hwq /\ r.ring = s.ring /\ r.stuck = s.stuck
  /\ \A f \in Skb : r.skb[f] = IF f \in dead THEN NoHdr ELSE s.skb[f]
  /\ \A u \in Txq \ {t} : r.txq[u] = s.txq[u]
  /\ DroppedQ(r.txq[t], s.txq[t], dead)

SetDrop(m, t, list, nb, last, flow) ==
  [m EXCEPT !.txq[t].sk_list = list, !.txq[t].nb_retry = nb,
            !.txq[t].last_retry_skb = last, !.txq[t].flow = flow]

LEMMA SetDropIs ==
  ASSUME NEW m \in State, NEW t \in Txq, NEW x, NEW a, NEW z, NEW w
  PROVE  SetDrop(m, t, x, a, z, w)
           = SetQ(m, t, WithList(m.txq[t], x, m.txq[t].pkt_ready, z, a, w))
<1>1. m \in Raw
  BY DEF State
<1>2. PICK p : p = [m EXCEPT !.txq[t].sk_list = x, !.txq[t].nb_retry = a]
  OBVIOUS
<1>3. SetDrop(m, t, x, a, z, w) = [p EXCEPT !.txq[t].last_retry_skb = z, !.txq[t].flow = w]
  BY <1>2 DEF SetDrop
<1>0. PICK c : c = m.txq[t]
  OBVIOUS
<1>00. c \in Queue
  BY <1>0, <1>1 DEF Raw
<1>4. PICK q : q = [c EXCEPT !.sk_list = x, !.nb_retry = a]
  OBVIOUS
<1>5. p = SetQ(m, t, q)
  BY <1>1, <1>2, <1>4, <1>0, <1>00 DEF Raw, SetQ
<1>6. [p EXCEPT !.txq[t].last_retry_skb = z, !.txq[t].flow = w]
        = SetQ(m, t, [q EXCEPT !.last_retry_skb = z, !.flow = w])
  BY ONLY <1>1, <1>5, t \in Txq DEF Raw, SetQ
<1>7. [q EXCEPT !.last_retry_skb = z, !.flow = w] = WithList(c, x, c.pkt_ready, z, a, w)
  BY ONLY <1>4, <1>00 DEF WithList, Queue
<1> QED  BY <1>0, <1>3, <1>6, <1>7

LEMMA DropIs ==
  ASSUME NEW s \in State, NEW t \in Txq, Leads(s.txq[t]), NEW r, r = PsDropSkb(s, t)
  PROVE  \E dead : Dropped(r, s, t, dead)
<1>1. PICK q : q = s.txq[t]
  OBVIOUS
<1>2. PICK n : n = Len(q.sk_list)
  OBVIOUS
<1>3. PICK drop : drop = IF n > FlowRestart THEN n - FlowRestart ELSE IF n > 0 THEN 1 ELSE 0
  OBVIOUS
<1>4. PICK nb : nb = IF q.nb_retry > drop THEN q.nb_retry - drop ELSE 0
  OBVIOUS
<1>5. PICK z : z = IF nb = 0 \/ drop = n THEN None ELSE q.last_retry_skb
  OBVIOUS
<1>0. PICK w : w = FALSE
  OBVIOUS
<1>6. PICK a, b : a = SubSeq(q.sk_list, 1, drop) /\ b = SubSeq(q.sk_list, drop + 1, n)
  OBVIOUS
<1>7. PICK m : m = FreeSkbs(s, ToSet(a))
  OBVIOUS
<1>8. q \in Queue /\ q.sk_list \in Seq(Skb) /\ n \in Nat /\ q.nb_retry \in Nat /\ q.pkt_ready \in Int
      /\ q.last_retry_skb \in Skb \cup {None}
  <2>1. q \in Queue /\ q.sk_list \in Seq(Skb) /\ n \in Nat
    BY <1>1, <1>2, StateIs
  <2> QED  BY <2>1 DEF Queue
<1>9. drop \in 0 .. n /\ nb \in Nat
  BY <1>3, <1>4, <1>8, SchedAssumption DEF SchedAssumption
<1>10. /\ b \in Seq(Skb) /\ Len(b) = n - drop /\ \A i \in 1 .. n - drop : b[i] = q.sk_list[i + drop]
       /\ ToSet(q.sk_list) = ToSet(a) \cup ToSet(b) /\ Once(b) /\ ToSet(a) \cap ToSet(b) = {}
  <2>1. Once(q.sk_list)
    BY <1>1 DEF Leads
  <2> QED  BY <1>2, <1>6, <1>8, <1>9, <2>1, Cut
<1>11. /\ m \in State /\ m.txq = s.txq /\ m.hwq = s.hwq /\ m.ring = s.ring /\ m.stuck = s.stuck
       /\ \A g \in Skb : m.skb[g] = IF g \in ToSet(a) THEN NoHdr ELSE s.skb[g]
  BY <1>7, FreeIs
<1>12. r = SetDrop(m, t, b, nb, z, w)
  <2>1. m.txq[t] = q
    BY <1>1, <1>11
  <2>2. r = [m EXCEPT !.txq[t].sk_list = b, !.txq[t].nb_retry = nb,
               !.txq[t].last_retry_skb = IF nb = 0 \/ drop = n THEN None ELSE @,
               !.txq[t].flow = FALSE]
    BY <1>1, <1>2, <1>3, <1>4, <1>6, <1>7 DEF PsDropSkb
  <2>3. z = IF nb = 0 \/ drop = n THEN None ELSE m.txq[t].last_retry_skb
    BY <1>5, <2>1
  <2> QED  BY <1>0, <2>2, <2>3 DEF SetDrop
<1>13. PICK p : p = WithList(q, b, q.pkt_ready, z, nb, w)
  OBVIOUS
<1>14. r = SetQ(m, t, p)
  <2>1. SetDrop(m, t, b, nb, z, w)
          = SetQ(m, t, WithList(m.txq[t], b, m.txq[t].pkt_ready, z, nb, w))
    BY ONLY <1>11, t \in Txq, SetDropIs
  <2> QED  BY ONLY <1>1, <1>11, <1>12, <1>13, <2>1
<1>15. z \in Skb \cup {None} /\ w \in BOOLEAN
  BY <1>0, <1>5, <1>8
<1>16. ListIs(p, q, b, q.pkt_ready, z, nb, w)
  BY ONLY <1>8, <1>9, <1>10, <1>13, <1>15, ListFields
<1>17. Only(r, m, t, p)
  <2>1. p \in Queue
    BY <1>16 DEF ListIs
  <2> QED  BY ONLY <1>11, <1>14, <2>1, t \in Txq, SetQIs
<1>18. Leads(p)
  <2>1. Once(p.sk_list) /\ Len(p.sk_list) = n - drop /\ p.nb_retry = nb /\ p.last_retry_skb = z
        /\ p.sk_list = b
    BY <1>10, <1>16 DEF ListIs
  <2>2. q.nb_retry <= n /\ q.last_retry_skb = IF q.nb_retry = 0 THEN None ELSE q.sk_list[q.nb_retry]
    BY <1>1, <1>2 DEF Leads
  <2>3. nb <= n - drop
    BY <1>4, <1>8, <1>9, <2>2
  <2>4. CASE nb = 0
    BY <1>5, <2>1, <2>3, <2>4 DEF Leads
  <2>5. CASE nb # 0
    <3>1. nb = q.nb_retry - drop /\ nb \in 1 .. n - drop /\ drop # n
      BY <1>4, <1>8, <1>9, <2>3, <2>5
    <3>2. b[nb] = q.sk_list[nb + drop] /\ nb + drop = q.nb_retry
      BY <1>8, <1>9, <1>10, <3>1
    <3>3. z = q.sk_list[q.nb_retry]
      BY <1>5, <1>8, <1>9, <2>2, <2>5, <3>1
    <3> QED  BY <2>1, <2>3, <2>5, <3>2, <3>3 DEF Leads
  <2> QED  BY <2>4, <2>5
<1>19. DroppedQ(p, q, ToSet(a))
  BY <1>0, <1>10, <1>16, <1>18 DEF DroppedQ, ListIs
<1>20. Dropped(r, s, t, ToSet(a))
  BY <1>1, <1>11, <1>17, <1>19 DEF Dropped, Only
<1> QED  BY <1>20

----------------------------------------------------------------------------
(* Power save on, off, and a station's requests for its frames.            *)

LEMMA ReadyIs ==
  ASSUME NEW k \in State, NEW t \in Txq, NEW n \in Int
  PROVE  /\ [k EXCEPT !.txq[t].pkt_ready = n] = SetQ(k, t, [k.txq[t] EXCEPT !.pkt_ready = n])
         /\ [k.txq[t] EXCEPT !.pkt_ready = n] \in Queue
<1>1. k \in Raw /\ k.txq[t] \in Queue
  BY DEF State, Raw
<1>2. [k.txq[t] EXCEPT !.pkt_ready = n] \in Queue
  BY ONLY <1>1, n \in Int DEF Queue
<1>3. [k EXCEPT !.txq[t].pkt_ready = n] = SetQ(k, t, [k.txq[t] EXCEPT !.pkt_ready = n])
  BY ONLY <1>1, t \in Txq DEF Raw, SetQ
<1> QED  BY <1>2, <1>3

LEMMA PsEnableGood ==
  ASSUME NEW s \in State, NEW loose, Good(s, loose), NEW t \in Txq, s.txq[t].active,
         ~s.txq[t].ps_active, "ON" \in PsStates, NEW r, r = PsEnable(s, t)
  PROVE  r \in State /\ Good(r, loose) /\ Soft(r, s) /\ Stays(r, s)
<1>1. PICK q : q = s.txq[t]
  OBVIOUS
<1>2. q \in Queue /\ QueueOK(q) /\ PlaceOK(s, t) /\ q.active /\ ~q.ps_active
  BY <1>1, StateIs DEF Good
<1>3. PICK q1 : q1 = [q EXCEPT !.ps_active = TRUE, !.sp_cnt = 0]
  OBVIOUS
<1>4. /\ q1 \in Queue /\ q1.ps_active = TRUE /\ q1.sp_cnt = 0
      /\ q1.active = q.active /\ q1.flow = q.flow /\ q1.stop = q.stop /\ q1.credits = q.credits
      /\ q1.sk_list = q.sk_list /\ q1.last_retry_skb = q.last_retry_skb
      /\ q1.nb_retry = q.nb_retry /\ q1.push_limit = q.push_limit
      /\ q1.token_pkt_num = q.token_pkt_num /\ q1.init_time = q.init_time
      /\ q1.ps_id = q.ps_id
  <2>1. q1 \in Queue
    <3>1. PICK w : w = TRUE
      OBVIOUS
    <3>2. w \in BOOLEAN /\ 0 \in Int /\ q1 = [q EXCEPT !.ps_active = w, !.sp_cnt = 0]
      BY <1>3, <3>1
    <3> QED  BY ONLY <1>2, <3>2 DEF Queue
  <2> QED  BY ONLY <1>2, <1>3, <2>1 DEF Queue
<1>5. PICK s1 : s1 = SetQ(s, t, q1)
  OBVIOUS
<1>6. [s EXCEPT !.txq[t].ps_active = TRUE, !.txq[t].sp_cnt = 0] = s1
  <2>1. s \in Raw
    BY DEF State
  <2> QED  BY <1>1, <1>2, <1>3, <1>5, <2>1 DEF Raw, SetQ
<1>7. Only(s1, s, t, q1)
  BY ONLY <1>4, <1>5, s \in State, t \in Txq, SetQIs
<1>8. PICK r1 : r1 = Stop(s1, t, "STA_PS")
  OBVIOUS
<1>9. Stopped(r1, s1, t, "STA_PS")
  <2>1. s1 \in State /\ s1.txq[t].active /\ "STA_PS" \in Stops
    BY <1>2, <1>4, <1>7, Names DEF Only
  <2> QED  BY <1>8, <2>1, StopEffect
<1>10. PICK k : k = IF r1.txq[t].flow THEN PsDropSkb(r1, t) ELSE r1
  OBVIOUS
<1>11. PICK n : n = Len(k.txq[t].sk_list)
  OBVIOUS
<1>12. r = [k EXCEPT !.txq[t].pkt_ready = n]
  <2>1. r = [k EXCEPT !.txq[t].pkt_ready = Len(k.txq[t].sk_list)]
    <3> DEFINE x == Stop([s EXCEPT !.txq[t].ps_active = TRUE, !.txq[t].sp_cnt = 0], t, "STA_PS")
               y == IF x.txq[t].flow THEN PsDropSkb(x, t) ELSE x
    <3>1. r = [y EXCEPT !.txq[t].pkt_ready = Len(y.txq[t].sk_list)]
      BY DEF PsEnable
    <3>2. x = r1
      BY <1>6, <1>8
    <3> HIDE DEF x
    <3>3. y = k
      BY <1>10, <3>2
    <3> HIDE DEF y
    <3> QED  BY <3>1, <3>3
  <2> QED  BY <1>11, <2>1
<1>13. PICK q2 : q2 = r1.txq[t]
  OBVIOUS
<1>14. /\ q2 \in Queue /\ q2.stop = q.stop \cup {"STA_PS"} /\ q2.ps_active = TRUE
       /\ q2.sp_cnt = 0 /\ q2.active = q.active /\ q2.flow = q.flow
       /\ q2.credits = q.credits /\ q2.sk_list = q.sk_list
       /\ q2.last_retry_skb = q.last_retry_skb /\ q2.nb_retry = q.nb_retry
       /\ q2.push_limit = q.push_limit /\ q2.token_pkt_num = q.token_pkt_num
       /\ q2.init_time = q.init_time /\ q2.ps_id = q.ps_id
  <2>1. q2 = [q1 EXCEPT !.stop = @ \cup {"STA_PS"}]
    BY <1>7, <1>9, <1>13 DEF Stopped, Only
  <2>2. q2 \in Queue
    BY <1>9, <1>13, StateIs DEF Stopped
  <2> QED  BY <1>4, <2>1, <2>2 DEF Queue
<1>15. PICK dead : Dropped(k, r1, t, dead)
  <2>1. Leads(q2)
    BY <1>2, <1>14 DEF Leads, QueueOK
  <2>2. r1 \in State
    BY <1>9 DEF Stopped
  <2>3. CASE q2.flow
    <3>1. k = PsDropSkb(r1, t)
      BY <1>10, <1>13, <2>3
    <3> QED  BY <1>13, <2>1, <2>2, <3>1, DropIs
  <2>4. CASE ~q2.flow
    <3>1. k = r1
      BY <1>10, <1>13, <2>4
    <3>2. q2.flow = FALSE
      BY <1>14, <2>4 DEF Queue
    <3>3. DroppedQ(q2, q2, {})
      BY <1>14, <2>1, <3>2 DEF DroppedQ
    <3>4. Dropped(k, r1, t, {})
      BY <1>13, <2>2, <3>1, <3>3 DEF Dropped
    <3> QED  BY <3>4
  <2> QED  BY <2>3, <2>4
<1>16. PICK q3 : q3 = k.txq[t]
  OBVIOUS
<1>17. /\ k \in State /\ k.hwq = r1.hwq /\ k.ring = r1.ring /\ k.stuck = r1.stuck
       /\ \A f \in Skb : k.skb[f] = IF f \in dead THEN NoHdr ELSE r1.skb[f]
       /\ \A u \in Txq \ {t} : k.txq[u] = r1.txq[u]
       /\ q3 \in Queue /\ Leads(q3) /\ q3.flow = FALSE
       /\ dead \subseteq ToSet(q2.sk_list) /\ ToSet(q3.sk_list) = ToSet(q2.sk_list) \ dead
       /\ q3.active = q2.active /\ q3.stop = q2.stop /\ q3.init_time = q2.init_time
       /\ q3.token_pkt_num = q2.token_pkt_num /\ q3.ps_active = q2.ps_active
       /\ q3.ps_id = q2.ps_id /\ q3.push_limit = q2.push_limit /\ q3.credits = q2.credits
       /\ q3.sp_cnt = q2.sp_cnt
  BY <1>13, <1>15, <1>16 DEF Dropped, DroppedQ
<1>18. n \in Nat
  BY <1>11, <1>17, StateIs
<1>19. PICK p : p = [q3 EXCEPT !.pkt_ready = n]
  OBVIOUS
<1>20. p \in Queue /\ r = SetQ(k, t, p)
  BY <1>12, <1>16, <1>17, <1>18, <1>19, ReadyIs
<1>21. Only(r, k, t, p)
  BY ONLY <1>17, <1>20, t \in Txq, SetQIs
<1>22. /\ p.pkt_ready = n /\ p.active = q.active /\ p.flow = FALSE /\ p.ps_active = TRUE
       /\ p.stop = q.stop \cup {"STA_PS"} /\ p.credits = q.credits /\ p.sk_list = q3.sk_list
       /\ p.last_retry_skb = q3.last_retry_skb /\ p.nb_retry = q3.nb_retry
       /\ p.push_limit = q.push_limit /\ p.token_pkt_num = q.token_pkt_num
       /\ p.init_time = q.init_time /\ p.ps_id = q.ps_id /\ p.sp_cnt = 0
  <2>1. /\ p.pkt_ready = n /\ p.active = q3.active /\ p.flow = q3.flow
        /\ p.ps_active = q3.ps_active /\ p.stop = q3.stop /\ p.credits = q3.credits
        /\ p.sk_list = q3.sk_list /\ p.last_retry_skb = q3.last_retry_skb
        /\ p.nb_retry = q3.nb_retry /\ p.push_limit = q3.push_limit
        /\ p.token_pkt_num = q3.token_pkt_num /\ p.init_time = q3.init_time
        /\ p.ps_id = q3.ps_id /\ p.sp_cnt = q3.sp_cnt
    BY ONLY <1>17, <1>19 DEF Queue
  <2> QED  BY <1>14, <1>17, <2>1
<1>23. q.push_limit = 0
  <2>1. q.push_limit \in Nat
    BY <1>2 DEF Queue
  <2> QED  BY <1>2, <2>1 DEF QueueOK
<1>24. QueueOK(p)
  <2>1. n = Len(p.sk_list) /\ Leads(q3)
    BY <1>11, <1>16, <1>17, <1>22
  <2>2. p.active => ("FULL" \in p.stop <=> p.credits <= 0)
    BY <1>2, <1>22 DEF QueueOK
  <2> QED  BY <1>2, <1>18, <1>22, <1>23, <2>1, <2>2 DEF QueueOK, Leads
<1>25. /\ r \in State /\ r.ring = s.ring /\ SameHw(r, s)
       /\ \A f \in Skb : r.skb[f] = IF f \in dead THEN NoHdr ELSE s.skb[f]
       /\ \A u \in Txq \ {t} : r.txq[u] = s.txq[u]
       /\ r.txq[t] = p
       /\ Listed(r) = Listed(s) \ {t}
       /\ r.stuck = IF t \in Listed(s) /\ q.sk_list # <<>> THEN s.stuck \cup {t} ELSE s.stuck
       /\ r.hwq.need_processing = s.hwq.need_processing
  <2>1. /\ r.hwq = r1.hwq /\ r.ring = r1.ring /\ r.stuck = r1.stuck /\ r \in State
        /\ \A f \in Skb : r.skb[f] = IF f \in dead THEN NoHdr ELSE r1.skb[f]
        /\ \A u \in Txq \ {t} : r.txq[u] = r1.txq[u]
        /\ r.txq[t] = p
    BY <1>17, <1>21 DEF Only
  <2>2. /\ r1.ring = s1.ring /\ r1.skb = s1.skb /\ SameHw(r1, s1)
        /\ \A u \in Txq \ {t} : r1.txq[u] = s1.txq[u]
        /\ Listed(r1) = Listed(s1) \ {t}
        /\ r1.stuck = IF t \in Listed(s1) /\ s1.txq[t].sk_list # <<>> THEN s1.stuck \cup {t} ELSE s1.stuck
        /\ r1.hwq.need_processing = s1.hwq.need_processing
    BY <1>9 DEF Stopped, SameFrames
  <2>3. /\ s1.txq[t] = q1 /\ \A u \in Txq \ {t} : s1.txq[u] = s.txq[u]
        /\ s1.hwq = s.hwq /\ s1.skb = s.skb /\ s1.ring = s.ring /\ s1.stuck = s.stuck
    BY <1>7 DEF Only
  <2>4. SameHw(r, s) /\ Listed(r) = Listed(s) \ {t} /\ r.hwq.need_processing = s.hwq.need_processing
    BY <2>1, <2>2, <2>3 DEF SameHw, Listed
  <2> QED  BY <1>4, <2>1, <2>2, <2>3, <2>4 DEF Listed
<1>26. p.sk_list # <<>> => q.sk_list # <<>>
  <2>1. ToSet(p.sk_list) \subseteq ToSet(q.sk_list) /\ p.sk_list \in Seq(Skb) /\ q.sk_list \in Seq(Skb)
    BY <1>1, <1>14, <1>17, <1>22, <1>25, StateIs
  <2>2. ToSet(q.sk_list) = {} => ToSet(p.sk_list) = {}
    BY <2>1
  <2>3. (ToSet(p.sk_list) = {} <=> p.sk_list = <<>>) /\ (ToSet(q.sk_list) = {} <=> q.sk_list = <<>>)
    BY ONLY <2>1, SetIs, SMTT(30)
  <2> QED  BY <2>2, <2>3
<1>27. PlaceOK(r, t)
  BY <1>1, <1>2, <1>22, <1>25, <1>26 DEF PlaceOK
<1>28. Soft(r, s) /\ Stays(r, s)
  <2>1. \A u \in Txq : /\ r.txq[u].active = s.txq[u].active
                       /\ r.txq[u].init_time = s.txq[u].init_time
                       /\ r.txq[u].token_pkt_num = s.txq[u].token_pkt_num
                       /\ s.txq[u].stop \subseteq r.txq[u].stop
    BY <1>1, <1>22, <1>25
  <2> QED  BY <1>25, <2>1 DEF Soft, Stays
<1>29. Good(r, loose)
  <2>1. PICK put : put = {}
    OBVIOUS
  <2>2. \A f \in dead : f \notin loose
    BY <1>1, <1>14, <1>17 DEF Good, Frames
  <2>3. /\ dead \subseteq ToSet(s.txq[t].sk_list) \cup loose /\ put \subseteq loose \ dead
        /\ \A g \in put : s.skb[g].txq = t /\ s.skb[g].init_time = s.txq[t].init_time
        /\ \A g \in Skb : r.skb[g] = IF g \in dead THEN NoHdr ELSE s.skb[g]
    BY <1>1, <1>14, <1>17, <1>25, <2>1
  <2>4. /\ r.txq[t].init_time = s.txq[t].init_time
        /\ r.txq[t].active = s.txq[t].active
        /\ r.txq[t].token_pkt_num = s.txq[t].token_pkt_num
        /\ QueueOK(r.txq[t])
    BY <1>1, <1>22, <1>24, <1>25
  <2>5. ToSet(r.txq[t].sk_list) = (ToSet(s.txq[t].sk_list) \ dead) \cup put
    BY <1>1, <1>14, <1>17, <1>22, <1>25, <2>1
  <2>6. Listed(r) \ {t} = Listed(s) \ {t} /\ r.stuck \ {t} = s.stuck \ {t}
    BY <1>25
  <2>7. r.ring = s.ring /\ SameHw(r, s) /\ r \in State /\ \A u \in Txq \ {t} : r.txq[u] = s.txq[u]
    BY <1>25
  <2>8. Good(r, loose \ (dead \cup put))
    BY ONLY s \in State, t \in Txq, Good(s, loose), <1>27, <2>3, <2>4, <2>5, <2>6, <2>7, MoveGood
  <2>9. loose \ (dead \cup put) = loose
    BY <2>1, <2>2
  <2> QED  BY <2>8, <2>9
<1> QED  BY <1>25, <1>28, <1>29

\* A station that is awake no longer stops its queue.
LEMMA WakeGood ==
  ASSUME NEW s \in State, NEW loose, Good(s, loose), NEW t \in Txq, s.txq[t].active,
         ~s.txq[t].ps_active, NEW r, r = Start(s, t, "STA_PS")
  PROVE  r \in State /\ Good(r, loose) /\ Soft(r, s) /\ Stays(r, s)
<1>1. PICK q, p : q = s.txq[t] /\ p = r.txq[t]
  OBVIOUS
<1>2. /\ q \in Queue /\ QueueOK(q) /\ PlaceOK(s, t) /\ s.hwq.need_processing \in BOOLEAN
      /\ q.active /\ ~q.ps_active
  <2>1. q \in Queue /\ QueueOK(q) /\ PlaceOK(s, t) /\ s.hwq \in HwQueue
    BY <1>1, StateIs DEF Good
  <2> QED  BY <1>1, <2>1 DEF HwQueue
<1>3. PICK run : run = Runs(s, t, "STA_PS")
  OBVIOUS
<1>4. Started(r, s, t, "STA_PS", run)
  BY <1>3, Names, StartEffect
<1>5. run <=> q.stop = {"STA_PS"} /\ q.sk_list # <<>>
  BY <1>1, <1>3 DEF Runs
<1>6. /\ r \in State /\ SameFrames(r, s) /\ SameHw(r, s)
      /\ p = [q EXCEPT !.stop = @ \ {"STA_PS"}]
      /\ \A u \in Txq \ {t} : r.txq[u] = s.txq[u]
      /\ Listed(r) = IF run THEN Listed(s) \cup {t} ELSE Listed(s)
      /\ r.stuck = IF run /\ t \notin Listed(s) THEN s.stuck \ {t} ELSE s.stuck
      /\ r.hwq.need_processing = (s.hwq.need_processing \/ (run /\ t \notin Listed(s)))
  BY <1>1, <1>4 DEF Started
<1>7. p = WithStop(q, q.stop \ {"STA_PS"})
  BY <1>2, <1>6 DEF WithStop, Queue
<1>8. SameQueue(p, q) /\ p.stop = q.stop \ {"STA_PS"} /\ p.credits = q.credits
  <2>1. SameQueue(q, q)
    BY DEF SameQueue
  <2> QED  BY <1>2, <1>7, <2>1, StopFields
<1>9. /\ p.active /\ ~p.ps_active /\ p.sk_list = q.sk_list
  BY <1>2, <1>8 DEF SameQueue
<1>10. QueueOK(p)
  <2>1. p.active => ("FULL" \in p.stop <=> p.credits <= 0)
    BY <1>2, <1>8 DEF QueueOK
  <2> QED  BY <1>2, <1>8, <1>9, <2>1, SameIsOK
<1>11. PlaceOK(r, t)
  <2>1. /\ s.txq[t].active /\ r.txq[t].active /\ r.txq[t].sk_list = s.txq[t].sk_list
        /\ r.txq[t].stop = s.txq[t].stop \ {"STA_PS"} /\ ~r.txq[t].ps_active
        /\ run <=> s.txq[t].stop = {"STA_PS"} /\ s.txq[t].sk_list # <<>>
    BY <1>1, <1>5, <1>8, <1>9
  <2> QED  BY ONLY <1>2, <1>6, <2>1, s \in State, t \in Txq, PlaceStarted
<1>12. QueueMoved(r, s, t)
  BY <1>2, <1>6 DEF QueueMoved
<1>13. Good(r, loose) /\ Gentle(r, s)
  BY <1>1, <1>8, <1>10, <1>11, <1>12, MovedGood
<1>14. Stays(r, s)
  BY <1>1, <1>6, <1>8 DEF Stays
<1> QED  BY <1>6, <1>13, <1>14, GentleIsSoft

LEMMA UnwatchGood ==
  ASSUME NEW s \in State, NEW loose, Good(s, loose), NEW t \in Txq, s.txq[t].sk_list = <<>>,
         NEW r, r = DelFromStuckCheckList(s, t)
  PROVE  r \in State /\ Good(r, loose) /\ Soft(r, s) /\ r.txq = s.txq
<1>1. /\ r \in State /\ r.txq = s.txq /\ r.hwq = s.hwq /\ r.skb = s.skb /\ r.ring = s.ring
      /\ r.stuck = s.stuck \ {t}
  BY DEF DelFromStuckCheckList, State, Raw
<1>2. /\ Listed(r) = Listed(s) /\ SameFrames(r, s) /\ SameHw(r, s)
  BY <1>1 DEF Listed, SameFrames, SameHw
<1>3. QueueOK(r.txq[t])
  BY <1>1 DEF Good
<1>4. PlaceOK(r, t)
  BY <1>1, <1>2 DEF Good, PlaceOK
<1>5. Good(r, loose)
  BY <1>1, <1>2, <1>3, <1>4, StatusOnly
<1> QED  BY <1>1, <1>2, <1>5 DEF Soft

\* siwifi_set_traffic_status and siwifi_ps_bh_enable: a service period is set.
LEMMA AwakeIs ==
  ASSUME NEW s \in State, NEW loose, Good(s, loose), NEW t \in Txq, s.txq[t].active,
         NEW r, r = [s EXCEPT !.txq[t].ps_active = FALSE, !.txq[t].push_limit = 0]
  PROVE  /\ r \in State /\ Good(r, loose) /\ Soft(r, s) /\ Stays(r, s)
         /\ ~r.txq[t].ps_active /\ r.txq[t].push_limit = 0 /\ r.txq[t].active
<1>1. PICK q : q = s.txq[t]
  OBVIOUS
<1>2. q \in Queue /\ QueueOK(q) /\ PlaceOK(s, t) /\ q.active /\ s \in Raw
  BY <1>1, StateIs DEF Good, State
<1>3. PICK w, z : w = FALSE /\ z = 0
  OBVIOUS
<1>4. PICK p : p = [q EXCEPT !.ps_active = w, !.push_limit = z]
  OBVIOUS
<1>5. p \in Queue
  <2>1. w \in BOOLEAN /\ z \in Nat
    BY <1>3
  <2> QED  BY ONLY <1>2, <1>4, <2>1 DEF Queue
<1>6. r = SetQ(s, t, p)
  <2>1. r = [s EXCEPT !.txq[t].ps_active = w, !.txq[t].push_limit = z]
    BY <1>3
  <2> QED  BY ONLY <1>1, <1>2, <1>4, <2>1, t \in Txq DEF Raw, SetQ
<1>7. Only(r, s, t, p)
  BY ONLY <1>5, <1>6, s \in State, t \in Txq, SetQIs
<1>8. /\ p.ps_active = w /\ p.push_limit = z /\ p.sp_cnt = q.sp_cnt
      /\ p.active = q.active /\ p.flow = q.flow /\ p.stop = q.stop /\ p.credits = q.credits
      /\ p.sk_list = q.sk_list /\ p.last_retry_skb = q.last_retry_skb
      /\ p.nb_retry = q.nb_retry /\ p.pkt_ready = q.pkt_ready
      /\ p.token_pkt_num = q.token_pkt_num /\ p.init_time = q.init_time
      /\ p.ps_id = q.ps_id
  BY ONLY <1>2, <1>4 DEF Queue
<1>9. /\ r \in State /\ r.txq[t] = p /\ \A u \in Txq \ {t} : r.txq[u] = s.txq[u]
      /\ SameFrames(r, s) /\ SameHw(r, s) /\ Listed(r) = Listed(s) /\ r.stuck = s.stuck
      /\ r.hwq = s.hwq
  BY <1>7 DEF Only, SameFrames, SameHw, Listed
<1>10. ~p.ps_active /\ p.push_limit = 0 /\ p.active
  BY <1>2, <1>3, <1>8
<1>11. QueueOK(p)
  <2>1. Len(q.sk_list) \in Nat
    BY <1>1, StateIs
  <2> QED  BY <1>2, <1>8, <1>10, <2>1 DEF QueueOK
<1>12. PlaceOK(r, t)
  BY <1>1, <1>2, <1>8, <1>9, <1>10 DEF PlaceOK
<1>13. Good(r, loose)
  <2>1. /\ r.txq[t].sk_list = s.txq[t].sk_list /\ r.txq[t].init_time = s.txq[t].init_time
        /\ r.txq[t].active = s.txq[t].active /\ r.txq[t].token_pkt_num = s.txq[t].token_pkt_num
        /\ Listed(r) \ {t} = Listed(s) \ {t} /\ r.stuck \ {t} = s.stuck \ {t} /\ QueueOK(r.txq[t])
    BY <1>1, <1>8, <1>9, <1>11
  <2> QED  BY ONLY Good(s, loose), s \in State, t \in Txq, <1>9, <1>12, <2>1, StatusOnly
<1>14. Soft(r, s) /\ Stays(r, s)
  <2>1. \A u \in Txq : /\ r.txq[u].active = s.txq[u].active
                       /\ r.txq[u].init_time = s.txq[u].init_time
                       /\ r.txq[u].token_pkt_num = s.txq[u].token_pkt_num
                       /\ s.txq[u].stop = r.txq[u].stop
    BY <1>1, <1>8, <1>9
  <2> QED  BY <1>9, <2>1 DEF Soft, Stays, SameFrames
<1> QED  BY <1>9, <1>10, <1>13, <1>14

LEMMA PsDisableGood ==
  ASSUME NEW s \in State, NEW loose, Good(s, loose), NEW t \in Txq, s.txq[t].active,
         NEW force, force => ~NoFlush, NEW r, r = PsDisable(s, t, force)
  PROVE  r \in State /\ Good(r, loose) /\ Soft(r, s) /\ Stays(r, s)
<1>1. PICK a : a = [s EXCEPT !.txq[t].ps_active = FALSE, !.txq[t].push_limit = 0]
  OBVIOUS
<1>2. /\ a \in State /\ Good(a, loose) /\ Soft(a, s) /\ Stays(a, s)
      /\ ~a.txq[t].ps_active /\ a.txq[t].push_limit = 0 /\ a.txq[t].active
  BY <1>1, AwakeIs
<1>3. PICK c : c = IF force THEN DelFromStuckCheckList(Flush(a, t), t) ELSE a
  OBVIOUS
<1>4. /\ c \in State /\ Good(c, loose) /\ Soft(c, s) /\ Stays(c, s)
      /\ ~c.txq[t].ps_active /\ c.txq[t].active
  <2>1. CASE ~force
    BY <1>2, <1>3, <2>1
  <2>2. CASE force
    <3>1. PICK b : b = Flush(a, t)
      OBVIOUS
    <3>2. b \in State /\ Good(b, loose) /\ Soft(b, a) /\ Flushed(b, a, t)
      BY <1>2, <2>2, <3>1, FlushGood
    <3>3. /\ b.txq[t].sk_list = <<>> /\ b.txq[t].ps_active = a.txq[t].ps_active
          /\ b.txq[t].active = a.txq[t].active /\ b.txq[t].stop = a.txq[t].stop
          /\ \A u \in Txq \ {t} : b.txq[u] = a.txq[u]
      BY <3>2 DEF Flushed
    <3>4. c = DelFromStuckCheckList(b, t)
      BY <1>3, <2>2, <3>1
    <3>5. c \in State /\ Good(c, loose) /\ Soft(c, b) /\ c.txq = b.txq
      BY <3>2, <3>3, <3>4, UnwatchGood
    <3>6. Soft(c, s)
      BY <1>2, <3>2, <3>5, SoftTwice
    <3>7. Stays(c, a)
      BY <3>3, <3>5 DEF Stays
    <3>8. Stays(c, s)
      BY <1>2, <3>7, StaysTwice
    <3> QED  BY <1>2, <3>3, <3>5, <3>6, <3>8
  <2> QED  BY <2>1, <2>2
<1>5. r = Start(c, t, "STA_PS")
  BY <1>1, <1>3 DEF PsDisable
<1>6. r \in State /\ Good(r, loose) /\ Soft(r, c) /\ Stays(r, c)
  BY <1>4, <1>5, WakeGood
<1> QED  BY <1>4, <1>6, SoftTwice, StaysTwice

\* The service period of a sleeping station.
Asked(s, t, n) == [s EXCEPT !.txq[t].push_limit = n, !.txq[t].sp_cnt = n]

LEMMA AskedIs ==
  ASSUME NEW s \in State, NEW loose, Good(s, loose), NEW t \in Txq, s.txq[t].active,
         s.txq[t].ps_active, NEW n \in Nat, n > 0, n <= Len(s.txq[t].sk_list),
         NEW r, r = Asked(s, t, n)
  PROVE  /\ r \in State /\ Good(r, loose) /\ Soft(r, s) /\ Stays(r, s)
         /\ r.txq[t].push_limit = n /\ r.txq[t].active /\ r.txq[t].stop = s.txq[t].stop
         /\ r.txq[t].sk_list = s.txq[t].sk_list
<1>1. PICK q : q = s.txq[t]
  OBVIOUS
<1>2. q \in Queue /\ QueueOK(q) /\ PlaceOK(s, t) /\ q.active /\ q.ps_active /\ s \in Raw
  BY <1>1, StateIs DEF Good, State
<1>4. PICK p : p = [q EXCEPT !.push_limit = n, !.sp_cnt = n]
  OBVIOUS
<1>5. p \in Queue
  <2>1. n \in Int
    OBVIOUS
  <2> QED  BY ONLY <1>2, <1>4, <2>1, n \in Nat DEF Queue
<1>6. r = SetQ(s, t, p)
  BY ONLY <1>1, <1>2, <1>4, t \in Txq, r = Asked(s, t, n)
     DEF Asked, Raw, SetQ
<1>7. Only(r, s, t, p)
  BY ONLY <1>5, <1>6, s \in State, t \in Txq, SetQIs
<1>8. /\ p.ps_active = q.ps_active /\ p.push_limit = n /\ p.sp_cnt = n
      /\ p.active = q.active /\ p.flow = q.flow /\ p.stop = q.stop /\ p.credits = q.credits
      /\ p.sk_list = q.sk_list /\ p.last_retry_skb = q.last_retry_skb
      /\ p.nb_retry = q.nb_retry /\ p.pkt_ready = q.pkt_ready
      /\ p.token_pkt_num = q.token_pkt_num /\ p.init_time = q.init_time
      /\ p.ps_id = q.ps_id
  BY ONLY <1>2, <1>4 DEF Queue
<1>9. /\ r \in State /\ r.txq[t] = p /\ \A u \in Txq \ {t} : r.txq[u] = s.txq[u]
      /\ SameFrames(r, s) /\ SameHw(r, s) /\ Listed(r) = Listed(s) /\ r.stuck = s.stuck
      /\ r.hwq = s.hwq
  BY <1>7 DEF Only, SameFrames, SameHw, Listed
<1>10. p.ps_active /\ p.active /\ p.push_limit > 0
  BY <1>2, <1>8
<1>11. QueueOK(p)
  BY <1>1, <1>2, <1>8, <1>10 DEF QueueOK
<1>12. PlaceOK(r, t)
  BY <1>1, <1>2, <1>8, <1>9, <1>10 DEF PlaceOK
<1>13. Good(r, loose)
  <2>1. /\ r.txq[t].sk_list = s.txq[t].sk_list /\ r.txq[t].init_time = s.txq[t].init_time
        /\ r.txq[t].active = s.txq[t].active /\ r.txq[t].token_pkt_num = s.txq[t].token_pkt_num
        /\ Listed(r) \ {t} = Listed(s) \ {t} /\ r.stuck \ {t} = s.stuck \ {t} /\ QueueOK(r.txq[t])
    BY <1>1, <1>8, <1>9, <1>11
  <2> QED  BY ONLY Good(s, loose), s \in State, t \in Txq, <1>9, <1>12, <2>1, StatusOnly
<1>14. Soft(r, s) /\ Stays(r, s)
  <2>1. \A u \in Txq : /\ r.txq[u].active = s.txq[u].active
                       /\ r.txq[u].init_time = s.txq[u].init_time
                       /\ r.txq[u].token_pkt_num = s.txq[u].token_pkt_num
                       /\ s.txq[u].stop = r.txq[u].stop
    BY <1>1, <1>8, <1>9
  <2> QED  BY <1>9, <2>1 DEF Soft, Stays, SameFrames
<1> QED  BY <1>1, <1>8, <1>9, <1>10, <1>13, <1>14

LEMMA TrafficGood ==
  ASSUME NEW s \in State, NEW loose, Good(s, loose), NEW t \in Txq, s.txq[t].active,
         s.txq[t].ps_active, s.txq[t].credits > 0, s.txq[t].sk_list # <<>>,
         NEW n \in Nat, n > 0, n <= Len(s.txq[t].sk_list),
         NEW r, r = AddToHwList([s EXCEPT !.txq[t].push_limit = n, !.txq[t].sp_cnt = n], t)
  PROVE  r \in State /\ Good(r, loose) /\ Soft(r, s) /\ Stays(r, s)
<1>1. PICK a : a = Asked(s, t, n)
  OBVIOUS
<1>2. /\ a \in State /\ Good(a, loose) /\ Soft(a, s) /\ Stays(a, s)
      /\ a.txq[t].push_limit = n /\ a.txq[t].active /\ a.txq[t].stop = s.txq[t].stop
      /\ a.txq[t].sk_list = s.txq[t].sk_list
  BY <1>1, AskedIs
<1>3. "FULL" \notin s.txq[t].stop /\ "ON" \in PsStates
  <2>1. QueueOK(s.txq[t]) /\ s.txq[t].credits \in Int
    BY StateIs DEF Good, Queue
  <2> QED  BY <2>1 DEF QueueOK
<1>4. r \in State /\ Good(r, loose) /\ Gentle(r, a) /\ r.txq = a.txq
  <2>1. r = AddToHwList(a, t)
    BY <1>1 DEF Asked
  <2>2. a.txq[t].active /\ "FULL" \notin a.txq[t].stop /\ a.txq[t].sk_list # <<>>
        /\ a.txq[t].push_limit > 0
    BY <1>2, <1>3
  <2> QED  BY ONLY <1>2, <1>3, <2>1, <2>2, t \in Txq, AddGood
<1>5. Stays(r, a)
  BY <1>4 DEF Stays
<1> QED  BY <1>2, <1>4, <1>5, SoftTwice, StaysTwice, GentleIsSoft

----------------------------------------------------------------------------
(* The interface stopped and started.                                      *)

\* siwifi_txq_vif_stop and siwifi_txq_vif_start.
LEMMA VifStopGood ==
  ASSUME NEW s \in State, Good(s, {}), IsFiniteSet(Txq), NEW reason \in Reasons,
         NEW r, r = StopAll(reason, s, Txq)
  PROVE  /\ r \in State /\ Good(r, {}) /\ Gentle(r, s)
         /\ \A u \in Txq : r.txq[u].stop =
              IF s.txq[u].active THEN s.txq[u].stop \cup {reason} ELSE s.txq[u].stop
<1> DEFINE Set(done, u) ==
             IF u \in done /\ s.txq[u].active THEN s.txq[u].stop \cup {reason} ELSE s.txq[u].stop
           P == [done \in SUBSET Txq |->
                  {y \in State : Good(y, {}) /\ Gentle(y, s)
                                 /\ \A u \in Txq : y.txq[u].stop = Set(done, u)}]
<1>1. s \in P[{}]
  <2>1. Gentle(s, s)
    BY DEF Gentle, SameFrames, SameHw
  <2> QED  BY <2>1
<1>2. ASSUME NEW done \in SUBSET Txq, NEW x \in done, NEW y \in P[done \ {x}]
      PROVE  Stop(y, x, reason) \in P[done]
  <2>1. PICK z : z = Stop(y, x, reason)
    OBVIOUS
  <2>2. /\ y \in State /\ Good(y, {}) /\ Gentle(y, s) /\ x \in Txq
        /\ \A u \in Txq : y.txq[u].stop = Set(done \ {x}, u)
    OBVIOUS
  <2>3. /\ z \in State /\ Good(z, {}) /\ Gentle(z, y)
        /\ \A u \in Txq \ {x} : z.txq[u] = y.txq[u]
        /\ Adds(z, y, x, reason)
    <3>1. y \in State /\ Good(y, {}) /\ x \in Txq
      BY <2>2
    <3> QED  BY ONLY <2>1, <3>1, reason \in Reasons, StopGood
  <2>4. Gentle(z, s) /\ y.txq[x].active = s.txq[x].active
    <3>1. Gentle(y, s) /\ Gentle(z, y) /\ x \in Txq
      BY <2>2, <2>3
    <3>2. Gentle(z, s)
      BY ONLY <3>1, GentleTwice
    <3> QED  BY ONLY <3>1, <3>2 DEF Gentle
  <2>5. \A u \in Txq : z.txq[u].stop = Set(done, u)
    <3> TAKE u \in Txq
    <3>1. CASE u # x
      BY <2>2, <2>3, <3>1
    <3>2. CASE u = x
      BY <2>2, <2>3, <2>4, <3>2 DEF Adds
    <3> QED  BY <3>1, <3>2
  <2> HIDE DEF Set
  <2> QED  BY <2>1, <2>3, <2>4, <2>5
<1> HIDE DEF P, Set
<1>3. r \in P[Txq]
  BY ONLY <1>1, <1>2, IsFiniteSet(Txq), r = StopAll(reason, s, Txq), StopFold
<1> QED  BY <1>3 DEF P, Set

LEMMA VifStartGood ==
  ASSUME NEW s \in State, Good(s, {}), IsFiniteSet(Txq), NEW reason \in Reasons,
         NEW r, r = StartAll(reason, s, Txq)
  PROVE  /\ r \in State /\ Good(r, {}) /\ Gentle(r, s)
         /\ \A u \in Txq : r.txq[u].stop =
              IF s.txq[u].active THEN s.txq[u].stop \ {reason} ELSE s.txq[u].stop
<1> DEFINE Set(done, u) ==
             IF u \in done /\ s.txq[u].active THEN s.txq[u].stop \ {reason} ELSE s.txq[u].stop
           P == [done \in SUBSET Txq |->
                  {y \in State : Good(y, {}) /\ Gentle(y, s)
                                 /\ \A u \in Txq : y.txq[u].stop = Set(done, u)}]
<1>1. s \in P[{}]
  <2>1. Gentle(s, s)
    BY DEF Gentle, SameFrames, SameHw
  <2> QED  BY <2>1
<1>2. ASSUME NEW done \in SUBSET Txq, NEW x \in done, NEW y \in P[done \ {x}]
      PROVE  Start(y, x, reason) \in P[done]
  <2>1. PICK z : z = Start(y, x, reason)
    OBVIOUS
  <2>2. /\ y \in State /\ Good(y, {}) /\ Gentle(y, s) /\ x \in Txq
        /\ \A u \in Txq : y.txq[u].stop = Set(done \ {x}, u)
    OBVIOUS
  <2>3. /\ z \in State /\ Good(z, {}) /\ Gentle(z, y)
        /\ \A u \in Txq \ {x} : z.txq[u] = y.txq[u]
        /\ Takes(z, y, x, reason)
    <3>1. y \in State /\ Good(y, {}) /\ x \in Txq
      BY <2>2
    <3> QED  BY ONLY <2>1, <3>1, reason \in Reasons, StartGood
  <2>4. Gentle(z, s) /\ y.txq[x].active = s.txq[x].active
    <3>1. Gentle(y, s) /\ Gentle(z, y) /\ x \in Txq
      BY <2>2, <2>3
    <3>2. Gentle(z, s)
      BY ONLY <3>1, GentleTwice
    <3> QED  BY ONLY <3>1, <3>2 DEF Gentle
  <2>5. \A u \in Txq : z.txq[u].stop = Set(done, u)
    <3> TAKE u \in Txq
    <3>1. CASE u # x
      BY <2>2, <2>3, <3>1
    <3>2. CASE u = x
      BY <2>2, <2>3, <2>4, <3>2 DEF Takes
    <3> QED  BY <3>1, <3>2
  <2> HIDE DEF Set
  <2> QED  BY <2>1, <2>3, <2>4, <2>5
<1> HIDE DEF P, Set
<1>3. r \in P[Txq]
  BY ONLY <1>1, <1>2, IsFiniteSet(Txq), r = StartAll(reason, s, Txq), StartFold
<1> QED  BY <1>3 DEF P, Set

\* siwifi_check_stuck_list: the queues of late are flushed, the empty ones
\* are no longer watched.
LEMMA CheckStuckGood ==
  ASSUME NEW s \in State, Good(s, {}), IsFiniteSet(Txq), NEW late \in SUBSET s.stuck,
         late # {} => Stuck, NEW r, r = CheckStuck(s, late)
  PROVE  r \in State /\ Good(r, {}) /\ Soft(r, s) /\ Stays(r, s)
<1> DEFINE P == [done \in SUBSET late |->
                  {y \in State : /\ Good(y, {}) /\ Soft(y, s) /\ y.stuck = s.stuck
                                 /\ Stays(y, s)}]
<1>1. s \in P[{}]
  <2>1. Soft(s, s) /\ Stays(s, s)
    BY DEF Soft, SameHw, Stays
  <2> QED  BY <2>1
<1>2. ASSUME NEW done \in SUBSET late, NEW x \in done, NEW y \in P[done \ {x}]
      PROVE  Flush(y, x) \in P[done]
  <2>1. PICK z : z = Flush(y, x)
    OBVIOUS
  <2>2. /\ y \in State /\ Good(y, {}) /\ Soft(y, s) /\ x \in Txq /\ y.stuck = s.stuck
        /\ Stays(y, s) /\ x \in s.stuck
    BY StateIs
  <2>3. QueueOK(y.txq[x]) /\ PlaceOK(y, x) /\ y.txq[x].push_limit \in Nat
    BY <2>2, StateIs DEF Good, Queue
  <2>4. NoFlush => x \notin Listed(y) /\ y.txq[x].push_limit = 0
    <3>1. NoFlush => "ON" \notin PsStates
      BY DEF NoFlush
    <3> QED  BY <2>2, <2>3, <3>1 DEF PlaceOK, QueueOK
  <2>5. z \in State /\ Good(z, {}) /\ Soft(z, y) /\ Flushed(z, y, x)
    BY ONLY <2>1, <2>2, <2>4, FlushGood
  <2>6. z.stuck = s.stuck /\ Stays(z, y)
    BY <2>2, <2>5 DEF Flushed, Stays
  <2>7. Soft(z, s) /\ Stays(z, s)
    BY <2>2, <2>5, <2>6, SoftTwice, StaysTwice
  <2> QED  BY <2>1, <2>5, <2>6, <2>7
<1> HIDE DEF P
<1>3. PICK y : y = FoldSet(LAMBDA t, x : Flush(x, t), s, late)
  OBVIOUS
<1>4. IsFiniteSet(late)
  <2>1. late \subseteq Txq
    BY StateIs
  <2> QED  BY <2>1, FS_Subset
<1>5. y \in P[late]
  BY ONLY <1>1, <1>2, <1>3, <1>4, FlushFold
<1>6. y \in State /\ Good(y, {}) /\ Soft(y, s) /\ y.stuck = s.stuck /\ Stays(y, s)
  BY <1>5 DEF P
<1>7. r = [y EXCEPT !.stuck = {t \in y.stuck : HasData(y, t)}]
  BY <1>3, <1>6 DEF CheckStuck, State, Raw
<1>8. /\ r \in State /\ r.txq = y.txq /\ r.hwq = y.hwq /\ r.skb = y.skb /\ r.ring = y.ring
      /\ r.stuck = {t \in y.stuck : HasData(y, t)}
  <2>1. y \in Raw /\ Once(y.hwq.list)
    BY <1>6 DEF State
  <2>2. PICK w : w = {t \in y.stuck : HasData(y, t)}
    OBVIOUS
  <2>3. w \in SUBSET Txq
    BY <2>1, <2>2 DEF Raw
  <2>4. r \in Raw /\ r.txq = y.txq /\ r.hwq = y.hwq /\ r.skb = y.skb /\ r.ring = y.ring /\ r.stuck = w
    BY ONLY <1>7, <2>1, <2>2, <2>3 DEF Raw
  <2> QED  BY <2>1, <2>2, <2>4 DEF State
<1>9. Listed(r) = Listed(y)
  BY <1>8 DEF Listed
<1>10. \A t \in Txq : QueueOK(r.txq[t]) /\ PlaceOK(r, t)
  <2> TAKE t \in Txq
  <2>1. QueueOK(y.txq[t]) /\ PlaceOK(y, t)
    BY <1>6 DEF Good
  <2> QED  BY <1>8, <1>9, <2>1 DEF PlaceOK, HasData
<1>11. Frames(r, {}) /\ TokensOK(r) /\ SumOK(r)
  BY <1>6, <1>8 DEF Good, Frames, TokensOK, SumOK, Flight, Busy
<1>12. Good(r, {})
  BY <1>8, <1>10, <1>11 DEF Good
<1>13. Soft(r, y) /\ Stays(r, y)
  BY <1>8, <1>9 DEF Soft, SameHw, Stays
<1> QED  BY <1>6, <1>8, <1>12, <1>13, SoftTwice, StaysTwice

----------------------------------------------------------------------------
(* Stations that leave and queues that are initialised again.              *)

\* siwifi_txq_deinit.
Gone(s, t) == {k \in Token : s.txq[t].token_pkt_num[k] > 0}

Left(s, t) ==
  LET p == [s EXCEPT !.txq[t].ps_active = FALSE,
                     !.hwq.token_status = [k \in Token |-> @[k] /\ k \notin Gone(s, t)],
                     !.hwq.outstanding_tokens = @ - Cardinality(Gone(s, t))]
      off == DelFromStuckCheckList(DelFromHwList(Flush(p, t), t), t)
  IN  [off EXCEPT !.txq[t].active = FALSE]

LEMMA GoneIs ==
  ASSUME NEW s \in State, NEW t \in Txq
  PROVE  /\ IsFiniteSet(Token) /\ IsFiniteSet(Gone(s, t)) /\ IsFiniteSet(Busy(s))
         /\ Cardinality(Gone(s, t)) \in Nat /\ Cardinality(Busy(s)) \in Nat
         /\ Cardinality(Busy(s)) <= Tokens
<1>1. IsFiniteSet(Token) /\ Cardinality(Token) = Tokens
  <2>1. Tokens \in Nat
    BY SchedAssumption DEF SchedAssumption
  <2> QED  BY <2>1, FS_Interval DEF Token
<1>2. Gone(s, t) \subseteq Token /\ Busy(s) \subseteq Token
  BY DEF Gone, Busy
<1>3. /\ IsFiniteSet(Gone(s, t)) /\ IsFiniteSet(Busy(s)) /\ Cardinality(Busy(s)) <= Cardinality(Token)
  BY <1>1, <1>2, FS_Subset
<1> QED  BY <1>1, <1>3, FS_CardinalityType

\* siwifi_txq_del_from_hw_list.
Unlisted(r, s, t) ==
  /\ r \in State /\ r.txq = s.txq /\ SameFrames(r, s) /\ SameHw(r, s)
  /\ Listed(r) = Listed(s) \ {t}
  /\ r.stuck = IF t \in Listed(s) /\ s.txq[t].sk_list # <<>>
               THEN s.stuck \cup {t} ELSE s.stuck
  /\ r.hwq.need_processing = s.hwq.need_processing

LEMMA DelIs ==
  ASSUME NEW s \in State, NEW t \in Txq, NEW r, r = DelFromHwList(s, t)
  PROVE  Unlisted(r, s, t)
BY DelEffect DEF Unlisted

HasLeft(r, s, t) ==
  /\ r \in State /\ r.ring = s.ring /\ r.stuck = s.stuck \ {t}
  /\ Listed(r) = Listed(s) \ {t}
  /\ \A f \in Skb : r.skb[f] = IF f \in ToSet(s.txq[t].sk_list) THEN NoHdr ELSE s.skb[f]
  /\ \A u \in Txq \ {t} : r.txq[u] = s.txq[u]
  /\ r.hwq.credits = s.hwq.credits /\ r.hwq.dec = s.hwq.dec
  /\ r.hwq.need_processing = s.hwq.need_processing
  /\ Busy(r) = Busy(s) \ Gone(s, t)
  /\ r.hwq.outstanding_tokens = s.hwq.outstanding_tokens - Cardinality(Gone(s, t))
  /\ r.txq[t].active = FALSE /\ r.txq[t].ps_active = FALSE
  /\ r.txq[t].sk_list = <<>> /\ r.txq[t].last_retry_skb = None /\ r.txq[t].nb_retry = 0
  /\ r.txq[t].pkt_ready = s.txq[t].pkt_ready
  /\ r.txq[t].flow = FALSE \/ (r.txq[t].flow = s.txq[t].flow /\ s.txq[t].sk_list = <<>>)
  /\ r.txq[t].stop = s.txq[t].stop /\ r.txq[t].init_time = s.txq[t].init_time
  /\ r.txq[t].token_pkt_num = s.txq[t].token_pkt_num

LEMMA LeftIs ==
  ASSUME NEW s \in State, NEW t \in Txq, NEW r, r = Left(s, t)
  PROVE  HasLeft(r, s, t)
<1>0. PICK q, h : q = s.txq[t] /\ h = s.hwq
  OBVIOUS
<1>1. /\ q \in Queue /\ s \in Raw /\ h \in HwQueue /\ q.sk_list \in Seq(Skb) /\ Once(s.hwq.list)
      /\ h.outstanding_tokens \in Int /\ h.token_status \in [Token -> BOOLEAN]
  <2>1. q \in Queue /\ s \in Raw /\ h \in HwQueue /\ q.sk_list \in Seq(Skb) /\ Once(s.hwq.list)
    BY <1>0, StateIs DEF State
  <2> QED  BY <2>1 DEF HwQueue
<1>2. PICK ts : ts = [k \in Token |-> s.hwq.token_status[k] /\ k \notin Gone(s, t)]
  OBVIOUS
<1>3. PICK ot : ot = s.hwq.outstanding_tokens - Cardinality(Gone(s, t))
  OBVIOUS
<1>4. ts \in [Token -> BOOLEAN] /\ ot \in Int
  <2>1. Cardinality(Gone(s, t)) \in Nat
    BY GoneIs
  <2> QED  BY <1>0, <1>1, <1>2, <1>3, <2>1
<1>5. PICK no : no = FALSE
  OBVIOUS
<1>6. PICK p : p = [s EXCEPT !.txq[t].ps_active = no, !.hwq.token_status = ts,
                             !.hwq.outstanding_tokens = ot]
  OBVIOUS
<1>7. r = [DelFromStuckCheckList(DelFromHwList(Flush(p, t), t), t) EXCEPT !.txq[t].active = no]
  <2>1. p = [s EXCEPT !.txq[t].ps_active = FALSE,
                     !.hwq.token_status = [k \in Token |-> @[k] /\ k \notin Gone(s, t)],
                     !.hwq.outstanding_tokens = @ - Cardinality(Gone(s, t))]
    BY <1>2, <1>3, <1>5, <1>6
  <2> QED  BY <1>5, <2>1 DEF Left
<1>8. PICK q1, h1 : /\ q1 = [q EXCEPT !.ps_active = no]
                    /\ h1 = [h EXCEPT !.token_status = ts, !.outstanding_tokens = ot]
  OBVIOUS
<1>9. q1 \in Queue /\ h1 \in HwQueue
  <2>1. no \in BOOLEAN
    BY <1>5
  <2>2. q1 \in Queue
    BY ONLY <1>1, <1>8, <2>1 DEF Queue
  <2>3. h1 \in HwQueue
    BY ONLY <1>1, <1>4, <1>8 DEF HwQueue
  <2> QED  BY <2>2, <2>3
<1>10. /\ p \in Raw /\ p.hwq = h1 /\ p.txq[t] = q1 /\ \A u \in Txq \ {t} : p.txq[u] = s.txq[u]
       /\ p.skb = s.skb /\ p.ring = s.ring /\ p.stuck = s.stuck
  <2>1. PICK x : x = [s.txq EXCEPT ![t] = q1]
    OBVIOUS
  <2>2. p = [s EXCEPT !.txq = x, !.hwq = h1]
    BY ONLY <1>0, <1>1, <1>6, <1>8, <2>1, t \in Txq DEF Raw
  <2>3. x \in [Txq -> Queue] /\ x[t] = q1 /\ \A u \in Txq \ {t} : x[u] = s.txq[u]
    BY ONLY <1>1, <1>9, <2>1, t \in Txq DEF Raw
  <2> QED  BY ONLY <1>1, <1>9, <2>2, <2>3 DEF Raw
<1>11. /\ q1.ps_active = FALSE /\ q1.sk_list = q.sk_list /\ q1.pkt_ready = q.pkt_ready
       /\ q1.flow = q.flow /\ q1.stop = q.stop /\ q1.init_time = q.init_time
       /\ q1.token_pkt_num = q.token_pkt_num
       /\ h1.list = h.list /\ h1.token_status = ts /\ h1.outstanding_tokens = ot
       /\ h1.credits = h.credits /\ h1.dec = h.dec /\ h1.need_processing = h.need_processing
  BY ONLY <1>1, <1>5, <1>8 DEF Queue, HwQueue
<1>12. p \in State
  BY <1>0, <1>1, <1>10, <1>11 DEF State
<1>13. PICK a : a = Flush(p, t)
  OBVIOUS
<1>14. Flushed(a, p, t)
  BY <1>12, <1>13, FlushIs
<1>15. PICK q2 : q2 = a.txq[t]
  OBVIOUS
<1>16. /\ a \in State /\ a.hwq = h1 /\ a.ring = s.ring /\ a.stuck = s.stuck
       /\ \A f \in Skb : a.skb[f] = IF f \in ToSet(q.sk_list) THEN NoHdr ELSE s.skb[f]
       /\ \A u \in Txq \ {t} : a.txq[u] = s.txq[u]
       /\ q2 \in Queue /\ q2.sk_list = <<>> /\ q2.last_retry_skb = None /\ q2.nb_retry = 0
       /\ q2.ps_active = FALSE /\ q2.pkt_ready = q.pkt_ready
       /\ q2.flow = FALSE \/ (q2.flow = q.flow /\ q.sk_list = <<>>)
       /\ q2.stop = q.stop /\ q2.init_time = q.init_time /\ q2.token_pkt_num = q.token_pkt_num
  <2>1. /\ a \in State /\ a.hwq = p.hwq /\ a.ring = p.ring /\ a.stuck = p.stuck
        /\ \A f \in Skb : a.skb[f] = IF f \in ToSet(q1.sk_list) THEN NoHdr ELSE p.skb[f]
        /\ \A u \in Txq \ {t} : a.txq[u] = p.txq[u]
        /\ q2 \in Queue /\ q2.sk_list = <<>> /\ q2.last_retry_skb = None /\ q2.nb_retry = 0
        /\ q2.ps_active = q1.ps_active
        /\ q2.pkt_ready = (IF q1.ps_active THEN q1.pkt_ready - Len(q1.sk_list) ELSE q1.pkt_ready)
        /\ q2.flow = FALSE \/ (q2.flow = q1.flow /\ q1.sk_list = <<>>)
        /\ q2.stop = q1.stop /\ q2.init_time = q1.init_time /\ q2.token_pkt_num = q1.token_pkt_num
    BY <1>10, <1>14, <1>15 DEF Flushed
  <2> QED  BY <1>10, <1>11, <2>1
<1>17. PICK b : b = DelFromHwList(a, t)
  OBVIOUS
<1>18. /\ b \in State /\ b.txq = a.txq /\ SameFrames(b, a) /\ SameHw(b, a)
       /\ Listed(b) = Listed(a) \ {t} /\ b.hwq.need_processing = a.hwq.need_processing
       /\ b.stuck = s.stuck
  <2>1. /\ b \in State /\ b.txq = a.txq /\ SameFrames(b, a) /\ SameHw(b, a)
        /\ Listed(b) = Listed(a) \ {t}
        /\ b.stuck = IF t \in Listed(a) /\ a.txq[t].sk_list # <<>>
                     THEN a.stuck \cup {t} ELSE a.stuck
        /\ b.hwq.need_processing = a.hwq.need_processing
    <3>1. Unlisted(b, a, t)
      BY ONLY <1>16, <1>17, t \in Txq, DelIs
    <3> QED  BY ONLY <3>1 DEF Unlisted
  <2> QED  BY <1>15, <1>16, <2>1
<1>19. PICK c : c = DelFromStuckCheckList(b, t)
  OBVIOUS
<1>20. /\ c \in State /\ c.txq = a.txq /\ c.hwq = b.hwq /\ c.skb = a.skb /\ c.ring = s.ring
       /\ c.stuck = s.stuck \ {t}
  <2>1. /\ c \in State /\ c.txq = b.txq /\ c.hwq = b.hwq /\ c.skb = b.skb /\ c.ring = b.ring
        /\ c.stuck = b.stuck \ {t}
    BY <1>18, <1>19 DEF DelFromStuckCheckList, State, Raw
  <2> QED  BY <1>16, <1>18, <2>1 DEF SameFrames
<1>21. PICK q3 : q3 = [q2 EXCEPT !.active = no]
  OBVIOUS
<1>22. q3 \in Queue
  <2>1. no \in BOOLEAN
    BY <1>5
  <2> QED  BY ONLY <1>16, <1>21, <2>1 DEF Queue
<1>23. r = SetQ(c, t, q3)
  <2>1. r = [c EXCEPT !.txq[t].active = no] /\ c \in Raw /\ c.txq[t] = q2
    BY <1>7, <1>13, <1>15, <1>17, <1>19, <1>20 DEF State
  <2> QED  BY ONLY <1>16, <1>21, <2>1, t \in Txq DEF Raw, SetQ
<1>24. Only(r, c, t, q3)
  BY ONLY <1>20, <1>22, <1>23, t \in Txq, SetQIs
<1>25. /\ q3.active = FALSE /\ q3.sk_list = q2.sk_list /\ q3.pkt_ready = q2.pkt_ready
       /\ q3.ps_active = q2.ps_active /\ q3.nb_retry = q2.nb_retry
       /\ q3.last_retry_skb = q2.last_retry_skb
       /\ q3.flow = q2.flow /\ q3.stop = q2.stop /\ q3.init_time = q2.init_time
       /\ q3.token_pkt_num = q2.token_pkt_num
  BY ONLY <1>5, <1>16, <1>21 DEF Queue
<1>26. /\ r \in State /\ r.txq[t] = q3 /\ \A u \in Txq \ {t} : r.txq[u] = s.txq[u]
       /\ r.hwq = b.hwq /\ r.skb = a.skb /\ r.ring = s.ring /\ r.stuck = s.stuck \ {t}
  BY <1>16, <1>20, <1>24 DEF Only
<1>27. /\ b.hwq.credits = h.credits /\ b.hwq.dec = h.dec
       /\ b.hwq.need_processing = h.need_processing
       /\ b.hwq.token_status = ts /\ b.hwq.outstanding_tokens = ot
  BY <1>11, <1>16, <1>18 DEF SameHw
<1>28. Listed(r) = Listed(s) \ {t}
  <2>1. Listed(r) = Listed(b) /\ Listed(a) = Listed(s)
    BY <1>0, <1>11, <1>16, <1>26 DEF Listed
  <2> QED  BY <1>18, <2>1
<1>29. Busy(r) = Busy(s) \ Gone(s, t)
  <2>1. \A k \in Token : ts[k] <=> s.hwq.token_status[k] /\ k \notin Gone(s, t)
    BY ONLY <1>2
  <2>2. r.hwq.token_status = ts
    BY <1>26, <1>27
  <2> QED  BY ONLY <2>1, <2>2 DEF Busy
<1>30. /\ r.hwq.credits = s.hwq.credits /\ r.hwq.dec = s.hwq.dec
       /\ r.hwq.need_processing = s.hwq.need_processing
       /\ r.hwq.outstanding_tokens = s.hwq.outstanding_tokens - Cardinality(Gone(s, t))
  BY <1>0, <1>3, <1>26, <1>27
<1>31. \A f \in Skb : r.skb[f] = IF f \in ToSet(s.txq[t].sk_list) THEN NoHdr ELSE s.skb[f]
  BY <1>0, <1>16, <1>26
<1>32. /\ r.txq[t].active = FALSE /\ r.txq[t].ps_active = FALSE
       /\ r.txq[t].sk_list = <<>> /\ r.txq[t].last_retry_skb = None /\ r.txq[t].nb_retry = 0
       /\ r.txq[t].pkt_ready = s.txq[t].pkt_ready
       /\ r.txq[t].flow = FALSE \/ (r.txq[t].flow = s.txq[t].flow /\ s.txq[t].sk_list = <<>>)
       /\ r.txq[t].stop = s.txq[t].stop /\ r.txq[t].init_time = s.txq[t].init_time
       /\ r.txq[t].token_pkt_num = s.txq[t].token_pkt_num
  BY <1>0, <1>16, <1>25, <1>26
<1> QED  BY <1>26, <1>28, <1>29, <1>30, <1>31, <1>32 DEF HasLeft

\* A busy token has a queue that holds it; the hwq never sleeps on work.
Held(s) ==
  \A k \in Token : s.hwq.token_status[k] =>
    \E t \in Txq : s.txq[t].active /\ s.txq[t].token_pkt_num[k] > 0

Awake(s) == Listed(s) # {} => s.hwq.need_processing \/ s.ring # <<>>

LEMMA SoftKeeps ==
  ASSUME NEW r, NEW s, Soft(r, s)
  PROVE  (Held(s) => Held(r)) /\ (Awake(s) => Awake(r))
<1>1. Held(s) => Held(r)
  BY DEF Soft, SameHw, Held
<1>2. Awake(s) => Awake(r)
  BY DEF Soft, Awake
<1> QED  BY <1>1, <1>2

LEMMA LeftGood ==
  ASSUME NEW s \in State, Good(s, {}), NEW t \in Txq, s.txq[t].active,
         NEW r, r = Left(s, t)
  PROVE  /\ r \in State /\ Good(r, {}) /\ r.ring = s.ring
         /\ \A u \in Txq : r.txq[u].active => r.txq[u] = s.txq[u]
         /\ r.hwq.credits = s.hwq.credits /\ r.hwq.dec = s.hwq.dec
         /\ (Held(s) => Held(r)) /\ (Awake(s) => Awake(r))
<1>1. PICK q, p : q = s.txq[t] /\ p = r.txq[t]
  OBVIOUS
<1>2. /\ r \in State /\ r.ring = s.ring /\ r.stuck = s.stuck \ {t}
      /\ Listed(r) = Listed(s) \ {t}
      /\ \A f \in Skb : r.skb[f] = IF f \in ToSet(q.sk_list) THEN NoHdr ELSE s.skb[f]
      /\ \A u \in Txq \ {t} : r.txq[u] = s.txq[u]
      /\ r.hwq.credits = s.hwq.credits /\ r.hwq.dec = s.hwq.dec
      /\ r.hwq.need_processing = s.hwq.need_processing
      /\ Busy(r) = Busy(s) \ Gone(s, t)
      /\ r.hwq.outstanding_tokens = s.hwq.outstanding_tokens - Cardinality(Gone(s, t))
      /\ p.active = FALSE /\ p.ps_active = FALSE
      /\ p.sk_list = <<>> /\ p.last_retry_skb = None /\ p.nb_retry = 0
      /\ p.pkt_ready = q.pkt_ready
      /\ p.flow = FALSE \/ (p.flow = q.flow /\ q.sk_list = <<>>)
      /\ p.stop = q.stop /\ p.init_time = q.init_time
      /\ p.token_pkt_num = q.token_pkt_num
  <2>1. HasLeft(r, s, t)
    BY LeftIs
  <2> QED  BY ONLY <1>1, <2>1 DEF HasLeft
<1>3. q \in Queue /\ QueueOK(q) /\ PlaceOK(s, t) /\ p \in Queue /\ q.active
  BY <1>1, <1>2, StateIs DEF Good
<1>4. QueueOK(p)
  <2>1. p.pkt_ready >= 0 /\ Once(p.sk_list) /\ Len(p.sk_list) = 0
    BY <1>2, <1>3, NoneIn DEF QueueOK
  <2>2. FlowRestart # 0 /\ p.flow => p.sk_list # <<>>
    BY <1>2, <1>3 DEF QueueOK
  <2> QED  BY <1>2, <2>1, <2>2 DEF QueueOK
<1>5. PlaceOK(r, t)
  BY <1>1, <1>2 DEF PlaceOK
<1>6. \A u \in Txq : QueueOK(r.txq[u]) /\ PlaceOK(r, u)
  <2> TAKE u \in Txq
  <2>1. CASE u = t
    BY <1>1, <1>4, <1>5, <2>1
  <2>2. CASE u # t
    <3>1. QueueOK(s.txq[u]) /\ PlaceOK(s, u) /\ r.txq[u] = s.txq[u]
      BY <1>2, <2>2 DEF Good
    <3>2. (u \in Listed(r) <=> u \in Listed(s)) /\ (u \in r.stuck <=> u \in s.stuck)
      BY <1>2, <2>2
    <3> QED  BY <3>1, <3>2 DEF PlaceOK
  <2> QED  BY <2>1, <2>2
<1>7. Frames(r, {})
  <2>1. PICK drop, put : drop = ToSet(q.sk_list) /\ put = {}
    OBVIOUS
  <2>2. PICK loose : loose = {}
    OBVIOUS
  <2>3. /\ drop \subseteq ToSet(s.txq[t].sk_list) \cup loose /\ put \subseteq loose \ drop
        /\ \A g \in put : s.skb[g].txq = t /\ s.skb[g].init_time = s.txq[t].init_time
        /\ \A g \in Skb : r.skb[g] = IF g \in drop THEN NoHdr ELSE s.skb[g]
        /\ r.txq[t].init_time = s.txq[t].init_time
        /\ ToSet(r.txq[t].sk_list) = (ToSet(s.txq[t].sk_list) \ drop) \cup put
    BY <1>1, <1>2, <2>1, <2>2, NoneIn
  <2>4. Frames(s, loose)
    BY <2>2 DEF Good
  <2>5. Frames(r, loose \ (drop \cup put))
    BY ONLY s \in State, t \in Txq, <1>2, <2>3, <2>4, MoveFrames
  <2>6. loose \ (drop \cup put) = {}
    BY <2>2
  <2> QED  BY <2>5, <2>6
<1>8. TokensOK(s)
  BY DEF Good
<1>9. \A u \in Txq : r.txq[u].active => u # t /\ r.txq[u] = s.txq[u]
  BY <1>1, <1>2
<1>10. \A u \in Txq \ {t}, k \in Token : Flight(r, u, k) = Flight(s, u, k)
  <2>1. \A f \in ToSet(s.ring) : r.skb[f] = s.skb[f]
    <3>1. \A f \in ToSet(s.ring) : f \in Skb /\ f \notin ToSet(q.sk_list)
      BY <1>1, StateIs DEF Good, Frames
    <3> QED  BY <1>2, <3>1
  <2> QED  BY <1>2, <2>1 DEF Flight
<1>11. \A k \in Token : r.hwq.token_status[k] <=> s.hwq.token_status[k] /\ k \notin Gone(s, t)
  BY <1>2 DEF Busy
<1>12. TokensOK(r)
  <2>1. \A u \in Txq, k \in Token : r.txq[u].token_pkt_num = s.txq[u].token_pkt_num
    BY <1>1, <1>2
  <2>2. ASSUME NEW u \in Txq, NEW k \in Token
        PROVE  /\ r.txq[u].token_pkt_num[k] >= 0
               /\ r.txq[u].active => r.txq[u].token_pkt_num[k] = Cardinality(Flight(r, u, k))
               /\ r.txq[u].active /\ r.txq[u].token_pkt_num[k] > 0 => r.hwq.token_status[k]
    <3>1. r.txq[u].token_pkt_num[k] >= 0
      BY <1>8, <2>1 DEF TokensOK
    <3>2. ASSUME r.txq[u].active
          PROVE  /\ r.txq[u].token_pkt_num[k] = Cardinality(Flight(r, u, k))
                 /\ r.txq[u].token_pkt_num[k] > 0 => r.hwq.token_status[k]
      <4>1. u # t /\ r.txq[u] = s.txq[u] /\ s.txq[u].active
        BY <1>9, <3>2
      <4>2. r.txq[u].token_pkt_num[k] = Cardinality(Flight(r, u, k))
        BY <1>8, <1>10, <4>1 DEF TokensOK
      <4>3. r.txq[u].token_pkt_num[k] > 0 => s.hwq.token_status[k] /\ k \notin Gone(s, t)
        BY <1>1, <1>3, <1>8, <4>1 DEF TokensOK, Gone
      <4> QED  BY <1>11, <4>2, <4>3
    <3> QED  BY <3>1, <3>2
  <2>3. \A u, v \in Txq, k \in Token :
          /\ r.txq[u].active /\ r.txq[u].token_pkt_num[k] > 0
          /\ r.txq[v].active /\ r.txq[v].token_pkt_num[k] > 0
          => u = v
    <3>1. \A u \in Txq, k \in Token : r.txq[u].active /\ r.txq[u].token_pkt_num[k] > 0 =>
            s.txq[u].active /\ s.txq[u].token_pkt_num[k] > 0
      BY <1>9
    <3>2. \A u, v \in Txq, k \in Token :
            /\ s.txq[u].active /\ s.txq[u].token_pkt_num[k] > 0
            /\ s.txq[v].active /\ s.txq[v].token_pkt_num[k] > 0
            => u = v
      BY <1>8 DEF TokensOK
    <3> QED  BY ONLY <3>1, <3>2
  <2>4. r.hwq.outstanding_tokens = Cardinality(Busy(r))
    <3>1. IsFiniteSet(Busy(s)) /\ IsFiniteSet(Gone(s, t)) /\ Cardinality(Busy(s)) \in Nat
          /\ Cardinality(Gone(s, t)) \in Nat
      BY GoneIs
    <3>2. Gone(s, t) \subseteq Busy(s)
      BY <1>1, <1>3, <1>8 DEF TokensOK, Gone, Busy
    <3>3. Busy(s) \cap Gone(s, t) = Gone(s, t)
      BY <3>2
    <3>4. Cardinality(Busy(s) \ Gone(s, t)) = Cardinality(Busy(s)) - Cardinality(Gone(s, t))
      BY <3>1, <3>3, FS_Difference
    <3>5. s.hwq.outstanding_tokens = Cardinality(Busy(s))
      BY <1>8 DEF TokensOK
    <3> QED  BY <1>2, <3>4, <3>5
  <2> QED  BY <2>2, <2>3, <2>4 DEF TokensOK
<1>13. SumOK(r)
  BY <1>2 DEF Good, SumOK
<1>14. Good(r, {})
  BY <1>2, <1>6, <1>7, <1>12, <1>13 DEF Good
<1>15. ASSUME Held(s)  PROVE Held(r)
  <2>1. ASSUME NEW k \in Token, r.hwq.token_status[k]
        PROVE  \E u \in Txq : r.txq[u].active /\ r.txq[u].token_pkt_num[k] > 0
    <3>1. s.hwq.token_status[k] /\ k \notin Gone(s, t)
      BY <1>11, <2>1
    <3>2. PICK u \in Txq : s.txq[u].active /\ s.txq[u].token_pkt_num[k] > 0
      BY <1>15, <3>1 DEF Held
    <3>3. u # t
      BY <3>1, <3>2 DEF Gone
    <3> QED  BY <1>2, <3>2, <3>3
  <2> QED  BY <2>1 DEF Held
<1>16. Awake(s) => Awake(r)
  BY <1>2 DEF Awake
<1> QED  BY <1>2, <1>9, <1>14, <1>15, <1>16

\* siwifi_txq_init: a station joins on the queue t.
IsFresh(p, time, set) ==
  /\ p \in Queue /\ QueueOK(p) /\ p.active = TRUE /\ p.stop = set /\ p.sk_list = <<>>
  /\ p.init_time = time /\ p.push_limit = 0 /\ p.ps_active = FALSE
  /\ \A k \in Token : p.token_pkt_num[k] = 0

LEMMA FreshIs ==
  ASSUME NEW time \in 0 .. MaxInit, NEW set \in SUBSET Reasons, NEW ps_id \in PsIds,
         NEW p, p = FreshTxq(time, set, ps_id)
  PROVE  IsFresh(p, time, set)
<1>1. /\ p.active = TRUE /\ p.stop = set /\ p.flow = FALSE /\ p.credits = InitialCredits
      /\ p.sk_list = <<>> /\ p.last_retry_skb = None /\ p.nb_retry = 0 /\ p.push_limit = 0
      /\ p.token_pkt_num = [k \in Token |-> 0] /\ p.init_time = time /\ p.ps_id = ps_id
      /\ p.ps_active = FALSE /\ p.pkt_ready = 0 /\ p.sp_cnt = 0
  BY DEF FreshTxq
<1>2. /\ InitialCredits \in Int /\ InitialCredits > 0 /\ set \in SUBSET Stops /\ "FULL" \notin set
      /\ [k \in Token |-> 0] \in [Token -> Int] /\ <<>> \in Seq(Skb) /\ None \in Skb \cup {None}
  <2>1. InitialCredits \in Int /\ InitialCredits > 0
    BY SchedAssumption DEF SchedAssumption
  <2>2. set \in SUBSET Stops /\ "FULL" \notin set
    BY Names
  <2> QED  BY <2>1, <2>2
<1>3. p \in Queue
  <2>1. PICK no, yes : no = FALSE /\ yes = TRUE /\ no \in BOOLEAN /\ yes \in BOOLEAN
    OBVIOUS
  <2>2. PICK tn : tn = [k \in Token |-> 0]
    OBVIOUS
  <2>3. PICK e : e = <<>>
    OBVIOUS
  <2>4. p = [active |-> yes, stop |-> set, flow |-> no, credits |-> InitialCredits,
              sk_list |-> e, last_retry_skb |-> None, nb_retry |-> 0, push_limit |-> 0,
              token_pkt_num |-> tn, init_time |-> time,
              ps_id |-> ps_id, ps_active |-> no, pkt_ready |-> 0, sp_cnt |-> 0]
    BY <2>1, <2>2, <2>3 DEF FreshTxq
  <2>5. tn \in [Token -> Int] /\ e \in Seq(Skb) /\ 0 \in Nat /\ 0 \in Int
    BY <1>2, <2>2, <2>3
  <2> QED  BY ONLY <1>2, <2>1, <2>4, <2>5, time \in 0 .. MaxInit, ps_id \in PsIds DEF Queue
<1>4. QueueOK(p)
  <2>1. Once(p.sk_list) /\ Len(p.sk_list) = 0
    BY <1>1, NoneIn
  <2> QED  BY <1>1, <1>2, <2>1 DEF QueueOK
<1> QED  BY <1>1, <1>3, <1>4 DEF IsFresh

LEMMA JoinGood ==
  ASSUME NEW s \in State, Good(s, {}), NEW t \in Txq, ~s.txq[t].active,
         s.txq[t].init_time < MaxInit, NEW set \in SUBSET Reasons, NEW ps_id \in PsIds,
         NEW p, p = FreshTxq(s.txq[t].init_time + 1, set, ps_id),
         NEW r, r = SetQ(s, t, p)
  PROVE  /\ r \in State /\ Good(r, {}) /\ r.ring = s.ring /\ r.hwq = s.hwq
         /\ r.txq[t].stop = set /\ \A u \in Txq \ {t} : r.txq[u] = s.txq[u]
         /\ (Held(s) => Held(r)) /\ (Awake(s) => Awake(r))
<1>1. PICK q : q = s.txq[t]
  OBVIOUS
<1>2. q \in Queue /\ QueueOK(q) /\ PlaceOK(s, t) /\ ~q.active
  BY <1>1, StateIs DEF Good
<1>3. q.init_time + 1 \in 0 .. MaxInit /\ q.init_time \in Nat
  <2>1. q.init_time \in 0 .. MaxInit
    BY <1>2 DEF Queue
  <2> QED  BY <1>1, <2>1, SchedAssumption DEF SchedAssumption
<1>4. /\ p \in Queue /\ QueueOK(p) /\ p.active = TRUE /\ p.stop = set /\ p.sk_list = <<>>
      /\ p.init_time = q.init_time + 1 /\ p.push_limit = 0 /\ p.ps_active = FALSE
      /\ \A k \in Token : p.token_pkt_num[k] = 0
  <2>1. PICK time : time = q.init_time + 1
    OBVIOUS
  <2>2. p = FreshTxq(time, set, ps_id) /\ time \in 0 .. MaxInit
    BY <1>1, <1>3, <2>1
  <2>3. IsFresh(p, time, set)
    BY ONLY <2>2, set \in SUBSET Reasons, ps_id \in PsIds, FreshIs
  <2> QED  BY ONLY <2>1, <2>3 DEF IsFresh
<1>5. Only(r, s, t, p)
  BY ONLY s \in State, t \in Txq, r = SetQ(s, t, p), <1>4, SetQIs
<1>6. /\ r \in State /\ r.txq[t] = p /\ \A u \in Txq \ {t} : r.txq[u] = s.txq[u]
      /\ r.hwq = s.hwq /\ r.skb = s.skb /\ r.ring = s.ring /\ r.stuck = s.stuck
      /\ Listed(r) = Listed(s) /\ Busy(r) = Busy(s)
  BY <1>5 DEF Only, Listed, Busy
<1>7. t \notin Listed(s) /\ t \notin s.stuck /\ q.sk_list = <<>>
  BY <1>1, <1>2 DEF PlaceOK, QueueOK
<1>8. \A u \in Txq : QueueOK(r.txq[u]) /\ PlaceOK(r, u)
  <2> TAKE u \in Txq
  <2>1. CASE u = t
    BY <1>4, <1>6, <1>7, <2>1 DEF PlaceOK
  <2>2. CASE u # t
    <3>1. QueueOK(s.txq[u]) /\ PlaceOK(s, u) /\ r.txq[u] = s.txq[u]
      BY <1>6, <2>2 DEF Good
    <3> QED  BY <1>6, <3>1 DEF PlaceOK
  <2> QED  BY <2>1, <2>2
<1>9. Frames(s, {}) /\ TokensOK(s) /\ SumOK(s)
  BY DEF Good
<1>10. ToSet(p.sk_list) = {} /\ ToSet(q.sk_list) = {}
  BY <1>4, <1>7, NoneIn
<1>11. Frames(r, {})
  <2>1. \A u \in Txq : \A f \in ToSet(r.txq[u].sk_list) :
          /\ r.skb[f].txq = u /\ r.skb[f].init_time = r.txq[u].init_time
          /\ f \notin ToSet(r.ring) /\ f \notin {}
    <3> TAKE u \in Txq
    <3>1. CASE u = t
      BY <1>6, <1>10, <3>1
    <3>2. CASE u # t
      <4>1. r.txq[u] = s.txq[u] /\ r.skb = s.skb /\ r.ring = s.ring
        BY <1>6, <3>2
      <4>2. \A f \in ToSet(s.txq[u].sk_list) :
              /\ s.skb[f].txq = u /\ s.skb[f].init_time = s.txq[u].init_time
              /\ f \notin ToSet(s.ring)
        BY <1>9 DEF Frames
      <4> QED  BY ONLY <4>1, <4>2
    <3> QED  BY <3>1, <3>2
  <2>2. ASSUME NEW f \in Skb, r.skb[f].txq \in Txq
        PROVE  /\ r.skb[f].init_time <= r.txq[r.skb[f].txq].init_time
               /\ f \in {} \cup ToSet(r.ring) \cup ToSet(r.txq[r.skb[f].txq].sk_list)
    <3>1. PICK u \in Txq : u = r.skb[f].txq
      BY <2>2
    <3>2. s.skb[f].init_time <= s.txq[u].init_time
          /\ f \in ToSet(s.ring) \cup ToSet(s.txq[u].sk_list)
      BY <1>6, <1>9, <3>1 DEF Frames
    <3>3. CASE u = t
      <4>1. s.skb[f].init_time \in Nat
        BY StateIs DEF Hdr
      <4>2. s.skb[f].init_time <= p.init_time
        BY <1>1, <1>3, <1>4, <3>2, <3>3, <4>1
      <4> QED  BY <1>1, <1>6, <1>10, <3>1, <3>2, <3>3, <4>2
    <3>4. CASE u # t
      BY <1>6, <3>1, <3>2, <3>4
    <3> QED  BY <3>3, <3>4
  <2> QED  BY <1>6, <1>9, <2>1, <2>2 DEF Frames
<1>12. \A u \in Txq \ {t}, k \in Token : Flight(r, u, k) = Flight(s, u, k)
  BY <1>6 DEF Flight
<1>13. \A k \in Token : Flight(r, t, k) = {}
  <2>1. \A f \in ToSet(s.ring) : s.skb[f].txq = t => s.skb[f].init_time # p.init_time
    <3> SUFFICES ASSUME NEW f \in ToSet(s.ring), s.skb[f].txq = t
                 PROVE  s.skb[f].init_time # p.init_time
      OBVIOUS
    <3>1. f \in Skb /\ s.skb[f].init_time <= q.init_time
      BY <1>1, <1>9, StateIs DEF Frames
    <3>2. s.skb[f].init_time \in Nat
      BY <3>1, StateIs DEF Hdr
    <3> QED  BY <1>3, <1>4, <3>1, <3>2
  <2>2. ASSUME NEW k \in Token, NEW f \in Flight(r, t, k)
        PROVE  FALSE
    <3>1. f \in ToSet(s.ring) /\ s.skb[f].txq = t /\ s.skb[f].init_time = p.init_time
      BY ONLY <1>6, <2>2 DEF Flight
    <3> QED  BY ONLY <2>1, <3>1
  <2> QED  BY <2>2
<1>14. TokensOK(r)
  <2>1. ASSUME NEW u \in Txq, NEW k \in Token
        PROVE  /\ r.txq[u].token_pkt_num[k] >= 0
               /\ r.txq[u].active => r.txq[u].token_pkt_num[k] = Cardinality(Flight(r, u, k))
               /\ r.txq[u].active /\ r.txq[u].token_pkt_num[k] > 0 => r.hwq.token_status[k]
    <3>1. CASE u = t
      <4>1. r.txq[u].token_pkt_num[k] = 0 /\ Flight(r, u, k) = {}
        BY <1>4, <1>6, <1>13, <3>1
      <4> QED  BY <4>1, FS_EmptySet
    <3>2. CASE u # t
      BY <1>6, <1>9, <1>12, <3>2 DEF TokensOK
    <3> QED  BY <3>1, <3>2
  <2>2. \A u, v \in Txq, k \in Token :
          /\ r.txq[u].active /\ r.txq[u].token_pkt_num[k] > 0
          /\ r.txq[v].active /\ r.txq[v].token_pkt_num[k] > 0
          => u = v
    <3>1. \A u \in Txq, k \in Token : r.txq[u].active /\ r.txq[u].token_pkt_num[k] > 0 =>
            s.txq[u].active /\ s.txq[u].token_pkt_num[k] > 0
      <4> TAKE u \in Txq, k \in Token
      <4>1. CASE u = t
        <5>1. r.txq[u].token_pkt_num[k] = 0
          BY <1>4, <1>6, <4>1
        <5> QED  BY <5>1
      <4>2. CASE u # t
        BY <1>6, <4>2
      <4> QED  BY <4>1, <4>2
    <3>2. \A u, v \in Txq, k \in Token :
            /\ s.txq[u].active /\ s.txq[u].token_pkt_num[k] > 0
            /\ s.txq[v].active /\ s.txq[v].token_pkt_num[k] > 0
            => u = v
      BY <1>9 DEF TokensOK
    <3> QED  BY ONLY <3>1, <3>2
  <2> QED  BY <1>6, <1>9, <2>1, <2>2 DEF TokensOK
<1>15. SumOK(r)
  BY <1>6, <1>9 DEF SumOK
<1>16. Good(r, {})
  BY <1>6, <1>8, <1>11, <1>14, <1>15 DEF Good
<1>17. Held(s) => Held(r)
  <2> SUFFICES ASSUME Held(s), NEW k \in Token, r.hwq.token_status[k]
               PROVE  \E u \in Txq : r.txq[u].active /\ r.txq[u].token_pkt_num[k] > 0
    BY DEF Held
  <2>1. PICK u \in Txq : s.txq[u].active /\ s.txq[u].token_pkt_num[k] > 0
    BY <1>6 DEF Held
  <2>2. u # t
    BY <2>1
  <2> QED  BY <1>6, <2>1, <2>2
<1>18. Awake(s) => Awake(r)
  BY <1>6 DEF Awake
<1> QED  BY <1>4, <1>6, <1>16, <1>17, <1>18

\* The temperature control.
LEMMA AdjustGood ==
  ASSUME NEW s \in State, Good(s, {}), NEW dec \in 0 .. Size - 1, NEW r \in State,
         r.txq = s.txq, r.skb = s.skb, r.ring = s.ring, r.stuck = s.stuck,
         r.hwq = [s.hwq EXCEPT !.credits = @ - (dec - s.hwq.dec), !.dec = dec]
  PROVE  /\ Good(r, {}) /\ (Held(s) => Held(r)) /\ (Awake(s) => Awake(r))
<1>1. s.hwq \in HwQueue
  BY StateIs
<1>2. /\ r.hwq.list = s.hwq.list /\ r.hwq.need_processing = s.hwq.need_processing
      /\ r.hwq.token_status = s.hwq.token_status
      /\ r.hwq.outstanding_tokens = s.hwq.outstanding_tokens
      /\ r.hwq.credits = s.hwq.credits - (dec - s.hwq.dec) /\ r.hwq.dec = dec
      /\ s.hwq.credits \in Int /\ s.hwq.dec \in Int
  BY <1>1 DEF HwQueue
<1>3. Listed(r) = Listed(s) /\ Busy(r) = Busy(s)
  BY <1>2 DEF Listed, Busy
<1>4. \A t \in Txq : QueueOK(r.txq[t]) /\ PlaceOK(r, t)
  BY <1>3 DEF Good, PlaceOK
<1>5. Frames(r, {})
  BY DEF Good, Frames
<1>6. TokensOK(r)
  BY <1>2, TokensSame DEF Good
<1>7. SumOK(r)
  <2>1. SumOK(s) /\ Len(s.ring) \in Nat /\ Size \in Int
    BY StateIs, SchedAssumption DEF Good, SchedAssumption
  <2> QED  BY <1>2, <2>1 DEF SumOK
<1>8. Held(s) => Held(r)
  BY <1>2 DEF Held
<1>9. Awake(s) => Awake(r)
  BY <1>2, <1>3 DEF Awake
<1> QED  BY <1>4, <1>5, <1>6, <1>7, <1>8, <1>9 DEF Good

\* The firmware completes a frame.
LEMMA FwDoneGood ==
  ASSUME NEW s \in State, Good(s, {}), NEW r \in State,
         r.txq = s.txq, r.hwq = s.hwq, r.ring = s.ring, r.stuck = s.stuck,
         \A f \in Skb : /\ r.skb[f].txq = s.skb[f].txq
                        /\ r.skb[f].init_time = s.skb[f].init_time
                        /\ r.skb[f].token = s.skb[f].token
  PROVE  /\ Good(r, {}) /\ (Held(s) => Held(r)) /\ (Awake(s) => Awake(r))
<1>1. Listed(r) = Listed(s) /\ Busy(r) = Busy(s)
  BY DEF Listed, Busy
<1>2. \A t \in Txq : QueueOK(r.txq[t]) /\ PlaceOK(r, t)
  BY <1>1 DEF Good, PlaceOK
<1>3. ToSet(s.ring) \subseteq Skb /\ \A t \in Txq : ToSet(s.txq[t].sk_list) \subseteq Skb
  BY StateIs
<1>4. Frames(r, {})
  BY <1>3 DEF Good, Frames
<1>5. TokensOK(r)
  BY <1>3, TokensSame DEF Good
<1>6. SumOK(r)
  BY DEF Good, SumOK
<1>7. (Held(s) => Held(r)) /\ (Awake(s) => Awake(r))
  BY <1>1 DEF Held, Awake
<1> QED  BY <1>2, <1>4, <1>5, <1>6, <1>7 DEF Good
=============================================================================
