----------------------------- MODULE TxRingProofs -----------------------------
(* The ring of descriptors is a FIFO of at most N frames, for every size of   *)
(* the ring that divides the range of its indices.                            *)
EXTENDS TxRing, SequenceTheorems, TLAPS

-----------------------------------------------------------------------------
(* Remainders *)

LEMMA Division ==
  ASSUME NEW m \in Nat \ {0}, NEW a \in Int
  PROVE  a % m \in 0 .. m - 1 /\ a \div m \in Int /\ a = m * (a \div m) + (a % m)
OBVIOUS

LEMMA Multiple ==
  ASSUME NEW m \in Nat \ {0}, NEW d \in Int, d # 0
  PROVE  m * d >= m \/ m * d <= -m
<1>1. CASE d >= 1
  BY <1>1
<1>2. CASE d <= -1
  BY <1>2
<1> QED
  BY <1>1, <1>2

LEMMA UniqueRemainder ==
  ASSUME NEW m \in Nat \ {0}, NEW q \in Int, NEW p \in Int,
         NEW r \in 0 .. m - 1, NEW s \in 0 .. m - 1, m * q + r = m * p + s
  PROVE  q = p /\ r = s
<1>1. m * (q - p) = s - r /\ q - p \in Int
  OBVIOUS
<1>2. q - p = 0
  BY <1>1, Multiple
<1> QED
  BY <1>1, <1>2

LEMMA Remainder ==
  ASSUME NEW m \in Nat \ {0}, NEW q \in Int, NEW r \in 0 .. m - 1
  PROVE  (m * q + r) % m = r
<1>1. m * q + r \in Int
  OBVIOUS
<1>2. PICK a \in Int : a = m * q + r
  BY <1>1
<1>3. a % m \in 0 .. m - 1 /\ a \div m \in Int /\ a = m * (a \div m) + (a % m)
  BY Division
<1>4. PICK p \in Int, s \in 0 .. m - 1 : p = a \div m /\ s = a % m
  BY <1>3
<1>5. m * q + r = m * p + s
  BY <1>2, <1>3, <1>4
<1>6. r = s
  BY <1>5, UniqueRemainder
<1> QED
  BY <1>2, <1>4, <1>6

-----------------------------------------------------------------------------
(* The indices and the slots *)

LEMMA SuccIs ==
  ASSUME NEW x \in 0 .. W - 1
  PROVE  Succ(x) = IF x + 1 < W THEN x + 1 ELSE 0
<1>1. CASE x + 1 < W
  <2>1. W * 0 + (x + 1) = x + 1 /\ x + 1 \in 0 .. W - 1
    BY <1>1, RingAssumption
  <2> QED
    BY <1>1, <2>1, Remainder, RingAssumption DEF Succ
<1>2. CASE x + 1 >= W
  <2>1. W * 1 + 0 = x + 1 /\ 0 \in 0 .. W - 1
    BY <1>2, RingAssumption
  <2> QED
    BY <1>2, <2>1, Remainder, RingAssumption DEF Succ
<1> QED
  BY <1>1, <1>2, RingAssumption

\* How many slots lie from one index to another.
Dist(a, b) == (a - b) % W

LEMMA DistIs ==
  ASSUME NEW a \in 0 .. W - 1, NEW b \in 0 .. W - 1
  PROVE  Dist(a, b) = IF a >= b THEN a - b ELSE a - b + W
<1>1. CASE a >= b
  <2>1. W * 0 + (a - b) = a - b /\ a - b \in 0 .. W - 1
    BY <1>1, RingAssumption
  <2> QED
    BY <1>1, <2>1, Remainder, RingAssumption DEF Dist
<1>2. CASE a < b
  <2>1. W * (-1) + (a - b + W) = a - b /\ a - b + W \in 0 .. W - 1
    BY <1>2, RingAssumption
  <2> QED
    BY <1>2, <2>1, Remainder, RingAssumption DEF Dist
<1> QED
  BY <1>1, <1>2, RingAssumption

LEMMA SlotType ==
  ASSUME NEW x \in Int
  PROVE  Slot(x) \in 0 .. N - 1
BY Division, RingAssumption DEF Slot

\* Fewer than N indices in a row have slots of their own.
LEMMA SlotsApart ==
  ASSUME NEW x \in Int, NEW y \in Int, x < y, y - x < N
  PROVE  Slot(x) # Slot(y)
<1> SUFFICES ASSUME x % N = y % N PROVE FALSE
  BY DEF Slot
<1>1. /\ x = N * (x \div N) + (x % N) /\ y = N * (y \div N) + (y % N)
      /\ x \div N \in Int /\ y \div N \in Int /\ x % N \in Int
  BY Division, RingAssumption
<1>2. y - x = N * ((y \div N) - (x \div N)) /\ (y \div N) - (x \div N) \in Int
  BY <1>1, RingAssumption
<1>3. (y \div N) - (x \div N) # 0
  BY <1>2, RingAssumption
<1> QED
  BY <1>2, <1>3, Multiple, RingAssumption

\* Adding a multiple of the divisor changes no remainder.
LEMMA SameSlot ==
  ASSUME NEW x \in Int, NEW p \in Int
  PROVE  Slot(x + N * p) = Slot(x)
<1>1. /\ x = N * (x \div N) + (x % N) /\ x \div N \in Int /\ x % N \in 0 .. N - 1
      /\ N \in Nat \ {0}
  BY Division, RingAssumption
<1>2. PICK q \in Int, r \in 0 .. N - 1 : q = x \div N /\ r = x % N /\ x = N * q + r
  BY <1>1
<1>3. x + N * p = N * (q + p) + r /\ q + p \in Int
  BY <1>1, <1>2
<1>4. (N * (q + p) + r) % N = r
  BY <1>1, <1>3, Remainder
<1> QED
  BY <1>2, <1>3, <1>4 DEF Slot

\* The indices wrap at a multiple of N, so that the slots follow one another there.
LEMMA SlotWraps ==
  ASSUME NEW x \in Int
  PROVE  Slot(x + W) = Slot(x)
<1>1. W = N * (W \div N) /\ W \div N \in Int
  BY Division, RingAssumption
<1> QED
  BY <1>1, SameSlot

LEMMA SlotSucc ==
  ASSUME NEW x \in 0 .. W - 1, NEW k \in Int
  PROVE  Slot(Succ(x) + k) = Slot(x + k + 1)
<1>1. CASE x + 1 < W
  BY <1>1, SuccIs, RingAssumption
<1>2. CASE x + 1 = W
  BY <1>2, SuccIs, SlotWraps, RingAssumption
<1> QED
  BY <1>1, <1>2, RingAssumption

LEMMA SlotDist ==
  ASSUME NEW a \in 0 .. W - 1, NEW b \in 0 .. W - 1
  PROVE  Slot(b + Dist(a, b)) = Slot(a)
<1>1. CASE a >= b
  BY <1>1, DistIs, RingAssumption
<1>2. CASE a < b
  BY <1>2, DistIs, SlotWraps, RingAssumption
<1> QED
  BY <1>1, <1>2, RingAssumption

LEMMA DistSucc ==
  ASSUME NEW a \in 0 .. W - 1, NEW b \in 0 .. W - 1
  PROVE  /\ Dist(a, b) \in 0 .. W - 1
         /\ Dist(a, b) < N => Dist(Succ(a), b) = Dist(a, b) + 1
         /\ Dist(a, b) > 0 => Dist(a, Succ(b)) = Dist(a, b) - 1
         /\ Succ(a) \in 0 .. W - 1
<1>1. Succ(a) \in 0 .. W - 1 /\ Succ(b) \in 0 .. W - 1
  BY SuccIs, RingAssumption
<1>2. Dist(a, b) \in 0 .. W - 1
  BY DistIs, RingAssumption
<1>3. Dist(a, b) < N => Dist(Succ(a), b) = Dist(a, b) + 1
  <2>1. Dist(Succ(a), b) = IF Succ(a) >= b THEN Succ(a) - b ELSE Succ(a) - b + W
    BY <1>1, DistIs
  <2> QED
    BY <2>1, DistIs, SuccIs, RingAssumption
<1>4. Dist(a, b) > 0 => Dist(a, Succ(b)) = Dist(a, b) - 1
  <2>1. Dist(a, Succ(b)) = IF a >= Succ(b) THEN a - Succ(b) ELSE a - Succ(b) + W
    BY <1>1, DistIs
  <2> QED
    BY <2>1, DistIs, SuccIs, RingAssumption
<1> QED
  BY <1>1, <1>2, <1>3, <1>4

LEMMA SlotTurns ==
  ASSUME NEW x \in Int
  PROVE  Slot(x + N) = Slot(x)
<1>1. N = N * 1 /\ 1 \in Int
  BY RingAssumption
<1> QED
  BY <1>1, SameSlot

LEMMA PlacesApart ==
  ASSUME NEW u \in Int, NEW j \in 0 .. N - 1, NEW k \in 0 .. N - 1, j # k
  PROVE  Slot(u + j) # Slot(u + k)
<1>1. CASE j < k
  BY <1>1, SlotsApart, RingAssumption
<1>2. CASE k < j
  BY <1>2, SlotsApart, RingAssumption
<1> QED
  BY <1>1, <1>2, RingAssumption

-----------------------------------------------------------------------------
(* The window of a ring: the frames between two indices. *)

States == {"free", "ready", "sent", "done"}

\* From u to v the ring holds the frames that are not free, each once, and
\* nothing else.
Window(u, v, ring, st) ==
  /\ u \in 0 .. W - 1 /\ v \in 0 .. W - 1
  /\ ring \in [0 .. N - 1 -> Skb \cup {None}]
  /\ st \in [Skb -> States]
  /\ Dist(v, u) <= N
  /\ \A k \in 0 .. Dist(v, u) - 1 : ring[Slot(u + k)] \in Skb
  /\ \A k \in Dist(v, u) .. N - 1 : ring[Slot(u + k)] = None
  /\ \A j, k \in 0 .. Dist(v, u) - 1 : ring[Slot(u + j)] = ring[Slot(u + k)] => j = k
  /\ \A f \in Skb : st[f] # "free" <=> \E k \in 0 .. Dist(v, u) - 1 : ring[Slot(u + k)] = f

\* What it holds, oldest first.
Contents(u, v, ring) == [i \in 1 .. Dist(v, u) |-> ring[Slot(u + i - 1)]]

LEMMA ContentsSeq ==
  ASSUME NEW u, NEW v, NEW ring, NEW st, Window(u, v, ring, st)
  PROVE  /\ Dist(v, u) \in 0 .. N
         /\ Contents(u, v, ring) \in Seq(Skb)
         /\ Len(Contents(u, v, ring)) = Dist(v, u)
         /\ \A i \in 1 .. Dist(v, u) : Contents(u, v, ring)[i] = ring[Slot(u + i - 1)]
<1>1. Dist(v, u) \in 0 .. N
  BY DistSucc, RingAssumption DEF Window
<1>2. ASSUME NEW i \in 1 .. Dist(v, u)
      PROVE  ring[Slot(u + i - 1)] \in Skb
  <2>1. i - 1 \in 0 .. Dist(v, u) - 1 /\ u + i - 1 = u + (i - 1)
    BY <1>1, RingAssumption DEF Window
  <2> QED
    BY <2>1 DEF Window
<1>3. Contents(u, v, ring) \in [1 .. Dist(v, u) -> Skb] /\ Dist(v, u) \in Nat
  BY <1>1, <1>2, RingAssumption DEF Contents
<1>4. Contents(u, v, ring) \in Seq(Skb)
  BY <1>3, SeqDef
<1>5. Len(Contents(u, v, ring)) = Dist(v, u)
  BY <1>3, <1>4, LenProperties
<1> QED
  BY <1>1, <1>4, <1>5 DEF Contents

Put(a, b, x, y) == b = [a EXCEPT ![x] = y]

\* A frame is put at the end of the window.
LEMMA PushWindow ==
  ASSUME NEW u, NEW v, NEW ring, NEW st, Window(u, v, ring, st), Dist(v, u) < N,
         NEW f \in Skb, st[f] = "free",
         NEW ring2, Put(ring, ring2, Slot(v), f), NEW st2, Put(st, st2, f, "ready")
  PROVE  /\ Window(u, Succ(v), ring2, st2)
         /\ Dist(Succ(v), u) = Dist(v, u) + 1
         /\ Contents(u, Succ(v), ring2) = Append(Contents(u, v, ring), f)
<1> DEFINE n == Dist(v, u)
<1>1. /\ n \in 0 .. N - 1 /\ u \in 0 .. W - 1 /\ v \in 0 .. W - 1 /\ n + 1 <= N
      /\ Dist(Succ(v), u) = n + 1 /\ Succ(v) \in 0 .. W - 1
  <2>1. u \in 0 .. W - 1 /\ v \in 0 .. W - 1
    BY DEF Window
  <2>2. n \in 0 .. W - 1 /\ n < N /\ Dist(Succ(v), u) = n + 1 /\ Succ(v) \in 0 .. W - 1
    BY <2>1, DistSucc
  <2> QED
    BY <2>1, <2>2, RingAssumption
<1>2. Slot(v) = Slot(u + n) /\ \A k \in 0 .. N - 1 : Slot(u + k) \in 0 .. N - 1
  BY <1>1, SlotDist, SlotType, RingAssumption
<1>3. /\ ring2[Slot(u + n)] = f
      /\ \A k \in 0 .. N - 1 : k # n => ring2[Slot(u + k)] = ring[Slot(u + k)]
  <2>1. ring2[Slot(u + n)] = f
    BY <1>1, <1>2 DEF Window, Put
  <2>2. ASSUME NEW k \in 0 .. N - 1, k # n
        PROVE  ring2[Slot(u + k)] = ring[Slot(u + k)]
    <3>1. Slot(u + k) # Slot(u + n) /\ Slot(u + k) \in 0 .. N - 1
      <4>1. u \in Int /\ n \in 0 .. N - 1
        BY <1>1, RingAssumption
      <4> HIDE DEF n
      <4>2. Slot(u + k) # Slot(u + n)
        BY <2>2, <4>1, PlacesApart
      <4> QED
        BY <1>2, <4>2
    <3>2. Slot(u + k) # Slot(v)
      BY <1>2, <3>1
    <3> QED
      BY <3>1, <3>2 DEF Window, Put
  <2> QED
    BY <2>1, <2>2
<1>4. ring2 \in [0 .. N - 1 -> Skb \cup {None}] /\ st2 \in [Skb -> States]
  BY DEF Window, States, Put
<1> HIDE DEF n
<1>5. \A k \in 0 .. n - 1 : ring[Slot(u + k)] \in Skb
  BY DEF Window, n
<1>6. \A k \in n .. N - 1 : ring[Slot(u + k)] = None
  BY DEF Window, n
<1>7. \A j, k \in 0 .. n - 1 : ring[Slot(u + j)] = ring[Slot(u + k)] => j = k
  BY DEF Window, n
<1>8. \A g \in Skb : st[g] # "free" <=> \E k \in 0 .. n - 1 : ring[Slot(u + k)] = g
  BY DEF Window, n
<1>9. \A k \in 0 .. n - 1 : ring2[Slot(u + k)] = ring[Slot(u + k)] /\ ring[Slot(u + k)] # f
  BY <1>1, <1>3, <1>8, RingAssumption
<1>10. \A k \in 0 .. n : k = n \/ k \in 0 .. n - 1
  BY <1>1, RingAssumption
<1>11. \A k \in 0 .. (n + 1) - 1 : ring2[Slot(u + k)] \in Skb
  BY <1>1, <1>3, <1>5, <1>9, <1>10
<1>12. \A k \in n + 1 .. N - 1 : ring2[Slot(u + k)] = None
  BY <1>1, <1>3, <1>6
<1>13. \A j, k \in 0 .. (n + 1) - 1 : ring2[Slot(u + j)] = ring2[Slot(u + k)] => j = k
  <2> SUFFICES ASSUME NEW j \in 0 .. n, NEW k \in 0 .. n,
                      ring2[Slot(u + j)] = ring2[Slot(u + k)]
               PROVE  j = k
    BY <1>1
  <2> QED
    BY <1>3, <1>7, <1>9, <1>10
<1>14. \A g \in Skb : st2[g] # "free" <=> \E k \in 0 .. (n + 1) - 1 : ring2[Slot(u + k)] = g
  <2> SUFFICES ASSUME NEW g \in Skb
               PROVE  st2[g] # "free" <=> \E k \in 0 .. n : ring2[Slot(u + k)] = g
    BY <1>1
  <2>1. CASE g = f
    <3>1. st2[g] # "free" /\ n \in 0 .. n
      BY <1>1, <2>1 DEF Window, Put
    <3> QED
      BY <1>3, <2>1, <3>1
  <2>2. CASE g # f
    <3>1. st2[g] = st[g]
      BY <2>2 DEF Window, Put
    <3>2. (\E k \in 0 .. n : ring2[Slot(u + k)] = g) <=> (\E k \in 0 .. n - 1 : ring[Slot(u + k)] = g)
      <4>1. ASSUME NEW k \in 0 .. n, ring2[Slot(u + k)] = g
            PROVE  \E i \in 0 .. n - 1 : ring[Slot(u + i)] = g
        BY <1>3, <1>9, <1>10, <2>2, <4>1
      <4>2. ASSUME NEW k \in 0 .. n - 1, ring[Slot(u + k)] = g
            PROVE  \E i \in 0 .. n : ring2[Slot(u + i)] = g
        <5>1. k \in 0 .. n
          BY <1>1, RingAssumption
        <5> QED
          BY <1>9, <4>2, <5>1
      <4> QED
        BY <4>1, <4>2
    <3> QED
      BY <1>8, <3>1, <3>2
  <2> QED
    BY <2>1, <2>2
<1>15. Window(u, Succ(v), ring2, st2)
  <2> DEFINE d == Dist(Succ(v), u)
  <2>1. d = n + 1 /\ d <= N
    BY <1>1
  <2> HIDE DEF d
  <2>2. \A k \in 0 .. d - 1 : ring2[Slot(u + k)] \in Skb
    BY <1>11, <2>1
  <2>3. \A k \in d .. N - 1 : ring2[Slot(u + k)] = None
    BY <1>12, <2>1
  <2>4. \A j, k \in 0 .. d - 1 : ring2[Slot(u + j)] = ring2[Slot(u + k)] => j = k
    BY <1>13, <2>1
  <2>5. \A g \in Skb : st2[g] # "free" <=> \E k \in 0 .. d - 1 : ring2[Slot(u + k)] = g
    BY <1>14, <2>1
  <2> QED
    BY <1>1, <1>4, <2>1, <2>2, <2>3, <2>4, <2>5 DEF Window, d
<1>16. Contents(u, Succ(v), ring2) = Append(Contents(u, v, ring), f)
  <2>1. /\ Contents(u, v, ring) \in Seq(Skb) /\ Len(Contents(u, v, ring)) = n
        /\ \A i \in 1 .. n : Contents(u, v, ring)[i] = ring[Slot(u + i - 1)]
    BY ContentsSeq DEF n
  <2>2. /\ Contents(u, Succ(v), ring2) \in Seq(Skb) /\ Len(Contents(u, Succ(v), ring2)) = n + 1
        /\ \A i \in 1 .. n + 1 : Contents(u, Succ(v), ring2)[i] = ring2[Slot(u + i - 1)]
    BY <1>1, <1>15, ContentsSeq
  <2>3. \A i \in 1 .. n : i - 1 \in 0 .. n - 1 /\ u + i - 1 = u + (i - 1)
    BY <1>1, RingAssumption
  <2>4. u + (n + 1) - 1 = u + n /\ n + 1 \in 1 .. n + 1
    BY <1>1, RingAssumption
  <2>5. \A i \in 1 .. n : Contents(u, Succ(v), ring2)[i] = Contents(u, v, ring)[i]
    <3> SUFFICES ASSUME NEW i \in 1 .. n
                 PROVE  Contents(u, Succ(v), ring2)[i] = Contents(u, v, ring)[i]
      OBVIOUS
    <3>1. i \in 1 .. n + 1
      BY <1>1, RingAssumption
    <3>2. ring2[Slot(u + i - 1)] = ring[Slot(u + i - 1)]
      BY <1>9, <2>3
    <3> QED
      BY <2>1, <2>2, <3>1, <3>2
  <2>6. Contents(u, Succ(v), ring2)[n + 1] = f
    BY <1>3, <2>2, <2>4
  <2>7. /\ Append(Contents(u, v, ring), f) \in Seq(Skb)
        /\ Len(Append(Contents(u, v, ring), f)) = n + 1
        /\ \A i \in 1 .. n : Append(Contents(u, v, ring), f)[i] = Contents(u, v, ring)[i]
        /\ Append(Contents(u, v, ring), f)[n + 1] = f
    BY <2>1, AppendProperties
  <2>8. \A i \in 1 .. n + 1 : i \in 1 .. n \/ i = n + 1
    BY <1>1, RingAssumption
  <2>9. \A i \in 1 .. n + 1 : Contents(u, Succ(v), ring2)[i] = Append(Contents(u, v, ring), f)[i]
    BY <2>5, <2>6, <2>7, <2>8
  <2> QED
    BY <2>2, <2>7, <2>9, SeqEqual
<1> QED
  BY <1>1, <1>15, <1>16 DEF n

\* The oldest frame leaves the window.
LEMMA LeaveWindow ==
  ASSUME NEW u, NEW v, NEW ring, NEW st, Window(u, v, ring, st), ring[Slot(u)] # None
  PROVE  /\ ring[Slot(u)] \in Skb
         /\ Window(Succ(u), v, [ring EXCEPT ![Slot(u)] = None],
                   [st EXCEPT ![ring[Slot(u)]] = "free"])
         /\ Dist(v, u) > 0 /\ Dist(v, Succ(u)) = Dist(v, u) - 1
         /\ Contents(Succ(u), v, [ring EXCEPT ![Slot(u)] = None])
              = Tail(Contents(u, v, ring))
<1> DEFINE n == Dist(v, u)
           f == ring[Slot(u)]
           u2 == Succ(u)
           ring2 == [ring EXCEPT ![Slot(u)] = None]
           st2 == [st EXCEPT ![f] = "free"]
<1>0. u \in 0 .. W - 1 /\ v \in 0 .. W - 1 /\ n \in 0 .. N
  <2>1. u \in 0 .. W - 1 /\ v \in 0 .. W - 1
    BY DEF Window
  <2>2. n \in 0 .. N
    BY ContentsSeq
  <2> QED
    BY <2>1, <2>2
<1>1. n > 0 /\ Slot(u + 0) = Slot(u) /\ 0 \in 0 .. n - 1 /\ f \in Skb
  <2>1. u + 0 = u
    BY <1>0, RingAssumption
  <2>2. n # 0
    <3> SUFFICES ASSUME n = 0 PROVE FALSE
      OBVIOUS
    <3>1. 0 \in n .. N - 1
      BY RingAssumption
    <3> QED
      BY <2>1, <3>1 DEF Window
  <2>3. 0 \in 0 .. n - 1
    BY <1>0, <2>2, RingAssumption
  <2>4. f \in Skb
    BY <2>1, <2>3 DEF Window
  <2> QED
    BY <1>0, <2>1, <2>2, <2>3, <2>4, RingAssumption
<1>2. Dist(v, u2) = n - 1 /\ u2 \in 0 .. W - 1
  BY <1>0, <1>1, DistSucc
<1>3. \A k \in 0 .. N - 1 : Slot(u2 + k) = Slot(u + (k + 1)) /\ Slot(u2 + k) \in 0 .. N - 1
                            /\ Slot(u + k) \in 0 .. N - 1
  <2> SUFFICES ASSUME NEW k \in 0 .. N - 1
               PROVE  Slot(u2 + k) = Slot(u + (k + 1)) /\ Slot(u2 + k) \in 0 .. N - 1
                      /\ Slot(u + k) \in 0 .. N - 1
    OBVIOUS
  <2>1. Slot(u2 + k) = Slot(u + k + 1) /\ u + k + 1 = u + (k + 1)
    BY <1>0, SlotSucc, RingAssumption
  <2>2. u2 + k \in Int /\ u + k \in Int
    BY <1>0, <1>2, RingAssumption
  <2> QED
    BY <2>1, <2>2, SlotType
<1>4. \A k \in 0 .. N - 2 : ring2[Slot(u2 + k)] = ring[Slot(u + (k + 1))]
  <2> SUFFICES ASSUME NEW k \in 0 .. N - 2
               PROVE  ring2[Slot(u2 + k)] = ring[Slot(u + (k + 1))]
    OBVIOUS
  <2>1. k \in 0 .. N - 1 /\ k + 1 \in 0 .. N - 1 /\ k + 1 # 0 /\ 0 \in 0 .. N - 1
    BY RingAssumption
  <2>2. Slot(u + (k + 1)) # Slot(u)
    <3>1. u \in Int
      BY <1>0, RingAssumption
    <3>2. Slot(u + (k + 1)) # Slot(u + 0)
      BY <2>1, <3>1, PlacesApart
    <3> QED
      BY <1>1, <3>2
  <2> QED
    BY <1>3, <2>1, <2>2 DEF Window
<1>5. ring2[Slot(u2 + (N - 1))] = None
  <2>1. N - 1 \in 0 .. N - 1 /\ u + ((N - 1) + 1) = u + N
    BY <1>0, RingAssumption
  <2>2. Slot(u2 + (N - 1)) = Slot(u)
    BY <1>0, <1>3, <2>1, SlotTurns
  <2> QED
    BY <1>3, <2>1, <2>2 DEF Window
<1>6. ring2 \in [0 .. N - 1 -> Skb \cup {None}] /\ st2 \in [Skb -> States]
  BY DEF Window, States
<1> HIDE DEF n, u2, ring2, st2
<1>7. \A k \in 0 .. n - 2 : /\ k \in 0 .. N - 2 /\ k + 1 \in 0 .. n - 1 /\ k + 1 # 0
                            /\ ring2[Slot(u2 + k)] = ring[Slot(u + (k + 1))]
  BY <1>0, <1>4, RingAssumption
<1>8. \A k \in 0 .. (n - 1) - 1 : ring2[Slot(u2 + k)] \in Skb
  <2> SUFFICES ASSUME NEW k \in 0 .. n - 2 PROVE ring2[Slot(u2 + k)] \in Skb
    BY <1>0, RingAssumption
  <2> QED
    BY <1>7 DEF Window, n
<1>9. \A k \in n - 1 .. N - 1 : ring2[Slot(u2 + k)] = None
  <2> SUFFICES ASSUME NEW k \in n - 1 .. N - 1, k # N - 1 PROVE ring2[Slot(u2 + k)] = None
    BY <1>5
  <2>1. k \in 0 .. N - 2 /\ k + 1 \in n .. N - 1
    BY <1>0, <1>1, RingAssumption
  <2> QED
    BY <1>4, <2>1 DEF Window, n
<1>10. \A j, k \in 0 .. (n - 1) - 1 : ring2[Slot(u2 + j)] = ring2[Slot(u2 + k)] => j = k
  <2> SUFFICES ASSUME NEW j \in 0 .. n - 2, NEW k \in 0 .. n - 2,
                      ring2[Slot(u2 + j)] = ring2[Slot(u2 + k)]
               PROVE  j = k
    BY <1>0, RingAssumption
  <2>1. j + 1 = k + 1
    BY <1>7 DEF Window, n
  <2> QED
    BY <2>1
<1>11. \A g \in Skb : st2[g] # "free" <=> \E k \in 0 .. (n - 1) - 1 : ring2[Slot(u2 + k)] = g
  <2> SUFFICES ASSUME NEW g \in Skb
               PROVE  st2[g] # "free" <=> \E k \in 0 .. n - 2 : ring2[Slot(u2 + k)] = g
    BY <1>0, RingAssumption
  <2>1. (\E k \in 0 .. n - 2 : ring2[Slot(u2 + k)] = g)
          <=> (\E k \in 0 .. n - 1 : k # 0 /\ ring[Slot(u + k)] = g)
    <3>1. ASSUME NEW k \in 0 .. n - 2, ring2[Slot(u2 + k)] = g
          PROVE  \E i \in 0 .. n - 1 : i # 0 /\ ring[Slot(u + i)] = g
      BY <1>7, <3>1
    <3>2. ASSUME NEW k \in 0 .. n - 1, k # 0, ring[Slot(u + k)] = g
          PROVE  \E i \in 0 .. n - 2 : ring2[Slot(u2 + i)] = g
      <4>1. k - 1 \in 0 .. n - 2 /\ (k - 1) + 1 = k
        BY <1>0, <3>2, RingAssumption
      <4> QED
        BY <1>7, <3>2, <4>1
    <3> QED
      BY <3>1, <3>2
  <2>2. CASE g = f
    <3>1. st2[g] = "free"
      BY <2>2 DEF Window, st2
    <3>2. \A k \in 0 .. n - 1 : ring[Slot(u + k)] = f => k = 0
      BY <1>1 DEF Window, n
    <3> QED
      BY <2>1, <2>2, <3>1, <3>2
  <2>3. CASE g # f
    <3>1. st2[g] = st[g]
      BY <2>3 DEF Window, st2
    <3>2. st[g] # "free" <=> \E k \in 0 .. n - 1 : ring[Slot(u + k)] = g
      BY DEF Window, n
    <3> QED
      BY <1>1, <2>1, <2>3, <3>1, <3>2
  <2> QED
    BY <2>2, <2>3
<1>12. Window(u2, v, ring2, st2)
  <2>1. n - 1 <= N
    BY <1>0, RingAssumption
  <2> QED
    BY <1>0, <1>2, <1>6, <1>8, <1>9, <1>10, <1>11, <2>1 DEF Window
<1>13. Contents(u2, v, ring2) = Tail(Contents(u, v, ring))
  <2>1. /\ Contents(u, v, ring) \in Seq(Skb) /\ Len(Contents(u, v, ring)) = n
        /\ \A i \in 1 .. n : Contents(u, v, ring)[i] = ring[Slot(u + i - 1)]
    BY ContentsSeq DEF n
  <2>2. /\ Contents(u2, v, ring2) \in Seq(Skb) /\ Len(Contents(u2, v, ring2)) = n - 1
        /\ \A i \in 1 .. n - 1 : Contents(u2, v, ring2)[i] = ring2[Slot(u2 + i - 1)]
    BY <1>2, <1>12, ContentsSeq
  <2>3. Contents(u, v, ring) # <<>>
    BY <1>1, <2>1, EmptySeq
  <2>4. /\ Tail(Contents(u, v, ring)) \in Seq(Skb) /\ Len(Tail(Contents(u, v, ring))) = n - 1
        /\ \A i \in 1 .. n - 1 : Tail(Contents(u, v, ring))[i] = Contents(u, v, ring)[i + 1]
    BY <2>1, <2>3, HeadTailProperties
  <2>5. ASSUME NEW i \in 1 .. n - 1
        PROVE  Contents(u2, v, ring2)[i] = Tail(Contents(u, v, ring))[i]
    <3>1. /\ i - 1 \in 0 .. n - 2 /\ u2 + i - 1 = u2 + (i - 1) /\ i + 1 \in 1 .. n
          /\ u + ((i - 1) + 1) = u + (i + 1) - 1
      BY <1>0, <1>2, RingAssumption
    <3>2. ring2[Slot(u2 + (i - 1))] = ring[Slot(u + ((i - 1) + 1))]
      BY <1>7, <3>1
    <3> QED
      BY <2>1, <2>2, <2>4, <3>1, <3>2
  <2> QED
    BY <2>2, <2>4, <2>5, SeqEqual
<1> QED
  BY <1>1, <1>2, <1>12, <1>13 DEF n, u2, ring2, st2

\* The frames change their state, none of them from or to free.
LEMMA SameWindow ==
  ASSUME NEW u, NEW v, NEW ring, NEW st, Window(u, v, ring, st),
         NEW st2 \in [Skb -> States], \A f \in Skb : st2[f] # "free" <=> st[f] # "free"
  PROVE  Window(u, v, ring, st2)
BY DEF Window

-----------------------------------------------------------------------------
(* The state is well typed. *)

LEMMA InitType == Init => TypeOK
<1> SUFFICES ASSUME Init PROVE TypeOK
  OBVIOUS
<1>1. 0 \in 0 .. W - 1 /\ 0 \in 0 .. Closes /\ N \in Int
  BY RingAssumption
<1> QED
  BY <1>1 DEF Init, TypeOK, Idle

LEMMA TypeStep ==
  ASSUME TypeOK, [Next]_vars
  PROVE  TypeOK'
<1>0. /\ \A x \in 0 .. W - 1 : Succ(x) \in 0 .. W - 1 /\ Slot(x) \in 0 .. N - 1
      /\ 0 \in 0 .. W - 1 /\ N \in Int /\ Closes \in Nat
  <2>1. \A x \in 0 .. W - 1 : x \in Int
    BY RingAssumption
  <2>2. \A x \in 0 .. W - 1 : Succ(x) \in 0 .. W - 1
    BY DistSucc
  <2> QED
    BY <2>1, <2>2, SlotType, RingAssumption
<1>a. /\ {Slot(free_idx), Slot(used_idx), Slot(fetch_idx)} \subseteq 0 .. N - 1
      /\ {Succ(free_idx), Succ(used_idx), Succ(fetch_idx)} \subseteq 0 .. W - 1
  BY <1>0 DEF TypeOK
<1> USE DEF TypeOK, Idle
<1>1. ASSUME NEW f \in Skb, Push(f)
      PROVE  TypeOK'
  <2>1. state' \in [Skb -> {"free", "ready", "sent", "done"}] /\ credits' \in Int
    BY <1>1 DEF Push
  <2>2. host_id' \in [0 .. N - 1 -> Skb \cup {None}] /\ desc' \in [0 .. N - 1 -> Skb \cup {None}]
    BY <1>1, <1>a DEF Push
  <2> QED
    BY <1>1, <1>a, <2>1, <2>2 DEF Push
<1>2. CASE Irq
  BY <1>2 DEF Irq
<1>3. CASE CfmTake
  BY <1>0, <1>3 DEF CfmTake
<1>4. CASE CfmStop
  BY <1>0, <1>4 DEF CfmStop
<1>5. CASE CfmDone
  BY <1>0, <1>5 DEF CfmDone
<1>6. CASE DrainRead
  <2>1. closes' \in 0 .. Closes
    BY <1>0, <1>6 DEF DrainRead
  <2>2. drain' \in [at : {"idle", "loop", "flush"}, idx : 0 .. W - 1, id : Skb \cup {None}]
    BY <1>0, <1>a, <1>6 DEF DrainRead
  <2> QED
    BY <1>6, <2>1, <2>2 DEF DrainRead
<1>7. CASE DrainFlush
  BY <1>0, <1>7 DEF DrainFlush
<1>8. CASE Restart
  BY <1>0, <1>8 DEF Restart
<1>9. CASE FwFetch
  <2>1. state' \in [Skb -> {"free", "ready", "sent", "done"}]
    BY <1>9 DEF FwFetch
  <2>2. desc' \in [0 .. N - 1 -> Skb \cup {None}] /\ fetch_idx' \in 0 .. W - 1
    BY <1>9, <1>a DEF FwFetch
  <2> QED
    BY <1>9, <2>1, <2>2 DEF FwFetch
<1>10. ASSUME NEW f \in Skb, FwDone(f)
       PROVE  TypeOK'
  BY <1>10 DEF FwDone
<1>11. CASE UNCHANGED vars
  BY <1>11 DEF vars
<1> QED
  BY <1>1, <1>2, <1>3, <1>4, <1>5, <1>6, <1>7, <1>8, <1>9, <1>10, <1>11 DEF Next, Confirm

-----------------------------------------------------------------------------
(* The invariant: the frame the confirmation has taken out counts as held.    *)

Taken == cfm.at = "taken"
Head0 == IF Taken THEN cfm.idx ELSE used_idx
Ring0 == IF Taken THEN [host_id EXCEPT ![Slot(cfm.idx)] = cfm.id] ELSE host_id

\* The confirmation and the drain, one at a time, work at the oldest frame.
CursorInv ==
  /\ cfm.at = "idle" \/ drain.at = "idle"
  /\ Taken => used_idx = Succ(cfm.idx) /\ host_id[Slot(cfm.idx)] = None
  /\ drain.at = "flush" =>
       drain.idx = used_idx /\ drain.id = host_id[Slot(used_idx)] /\ drain.id # None

\* Every credit stands for a free descriptor.
RingInv ==
  /\ CursorInv
  /\ Window(Head0, free_idx, Ring0, state)
  /\ credits <= N - Dist(free_idx, Head0)

Held0 == Contents(Head0, free_idx, Ring0)

LEMMA InitRing == Init => RingInv /\ Held0 = <<>>
<1> SUFFICES ASSUME Init PROVE RingInv /\ Held0 = <<>>
  OBVIOUS
<1>1. ~Taken /\ Head0 = 0 /\ Ring0 = host_id
  BY DEF Init, Taken, Head0, Ring0, Idle
<1>2. 0 \in 0 .. W - 1 /\ 0 - 0 = 0 /\ N - 0 = N /\ 0 <= N /\ N <= N
  BY RingAssumption
<1>3. Dist(0, 0) = 0
  BY <1>2, DistIs
<1>4. Window(0, 0, host_id, state)
  <2>1. \A k \in 0 .. N - 1 : host_id[Slot(0 + k)] = None
    BY SlotType, RingAssumption DEF Init
  <2>2. 0 .. 0 - 1 = {}
    OBVIOUS
  <2> QED
    BY <1>2, <1>3, <2>1, <2>2 DEF Window, Init, States
<1>5. Held0 = <<>>
  <2>1. /\ Contents(0, 0, host_id) \in Seq(Skb) /\ Len(Contents(0, 0, host_id)) = 0
    BY <1>3, <1>4, ContentsSeq
  <2> QED
    BY <1>1, <2>1, EmptySeq DEF Held0, Init
<1> QED
  BY <1>1, <1>2, <1>3, <1>4, <1>5 DEF Init, RingInv, CursorInv, Idle

\* What a step does to the frames that are held.
Pushed == \E f \in Skb : /\ Dist(free_idx, Head0) < N /\ state[f] = "free"
                         /\ Held0' = Append(Held0, f)
Left == Dist(free_idx, Head0) > 0 /\ Held0' = Tail(Held0)
Dropped == Held0' = <<>>

\* Nothing enters or leaves.
LEMMA SameRing ==
  ASSUME TypeOK, TypeOK', RingInv, CursorInv', free_idx' = free_idx, credits' = credits,
         Head0' = Head0, Ring0' = Ring0,
         \A f \in Skb : state'[f] # "free" <=> state[f] # "free"
  PROVE  RingInv' /\ Held0' = Held0
<1>1. Window(Head0, free_idx, Ring0, state')
  BY SameWindow DEF TypeOK, RingInv, States
<1> QED
  BY <1>1 DEF RingInv, Held0

LEMMA PushRing ==
  ASSUME TypeOK, RingInv, NEW f \in Skb, Push(f)
  PROVE  RingInv' /\ Pushed
<1>1. /\ ~Taken /\ ~Taken' /\ Head0 = used_idx /\ Head0' = used_idx
      /\ Ring0 = host_id /\ Ring0' = [host_id EXCEPT ![Slot(free_idx)] = f]
      /\ free_idx' = Succ(free_idx) /\ state' = [state EXCEPT ![f] = "ready"]
      /\ credits' = credits - 1 /\ state[f] = "free"
  BY DEF Push, Taken, Head0, Ring0
<1>2. Window(used_idx, free_idx, host_id, state) /\ credits <= N - Dist(free_idx, used_idx)
  BY <1>1 DEF RingInv
<1>3. Dist(free_idx, used_idx) \in 0 .. N
  BY <1>2, ContentsSeq
<1>4. Dist(free_idx, used_idx) < N
  BY <1>2, <1>3, RingAssumption DEF Push, TypeOK
<1>5. /\ Window(used_idx, free_idx', Ring0', state')
      /\ Dist(free_idx', used_idx) = Dist(free_idx, used_idx) + 1
      /\ Contents(used_idx, free_idx', Ring0') = Append(Contents(used_idx, free_idx, host_id), f)
  <2>1. Put(host_id, Ring0', Slot(free_idx), f) /\ Put(state, state', f, "ready")
    BY <1>1 DEF Put
  <2>2. state[f] = "free" /\ free_idx' = Succ(free_idx)
    BY <1>1
  <2>3. Window(used_idx, free_idx, host_id, state)
    BY <1>2
  <2>4. /\ Window(used_idx, Succ(free_idx), Ring0', state')
        /\ Dist(Succ(free_idx), used_idx) = Dist(free_idx, used_idx) + 1
        /\ Contents(used_idx, Succ(free_idx), Ring0') = Append(Contents(used_idx, free_idx, host_id), f)
    BY <1>4, <2>1, <2>2, <2>3, PushWindow
  <2> QED
    BY <2>2, <2>4
<1>6. credits' <= N - Dist(free_idx', used_idx)
  BY <1>1, <1>2, <1>3, <1>5, RingAssumption DEF TypeOK
<1>7. CursorInv'
  BY <1>1 DEF CursorInv, Push
<1> QED
  BY <1>1, <1>4, <1>5, <1>6, <1>7 DEF RingInv, Held0, Pushed

LEMMA CfmTakeRing ==
  ASSUME TypeOK, TypeOK', RingInv, CfmTake
  PROVE  RingInv' /\ Held0' = Held0
<1>1. Slot(used_idx) \in 0 .. N - 1
  BY SlotType, RingAssumption DEF TypeOK
<1>2. /\ ~Taken /\ Taken' /\ cfm'.idx = used_idx /\ cfm'.id = host_id[Slot(used_idx)]
      /\ used_idx' = Succ(used_idx) /\ host_id' = [host_id EXCEPT ![Slot(used_idx)] = None]
      /\ UNCHANGED <<free_idx, state, credits, drain>> /\ cfm.at = "loop"
  BY DEF CfmTake, Taken
<1>3. Head0' = Head0 /\ Ring0' = Ring0
  <2>1. Head0' = used_idx /\ Head0 = used_idx
    BY <1>2 DEF Head0
  <2>2. Ring0' = [[host_id EXCEPT ![Slot(used_idx)] = None]
                     EXCEPT ![Slot(used_idx)] = host_id[Slot(used_idx)]]
    BY <1>2 DEF Ring0
  <2>3. Ring0' = host_id
    BY <1>1, <2>2 DEF TypeOK
  <2> QED
    BY <1>2, <2>1, <2>3 DEF Ring0
<1>4. CursorInv'
  <2>1. host_id'[Slot(used_idx)] = None
    BY <1>1, <1>2 DEF TypeOK
  <2>2. drain.at = "idle"
    BY <1>2 DEF RingInv, CursorInv
  <2> QED
    BY <1>2, <2>1, <2>2 DEF CursorInv
<1> QED
  BY <1>2, <1>3, <1>4, SameRing

LEMMA CfmStopRing ==
  ASSUME TypeOK, TypeOK', RingInv, CfmStop
  PROVE  RingInv' /\ Held0' = Held0
<1>1. /\ Taken /\ ~Taken' /\ used_idx' = cfm.idx
      /\ host_id' = [host_id EXCEPT ![Slot(cfm.idx)] = cfm.id]
      /\ UNCHANGED <<free_idx, state, credits, drain>> /\ cfm'.at = "idle"
  BY DEF CfmStop, Taken, Idle
<1>2. Head0' = Head0 /\ Ring0' = Ring0
  BY <1>1 DEF Head0, Ring0
<1>3. CursorInv'
  BY <1>1 DEF CursorInv, RingInv, Taken
<1> QED
  BY <1>1, <1>2, <1>3, SameRing

LEMMA CfmDoneRing ==
  ASSUME TypeOK, RingInv, CfmDone
  PROVE  RingInv' /\ Left
<1>1. /\ Taken /\ ~Taken' /\ used_idx = Succ(cfm.idx) /\ host_id[Slot(cfm.idx)] = None
      /\ Head0 = cfm.idx /\ Head0' = used_idx /\ Ring0' = host_id
      /\ Ring0 = [host_id EXCEPT ![Slot(cfm.idx)] = cfm.id] /\ cfm.id # None
      /\ state' = [state EXCEPT ![cfm.id] = "free"] /\ free_idx' = free_idx
      /\ credits' = credits + 1 /\ drain' = drain /\ cfm'.at = "loop" /\ drain.at = "idle"
  BY DEF CfmDone, Taken, Idle, Head0, Ring0, RingInv, CursorInv, TypeOK
<1>2. Slot(cfm.idx) \in 0 .. N - 1
  BY SlotType, RingAssumption DEF TypeOK
<1>3. Ring0[Slot(cfm.idx)] = cfm.id
  BY <1>1, <1>2 DEF TypeOK
<1>4. [Ring0 EXCEPT ![Slot(cfm.idx)] = None] = host_id
  BY <1>1, <1>2 DEF TypeOK
<1>5. Window(cfm.idx, free_idx, Ring0, state) /\ credits <= N - Dist(free_idx, cfm.idx)
  BY <1>1 DEF RingInv
<1>6. Dist(free_idx, cfm.idx) \in 0 .. N
  BY <1>5, ContentsSeq
<1>7. /\ Window(used_idx, free_idx, host_id, state')
      /\ Dist(free_idx, cfm.idx) > 0
      /\ Dist(free_idx, used_idx) = Dist(free_idx, cfm.idx) - 1
      /\ Contents(used_idx, free_idx, host_id) = Tail(Contents(cfm.idx, free_idx, Ring0))
  BY <1>1, <1>3, <1>4, <1>5, LeaveWindow
<1>8. credits' <= N - Dist(free_idx, used_idx)
  BY <1>1, <1>5, <1>6, <1>7, RingAssumption DEF TypeOK
<1>9. CursorInv'
  BY <1>1 DEF CursorInv
<1> QED
  BY <1>1, <1>7, <1>8, <1>9 DEF RingInv, Held0, Left

LEMMA DrainReadRing ==
  ASSUME TypeOK, TypeOK', RingInv, DrainRead, ~Racing
  PROVE  RingInv' /\ Held0' = Held0
<1>1. UNCHANGED <<free_idx, used_idx, host_id, state, credits, cfm>>
  BY DEF DrainRead
<1>2. Head0' = Head0 /\ Ring0' = Ring0
  BY <1>1 DEF Head0, Ring0, Taken
<1>3. cfm.at = "idle"
  BY DEF DrainRead, RingInv, CursorInv
<1>4. CursorInv'
  BY <1>1, <1>3 DEF DrainRead, CursorInv, Taken, Idle
<1> QED
  BY <1>1, <1>2, <1>4, SameRing

LEMMA DrainFlushRing ==
  ASSUME TypeOK, RingInv, DrainFlush
  PROVE  RingInv' /\ Left
<1>1. /\ ~Taken /\ ~Taken' /\ drain.idx = used_idx /\ drain.id = host_id[Slot(used_idx)]
      /\ drain.id # None /\ Head0 = used_idx /\ Ring0 = host_id
      /\ host_id' = [host_id EXCEPT ![Slot(used_idx)] = None]
      /\ used_idx' = Succ(used_idx)
      /\ state' = [state EXCEPT ![host_id[Slot(used_idx)]] = "free"]
      /\ UNCHANGED <<free_idx, credits, cfm>> /\ drain'.at = "loop" /\ cfm.at = "idle"
  BY DEF DrainFlush, Taken, Idle, Head0, Ring0, RingInv, CursorInv
<1>2. Head0' = Succ(used_idx) /\ Ring0' = [host_id EXCEPT ![Slot(used_idx)] = None]
  BY <1>1 DEF Head0, Ring0
<1>3. Window(used_idx, free_idx, host_id, state) /\ credits <= N - Dist(free_idx, used_idx)
  BY <1>1 DEF RingInv
<1>4. Dist(free_idx, used_idx) \in 0 .. N
  BY <1>3, ContentsSeq
<1>5. /\ Window(Head0', free_idx, Ring0', state')
      /\ Dist(free_idx, used_idx) > 0
      /\ Dist(free_idx, Head0') = Dist(free_idx, used_idx) - 1
      /\ Contents(Head0', free_idx, Ring0') = Tail(Contents(used_idx, free_idx, host_id))
  BY <1>1, <1>2, <1>3, LeaveWindow
<1>6. credits' <= N - Dist(free_idx, Head0')
  BY <1>1, <1>3, <1>4, <1>5, RingAssumption DEF TypeOK
<1>7. CursorInv'
  BY <1>1 DEF CursorInv
<1> QED
  BY <1>1, <1>5, <1>6, <1>7 DEF RingInv, Held0, Left

LEMMA RestartRing ==
  ASSUME TypeOK, Restart
  PROVE  RingInv' /\ Dropped
<1>1. ~Taken' /\ Head0' = 0 /\ Ring0' = host_id'
  BY DEF Restart, Taken, Head0, Ring0
<1>2. 0 \in 0 .. W - 1 /\ 0 - 0 = 0 /\ N - 0 = N /\ 0 <= N /\ N <= N
  BY RingAssumption
<1>3. Dist(0, 0) = 0
  BY <1>2, DistIs
<1>4. Window(0, 0, host_id', state')
  <2>1. \A k \in 0 .. N - 1 : host_id'[Slot(0 + k)] = None
    BY SlotType, RingAssumption DEF Restart
  <2>2. 0 .. 0 - 1 = {}
    OBVIOUS
  <2> QED
    BY <1>2, <1>3, <2>1, <2>2 DEF Window, Restart, States
<1>5. Held0' = <<>>
  <2>1. Contents(0, 0, host_id') \in Seq(Skb) /\ Len(Contents(0, 0, host_id')) = 0
    BY <1>3, <1>4, ContentsSeq
  <2> QED
    BY <1>1, <2>1, EmptySeq DEF Held0, Restart
<1> QED
  BY <1>1, <1>2, <1>3, <1>4, <1>5 DEF Restart, RingInv, CursorInv, Dropped

LEMMA RingStep ==
  ASSUME ~Racing, TypeOK, TypeOK', RingInv, [Next]_vars
  PROVE  RingInv' /\ (Held0' = Held0 \/ Pushed \/ Left \/ Dropped)
<1>1. CASE Irq
  <2>1. /\ UNCHANGED <<free_idx, used_idx, host_id, state, credits, drain>>
        /\ ~Taken /\ ~Taken' /\ drain.at = "idle"
    BY <1>1 DEF Irq, Taken, TypeOK
  <2>2. Head0' = Head0 /\ Ring0' = Ring0 /\ CursorInv'
    BY <2>1 DEF Head0, Ring0, CursorInv
  <2> QED
    BY <2>1, <2>2, SameRing
<1>2. CASE FwFetch \/ (\E f \in Skb : FwDone(f)) \/ UNCHANGED vars
  <2>1. UNCHANGED <<free_idx, used_idx, host_id, credits, cfm, drain>>
    BY <1>2 DEF FwFetch, FwDone, vars
  <2>2. Head0' = Head0 /\ Ring0' = Ring0 /\ CursorInv'
    BY <2>1 DEF Head0, Ring0, CursorInv, Taken, RingInv
  <2>3. \A f \in Skb : state'[f] # "free" <=> state[f] # "free"
    BY <1>2 DEF FwFetch, FwDone, vars, TypeOK
  <2> QED
    BY <2>1, <2>2, <2>3, SameRing
<1> QED
  BY <1>1, <1>2, PushRing, CfmTakeRing, CfmStopRing, CfmDoneRing, DrainReadRing,
     DrainFlushRing, RestartRing DEF Next, Confirm

-----------------------------------------------------------------------------
(* The frames of the model's Held are those of the window. *)

\* Out of the window's first slot, back in front of the others.
LEMMA HeadBack ==
  ASSUME NEW q \in Seq(Skb), q # <<>>
  PROVE  <<q[1]>> \o Tail(q) = q
<1>1. Tail(q) \in Seq(Skb) /\ Len(Tail(q)) = Len(q) - 1 /\ \A i \in 1 .. Len(q) - 1 : Tail(q)[i] = q[i + 1]
  BY HeadTailProperties
<1>2. Len(q) \in Nat \ {0}
  BY EmptySeq
<1>3. q[1] \in Skb /\ <<q[1]>> \in Seq(Skb) /\ Len(<<q[1]>>) = 1 /\ <<q[1]>>[1] = q[1]
  BY <1>2, ElementOfSeq
<1>4. /\ <<q[1]>> \o Tail(q) \in Seq(Skb) /\ Len(<<q[1]>> \o Tail(q)) = Len(q)
      /\ \A i \in 1 .. Len(q) : (<<q[1]>> \o Tail(q))[i] = IF i <= 1 THEN q[1] ELSE Tail(q)[i - 1]
  BY <1>1, <1>2, <1>3, ConcatProperties
<1>5. \A i \in 1 .. Len(q) : (<<q[1]>> \o Tail(q))[i] = q[i]
  BY <1>1, <1>2, <1>4
<1> QED
  BY <1>4, <1>5, SeqEqual

LEMMA HeldIs ==
  ASSUME TypeOK, RingInv
  PROVE  Held = Held0
<1>1. Window(Head0, free_idx, Ring0, state)
  BY DEF RingInv
<1>2. /\ Held0 \in Seq(Skb) /\ Len(Held0) = Dist(free_idx, Head0)
      /\ Dist(free_idx, Head0) \in 0 .. N
      /\ \A i \in 1 .. Dist(free_idx, Head0) : Held0[i] = Ring0[Slot(Head0 + i - 1)]
  BY <1>1, ContentsSeq DEF Held0
<1>3. InUse = Dist(free_idx, used_idx)
  BY DEF InUse, Dist
<1>4. Contents(used_idx, free_idx, host_id) = [i \in 1 .. InUse |-> host_id[Slot(used_idx + i - 1)]]
  BY <1>3 DEF Contents
<1>5. CASE ~Taken
  <2>1. Held = <<>> \o Contents(used_idx, free_idx, host_id)
    BY <1>4, <1>5 DEF Held, Taken
  <2>2. Held0 = Contents(used_idx, free_idx, host_id)
    BY <1>5 DEF Held0, Head0, Ring0
  <2> QED
    BY <1>2, <2>1, <2>2, ConcatEmptySeq
<1>6. CASE Taken
  <2>1. Head0 = cfm.idx /\ cfm.idx \in 0 .. W - 1 /\ Slot(cfm.idx) \in 0 .. N - 1
    BY <1>6, SlotType, RingAssumption DEF Head0, TypeOK
  <2>2. Ring0[Slot(cfm.idx)] = cfm.id
    BY <1>6, <2>1 DEF Ring0, TypeOK
  <2>3. cfm.idx + 0 = cfm.idx /\ cfm.idx + 1 - 1 = cfm.idx
    BY <2>1, RingAssumption
  <2>4. CASE cfm.id = None
    <3>1. Dist(free_idx, Head0) = 0
      <4> SUFFICES ASSUME Dist(free_idx, Head0) # 0 PROVE FALSE
        OBVIOUS
      <4>1. 0 \in 0 .. Dist(free_idx, Head0) - 1
        BY <1>2, RingAssumption
      <4>2. Ring0[Slot(Head0 + 0)] \in Skb
        BY <1>1, <4>1 DEF Window
      <4> QED
        BY <2>1, <2>2, <2>3, <2>4, <4>2, RingAssumption
    <3>2. Held0 = <<>>
      BY <1>2, <3>1, EmptySeq
    <3>3. Held = <<>> \o [i \in 1 .. 0 |-> host_id[Slot(used_idx + i - 1)]]
      BY <1>6, <2>4 DEF Held, Taken
    <3>4. [i \in 1 .. 0 |-> host_id[Slot(used_idx + i - 1)]] = <<>>
      OBVIOUS
    <3> QED
      BY <3>2, <3>3, <3>4, EmptySeq, ConcatEmptySeq
  <2>5. CASE cfm.id # None
    <3>1. used_idx = Succ(cfm.idx) /\ host_id[Slot(cfm.idx)] = None
      BY <1>6 DEF RingInv, CursorInv
    <3>2. [Ring0 EXCEPT ![Slot(cfm.idx)] = None] = host_id
      BY <1>6, <2>1, <3>1 DEF TypeOK, Ring0
    <3>3. Window(cfm.idx, free_idx, Ring0, state)
      BY <1>1, <2>1
    <3>4. /\ Dist(free_idx, cfm.idx) > 0
          /\ Contents(used_idx, free_idx, host_id) = Tail(Contents(cfm.idx, free_idx, Ring0))
      <4>1. Ring0[Slot(cfm.idx)] # None
        BY <2>2, <2>5
      <4>2. PICK r : r = Ring0
        OBVIOUS
      <4>3. Dist(free_idx, cfm.idx) > 0
        BY <3>3, <4>1, LeaveWindow
      <4>4. Contents(Succ(cfm.idx), free_idx, [r EXCEPT ![Slot(cfm.idx)] = None])
              = Tail(Contents(cfm.idx, free_idx, r))
        BY <3>3, <4>1, <4>2, LeaveWindow
      <4> QED
        BY <3>1, <3>2, <4>2, <4>3, <4>4
    <3>5. Contents(used_idx, free_idx, host_id) = Tail(Held0)
      BY <2>1, <3>4 DEF Held0
    <3>6. Held0[1] = cfm.id /\ Held0 # <<>>
      <4>1. 1 \in 1 .. Dist(free_idx, Head0)
        BY <1>2, <2>1, <3>4, RingAssumption
      <4> QED
        BY <1>2, <2>1, <2>2, <2>3, <4>1, EmptySeq
    <3>7. Held = <<cfm.id>> \o Contents(used_idx, free_idx, host_id)
      BY <1>4, <1>6, <2>5 DEF Held, Taken
    <3> QED
      BY <1>2, <3>5, <3>6, <3>7, HeadBack
  <2> QED
    BY <2>4, <2>5
<1> QED
  BY <1>5, <1>6

-----------------------------------------------------------------------------
(* The theorems. *)

LEMMA SoundFollows ==
  ASSUME TypeOK, RingInv
  PROVE  RingIsSound
<1>1. Window(Head0, free_idx, Ring0, state) /\ credits <= N - Dist(free_idx, Head0)
  BY DEF RingInv
<1>2. /\ Held0 \in Seq(Skb) /\ Len(Held0) = Dist(free_idx, Head0)
      /\ Dist(free_idx, Head0) \in 0 .. N
      /\ \A i \in 1 .. Dist(free_idx, Head0) : Held0[i] = Ring0[Slot(Head0 + i - 1)]
  BY <1>1, ContentsSeq DEF Held0
<1>3. Held = Held0
  BY HeldIs
<1>4. InUse = Dist(free_idx, used_idx)
  BY DEF InUse, Dist
<1>5. cfm.at = "idle" => Head0 = used_idx /\ Ring0 = host_id
  BY DEF Head0, Ring0, Taken
<1>6. IndexWindow
  BY <1>2, <1>4, <1>5, RingAssumption DEF IndexWindow
<1>7. CreditIsDescriptor
  <2> SUFFICES ASSUME cfm.at = "idle", credits > 0
               PROVE  InUse < N /\ host_id[Slot(free_idx)] = None
    BY DEF CreditIsDescriptor
  <2>1. Dist(free_idx, used_idx) \in 0 .. N - 1
    BY <1>1, <1>2, <1>5, RingAssumption DEF TypeOK
  <2>2. Slot(used_idx + Dist(free_idx, used_idx)) = Slot(free_idx)
    BY SlotDist DEF TypeOK
  <2>3. Dist(free_idx, used_idx) \in Dist(free_idx, used_idx) .. N - 1
    BY <2>1, RingAssumption
  <2>4. host_id[Slot(used_idx + Dist(free_idx, used_idx))] = None
    BY <1>1, <1>5, <2>3 DEF Window
  <2> QED
    BY <1>4, <2>1, <2>2, <2>4, RingAssumption
<1>8. HeldOnce
  <2> DEFINE n == Dist(free_idx, Head0)
  <2>1. \A i \in 1 .. n : i - 1 \in 0 .. n - 1 /\ Head0 + i - 1 = Head0 + (i - 1)
    BY <1>1, <1>2, RingAssumption DEF Window
  <2>2. \A k \in 0 .. n - 1 : k + 1 \in 1 .. n /\ (k + 1) - 1 = k
    BY <1>2, RingAssumption
  <2> HIDE DEF n
  <2>3. \A i \in 1 .. n : Held[i] = Ring0[Slot(Head0 + (i - 1))]
    BY <1>2, <1>3, <2>1 DEF n
  <2>4. Len(Held) = n
    BY <1>2, <1>3 DEF n
  <2>5. \A i, j \in 1 .. n : Held[i] = Held[j] => i = j
    <3> SUFFICES ASSUME NEW i \in 1 .. n, NEW j \in 1 .. n, Held[i] = Held[j]
                 PROVE  i = j
      OBVIOUS
    <3>1. Ring0[Slot(Head0 + (i - 1))] = Ring0[Slot(Head0 + (j - 1))]
      BY <2>3
    <3>2. i - 1 = j - 1
      BY <1>1, <2>1, <3>1 DEF Window, n
    <3> QED
      BY <3>2
  <2>6. \A f \in Skb : state[f] # "free" <=> \E i \in 1 .. n : Held[i] = f
    <3> SUFFICES ASSUME NEW f \in Skb
                 PROVE  state[f] # "free" <=> \E i \in 1 .. n : Held[i] = f
      OBVIOUS
    <3>1. state[f] # "free" <=> \E k \in 0 .. n - 1 : Ring0[Slot(Head0 + k)] = f
      BY <1>1 DEF Window, n
    <3>2. ASSUME NEW k \in 0 .. n - 1, Ring0[Slot(Head0 + k)] = f
          PROVE  \E i \in 1 .. n : Held[i] = f
      BY <2>2, <2>3, <3>2
    <3>3. ASSUME NEW i \in 1 .. n, Held[i] = f
          PROVE  \E k \in 0 .. n - 1 : Ring0[Slot(Head0 + k)] = f
      BY <2>1, <2>3, <3>3
    <3> QED
      BY <3>1, <3>2, <3>3
  <2>7. \A i \in 1 .. n : Held[i] \in Skb
    BY <1>1, <2>1, <2>3 DEF Window, n
  <2> QED
    BY <2>4, <2>5, <2>6, <2>7 DEF HeldOnce
<1> QED
  BY <1>6, <1>7, <1>8 DEF RingIsSound

LEMMA RingAlways ==
  ASSUME ~Racing
  PROVE  Spec => [](TypeOK /\ RingInv)
<1>1. Init => TypeOK /\ RingInv
  BY InitType, InitRing
<1>2. TypeOK /\ RingInv /\ [Next]_vars => (TypeOK /\ RingInv)'
  BY TypeStep, RingStep
<1> QED
  BY <1>1, <1>2, PTL DEF Spec

(* When no interrupt arrives while siwifi_close drains the ring, the ring     *)
(* keeps its shape, whatever its size and wherever its indices wrap: every    *)
(* frame that is not free is in it once, every credit has a free descriptor,  *)
(* and the assertion of ipc_host.c:413 never fails.                           *)
THEOREM RingAlwaysSound ==
  ASSUME ~Racing
  PROVE  Spec => []RingIsSound
<1>1. TypeOK /\ RingInv => RingIsSound
  BY SoundFollows
<1> QED
  BY <1>1, RingAlways, PTL

(* A step of the ring is a step of the FIFO, or none. *)
LEMMA FifoStep ==
  ASSUME RingIsSound, TypeOK, RingInv, Held = Held0, Held' = Held0',
         Held0' = Held0 \/ Pushed \/ Left \/ Dropped
  PROVE  [Fifo!Next]_Held
<1>1. Window(Head0, free_idx, Ring0, state)
  BY DEF RingInv
<1>2. /\ Held0 \in Seq(Skb) /\ Len(Held0) = Dist(free_idx, Head0)
      /\ Dist(free_idx, Head0) \in 0 .. N
  BY <1>1, ContentsSeq DEF Held0
<1>3. ASSUME NEW f \in Skb, Dist(free_idx, Head0) < N, state[f] = "free",
             Held0' = Append(Held0, f)
      PROVE  Fifo!Push(f)
  <2>1. \A i \in 1 .. Len(Held) : Held[i] # f
    BY <1>3 DEF RingIsSound, HeldOnce
  <2> QED
    BY <1>2, <1>3, <2>1 DEF Fifo!Push
<1>4. CASE Left
  <2>1. Held0 # <<>>
    BY <1>2, <1>4, EmptySeq DEF Left
  <2> QED
    BY <1>4, <2>1 DEF Left, Fifo!Leave, Fifo!Next
<1>5. CASE Dropped
  BY <1>5 DEF Dropped, Fifo!Drop, Fifo!Next
<1>6. CASE Pushed
  BY <1>3, <1>6 DEF Pushed, Fifo!Next
<1> QED
  BY <1>4, <1>5, <1>6

(* When no interrupt arrives while siwifi_close drains the ring, the frames   *)
(* leave the ring in the order in which siwifi_tx_push put them there,        *)
(* although the firmware completes them in any order; only a restart of the   *)
(* driver drops them.                                                         *)
THEOREM RingIsAFifo ==
  ASSUME ~Racing
  PROVE  Spec => ImplementsFifo
<1>1. Init => Fifo!Init
  BY InitType, InitRing, HeldIs DEF Fifo!Init
<1>2. TypeOK /\ RingInv => Held = Held0
  BY HeldIs
<1>3. (TypeOK /\ RingInv => Held = Held0)'
  BY <1>2, PTL
<1>4. TypeOK /\ RingInv /\ [Next]_vars => [Fifo!Next]_Held
  BY <1>2, <1>3, TypeStep, RingStep, SoundFollows, FifoStep
<1> QED
  BY <1>1, <1>4, RingAlways, PTL DEF Spec, ImplementsFifo, Fifo!Spec
=============================================================================
