--------------------------- MODULE ChanCtxProofs ---------------------------
(* Proofs about the channel contexts, for any number of interfaces,         *)
(* contexts and channels: the count of a context covers the interfaces that *)
(* are linked to it, an AP that beacons is linked, queues on the current    *)
(* channel are not left stopped, and a radar on a channel in use is noticed. *)
EXTENDS ChanCtx, FiniteSetTheorems, TLAPS

----------------------------------------------------------------------------
(* What a step that changes the table relies on: a request and a channel    *)
(* switch carry the interface, the context and the channel they will link.  *)

RequestIsFull ==
  /\ op.k \in {"start_ap", "start_cac"} => op.v \in Ap /\ op.f \in Freq
  /\ op.k \in {"start_ap", "start_cac"} /\ op.s \in {"cfm", "radar"} => op.c \in Ctx
  /\ op.k = "monitor" => op.v \in Mon /\ op.f \in Freq
  /\ op.k = "stop_ap" => op.v \in Ap
  /\ op.k = "close" => op.v \in Vif

SwitchIsFull ==
  \A v \in Ap :
    /\ csa[v].s = "beacon" => csa[v].f \in Freq
    /\ csa[v].s \in {"sched", "freed"} => csa[v].f \in Freq /\ csa[v].c \in Ctx

----------------------------------------------------------------------------
(* The table.                                                               *)

Table == [ch: [Vif -> Ctx \cup {None}], count: [Ctx -> Nat],
          chan: [Ctx -> Freq \cup {None}], detect: BOOLEAN]

Covers(t) ==
  /\ \A c \in Ctx : t.count[c] >= Cardinality(On(t, c))
  /\ \A v \in Vif : t.ch[v] # None => t.chan[t.ch[v]] # None

Good(t) == t \in Table /\ Covers(t)

\* Sets of interfaces are finite.
LEMMA VifSets ==
  ASSUME ChanAssumption, NEW S \in SUBSET Vif
  PROVE  IsFiniteSet(S) /\ Cardinality(S) \in Nat
BY FS_Subset, FS_CardinalityType DEF ChanAssumption

\* What is taken away from a context leaves the rest of it.
LEMMA TakeAway ==
  ASSUME ChanAssumption, NEW S \in SUBSET Vif, NEW T \in SUBSET Vif
  PROVE  /\ Cardinality(S \cap T) \in Nat
         /\ Cardinality(S \cap T) <= Cardinality(S)
         /\ Cardinality(S \cap T) <= Cardinality(T)
         /\ Cardinality(S \ T) = Cardinality(S) - Cardinality(S \cap T)
         /\ Cardinality(S \cup T) =
              Cardinality(S) + Cardinality(T) - Cardinality(S \cap T)
         /\ S \ T # {} => Cardinality(S \cap T) < Cardinality(S)
<1>1. /\ IsFiniteSet(S) /\ IsFiniteSet(T)
      /\ Cardinality(S) \in Nat /\ Cardinality(T) \in Nat
  BY VifSets
<1>2. /\ Cardinality(S \cap T) \in Nat
      /\ Cardinality(S \cap T) <= Cardinality(S)
      /\ Cardinality(S \cap T) <= Cardinality(T)
  BY <1>1, FS_Subset, VifSets
<1>3. Cardinality(S \ T) = Cardinality(S) - Cardinality(S \cap T)
  BY <1>1, FS_Difference
<1>4. Cardinality(S \cup T) =
        Cardinality(S) + Cardinality(T) - Cardinality(S \cap T)
  BY <1>1, FS_Union
<1>5. S \ T # {} => Cardinality(S \ T) # 0
  BY <1>1, FS_EmptySet, VifSets, S \ T \in SUBSET Vif
<1>6. Cardinality(S \ T) \in Nat
  BY VifSets
<1> QED  BY <1>1, <1>2, <1>3, <1>4, <1>5, <1>6

LEMMA TakeOne ==
  ASSUME NEW S, IsFiniteSet(S), NEW x \in S
  PROVE  Cardinality(S \ {x}) = Cardinality(S) - 1
BY FS_RemoveElement

\* Unlink keeps the table good.
LEMMA UnlinkKeeps ==
  ASSUME ChanAssumption, NEW t, Good(t), NEW v \in Vif
  PROVE  Good(Unlink(t, v))
<1>1. CASE t.ch[v] = None
  BY <1>1 DEF Unlink
<1>2. CASE t.ch[v] # None
  <2> DEFINE c == t.ch[v]
             left == IF t.count[c] = 0 THEN 0 ELSE t.count[c] - 1
             u == Unlink(t, v)
  <2>1. /\ t.ch \in [Vif -> Ctx \cup {None}] /\ t.count \in [Ctx -> Nat]
        /\ t.chan \in [Ctx -> Freq \cup {None}] /\ t.detect \in BOOLEAN
        /\ c \in Ctx /\ left \in Nat
    BY <1>2 DEF Good, Table
  <2>2. /\ u.ch = [t.ch EXCEPT ![v] = None]
        /\ u.count = [t.count EXCEPT ![c] = left]
        /\ u.chan = IF left = 0 THEN [t.chan EXCEPT ![c] = None] ELSE t.chan
        /\ u.detect = (t.detect /\ ~(left = 0 /\ c = cur))
        /\ u = [ch |-> u.ch, count |-> u.count, chan |-> u.chan, detect |-> u.detect]
    BY <1>2 DEF Unlink
  <2>3. u.ch \in [Vif -> Ctx \cup {None}] /\ u.count \in [Ctx -> Nat]
    BY <2>1, <2>2
  <2>4. u.chan \in [Ctx -> Freq \cup {None}] /\ u.detect \in BOOLEAN
    BY <2>1, <2>2
  <2>5. u \in Table
    BY <2>2, <2>3, <2>4 DEF Table
  <2>6. /\ On(u, c) = On(t, c) \ {v}
        /\ \A d \in Ctx : d # c => On(u, d) = On(t, d)
    BY <1>2, <2>1, <2>2 DEF On, ChanAssumption
  <2>7. Cardinality(On(u, c)) = Cardinality(On(t, c)) - 1
    <3>1. IsFiniteSet(On(t, c)) /\ v \in On(t, c)
      BY VifSets DEF On
    <3>2. Cardinality(On(t, c) \ {v}) = Cardinality(On(t, c)) - 1
      BY <3>1, TakeOne
    <3> QED  BY <2>6, <3>2
  <2>8. Cardinality(On(u, c)) \in Nat /\ Cardinality(On(t, c)) \in Nat
    BY VifSets DEF On
  <2>9. \A d \in Ctx : u.count[d] >= Cardinality(On(u, d))
    <3> SUFFICES ASSUME NEW d \in Ctx  PROVE u.count[d] >= Cardinality(On(u, d))
      OBVIOUS
    <3>1. t.count[d] >= Cardinality(On(t, d))  BY DEF Good, Covers
    <3>2. CASE d # c  BY <3>1, <3>2, <2>1, <2>2, <2>6
    <3>3. CASE d = c
      <4>1. u.count[c] = left  BY <2>1, <2>2
      <4> QED  BY <3>1, <3>3, <4>1, <2>1, <2>7, <2>8
    <3> QED  BY <3>2, <3>3
  <2>10. \A w \in Vif : u.ch[w] # None => u.chan[u.ch[w]] # None
    <3> SUFFICES ASSUME NEW w \in Vif, u.ch[w] # None  PROVE u.chan[u.ch[w]] # None
      OBVIOUS
    <3>1. w # v /\ u.ch[w] = t.ch[w] /\ t.chan[t.ch[w]] # None
      BY <2>1, <2>2 DEF Good, Covers
    <3>2. CASE t.ch[w] # c  BY <3>1, <3>2, <2>1, <2>2
    <3>3. CASE t.ch[w] = c
      <4>1. w \in On(u, c)  BY <3>1, <3>3 DEF On
      <4>2. Cardinality(On(u, c)) # 0  BY <4>1, VifSets, FS_EmptySet DEF On
      <4>3. left # 0
        <5>1. u.count[c] = left  BY <2>1, <2>2
        <5> QED  BY <5>1, <4>2, <2>1, <2>8, <2>9
      <4> QED  BY <4>3, <3>1, <3>3, <2>2
    <3> QED  BY <3>2, <3>3
  <2> QED  BY <2>5, <2>9, <2>10 DEF Good, Covers
<1> QED  BY <1>1, <1>2

\* So does Linked, whatever the old link was.
LEMMA LinkedKeeps ==
  ASSUME ChanAssumption, NEW t, Good(t), NEW v \in Vif, NEW c \in Ctx, NEW f \in Freq
  PROVE  Good(Linked(t, v, c, f)) /\ Linked(t, v, c, f).ch[v] = c
<1> DEFINE u == Linked(t, v, c, f)
<1>1. /\ t.ch \in [Vif -> Ctx \cup {None}] /\ t.count \in [Ctx -> Nat]
      /\ t.chan \in [Ctx -> Freq \cup {None}] /\ t.detect \in BOOLEAN
      /\ f # None
  BY DEF Good, Table, ChanAssumption
<1>2. /\ u.ch = [t.ch EXCEPT ![v] = c]
      /\ u.count = [t.count EXCEPT ![c] = @ + 1]
      /\ u.chan = [t.chan EXCEPT ![c] = f]
      /\ u.detect = t.detect
      /\ u = [ch |-> u.ch, count |-> u.count, chan |-> u.chan, detect |-> u.detect]
  BY DEF Linked, Good, Table
<1>3. u \in Table
  BY <1>1, <1>2 DEF Table
<1>4. \A d \in Ctx : u.count[d] >= Cardinality(On(u, d))
  <2> SUFFICES ASSUME NEW d \in Ctx  PROVE u.count[d] >= Cardinality(On(u, d))
    OBVIOUS
  <2>1. /\ t.count[d] >= Cardinality(On(t, d)) /\ t.count[d] \in Nat
        /\ IsFiniteSet(On(t, d)) /\ Cardinality(On(t, d)) \in Nat
    BY <1>1, VifSets DEF Good, Covers, On
  <2>2. /\ IsFiniteSet(On(t, d) \cup {v})
        /\ Cardinality(On(t, d) \cup {v}) <= Cardinality(On(t, d)) + 1
        /\ Cardinality(On(t, d) \cup {v}) \in Nat
    <3>1. Cardinality(On(t, d) \cup {v}) =
            IF v \in On(t, d) THEN Cardinality(On(t, d)) ELSE Cardinality(On(t, d)) + 1
      BY <2>1, FS_AddElement
    <3>2. IsFiniteSet(On(t, d) \cup {v})
      BY <2>1, FS_AddElement
    <3> QED  BY <2>1, <3>1, <3>2
  <2>3. Cardinality(On(u, d)) \in Nat
    BY VifSets DEF On
  <2>4. CASE d = c
    <3>1. On(u, d) \in SUBSET (On(t, d) \cup {v})
      BY <1>1, <1>2 DEF On
    <3>2. Cardinality(On(u, d)) <= Cardinality(On(t, d) \cup {v})
      BY <2>2, <3>1, FS_Subset
    <3>3. u.count[d] = t.count[d] + 1
      BY <1>1, <1>2, <2>4
    <3> QED  BY <2>1, <2>2, <2>3, <3>2, <3>3
  <2>5. CASE d # c
    <3>1. On(u, d) \in SUBSET On(t, d)
      BY <1>1, <1>2, <2>5 DEF On
    <3>2. Cardinality(On(u, d)) <= Cardinality(On(t, d))
      BY <2>1, <3>1, FS_Subset
    <3>3. u.count[d] = t.count[d]
      BY <1>1, <1>2, <2>5
    <3> QED  BY <2>1, <2>3, <3>2, <3>3
  <2> QED  BY <2>4, <2>5
<1>5. \A w \in Vif : u.ch[w] # None => u.chan[u.ch[w]] # None
  BY <1>1, <1>2 DEF Good, Covers
<1>6. u.ch[v] = c
  BY <1>1, <1>2
<1> QED  BY <1>3, <1>4, <1>5, <1>6 DEF Good, Covers

\* What a set of interfaces leaves of a context covers the others.
LEMMA LeaveBounds ==
  ASSUME ChanAssumption, NEW t, Good(t), NEW vs \in SUBSET Vif, NEW c \in Ctx
  PROVE  /\ Left(t, vs, c) \in Nat
         /\ Left(t, vs, c) >= Cardinality(On(t, c) \ vs)
         /\ On(t, c) \ vs # {} => ~Emptied(t, vs, c)
         /\ t.count[c] + Cardinality(vs) - Leave(t, vs, c) \in Nat
         /\ t.count[c] + Cardinality(vs) - Leave(t, vs, c)
              >= Cardinality(On(t, c) \cup vs)
<1>1. On(t, c) \in SUBSET Vif /\ {v \in vs : t.ch[v] = c} = On(t, c) \cap vs
  BY DEF On
<1>2. t.count[c] \in Nat /\ t.count[c] >= Cardinality(On(t, c))
  BY DEF Good, Table, Covers
<1>3. Cardinality(On(t, c)) \in Nat /\ Cardinality(vs) \in Nat
  BY <1>1, VifSets
<1>4. Leave(t, vs, c) = Cardinality(On(t, c) \cap vs)
  BY <1>1 DEF Leave
<1>5. /\ Leave(t, vs, c) \in Nat
      /\ Leave(t, vs, c) <= Cardinality(On(t, c))
      /\ Leave(t, vs, c) <= Cardinality(vs)
      /\ Cardinality(On(t, c) \ vs) = Cardinality(On(t, c)) - Leave(t, vs, c)
      /\ Cardinality(On(t, c) \cup vs) =
           Cardinality(On(t, c)) + Cardinality(vs) - Leave(t, vs, c)
      /\ On(t, c) \ vs # {} => Leave(t, vs, c) < Cardinality(On(t, c))
  <2>1. /\ Cardinality(On(t, c) \cap vs) \in Nat
        /\ Cardinality(On(t, c) \cap vs) <= Cardinality(On(t, c))
        /\ Cardinality(On(t, c) \cap vs) <= Cardinality(vs)
        /\ Cardinality(On(t, c) \ vs) =
             Cardinality(On(t, c)) - Cardinality(On(t, c) \cap vs)
        /\ Cardinality(On(t, c) \cup vs) =
             Cardinality(On(t, c)) + Cardinality(vs) - Cardinality(On(t, c) \cap vs)
        /\ On(t, c) \ vs # {} =>
             Cardinality(On(t, c) \cap vs) < Cardinality(On(t, c))
    BY <1>1, TakeAway
  <2> QED  BY <1>4, <2>1
<1> QED  BY <1>2, <1>3, <1>5 DEF Left, Emptied

\* Gather: the context of the station counts those that join it, the others
\* lose what leaves them.
LEMMA GatherKeeps ==
  ASSUME ChanAssumption, NEW t, Good(t), NEW moved \in SUBSET Vif,
         moved # {} => t.ch[Sta] \in Ctx /\ Sta \in Vif
  PROVE  Good(Gather(t, moved))
<1> DEFINE s == IF moved = {} THEN None ELSE t.ch[Sta]
           g == Gather(t, moved)
<1>1. /\ t.ch \in [Vif -> Ctx \cup {None}] /\ t.count \in [Ctx -> Nat]
      /\ t.chan \in [Ctx -> Freq \cup {None}] /\ t.detect \in BOOLEAN
      /\ \A w \in Vif : t.ch[w] # None => t.chan[t.ch[w]] # None
  BY DEF Good, Table, Covers
<1>2. /\ g.ch = [v \in Vif |-> IF v \in moved THEN s ELSE t.ch[v]]
      /\ g.count = [c \in Ctx |->
             IF c = s THEN t.count[c] + Cardinality(moved) - Leave(t, moved, c)
             ELSE Left(t, moved, c)]
      /\ g.chan = [c \in Ctx |-> IF c # s /\ Emptied(t, moved, c) THEN None ELSE t.chan[c]]
      /\ g.detect = (t.detect /\ ~(cur # s /\ Emptied(t, moved, cur)))
      /\ g = [ch |-> g.ch, count |-> g.count, chan |-> g.chan, detect |-> g.detect]
  BY DEF Gather
<1>3. s \in Ctx \cup {None} /\ (moved # {} => s \in Ctx /\ t.chan[s] # None)
  BY <1>1 DEF ChanAssumption
<1> HIDE DEF s, g
<1>4. \A c \in Ctx : g.count[c] \in Nat /\ g.count[c] >= Cardinality(On(g, c))
  <2> SUFFICES ASSUME NEW c \in Ctx
               PROVE  g.count[c] \in Nat /\ g.count[c] >= Cardinality(On(g, c))
    OBVIOUS
  <2>1. CASE c = s
    <3>1. On(g, c) = On(t, c) \cup moved
      BY <1>1, <1>2, <2>1 DEF On
    <3>2. g.count[c] = t.count[c] + Cardinality(moved) - Leave(t, moved, c)
      BY <1>2, <2>1
    <3>3. /\ t.count[c] + Cardinality(moved) - Leave(t, moved, c) \in Nat
          /\ t.count[c] + Cardinality(moved) - Leave(t, moved, c) >= Cardinality(On(t, c) \cup moved)
      BY LeaveBounds
    <3> QED  BY <3>1, <3>2, <3>3
  <2>2. CASE c # s
    <3>1. On(g, c) = On(t, c) \ moved
      BY <1>1, <1>2, <2>2 DEF On
    <3>2. g.count[c] = Left(t, moved, c)
      BY <1>2, <2>2
    <3>3. /\ Left(t, moved, c) \in Nat
          /\ Left(t, moved, c) >= Cardinality(On(t, c) \ moved)
      BY LeaveBounds
    <3> QED  BY <3>1, <3>2, <3>3
  <2> QED  BY <2>1, <2>2
<1>5. g \in Table
  <2>1. g.ch \in [Vif -> Ctx \cup {None}]  BY <1>1, <1>2, <1>3
  <2>2. g.count \in [Ctx -> Nat]  BY <1>2, <1>4
  <2>3. g.chan \in [Ctx -> Freq \cup {None}]  BY <1>1, <1>2
  <2>4. g.detect \in BOOLEAN  BY <1>1, <1>2
  <2> QED  BY <1>2, <2>1, <2>2, <2>3, <2>4 DEF Table
<1>6. \A w \in Vif : g.ch[w] # None => g.chan[g.ch[w]] # None
  <2> SUFFICES ASSUME NEW w \in Vif, g.ch[w] # None  PROVE g.chan[g.ch[w]] # None
    OBVIOUS
  <2>1. CASE w \in moved
    BY <1>1, <1>2, <1>3, <2>1
  <2>2. CASE w \notin moved
    <3>1. g.ch[w] = t.ch[w] /\ t.ch[w] \in Ctx /\ t.chan[t.ch[w]] # None
      BY <1>1, <1>2, <2>2
    <3>2. On(t, t.ch[w]) \ moved # {}
      BY <2>2 DEF On
    <3>3. ~Emptied(t, moved, t.ch[w])
      BY <3>1, <3>2, LeaveBounds
    <3> QED  BY <1>2, <3>1, <3>3
  <2> QED  BY <2>1, <2>2
<1> QED  BY <1>4, <1>5, <1>6 DEF Good, Covers, g

\* UnlinkAll.
LEMMA UnlinkAllKeeps ==
  ASSUME ChanAssumption, NEW t, Good(t), NEW vs \in SUBSET Vif
  PROVE  Good(UnlinkAll(t, vs))
<1> DEFINE g == UnlinkAll(t, vs)
<1>1. /\ t.ch \in [Vif -> Ctx \cup {None}] /\ t.count \in [Ctx -> Nat]
      /\ t.chan \in [Ctx -> Freq \cup {None}] /\ t.detect \in BOOLEAN
      /\ \A w \in Vif : t.ch[w] # None => t.chan[t.ch[w]] # None
  BY DEF Good, Table, Covers
<1>2. /\ g.ch = [v \in Vif |-> IF v \in vs THEN None ELSE t.ch[v]]
      /\ g.count = [c \in Ctx |-> Left(t, vs, c)]
      /\ g.chan = [c \in Ctx |-> IF Emptied(t, vs, c) THEN None ELSE t.chan[c]]
      /\ g.detect = (t.detect /\ ~Emptied(t, vs, cur))
      /\ g = [ch |-> g.ch, count |-> g.count, chan |-> g.chan, detect |-> g.detect]
  BY DEF UnlinkAll
<1> HIDE DEF g
<1>3. \A c \in Ctx : g.count[c] \in Nat /\ g.count[c] >= Cardinality(On(g, c))
  <2> SUFFICES ASSUME NEW c \in Ctx
               PROVE  g.count[c] \in Nat /\ g.count[c] >= Cardinality(On(g, c))
    OBVIOUS
  <2>1. On(g, c) = On(t, c) \ vs
    BY <1>1, <1>2 DEF On, ChanAssumption
  <2>2. g.count[c] = Left(t, vs, c)
    BY <1>2
  <2>3. Left(t, vs, c) \in Nat /\ Left(t, vs, c) >= Cardinality(On(t, c) \ vs)
    BY LeaveBounds
  <2> QED  BY <2>1, <2>2, <2>3
<1>4. g \in Table
  <2>1. g.ch \in [Vif -> Ctx \cup {None}]  BY <1>1, <1>2
  <2>2. g.count \in [Ctx -> Nat]  BY <1>2, <1>3
  <2>3. g.chan \in [Ctx -> Freq \cup {None}]  BY <1>1, <1>2
  <2>4. g.detect \in BOOLEAN  BY <1>1, <1>2
  <2> QED  BY <1>2, <2>1, <2>2, <2>3, <2>4 DEF Table
<1>5. \A w \in Vif : g.ch[w] # None => g.chan[g.ch[w]] # None
  <2> SUFFICES ASSUME NEW w \in Vif, g.ch[w] # None  PROVE g.chan[g.ch[w]] # None
    OBVIOUS
  <2>1. w \notin vs /\ g.ch[w] = t.ch[w] /\ t.ch[w] \in Ctx /\ t.chan[t.ch[w]] # None
    BY <1>1, <1>2
  <2>2. On(t, t.ch[w]) \ vs # {}
    BY <2>1 DEF On
  <2>3. ~Emptied(t, vs, t.ch[w])
    BY <2>1, <2>2, LeaveBounds
  <2> QED  BY <1>2, <2>1, <2>3
<1> QED  BY <1>3, <1>4, <1>5 DEF Good, Covers, g

\* The interfaces that move with the station.
LEMMA MovedBounds ==
  ASSUME ChanAssumption, NEW t, Good(t), NEW stray \in Strays
  PROVE  /\ Moved(t, stray) \in SUBSET Vif
         /\ Moved(t, stray) # {} => t.ch[Sta] \in Ctx /\ Sta \in Vif
BY DEF Moved, Good, Table, Vif

LEMMA LinkKeeps ==
  ASSUME ChanAssumption, NEW t, Good(t), NEW stray \in Strays,
         NEW v \in Vif, NEW c \in Ctx, NEW f \in Freq
  PROVE  Good(Link(t, v, c, f, stray)) /\ LinkMoves(t, v, c, f, stray) \in SUBSET Vif
<1>1. Good(Linked(t, v, c, f))
  BY LinkedKeeps
<1>2. /\ LinkMoves(t, v, c, f, stray) \in SUBSET Vif
      /\ LinkMoves(t, v, c, f, stray) # {} =>
           Linked(t, v, c, f).ch[Sta] \in Ctx /\ Sta \in Vif
  BY <1>1, MovedBounds DEF LinkMoves
<1>3. Good(Gather(Linked(t, v, c, f), LinkMoves(t, v, c, f, stray)))
  BY <1>1, <1>2, GatherKeeps
<1> QED  BY <1>2, <1>3 DEF Link

LEMMA LinkIsLinked ==
  ASSUME ChanAssumption, NEW t, Good(t), NEW stray \in Strays,
         NEW v \in Vif, NEW c \in Ctx, NEW f \in Freq
  PROVE  Link(t, v, c, f, stray).ch[v] \in Ctx
<1> DEFINE l == Linked(t, v, c, f)
           moved == LinkMoves(t, v, c, f, stray)
<1>1. Good(l) /\ l.ch[v] = c
  BY LinkedKeeps
<1>2. moved # {} => l.ch[Sta] \in Ctx
  BY <1>1, MovedBounds DEF LinkMoves
<1> HIDE DEF l, moved
<1>3. Gather(l, moved).ch[v] \in Ctx
  BY <1>1, <1>2 DEF Gather
<1> QED  BY <1>3 DEF Link, l, moved

LEMMA EnableKeeps ==
  ASSUME NEW t, Good(t), NEW k \in Ctx
  PROVE  Good(EnableOn(t, k))
<1>1. CASE t.chan[k] = None
  BY <1>1 DEF EnableOn
<1>2. CASE t.chan[k] # None
  <2> DEFINE u == EnableOn(t, k)
  <2>1. /\ u = [t EXCEPT !.detect = t.chan[k] \in Radar]
        /\ t \in Table
    BY <1>2 DEF EnableOn, Good
  <2>2. u \in Table /\ u.ch = t.ch /\ u.count = t.count /\ u.chan = t.chan
    <3> DEFINE b == t.chan[k] \in Radar
    <3>1. b \in BOOLEAN  OBVIOUS
    <3>2. u = [t EXCEPT !.detect = b]  BY <2>1
    <3> HIDE DEF b, u
    <3> QED  BY <2>1, <3>1, <3>2 DEF Table
  <2>3. \A c \in Ctx : On(u, c) = On(t, c)
    BY <2>2 DEF On
  <2> HIDE DEF u
  <2>4. Covers(u)
    BY <2>2, <2>3 DEF Good, Covers
  <2> QED  BY <2>2, <2>4 DEF Good, u
<1> QED  BY <1>1, <1>2

\* Detection and the channel of a context are no matter of the links.
LEMMA DetectKeeps ==
  ASSUME NEW t, Good(t), NEW b \in BOOLEAN
  PROVE  /\ Good([t EXCEPT !.detect = b]) /\ [t EXCEPT !.detect = b].detect = b
         /\ [t EXCEPT !.detect = b].ch = t.ch /\ [t EXCEPT !.detect = b].chan = t.chan
<1> DEFINE u == [t EXCEPT !.detect = b]
<1>1. /\ u \in Table /\ u.ch = t.ch /\ u.count = t.count /\ u.chan = t.chan
      /\ u.detect = b
  BY DEF Good, Table
<1>2. \A c \in Ctx : On(u, c) = On(t, c)
  BY <1>1 DEF On
<1> HIDE DEF u
<1>3. Covers(u)
  BY <1>1, <1>2 DEF Good, Covers
<1> QED  BY <1>1, <1>3 DEF Good, u

LEMMA ChanKeeps ==
  ASSUME ChanAssumption, NEW t, Good(t), NEW c \in Ctx, NEW f \in Freq
  PROVE  LET u == [t EXCEPT !.chan = [@ EXCEPT ![c] = f]] IN
         /\ Good(u) /\ u.ch = t.ch /\ u.detect = t.detect
         /\ \A d \in Ctx : u.chan[d] = IF d = c THEN f ELSE t.chan[d]
<1> DEFINE u == [t EXCEPT !.chan = [@ EXCEPT ![c] = f]]
<1>1. /\ u \in Table /\ u.ch = t.ch /\ u.count = t.count
      /\ u.chan = [t.chan EXCEPT ![c] = f] /\ u.detect = t.detect
      /\ t.chan \in [Ctx -> Freq \cup {None}] /\ t.ch \in [Vif -> Ctx \cup {None}]
  BY DEF Good, Table
<1>2. \A d \in Ctx : On(u, d) = On(t, d)
  BY <1>1 DEF On
<1> HIDE DEF u
<1>3. \A d \in Ctx : u.chan[d] = IF d = c THEN f ELSE t.chan[d]
  BY <1>1
<1>4. f # None
  BY DEF ChanAssumption
<1>5. Covers(u)
  BY <1>1, <1>2, <1>3, <1>4 DEF Good, Covers
<1> QED  BY <1>1, <1>3, <1>5 DEF Good, u

\* The channel of a monitor.
LEMMA RetuneKeeps ==
  ASSUME ChanAssumption, NEW t, Good(t), NEW stray \in Strays,
         NEW m \in Mon, NEW c \in Ctx, NEW f \in Freq
  PROVE  Good(Retune(t, m, c, f, stray))
<1>0. m \in Vif
  BY DEF Vif
<1>1. CASE t.ch[m] # None
  <2>1. t.ch[m] \in Ctx
    BY <1>0, <1>1 DEF Good, Table
  <2> QED  BY <1>1, <2>1, ChanKeeps DEF Retune
<1>2. CASE t.ch[m] = None
  BY <1>0, <1>2, LinkKeeps DEF Retune
<1> QED  BY <1>1, <1>2

----------------------------------------------------------------------------
(* The queues and the firmware.                                             *)

Queues == [Vif -> {"none", "go", "stop"}]

FwType == [ch: [Vif -> Ctx \cup {None}], freq: [Ctx -> Freq \cup {None}],
           cur: Ctx \cup {None}, pre: BOOLEAN]

FwGood ==
  /\ fw \in FwType
  /\ \A v \in Vif : fw.ch[v] # None => fw.freq[fw.ch[v]] # None

LEMMA SetQType ==
  ASSUME q \in Queues, NEW vs, NEW x \in {"go", "stop"}
  PROVE  SetQ(vs, x) \in Queues
BY DEF Queues, SetQ

LEMMA NewQType ==
  ASSUME q \in Queues, NEW moved, NEW v \in Vif, NEW c
  PROVE  NewQ(v, c, moved) \in Queues
<1>1. SetQ(moved, "go") \in Queues
  BY SetQType
<1> QED  BY <1>1 DEF Queues, NewQ

LEMMA UsedType ==
  ASSUME NEW ch \in [Vif -> Ctx \cup {None}], NEW freq \in [Ctx -> Freq \cup {None}]
  PROVE  /\ Used(ch, freq) \in [Ctx -> Freq \cup {None}]
         /\ \A v \in Vif : ch[v] # None => Used(ch, freq)[ch[v]] = freq[ch[v]]
BY DEF Used

\* What the firmware does when an interface joins a context.
LEMMA FwLinkIs ==
  ASSUME ChanAssumption, fw \in FwType, NEW v, NEW c \in Ctx, NEW f \in Freq, FwLink(v, c, f)
  PROVE  /\ fw' \in FwType /\ fw'.cur = fw.cur /\ fw'.pre = fw.pre
         /\ \A w \in Vif : fw'.ch[w] =
              IF w = v \/ (v = Sta /\ fw.ch[w] # None) THEN c ELSE fw.ch[w]
         /\ \A w \in Vif : fw'.ch[w] # None =>
              fw'.freq[fw'.ch[w]] = IF fw'.ch[w] = c THEN f ELSE fw.freq[fw'.ch[w]]
<1> DEFINE ch == [w \in Vif |-> IF w = v \/ (v = Sta /\ fw.ch[w] # None)
                               THEN c ELSE fw.ch[w]]
           freq == [fw.freq EXCEPT ![c] = f]
<1>1. /\ fw.ch \in [Vif -> Ctx \cup {None}] /\ fw.freq \in [Ctx -> Freq \cup {None}]
      /\ fw.cur \in Ctx \cup {None} /\ fw.pre \in BOOLEAN
      /\ fw = [ch |-> fw.ch, freq |-> fw.freq, cur |-> fw.cur, pre |-> fw.pre]
  BY DEF FwType
<1>2. ch \in [Vif -> Ctx \cup {None}] /\ freq \in [Ctx -> Freq \cup {None}]
  BY <1>1
<1>3. fw' = [fw EXCEPT !.ch = ch, !.freq = Used(ch, freq)]
  BY <1>1 DEF FwLink
<1>4. \A w \in Vif : ch[w] = IF w = v \/ (v = Sta /\ fw.ch[w] # None) THEN c ELSE fw.ch[w]
  OBVIOUS
<1>5. \A d \in Ctx : freq[d] = IF d = c THEN f ELSE fw.freq[d]
  BY <1>1
<1> HIDE DEF ch, freq
<1>6. /\ Used(ch, freq) \in [Ctx -> Freq \cup {None}]
      /\ \A w \in Vif : ch[w] # None => Used(ch, freq)[ch[w]] = freq[ch[w]]
  BY <1>2, UsedType
<1>7. /\ fw'.ch = ch /\ fw'.freq = Used(ch, freq) /\ fw'.cur = fw.cur /\ fw'.pre = fw.pre
      /\ fw' \in FwType
  BY <1>1, <1>2, <1>3, <1>6 DEF FwType
<1>8. ASSUME NEW w \in Vif, fw'.ch[w] # None
      PROVE  fw'.freq[fw'.ch[w]] = IF fw'.ch[w] = c THEN f ELSE fw.freq[fw'.ch[w]]
  <2>1. ch[w] \in Ctx /\ fw'.freq[fw'.ch[w]] = freq[ch[w]]
    BY <1>2, <1>6, <1>7, <1>8
  <2> QED  BY <1>5, <1>7, <2>1
<1> QED  BY <1>4, <1>7, <1>8

\* And when one leaves its context.
LEMMA FwLeaveIs ==
  ASSUME fw \in FwType, NEW v, FwLeave(v)
  PROVE  /\ fw' \in FwType /\ fw'.cur = fw.cur /\ fw'.pre = fw.pre
         /\ \A w \in Vif : fw'.ch[w] = IF w = v THEN None ELSE fw.ch[w]
         /\ \A w \in Vif : fw'.ch[w] # None => fw'.freq[fw'.ch[w]] = fw.freq[fw'.ch[w]]
<1> DEFINE ch == [fw.ch EXCEPT ![v] = None]
<1>1. /\ fw.ch \in [Vif -> Ctx \cup {None}] /\ fw.freq \in [Ctx -> Freq \cup {None}]
      /\ fw.cur \in Ctx \cup {None} /\ fw.pre \in BOOLEAN
      /\ fw = [ch |-> fw.ch, freq |-> fw.freq, cur |-> fw.cur, pre |-> fw.pre]
  BY DEF FwType
<1>2. ch \in [Vif -> Ctx \cup {None}]
  BY <1>1
<1>3. fw' = [fw EXCEPT !.ch = ch, !.freq = Used(ch, fw.freq)]
  BY <1>1 DEF FwLeave
<1>4. \A w \in Vif : ch[w] = IF w = v THEN None ELSE fw.ch[w]
  BY <1>1
<1> HIDE DEF ch
<1>5. /\ Used(ch, fw.freq) \in [Ctx -> Freq \cup {None}]
      /\ \A w \in Vif : ch[w] # None => Used(ch, fw.freq)[ch[w]] = fw.freq[ch[w]]
  BY <1>1, <1>2, UsedType
<1>6. /\ fw'.ch = ch /\ fw'.freq = Used(ch, fw.freq) /\ fw'.cur = fw.cur /\ fw'.pre = fw.pre
      /\ fw' \in FwType
  BY <1>1, <1>2, <1>3, <1>5 DEF FwType
<1> QED  BY <1>4, <1>5, <1>6

LEMMA FwLinkType ==
  ASSUME ChanAssumption, FwGood, NEW v, NEW c \in Ctx, NEW f \in Freq, FwLink(v, c, f)
  PROVE  FwGood'
<1>1. /\ fw' \in FwType
      /\ \A w \in Vif : fw'.ch[w] =
           IF w = v \/ (v = Sta /\ fw.ch[w] # None) THEN c ELSE fw.ch[w]
      /\ \A w \in Vif : fw'.ch[w] # None =>
           fw'.freq[fw'.ch[w]] = IF fw'.ch[w] = c THEN f ELSE fw.freq[fw'.ch[w]]
  BY FwLinkIs DEF FwGood
<1>2. f # None /\ \A w \in Vif : fw.ch[w] # None => fw.freq[fw.ch[w]] # None
  BY DEF ChanAssumption, FwGood
<1>3. \A w \in Vif : fw'.ch[w] # None => fw'.freq[fw'.ch[w]] # None
  BY <1>1, <1>2
<1> QED  BY <1>1, <1>3 DEF FwGood

LEMMA FwLeaveType ==
  ASSUME FwGood, NEW v, FwLeave(v)
  PROVE  FwGood'
<1>1. /\ fw' \in FwType
      /\ \A w \in Vif : fw'.ch[w] = IF w = v THEN None ELSE fw.ch[w]
      /\ \A w \in Vif : fw'.ch[w] # None => fw'.freq[fw'.ch[w]] = fw.freq[fw'.ch[w]]
  BY FwLeaveIs DEF FwGood
<1>2. \A w \in Vif : fw'.ch[w] # None => fw'.freq[fw'.ch[w]] # None
  BY <1>1 DEF FwGood
<1> QED  BY <1>1, <1>2 DEF FwGood

\* Move: the end of a channel switch.
LEMMA MoveKeeps ==
  ASSUME ChanAssumption, Good(tab), q \in Queues, cur \in Ctx,
         NEW v \in Vif, NEW c \in Ctx, NEW f \in Freq, Move(v, c, f)
  PROVE  Good(tab') /\ q' \in Queues
<1>1. PICK stray \in Strays :
        LET t == Unlink(tab, v)
            moved == LinkMoves(t, v, c, f, stray)
            l == Link(t, v, c, f, stray)
        IN  /\ tab' = IF cur = c THEN EnableOn(l, cur) ELSE l
            /\ q' = [v2 \in Vif |->
                       IF v2 = v THEN SetQ({v}, IF cur = c THEN "go" ELSE "stop")[v]
                       ELSE SetQ(moved, "go")[v2]]
  BY DEF Move
<1> DEFINE l == Link(Unlink(tab, v), v, c, f, stray)
           moved == LinkMoves(Unlink(tab, v), v, c, f, stray)
           x == IF cur = c THEN "go" ELSE "stop"
<1>2. Good(l)
  BY UnlinkKeeps, LinkKeeps
<1>3. Good(EnableOn(l, cur))
  BY <1>2, EnableKeeps
<1>4. SetQ({v}, x) \in Queues /\ SetQ(moved, "go") \in Queues
  BY SetQType
<1>5. tab' = (IF cur = c THEN EnableOn(l, cur) ELSE l)
  BY <1>1
<1>6. q' = [v2 \in Vif |-> IF v2 = v THEN SetQ({v}, x)[v] ELSE SetQ(moved, "go")[v2]]
  BY <1>1
<1> HIDE DEF l, moved, x
<1>7. Good(tab')
  BY <1>2, <1>3, <1>5
<1>8. q' \in Queues
  BY <1>4, <1>6 DEF Queues
<1> QED  BY <1>7, <1>8

----------------------------------------------------------------------------
(* The inductive invariant.                                                 *)

Interfaces ==
  /\ cur \in Ctx
  /\ up \subseteq Vif /\ started \subseteq Vif /\ again \subseteq Ap

Requests ==
  op \in [k: {"none", "start_ap", "stop_ap", "close", "restart", "start_cac", "monitor"},
         s: {"none", "ask", "cfm", "radar", "cancel", "cancelling", "left"},
         v: Vif \cup {None}, f: Freq \cup {None}, c: Ctx \cup {None}]

Csa == [s: {"none", "beacon", "sched", "freed", "failed"},
        f: Freq \cup {None}, c: Ctx \cup {None}]

Works ==
  /\ cac \in [vif: Vif \cup {None}, work: {"idle", "pending", "sent"}]
  /\ csa \in [Ap -> Csa]
  /\ stuck \in BOOLEAN
  /\ beat \in [c: Ctx, f: Freq] \cup {None}
  /\ beat # None => Sta \in Vif
  /\ dfs \in [s: {"idle", "seen", "cancelling", "off"}, f: Freq \cup {None}]
  /\ nop \subseteq Radar

IInv ==
  /\ Good(tab)
  /\ q \in Queues /\ FwGood
  /\ Interfaces /\ Requests /\ Works
  /\ RequestIsFull /\ SwitchIsFull

LEMMA IInvIsEnough == ASSUME IInv PROVE TypeOK /\ CountCovers
BY DEF IInv, Good, Table, Covers, Queues, FwGood, FwType, Interfaces, Requests, Works, Csa,
       TypeOK, CountCovers

LEMMA InitIInv == ASSUME ChanAssumption, Init PROVE IInv
<1>1. Good(tab)
  <2>1. \A c \in Ctx : On(tab, c) = {}
    BY DEF Init, On, ChanAssumption
  <2>2. Cardinality({}) = 0
    BY FS_EmptySet
  <2>3. \A c \in Ctx : tab.count[c] >= Cardinality(On(tab, c))
    <3> SUFFICES ASSUME NEW c \in Ctx  PROVE tab.count[c] >= Cardinality(On(tab, c))
      OBVIOUS
    <3>1. tab.count[c] = 0  BY DEF Init
    <3> QED  BY <2>1, <2>2, <3>1
  <2> QED  BY <2>3 DEF Init, Good, Table, Covers
<1>2. q \in Queues /\ FwGood
  BY DEF Init, Queues, FwGood, FwType, NoFw
<1>3. Interfaces /\ Requests /\ Works
  BY DEF Init, Interfaces, Requests, Works, Csa, NoOp, NoCac, NoCsa, NoDfs
<1>4. RequestIsFull /\ SwitchIsFull
  BY DEF Init, RequestIsFull, SwitchIsFull, NoOp, NoCsa
<1> QED  BY <1>1, <1>2, <1>3, <1>4 DEF IInv

\* Where the table does not change.
LEMMA SameTable == ASSUME Good(tab), UNCHANGED tab PROVE Good(tab)'
BY DEF Good, Table, Covers, On

LEMMA NewTable == ASSUME Good(tab') PROVE Good(tab)'
BY DEF Good, Table, Covers, On

\* What an element of a switch becomes.
LEMMA CsaType ==
  ASSUME NEW e \in Csa
  PROVE  /\ NoCsa \in Csa /\ [NoCsa EXCEPT !.s = "failed"] \in Csa
         /\ DelCsa(e) \in Csa
         /\ \A c \in Ctx : [e EXCEPT !.s = "sched", !.c = c] \in Csa
BY DEF Csa, NoCsa, DelCsa

LEMMA PreSwitchKeeps ==
  ASSUME ChanAssumption, IInv, PreSwitch
  PROVE  IInv'
<1> USE DEF IInv
<1>1. Good(tab)'
  BY SameTable DEF PreSwitch
<1>2. q' \in Queues
  BY SetQType DEF PreSwitch
<1>3. FwGood'
  BY DEF PreSwitch, FwGood, FwType
<1>4. Interfaces'
  BY DEF PreSwitch, Interfaces
<1>5. Requests'
  BY DEF PreSwitch, Requests, Works
<1>6. Works'
  BY DEF PreSwitch, Works, Requests
<1>7. (RequestIsFull /\ SwitchIsFull)'
  BY DEF PreSwitch, RequestIsFull, SwitchIsFull, Requests, Works
<1> QED  BY <1>1, <1>2, <1>3, <1>4, <1>5, <1>6, <1>7

LEMMA SwitchKeeps ==
  ASSUME ChanAssumption, IInv, NEW c \in Ctx, Switch(c)
  PROVE  IInv'
<1> USE DEF IInv
<1>1. Good(tab)'
  BY EnableKeeps, NewTable DEF Switch
<1>2. q' \in Queues
  BY SetQType DEF Switch, StartNew
<1>3. FwGood'
  BY DEF Switch, FwGood, FwType
<1>4. Interfaces'
  BY DEF Switch, Interfaces
<1>5. Requests'
  BY DEF Switch, Requests, Works
<1>6. Works'
  BY DEF Switch, Works, Requests
<1>7. (RequestIsFull /\ SwitchIsFull)'
  BY DEF Switch, RequestIsFull, SwitchIsFull, Requests, Works
<1> QED  BY <1>1, <1>2, <1>3, <1>4, <1>5, <1>6, <1>7

LEMMA OpenKeeps ==
  ASSUME ChanAssumption, IInv, NEW v \in Vif, Open(v)
  PROVE  IInv'
<1> USE DEF IInv
<1>1. Good(tab)'
  BY SameTable DEF Open
<1>2. q' \in Queues
  BY DEF Open
<1>3. FwGood'
  BY DEF Open, FwGood
<1>4. Interfaces'
  BY DEF Open, Interfaces
<1>5. Requests'
  BY DEF Open, Requests, Works
<1>6. Works'
  BY DEF Open, Works, Requests
<1>7. (RequestIsFull /\ SwitchIsFull)'
  BY DEF Open, RequestIsFull, SwitchIsFull, Requests, Works
<1> QED  BY <1>1, <1>2, <1>3, <1>4, <1>5, <1>6, <1>7

LEMMA StartApAskKeeps ==
  ASSUME ChanAssumption, IInv, NEW v \in Ap, NEW f \in Freq, StartApAsk(v, f)
  PROVE  IInv'
<1> USE DEF IInv
<1>1. Good(tab)'
  BY SameTable DEF StartApAsk
<1>2. q' \in Queues
  BY DEF StartApAsk
<1>3. FwGood'
  BY DEF StartApAsk, FwGood
<1>4. Interfaces'
  BY DEF StartApAsk, Ask, Vif, Interfaces
<1>5. Requests'
  BY DEF StartApAsk, Ask, Vif, Requests, Works
<1>6. Works'
  BY DEF StartApAsk, Ask, Vif, Works, Requests
<1>7. (RequestIsFull /\ SwitchIsFull)'
  BY DEF StartApAsk, Ask, Vif, RequestIsFull, SwitchIsFull, Requests, Works
<1> QED  BY <1>1, <1>2, <1>3, <1>4, <1>5, <1>6, <1>7

LEMMA FwStartsKeeps ==
  ASSUME ChanAssumption, IInv, NEW c \in Ctx, FwStarts(c)
  PROVE  IInv'
<1> USE DEF IInv
<1>1. Good(tab)'
  BY SameTable DEF FwStarts
<1>2. q' \in Queues
  BY DEF FwStarts, FwGood
<1>3. FwGood'
  BY FwLinkType DEF FwStarts, RequestIsFull
<1>4. Interfaces'
  BY DEF FwStarts, Interfaces
<1>5. Requests'
  BY DEF FwStarts, Requests, Works
<1>6. Works'
  BY DEF FwStarts, Works, Requests
<1>7. (RequestIsFull /\ SwitchIsFull)'
  BY DEF FwStarts, RequestIsFull, SwitchIsFull, Requests, Works
<1> QED  BY <1>1, <1>2, <1>3, <1>4, <1>5, <1>6, <1>7

LEMMA ConnectKeeps ==
  ASSUME ChanAssumption, IInv, NEW c \in Ctx, NEW f \in Freq, Connect(c, f)
  PROVE  IInv'
<1> USE DEF IInv
<1>0. Sta \in Vif
  BY DEF Connect, Interfaces
<1>1. Good(tab)'
  BY <1>0, LinkKeeps, NewTable DEF Connect
<1>2. q' \in Queues
  BY <1>0, NewQType DEF Connect
<1>3. FwGood'
  BY FwLinkType DEF Connect
<1>4. Interfaces'
  BY <1>0 DEF Connect, Interfaces
<1>5. Requests'
  BY DEF Connect, Requests, Works
<1>6. Works'
  BY DEF Connect, Works, Requests
<1>7. (RequestIsFull /\ SwitchIsFull)'
  BY DEF Connect, RequestIsFull, SwitchIsFull, Requests, Works
<1> QED  BY <1>1, <1>2, <1>3, <1>4, <1>5, <1>6, <1>7

LEMMA StaCsaFinishKeeps ==
  ASSUME ChanAssumption, IInv, NEW c \in Ctx, NEW f \in Freq, StaCsaFinish(c, f)
  PROVE  IInv'
<1> USE DEF IInv
<1>0. Sta \in Vif
  BY DEF StaCsaFinish, Interfaces
<1>1. Good(tab)'
  BY <1>0, MoveKeeps, NewTable DEF StaCsaFinish, Interfaces
<1>2. q' \in Queues
  BY <1>0, MoveKeeps DEF StaCsaFinish, Interfaces
<1>3. FwGood'
  BY FwLinkType DEF StaCsaFinish
<1>4. Interfaces'
  BY DEF StaCsaFinish, Interfaces
<1>5. Requests'
  BY DEF StaCsaFinish, Requests, Works
<1>6. Works'
  BY DEF StaCsaFinish, Works, Requests
<1>7. (RequestIsFull /\ SwitchIsFull)'
  BY DEF StaCsaFinish, RequestIsFull, SwitchIsFull, Requests, Works
<1> QED  BY <1>1, <1>2, <1>3, <1>4, <1>5, <1>6, <1>7

LEMMA DisconnectKeeps ==
  ASSUME ChanAssumption, IInv, Disconnect
  PROVE  IInv'
<1> USE DEF IInv
<1>0. Sta \in Vif
  BY DEF Disconnect, Vif
<1>1. Good(tab)'
  BY <1>0, UnlinkKeeps, NewTable DEF Disconnect
<1>2. q' \in Queues
  BY DEF Disconnect, Queues
<1>3. FwGood'
  BY FwLeaveType DEF Disconnect
<1>4. Interfaces'
  BY DEF Disconnect, Interfaces
<1>5. Requests'
  BY DEF Disconnect, Requests, Works
<1>6. Works'
  BY DEF Disconnect, Works, Requests
<1>7. (RequestIsFull /\ SwitchIsFull)'
  BY DEF Disconnect, RequestIsFull, SwitchIsFull, Requests, Works
<1> QED  BY <1>1, <1>2, <1>3, <1>4, <1>5, <1>6, <1>7

LEMMA BeginKeeps ==
  ASSUME ChanAssumption, IInv, NEW k \in {"stop_ap", "close", "restart"}, NEW v \in Vif \cup {None},
         k = "stop_ap" => v \in Ap, k = "close" => v \in Vif, Begin(k, v)
  PROVE  IInv'
<1> USE DEF IInv
<1>1. Good(tab)'
  BY SameTable DEF Begin
<1>2. q' \in Queues
  BY DEF Begin
<1>3. FwGood'
  BY DEF Begin, FwGood
<1>4. Interfaces'
  BY DEF Begin, Ask, Interfaces
<1>5. Requests'
  BY DEF Begin, Ask, Requests, Works
<1>6. Works'
  BY DEF Begin, Ask, Works, Requests
<1>7. (RequestIsFull /\ SwitchIsFull)'
  BY DEF Begin, Ask, RequestIsFull, SwitchIsFull, Requests, Works
<1> QED  BY <1>1, <1>2, <1>3, <1>4, <1>5, <1>6, <1>7

LEMMA CacAskKeeps ==
  ASSUME ChanAssumption, IInv, NEW v \in Ap, NEW f \in Freq, CacAsk(v, f)
  PROVE  IInv'
<1> USE DEF IInv
<1>1. Good(tab)'
  BY SameTable DEF CacAsk
<1>2. q' \in Queues
  BY DEF CacAsk
<1>3. FwGood'
  BY DEF CacAsk, FwGood
<1>4. Interfaces'
  BY DEF CacAsk, Ask, Vif, Interfaces
<1>5. Requests'
  BY DEF CacAsk, Ask, Vif, Requests, Works
<1>6. Works'
  BY DEF CacAsk, Ask, Vif, Works, Requests
<1>7. (RequestIsFull /\ SwitchIsFull)'
  BY DEF CacAsk, Ask, Vif, RequestIsFull, SwitchIsFull, Requests, Works
<1> QED  BY <1>1, <1>2, <1>3, <1>4, <1>5, <1>6, <1>7

LEMMA ChannelSwitchKeeps ==
  ASSUME ChanAssumption, IInv, NEW v \in Ap, NEW f \in Freq, ChannelSwitch(v, f)
  PROVE  IInv'
<1> USE DEF IInv
<1>1. Good(tab)'
  BY SameTable DEF ChannelSwitch
<1>2. q' \in Queues
  BY DEF ChannelSwitch
<1>3. FwGood'
  BY DEF ChannelSwitch, FwGood
<1>4. Interfaces'
  BY DEF ChannelSwitch, Csa, Interfaces
<1>5. Requests'
  BY DEF ChannelSwitch, Csa, Requests, Works
<1>6. Works'
  BY DEF ChannelSwitch, Csa, Works, Requests
<1>7. (RequestIsFull /\ SwitchIsFull)'
  BY DEF ChannelSwitch, Csa, RequestIsFull, SwitchIsFull, Requests, Works
<1> QED  BY <1>1, <1>2, <1>3, <1>4, <1>5, <1>6, <1>7

LEMMA StartApKeeps ==
  ASSUME ChanAssumption, IInv, StartAp
  PROVE  IInv'
<1> USE DEF IInv
<1>0. op.v \in Ap /\ op.v \in Vif /\ op.f \in Freq /\ op.c \in Ctx
  BY DEF StartAp, Waits, RequestIsFull, Vif
<1>1. Good(tab)'
  BY <1>0, LinkKeeps, NewTable DEF StartAp
<1>2. q' \in Queues
  BY <1>0, NewQType DEF StartAp
<1>3. FwGood'
  BY DEF StartAp, FwGood
<1>4. Interfaces'
  BY <1>0 DEF StartAp, Waits, NoOp, Interfaces
<1>5. Requests'
  BY DEF StartAp, Waits, NoOp, Requests, Works
<1>6. Works'
  BY DEF StartAp, Waits, NoOp, Works, Requests
<1>7. (RequestIsFull /\ SwitchIsFull)'
  BY DEF StartAp, Waits, NoOp, RequestIsFull, SwitchIsFull, Requests, Works
<1> QED  BY <1>1, <1>2, <1>3, <1>4, <1>5, <1>6, <1>7

LEMMA StartApRadarKeeps ==
  ASSUME ChanAssumption, IInv, StartApRadar
  PROVE  IInv'
<1> USE DEF IInv
<1>1. Good(tab)'
  BY EnableKeeps, NewTable DEF StartApRadar, Interfaces
<1>2. q' \in Queues
  BY DEF StartApRadar
<1>3. FwGood'
  BY DEF StartApRadar, FwGood
<1>4. Interfaces'
  BY DEF StartApRadar, NoOp, Interfaces
<1>5. Requests'
  BY DEF StartApRadar, NoOp, Requests, Works
<1>6. Works'
  BY DEF StartApRadar, NoOp, Works, Requests
<1>7. (RequestIsFull /\ SwitchIsFull)'
  BY DEF StartApRadar, NoOp, RequestIsFull, SwitchIsFull, Requests, Works
<1> QED  BY <1>1, <1>2, <1>3, <1>4, <1>5, <1>6, <1>7

LEMMA CacLinksKeeps ==
  ASSUME ChanAssumption, IInv, CacLinks
  PROVE  IInv'
<1> USE DEF IInv
<1>0. op.v \in Ap /\ op.v \in Vif /\ op.f \in Freq /\ op.c \in Ctx
  BY DEF CacLinks, Waits, RequestIsFull, Vif
<1>1. Good(tab)'
  <2>1. PICK stray \in Strays :
          LET t == Link(tab, op.v, op.c, op.f, stray)
          IN  tab' = IF cur = t.ch[op.v] THEN [t EXCEPT !.detect = TRUE] ELSE t
    BY DEF CacLinks
  <2> DEFINE t == Link(tab, op.v, op.c, op.f, stray)
  <2>2. Good(t)
    BY <1>0, LinkKeeps
  <2>3. tab' = (IF cur = t.ch[op.v] THEN [t EXCEPT !.detect = TRUE] ELSE t)
    BY <2>1
  <2> HIDE DEF t
  <2>4. Good([t EXCEPT !.detect = TRUE])
    BY <2>2, DetectKeeps
  <2> QED  BY <2>2, <2>3, <2>4, NewTable
<1>2. q' \in Queues
  BY SetQType DEF CacLinks
<1>3. FwGood'
  BY DEF CacLinks, FwGood
<1>4. Interfaces'
  BY DEF CacLinks, Waits, NoOp, Interfaces
<1>5. Requests'
  BY DEF CacLinks, Waits, NoOp, Requests, Works
<1>6. Works'
  BY DEF CacLinks, Waits, NoOp, Works, Requests
<1>7. (RequestIsFull /\ SwitchIsFull)'
  BY DEF CacLinks, Waits, NoOp, RequestIsFull, SwitchIsFull, Requests, Works
<1> QED  BY <1>1, <1>2, <1>3, <1>4, <1>5, <1>6, <1>7

LEMMA FwRefusesKeeps ==
  ASSUME ChanAssumption, IInv, FwRefuses
  PROVE  IInv'
<1> USE DEF IInv
<1>1. Good(tab)'
  BY SameTable DEF FwRefuses
<1>2. q' \in Queues
  BY DEF FwRefuses
<1>3. FwGood'
  BY DEF FwRefuses, FwGood
<1>4. Interfaces'
  BY DEF FwRefuses, NoOp, Interfaces
<1>5. Requests'
  BY DEF FwRefuses, NoOp, Requests, Works
<1>6. Works'
  BY DEF FwRefuses, NoOp, Works, Requests
<1>7. (RequestIsFull /\ SwitchIsFull)'
  BY DEF FwRefuses, NoOp, RequestIsFull, SwitchIsFull, Requests, Works
<1> QED  BY <1>1, <1>2, <1>3, <1>4, <1>5, <1>6, <1>7

LEMMA CancelNothingKeeps ==
  ASSUME ChanAssumption, IInv, CancelNothing
  PROVE  IInv'
<1> USE DEF IInv
<1>1. Good(tab)'
  BY SameTable DEF CancelNothing
<1>2. q' \in Queues
  BY DEF CancelNothing
<1>3. FwGood'
  BY DEF CancelNothing, CancelSkips, FwGood
<1>4. Interfaces'
  BY DEF CancelNothing, CancelSkips, Interfaces
<1>5. Requests'
  BY DEF CancelNothing, CancelSkips, Requests, Works
<1>6. Works'
  BY DEF CancelNothing, CancelSkips, Works, Requests
<1>7. (RequestIsFull /\ SwitchIsFull)'
  BY DEF CancelNothing, CancelSkips, RequestIsFull, SwitchIsFull, Requests, Works
<1> QED  BY <1>1, <1>2, <1>3, <1>4, <1>5, <1>6, <1>7

LEMMA CancelPendingKeeps ==
  ASSUME ChanAssumption, IInv, CancelPending
  PROVE  IInv'
<1> USE DEF IInv
<1>1. Good(tab)'
  BY SameTable DEF CancelPending
<1>2. q' \in Queues
  BY DEF CancelPending
<1>3. FwGood'
  BY FwLeaveType DEF CancelPending, CancelStops
<1>4. Interfaces'
  BY DEF CancelPending, CancelStops, Interfaces
<1>5. Requests'
  BY DEF CancelPending, CancelStops, Requests, Works
<1>6. Works'
  BY DEF CancelPending, CancelStops, Works, Requests
<1>7. (RequestIsFull /\ SwitchIsFull)'
  BY DEF CancelPending, CancelStops, RequestIsFull, SwitchIsFull, Requests, Works
<1> QED  BY <1>1, <1>2, <1>3, <1>4, <1>5, <1>6, <1>7

LEMMA CancelEndsKeeps ==
  ASSUME ChanAssumption, IInv, CancelEnds
  PROVE  IInv'
<1> USE DEF IInv
<1>0. cac.vif \in Vif
  BY DEF CancelEnds, CancelUnlinks, Works
<1>1. Good(tab)'
  BY <1>0, UnlinkKeeps, NewTable DEF CancelEnds, CancelUnlinks
<1>2. q' \in Queues
  BY DEF CancelEnds
<1>3. FwGood'
  BY DEF CancelEnds, FwGood
<1>4. Interfaces'
  BY DEF CancelEnds, CancelUnlinks, Interfaces
<1>5. Requests'
  BY DEF CancelEnds, CancelUnlinks, Requests, Works
<1>6. Works'
  BY DEF CancelEnds, CancelUnlinks, Works, Requests
<1>7. (RequestIsFull /\ SwitchIsFull)'
  BY DEF CancelEnds, CancelUnlinks, RequestIsFull, SwitchIsFull, Requests, Works
<1> QED  BY <1>1, <1>2, <1>3, <1>4, <1>5, <1>6, <1>7

LEMMA CancelSticksKeeps ==
  ASSUME ChanAssumption, IInv, CancelSticks
  PROVE  IInv'
<1> USE DEF IInv
<1>1. Good(tab)'
  BY SameTable DEF CancelSticks
<1>2. q' \in Queues
  BY DEF CancelSticks
<1>3. FwGood'
  BY DEF CancelSticks, FwGood
<1>4. Interfaces'
  BY DEF CancelSticks, Interfaces
<1>5. Requests'
  BY DEF CancelSticks, Requests, Works
<1>6. Works'
  BY DEF CancelSticks, Works, Requests
<1>7. (RequestIsFull /\ SwitchIsFull)'
  BY DEF CancelSticks, RequestIsFull, SwitchIsFull, Requests, Works
<1> QED  BY <1>1, <1>2, <1>3, <1>4, <1>5, <1>6, <1>7

LEMMA FwStopsKeeps ==
  ASSUME ChanAssumption, IInv, FwStops
  PROVE  IInv'
<1> USE DEF IInv
<1>1. Good(tab)'
  BY SameTable DEF FwStops
<1>2. q' \in Queues
  BY DEF FwStops, FwGood
<1>3. FwGood'
  BY FwLeaveType DEF FwStops
<1>4. Interfaces'
  BY DEF FwStops, Waits, Interfaces
<1>5. Requests'
  BY DEF FwStops, Waits, Requests, Works
<1>6. Works'
  BY DEF FwStops, Waits, Works, Requests
<1>7. (RequestIsFull /\ SwitchIsFull)'
  BY DEF FwStops, Waits, RequestIsFull, SwitchIsFull, Requests, Works
<1> QED  BY <1>1, <1>2, <1>3, <1>4, <1>5, <1>6, <1>7

LEMMA StopApKeeps ==
  ASSUME ChanAssumption, IInv, StopAp
  PROVE  IInv'
<1> USE DEF IInv
<1>0. op.v \in Ap /\ op.v \in Vif
  BY DEF StopAp, Waits, RequestIsFull, Vif
<1>1. Good(tab)'
  BY <1>0, UnlinkKeeps, NewTable DEF StopAp
<1>2. q' \in Queues
  BY DEF StopAp
<1>3. FwGood'
  BY DEF StopAp, FwGood
<1>4. Interfaces'
  BY DEF StopAp, Waits, Interfaces
<1>5. Requests'
  BY DEF StopAp, Waits, Requests, Works
<1>6. Works'
  BY DEF StopAp, Waits, Works, Requests
<1>7. (RequestIsFull /\ SwitchIsFull)'
  BY DEF StopAp, Waits, RequestIsFull, SwitchIsFull, Requests, Works
<1> QED  BY <1>1, <1>2, <1>3, <1>4, <1>5, <1>6, <1>7

LEMMA StopApEndsKeeps ==
  ASSUME ChanAssumption, IInv, StopApEnds
  PROVE  IInv'
<1> USE DEF IInv
<1>0. op.v \in Ap /\ op.v \in Vif
  BY DEF StopApEnds, Waits, RequestIsFull, Vif
<1>1. Good(tab)'
  BY SameTable DEF StopApEnds
<1>2. q' \in Queues
  BY DEF StopApEnds, Queues
<1>3. FwGood'
  BY DEF StopApEnds, FwGood
<1>4. Interfaces'
  BY DEF StopApEnds, Waits, DelCsa, NoOp, NoCsa, Interfaces
<1>5. Requests'
  BY DEF StopApEnds, Waits, DelCsa, NoOp, NoCsa, Requests, Works
<1>6. Works'
  <2>1. csa \in [Ap -> Csa] /\ DelCsa(csa[op.v]) \in Csa
    BY <1>0, CsaType DEF Works
  <2>2. csa' = [csa EXCEPT ![op.v] = DelCsa(csa[op.v])]
    BY <2>1 DEF StopApEnds
  <2>3. csa' \in [Ap -> Csa]
    BY <2>1, <2>2
  <2> QED  BY <2>3 DEF StopApEnds, Works
<1>7. (RequestIsFull /\ SwitchIsFull)'
  BY DEF StopApEnds, Waits, DelCsa, NoOp, NoCsa, RequestIsFull, SwitchIsFull, Requests, Works
<1> QED  BY <1>1, <1>2, <1>3, <1>4, <1>5, <1>6, <1>7

LEMMA CloseKeeps ==
  ASSUME ChanAssumption, IInv, Close
  PROVE  IInv'
<1> USE DEF IInv
<1>1. Good(tab)'
  BY SameTable DEF Close
<1>2. q' \in Queues
  BY DEF Close, FwGood
<1>3. FwGood'
  BY FwLeaveType DEF Close
<1>4. Interfaces'
  BY DEF Close, NoOp, Interfaces
<1>5. Requests'
  BY DEF Close, NoOp, Requests, Works
<1>6. Works'
  BY DEF Close, NoOp, Works, Requests
<1>7. (RequestIsFull /\ SwitchIsFull)'
  BY DEF Close, NoOp, RequestIsFull, SwitchIsFull, Requests, Works
<1> QED  BY <1>1, <1>2, <1>3, <1>4, <1>5, <1>6, <1>7

LEMMA RestartKeeps ==
  ASSUME ChanAssumption, IInv, Restart
  PROVE  IInv'
<1> USE DEF IInv
<1>1. Good(tab)'
  <2>1. Ap \cup (started \cap {Sta}) \in SUBSET Vif
    BY DEF Interfaces, Vif
  <2> QED  BY <2>1, UnlinkAllKeeps, NewTable DEF Restart
<1>2. q' \in Queues
  BY DEF Restart, Queues
<1>3. FwGood'
  BY DEF Restart, NoFw, FwGood, FwType
<1>4. Interfaces'
  BY DEF Restart, DelCsa, NoOp, NoCsa, Interfaces
<1>5. Requests'
  BY DEF Restart, DelCsa, NoOp, NoCsa, Requests, Works
<1>6. Works'
  <2>1. \A v \in Ap : DelCsa(csa[v]) \in Csa
    BY CsaType DEF Works
  <2>2. csa' \in [Ap -> Csa]
    BY <2>1 DEF Restart
  <2> QED  BY <2>2 DEF Restart, Works
<1>7. (RequestIsFull /\ SwitchIsFull)'
  BY DEF Restart, DelCsa, NoOp, NoCsa, RequestIsFull, SwitchIsFull, Requests, Works
<1> QED  BY <1>1, <1>2, <1>3, <1>4, <1>5, <1>6, <1>7

LEMMA MonitorAskKeeps ==
  ASSUME ChanAssumption, IInv, NEW m \in Mon, NEW f \in Freq, MonitorAsk(m, f)
  PROVE  IInv'
<1> USE DEF IInv
<1>1. Good(tab)'
  BY SameTable DEF MonitorAsk
<1>2. q' \in Queues
  BY DEF MonitorAsk
<1>3. FwGood'
  BY DEF MonitorAsk, FwGood
<1>4. Interfaces'
  BY DEF MonitorAsk, Ask, Vif, Interfaces
<1>5. Requests'
  BY DEF MonitorAsk, Ask, Vif, Requests, Works
<1>6. Works'
  BY DEF MonitorAsk, Ask, Vif, Works, Requests
<1>7. (RequestIsFull /\ SwitchIsFull)'
  BY DEF MonitorAsk, Ask, Vif, RequestIsFull, SwitchIsFull, Requests, Works
<1> QED  BY <1>1, <1>2, <1>3, <1>4, <1>5, <1>6, <1>7

LEMMA FwSetsNoneKeeps ==
  ASSUME ChanAssumption, IInv, FwSetsNone
  PROVE  IInv'
<1> USE DEF IInv
<1>1. Good(tab)'
  BY SameTable DEF FwSetsNone
<1>2. q' \in Queues
  BY DEF FwSetsNone
<1>3. FwGood'
  BY FwLeaveType DEF FwSetsNone
<1>4. Interfaces'
  BY DEF FwSetsNone, Waits, Interfaces
<1>5. Requests'
  BY DEF FwSetsNone, Waits, Requests, Works
<1>6. Works'
  BY DEF FwSetsNone, Waits, Works, Requests
<1>7. (RequestIsFull /\ SwitchIsFull)'
  BY DEF FwSetsNone, Waits, RequestIsFull, SwitchIsFull, Requests, Works
<1> QED  BY <1>1, <1>2, <1>3, <1>4, <1>5, <1>6, <1>7

LEMMA MonitorSetKeeps ==
  ASSUME ChanAssumption, IInv, MonitorSet
  PROVE  IInv'
<1> USE DEF IInv
<1>0. op.v \in Mon /\ op.v \in Vif /\ op.f \in Freq /\ op.c \in Ctx \cup {None}
  BY DEF MonitorSet, Waits, RequestIsFull, Requests, Vif
<1>1. Good(tab)'
  <2>1. CASE op.c = None
    BY <1>0, <2>1, UnlinkKeeps, NewTable DEF MonitorSet
  <2>2. CASE op.c # None
    BY <1>0, <2>2, RetuneKeeps, NewTable DEF MonitorSet
  <2> QED  BY <2>1, <2>2
<1>2. q' \in Queues
  <2>1. q' = q \/ \E vs : q' = SetQ(vs, "go")
    BY DEF MonitorSet
  <2> QED  BY <2>1, SetQType
<1>3. FwGood'
  BY DEF MonitorSet, FwGood
<1>4. Interfaces'
  BY DEF MonitorSet, Waits, NoOp, Interfaces
<1>5. Requests'
  BY DEF MonitorSet, Waits, NoOp, Requests, Works
<1>6. Works'
  BY DEF MonitorSet, Waits, NoOp, Works, Requests
<1>7. (RequestIsFull /\ SwitchIsFull)'
  BY DEF MonitorSet, Waits, NoOp, RequestIsFull, SwitchIsFull, Requests, Works
<1> QED  BY <1>1, <1>2, <1>3, <1>4, <1>5, <1>6, <1>7

LEMMA MonitorGetKeeps ==
  ASSUME ChanAssumption, IInv, NEW m \in Mon, NEW c \in Ctx, NEW f \in Freq, MonitorGet(m, c, f)
  PROVE  IInv'
<1> USE DEF IInv
<1>0. m \in Vif
  BY DEF Vif
<1>1. Good(tab)'
  <2>1. Good([tab EXCEPT !.chan = [@ EXCEPT ![c] = f]])
    BY ChanKeeps
  <2> DEFINE t == [tab EXCEPT !.chan = [@ EXCEPT ![c] = f]]
  <2>2. PICK stray \in Strays : tab' \in {Retune(t, m, c, f, stray), Link(t, m, c, f, stray)}
    BY DEF MonitorGet
  <2>3. Good(t)
    BY <2>1
  <2> HIDE DEF t
  <2>4. Good(Retune(t, m, c, f, stray)) /\ Good(Link(t, m, c, f, stray))
    BY <1>0, <2>3, RetuneKeeps, LinkKeeps
  <2> QED  BY <2>2, <2>4, NewTable
<1>2. q' \in Queues
  <2>1. q' = q \/ \E vs : q' = SetQ(vs, "go")
    BY DEF MonitorGet
  <2> QED  BY <2>1, SetQType
<1>3. FwGood'
  <2>1. fw.freq[c] \in Freq
    BY DEF MonitorGet, FwUsers, FwGood, FwType
  <2> QED  BY <2>1, FwLinkType DEF MonitorGet
<1>4. Interfaces'
  BY DEF MonitorGet, Interfaces
<1>5. Requests'
  BY DEF MonitorGet, Requests, Works
<1>6. Works'
  BY DEF MonitorGet, Works, Requests
<1>7. (RequestIsFull /\ SwitchIsFull)'
  BY DEF MonitorGet, RequestIsFull, SwitchIsFull, Requests, Works
<1> QED  BY <1>1, <1>2, <1>3, <1>4, <1>5, <1>6, <1>7

LEMMA MonitorLostKeeps ==
  ASSUME ChanAssumption, IInv, NEW m \in Mon, MonitorLost(m)
  PROVE  IInv'
<1> USE DEF IInv
<1>0. m \in Vif
  BY DEF Vif
<1>1. Good(tab)'
  BY <1>0, UnlinkKeeps, NewTable DEF MonitorLost
<1>2. q' \in Queues
  BY DEF MonitorLost
<1>3. FwGood'
  BY FwLeaveType DEF MonitorLost
<1>4. Interfaces'
  BY DEF MonitorLost, Interfaces
<1>5. Requests'
  BY DEF MonitorLost, Requests, Works
<1>6. Works'
  BY DEF MonitorLost, Works, Requests
<1>7. (RequestIsFull /\ SwitchIsFull)'
  BY DEF MonitorLost, RequestIsFull, SwitchIsFull, Requests, Works
<1> QED  BY <1>1, <1>2, <1>3, <1>4, <1>5, <1>6, <1>7

LEMMA FwResumesKeeps ==
  ASSUME ChanAssumption, IInv, NEW m \in Mon, NEW c \in Ctx, FwResumes(m, c)
  PROVE  IInv'
<1> USE DEF IInv
<1>0. m \in Vif
  BY DEF Vif
<1>1. Good(tab)'
  BY SameTable DEF FwResumes
<1>2. q' \in Queues
  BY DEF FwResumes
<1>3. FwGood'
  <2>1. tab.chan[tab.ch[m]] \in Freq
    BY <1>0 DEF FwResumes, Good, Table, Covers
  <2> QED  BY <2>1, FwLinkType DEF FwResumes
<1>4. Interfaces'
  BY DEF FwResumes, Interfaces
<1>5. Requests'
  BY DEF FwResumes, Requests, Works
<1>6. Works'
  BY DEF FwResumes, Works, Requests
<1>7. (RequestIsFull /\ SwitchIsFull)'
  BY DEF FwResumes, RequestIsFull, SwitchIsFull, Requests, Works
<1> QED  BY <1>1, <1>2, <1>3, <1>4, <1>5, <1>6, <1>7

LEMMA RemoveMonitorKeeps ==
  ASSUME ChanAssumption, IInv, NEW m \in Mon, RemoveMonitor(m)
  PROVE  IInv'
<1> USE DEF IInv
<1>0. m \in Vif
  BY DEF Vif
<1>1. Good(tab)'
  BY <1>0, UnlinkKeeps, NewTable DEF RemoveMonitor
<1>2. q' \in Queues
  BY DEF RemoveMonitor
<1>3. FwGood'
  BY DEF RemoveMonitor, FwGood
<1>4. Interfaces'
  BY DEF RemoveMonitor, Interfaces
<1>5. Requests'
  BY DEF RemoveMonitor, Requests, Works
<1>6. Works'
  BY DEF RemoveMonitor, Works, Requests
<1>7. (RequestIsFull /\ SwitchIsFull)'
  BY DEF RemoveMonitor, RequestIsFull, SwitchIsFull, Requests, Works
<1> QED  BY <1>1, <1>2, <1>3, <1>4, <1>5, <1>6, <1>7

LEMMA CacFiresKeeps ==
  ASSUME ChanAssumption, IInv, CacFires
  PROVE  IInv'
<1> USE DEF IInv
<1>1. Good(tab)'
  BY SameTable DEF CacFires
<1>2. q' \in Queues
  BY DEF CacFires
<1>3. FwGood'
  <2>1. fw' = fw \/ FwLeave(cac.vif)
    BY DEF CacFires
  <2> QED  BY <2>1, FwLeaveType DEF FwGood
<1>4. Interfaces'
  BY DEF CacFires, NoCac, Interfaces
<1>5. Requests'
  BY DEF CacFires, NoCac, Requests, Works
<1>6. Works'
  BY DEF CacFires, NoCac, Works, Requests
<1>7. (RequestIsFull /\ SwitchIsFull)'
  BY DEF CacFires, NoCac, RequestIsFull, SwitchIsFull, Requests, Works
<1> QED  BY <1>1, <1>2, <1>3, <1>4, <1>5, <1>6, <1>7

LEMMA CacEndsKeeps ==
  ASSUME ChanAssumption, IInv, CacEnds
  PROVE  IInv'
<1> USE DEF IInv
<1>0. cac.vif \in Vif
  BY DEF CacEnds, Works
<1>1. Good(tab)'
  BY <1>0, UnlinkKeeps, NewTable DEF CacEnds
<1>2. q' \in Queues
  BY DEF CacEnds
<1>3. FwGood'
  BY DEF CacEnds, FwGood
<1>4. Interfaces'
  BY DEF CacEnds, NoCac, Interfaces
<1>5. Requests'
  BY DEF CacEnds, NoCac, Requests, Works
<1>6. Works'
  BY DEF CacEnds, NoCac, Works, Requests
<1>7. (RequestIsFull /\ SwitchIsFull)'
  BY DEF CacEnds, NoCac, RequestIsFull, SwitchIsFull, Requests, Works
<1> QED  BY <1>1, <1>2, <1>3, <1>4, <1>5, <1>6, <1>7

LEMMA RadarSeenKeeps ==
  ASSUME ChanAssumption, IInv, RadarSeen
  PROVE  IInv'
<1> USE DEF IInv
<1>1. Good(tab)'
  BY SameTable DEF RadarSeen
<1>2. q' \in Queues
  BY DEF RadarSeen
<1>3. FwGood'
  BY DEF RadarSeen, FwGood
<1>4. Interfaces'
  BY DEF RadarSeen, Interfaces
<1>5. Requests'
  BY DEF RadarSeen, Requests, Works
<1>6. Works'
  BY DEF RadarSeen, Works, Requests
<1>7. (RequestIsFull /\ SwitchIsFull)'
  BY DEF RadarSeen, RequestIsFull, SwitchIsFull, Requests, Works
<1> QED  BY <1>1, <1>2, <1>3, <1>4, <1>5, <1>6, <1>7

LEMMA RadarReportsKeeps ==
  ASSUME ChanAssumption, IInv, RadarReports
  PROVE  IInv'
<1> USE DEF IInv
<1>0. tab.chan[cur] \in Freq \cup {None}
  BY DEF Good, Table, Interfaces
<1>1. Good(tab)'
  BY SameTable DEF RadarReports
<1>2. q' \in Queues
  BY DEF RadarReports
<1>3. FwGood'
  BY DEF RadarReports, CancelSkips, FwGood
<1>4. Interfaces'
  BY DEF RadarReports, CancelSkips, Tell, Interfaces
<1>5. Requests'
  BY DEF RadarReports, CancelSkips, Tell, Requests, Works
<1>6. Works'
  <2>1. nop' \subseteq Radar
    BY DEF RadarReports, Tell, Works
  <2>2. cac' \in [vif: Vif \cup {None}, work: {"idle", "pending", "sent"}]
    BY DEF RadarReports, CancelSkips, Works
  <2> QED  BY <1>0, <2>1, <2>2 DEF RadarReports, Works
<1>7. (RequestIsFull /\ SwitchIsFull)'
  BY DEF RadarReports, CancelSkips, Tell, RequestIsFull, SwitchIsFull, Requests, Works
<1> QED  BY <1>1, <1>2, <1>3, <1>4, <1>5, <1>6, <1>7

LEMMA RadarCancelsKeeps ==
  ASSUME ChanAssumption, IInv, RadarCancels
  PROVE  IInv'
<1> USE DEF IInv
<1>0. tab.chan[cur] \in Freq \cup {None}
  BY DEF Good, Table, Interfaces
<1>1. Good(tab)'
  BY SameTable DEF RadarCancels
<1>2. q' \in Queues
  BY DEF RadarCancels
<1>3. FwGood'
  BY FwLeaveType DEF RadarCancels, CancelStops
<1>4. Interfaces'
  BY DEF RadarCancels, CancelStops, Interfaces
<1>5. Requests'
  BY DEF RadarCancels, CancelStops, Requests, Works
<1>6. Works'
  BY <1>0 DEF RadarCancels, CancelStops, Works
<1>7. (RequestIsFull /\ SwitchIsFull)'
  BY DEF RadarCancels, CancelStops, RequestIsFull, SwitchIsFull, Requests, Works
<1> QED  BY <1>1, <1>2, <1>3, <1>4, <1>5, <1>6, <1>7

LEMMA RadarCancelEndsKeeps ==
  ASSUME ChanAssumption, IInv, RadarCancelEnds
  PROVE  IInv'
<1> USE DEF IInv
<1>0. cac.vif \in Vif
  BY DEF RadarCancelEnds, CancelUnlinks, Works
<1>1. Good(tab)'
  BY <1>0, UnlinkKeeps, NewTable DEF RadarCancelEnds, CancelUnlinks
<1>2. q' \in Queues
  BY DEF RadarCancelEnds
<1>3. FwGood'
  BY DEF RadarCancelEnds, FwGood
<1>4. Interfaces'
  BY DEF RadarCancelEnds, CancelUnlinks, Tell, Interfaces
<1>5. Requests'
  BY DEF RadarCancelEnds, CancelUnlinks, Tell, Requests, Works
<1>6. Works'
  BY DEF RadarCancelEnds, CancelUnlinks, Tell, Works, Requests
<1>7. (RequestIsFull /\ SwitchIsFull)'
  BY DEF RadarCancelEnds, CancelUnlinks, Tell, RequestIsFull, SwitchIsFull, Requests, Works
<1> QED  BY <1>1, <1>2, <1>3, <1>4, <1>5, <1>6, <1>7

LEMMA RadarOffKeeps ==
  ASSUME ChanAssumption, IInv, RadarOff
  PROVE  IInv'
<1> USE DEF IInv
<1>1. Good(tab)'
  BY DetectKeeps, NewTable DEF RadarOff
<1>2. q' \in Queues
  BY DEF RadarOff
<1>3. FwGood'
  BY DEF RadarOff, FwGood
<1>4. Interfaces'
  BY DEF RadarOff, NoDfs, Interfaces
<1>5. Requests'
  BY DEF RadarOff, NoDfs, Requests, Works
<1>6. Works'
  BY DEF RadarOff, NoDfs, Works, Requests
<1>7. (RequestIsFull /\ SwitchIsFull)'
  BY DEF RadarOff, NoDfs, RequestIsFull, SwitchIsFull, Requests, Works
<1> QED  BY <1>1, <1>2, <1>3, <1>4, <1>5, <1>6, <1>7

LEMMA RadarGoneKeeps ==
  ASSUME ChanAssumption, IInv, NEW f \in Radar, RadarGone(f)
  PROVE  IInv'
<1> USE DEF IInv
<1>1. Good(tab)'
  BY SameTable DEF RadarGone
<1>2. q' \in Queues
  BY DEF RadarGone
<1>3. FwGood'
  BY DEF RadarGone, FwGood
<1>4. Interfaces'
  BY DEF RadarGone, Interfaces
<1>5. Requests'
  BY DEF RadarGone, Requests, Works
<1>6. Works'
  BY DEF RadarGone, Works, Requests
<1>7. (RequestIsFull /\ SwitchIsFull)'
  BY DEF RadarGone, RequestIsFull, SwitchIsFull, Requests, Works
<1> QED  BY <1>1, <1>2, <1>3, <1>4, <1>5, <1>6, <1>7

LEMMA ApCsaFinishKeeps ==
  ASSUME ChanAssumption, IInv, NEW v \in Ap, NEW c \in Ctx, ApCsaFinish(v, c)
  PROVE  IInv'
<1> USE DEF IInv
<1>1. Good(tab)'
  BY SameTable DEF ApCsaFinish
<1>2. q' \in Queues
  BY DEF ApCsaFinish, FwGood
<1>3. FwGood'
  BY FwLinkType DEF ApCsaFinish, SwitchIsFull
<1>4. Interfaces'
  BY DEF ApCsaFinish, Interfaces
<1>5. Requests'
  BY DEF ApCsaFinish, Requests, Works
<1>6. Works'
  <2> DEFINE e == [csa[v] EXCEPT !.s = "sched", !.c = c]
  <2>1. csa \in [Ap -> Csa] /\ e \in Csa
    BY CsaType DEF Works
  <2>2. csa' = [csa EXCEPT ![v] = e]
    BY <2>1 DEF ApCsaFinish
  <2> HIDE DEF e
  <2>3. csa' \in [Ap -> Csa]
    BY <2>1, <2>2
  <2> QED  BY <2>3 DEF ApCsaFinish, Works
<1>7. (RequestIsFull /\ SwitchIsFull)'
  BY DEF ApCsaFinish, RequestIsFull, SwitchIsFull, Requests, Works
<1> QED  BY <1>1, <1>2, <1>3, <1>4, <1>5, <1>6, <1>7

LEMMA CsaFinishKeeps ==
  ASSUME ChanAssumption, IInv, NEW v \in Ap, CsaFinish(v)
  PROVE  IInv'
<1> USE DEF IInv
<1>0. v \in Vif /\ csa[v].c \in Ctx /\ csa[v].f \in Freq
  BY DEF CsaFinish, SwitchIsFull, Vif
<1>1. Good(tab)'
  <2>1. CASE Move(v, csa[v].c, csa[v].f)
    BY <1>0, <2>1, MoveKeeps, NewTable DEF Interfaces
  <2>2. CASE UNCHANGED <<tab, q>>
    BY <2>2, SameTable
  <2> QED  BY <2>1, <2>2 DEF CsaFinish
<1>2. q' \in Queues
  <2>1. CASE Move(v, csa[v].c, csa[v].f)
    BY <1>0, <2>1, MoveKeeps DEF Interfaces
  <2>2. CASE UNCHANGED <<tab, q>>
    BY <2>2
  <2> QED  BY <2>1, <2>2 DEF CsaFinish
<1>3. FwGood'
  BY DEF CsaFinish, FwGood
<1>4. Interfaces'
  BY DEF CsaFinish, NoCsa, Interfaces
<1>5. Requests'
  BY DEF CsaFinish, NoCsa, Requests, Works
<1>6. Works'
  <2>1. csa \in [Ap -> Csa] /\ NoCsa \in Csa /\ [NoCsa EXCEPT !.s = "failed"] \in Csa
    BY CsaType DEF Works
  <2>2. csa' \in [Ap -> Csa]
    BY <2>1 DEF CsaFinish
  <2> QED  BY <2>2 DEF CsaFinish, Works
<1>7. (RequestIsFull /\ SwitchIsFull)'
  BY DEF CsaFinish, NoCsa, RequestIsFull, SwitchIsFull, Requests, Works
<1> QED  BY <1>1, <1>2, <1>3, <1>4, <1>5, <1>6, <1>7

LEMMA BeatAskKeeps ==
  ASSUME ChanAssumption, IInv, BeatAsk
  PROVE  IInv'
<1> USE DEF IInv
<1>1. Good(tab)'
  BY SameTable DEF BeatAsk
<1>2. q' \in Queues
  BY DEF BeatAsk
<1>3. FwGood'
  BY DEF BeatAsk, FwGood
<1>4. Interfaces'
  BY DEF BeatAsk, Interfaces
<1>5. Requests'
  BY DEF BeatAsk, Requests, Works
<1>6. Works'
  <2>1. Sta \in Vif
    BY DEF BeatAsk, Interfaces
  <2>2. fw.ch[Sta] \in Ctx /\ fw.freq[fw.ch[Sta]] \in Freq
    BY <2>1 DEF BeatAsk, FwGood, FwType
  <2>3. beat' \in [c: Ctx, f: Freq]
    BY <2>2 DEF BeatAsk
  <2> QED  BY <2>1, <2>3 DEF BeatAsk, Works
<1>7. (RequestIsFull /\ SwitchIsFull)'
  BY DEF BeatAsk, RequestIsFull, SwitchIsFull, Requests, Works
<1> QED  BY <1>1, <1>2, <1>3, <1>4, <1>5, <1>6, <1>7

LEMMA BeatApplyKeeps ==
  ASSUME ChanAssumption, IInv, BeatApply
  PROVE  IInv'
<1> USE DEF IInv
<1>0. Sta \in Vif /\ beat.c \in Ctx /\ beat.f \in Freq
  BY DEF BeatApply, Works, Interfaces, ChanAssumption
<1>1. Good(tab)'
  <2>1. CASE tab.ch[Sta] = None
    BY <2>1, SameTable DEF BeatApply
  <2>2. CASE tab.ch[Sta] # None
    <3>1. PICK stray \in Strays, wrong \in SUBSET (started \cap Ap) :
            LET here == tab.ch[Sta] = beat.c /\ tab.chan[beat.c] = beat.f
                l == IF here THEN tab
                     ELSE Link(Unlink(tab, Sta), Sta, beat.c, beat.f, stray)
            IN  tab' = Gather(l, wrong)
      BY <2>2 DEF BeatApply
    <3> DEFINE here == tab.ch[Sta] = beat.c /\ tab.chan[beat.c] = beat.f
               l == IF here THEN tab
                    ELSE Link(Unlink(tab, Sta), Sta, beat.c, beat.f, stray)
    <3>2. Good(l) /\ l.ch[Sta] \in Ctx
      <4>1. Good(tab) /\ tab.ch[Sta] \in Ctx
        BY <1>0, <2>2 DEF Good, Table
      <4>2. Good(Unlink(tab, Sta))
        BY <1>0, UnlinkKeeps
      <4>3. /\ Good(Link(Unlink(tab, Sta), Sta, beat.c, beat.f, stray))
            /\ Link(Unlink(tab, Sta), Sta, beat.c, beat.f, stray).ch[Sta] \in Ctx
        BY <1>0, <4>2, LinkKeeps, LinkIsLinked
      <4> QED  BY <4>1, <4>3
    <3>3. tab' = Gather(l, wrong) /\ wrong \in SUBSET Vif
      BY <3>1 DEF Vif
    <3> HIDE DEF l
    <3> QED  BY <1>0, <3>2, <3>3, GatherKeeps, NewTable
  <2> QED  BY <2>1, <2>2
<1>2. q' \in Queues
  <2>1. CASE tab.ch[Sta] = None
    BY <2>1 DEF BeatApply
  <2>2. CASE tab.ch[Sta] # None
    <3>1. \E vs : q' = SetQ(vs, "go")
      BY <2>2 DEF BeatApply
    <3> QED  BY <3>1, SetQType
  <2> QED  BY <2>1, <2>2
<1>3. FwGood'
  BY DEF BeatApply, FwGood
<1>4. Interfaces'
  BY DEF BeatApply, Interfaces
<1>5. Requests'
  BY DEF BeatApply, Requests, Works
<1>6. Works'
  BY DEF BeatApply, Works, Requests
<1>7. (RequestIsFull /\ SwitchIsFull)'
  BY DEF BeatApply, RequestIsFull, SwitchIsFull, Requests, Works
<1> QED  BY <1>1, <1>2, <1>3, <1>4, <1>5, <1>6, <1>7

LEMMA StutterKeeps == ASSUME IInv, UNCHANGED vars PROVE IInv'
<1> USE DEF IInv, vars
<1>1. Good(tab)'  BY SameTable
<1>2. q' \in Queues /\ FwGood' /\ Interfaces' /\ Requests' /\ Works'
  BY DEF FwGood, Interfaces, Requests, Works
<1>3. (RequestIsFull /\ SwitchIsFull)'
  BY DEF RequestIsFull, SwitchIsFull
<1> QED  BY <1>1, <1>2, <1>3

----------------------------------------------------------------------------
(* The theorems.                                                            *)

LEMMA NextKeeps == ASSUME ChanAssumption, IInv, [Next]_vars PROVE IInv'
<1>1. CASE PreSwitch \/ Disconnect
  BY <1>1, PreSwitchKeeps, DisconnectKeeps
<1>2. CASE \E c \in Ctx : Switch(c) \/ FwStarts(c)
  BY <1>2, SwitchKeeps, FwStartsKeeps
<1>3. CASE \E c \in Ctx, f \in Freq : Connect(c, f) \/ StaCsaFinish(c, f)
  BY <1>3, ConnectKeeps, StaCsaFinishKeeps
<1>4. CASE \E v \in Vif : Open(v) \/ Begin("close", v)
  BY <1>4, OpenKeeps, BeginKeeps
<1>5. CASE \E v \in Ap, f \in Freq :
             StartApAsk(v, f) \/ CacAsk(v, f) \/ ChannelSwitch(v, f)
  BY <1>5, StartApAskKeeps, CacAskKeeps, ChannelSwitchKeeps
<1>6. CASE StartAp \/ StartApRadar \/ CacLinks \/ FwRefuses
  BY <1>6, StartApKeeps, StartApRadarKeeps, CacLinksKeeps, FwRefusesKeeps
<1>7. CASE \E v \in Ap : Begin("stop_ap", v) \/ CsaFinish(v)
  BY <1>7, BeginKeeps, CsaFinishKeeps DEF Vif
<1>8. CASE Begin("restart", None)
  BY <1>8, BeginKeeps
<1>9. CASE CancelNothing \/ CancelPending \/ CancelEnds \/ CancelSticks
  BY <1>9, CancelNothingKeeps, CancelPendingKeeps, CancelEndsKeeps, CancelSticksKeeps
<1>10. CASE FwStops \/ StopAp \/ StopApEnds \/ Close \/ Restart
  BY <1>10, FwStopsKeeps, StopApKeeps, StopApEndsKeeps, CloseKeeps, RestartKeeps
<1>11. CASE \/ \E m \in Mon, f \in Freq : MonitorAsk(m, f) \/ \E c \in Ctx : MonitorGet(m, c, f)
            \/ FwSetsNone \/ MonitorSet
            \/ \E m \in Mon : MonitorLost(m) \/ RemoveMonitor(m) \/ \E c \in Ctx : FwResumes(m, c)
  BY <1>11, MonitorAskKeeps, MonitorGetKeeps, FwSetsNoneKeeps, MonitorSetKeeps,
     MonitorLostKeeps, RemoveMonitorKeeps, FwResumesKeeps
<1>12. CASE CacFires \/ CacEnds \/ \E v \in Ap, c \in Ctx : ApCsaFinish(v, c)
  BY <1>12, CacFiresKeeps, CacEndsKeeps, ApCsaFinishKeeps
<1>13. CASE BeatAsk \/ BeatApply
  BY <1>13, BeatAskKeeps, BeatApplyKeeps
<1>14. CASE \/ RadarSeen \/ RadarReports \/ RadarCancels \/ RadarCancelEnds \/ RadarOff
            \/ \E f \in Radar : RadarGone(f)
  BY <1>14, RadarSeenKeeps, RadarReportsKeeps, RadarCancelsKeeps, RadarCancelEndsKeeps,
     RadarOffKeeps, RadarGoneKeeps
<1>15. CASE UNCHANGED vars
  BY <1>15, StutterKeeps
<1> QED  BY <1>1, <1>2, <1>3, <1>4, <1>5, <1>6, <1>7, <1>8, <1>9, <1>10, <1>11,
            <1>12, <1>13, <1>14, <1>15 DEF Next

LEMMA Inductive == Spec => []IInv
<1>1. Init => IInv
  BY ChanAssumption, InitIInv
<1>2. IInv /\ [Next]_vars => IInv'
  BY ChanAssumption, NextKeeps
<1> QED  BY <1>1, <1>2, PTL DEF Spec

\* Every variable keeps its type, whatever the order of requests, indications
\* and works.
THEOREM TypeCorrect == Spec => []TypeOK
<1>1. IInv => TypeOK
  BY IInvIsEnough
<1> QED  BY <1>1, Inductive, PTL

\* The count of a context covers the interfaces linked to it and their channel
\* is known: Chan ctxt ref count is already 0 is never reported, and no reader
\* of a linked interface's channel meets a NULL.
THEOREM CountsAreCovered == Spec => []CountCovers
<1>1. IInv => CountCovers
  BY IInvIsEnough
<1> QED  BY <1>1, Inductive, PTL

----------------------------------------------------------------------------
(* What the operators of the table do to the links.                         *)

LEMMA UnlinkLinks ==
  ASSUME NEW t, Good(t), NEW v \in Vif
  PROVE  \A w \in Vif : Unlink(t, v).ch[w] = IF w = v THEN None ELSE t.ch[w]
<1>1. CASE t.ch[v] = None
  BY <1>1 DEF Unlink
<1>2. CASE t.ch[v] # None
  <2>1. Unlink(t, v).ch = [t.ch EXCEPT ![v] = None]
    BY <1>2 DEF Unlink
  <2> QED  BY <2>1 DEF Good, Table
<1> QED  BY <1>1, <1>2

\* A new link takes the interface to its context; while the station is linked
\* it takes the others to the station's.
LEMMA LinkLinks ==
  ASSUME ChanAssumption, NEW t, Good(t), NEW stray \in Strays,
         NEW v \in Vif, NEW c \in Ctx, NEW f \in Freq
  PROVE  LET moved == LinkMoves(t, v, c, f, stray)
             s == IF v = Sta THEN c ELSE t.ch[Sta]
         IN  /\ moved \in SUBSET (Vif \ {Sta})
             /\ moved # {} => Sta \in Vif /\ s \in Ctx
             /\ v # Sta /\ Sta # None /\ t.ch[Sta] # None => v \in moved
             /\ \A w \in Vif : Link(t, v, c, f, stray).ch[w] =
                  IF w \in moved THEN s ELSE IF w = v THEN c ELSE t.ch[w]
<1> DEFINE l == Linked(t, v, c, f)
           moved == LinkMoves(t, v, c, f, stray)
           s == IF v = Sta THEN c ELSE t.ch[Sta]
<1>1. Good(l) /\ t.ch \in [Vif -> Ctx \cup {None}]
  BY LinkedKeeps DEF Good, Table
<1>2. l.ch = [t.ch EXCEPT ![v] = c]
  BY DEF Linked
<1>3. moved = Moved(l, stray)
  BY DEF LinkMoves
<1>4. Link(t, v, c, f, stray) = Gather(l, moved)
  BY DEF Link
<1>5. c # None /\ (Sta # None => Sta \in Vif)
  BY DEF ChanAssumption, Vif
<1> HIDE DEF l
<1>6. moved \in SUBSET (Vif \ {Sta})
  BY <1>3 DEF Moved
<1>7. moved # {} => Sta \in Vif /\ l.ch[Sta] = s /\ s \in Ctx
  <2>1. moved # {} => Sta \in Vif /\ l.ch[Sta] # None
    BY <1>3, <1>5 DEF Moved
  <2> QED  BY <1>1, <1>2, <2>1
<1>8. v # Sta /\ Sta # None /\ t.ch[Sta] # None => v \in moved
  BY <1>1, <1>2, <1>3, <1>5 DEF Moved
<1>9. \A w \in Vif : l.ch[w] = IF w = v THEN c ELSE t.ch[w]
  BY <1>1, <1>2
<1> HIDE DEF moved, s
<1>10. \A w \in Vif : Gather(l, moved).ch[w] =
         IF w \in moved THEN s ELSE IF w = v THEN c ELSE t.ch[w]
  <2>1. \A w \in Vif : Gather(l, moved).ch[w] = IF w \in moved THEN l.ch[Sta] ELSE l.ch[w]
    BY DEF Gather
  <2> QED  BY <1>7, <1>9, <2>1
<1> QED  BY <1>4, <1>6, <1>7, <1>8, <1>10 DEF moved, s

LEMMA EnableLinks ==
  ASSUME NEW t, Good(t), NEW k
  PROVE  EnableOn(t, k).ch = t.ch
BY DEF EnableOn, Good, Table

\* The context of the interfaces that move with v to c.
Host(v, c) == IF v = Sta THEN c ELSE tab.ch[Sta]

\* What the end of a switch of v to c does: v goes to its new context, or with
\* the others to the station's; its queues follow the context it was told.
MovesWith(moved, v, c) ==
  /\ moved \in SUBSET (Vif \ {Sta})
  /\ moved # {} => Sta \in Vif /\ Host(v, c) \in Ctx
  /\ \A w \in Vif : tab'.ch[w] =
       IF w \in moved THEN Host(v, c) ELSE IF w = v THEN c ELSE tab.ch[w]
  /\ \A w \in Vif : q'[w] =
       IF w = v THEN SetQ({v}, IF cur = c THEN "go" ELSE "stop")[v]
       ELSE SetQ(moved, "go")[w]

LEMMA MoveLinks ==
  ASSUME ChanAssumption, Good(tab), cur \in Ctx,
         NEW v \in Vif, NEW c \in Ctx, NEW f \in Freq, Move(v, c, f)
  PROVE  \E moved : MovesWith(moved, v, c)
<1> DEFINE u == Unlink(tab, v)
<1>1. PICK stray \in Strays :
        /\ tab' = IF cur = c THEN EnableOn(Link(u, v, c, f, stray), cur)
                  ELSE Link(u, v, c, f, stray)
        /\ q' = [w \in Vif |->
                   IF w = v THEN SetQ({v}, IF cur = c THEN "go" ELSE "stop")[v]
                   ELSE SetQ(LinkMoves(u, v, c, f, stray), "go")[w]]
  BY DEF Move
<1> DEFINE l == Link(u, v, c, f, stray)
           moved == LinkMoves(u, v, c, f, stray)
<1>2. Good(u) /\ \A w \in Vif : u.ch[w] = IF w = v THEN None ELSE tab.ch[w]
  BY UnlinkKeeps, UnlinkLinks
<1> HIDE DEF u
<1>3. Good(l)
  BY <1>2, LinkKeeps
<1>4. /\ moved \in SUBSET (Vif \ {Sta})
      /\ moved # {} => Sta \in Vif /\ (IF v = Sta THEN c ELSE u.ch[Sta]) \in Ctx
      /\ \A w \in Vif : l.ch[w] = IF w \in moved THEN IF v = Sta THEN c ELSE u.ch[Sta]
                                  ELSE IF w = v THEN c ELSE u.ch[w]
  BY <1>2, LinkLinks
<1>5. tab'.ch = l.ch
  <2>1. EnableOn(l, cur).ch = l.ch
    BY <1>3, EnableLinks
  <2> QED  BY <1>1, <2>1
<1>6. /\ moved # {} => Sta \in Vif /\ (IF v = Sta THEN c ELSE tab.ch[Sta]) \in Ctx
      /\ \A w \in Vif : tab'.ch[w] = IF w \in moved THEN IF v = Sta THEN c ELSE tab.ch[Sta]
                                     ELSE IF w = v THEN c ELSE tab.ch[w]
  <2> HIDE DEF l, moved
  <2>1. moved # {} => Sta \in Vif /\ (IF v = Sta THEN c ELSE tab.ch[Sta]) \in Ctx
    BY <1>2, <1>4
  <2>2. ASSUME NEW w \in Vif
        PROVE  tab'.ch[w] = IF w \in moved THEN IF v = Sta THEN c ELSE tab.ch[Sta]
                            ELSE IF w = v THEN c ELSE tab.ch[w]
    BY <1>2, <1>4, <1>5
  <2> QED  BY <2>1, <2>2
<1>7. \A w \in Vif : q'[w] = IF w = v THEN SetQ({v}, IF cur = c THEN "go" ELSE "stop")[v]
                             ELSE SetQ(moved, "go")[w]
  BY <1>1
<1> HIDE DEF moved
<1>8. MovesWith(moved, v, c)
  BY <1>4, <1>6, <1>7 DEF MovesWith, Host
<1> QED  BY <1>8

\* The heart beat puts the station where it was, and APs beside it.
LEMMA BeatLinks ==
  ASSUME ChanAssumption, IInv, BeatApply
  PROVE  \E moved \in SUBSET (Vif \ {Sta}) :
           /\ tab.ch[Sta] = None => moved = {}
           /\ \A w \in Vif : tab'.ch[w] =
                IF tab.ch[Sta] # None /\ (w = Sta \/ w \in moved) THEN beat.c
                ELSE tab.ch[w]
           /\ \A w \in Vif : q'[w] = SetQ(moved, "go")[w]
<1>1. /\ Sta \in Vif /\ Sta \notin Ap /\ beat.c \in Ctx /\ beat.f \in Freq
      /\ Good(tab) /\ started \in SUBSET Vif /\ q \in Queues
  BY DEF BeatApply, IInv, Works, Interfaces, ChanAssumption
<1>2. CASE tab.ch[Sta] = None
  <2>1. tab' = tab /\ q' = q
    BY <1>2 DEF BeatApply
  <2>2. \A w \in Vif : q'[w] = SetQ({}, "go")[w]
    BY <2>1 DEF SetQ
  <2> QED  BY <1>2, <2>1, <2>2
<1>3. CASE tab.ch[Sta] # None
  <2>1. PICK stray \in Strays, wrong \in SUBSET (started \cap Ap) :
          LET here == tab.ch[Sta] = beat.c /\ tab.chan[beat.c] = beat.f
              t == Unlink(tab, Sta)
              moved == IF here THEN {} ELSE LinkMoves(t, Sta, beat.c, beat.f, stray)
              l == IF here THEN tab ELSE Link(t, Sta, beat.c, beat.f, stray)
          IN  tab' = Gather(l, wrong) /\ q' = SetQ(moved \cup wrong, "go")
    BY <1>3 DEF BeatApply
  <2> DEFINE here == tab.ch[Sta] = beat.c /\ tab.chan[beat.c] = beat.f
             t == Unlink(tab, Sta)
             m == IF here THEN {} ELSE LinkMoves(t, Sta, beat.c, beat.f, stray)
             l == IF here THEN tab ELSE Link(t, Sta, beat.c, beat.f, stray)
  <2>2. tab' = Gather(l, wrong) /\ q' = SetQ(m \cup wrong, "go")
    BY <2>1
  <2>3. wrong \in SUBSET (Vif \ {Sta})
    BY <1>1 DEF Vif
  <2>4. Good(t) /\ \A w \in Vif : t.ch[w] = IF w = Sta THEN None ELSE tab.ch[w]
    BY <1>1, UnlinkKeeps, UnlinkLinks
  <2>5. /\ m \in SUBSET (Vif \ {Sta})
        /\ \A w \in Vif : l.ch[w] = IF w = Sta \/ w \in m THEN beat.c ELSE tab.ch[w]
    <3>1. CASE here
      BY <3>1
    <3>2. CASE ~here
      <4> DEFINE lm == LinkMoves(t, Sta, beat.c, beat.f, stray)
      <4> HIDE DEF t
      <4>1. /\ lm \in SUBSET (Vif \ {Sta})
            /\ \A w \in Vif : Link(t, Sta, beat.c, beat.f, stray).ch[w] =
                 IF w \in lm THEN beat.c ELSE IF w = Sta THEN beat.c ELSE t.ch[w]
        BY <1>1, <2>4, LinkLinks
      <4>2. m = lm /\ l = Link(t, Sta, beat.c, beat.f, stray)
        BY <3>2
      <4> HIDE DEF lm, m, l
      <4> QED  BY <2>4, <4>1, <4>2
    <3> QED  BY <3>1, <3>2
  <2> HIDE DEF t, m, l
  <2>6. \A w \in Vif : tab'.ch[w] = IF w \in wrong THEN l.ch[Sta] ELSE l.ch[w]
    BY <2>2 DEF Gather
  <2>7. \A w \in Vif : tab'.ch[w] =
          IF w = Sta \/ w \in m \cup wrong THEN beat.c ELSE tab.ch[w]
    BY <1>1, <2>5, <2>6
  <2>8. m \cup wrong \in SUBSET (Vif \ {Sta})
    BY <2>3, <2>5
  <2> QED  BY <1>3, <2>2, <2>7, <2>8
<1> QED  BY <1>2, <1>3

----------------------------------------------------------------------------
(* An AP that the firmware has is linked.                                   *)

\* A monitor that is tuned takes no AP from its context.
LEMMA RetuneLinks ==
  ASSUME ChanAssumption, NEW t, Good(t), NEW stray \in Strays,
         NEW m \in Mon, NEW c \in Ctx, NEW f \in Freq
  PROVE  \A v \in Ap : t.ch[v] # None =>
           /\ Retune(t, m, c, f, stray).ch[v] # None
           /\ Link(t, m, c, f, stray).ch[v] # None
<1> SUFFICES ASSUME NEW v \in Ap, t.ch[v] # None
             PROVE  /\ Retune(t, m, c, f, stray).ch[v] # None
                    /\ Link(t, m, c, f, stray).ch[v] # None
  OBVIOUS
<1>0. m \in Vif /\ v \in Vif /\ v # m /\ None \notin Ctx
  BY DEF Vif, ChanAssumption
<1>1. Link(t, m, c, f, stray).ch[v] # None
  <2> DEFINE moved == LinkMoves(t, m, c, f, stray)
             s == IF m = Sta THEN c ELSE t.ch[Sta]
  <2>1. /\ moved # {} => s \in Ctx
        /\ \A x \in Vif : Link(t, m, c, f, stray).ch[x] =
             IF x \in moved THEN s ELSE IF x = m THEN c ELSE t.ch[x]
    BY <1>0, LinkLinks
  <2> HIDE DEF moved, s
  <2> QED  BY <1>0, <2>1
<1>2. CASE t.ch[m] # None
  <2>1. t.ch[m] \in Ctx
    BY <1>0, <1>2 DEF Good, Table
  <2>2. Retune(t, m, c, f, stray).ch = t.ch
    BY <1>2, <2>1, ChanKeeps DEF Retune
  <2> QED  BY <1>1, <2>2
<1>3. CASE t.ch[m] = None
  BY <1>1, <1>3 DEF Retune
<1> QED  BY <1>2, <1>3

LEMMA GetLinks ==
  ASSUME ChanAssumption, Good(tab), NEW stray \in Strays,
         NEW m \in Mon, NEW c \in Ctx, NEW f \in Freq, NEW v \in Ap, tab.ch[v] # None
  PROVE  LET t == [tab EXCEPT !.chan = [@ EXCEPT ![c] = f]] IN
         /\ Retune(t, m, c, f, stray).ch[v] # None
         /\ Link(t, m, c, f, stray).ch[v] # None
<1> DEFINE t == [tab EXCEPT !.chan = [@ EXCEPT ![c] = f]]
<1>1. Good(t) /\ t.ch = tab.ch
  BY ChanKeeps
<1> HIDE DEF t
<1>2. /\ Retune(t, m, c, f, stray).ch[v] # None
      /\ Link(t, m, c, f, stray).ch[v] # None
  BY <1>1, RetuneLinks
<1> QED  BY <1>2 DEF t

\* The AP of an availability check does not beacon and is not being started; an
\* AP that the firmware has is linked, or between an answer to its request and
\* the wake-up of the caller.
LinkInv ==
  /\ cac.vif \in Ap \cup {None}
  /\ cac.vif \notin started
  /\ op.k = "start_ap" => op.v # cac.vif
  /\ op.k = "start_cac" => op.v \notin started
  /\ \A v \in started \cap Ap :
       \/ tab.ch[v] # None
       \/ fw.ch[v] = None
       \/ op.k = "start_ap" /\ op.s = "cfm" /\ op.v = v
       \/ op.k = "stop_ap" /\ op.v = v

\* An AP that is linked stays so, but for the end of its check, its stop and
\* a restart.
LEMMA LinksAreKept ==
  ASSUME ChanAssumption, IInv, LinkInv, Next
  PROVE  \A v \in Ap : tab.ch[v] # None =>
           \/ tab'.ch[v] # None
           \/ v = cac.vif
           \/ fw'.ch[v] = None
           \/ StopAp /\ op.v = v
<1> SUFFICES ASSUME NEW v \in Ap, tab.ch[v] # None
             PROVE  tab'.ch[v] # None \/ v = cac.vif \/ fw'.ch[v] = None \/ (StopAp /\ op.v = v)
  OBVIOUS
<1>0. /\ v \in Vif /\ v # Sta /\ v \notin Mon /\ Good(tab) /\ cur \in Ctx
      /\ None \notin Ctx
      /\ started \in SUBSET Vif
  BY DEF IInv, Interfaces, Vif, ChanAssumption
<1>1. CASE UNCHANGED tab
  BY <1>1
<1>2. ASSUME NEW w \in Vif, NEW c \in Ctx, NEW f \in Freq, NEW stray \in Strays,
             tab'.ch = Link(tab, w, c, f, stray).ch
      PROVE  tab'.ch[v] # None
  <2> DEFINE m == LinkMoves(tab, w, c, f, stray)
             s == IF w = Sta THEN c ELSE tab.ch[Sta]
  <2>1. /\ m # {} => s \in Ctx
        /\ \A x \in Vif : Link(tab, w, c, f, stray).ch[x] =
             IF x \in m THEN s ELSE IF x = w THEN c ELSE tab.ch[x]
    BY <1>0, LinkLinks
  <2> HIDE DEF m, s
  <2> QED  BY <1>0, <1>2, <2>1
<1>3. ASSUME NEW w \in Vif, NEW c \in Ctx, NEW f \in Freq, Move(w, c, f)
      PROVE  tab'.ch[v] # None
  <2>1. PICK moved : MovesWith(moved, w, c)
    BY <1>0, <1>3, MoveLinks
  <2>2. /\ moved # {} => Host(w, c) \in Ctx
        /\ tab'.ch[v] = IF v \in moved THEN Host(w, c) ELSE IF v = w THEN c ELSE tab.ch[v]
    BY <1>0, <2>1 DEF MovesWith
  <2> QED  BY <1>0, <2>2
<1>4. CASE \E c \in Ctx : Switch(c)
  BY <1>0, <1>4, EnableLinks DEF Switch
<1>5. CASE \E c \in Ctx, f \in Freq : Connect(c, f) \/ StaCsaFinish(c, f)
  <2>1. PICK c \in Ctx, f \in Freq : Connect(c, f) \/ StaCsaFinish(c, f)
    BY <1>5
  <2>2. Sta \in Vif
    BY <2>1 DEF Connect, StaCsaFinish, IInv, Interfaces
  <2>3. CASE Connect(c, f)
    <3>1. PICK stray \in Strays : tab' = Link(tab, Sta, c, f, stray)
      BY <2>3 DEF Connect
    <3> QED  BY <1>2, <2>2, <3>1
  <2>4. CASE StaCsaFinish(c, f)
    BY <1>3, <2>2, <2>4 DEF StaCsaFinish
  <2> QED  BY <2>1, <2>3, <2>4
<1>6. CASE Disconnect
  <2>1. Sta \in Vif /\ tab' = Unlink(tab, Sta)
    BY <1>6 DEF Disconnect, Vif
  <2> QED  BY <1>0, <2>1, UnlinkLinks
<1>7. CASE StartAp
  <2>1. op.v \in Vif /\ op.c \in Ctx /\ op.f \in Freq
    BY <1>7 DEF StartAp, Waits, IInv, RequestIsFull, Vif
  <2>2. PICK stray \in Strays : tab' = Link(tab, op.v, op.c, op.f, stray)
    BY <1>7 DEF StartAp
  <2> QED  BY <1>2, <2>1, <2>2
<1>8. CASE StartApRadar
  BY <1>0, <1>8, EnableLinks DEF StartApRadar
<1>9. CASE CacLinks
  <2>1. op.v \in Vif /\ op.c \in Ctx /\ op.f \in Freq
    BY <1>9 DEF CacLinks, Waits, IInv, RequestIsFull, Vif
  <2>2. PICK stray \in Strays :
          LET t == Link(tab, op.v, op.c, op.f, stray)
          IN  tab' = IF cur = t.ch[op.v] THEN [t EXCEPT !.detect = TRUE] ELSE t
    BY <1>9 DEF CacLinks
  <2> DEFINE t == Link(tab, op.v, op.c, op.f, stray)
  <2>3. t \in Table
    BY <1>0, <2>1, LinkKeeps DEF Good
  <2>4. tab' = (IF cur = t.ch[op.v] THEN [t EXCEPT !.detect = TRUE] ELSE t)
    BY <2>2
  <2> HIDE DEF t
  <2>5. tab'.ch = t.ch
    BY <2>3, <2>4 DEF Table
  <2> QED  BY <1>2, <2>1, <2>5 DEF t
<1>10. CASE StopAp
  <2>1. op.v \in Vif /\ tab' = Unlink(tab, op.v)
    BY <1>10 DEF StopAp, Waits, IInv, RequestIsFull, Vif
  <2> QED  BY <1>0, <1>10, <2>1, UnlinkLinks
<1>11. CASE CancelEnds \/ CacEnds \/ RadarCancelEnds
  <2>1. cac.vif \in Vif /\ tab' = Unlink(tab, cac.vif)
    BY <1>11 DEF CancelEnds, CacEnds, RadarCancelEnds, CancelUnlinks, IInv, Works
  <2> QED  BY <1>0, <2>1, UnlinkLinks
<1>12. CASE Restart
  BY <1>0, <1>12 DEF Restart, NoFw
<1>13. CASE MonitorSet
  <2>1. op.v \in Mon /\ op.v \in Vif /\ op.f \in Freq /\ op.c \in Ctx \cup {None}
    BY <1>13 DEF MonitorSet, Waits, IInv, RequestIsFull, Requests, Vif
  <2>2. CASE op.c = None
    BY <1>0, <1>13, <2>1, <2>2, UnlinkLinks DEF MonitorSet
  <2>3. CASE op.c # None
    <3>1. PICK stray \in Strays : tab' = Retune(tab, op.v, op.c, op.f, stray)
      BY <1>13, <2>3 DEF MonitorSet
    <3> QED  BY <1>0, <2>1, <2>3, <3>1, RetuneLinks
  <2> QED  BY <2>2, <2>3
<1>14. CASE \E m \in Mon : MonitorLost(m) \/ RemoveMonitor(m)
  <2>1. PICK m \in Mon : tab' = Unlink(tab, m)
    BY <1>14 DEF MonitorLost, RemoveMonitor
  <2> QED  BY <1>0, <2>1, UnlinkLinks DEF Vif
<1>18. CASE \E m \in Mon, f \in Freq, c \in Ctx : MonitorGet(m, c, f)
  <2>0. PICK m \in Mon, f \in Freq, c \in Ctx : MonitorGet(m, c, f)
    BY <1>18
  <2>1. PICK stray \in Strays :
          \/ tab' = Retune([tab EXCEPT !.chan = [@ EXCEPT ![c] = f]], m, c, f, stray)
          \/ tab' = Link([tab EXCEPT !.chan = [@ EXCEPT ![c] = f]], m, c, f, stray)
    BY <2>0 DEF MonitorGet
  <2> QED  BY <1>0, <2>1, GetLinks
<1>19. CASE RadarOff
  BY <1>0, <1>19, DetectKeeps DEF RadarOff
<1>15. CASE \E w \in Ap : CsaFinish(w)
  <2>1. PICK w \in Ap : CsaFinish(w)
    BY <1>15
  <2>2. w \in Vif /\ csa[w].c \in Ctx /\ csa[w].f \in Freq
    BY <2>1 DEF CsaFinish, IInv, SwitchIsFull, Vif
  <2> QED  BY <1>1, <1>3, <2>1, <2>2 DEF CsaFinish
<1>16. CASE BeatApply
  <2>1. beat.c \in Ctx
    BY <1>16 DEF BeatApply, IInv, Works, ChanAssumption
  <2> QED  BY <1>0, <1>16, <2>1, BeatLinks
<1>17. CASE \/ PreSwitch
            \/ \E c \in Ctx : FwStarts(c)
            \/ \E w \in Vif : Open(w) \/ Begin("close", w)
            \/ \E w \in Ap, f \in Freq : StartApAsk(w, f) \/ CacAsk(w, f) \/ ChannelSwitch(w, f)
            \/ FwRefuses
            \/ \E w \in Ap : Begin("stop_ap", w)
            \/ Begin("restart", None)
            \/ CancelNothing \/ CancelPending \/ CancelSticks
            \/ FwStops \/ StopApEnds \/ Close
            \/ \E m \in Mon, f \in Freq : MonitorAsk(m, f)
            \/ FwSetsNone
            \/ \E m \in Mon, c \in Ctx : FwResumes(m, c)
            \/ CacFires
            \/ RadarSeen \/ RadarReports \/ RadarCancels
            \/ \E f \in Radar : RadarGone(f)
            \/ \E w \in Ap, c \in Ctx : ApCsaFinish(w, c)
            \/ BeatAsk
  BY <1>1, <1>17 DEF StopApEnds, MonitorAsk, FwSetsNone, FwResumes, RadarSeen, RadarReports,
     RadarCancels, RadarGone, PreSwitch, FwStarts, Open, Begin, StartApAsk, CacAsk, ChannelSwitch,
     FwRefuses, CancelNothing, CancelPending, CancelSticks, FwStops, Close, CacFires,
     ApCsaFinish, BeatAsk
<1> QED  BY <1>4, <1>5, <1>6, <1>7, <1>8, <1>9, <1>10, <1>11, <1>12, <1>13, <1>14,
            <1>15, <1>16, <1>17, <1>18, <1>19 DEF Next

\* The firmware has an AP again when it is started, and no AP otherwise.
LEMMA JoinSteps ==
  ASSUME ChanAssumption, IInv, Next, NEW v \in Ap, fw.ch[v] = None
  PROVE  fw'.ch[v] = None \/ (op.v = v /\ \E c \in Ctx : FwStarts(c))
<1>0. /\ v \in Vif /\ v # Sta /\ v \notin Mon /\ fw \in FwType /\ FwGood
  BY DEF IInv, FwGood, Vif, ChanAssumption
<1>1. ASSUME NEW w, NEW c \in Ctx, NEW f \in Freq, FwLink(w, c, f), w # v
      PROVE  fw'.ch[v] = None
  BY <1>0, <1>1, FwLinkIs
<1>2. ASSUME NEW w, FwLeave(w)
      PROVE  fw'.ch[v] = None
  BY <1>0, <1>2, FwLeaveIs
<1>3. CASE \E c \in Ctx : FwStarts(c)
  <2>1. PICK c \in Ctx : FwStarts(c)
    BY <1>3
  <2>2. op.f \in Freq /\ FwLink(op.v, c, op.f)
    BY <2>1 DEF FwStarts, IInv, RequestIsFull
  <2> QED  BY <1>1, <2>1, <2>2
<1>4. CASE \E c \in Ctx, f \in Freq : Connect(c, f) \/ StaCsaFinish(c, f)
  BY <1>0, <1>1, <1>4 DEF Connect, StaCsaFinish
<1>5. CASE \E w \in Ap, c \in Ctx : ApCsaFinish(w, c)
  BY <1>1, <1>5 DEF ApCsaFinish, IInv, SwitchIsFull
<1>6. CASE \E m \in Mon, c \in Ctx, f \in Freq : MonitorGet(m, c, f)
  <2>1. PICK m \in Mon, c \in Ctx, f \in Freq : MonitorGet(m, c, f)
    BY <1>6
  <2>2. fw.freq[c] \in Freq
    BY <1>0, <2>1 DEF MonitorGet, FwUsers, FwGood, FwType
  <2> QED  BY <1>0, <1>1, <2>1, <2>2 DEF MonitorGet
<1>7. CASE \E m \in Mon, c \in Ctx : FwResumes(m, c)
  <2>1. PICK m \in Mon, c \in Ctx : FwResumes(m, c)
    BY <1>7
  <2>2. tab.chan[tab.ch[m]] \in Freq
    BY <2>1 DEF FwResumes, IInv, Good, Table, Covers, Vif
  <2> QED  BY <1>0, <1>1, <2>1, <2>2 DEF FwResumes
<1>8. CASE \/ Disconnect \/ CancelPending \/ FwStops \/ Close \/ FwSetsNone \/ RadarCancels
           \/ \E m \in Mon : MonitorLost(m)
  BY <1>2, <1>8 DEF Disconnect, CancelPending, CancelStops, FwStops, Close, FwSetsNone,
     RadarCancels, MonitorLost
<1>9. CASE CacFires
  BY <1>2, <1>9 DEF CacFires
<1>10. CASE Restart
  BY <1>0, <1>10 DEF Restart, NoFw
<1>11. CASE PreSwitch \/ \E c \in Ctx : Switch(c)
  BY <1>0, <1>11 DEF PreSwitch, Switch, FwType
<1>12. CASE \/ \E w \in Vif : Open(w) \/ Begin("close", w)
            \/ \E w \in Ap, f \in Freq : StartApAsk(w, f) \/ CacAsk(w, f) \/ ChannelSwitch(w, f)
            \/ StartAp \/ StartApRadar \/ CacLinks \/ FwRefuses
            \/ \E w \in Ap : Begin("stop_ap", w) \/ CsaFinish(w)
            \/ Begin("restart", None)
            \/ CancelNothing \/ CancelEnds \/ CancelSticks \/ StopAp \/ StopApEnds
            \/ \E m \in Mon, f \in Freq : MonitorAsk(m, f)
            \/ MonitorSet
            \/ \E m \in Mon : RemoveMonitor(m)
            \/ CacEnds \/ BeatAsk \/ BeatApply
            \/ RadarSeen \/ RadarReports \/ RadarCancelEnds \/ RadarOff
            \/ \E f \in Radar : RadarGone(f)
  <2>1. fw' = fw
    BY <1>12 DEF Open, Begin, StartApAsk, CacAsk, ChannelSwitch, StartAp, StartApRadar,
       CacLinks, FwRefuses, CsaFinish, CancelNothing, CancelSkips, CancelEnds, CancelSticks,
       StopAp, StopApEnds, MonitorAsk, MonitorSet, RemoveMonitor, CacEnds, BeatAsk, BeatApply,
       RadarSeen, RadarReports, RadarCancelEnds, RadarOff, RadarGone
  <2> QED  BY <2>1
<1> QED  BY <1>3, <1>4, <1>5, <1>6, <1>7, <1>8, <1>9, <1>10, <1>11, <1>12 DEF Next

\* What follows the answer to a start, and the stop of an AP.
LEMMA StartSteps ==
  ASSUME Next, op.k = "start_ap", op.s = "cfm"
  PROVE  op' = op \/ StartAp
BY DEF Next, FwStarts, StartApRadar, StopAp, StopApEnds, PreSwitch, Switch, Connect, StaCsaFinish, Disconnect, Open,
   Begin, Ask, Idle, Waits, StartApAsk, CacAsk, ChannelSwitch, FwRefuses, CacLinks,
   CsaFinish, CancelNothing, CancelPending, CancelEnds, CancelSticks, FwStops,
   Close, Restart, MonitorAsk, MonitorGet, FwSetsNone, MonitorSet, MonitorLost, RemoveMonitor,
   FwResumes, CacFires, CacEnds, RadarSeen, RadarReports, RadarCancels, RadarCancelEnds,
   RadarOff, RadarGone, ApCsaFinish, BeatAsk, BeatApply

LEMMA StopSteps ==
  ASSUME IInv, Next, op.k = "stop_ap"
  PROVE  (op'.k = "stop_ap" /\ op'.v = op.v) \/ StopApEnds
<1>0. op = [k |-> op.k, s |-> op.s, v |-> op.v, f |-> op.f, c |-> op.c]
  BY DEF IInv, Requests
<1> DEFINE Goes == \/ CancelNothing \/ CancelPending \/ CancelEnds \/ FwStops \/ StopAp
<1>1. CASE Goes
  <2>1. \E x : op' = [op EXCEPT !.s = x]
    BY <1>1 DEF CancelNothing, CancelPending, CancelEnds, FwStops, StopAp
  <2> QED  BY <1>0, <2>1
<1>2. CASE ~Goes /\ ~StopApEnds
  <2>1. op' = op
    BY <1>2 DEF Next, FwStarts, StartApRadar, StartAp, PreSwitch, Switch, Connect, StaCsaFinish, Disconnect, Open,
   Begin, Ask, Idle, Waits, StartApAsk, CacAsk, ChannelSwitch, FwRefuses, CacLinks,
   CsaFinish, CancelNothing, CancelPending, CancelEnds, CancelSticks, FwStops,
   Close, Restart, MonitorAsk, MonitorGet, FwSetsNone, MonitorSet, MonitorLost, RemoveMonitor,
   FwResumes, CacFires, CacEnds, RadarSeen, RadarReports, RadarCancels, RadarCancelEnds,
   RadarOff, RadarGone, ApCsaFinish, BeatAsk, BeatApply
  <2> QED  BY <2>1
<1> QED  BY <1>1, <1>2

LEMMA LinkInvKept ==
  ASSUME ChanAssumption, HostWaits, IInv, LinkInv, Next
  PROVE  LinkInv'
<1>0. /\ None \notin Ap /\ Sta \notin Ap /\ Ap \cap Mon = {}
      /\ None \notin Vif /\ up \in SUBSET Vif /\ started \in SUBSET Vif
      /\ op.k \in {"start_ap", "start_cac"} => op.v \in Ap
      /\ op.k = "monitor" => op.v \in Mon
      /\ NoCac.vif = None /\ NoOp.k = "none"
      /\ op = [k |-> op.k, s |-> op.s, v |-> op.v, f |-> op.f, c |-> op.c]
      /\ cac = [vif |-> cac.vif, work |-> cac.work]
  BY DEF IInv, Requests, RequestIsFull, Interfaces, Works, Vif, ChanAssumption, NoCac, NoOp
<1> DEFINE Known(v) == \/ tab.ch[v] # None
                       \/ fw.ch[v] = None
                       \/ op.k = "start_ap" /\ op.s = "cfm" /\ op.v = v
                       \/ op.k = "stop_ap" /\ op.v = v
<1>1. ASSUME NEW v \in started \cap Ap, ~StopApEnds
      PROVE  Known(v)'
  <2>1. Known(v) /\ v # cac.vif
    BY <1>1 DEF LinkInv
  <2>2. CASE tab.ch[v] # None
    <3>1. tab'.ch[v] # None \/ fw'.ch[v] = None \/ (StopAp /\ op.v = v)
      BY <1>1, <2>1, <2>2, LinksAreKept
    <3>2. StopAp => op'.k = "stop_ap" /\ op'.v = op.v
      BY <1>0 DEF StopAp, Waits
    <3> QED  BY <3>1, <3>2
  <2>3. CASE fw.ch[v] = None
    <3>1. fw'.ch[v] = None \/ (op.v = v /\ \E c \in Ctx : FwStarts(c))
      BY <1>1, <2>3, JoinSteps
    <3>2. (\E c \in Ctx : FwStarts(c)) /\ op.v = v =>
            op'.k = "start_ap" /\ op'.s = "cfm" /\ op'.v = v
      BY <1>0, <1>1 DEF FwStarts, LinkInv
    <3> QED  BY <3>1, <3>2
  <2>4. CASE op.k = "start_ap" /\ op.s = "cfm" /\ op.v = v
    <3>1. CASE op' = op
      BY <2>4, <3>1
    <3>2. CASE StartAp
      <4>1. op.v \in Vif /\ op.c \in Ctx /\ op.f \in Freq /\ Good(tab) /\ None \notin Ctx
        BY <3>2 DEF StartAp, Waits, IInv, RequestIsFull, Vif, ChanAssumption
      <4>2. PICK stray \in Strays : tab' = Link(tab, op.v, op.c, op.f, stray)
        BY <3>2 DEF StartAp
      <4>3. tab'.ch[op.v] # None
        BY <4>1, <4>2, LinkIsLinked
      <4> QED  BY <2>4, <4>3
    <3> QED  BY <2>4, <3>1, <3>2, StartSteps
  <2>5. CASE op.k = "stop_ap" /\ op.v = v
    BY <1>1, <2>5, StopSteps
  <2> QED  BY <2>1, <2>2, <2>3, <2>4, <2>5
<1>2. ASSUME NEW v \in Ap, v \in started', v \notin started
      PROVE  Known(v)'
  <2>1. CASE StartAp
    <3>1. op.v = v
      BY <1>2, <2>1 DEF StartAp
    <3>2. op.v \in Vif /\ op.c \in Ctx /\ op.f \in Freq /\ Good(tab) /\ None \notin Ctx
      BY <2>1 DEF StartAp, Waits, IInv, RequestIsFull, Vif, ChanAssumption
    <3>3. PICK stray \in Strays : tab' = Link(tab, op.v, op.c, op.f, stray)
      BY <2>1 DEF StartAp
    <3>4. tab'.ch[op.v] # None
      BY <3>2, <3>3, LinkIsLinked
    <3> QED  BY <3>1, <3>4
  <2>2. CASE ~StartAp
    <3>1. started' \subseteq started \cup {Sta}
      BY <2>2 DEF Next, FwStarts, StartApRadar, StopAp, StopApEnds, PreSwitch, Switch, Connect, StaCsaFinish, Disconnect, Open,
         Begin, Ask, Idle, Waits, StartApAsk, CacAsk, ChannelSwitch, FwRefuses, CacLinks,
         CsaFinish, CancelNothing, CancelPending, CancelEnds, CancelSticks, FwStops,
         Close, Restart, MonitorAsk, MonitorGet, FwSetsNone, MonitorSet, MonitorLost, RemoveMonitor,
         FwResumes, CacFires, CacEnds, RadarSeen, RadarReports, RadarCancels, RadarCancelEnds,
         RadarOff, RadarGone, ApCsaFinish, BeatAsk, BeatApply
    <3> QED  BY <1>0, <1>2, <3>1
  <2> QED  BY <2>1, <2>2
<1>3. \A v \in started' \cap Ap : Known(v)'
  <2>1. CASE StopApEnds
    <3> SUFFICES ASSUME NEW v \in Ap, v \in started'  PROVE Known(v)'
      OBVIOUS
    <3>1. /\ started' = started \ {op.v} /\ tab' = tab /\ fw' = fw
          /\ op.k = "stop_ap"
      BY <2>1 DEF StopApEnds, Waits
    <3> QED  BY <3>1 DEF LinkInv
  <2>2. CASE ~StopApEnds
    BY <1>1, <1>2, <2>2
  <2> QED  BY <2>1, <2>2
<1> DEFINE Rest == /\ cac.vif \in Ap \cup {None}
                   /\ cac.vif \notin started
                   /\ op.k = "start_ap" => op.v # cac.vif
                   /\ op.k = "start_cac" => op.v \notin started
<1> HIDE DEF Known
<1>r. Rest
  BY DEF LinkInv
<1>4. Rest'
  <2>1. ASSUME cac'.vif \in {cac.vif, None}, started' \subseteq started,
               op'.k \in {op.k, "none"}, op'.v = op.v \/ op'.k = "none"
        PROVE  Rest'
    BY <1>0, <1>r, <2>1
  <2>2. CASE \E c \in Ctx, f \in Freq : Connect(c, f)
    BY <1>0, <1>r, <2>2 DEF Connect
  <2>3. CASE Disconnect
    BY <1>r, <2>3 DEF Disconnect
  <2>4. CASE \E v \in Ap, f \in Freq : StartApAsk(v, f)
    BY <1>r, <2>4 DEF StartApAsk, Ask
  <2>5. CASE \E v \in Ap, f \in Freq : CacAsk(v, f)
    BY <1>r, <2>5 DEF CacAsk, Ask, Idle
  <2>6. CASE (\E c \in Ctx : FwStarts(c)) \/ FwSetsNone \/ FwStops \/ StopAp
    BY <1>0, <1>r, <2>6 DEF FwStarts, FwSetsNone, FwStops, StopAp, Waits
  <2>7. CASE StartAp
    <3>1. /\ cac' = cac /\ started' = started \cup {op.v}
          /\ op.k = "start_ap" /\ op.v \in Ap
          /\ op' = [op EXCEPT !.s = "radar"] \/ op' = NoOp
      BY <1>0, <2>7 DEF StartAp, Waits
    <3>2. (op'.k = "start_ap" /\ op'.v = op.v) \/ op'.k = "none"
      BY <1>0, <3>1
    <3> QED  BY <1>0, <1>r, <3>1, <3>2
  <2>8. CASE StartApRadar \/ CacLinks \/ FwRefuses \/ Close \/ Restart \/ MonitorSet \/ StopApEnds
    BY <1>0, <2>1, <2>8 DEF StartApRadar, CacLinks, FwRefuses, Close, Restart, MonitorSet, StopApEnds
  <2>9. CASE \/ \E w \in Vif : Begin("close", w)
             \/ \E w \in Ap : Begin("stop_ap", w)
             \/ Begin("restart", None)
             \/ \E m \in Mon, f \in Freq : MonitorAsk(m, f)
    BY <1>r, <2>9 DEF Begin, Ask, MonitorAsk
  <2>10. CASE CancelNothing \/ CancelPending \/ CancelEnds
    BY <1>0, <2>1, <2>10 DEF CancelNothing, CancelSkips, CancelPending, CancelStops, CancelEnds,
       CancelUnlinks
  <2>11. CASE CacFires \/ CacEnds \/ RadarReports \/ RadarCancels \/ RadarCancelEnds
    BY <1>0, <2>1, <2>11 DEF CacFires, CacEnds, RadarReports, RadarCancels, RadarCancelEnds,
       CancelSkips, CancelStops, CancelUnlinks
  <2>12. CASE \/ PreSwitch \/ CancelSticks \/ BeatAsk \/ BeatApply
              \/ \E c \in Ctx : Switch(c)
              \/ \E c \in Ctx, f \in Freq : StaCsaFinish(c, f)
              \/ \E v \in Vif : Open(v)
              \/ \E v \in Ap, f \in Freq : ChannelSwitch(v, f)
              \/ \E v \in Ap : CsaFinish(v)
              \/ \E m \in Mon, c \in Ctx, f \in Freq : MonitorGet(m, c, f)
              \/ \E m \in Mon : MonitorLost(m) \/ RemoveMonitor(m)
              \/ \E m \in Mon, c \in Ctx : FwResumes(m, c)
              \/ \E v \in Ap, c \in Ctx : ApCsaFinish(v, c)
              \/ RadarSeen \/ RadarOff
              \/ \E f \in Radar : RadarGone(f)
    <3>1. UNCHANGED <<cac, started, op>>
      BY <2>12 DEF PreSwitch, CancelSticks, BeatAsk, BeatApply, Switch, StaCsaFinish,
         Open, ChannelSwitch, CsaFinish, MonitorGet, MonitorLost, RemoveMonitor, FwResumes,
         ApCsaFinish, RadarSeen, RadarOff, RadarGone
    <3> QED  BY <2>1, <3>1
  <2> QED  BY <2>2, <2>3, <2>4, <2>5, <2>6, <2>7, <2>8, <2>9, <2>10, <2>11, <2>12 DEF Next
<1> QED  BY <1>3, <1>4 DEF LinkInv, Known

\* An AP that the firmware has is linked, so that announced switches stop and start
\* its queues: if user space starts an AP only when the work of its
\* availability check is through, however requests, indications and works
\* interleave.
THEOREM StartedAlwaysLinked == ASSUME HostWaits PROVE Spec => []StartedIsLinked
<1>1. Init => LinkInv
  BY ChanAssumption DEF Init, LinkInv, NoCac, NoOp
<1>2. IInv /\ LinkInv /\ [Next]_vars => LinkInv'
  <2>1. ASSUME UNCHANGED vars, LinkInv PROVE LinkInv'
    BY <2>1 DEF vars, LinkInv
  <2> QED  BY <2>1, ChanAssumption, LinkInvKept
<1>3. LinkInv => StartedIsLinked
  BY ChanAssumption DEF LinkInv, StartedIsLinked
<1> QED  BY <1>1, <1>2, <1>3, Inductive, PTL DEF Spec

----------------------------------------------------------------------------
(* No queue is left stopped on the current channel.                         *)

\* The firmware is on the current context or nowhere yet; only what beacons or
\* is connected has queues, and it is open; what is being closed or checked
\* does not beacon.  A monitor's channel is set when only monitors run.
HomeInv ==
  /\ fw.cur \in {None, cur}
  /\ started \subseteq up /\ started \cap Mon = {}
  /\ again \subseteq up
  /\ again # {} => op.k \in {"none", "start_ap"}
  /\ \A v \in Vif : q[v] # "none" => v \in started
  /\ op.k \in {"close", "start_cac"} => op.v \notin started
  /\ op.k = "start_ap" => op.v \in up
  /\ op.k = "monitor" => up \subseteq Mon
  /\ cac.vif \in Ap \cup {None}

\* The driver and the firmware agree where the station is, and while something
\* refers to a context (an answer of the heart beat, the start of an AP, the
\* work of a switch) a connected station is on that one.
StaInv ==
  Sta # None =>
    /\ fw.ch[Sta] = tab.ch[Sta]
    /\ tab.ch[Sta] # None => Sta \in started
    /\ beat # None => tab.ch[Sta] \in {None, beat.c}
    /\ op.k = "start_ap" /\ op.s = "cfm" => tab.ch[Sta] \in {None, op.c}
    /\ \A v \in Ap :
         csa[v].s \in {"sched", "freed"} => tab.ch[Sta] \in {None, csa[v].c}

LEMMA SetQIs ==
  ASSUME NEW vs, NEW x
  PROVE  \A v \in Vif : SetQ(vs, x)[v] = IF v \in vs /\ q[v] # "none" THEN x ELSE q[v]
BY DEF SetQ

LEMMA NewQIs ==
  ASSUME NEW v \in Vif, NEW c, NEW moved
  PROVE  \A w \in Vif :
           NewQ(v, c, moved)[w] = IF w = v THEN IF cur = c THEN "go" ELSE "stop"
                                  ELSE SetQ(moved, "go")[w]
<1> DEFINE s == SetQ(moved, "go")
<1>1. s = [w \in Vif |-> s[w]]
  BY DEF SetQ
<1>2. NewQ(v, c, moved) = [s EXCEPT ![v] = IF cur = c THEN "go" ELSE "stop"]
  BY DEF NewQ
<1>3. NewQ(v, c, moved)[v] = IF cur = c THEN "go" ELSE "stop"
  BY <1>1, <1>2
<1>4. \A w \in Vif \ {v} : NewQ(v, c, moved)[w] = s[w]
  <2> HIDE DEF s
  <2> QED  BY <1>1, <1>2
<1> HIDE DEF s
<1>5. \A w \in Vif : NewQ(v, c, moved)[w] = IF w = v THEN IF cur = c THEN "go" ELSE "stop"
                                              ELSE s[w]
  BY <1>3, <1>4
<1> QED  BY <1>5 DEF s

\* A monitor that is linked keeps its context, else it is linked.
LEMMA TunedLinks ==
  ASSUME NEW t, Good(t), NEW m \in Vif, NEW c, NEW f \in Freq, NEW stray, NEW u,
         u = Retune(t, m, c, f, stray) \/ u = Link(t, m, c, f, stray)
  PROVE  u.ch = t.ch \/ u = Link(t, m, c, f, stray)
<1>1. CASE t.ch[m] # None /\ u = Retune(t, m, c, f, stray)
  <2>1. t.ch[m] \in Ctx
    BY <1>1 DEF Good, Table
  <2> QED  BY <1>1, <2>1, ChanKeeps DEF Retune
<1>2. CASE t.ch[m] = None \/ u = Link(t, m, c, f, stray)
  BY <1>2 DEF Retune
<1> QED  BY <1>1, <1>2

\* Where the station goes: it moves when nothing refers to its context, a
\* restart takes its link, and everything else leaves it where it is.
LEMMA StationMoves ==
  ASSUME ChanAssumption, IInv, HomeInv, StaInv, Next, Sta # None
  PROVE  \/ /\ StaMayMove /\ UNCHANGED <<beat, op, csa>>
            /\ fw'.ch[Sta] = tab'.ch[Sta]
            /\ tab'.ch[Sta] # None => Sta \in started'
         \/ fw'.ch[Sta] = None /\ tab'.ch[Sta] = None
         \/ /\ fw'.ch[Sta] = fw.ch[Sta] /\ tab'.ch[Sta] = tab.ch[Sta]
            /\ Sta \in started => Sta \in started'
<1>0. /\ Sta \in Vif /\ Sta \notin Ap /\ Sta \notin Mon /\ Ap \in SUBSET Vif /\ Mon \in SUBSET Vif
      /\ Good(tab) /\ cur \in Ctx /\ None \notin Ctx /\ fw \in FwType
  BY DEF IInv, Interfaces, FwGood, Vif, ChanAssumption
<1>1. ASSUME NEW w \in Vif \ {Sta}, NEW c \in Ctx, NEW f \in Freq, NEW stray \in Strays,
             tab'.ch = Link(tab, w, c, f, stray).ch
      PROVE  tab'.ch[Sta] = tab.ch[Sta]
  <2>1. \E m \in SUBSET (Vif \ {Sta}) : \E s : \A x \in Vif :
          Link(tab, w, c, f, stray).ch[x] = IF x \in m THEN s ELSE IF x = w THEN c ELSE tab.ch[x]
    <3> DEFINE m == LinkMoves(tab, w, c, f, stray)
               s == IF w = Sta THEN c ELSE tab.ch[Sta]
    <3>1. /\ m \in SUBSET (Vif \ {Sta})
          /\ \A x \in Vif : Link(tab, w, c, f, stray).ch[x] =
               IF x \in m THEN s ELSE IF x = w THEN c ELSE tab.ch[x]
      BY <1>0, LinkLinks
    <3> HIDE DEF m, s
    <3> QED  BY <3>1
  <2> QED  BY <1>0, <1>1, <2>1
<1>2. ASSUME NEW w, tab' = Unlink(tab, w), w \in Vif \ {Sta}
      PROVE  tab'.ch[Sta] = tab.ch[Sta]
  BY <1>0, <1>2, UnlinkLinks
<1>3. ASSUME NEW v, FwLeave(v), v # Sta
      PROVE  fw'.ch[Sta] = fw.ch[Sta]
  BY <1>0, <1>3, FwLeaveIs
<1>4. ASSUME NEW v \in Vif, NEW c \in Ctx, NEW f \in Freq, FwLink(v, c, f)
      PROVE  fw'.ch[Sta] = IF v = Sta THEN c ELSE fw.ch[Sta]
  BY <1>0, <1>4, FwLinkIs
<1>5. CASE \E c \in Ctx, f \in Freq : Connect(c, f)
  <2>1. PICK c \in Ctx, f \in Freq : Connect(c, f)
    BY <1>5
  <2>2. PICK stray \in Strays : tab' = Link(tab, Sta, c, f, stray)
    BY <2>1 DEF Connect
  <2> DEFINE m == LinkMoves(tab, Sta, c, f, stray)
  <2>3. /\ m \in SUBSET (Vif \ {Sta})
        /\ \A x \in Vif : Link(tab, Sta, c, f, stray).ch[x] =
             IF x \in m THEN c ELSE IF x = Sta THEN c ELSE tab.ch[x]
    BY <1>0, LinkLinks
  <2> HIDE DEF m
  <2>4. tab'.ch[Sta] = c
    BY <1>0, <2>2, <2>3
  <2>5. fw'.ch[Sta] = c /\ StaMayMove /\ UNCHANGED <<beat, op, csa>> /\ Sta \in started'
    BY <1>0, <1>4, <2>1 DEF Connect
  <2> QED  BY <2>4, <2>5
<1>6. CASE \E c \in Ctx, f \in Freq : StaCsaFinish(c, f)
  <2>1. PICK c \in Ctx, f \in Freq : StaCsaFinish(c, f)
    BY <1>6
  <2>2. PICK moved : MovesWith(moved, Sta, c)
    BY <1>0, <2>1, MoveLinks DEF StaCsaFinish
  <2>3. tab'.ch[Sta] = c
    BY <1>0, <2>2 DEF MovesWith
  <2>4. fw'.ch[Sta] = c /\ StaMayMove /\ UNCHANGED <<beat, op, csa>> /\ Sta \in started'
    BY <1>0, <1>4, <2>1 DEF StaCsaFinish, StaInv
  <2> QED  BY <2>3, <2>4
<1>7. CASE Disconnect
  <2>1. tab'.ch[Sta] = None
    BY <1>0, <1>7, UnlinkLinks DEF Disconnect
  <2>2. fw'.ch[Sta] = None
    BY <1>0, <1>7, FwLeaveIs DEF Disconnect
  <2> QED  BY <2>1, <2>2
<1>8. CASE Restart
  <2>1. tab'.ch[Sta] = None
    BY <1>0, <1>8 DEF Restart, UnlinkAll, StaInv
  <2>2. fw'.ch[Sta] = None
    BY <1>0, <1>8 DEF Restart, NoFw
  <2> QED  BY <2>1, <2>2
<1>9. CASE StartAp \/ CacLinks
  <2>1. op.v \in Vif \ {Sta} /\ op.c \in Ctx /\ op.f \in Freq
    BY <1>0, <1>9 DEF StartAp, CacLinks, Waits, IInv, RequestIsFull
  <2>2. PICK stray \in Strays :
          LET t == Link(tab, op.v, op.c, op.f, stray)
          IN  tab' = t \/ tab' = [t EXCEPT !.detect = TRUE]
    BY <1>9 DEF StartAp, CacLinks
  <2> DEFINE t == Link(tab, op.v, op.c, op.f, stray)
  <2>3. t \in Table
    BY <1>0, <2>1, LinkKeeps DEF Good
  <2>4. tab' = t \/ tab' = [t EXCEPT !.detect = TRUE]
    BY <2>2
  <2> HIDE DEF t
  <2>5. tab'.ch = t.ch
    BY <2>3, <2>4 DEF Table
  <2>6. fw' = fw /\ (Sta \in started => Sta \in started')
    BY <1>9 DEF StartAp, CacLinks
  <2> QED  BY <1>1, <2>1, <2>5, <2>6 DEF t
<1>10. CASE StopAp \/ CancelEnds \/ CacEnds \/ RadarCancelEnds
  <2>1. \E w \in Vif \ {Sta} : tab' = Unlink(tab, w)
    <3>1. CASE StopAp
      BY <1>0, <3>1 DEF StopAp, Waits, IInv, RequestIsFull
    <3>2. CASE CancelEnds \/ CacEnds \/ RadarCancelEnds
      BY <1>0, <3>2 DEF CancelEnds, CacEnds, RadarCancelEnds, CancelUnlinks, HomeInv, Vif,
         ChanAssumption
    <3> QED  BY <1>10, <3>1, <3>2
  <2>2. fw' = fw /\ started' = started
    BY <1>10 DEF StopAp, CancelEnds, CacEnds, RadarCancelEnds
  <2> QED  BY <1>2, <2>1, <2>2
<1>11. CASE MonitorSet \/ \E m \in Mon, c \in Ctx, f \in Freq : MonitorGet(m, c, f)
  <2>1. fw'.ch[Sta] = fw.ch[Sta] /\ started' = started
    <3>1. CASE MonitorSet
      BY <3>1 DEF MonitorSet
    <3>2. CASE \E m \in Mon, c \in Ctx, f \in Freq : MonitorGet(m, c, f)
      <4>1. PICK m \in Mon, c \in Ctx, f \in Freq : MonitorGet(m, c, f)
        BY <3>2
      <4>2. fw.freq[c] \in Freq
        BY <1>0, <4>1 DEF MonitorGet, FwUsers, IInv, FwGood, FwType
      <4> QED  BY <1>0, <1>4, <4>1, <4>2 DEF MonitorGet
    <3> QED  BY <1>11, <3>1, <3>2
  <2>2. tab'.ch[Sta] = tab.ch[Sta]
    <3>1. CASE MonitorSet
      <4>1. op.v \in Mon /\ op.v \in Vif \ {Sta} /\ op.f \in Freq /\ op.c \in Ctx \cup {None}
        BY <1>0, <3>1 DEF MonitorSet, Waits, IInv, RequestIsFull, Requests
      <4>2. CASE op.c = None
        BY <1>2, <3>1, <4>1, <4>2 DEF MonitorSet
      <4>3. CASE op.c # None
        <5>1. PICK stray \in Strays : tab' = Retune(tab, op.v, op.c, op.f, stray)
          BY <3>1, <4>3 DEF MonitorSet
        <5>2. tab'.ch = tab.ch \/ tab' = Link(tab, op.v, op.c, op.f, stray)
          BY <1>0, <4>1, <5>1, TunedLinks
        <5> QED  BY <1>1, <4>1, <4>3, <5>2
      <4> QED  BY <4>2, <4>3
    <3>2. CASE \E m \in Mon, c \in Ctx, f \in Freq : MonitorGet(m, c, f)
      <4>1. PICK m \in Mon, c \in Ctx, f \in Freq : MonitorGet(m, c, f)
        BY <3>2
      <4> DEFINE t == [tab EXCEPT !.chan = [@ EXCEPT ![c] = f]]
      <4>2. PICK stray \in Strays :
              tab' = Retune(t, m, c, f, stray) \/ tab' = Link(t, m, c, f, stray)
        BY <4>1 DEF MonitorGet
      <4>3. Good(t) /\ t.ch = tab.ch /\ m \in Vif \ {Sta}
        BY <1>0, ChanKeeps
      <4> HIDE DEF t
      <4>4. tab'.ch = t.ch \/ tab' = Link(t, m, c, f, stray)
        BY <4>2, <4>3, TunedLinks
      <4>5. /\ LinkMoves(t, m, c, f, stray) \in SUBSET (Vif \ {Sta})
            /\ \A x \in Vif : Link(t, m, c, f, stray).ch[x] =
                 IF x \in LinkMoves(t, m, c, f, stray) THEN t.ch[Sta]
                 ELSE IF x = m THEN c ELSE t.ch[x]
        BY <1>0, <4>3, LinkLinks
      <4>6. Link(t, m, c, f, stray).ch[Sta] = t.ch[Sta]
        BY <1>0, <4>3, <4>5
      <4> QED  BY <4>3, <4>4, <4>6
    <3> QED  BY <1>11, <3>1, <3>2
  <2> QED  BY <2>1, <2>2
<1>12. CASE \E m \in Mon : MonitorLost(m) \/ RemoveMonitor(m)
  <2>1. PICK m \in Mon : MonitorLost(m) \/ RemoveMonitor(m)
    BY <1>12
  <2>2. m \in Vif \ {Sta} /\ tab' = Unlink(tab, m) /\ started' = started
    BY <1>0, <2>1 DEF MonitorLost, RemoveMonitor
  <2>3. fw'.ch[Sta] = fw.ch[Sta]
    BY <1>3, <2>1, <2>2 DEF MonitorLost, RemoveMonitor
  <2> QED  BY <1>2, <2>2, <2>3
<1>13. CASE \E w \in Ap : CsaFinish(w)
  <2>1. PICK w \in Ap : CsaFinish(w)
    BY <1>13
  <2>2. w \in Vif /\ csa[w].c \in Ctx /\ csa[w].f \in Freq /\ fw' = fw /\ started' = started
    BY <1>0, <2>1 DEF CsaFinish, IInv, SwitchIsFull
  <2>3. CASE Move(w, csa[w].c, csa[w].f)
    <3>1. PICK moved : MovesWith(moved, w, csa[w].c)
      BY <1>0, <2>2, <2>3, MoveLinks
    <3>2. tab'.ch[Sta] = tab.ch[Sta]
      BY <1>0, <2>2, <3>1 DEF MovesWith
    <3> QED  BY <2>2, <3>2
  <2>4. CASE tab' = tab
    BY <2>2, <2>4
  <2> QED  BY <2>1, <2>3, <2>4 DEF CsaFinish
<1>14. CASE BeatApply
  <2>1. tab'.ch[Sta] = IF tab.ch[Sta] # None THEN beat.c ELSE tab.ch[Sta]
    BY <1>0, <1>14, BeatLinks
  <2>2. beat # None /\ fw' = fw /\ started' = started
    BY <1>14 DEF BeatApply
  <2> QED  BY <2>1, <2>2 DEF StaInv
<1>15. CASE (\E c \in Ctx : Switch(c)) \/ StartApRadar
  <2>1. tab'.ch = tab.ch /\ fw'.ch = fw.ch /\ started' = started
    BY <1>0, <1>15, EnableLinks DEF Switch, StartApRadar, FwType
  <2> QED  BY <2>1
<1>16. CASE CancelPending \/ RadarCancels \/ CacFires \/ FwStops \/ Close \/ FwSetsNone
  <2>1. UNCHANGED <<tab, started>>
    BY <1>16 DEF CancelPending, RadarCancels, CacFires, FwStops, Close, FwSetsNone
  <2>2. CASE CancelPending \/ RadarCancels \/ CacFires
    BY <1>0, <1>3, <2>1, <2>2 DEF CancelPending, RadarCancels, CancelStops, CacFires, HomeInv
  <2>3. CASE FwStops
    BY <1>0, <1>3, <2>1, <2>3 DEF FwStops, Waits, IInv, RequestIsFull
  <2>4. CASE Close
    <3>1. fw'.ch[Sta] = IF op.v = Sta THEN None ELSE fw.ch[Sta]
      BY <1>0, <2>4, FwLeaveIs DEF Close
    <3>2. op.v = Sta => fw.ch[Sta] = None
      BY <1>0, <2>4 DEF Close
    <3> QED  BY <2>1, <3>1, <3>2
  <2>5. CASE FwSetsNone
    BY <1>0, <1>3, <2>1, <2>5 DEF FwSetsNone, Waits, IInv, RequestIsFull
  <2> QED  BY <1>16, <2>2, <2>3, <2>4, <2>5
<1>17. CASE \/ \E c \in Ctx : FwStarts(c)
            \/ \E v \in Ap, c \in Ctx : ApCsaFinish(v, c)
            \/ \E m \in Mon, c \in Ctx : FwResumes(m, c)
  <2>1. CASE \E c \in Ctx : FwStarts(c)
    BY <1>0, <1>4, <2>1 DEF FwStarts, IInv, RequestIsFull
  <2>3. CASE \E m \in Mon, c \in Ctx : FwResumes(m, c)
    <3>1. PICK m \in Mon, c \in Ctx : FwResumes(m, c)
      BY <2>3
    <3>2. tab.chan[tab.ch[m]] \in Freq /\ m \in Vif \ {Sta}
      BY <1>0, <3>1 DEF FwResumes, Good, Table, Covers
    <3> QED  BY <1>4, <3>1, <3>2 DEF FwResumes
  <2>2. CASE \E v \in Ap, c \in Ctx : ApCsaFinish(v, c)
    BY <1>0, <1>4, <2>2 DEF ApCsaFinish, IInv, SwitchIsFull
  <2> QED  BY <1>17, <2>1, <2>2, <2>3
<1>18. CASE PreSwitch
  BY <1>0, <1>18 DEF PreSwitch, FwType
<1>19. CASE \/ \E w \in Vif : Open(w) \/ Begin("close", w)
            \/ \E w \in Ap, f \in Freq : StartApAsk(w, f) \/ CacAsk(w, f) \/ ChannelSwitch(w, f)
            \/ FwRefuses
            \/ \E w \in Ap : Begin("stop_ap", w)
            \/ Begin("restart", None)
            \/ CancelNothing \/ CancelSticks \/ BeatAsk
            \/ \E m \in Mon, f \in Freq : MonitorAsk(m, f)
            \/ RadarSeen \/ RadarReports
            \/ \E f \in Radar : RadarGone(f)
  BY <1>19 DEF Open, Begin, StartApAsk, CacAsk, ChannelSwitch, FwRefuses, CancelNothing,
     CancelSkips, CancelSticks, BeatAsk, MonitorAsk, RadarSeen, RadarReports, RadarGone
<1>20. CASE StopApEnds
  <2>1. op.v # Sta /\ started' = started \ {op.v} /\ tab' = tab /\ fw' = fw
    BY <1>0, <1>20 DEF StopApEnds, Waits, IInv, RequestIsFull
  <2> QED  BY <2>1
<1>21. CASE RadarOff
  <2>1. tab'.ch = tab.ch /\ fw' = fw /\ started' = started
    BY <1>0, <1>21, DetectKeeps DEF RadarOff
  <2> QED  BY <2>1
<1> QED  BY <1>5, <1>6, <1>7, <1>8, <1>9, <1>10, <1>11, <1>12, <1>13, <1>14,
            <1>15, <1>16, <1>17, <1>18, <1>19, <1>20, <1>21 DEF Next

\* A start is confirmed by the firmware and by nothing else.
LEMMA AnswerSteps ==
  ASSUME IInv, Next
  PROVE  \/ op' = op
         \/ (op'.k \in {"start_ap", "start_cac"} => op'.s # "cfm")
         \/ \E c \in Ctx : FwStarts(c)
<1>0. /\ op \in [k: {"none", "start_ap", "stop_ap", "close", "restart", "start_cac", "monitor"},
                 s: {"none", "ask", "cfm", "radar", "cancel", "cancelling", "left"},
                 v: Vif \cup {None}, f: Freq \cup {None}, c: Ctx \cup {None}]
      /\ NoOp.k = "none"
  BY DEF IInv, Requests, NoOp
<1>1. CASE \/ \E v \in Ap, f \in Freq : StartApAsk(v, f) \/ CacAsk(v, f)
           \/ \E w \in Vif : Begin("close", w)
           \/ \E w \in Ap : Begin("stop_ap", w)
           \/ Begin("restart", None)
           \/ \E m \in Mon, f \in Freq : MonitorAsk(m, f)
  BY <1>1 DEF StartApAsk, CacAsk, Begin, MonitorAsk, Ask
<1>2. CASE CancelNothing \/ CancelPending \/ CancelEnds \/ StartAp
  BY <1>0, <1>2 DEF CancelNothing, CancelPending, CancelEnds, StartAp
<1>3. CASE StartApRadar \/ CacLinks \/ FwRefuses \/ StopApEnds \/ Close \/ Restart \/ MonitorSet
  BY <1>0, <1>3 DEF StartApRadar, CacLinks, FwRefuses, StopApEnds, Close, Restart, MonitorSet
<1>4. CASE FwStops \/ StopAp \/ FwSetsNone
  BY <1>0, <1>4 DEF FwStops, StopAp, FwSetsNone, Waits
<1>5. CASE \/ PreSwitch \/ Disconnect \/ CancelSticks \/ CacFires \/ CacEnds
           \/ BeatAsk \/ BeatApply
           \/ \E c \in Ctx : Switch(c)
           \/ \E c \in Ctx, f \in Freq : Connect(c, f) \/ StaCsaFinish(c, f)
           \/ \E v \in Vif : Open(v)
           \/ \E v \in Ap, f \in Freq : ChannelSwitch(v, f)
           \/ \E v \in Ap : CsaFinish(v)
           \/ \E m \in Mon, c \in Ctx, f \in Freq : MonitorGet(m, c, f)
           \/ \E m \in Mon : MonitorLost(m) \/ RemoveMonitor(m)
           \/ \E m \in Mon, c \in Ctx : FwResumes(m, c)
           \/ \E v \in Ap, c \in Ctx : ApCsaFinish(v, c)
           \/ RadarSeen \/ RadarReports \/ RadarCancels \/ RadarCancelEnds \/ RadarOff
           \/ \E f \in Radar : RadarGone(f)
  BY <1>5 DEF PreSwitch, Disconnect, CancelSticks, CacFires, CacEnds, BeatAsk, BeatApply,
     Switch, Connect, StaCsaFinish, Open, ChannelSwitch, CsaFinish, MonitorGet, MonitorLost,
     RemoveMonitor, FwResumes, ApCsaFinish, RadarSeen, RadarReports, RadarCancels,
     RadarCancelEnds, RadarOff, RadarGone
<1> QED  BY <1>1, <1>2, <1>3, <1>4, <1>5 DEF Next

\* The work of a switch is scheduled by the end of the switch and by nothing
\* else.
LEMMA SwitchSteps ==
  ASSUME IInv, Next, NEW v \in Ap, csa'[v].s \in {"sched", "freed"}
  PROVE  \/ /\ csa'[v].c = csa[v].c /\ csa[v].s \in {"sched", "freed"}
            /\ csa'[v].s = "sched" => csa'[v] = csa[v]
         \/ \E c \in Ctx : ApCsaFinish(v, c)
<1>0. csa \in [Ap -> Csa] /\ NoCsa.s = "none"
  BY DEF IInv, Works, NoCsa
<1>1. CASE csa' = csa
  BY <1>1
<1>2. CASE \E w \in Ap, c \in Ctx : ApCsaFinish(w, c)
  BY <1>0, <1>2 DEF ApCsaFinish
<1>3. CASE \E w \in Ap : CsaFinish(w)
  BY <1>0, <1>3 DEF CsaFinish, NoCsa
<1>4. CASE StopApEnds \/ Restart
  BY <1>0, <1>4 DEF StopApEnds, Restart, DelCsa, Csa
<1>5. CASE \E w \in Ap, f \in Freq : ChannelSwitch(w, f)
  BY <1>0, <1>5 DEF ChannelSwitch
<1>6. \/ csa' = csa
      \/ \E w \in Ap, c \in Ctx : ApCsaFinish(w, c)
      \/ \E w \in Ap : CsaFinish(w)
      \/ StopApEnds \/ Restart
      \/ \E w \in Ap, f \in Freq : ChannelSwitch(w, f)
  BY DEF Next, PreSwitch, Switch, FwStarts, Connect, StaCsaFinish, Disconnect, Open,
     Begin, StartApAsk, CacAsk, StartAp, StartApRadar, CacLinks, FwRefuses,
     CancelNothing, CancelPending, CancelEnds, CancelSticks, FwStops, StopAp,
     Close, CacFires, CacEnds, BeatAsk, BeatApply, MonitorAsk, MonitorGet, FwSetsNone, MonitorSet,
     MonitorLost, RemoveMonitor, FwResumes, RadarSeen, RadarReports, RadarCancels,
     RadarCancelEnds, RadarOff, RadarGone
<1> QED  BY <1>1, <1>2, <1>3, <1>4, <1>5, <1>6

LEMMA StaInvKept ==
  ASSUME ChanAssumption, QuietSta, IInv, HomeInv, StaInv, Next
  PROVE  StaInv'
<1> SUFFICES ASSUME Sta # None
             PROVE  /\ fw'.ch[Sta] = tab'.ch[Sta]
                    /\ tab'.ch[Sta] # None => Sta \in started'
                    /\ beat' # None => tab'.ch[Sta] \in {None, beat'.c}
                    /\ op'.k = "start_ap" /\ op'.s = "cfm" => tab'.ch[Sta] \in {None, op'.c}
                    /\ \A v \in Ap :
                         csa'[v].s \in {"sched", "freed"} => tab'.ch[Sta] \in {None, csa'[v].c}
  BY DEF StaInv
<1>0. /\ fw.ch[Sta] = tab.ch[Sta]
      /\ tab.ch[Sta] # None => Sta \in started
      /\ Sta \notin Ap
      /\ op \in [k: {"none", "start_ap", "stop_ap", "close", "restart", "start_cac", "monitor"},
                 s: {"none", "ask", "cfm", "radar", "cancel", "cancelling", "left"},
                 v: Vif \cup {None}, f: Freq \cup {None}, c: Ctx \cup {None}]
      /\ csa \in [Ap -> Csa]
      /\ NoCsa.s = "none" /\ NoOp.k = "none"
  BY DEF StaInv, ChanAssumption, IInv, Requests, Works, NoCsa, NoOp
<1>1. CASE StaMayMove /\ UNCHANGED <<beat, op, csa>>
  <2>1. beat' = None /\ op'.k = "none" /\ \A v \in Ap : csa'[v].s = "none"
    BY <1>1 DEF StaMayMove
  <2>2. fw'.ch[Sta] = tab'.ch[Sta] /\ (tab'.ch[Sta] # None => Sta \in started')
    BY <1>0, StationMoves
  <2> QED  BY <2>1, <2>2
<1>2. CASE fw'.ch[Sta] = None /\ tab'.ch[Sta] = None
  BY <1>2
<1>3. CASE /\ fw'.ch[Sta] = fw.ch[Sta] /\ tab'.ch[Sta] = tab.ch[Sta]
           /\ Sta \in started => Sta \in started'
  <2>1. fw'.ch[Sta] = tab'.ch[Sta] /\ (tab'.ch[Sta] # None => Sta \in started')
    BY <1>0, <1>3
  <2>2. beat' # None => tab'.ch[Sta] \in {None, beat'.c}
    <3>1. CASE beat' = beat \/ beat' = None
      BY <1>3, <3>1 DEF StaInv
    <3>2. CASE BeatAsk
      BY <1>0, <1>3, <3>2 DEF BeatAsk
    <3>3. beat' = beat \/ beat' = None \/ BeatAsk
      BY DEF Next, PreSwitch, Switch, FwStarts, Connect, StaCsaFinish, Disconnect, Open,
         Begin, StartApAsk, CacAsk, ChannelSwitch, StartAp, StartApRadar, CacLinks, FwRefuses,
         CsaFinish, CancelNothing, CancelPending, CancelEnds, CancelSticks, FwStops, StopAp,
         StopApEnds, Close, Restart, CacFires, CacEnds, ApCsaFinish, BeatApply, MonitorAsk, MonitorGet, FwSetsNone, MonitorSet,
         MonitorLost, RemoveMonitor, FwResumes, RadarSeen, RadarReports, RadarCancels,
         RadarCancelEnds, RadarOff, RadarGone
    <3> QED  BY <3>1, <3>2, <3>3
  <2>3. op'.k = "start_ap" /\ op'.s = "cfm" => tab'.ch[Sta] \in {None, op'.c}
    <3>1. CASE op' = op
      BY <1>3, <3>1 DEF StaInv
    <3>2. CASE \E c \in Ctx : FwStarts(c)
      <4> SUFFICES ASSUME op'.k = "start_ap"  PROVE tab'.ch[Sta] \in {None, op'.c}
        OBVIOUS
      <4>1. PICK c \in Ctx : FwStarts(c)
        BY <3>2
      <4>2. op'.c = c /\ op.v \in Ap /\ Fits(op.v, c, op.f)
        BY <1>0, <4>1 DEF FwStarts, IInv, RequestIsFull
      <4>3. fw.ch[Sta] \in {None, c}
        BY <1>0, <4>2 DEF Fits, Alone
      <4> QED  BY <1>0, <1>3, <4>2, <4>3
    <3>3. op' = op \/ (op'.k = "start_ap" => op'.s # "cfm") \/ \E c \in Ctx : FwStarts(c)
      BY AnswerSteps
    <3> QED  BY <3>1, <3>2, <3>3
  <2>4. ASSUME NEW v \in Ap, csa'[v].s \in {"sched", "freed"}
        PROVE  tab'.ch[Sta] \in {None, csa'[v].c}
    <3>1. CASE csa'[v].c = csa[v].c /\ csa[v].s \in {"sched", "freed"}
      BY <1>3, <3>1 DEF StaInv
    <3>2. CASE \E c \in Ctx : ApCsaFinish(v, c)
      <4>1. PICK c \in Ctx : ApCsaFinish(v, c)
        BY <3>2
      <4>2. csa'[v].c = c /\ Fits(v, c, csa[v].f)
        BY <1>0, <4>1 DEF ApCsaFinish, Csa
      <4>3. fw.ch[Sta] \in {None, c}
        BY <1>0, <4>2 DEF Fits, Alone
      <4> QED  BY <1>0, <1>3, <4>2, <4>3
    <3>3. \/ csa'[v].c = csa[v].c /\ csa[v].s \in {"sched", "freed"}
          \/ \E c \in Ctx : ApCsaFinish(v, c)
      BY <2>4, SwitchSteps
    <3> QED  BY <3>1, <3>2, <3>3
  <2> QED  BY <2>1, <2>2, <2>3, <2>4
<1> QED  BY <1>1, <1>2, <1>3, StationMoves

\* But for an announced switch, an interface that a step brings to the current
\* channel has its queues started, and a step stops no queue of one that is
\* there.
LEMMA QueuesFollow ==
  ASSUME ChanAssumption, IInv, HomeInv, StaInv, Next, ~PreSwitch, \A c \in Ctx : ~Switch(c)
  PROVE  \A v \in Vif : \/ tab'.ch[v] \in {tab.ch[v], None} /\ q'[v] \in {q[v], "none"}
                        \/ q'[v] # "stop"
                        \/ tab'.ch[v] # cur
<1> DEFINE Follows(v) == \/ tab'.ch[v] \in {tab.ch[v], None} /\ q'[v] \in {q[v], "none"}
                         \/ q'[v] # "stop"
                         \/ tab'.ch[v] # cur
<1> SUFFICES ASSUME NEW v \in Vif  PROVE Follows(v)
  OBVIOUS
<1>0. /\ (Sta # None => Sta \in Vif) /\ Sta \notin Ap /\ Sta \notin Mon
      /\ Ap \in SUBSET Vif /\ Mon \in SUBSET Vif
      /\ Good(tab) /\ cur \in Ctx /\ None \notin Ctx /\ None \notin Vif
      /\ q \in Queues
      /\ q[v] # "none" => v \in started
  BY DEF IInv, Interfaces, Works, Vif, ChanAssumption, HomeInv
<1>q. ASSUME NEW vs, NEW x
      PROVE  SetQ(vs, x)[v] = IF v \in vs /\ q[v] # "none" THEN x ELSE q[v]
  BY SetQIs
<1>1. ASSUME NEW w, w \in Vif, tab' = Unlink(tab, w), q'[v] \in {q[v], "none"}
      PROVE  Follows(v)
  BY <1>0, <1>1, UnlinkLinks
\* A link of w to c, beside a station that is nowhere or there.
<1>2. ASSUME NEW w, w \in Vif, NEW c \in Ctx, NEW f \in Freq, NEW stray \in Strays,
             tab'.ch = Link(tab, w, c, f, stray).ch,
             v # w => q'[v] = SetQ(LinkMoves(tab, w, c, f, stray), "go")[v],
             v = w => q'[v] = "none" \/ q'[v] = (IF cur = c THEN "go" ELSE "stop"),
             w # Sta /\ Sta # None /\ q'[w] # "none" => tab.ch[Sta] \in {None, c}
      PROVE  Follows(v)
  <2> DEFINE m == LinkMoves(tab, w, c, f, stray)
             s == IF w = Sta THEN c ELSE tab.ch[Sta]
  <2>1. /\ m \in SUBSET (Vif \ {Sta})
        /\ m # {} => Sta \in Vif /\ s \in Ctx
        /\ tab'.ch[v] = IF v \in m THEN s ELSE IF v = w THEN c ELSE tab.ch[v]
    <3>1. /\ m \in SUBSET (Vif \ {Sta})
          /\ m # {} => Sta \in Vif /\ s \in Ctx
          /\ \A x \in Vif : Link(tab, w, c, f, stray).ch[x] =
               IF x \in m THEN s ELSE IF x = w THEN c ELSE tab.ch[x]
      BY <1>0, <1>2, LinkLinks
    <3> HIDE DEF m, s
    <3> QED  BY <1>2, <3>1
  <2>2. v # w => q'[v] = IF v \in m /\ q[v] # "none" THEN "go" ELSE q[v]
    BY <1>q, <1>2
  <2>3. v = w /\ v \in m /\ q'[v] # "none" => tab'.ch[v] = c
    BY <1>0, <1>2, <2>1
  <2> HIDE DEF m, s
  <2>4. CASE v = w
    BY <1>2, <2>1, <2>3, <2>4
  <2>5. CASE v # w
    BY <2>1, <2>2, <2>5
  <2> QED  BY <2>4, <2>5
\* The end of a switch.
<1>3. ASSUME NEW w, w \in Vif, NEW c \in Ctx, NEW f \in Freq, Move(w, c, f),
             w # Sta /\ Sta # None => tab.ch[Sta] \in {None, c}
      PROVE  Follows(v)
  <2>1. PICK moved : MovesWith(moved, w, c)
    BY <1>0, <1>3, MoveLinks
  <2>2. /\ moved \in SUBSET (Vif \ {Sta})
        /\ moved # {} => Sta \in Vif /\ Host(w, c) \in Ctx
        /\ tab'.ch[v] = IF v \in moved THEN Host(w, c) ELSE IF v = w THEN c ELSE tab.ch[v]
        /\ v = w => q'[v] = SetQ({v}, IF cur = c THEN "go" ELSE "stop")[v]
        /\ v # w => q'[v] = SetQ(moved, "go")[v]
    BY <2>1 DEF MovesWith
  <2>3. moved # {} => Host(w, c) = c
    BY <1>0, <1>3, <2>2 DEF Host
  <2>4. CASE v = w
    <3>1. tab'.ch[v] = c
      BY <2>2, <2>3, <2>4
    <3>2. cur = c => q'[v] # "stop"
      BY <1>q, <2>2, <2>4
    <3> QED  BY <3>1, <3>2
  <2>5. CASE v # w
    BY <1>q, <2>2, <2>5
  <2> QED  BY <2>4, <2>5
<1>5. CASE \E c \in Ctx, f \in Freq : Connect(c, f)
  <2>1. PICK c \in Ctx, f \in Freq : Connect(c, f)
    BY <1>5
  <2>2. Sta \in Vif
    BY <2>1 DEF Connect, IInv, Interfaces
  <2>3. PICK stray \in Strays : /\ tab' = Link(tab, Sta, c, f, stray)
                                /\ q' = NewQ(Sta, c, LinkMoves(tab, Sta, c, f, stray))
    BY <2>1 DEF Connect
  <2> DEFINE m == LinkMoves(tab, Sta, c, f, stray)
  <2>4. q'[v] = IF v = Sta THEN IF cur = c THEN "go" ELSE "stop" ELSE SetQ(m, "go")[v]
    BY <2>2, <2>3, NewQIs
  <2> QED  BY <1>2, <2>2, <2>3, <2>4
<1>6. CASE \E c \in Ctx, f \in Freq : StaCsaFinish(c, f)
  BY <1>3, <1>6 DEF StaCsaFinish, IInv, Interfaces
<1>7. CASE Disconnect
  BY <1>0, <1>1, <1>7 DEF Disconnect, Queues
<1>8. CASE Restart
  <2>1. tab'.ch[v] \in {tab.ch[v], None}
    BY <1>8 DEF Restart, UnlinkAll
  <2>2. q'[v] \in {q[v], "none"}
    BY <1>8 DEF Restart
  <2> QED  BY <2>1, <2>2
<1>9. CASE StartAp
  <2>1. /\ op.v \in Vif /\ op.v \in Ap /\ op.c \in Ctx /\ op.f \in Freq
        /\ Sta # None => tab.ch[Sta] \in {None, op.c}
    BY <1>0, <1>9 DEF StartAp, Waits, IInv, RequestIsFull, StaInv
  <2>2. PICK stray \in Strays : /\ tab' = Link(tab, op.v, op.c, op.f, stray)
                                /\ q' = NewQ(op.v, op.c, LinkMoves(tab, op.v, op.c, op.f, stray))
    BY <1>9 DEF StartAp
  <2> DEFINE m == LinkMoves(tab, op.v, op.c, op.f, stray)
  <2>3. q'[v] = IF v = op.v THEN IF cur = op.c THEN "go" ELSE "stop" ELSE SetQ(m, "go")[v]
    BY <2>1, <2>2, NewQIs
  <2> QED  BY <1>2, <2>1, <2>2, <2>3
<1>10. CASE CacLinks
  <2>1. op.v \in Vif /\ op.c \in Ctx /\ op.f \in Freq /\ op.v \notin started
    BY <1>0, <1>10 DEF CacLinks, Waits, IInv, RequestIsFull, HomeInv
  <2>2. PICK stray \in Strays :
          LET t == Link(tab, op.v, op.c, op.f, stray)
          IN  /\ tab' = t \/ tab' = [t EXCEPT !.detect = TRUE]
              /\ q' = SetQ(LinkMoves(tab, op.v, op.c, op.f, stray), "go")
    BY <1>10 DEF CacLinks
  <2> DEFINE t == Link(tab, op.v, op.c, op.f, stray)
             m == LinkMoves(tab, op.v, op.c, op.f, stray)
  <2>3. t \in Table
    BY <1>0, <2>1, LinkKeeps DEF Good
  <2>4. (tab' = t \/ tab' = [t EXCEPT !.detect = TRUE]) /\ q' = SetQ(m, "go")
    BY <2>2
  <2> HIDE DEF t
  <2>5. tab'.ch = t.ch
    BY <2>3, <2>4 DEF Table
  <2>6. q[op.v] = "none" /\ q'[op.v] = "none"
    BY <1>0, <2>1, <2>4, SetQIs DEF HomeInv
  <2>7. v # op.v => q'[v] = SetQ(m, "go")[v]
    BY <2>4
  <2>8. v = op.v => q'[v] = "none"
    BY <2>6
  <2> HIDE DEF m
  <2> QED  BY <1>2, <2>1, <2>5, <2>6, <2>7, <2>8 DEF t, m
<1>11. CASE StopAp
  BY <1>0, <1>1, <1>11 DEF StopAp, Waits, IInv, RequestIsFull
<1>4. CASE StopApEnds
  BY <1>0, <1>4 DEF StopApEnds, Queues
<1>12. CASE CancelEnds \/ CacEnds \/ RadarCancelEnds
  BY <1>0, <1>1, <1>12 DEF CancelEnds, CacEnds, RadarCancelEnds, CancelUnlinks, HomeInv
<1>13. CASE MonitorSet
  <2>1. op.v \in Mon /\ op.v \in Vif /\ op.f \in Freq /\ op.c \in Ctx \cup {None}
    BY <1>0, <1>13 DEF MonitorSet, Waits, IInv, RequestIsFull, Requests
  <2>2. CASE op.c = None
    BY <1>1, <1>13, <2>1, <2>2 DEF MonitorSet
  <2>3. CASE op.c # None
    <3>1. PICK stray \in Strays :
            /\ tab' = Retune(tab, op.v, op.c, op.f, stray)
            /\ q' = IF tab.ch[op.v] # None THEN q
                    ELSE SetQ(LinkMoves(tab, op.v, op.c, op.f, stray), "go")
      BY <1>13, <2>3 DEF MonitorSet
    <3>2. CASE tab.ch[op.v] # None
      <4>1. tab.ch[op.v] \in Ctx
        BY <1>0, <2>1, <3>2 DEF Good, Table
      <4>2. tab'.ch = tab.ch /\ q' = q
        BY <1>0, <2>1, <3>1, <3>2, <4>1, ChanKeeps DEF Retune
      <4> QED  BY <4>2
    <3>3. CASE tab.ch[op.v] = None
      <4>1. /\ tab' = Link(tab, op.v, op.c, op.f, stray)
            /\ q' = SetQ(LinkMoves(tab, op.v, op.c, op.f, stray), "go")
        BY <3>1, <3>3 DEF Retune
      <4>2. q[op.v] = "none" /\ q'[op.v] = "none"
        BY <1>0, <2>1, <4>1, SetQIs DEF HomeInv
      <4> QED  BY <1>2, <2>1, <2>3, <4>1, <4>2
    <3> QED  BY <3>2, <3>3
  <2> QED  BY <2>2, <2>3
<1>14. CASE \E m \in Mon : MonitorLost(m) \/ RemoveMonitor(m)
  BY <1>0, <1>1, <1>14 DEF MonitorLost, RemoveMonitor
<1>19. CASE \E m \in Mon, c \in Ctx, f \in Freq : MonitorGet(m, c, f)
  <2>0. PICK m \in Mon, c \in Ctx, f \in Freq : MonitorGet(m, c, f)
    BY <1>19
  <2> DEFINE t == [tab EXCEPT !.chan = [@ EXCEPT ![c] = f]]
  <2>1. PICK stray \in Strays :
          \/ up = {m} /\ tab.ch[m] # None /\ tab' = Retune(t, m, c, f, stray) /\ q' = q
          \/ /\ tab' = Link(t, m, c, f, stray)
             /\ q' = SetQ(LinkMoves(t, m, c, f, stray), "go")
    BY <2>0 DEF MonitorGet
  <2>2. Good(t) /\ t.ch = tab.ch /\ m \in Vif
    BY <1>0, ChanKeeps
  <2>3. LinkMoves(t, m, c, f, stray) = LinkMoves(tab, m, c, f, stray)
    <3>1. Linked(t, m, c, f).ch = Linked(tab, m, c, f).ch
      BY <2>2 DEF Linked
    <3> HIDE DEF t
    <3> QED  BY <3>1 DEF LinkMoves, Moved
  <2> HIDE DEF t
  <2>4. CASE tab' = Retune(t, m, c, f, stray) /\ q' = q /\ tab.ch[m] # None
    <3>1. t.ch[m] \in Ctx
      BY <1>0, <2>2, <2>4 DEF Good, Table
    <3>2. tab'.ch = tab.ch
      BY <2>2, <2>4, <3>1, ChanKeeps DEF Retune
    <3> QED  BY <2>4, <3>2
  <2>5. CASE tab' = Link(t, m, c, f, stray) /\ q' = SetQ(LinkMoves(t, m, c, f, stray), "go")
    <3>1. q[m] = "none" /\ q'[m] = "none"
      BY <1>0, <2>2, <2>5, SetQIs DEF HomeInv
    <3>2. \A x \in Vif : Link(t, m, c, f, stray).ch[x] = Link(tab, m, c, f, stray).ch[x]
      <4>1. Sta # m
        BY <1>0
      <4> QED  BY <1>0, <2>2, <2>3, <4>1, LinkLinks
    <3>3. Link(t, m, c, f, stray).ch = Link(tab, m, c, f, stray).ch
      <4>1. Good(Link(t, m, c, f, stray)) /\ Good(Link(tab, m, c, f, stray))
        BY <1>0, <2>2, LinkKeeps
      <4> QED  BY <3>2, <4>1 DEF Good, Table
    <3> QED  BY <1>2, <2>2, <2>3, <2>5, <3>1, <3>3
  <2> QED  BY <2>1, <2>4, <2>5
<1>20. CASE RadarOff
  BY <1>0, <1>20, DetectKeeps DEF RadarOff
<1>15. CASE \E w \in Ap : CsaFinish(w)
  <2>1. PICK w \in Ap : CsaFinish(w)
    BY <1>15
  <2>2. /\ w \in Vif /\ csa[w].c \in Ctx /\ csa[w].f \in Freq
        /\ Sta # None => tab.ch[Sta] \in {None, csa[w].c}
    BY <1>0, <2>1 DEF CsaFinish, IInv, SwitchIsFull, StaInv
  <2>3. CASE Move(w, csa[w].c, csa[w].f)
    BY <1>3, <2>2, <2>3
  <2>4. CASE UNCHANGED <<tab, q>>
    BY <2>4
  <2> QED  BY <2>1, <2>3, <2>4 DEF CsaFinish
<1>16. CASE BeatApply
  <2>1. PICK moved \in SUBSET (Vif \ {Sta}) :
          /\ tab.ch[Sta] = None => moved = {}
          /\ \A w \in Vif : tab'.ch[w] =
               IF tab.ch[Sta] # None /\ (w = Sta \/ w \in moved) THEN beat.c
               ELSE tab.ch[w]
          /\ \A w \in Vif : q'[w] = SetQ(moved, "go")[w]
    BY <1>16, BeatLinks
  <2>2. q'[v] = IF v \in moved /\ q[v] # "none" THEN "go" ELSE q[v]
    BY <1>q, <2>1
  <2>3. v \notin moved => tab'.ch[v] = tab.ch[v]
    <3>1. beat # None /\ Sta # None
      BY <1>16 DEF BeatApply, IInv, Works, Vif, ChanAssumption
    <3>2. tab.ch[Sta] \in {None, beat.c}
      BY <3>1 DEF StaInv
    <3> QED  BY <2>1, <3>2
  <2> QED  BY <2>2, <2>3
<1>17. CASE StartApRadar
  BY <1>0, <1>17, EnableLinks DEF StartApRadar
<1>18. CASE \/ \E c \in Ctx : FwStarts(c)
            \/ \E w \in Vif : Open(w) \/ Begin("close", w)
            \/ \E w \in Ap, f \in Freq : StartApAsk(w, f) \/ CacAsk(w, f) \/ ChannelSwitch(w, f)
            \/ FwRefuses
            \/ \E w \in Ap : Begin("stop_ap", w)
            \/ Begin("restart", None)
            \/ CancelNothing \/ CancelPending \/ CancelSticks
            \/ FwStops \/ Close
            \/ \E m \in Mon, f \in Freq : MonitorAsk(m, f)
            \/ FwSetsNone
            \/ \E m \in Mon, c \in Ctx : FwResumes(m, c)
            \/ CacFires
            \/ RadarSeen \/ RadarReports \/ RadarCancels
            \/ \E f \in Radar : RadarGone(f)
            \/ \E w \in Ap, c \in Ctx : ApCsaFinish(w, c)
            \/ BeatAsk
  <2>1. UNCHANGED <<tab, q>>
    BY <1>18 DEF FwStarts, Open, Begin, StartApAsk, CacAsk, ChannelSwitch,
       FwRefuses, CancelNothing, CancelPending, CancelSticks, FwStops, Close, MonitorAsk,
       FwSetsNone, FwResumes, CacFires, RadarSeen, RadarReports, RadarCancels, RadarGone,
       ApCsaFinish, BeatAsk
  <2> QED  BY <2>1
<1> QED  BY <1>4, <1>5, <1>6, <1>7, <1>8, <1>9, <1>10, <1>11, <1>12, <1>13, <1>14,
            <1>15, <1>16, <1>17, <1>18, <1>19, <1>20 DEF Next

\* An interface that joins or leaves does not move the firmware.
LEMMA FwStays ==
  ASSUME fw \in FwType, NEW v, NEW c, NEW f, FwLink(v, c, f) \/ FwLeave(v)
  PROVE  fw'.cur = fw.cur /\ fw'.pre = fw.pre
<1>1. fw = [ch |-> fw.ch, freq |-> fw.freq, cur |-> fw.cur, pre |-> fw.pre]
  BY DEF FwType
<1>2. \E x, y : fw' = [fw EXCEPT !.ch = x, !.freq = y]
  BY DEF FwLink, FwLeave
<1> QED  BY <1>1, <1>2

LEMMA HomeInvKept ==
  ASSUME ChanAssumption, QuietSta \/ Sta = None, IInv, HomeInv, Next
  PROVE  HomeInv'
<1>0. /\ (Sta # None => Sta \in Vif) /\ Sta \notin Ap /\ Sta \notin Mon /\ Ap \cap Mon = {}
      /\ Ap \in SUBSET Vif /\ Mon \in SUBSET Vif
      /\ None \notin Vif /\ None \notin Ap /\ None \notin Mon
      /\ up \in SUBSET Vif /\ started \in SUBSET Vif /\ again \in SUBSET Ap
      /\ op.k \in {"start_ap", "start_cac", "stop_ap"} => op.v \in Ap
      /\ op.k \in {"start_ap", "start_cac", "monitor"} => op.f \in Freq
      /\ Good(tab) /\ q \in Queues /\ fw \in FwType /\ FwGood
      /\ NoCac.vif = None /\ NoOp.k = "none" /\ NoFw.cur = None
      /\ op \in [k: {"none", "start_ap", "stop_ap", "close", "restart", "start_cac", "monitor"},
                 s: {"none", "ask", "cfm", "radar", "cancel", "cancelling", "left"},
                 v: Vif \cup {None}, f: Freq \cup {None}, c: Ctx \cup {None}]
      /\ cac \in [vif: Vif \cup {None}, work: {"idle", "pending", "sent"}]
  BY DEF IInv, Interfaces, Requests, RequestIsFull, Works, FwGood, Vif, ChanAssumption,
         NoCac, NoOp, NoFw
<1>1. ASSUME UNCHANGED <<cur, up, started, again, op, cac>>,
             fw'.cur = fw.cur, \A v \in Vif : q[v] = "none" => q'[v] = "none"
      PROVE  HomeInv'
  BY <1>0, <1>1 DEF HomeInv
<1>2. ASSUME NEW vs, NEW x, NEW v \in Vif, q[v] = "none"
      PROVE  SetQ(vs, x)[v] = "none"
  BY <1>2, SetQIs
<1>3. ASSUME NEW v \in Vif, NEW c \in Ctx, NEW moved, NEW w \in Vif, w # v, q[w] = "none"
      PROVE  NewQ(v, c, moved)[w] = "none"
  BY <1>2, <1>3, NewQIs
<1>4. ASSUME NEW v, NEW c, NEW f, FwLink(v, c, f) \/ FwLeave(v)
      PROVE  fw'.cur = fw.cur
  BY <1>0, <1>4, FwStays
<1>5. CASE PreSwitch
  BY <1>0, <1>1, <1>2, <1>5 DEF PreSwitch, FwType
<1>6. CASE \E c \in Ctx : Switch(c)
  <2>1. PICK c \in Ctx : Switch(c)
    BY <1>6
  <2>2. fw'.cur = cur'
    BY <1>0, <2>1 DEF Switch, FwType
  <2>3. \A v \in Vif : q[v] = "none" => q'[v] = "none"
    BY <1>2, <2>1 DEF Switch, StartNew
  <2>4. UNCHANGED <<up, started, again, op, cac>>
    BY <2>1 DEF Switch
  <2> QED  BY <2>2, <2>3, <2>4 DEF HomeInv
<1>7. CASE \E c \in Ctx : FwStarts(c)
  BY <1>0, <1>4, <1>7 DEF FwStarts, HomeInv
<1>8. CASE \E c \in Ctx, f \in Freq : Connect(c, f)
  <2>1. PICK c \in Ctx, f \in Freq : Connect(c, f)
    BY <1>8
  <2>2. PICK moved : q' = NewQ(Sta, c, moved)
    BY <2>1 DEF Connect
  <2>3. Sta \in up /\ started' = started \cup {Sta} /\ op.k = "none"
    BY <1>0, <2>1 DEF Connect, StaMayMove
  <2>4. \A v \in Vif : q'[v] # "none" => v \in started'
    BY <1>0, <1>3, <2>2, <2>3 DEF HomeInv
  <2>5. UNCHANGED <<cur, up, again, op, cac>> /\ fw'.cur = fw.cur
    BY <1>4, <2>1 DEF Connect
  <2> QED  BY <1>0, <2>3, <2>4, <2>5 DEF HomeInv
<1>9. CASE \E c \in Ctx, f \in Freq : StaCsaFinish(c, f)
  <2>1. PICK c \in Ctx, f \in Freq : StaCsaFinish(c, f)
    BY <1>9
  <2>2. PICK moved : q' = [v2 \in Vif |->
                             IF v2 = Sta THEN SetQ({Sta}, IF cur = c THEN "go" ELSE "stop")[Sta]
                             ELSE SetQ(moved, "go")[v2]]
    BY <2>1 DEF StaCsaFinish, Move
  <2>3. \A v \in Vif : q[v] = "none" => q'[v] = "none"
    BY <1>2, <2>2
  <2>4. UNCHANGED <<cur, up, started, again, op, cac>> /\ fw'.cur = fw.cur
    BY <1>4, <2>1 DEF StaCsaFinish
  <2> QED  BY <1>1, <2>3, <2>4
<1>10. CASE Disconnect
  <2>1. q' = [q EXCEPT ![Sta] = "none"] /\ started' = started \ {Sta}
    BY <1>10 DEF Disconnect
  <2>2. \A v \in Vif : q'[v] # "none" => v \in started'
    BY <1>0, <2>1 DEF HomeInv, Queues
  <2>3. UNCHANGED <<cur, up, again, op, cac>> /\ fw'.cur = fw.cur
    BY <1>4, <1>10 DEF Disconnect
  <2> QED  BY <2>1, <2>2, <2>3 DEF HomeInv
<1>11. CASE \E v \in Vif : Open(v)
  BY <1>11 DEF Open, Idle, HomeInv
<1>12. CASE \/ \E w \in Vif : Begin("close", w)
            \/ \E w \in Ap : Begin("stop_ap", w)
            \/ Begin("restart", None)
  BY <1>12 DEF Begin, Ask, HomeInv
<1>13. CASE \E v \in Ap, f \in Freq : StartApAsk(v, f)
  BY <1>13 DEF StartApAsk, Ask, HomeInv
<1>14. CASE \E v \in Ap, f \in Freq : CacAsk(v, f)
  BY <1>14 DEF CacAsk, Ask, Idle, HomeInv
<1>15. CASE StartAp
  <2>1. /\ op.k = "start_ap" /\ op.v \in Ap /\ op.v \in Vif /\ op.c \in Ctx
        /\ started' = started \cup {op.v}
        /\ op' = [op EXCEPT !.s = "radar"] \/ op' = NoOp
        /\ UNCHANGED <<cur, up, again, cac, fw>>
    BY <1>0, <1>15 DEF StartAp, Waits, IInv, RequestIsFull
  <2>2. PICK moved : q' = NewQ(op.v, op.c, moved)
    BY <1>15 DEF StartAp
  <2>3. \A v \in Vif : q'[v] # "none" => v \in started'
    BY <1>0, <1>3, <2>1, <2>2 DEF HomeInv
  <2>4. op'.k \in {"none", "start_ap"} /\ (op'.k = "start_ap" => op'.v = op.v)
    BY <1>0, <2>1
  <2> QED  BY <1>0, <2>1, <2>3, <2>4 DEF HomeInv
<1>16. CASE StartApRadar \/ FwRefuses \/ MonitorSet
  <2>1. CASE StartApRadar \/ FwRefuses
    BY <1>0, <2>1 DEF StartApRadar, FwRefuses, Waits, HomeInv
  <2>2. CASE MonitorSet
    <3>1. /\ op.k = "monitor" /\ op' = NoOp
          /\ UNCHANGED <<cur, up, started, again, cac, fw>>
      BY <2>2 DEF MonitorSet, Waits
    <3>2. PICK moved : q' = q \/ q' = SetQ(moved, "go")
      BY <2>2 DEF MonitorSet
    <3>3. \A v \in Vif : q[v] = "none" => q'[v] = "none"
      BY <1>2, <3>2
    <3> QED  BY <1>0, <3>1, <3>3 DEF HomeInv
  <2> QED  BY <1>16, <2>1, <2>2
<1>17. CASE CacLinks
  <2>1. \A v \in Vif : q[v] = "none" => q'[v] = "none"
    BY <1>2, <1>17 DEF CacLinks
  <2> QED  BY <1>0, <1>17, <2>1 DEF CacLinks, HomeInv
<1>18. CASE CancelNothing \/ CancelPending
  <2>1. /\ \E x : op' = [op EXCEPT !.s = x]
        /\ cac'.vif \in {cac.vif, None} /\ fw'.cur = fw.cur
        /\ UNCHANGED <<cur, up, started, again, q>>
    BY <1>0, <1>4, <1>18 DEF CancelNothing, CancelPending, CancelSkips, CancelStops
  <2> QED  BY <1>0, <2>1 DEF HomeInv
<1>19. CASE CancelEnds
  BY <1>0, <1>19 DEF CancelEnds, CancelUnlinks, HomeInv
<1>20. CASE FwStops \/ FwSetsNone \/ StopAp
  <2>1. /\ \E x : op' = [op EXCEPT !.s = x]
        /\ fw'.cur = fw.cur
        /\ UNCHANGED <<cur, up, started, again, q, cac>>
    BY <1>0, <1>4, <1>20 DEF FwStops, FwSetsNone, StopAp
  <2> QED  BY <1>0, <2>1 DEF HomeInv
<1>21. CASE StopApEnds
  <2>1. /\ op.k = "stop_ap" /\ op.v \in Vif /\ op' = NoOp
        /\ started' = started \ {op.v} /\ q' = [q EXCEPT ![op.v] = "none"]
        /\ UNCHANGED <<cur, up, again, cac, fw>>
    BY <1>0, <1>21 DEF StopApEnds, Waits
  <2>2. \A v \in Vif : q'[v] # "none" => v \in started'
    BY <1>0, <2>1 DEF HomeInv, Queues
  <2> QED  BY <1>0, <2>1, <2>2 DEF HomeInv
<1>22. CASE Close
  <2>1. /\ op.k = "close" /\ op' = NoOp /\ up' = up \ {op.v}
        /\ UNCHANGED <<cur, started, q, again, cac>> /\ fw'.cur = fw.cur
    BY <1>4, <1>22 DEF Close, Waits
  <2>2. op.v \notin started /\ again = {}
    BY <2>1 DEF HomeInv
  <2> QED  BY <1>0, <2>1, <2>2 DEF HomeInv
<1>23. CASE Restart
  <2>1. /\ op' = NoOp /\ again' = started \cap Ap /\ fw' = NoFw
        /\ UNCHANGED <<cur, started, up, cac>>
        /\ \A v \in Vif : q[v] = "none" => q'[v] = "none"
    BY <1>23 DEF Restart
  <2> QED  BY <1>0, <2>1 DEF HomeInv
<1>24. CASE \E m \in Mon, c \in Ctx, f \in Freq : MonitorGet(m, c, f)
  <2>1. PICK m \in Mon, c \in Ctx, f \in Freq : MonitorGet(m, c, f)
    BY <1>24
  <2>2. PICK moved : q' = q \/ q' = SetQ(moved, "go")
    BY <2>1 DEF MonitorGet
  <2>4. fw.freq[c] \in Freq
    BY <1>0, <2>1 DEF MonitorGet, FwUsers, FwGood, FwType
  <2>3. UNCHANGED <<cur, up, started, again, op, cac>> /\ fw'.cur = fw.cur
    BY <1>4, <2>1, <2>4 DEF MonitorGet
  <2> QED  BY <1>1, <1>2, <2>2, <2>3
<1>31. CASE \/ \E m \in Mon : MonitorLost(m)
            \/ \E m \in Mon, c \in Ctx : FwResumes(m, c)
  <2>1. UNCHANGED <<cur, up, started, again, op, cac, q>> /\ fw'.cur = fw.cur
    <3>1. CASE \E m \in Mon : MonitorLost(m)
      BY <1>4, <3>1 DEF MonitorLost
    <3>2. CASE \E m \in Mon, c \in Ctx : FwResumes(m, c)
      BY <1>4, <3>2 DEF FwResumes
    <3> QED  BY <1>31, <3>1, <3>2
  <2> QED  BY <1>1, <2>1
<1>32. CASE \E m \in Mon, f \in Freq : MonitorAsk(m, f)
  BY <1>32 DEF MonitorAsk, Ask, Idle, HomeInv
<1>33. CASE RadarReports \/ RadarCancels \/ RadarCancelEnds
  <2>1. /\ cac'.vif \in {cac.vif, None} /\ fw'.cur = fw.cur
        /\ UNCHANGED <<cur, up, started, again, q, op>>
    BY <1>0, <1>4, <1>33 DEF RadarReports, RadarCancels, RadarCancelEnds, CancelSkips,
       CancelStops, CancelUnlinks
  <2> QED  BY <1>0, <2>1 DEF HomeInv
<1>25. CASE CacFires
  <2>1. /\ cac'.vif \in {cac.vif, None} /\ fw'.cur = fw.cur
        /\ UNCHANGED <<cur, up, started, again, q, op>>
    BY <1>0, <1>4, <1>25 DEF CacFires
  <2> QED  BY <1>0, <2>1 DEF HomeInv
<1>26. CASE CacEnds
  BY <1>0, <1>26 DEF CacEnds, HomeInv
<1>27. CASE \E v \in Ap, c \in Ctx : ApCsaFinish(v, c)
  BY <1>1, <1>4, <1>27 DEF ApCsaFinish
<1>28. CASE \E v \in Ap : CsaFinish(v)
  <2>1. PICK v \in Ap : CsaFinish(v)
    BY <1>28
  <2>2. PICK moved, x :
          \/ q' = [w \in Vif |-> IF w = v THEN SetQ({v}, x)[v] ELSE SetQ(moved, "go")[w]]
          \/ q' = q
    <3>1. CASE Move(v, csa[v].c, csa[v].f)
      BY <3>1 DEF Move
    <3>2. CASE q' = q
      BY <3>2
    <3> QED  BY <2>1, <3>1, <3>2 DEF CsaFinish
  <2>3. \A w \in Vif : q[w] = "none" => q'[w] = "none"
    BY <1>0, <1>2, <2>2
  <2> QED  BY <1>1, <2>1, <2>3 DEF CsaFinish
<1>29. CASE BeatApply
  <2>1. \A v \in Vif : q[v] = "none" => q'[v] = "none"
    BY <1>2, <1>29, BeatLinks
  <2> QED  BY <1>1, <1>29, <2>1 DEF BeatApply
<1>30. CASE \/ CancelSticks \/ BeatAsk
            \/ \E v \in Ap, f \in Freq : ChannelSwitch(v, f)
            \/ \E m \in Mon : RemoveMonitor(m)
            \/ RadarSeen \/ RadarOff
            \/ \E f \in Radar : RadarGone(f)
  BY <1>1, <1>30 DEF CancelSticks, BeatAsk, ChannelSwitch, RemoveMonitor, RadarSeen,
     RadarOff, RadarGone
<1> QED  BY <1>5, <1>6, <1>7, <1>8, <1>9, <1>10, <1>11, <1>12, <1>13, <1>14, <1>15,
            <1>16, <1>17, <1>18, <1>19, <1>20, <1>21, <1>22, <1>23, <1>24, <1>25,
            <1>26, <1>27, <1>28, <1>29, <1>30, <1>31, <1>32, <1>33 DEF Next

\* An announced switch starts the queues of the new channel; everything else
\* keeps them started.
LEMMA NotLeftStoppedKept ==
  ASSUME ChanAssumption, IInv, HomeInv, StaInv, NotLeftStopped, Next
  PROVE  NotLeftStopped'
<1>0. /\ up \in SUBSET Vif /\ cur \in Ctx /\ None \notin Ctx /\ fw \in FwType /\ Good(tab)
      /\ q \in Queues
      /\ \A v \in Vif : q[v] # "none" => v \in up
  BY DEF IInv, Interfaces, FwGood, ChanAssumption, HomeInv
<1>1. CASE PreSwitch
  <2>1. fw'.pre = TRUE
    BY <1>0, <1>1 DEF PreSwitch, FwType
  <2> QED  BY <2>1 DEF NotLeftStopped
<1>2. CASE \E c \in Ctx : Switch(c)
  <2>1. PICK c \in Ctx : Switch(c)
    BY <1>2
  <2>2. cur' = c /\ up' = up /\ tab'.ch = tab.ch
    BY <1>0, <2>1, EnableLinks DEF Switch
  <2>3. \A v \in up : tab.ch[v] = c => q'[v] # "stop"
    BY <1>0, <2>1, SetQIs DEF Switch, StartNew
  <2> QED  BY <2>2, <2>3 DEF NotLeftStopped
<1>3. CASE Restart
  <2>1. fw'.cur = None /\ cur' = cur
    BY <1>3 DEF Restart, NoFw
  <2> QED  BY <1>0, <2>1 DEF NotLeftStopped
<1>4. CASE ~PreSwitch /\ (\A c \in Ctx : ~Switch(c)) /\ ~Restart
  <2>1. ASSUME NEW v, NEW c, NEW f, FwLink(v, c, f) \/ FwLeave(v)
        PROVE  fw'.cur = fw.cur /\ fw'.pre = fw.pre
    BY <1>0, <2>1, FwStays
  <2>2. cur' = cur
    BY <1>4 DEF Next, FwStarts, Connect, StaCsaFinish, Disconnect, Open,
       Begin, StartApAsk, CacAsk, ChannelSwitch, StartAp, StartApRadar, CacLinks, FwRefuses,
       CsaFinish, CancelNothing, CancelPending, CancelEnds, CancelSticks, FwStops, StopAp,
       CancelSkips, CancelStops, CancelUnlinks, StopApEnds, Close, CacFires, CacEnds,
       ApCsaFinish, BeatAsk, BeatApply, MonitorAsk, MonitorGet, FwSetsNone, MonitorSet,
       MonitorLost, RemoveMonitor, FwResumes, RadarSeen, RadarReports, RadarCancels,
       RadarCancelEnds, RadarOff, RadarGone
  <2>3. \/ fw' = fw \/ \E v, c, f : FwLink(v, c, f) \/ FwLeave(v)
    BY <1>4 DEF Next, FwStarts, Connect, StaCsaFinish, Disconnect, Open,
       Begin, StartApAsk, CacAsk, ChannelSwitch, StartAp, StartApRadar, CacLinks, FwRefuses,
       CsaFinish, CancelNothing, CancelPending, CancelEnds, CancelSticks, FwStops, StopAp,
       CancelSkips, CancelStops, CancelUnlinks, StopApEnds, Close, CacFires, CacEnds,
       ApCsaFinish, BeatAsk, BeatApply, MonitorAsk, MonitorGet, FwSetsNone, MonitorSet,
       MonitorLost, RemoveMonitor, FwResumes, RadarSeen, RadarReports, RadarCancels,
       RadarCancelEnds, RadarOff, RadarGone
  <2>4. up' \subseteq up \/ \E w \in Vif : Open(w)
    BY <1>4 DEF Next, FwStarts, Connect, StaCsaFinish, Disconnect,
       Begin, StartApAsk, CacAsk, ChannelSwitch, StartAp, StartApRadar, CacLinks, FwRefuses,
       CsaFinish, CancelNothing, CancelPending, CancelEnds, CancelSticks, FwStops, StopAp,
       CancelSkips, CancelStops, CancelUnlinks, StopApEnds, Close, CacFires, CacEnds,
       ApCsaFinish, BeatAsk, BeatApply, MonitorAsk, MonitorGet, FwSetsNone, MonitorSet,
       MonitorLost, RemoveMonitor, FwResumes, RadarSeen, RadarReports, RadarCancels,
       RadarCancelEnds, RadarOff, RadarGone
  <2>5. fw'.cur = fw.cur /\ fw'.pre = fw.pre
    BY <2>1, <2>3
  <2>6. \A v \in up' : v \in up \/ (v \in Vif /\ q'[v] = "none")
    BY <1>0, <2>4 DEF Open
  <2>7. \A v \in Vif : \/ tab'.ch[v] \in {tab.ch[v], None} /\ q'[v] \in {q[v], "none"}
                       \/ q'[v] # "stop"
                       \/ tab'.ch[v] # cur
    BY <1>4, QueuesFollow
  <2> QED  BY <1>0, <2>2, <2>5, <2>6, <2>7 DEF NotLeftStopped
<1> QED  BY <1>1, <1>2, <1>3, <1>4

\* While the firmware stays on the current channel, no interface linked to it
\* has its queues stopped, whatever happened between the answer to a request
\* and the wake-up of its caller: if the station does not move meanwhile.
THEOREM QueuesAreNotLeftStopped == ASSUME QuietSta PROVE Spec => []NotLeftStopped
<1> DEFINE Inv == HomeInv /\ StaInv /\ NotLeftStopped
<1>1. Init => Inv
  <2> SUFFICES ASSUME Init  PROVE Inv
    OBVIOUS
  <2>0. /\ (Sta # None => Sta \in Vif) /\ None \notin Ctx
    BY ChanAssumption DEF ChanAssumption, Vif
  <2>1. HomeInv
    BY DEF Init, HomeInv, NoCac, NoOp, NoFw
  <2>2. StaInv
    BY <2>0 DEF Init, StaInv, NoFw, NoOp, NoCsa
  <2>3. NotLeftStopped
    BY DEF Init, NotLeftStopped
  <2> QED  BY <2>1, <2>2, <2>3
<1>2. IInv /\ Inv /\ [Next]_vars => Inv'
  <2>1. ASSUME UNCHANGED vars, Inv PROVE Inv'
    BY <2>1 DEF vars, HomeInv, StaInv, NotLeftStopped
  <2> QED  BY <2>1, ChanAssumption, HomeInvKept, StaInvKept, NotLeftStoppedKept
<1>3. Inv => NotLeftStopped
  OBVIOUS
<1> HIDE DEF Inv
<1> QED  BY <1>1, <1>2, <1>3, Inductive, PTL DEF Spec

----------------------------------------------------------------------------
(* A radar on the current channel is noticed, where there is no station.    *)

\* Between the two critical sections of the start of an AP.
Half == op.k = "start_ap" /\ op.s = "radar"

Watched(w) ==
  tab.ch[w] = cur /\ tab.chan[cur] \in Radar => tab.detect \/ tab.chan[cur] \in nop

WatchInv == ~Half => \A w \in started \cap Ap : Watched(w)

\* Detection is about to end for a channel that user space was told of.
ToldInv == dfs.s = "off" /\ dfs.f \in Radar => dfs.f \in nop

\* Without a station a link concerns one interface and one context.
LEMMA LinkAlone ==
  ASSUME ChanAssumption, Sta = None, NEW t, Good(t), NEW stray \in Strays,
         NEW v \in Vif, NEW c \in Ctx, NEW f \in Freq
  PROVE  LET l == Link(t, v, c, f, stray) IN
         /\ \A w \in Vif : l.ch[w] = IF w = v THEN c ELSE t.ch[w]
         /\ \A d \in Ctx : l.chan[d] = IF d = c THEN f ELSE t.chan[d]
         /\ l.detect = t.detect
<1> DEFINE u == Linked(t, v, c, f)
<1>1. Link(t, v, c, f, stray) = Gather(u, {})
  BY DEF Link, LinkMoves, Moved
<1>2. /\ u.ch = [t.ch EXCEPT ![v] = c] /\ u.chan = [t.chan EXCEPT ![c] = f]
      /\ u.detect = t.detect
  BY DEF Linked
<1>3. /\ t.ch \in [Vif -> Ctx \cup {None}] /\ t.chan \in [Ctx -> Freq \cup {None}]
      /\ t.detect \in BOOLEAN
  BY DEF Good, Table
<1> HIDE DEF u
<1>4. \A d : ~Emptied(u, {}, d)
  <2>1. \A d : Leave(u, {}, d) = 0
    <3>1. \A d : {w \in {} : u.ch[w] = d} = {}
      OBVIOUS
    <3> QED  BY <3>1, FS_EmptySet DEF Leave
  <2> QED  BY <2>1 DEF Emptied
<1>5. /\ \A w \in Vif : Gather(u, {}).ch[w] = u.ch[w]
      /\ \A d \in Ctx : Gather(u, {}).chan[d] = u.chan[d]
      /\ Gather(u, {}).detect = u.detect
  BY <1>2, <1>3, <1>4 DEF Gather
<1> QED  BY <1>1, <1>2, <1>3, <1>5

\* An unlink leaves the context of another interface as it was.
LEMMA UnlinkSpares ==
  ASSUME ChanAssumption, NEW t, Good(t), NEW v \in Vif, NEW w \in Vif, w # v, t.ch[w] # None
  PROVE  /\ Unlink(t, v).ch[w] = t.ch[w]
         /\ Unlink(t, v).chan[t.ch[w]] = t.chan[t.ch[w]]
         /\ t.ch[w] = cur => Unlink(t, v).detect = t.detect
<1>1. CASE t.ch[v] = None
  BY <1>1 DEF Unlink
<1>2. CASE t.ch[v] # None
  <2> DEFINE c == t.ch[v]
             left == IF t.count[c] = 0 THEN 0 ELSE t.count[c] - 1
             u == Unlink(t, v)
  <2>1. /\ t.ch \in [Vif -> Ctx \cup {None}] /\ t.count \in [Ctx -> Nat]
        /\ t.chan \in [Ctx -> Freq \cup {None}] /\ t.detect \in BOOLEAN
        /\ c \in Ctx /\ t.count[c] >= Cardinality(On(t, c))
    BY <1>2 DEF Good, Table, Covers
  <2>2. /\ u.ch = [t.ch EXCEPT ![v] = None]
        /\ u.chan = IF left = 0 THEN [t.chan EXCEPT ![c] = None] ELSE t.chan
        /\ u.detect = (t.detect /\ ~(left = 0 /\ c = cur))
    BY <1>2 DEF Unlink
  <2>3. t.ch[w] = c => left # 0
    <3> SUFFICES ASSUME t.ch[w] = c  PROVE left # 0
      OBVIOUS
    <3>1. v \in On(t, c) /\ w \in On(t, c) \ {v} /\ IsFiniteSet(On(t, c))
      BY VifSets DEF On
    <3>2. Cardinality(On(t, c) \ {v}) = Cardinality(On(t, c)) - 1
      BY <3>1, TakeOne
    <3>3. Cardinality(On(t, c) \ {v}) # 0 /\ Cardinality(On(t, c) \ {v}) \in Nat
      BY <3>1, VifSets, FS_EmptySet DEF On
    <3>4. Cardinality(On(t, c)) \in Nat
      BY VifSets DEF On
    <3> QED  BY <2>1, <3>2, <3>3, <3>4
  <2> HIDE DEF left
  <2> QED  BY <2>1, <2>2, <2>3
<1> QED  BY <1>1, <1>2

\* The end of a switch: the interface is on its new context, the detection is
\* set if that is the current one, and the contexts of others stay.
LEMMA MoveAlone ==
  ASSUME ChanAssumption, Sta = None, Good(tab), cur \in Ctx,
         NEW v \in Vif, NEW c \in Ctx, NEW f \in Freq, Move(v, c, f)
  PROVE  /\ tab'.ch[v] = c /\ tab'.chan[c] = f
         /\ c = cur => tab'.detect = (f \in Radar)
         /\ \A w \in Vif : w # v /\ tab.ch[w] # None =>
              /\ tab'.ch[w] = tab.ch[w]
              /\ tab.ch[w] # c => tab'.chan[tab.ch[w]] = tab.chan[tab.ch[w]]
              /\ c # cur /\ tab.ch[w] = cur => tab'.detect = tab.detect
         /\ \A w \in Vif : w # v /\ tab.ch[w] = None => tab'.ch[w] = None
<1> DEFINE u == Unlink(tab, v)
<1>1. PICK stray \in Strays :
        tab' = IF cur = c THEN EnableOn(Link(u, v, c, f, stray), cur)
               ELSE Link(u, v, c, f, stray)
  BY DEF Move
<1> DEFINE l == Link(u, v, c, f, stray)
<1>2. Good(u)
  BY UnlinkKeeps
<1>3. /\ Good(l)
      /\ \A w \in Vif : l.ch[w] = IF w = v THEN c ELSE u.ch[w]
      /\ \A d \in Ctx : l.chan[d] = IF d = c THEN f ELSE u.chan[d]
      /\ l.detect = u.detect
  <2> HIDE DEF u
  <2> QED  BY <1>2, LinkKeeps, LinkAlone
<1>4. \A w \in Vif : w # v /\ tab.ch[w] # None =>
        /\ u.ch[w] = tab.ch[w] /\ tab.ch[w] \in Ctx
        /\ u.chan[tab.ch[w]] = tab.chan[tab.ch[w]]
        /\ tab.ch[w] = cur => u.detect = tab.detect
  BY UnlinkSpares DEF Good, Table
<1>6. \A w \in Vif : u.ch[w] = IF w = v THEN None ELSE tab.ch[w]
  BY UnlinkLinks
<1> HIDE DEF u, l
<1>5. /\ tab'.ch = l.ch /\ tab'.chan = l.chan
      /\ c # cur => tab'.detect = l.detect
      /\ c = cur => tab'.detect = (f \in Radar)
  <2>1. CASE c # cur
    BY <1>1, <2>1 DEF l
  <2>2. CASE c = cur
    <3>1. l.chan[cur] = f /\ f # None
      BY <1>3, <2>2 DEF ChanAssumption
    <3>2. tab' = [l EXCEPT !.detect = l.chan[cur] \in Radar]
      BY <1>1, <2>2, <3>1 DEF EnableOn, l
    <3> DEFINE b == l.chan[cur] \in Radar
    <3>3. tab' = [l EXCEPT !.detect = b]
      BY <3>2
    <3>4. b = (f \in Radar)
      BY <3>1
    <3> HIDE DEF b
    <3> QED  BY <1>3, <2>2, <3>3, <3>4 DEF Good, Table
  <2> QED  BY <2>1, <2>2
<1> QED  BY <1>3, <1>4, <1>5, <1>6

\* Detection is set by the channel of the context.
LEMMA SetsDetection ==
  ASSUME ChanAssumption, NEW t, Good(t), NEW k \in Ctx
  PROVE  EnableOn(t, k).chan[k] \in Radar => EnableOn(t, k).detect
<1> DEFINE b == t.chan[k] \in Radar
<1>1. CASE t.chan[k] = None
  BY <1>1 DEF EnableOn, ChanAssumption
<1>2. CASE t.chan[k] # None
  <2>1. EnableOn(t, k) = [t EXCEPT !.detect = b]
    BY <1>2 DEF EnableOn
  <2> HIDE DEF b
  <2>2. EnableOn(t, k).chan = t.chan /\ EnableOn(t, k).detect = b
    BY <2>1 DEF Good, Table
  <2> QED  BY <2>2 DEF b
<1> QED  BY <1>1, <1>2

\* What follows the first half.
LEMMA HalfSteps ==
  ASSUME Next, Half
  PROVE  op' = op \/ StartApRadar
BY DEF Half, Next, PreSwitch, Switch, FwStarts, Connect, StaCsaFinish, Disconnect, Open,
   Begin, Ask, Idle, Waits, StartApAsk, CacAsk, ChannelSwitch, StartAp, CacLinks, FwRefuses,
   CsaFinish, CancelNothing, CancelPending, CancelEnds, CancelSticks, FwStops, StopAp,
   StopApEnds, Close, Restart, CacFires, CacEnds, ApCsaFinish, BeatAsk, BeatApply,
   MonitorAsk, MonitorGet, FwSetsNone, MonitorSet, MonitorLost, RemoveMonitor, FwResumes,
   RadarSeen, RadarReports, RadarCancels, RadarCancelEnds, RadarOff, RadarGone

LEMMA ToldInvKept ==
  ASSUME ChanAssumption, IInv, ToldInv, Next
  PROVE  ToldInv'
<1>0. /\ dfs \in [s: {"idle", "seen", "cancelling", "off"}, f: Freq \cup {None}]
      /\ None \notin Radar /\ NoDfs.s = "idle"
  BY DEF IInv, Works, ChanAssumption, NoDfs
<1>1. CASE UNCHANGED <<dfs, nop>>
  BY <1>1 DEF ToldInv
<1>2. CASE RadarSeen \/ RadarCancels
  BY <1>0, <1>2 DEF RadarSeen, RadarCancels, ToldInv
<1>3. CASE RadarReports
  <2>1. dfs'.f = tab.chan[cur]
    BY <1>3 DEF RadarReports
  <2>2. CASE tab.chan[cur] = None
    BY <1>0, <2>1, <2>2 DEF ToldInv
  <2>3. CASE tab.chan[cur] # None
    <3>1. nop' = nop \cup (Radar \cap {tab.chan[cur]})
      BY <1>3, <2>3 DEF RadarReports, Tell
    <3> QED  BY <2>1, <3>1 DEF ToldInv
  <2> QED  BY <2>2, <2>3
<1>4. CASE RadarCancelEnds
  <2>1. dfs'.f = dfs.f /\ nop' = nop \cup (Radar \cap {dfs.f})
    BY <1>0, <1>4 DEF RadarCancelEnds, Tell
  <2> QED  BY <2>1 DEF ToldInv
<1>5. CASE RadarOff \/ \E f \in Radar : RadarGone(f)
  <2>1. dfs'.s = "idle"
    BY <1>0, <1>5 DEF RadarOff, RadarGone
  <2> QED  BY <2>1 DEF ToldInv
<1>6. CASE \/ PreSwitch \/ Disconnect \/ CancelSticks \/ CacFires \/ CacEnds
           \/ BeatAsk \/ BeatApply
           \/ \E c \in Ctx : Switch(c) \/ FwStarts(c)
           \/ \E c \in Ctx, f \in Freq : Connect(c, f) \/ StaCsaFinish(c, f)
           \/ \E v \in Vif : Open(v) \/ Begin("close", v)
           \/ \E v \in Ap, f \in Freq : StartApAsk(v, f) \/ CacAsk(v, f) \/ ChannelSwitch(v, f)
           \/ \E v \in Ap : Begin("stop_ap", v) \/ CsaFinish(v)
           \/ Begin("restart", None)
  <2>1. UNCHANGED <<dfs, nop>>
    BY <1>6 DEF PreSwitch, Disconnect, CancelSticks, CacFires, CacEnds, BeatAsk, BeatApply,
       Switch, FwStarts, Connect, StaCsaFinish, Open, Begin, StartApAsk, CacAsk,
       ChannelSwitch, CsaFinish
  <2> QED  BY <1>1, <2>1
<1>7. CASE \/ StartAp \/ StartApRadar \/ CacLinks \/ FwRefuses
           \/ CancelNothing \/ CancelPending \/ CancelEnds
           \/ FwStops \/ StopAp \/ StopApEnds \/ Close \/ Restart
           \/ FwSetsNone \/ MonitorSet
           \/ \E m \in Mon, f \in Freq : MonitorAsk(m, f)
           \/ \E m \in Mon, c \in Ctx, f \in Freq : MonitorGet(m, c, f)
           \/ \E m \in Mon : MonitorLost(m) \/ RemoveMonitor(m)
           \/ \E m \in Mon, c \in Ctx : FwResumes(m, c)
           \/ \E v \in Ap, c \in Ctx : ApCsaFinish(v, c)
  <2>1. UNCHANGED <<dfs, nop>>
    BY <1>7 DEF StartAp, StartApRadar, CacLinks, FwRefuses, CancelNothing, CancelPending,
       CancelEnds, FwStops, StopAp, StopApEnds, Close, Restart, FwSetsNone, MonitorSet,
       MonitorAsk, MonitorGet, MonitorLost, RemoveMonitor, FwResumes, ApCsaFinish
  <2> QED  BY <1>1, <2>1
<1> QED  BY <1>2, <1>3, <1>4, <1>5, <1>6, <1>7 DEF Next

LEMMA WatchInvKept ==
  ASSUME ChanAssumption, Sta = None, QuickOff, IInv, HomeInv, ToldInv, WatchInv, Next
  PROVE  WatchInv'
<1>0. /\ Ap \in SUBSET Vif /\ Mon \in SUBSET Vif /\ Ap \cap Mon = {}
      /\ None \notin Vif /\ None \notin Ctx /\ None \notin Radar
      /\ Good(tab) /\ cur \in Ctx /\ up \in SUBSET Vif /\ Sta \notin up
      /\ tab.ch \in [Vif -> Ctx \cup {None}] /\ tab.chan \in [Ctx -> Freq \cup {None}]
      /\ started \subseteq up /\ started \cap Mon = {}
  BY DEF IInv, Interfaces, Good, Table, Vif, ChanAssumption, HomeInv
\* The second half.
<1>1. CASE Half
  <2>1. CASE op' = op
    BY <1>1, <2>1 DEF WatchInv, Half
  <2>2. CASE StartApRadar
    <3>1. tab' = EnableOn(tab, cur) /\ cur' = cur
      BY <2>2 DEF StartApRadar
    <3>2. tab'.chan[cur] \in Radar => tab'.detect
      BY <1>0, <3>1, SetsDetection
    <3> QED  BY <3>1, <3>2 DEF WatchInv, Watched
  <2> QED  BY <1>1, <2>1, <2>2, HalfSteps
<1> SUFFICES ASSUME ~Half, NEW w \in Ap, w \in started', ~Half'  PROVE Watched(w)'
  BY <1>1 DEF WatchInv
\* What leaves the current channel and its detection as they are.
<1>2. ASSUME w \in started, cur' = cur, nop \subseteq nop',
             tab'.ch[w] = cur => /\ tab.ch[w] = cur /\ tab'.chan[cur] = tab.chan[cur]
                                /\ tab'.detect = tab.detect
      PROVE  Watched(w)'
  <2>1. Watched(w)
    BY <1>2 DEF WatchInv
  <2> QED  BY <1>2, <2>1 DEF Watched
<1>3. CASE StartAp
  <2>1. /\ op.v \in Ap /\ op.v \in Vif /\ op.c \in Ctx /\ op.f \in Freq
        /\ op.k = "start_ap" /\ cur' = cur /\ nop' = nop
        /\ started' = started \cup {op.v}
    BY <1>0, <1>3 DEF StartAp, Waits, IInv, RequestIsFull
  <2>2. PICK stray \in Strays : tab' = Link(tab, op.v, op.c, op.f, stray)
    BY <1>3 DEF StartAp
  <2>3. cur # op.c
    <3>1. cur = op.c => op'.k = "start_ap" /\ op'.s = "radar"
      BY <1>3, <2>1 DEF StartAp, IInv, Requests
    <3> QED  BY <3>1 DEF Half
  <2>4. /\ tab'.ch[w] = IF w = op.v THEN op.c ELSE tab.ch[w]
        /\ tab'.chan[cur] = tab.chan[cur] /\ tab'.detect = tab.detect
    BY <1>0, <2>1, <2>2, <2>3, LinkAlone
  <2>5. CASE w = op.v
    BY <2>1, <2>3, <2>4, <2>5 DEF Watched
  <2>6. CASE w # op.v
    BY <1>2, <2>1, <2>4, <2>6
  <2> QED  BY <2>5, <2>6
<1>4. CASE CacLinks
  <2>1. /\ op.v \in Vif /\ op.c \in Ctx /\ op.f \in Freq
        /\ cur' = cur /\ nop' = nop /\ started' = started
    BY <1>0, <1>4 DEF CacLinks, Waits, IInv, RequestIsFull
  <2>2. PICK stray \in Strays :
          LET t == Link(tab, op.v, op.c, op.f, stray)
          IN  tab' = IF cur = t.ch[op.v] THEN [t EXCEPT !.detect = TRUE] ELSE t
    BY <1>4 DEF CacLinks
  <2> DEFINE t == Link(tab, op.v, op.c, op.f, stray)
  <2>3. /\ \A x \in Vif : t.ch[x] = IF x = op.v THEN op.c ELSE tab.ch[x]
        /\ \A d \in Ctx : t.chan[d] = IF d = op.c THEN op.f ELSE tab.chan[d]
        /\ t.detect = tab.detect
    BY <1>0, <2>1, LinkAlone
  <2>4. Good(t)
    BY <1>0, <2>1, LinkKeeps
  <2>5. tab' = IF cur = t.ch[op.v] THEN [t EXCEPT !.detect = TRUE] ELSE t
    BY <2>2
  <2> HIDE DEF t
  <2>6. CASE cur = op.c
    <3>1. tab'.detect = TRUE
      BY <2>1, <2>3, <2>4, <2>5, <2>6 DEF Good, Table
    <3> QED  BY <3>1 DEF Watched
  <2>7. CASE cur # op.c
    <3>1. tab' = t
      BY <2>1, <2>3, <2>5, <2>7
    <3>2. /\ tab'.ch[w] = cur => tab.ch[w] = cur
          /\ tab'.chan[cur] = tab.chan[cur] /\ tab'.detect = tab.detect
      BY <1>0, <2>3, <2>7, <3>1
    <3> QED  BY <1>2, <2>1, <3>2
  <2> QED  BY <2>6, <2>7
<1>5. CASE \E v \in Ap : CsaFinish(v)
  <2>1. PICK v \in Ap : CsaFinish(v)
    BY <1>5
  <2>2. /\ v \in Vif /\ csa[v].c \in Ctx /\ csa[v].f \in Freq
        /\ cur' = cur /\ nop' = nop /\ started' = started
    BY <1>0, <2>1 DEF CsaFinish, IInv, SwitchIsFull
  <2>3. CASE Move(v, csa[v].c, csa[v].f)
    <3> DEFINE c == csa[v].c
               f == csa[v].f
    <3>1. /\ tab'.ch[v] = c /\ tab'.chan[c] = f
          /\ c = cur => tab'.detect = (f \in Radar)
          /\ w # v /\ tab.ch[w] # None =>
               /\ tab'.ch[w] = tab.ch[w]
               /\ tab.ch[w] # c => tab'.chan[tab.ch[w]] = tab.chan[tab.ch[w]]
               /\ c # cur /\ tab.ch[w] = cur => tab'.detect = tab.detect
          /\ w # v /\ tab.ch[w] = None => tab'.ch[w] = None
      BY <1>0, <2>2, <2>3, MoveAlone
    <3>2. c \in Ctx
      BY <2>2
    <3> HIDE DEF c, f
    <3>3. CASE c = cur
      BY <2>2, <3>1, <3>3 DEF Watched
    <3>4. CASE c # cur /\ w = v
      BY <2>2, <3>1, <3>4 DEF Watched
    <3>5. CASE c # cur /\ w # v
      BY <1>0, <1>2, <2>2, <3>1, <3>5
    <3> QED  BY <3>3, <3>4, <3>5
  <2>4. CASE tab' = tab
    BY <1>2, <2>2, <2>4
  <2> QED  BY <2>1, <2>3, <2>4 DEF CsaFinish
\* A monitor's channel is set when no AP is started.
<1>6. CASE MonitorSet
  BY <1>0, <1>6 DEF MonitorSet, Waits, HomeInv
<1>7. CASE \E m \in Mon, c \in Ctx, f \in Freq : MonitorGet(m, c, f)
  <2>1. PICK m \in Mon, c \in Ctx, f \in Freq : MonitorGet(m, c, f)
    BY <1>7
  <2>2. /\ m \in Vif /\ cur' = cur /\ nop' = nop /\ started' = started
        /\ (tab.chan[c] = None /\ f \notin Radar) \/ f = tab.chan[c]
    BY <1>0, <2>1 DEF MonitorGet
  <2>3. up # {m}
    BY <1>0, <2>2
  <2> DEFINE t == [tab EXCEPT !.chan = [@ EXCEPT ![c] = f]]
  <2>4. PICK stray \in Strays : tab' = Link(t, m, c, f, stray)
    BY <2>1, <2>3 DEF MonitorGet
  <2>5. /\ Good(t) /\ t.ch = tab.ch
        /\ \A d \in Ctx : t.chan[d] = IF d = c THEN f ELSE tab.chan[d]
        /\ t.detect = tab.detect
    BY <1>0, ChanKeeps
  <2> HIDE DEF t
  <2>6. /\ \A x \in Vif : tab'.ch[x] = IF x = m THEN c ELSE t.ch[x]
        /\ \A d \in Ctx : tab'.chan[d] = IF d = c THEN f ELSE t.chan[d]
        /\ tab'.detect = t.detect
    BY <2>2, <2>4, <2>5, LinkAlone
  <2>7. tab'.ch[w] = tab.ch[w] /\ tab'.detect = tab.detect
    BY <1>0, <2>5, <2>6
  <2>8. tab'.chan[cur] = tab.chan[cur] \/ tab'.chan[cur] \notin Radar
    BY <1>0, <2>2, <2>5, <2>6
  <2>9. CASE tab'.chan[cur] = tab.chan[cur]
    BY <1>2, <2>2, <2>7, <2>9
  <2>10. CASE tab'.chan[cur] \notin Radar
    BY <2>2, <2>10 DEF Watched
  <2> QED  BY <2>8, <2>9, <2>10
<1>8. ASSUME NEW v \in Vif, tab' = Unlink(tab, v), cur' = cur, nop \subseteq nop',
             started' = started
      PROVE  Watched(w)'
  <2>1. CASE w = v
    <3>1. tab'.ch[w] = None
      BY <1>0, <1>8, <2>1, UnlinkLinks
    <3> QED  BY <1>0, <1>8, <3>1 DEF Watched
  <2>2. CASE w # v /\ tab.ch[w] = None
    <3>1. tab'.ch[w] = None
      BY <1>0, <1>8, <2>2, UnlinkLinks
    <3> QED  BY <1>0, <1>8, <3>1 DEF Watched
  <2>3. CASE w # v /\ tab.ch[w] # None
    <3>1. /\ tab'.ch[w] = tab.ch[w]
          /\ tab'.chan[tab.ch[w]] = tab.chan[tab.ch[w]]
          /\ tab.ch[w] = cur => tab'.detect = tab.detect
      BY <1>0, <1>8, <2>3, UnlinkSpares
    <3> QED  BY <1>2, <1>8, <3>1
  <2> QED  BY <2>1, <2>2, <2>3
<1>9. CASE StopAp \/ CancelEnds \/ CacEnds \/ RadarCancelEnds
  <2>1. CASE StopAp
    BY <1>0, <1>8, <2>1 DEF StopAp, Waits, IInv, RequestIsFull
  <2>2. CASE CancelEnds \/ CacEnds
    BY <1>0, <1>8, <2>2 DEF CancelEnds, CacEnds, CancelUnlinks, HomeInv
  <2>3. CASE RadarCancelEnds
    BY <1>0, <1>8, <2>3 DEF RadarCancelEnds, CancelUnlinks, Tell, HomeInv
  <2> QED  BY <1>9, <2>1, <2>2, <2>3
<1>10. CASE \E m \in Mon : MonitorLost(m) \/ RemoveMonitor(m)
  BY <1>0, <1>8, <1>10 DEF MonitorLost, RemoveMonitor
<1>11. CASE Restart
  <2>1. tab'.ch[w] = None /\ cur' = cur
    BY <1>0, <1>11 DEF Restart, UnlinkAll
  <2> QED  BY <1>0, <2>1 DEF Watched
<1>12. CASE \E c \in Ctx : Switch(c)
  <2>1. PICK c \in Ctx : tab' = EnableOn(tab, c) /\ cur' = c
    BY <1>12 DEF Switch
  <2>2. tab'.chan[c] \in Radar => tab'.detect
    BY <1>0, <2>1, SetsDetection
  <2> QED  BY <2>1, <2>2 DEF Watched
\* The turning off finds the channel it is for, or one without radars.
<1>13. CASE RadarOff
  <2>1. /\ tab'.ch = tab.ch /\ tab'.chan = tab.chan /\ cur' = cur /\ nop' = nop
        /\ dfs.s = "off"
        /\ tab.chan[cur] \notin Radar \/ tab.chan[cur] = dfs.f
    BY <1>0, <1>13 DEF RadarOff, Good, Table
  <2> QED  BY <2>1 DEF Watched, ToldInv
<1>14. CASE \E f \in Radar : RadarGone(f)
  <2>1. PICK f \in Radar : RadarGone(f)
    BY <1>14
  <2>2. /\ tab' = tab /\ cur' = cur /\ nop' = nop \ {f} /\ w \in started
        /\ tab.ch[w] # None => tab.chan[tab.ch[w]] # f
    BY <2>1 DEF RadarGone
  <2>3. Watched(w)
    BY <2>2 DEF WatchInv
  <2> QED  BY <1>0, <2>2, <2>3 DEF Watched
<1>15. CASE RadarReports
  BY <1>2, <1>15 DEF RadarReports, Tell
<1>16. CASE \/ \E c \in Ctx, f \in Freq : Connect(c, f) \/ StaCsaFinish(c, f)
            \/ Disconnect \/ BeatAsk \/ BeatApply
  BY <1>0, <1>16 DEF Connect, StaCsaFinish, Disconnect, BeatAsk, BeatApply, IInv, Works
<1>17. CASE \/ PreSwitch \/ StartApRadar
            \/ \E c \in Ctx : FwStarts(c)
            \/ \E v \in Vif : Open(v) \/ Begin("close", v)
            \/ \E v \in Ap, f \in Freq : StartApAsk(v, f) \/ CacAsk(v, f) \/ ChannelSwitch(v, f)
            \/ FwRefuses
            \/ \E v \in Ap : Begin("stop_ap", v)
            \/ Begin("restart", None)
            \/ CancelNothing \/ CancelPending \/ CancelSticks
            \/ FwStops \/ StopApEnds \/ Close
            \/ \E m \in Mon, f \in Freq : MonitorAsk(m, f)
            \/ FwSetsNone
            \/ \E m \in Mon, c \in Ctx : FwResumes(m, c)
            \/ CacFires \/ RadarSeen \/ RadarCancels
            \/ \E v \in Ap, c \in Ctx : ApCsaFinish(v, c)
  <2>1. ~StartApRadar
    BY DEF StartApRadar, Waits, Half
  <2>2. UNCHANGED <<tab, cur, nop>> /\ started' \subseteq started
    BY <1>17, <2>1 DEF PreSwitch, FwStarts, Open, Begin, StartApAsk, CacAsk, ChannelSwitch,
       FwRefuses, CancelNothing, CancelPending, CancelSticks, FwStops, StopApEnds, Close,
       MonitorAsk, FwSetsNone, FwResumes, CacFires, RadarSeen, RadarCancels, ApCsaFinish
  <2> QED  BY <1>2, <2>2
<1> QED  BY <1>3, <1>4, <1>5, <1>6, <1>7, <1>9, <1>10, <1>11, <1>12, <1>13, <1>14, <1>15,
            <1>16, <1>17 DEF Next

\* While an AP is on a radar channel that is the current one, a radar is
\* noticed: detection is on, or one was found there and user space was told.
\* There is no station, and detection is turned off before another radar
\* channel becomes current.
THEOREM RadarAlwaysWatched ==
  ASSUME Sta = None, QuickOff PROVE Spec => []RadarIsWatched
<1> DEFINE Inv == HomeInv /\ ToldInv /\ WatchInv
<1>1. Init => Inv
  <2> SUFFICES ASSUME Init  PROVE Inv
    OBVIOUS
  <2>1. HomeInv
    BY DEF Init, HomeInv, NoCac, NoOp, NoFw
  <2>2. ToldInv
    BY DEF Init, ToldInv, NoDfs
  <2>3. WatchInv
    BY DEF Init, WatchInv
  <2> QED  BY <2>1, <2>2, <2>3
<1>2. IInv /\ Inv /\ [Next]_vars => Inv'
  <2>1. ASSUME UNCHANGED vars, Inv PROVE Inv'
    BY <2>1 DEF vars, HomeInv, ToldInv, WatchInv, Watched, Half
  <2> QED  BY <2>1, ChanAssumption, HomeInvKept, ToldInvKept, WatchInvKept
<1>3. IInv /\ Inv => RadarIsWatched
  <2> SUFFICES ASSUME IInv, WatchInv, op.v = None  PROVE RadarIsWatched
    BY DEF RadarIsWatched
  <2>1. ~Half
    BY ChanAssumption DEF Half, IInv, RequestIsFull, ChanAssumption
  <2> QED  BY <2>1 DEF WatchInv, Watched, RadarIsWatched
<1> HIDE DEF Inv
<1> QED  BY <1>1, <1>2, <1>3, Inductive, PTL DEF Spec
=============================================================================
