--------------------------- MODULE RxPoolProofs ---------------------------
(* Proofs about RxPool, for pools of every size.                            *)
(*                                                                          *)
(* The inductive invariant says where the buffer of every chunk is.  A      *)
(* chunk of the free list has a marked buffer of the pool.  A free that     *)
(* runs without the lock keeps its chunk on the used list; no two frees     *)
(* have the same chunk, because both would come from the mark of the        *)
(* buffer the chunk has.  With the chunks in their places the counters      *)
(* follow, one step of a list at a time.                                    *)
EXTENDS RxPool, FiniteSetTheorems, TLAPS

\* Chunks and buffers point to each other.
Links ==
  /\ \A c \in Chunk : list[c] = "none" <=> skb[c] = None
  /\ \A c, d \in Chunk : c # d /\ skb[c] = skb[d] => skb[c] = None
  /\ \A b \in Skb : mark[b] # None => skb[mark[b]] = b
  /\ \A c \in Chunk : skb[c] # None =>
       \/ mark[skb[c]] = c
       \/ pc[skb[c]] = "starved" /\ chunck[skb[c]] = c

\* Who has a buffer decides what is known of it.
Holders ==
  /\ \A c \in Chunk : skb[c] # None => hold[skb[c]] # "kernel"
  /\ \A c \in Chunk : list[c] = "free" => hold[skb[c]] = "pool"
  /\ \A b \in Skb : hold[b] = "pool" => \E c \in Chunk : skb[c] = b
  /\ \A b \in Skb : hold[b] = "kernel" => mark[b] = None
  /\ \A b \in Skb : hold[b] = "out" /\ mark[b] # None => list[mark[b]] = "used"

\* What a free under way knows.
Frees ==
  /\ \A b \in Skb : pc[b] = "idle" <=> chunck[b] = None
  /\ \A b, d \in Skb : b # d /\ chunck[b] = chunck[d] => chunck[b] = None
  /\ \A b \in Skb : pc[b] # "idle" =>
       /\ hold[b] = "out"
       /\ list[chunck[b]] = "used"
  /\ \A b \in Skb : pc[b] \in {"marked", "restored", "starved"} =>
       skb[chunck[b]] = b
  /\ \A b \in Skb : pc[b] \in {"marked", "restored"} => mark[b] = chunck[b]
  /\ \A b \in Skb : pc[b] \in {"replaced", "starved"} => mark[b] = None
  /\ \A b \in Skb : pc[b] = "replaced" =>
       hold[skb[chunck[b]]] = "pool"
  /\ \A c \in Chunk : list[c] = "used" =>
       \/ hold[skb[c]] = "out"
       \/ \E b \in Skb : pc[b] = "replaced" /\ chunck[b] = c

Phases ==
  /\ phase # "on" => \A c \in Chunk : list[c] # "used"
  /\ phase = "off" => \A c \in Chunk : list[c] # "free"

Places == TypeOK /\ Links /\ Holders /\ Frees /\ Phases

IInv == Places /\ CountsCoverLists

----------------------------------------------------------------------------
(* The places.                                                              *)

LEMMA InitPlaces == ASSUME PoolAssumption, Init PROVE Places
<1> USE DEF PoolAssumption, Init
<1>1. TypeOK  BY DEF TypeOK, Count, NoCount
<1>2. Links  BY DEF Links
<1>3. Holders  BY DEF Holders
<1>4. Frees  BY DEF Frees
<1>5. Phases  BY DEF Phases
<1> QED  BY <1>1, <1>2, <1>3, <1>4, <1>5 DEF Places

\* The lists are finite sets, so their lengths are numbers.
LEMMA ListsAreFinite ==
  ASSUME PoolAssumption, NEW l
  PROVE  IsFiniteSet(On(l)) /\ Cardinality(On(l)) \in Nat
<1>1. On(l) \subseteq Chunk  BY DEF On
<1> QED  BY <1>1, FS_Subset, FS_CardinalityType DEF PoolAssumption

LEMMA InitAddPlaces == ASSUME PoolAssumption, Places, InitAdd PROVE Places'
<1> USE DEF PoolAssumption, Places
<1>1. PICK c \in Chunk, b \in Skb :
        /\ list[c] = "none" /\ hold[b] = "kernel"
        /\ list' = [list EXCEPT ![c] = "free"]
        /\ skb' = [skb EXCEPT ![c] = b]
        /\ mark' = [mark EXCEPT ![b] = c]
        /\ hold' = [hold EXCEPT ![b] = "pool"]
  BY DEF InitAdd, On, InKernel
<1> USE <1>1 DEF InitAdd
<1>2. TypeOK'
  <2>1. cnt.free \in Int /\ cnt.used \in Int /\ cnt.chunks \in Int
    BY DEF TypeOK, Count
  <2>2. cnt' = [free |-> cnt.free + 1, used |-> cnt.used, chunks |-> cnt.chunks + 1]
    BY DEF TypeOK, Count
  <2>3. cnt' \in Count  BY <2>1, <2>2 DEF Count
  <2> QED  BY <2>3 DEF TypeOK
<1>3. Links'  BY DEF TypeOK, Links, Holders, Frees
<1>4. Holders'  BY DEF TypeOK, Links, Holders
<1>5. Frees'  BY DEF TypeOK, Links, Holders, Frees, Phases
<1>6. Phases'  BY DEF TypeOK, Phases
<1> QED  BY <1>2, <1>3, <1>4, <1>5, <1>6 DEF Places

\* A deinitialisation while no free is under way.
LEMMA DeinitPlaces ==
  ASSUME PoolAssumption, Places, Deinit, \A b \in Skb : pc[b] = "idle"
  PROVE  Places'
<1> USE DEF PoolAssumption, Places, Deinit
<1>1. TypeOK'
  BY ListsAreFinite DEF TypeOK, Count, NoCount, CountDeinit
<1>2. \A b \in Skb : mark'[b] = None
  BY DEF TypeOK, Links
<1>3. Links'  BY <1>2 DEF TypeOK, Links
<1>4. Holders'  BY <1>2 DEF TypeOK, Links, Holders, Frees, On
<1>5. Frees'  BY DEF TypeOK, Frees
<1>6. Phases'  BY DEF Phases
<1> QED  BY <1>1, <1>3, <1>4, <1>5, <1>6 DEF Places

LEMMA AllocFromPoolPlaces ==
  ASSUME PoolAssumption, Places, AllocFromPool PROVE Places'
<1> USE DEF PoolAssumption, Places
<1>1. PICK c \in Chunk :
        /\ list[c] = "free"
        /\ list' = [list EXCEPT ![c] = "used"]
        /\ hold' = [hold EXCEPT ![skb[c]] = "out"]
  BY DEF AllocFromPool, On
<1>2. skb[c] \in Skb  BY <1>1 DEF TypeOK, Links
<1> USE <1>1, <1>2 DEF AllocFromPool
<1>3. TypeOK'
  <2>1. cnt.free \in Int /\ cnt.used \in Int /\ cnt.chunks \in Int
    BY DEF TypeOK, Count
  <2>2. cnt' = [free |-> cnt.free - 1, used |-> cnt.used + 1, chunks |-> cnt.chunks]
    BY DEF TypeOK, Count
  <2>3. cnt' \in Count  BY <2>1, <2>2 DEF Count
  <2> QED  BY <2>3 DEF TypeOK
<1>4. Links'  BY DEF TypeOK, Links
<1>5. Holders'  BY DEF TypeOK, Links, Holders, Frees
<1>6. Frees'  BY DEF TypeOK, Links, Holders, Frees
<1>7. Phases'  BY DEF TypeOK, Phases
<1> QED  BY <1>3, <1>4, <1>5, <1>6, <1>7 DEF Places

LEMMA AllocFromKernelPlaces ==
  ASSUME PoolAssumption, Places, AllocFromKernel PROVE Places'
<1> USE DEF PoolAssumption, Places
<1>1. PICK b \in Skb :
        hold[b] = "kernel" /\ hold' = [hold EXCEPT ![b] = "out"]
  BY DEF AllocFromKernel, InKernel
<1> USE <1>1 DEF AllocFromKernel
<1>2. TypeOK'  BY DEF TypeOK
<1>3. Links'  BY DEF Links
<1>4. Holders'  BY DEF TypeOK, Links, Holders
<1>5. Frees'  BY DEF TypeOK, Links, Holders, Frees
<1>6. Phases'  BY DEF Phases
<1> QED  BY <1>2, <1>3, <1>4, <1>5, <1>6 DEF Places

LEMMA FreePlainPlaces ==
  ASSUME PoolAssumption, Places, NEW b \in Skb, FreePlain(b) PROVE Places'
<1> USE DEF PoolAssumption, Places, FreePlain
<1>1. TypeOK'  BY DEF TypeOK
<1>2. Links'  BY DEF Links
<1>3. Holders'  BY DEF TypeOK, Links, Holders
<1>4. Frees'  BY DEF TypeOK, Links, Holders, Frees
<1>5. Phases'  BY DEF Phases
<1> QED  BY <1>1, <1>2, <1>3, <1>4, <1>5 DEF Places

\* No other free has the chunk: its buffer would be this one too.
LEMMA FreeMarkedPlaces ==
  ASSUME PoolAssumption, Places, NEW b \in Skb, FreeMarked(b) PROVE Places'
<1> USE DEF PoolAssumption, Places, FreeMarked
<1>1. TypeOK'  BY DEF TypeOK
<1>2. Links'  BY DEF TypeOK, Links
<1>3. Holders'  BY DEF Holders
<1>4. \A d \in Skb : chunck[d] # mark[b]
  BY DEF TypeOK, Links, Holders, Frees
<1>5. Frees'  BY <1>4 DEF TypeOK, Links, Holders, Frees
<1>6. Phases'  BY DEF Phases
<1> QED  BY <1>1, <1>2, <1>3, <1>5, <1>6 DEF Places

LEMMA RestorePlaces ==
  ASSUME PoolAssumption, Places, NEW b \in Skb, Restore(b) PROVE Places'
<1> USE DEF PoolAssumption, Places, Restore
<1>1. TypeOK'  BY DEF TypeOK
<1>2. Links'  BY DEF TypeOK, Links
<1>3. Holders'  BY DEF Holders
<1>4. Frees'  BY DEF TypeOK, Frees
<1>5. Phases'  BY DEF Phases
<1> QED  BY <1>1, <1>2, <1>3, <1>4, <1>5 DEF Places

LEMMA ReplacePlaces ==
  ASSUME PoolAssumption, Places, NEW b \in Skb, Replace(b) PROVE Places'
<1> USE DEF PoolAssumption, Places
<1>1. PICK n \in Skb :
        /\ hold[n] = "kernel"
        /\ mark' = [mark EXCEPT ![b] = None, ![n] = chunck[b]]
        /\ hold' = [hold EXCEPT ![n] = "pool"]
        /\ skb' = [skb EXCEPT ![chunck[b]] = n]
  BY DEF Replace, InKernel, NewSkb
<1> USE <1>1 DEF Replace
<1>2. chunck[b] \in Chunk /\ b # n /\ pc[n] = "idle"
  BY DEF TypeOK, Frees
<1>3. TypeOK'  BY <1>2 DEF TypeOK
<1>4. Links'  BY <1>2 DEF TypeOK, Links, Holders, Frees
<1>5. Holders'  BY <1>2 DEF TypeOK, Links, Holders, Frees
<1>6. Frees'  BY <1>2 DEF TypeOK, Links, Holders, Frees
<1>7. Phases'  BY DEF Phases
<1> QED  BY <1>3, <1>4, <1>5, <1>6, <1>7 DEF Places

LEMMA StarvePlaces ==
  ASSUME PoolAssumption, Places, NEW b \in Skb, Starve(b) PROVE Places'
<1> USE DEF PoolAssumption, Places, Starve
<1>1. TypeOK'  BY DEF TypeOK
<1>2. Links'  BY DEF TypeOK, Links, Frees
<1>3. Holders'  BY DEF TypeOK, Holders
<1>4. Frees'  BY DEF TypeOK, Frees
<1>5. Phases'  BY DEF Phases
<1> QED  BY <1>1, <1>2, <1>3, <1>4, <1>5 DEF Places

LEMMA PutBackPlaces ==
  ASSUME PoolAssumption, Places, NEW b \in Skb, PutBack(b) PROVE Places'
<1> USE DEF PoolAssumption, Places, PutBack
<1>1. chunck[b] \in Chunk  BY DEF TypeOK, Frees
<1>2. TypeOK'
  <2>1. cnt.free \in Int /\ cnt.used \in Int /\ cnt.chunks \in Int
    BY DEF TypeOK, Count
  <2>2. cnt' = [free |-> cnt.free + 1, used |-> cnt.used - 1, chunks |-> cnt.chunks]
    BY DEF TypeOK, Count, CountFreed
  <2>3. cnt' \in Count  BY <2>1, <2>2 DEF Count
  <2> QED  BY <1>1, <2>3 DEF TypeOK
<1>3. Links'  BY <1>1 DEF TypeOK, Links, Frees
<1>4. Holders'  BY <1>1 DEF TypeOK, Links, Holders, Frees
<1>5. Frees'  BY <1>1 DEF TypeOK, Links, Holders, Frees
<1>6. Phases'  BY <1>1 DEF TypeOK, Phases, Frees
<1> QED  BY <1>2, <1>3, <1>4, <1>5, <1>6 DEF Places

LEMMA DropChunkPlaces ==
  ASSUME PoolAssumption, Places, NEW b \in Skb, DropChunk(b) PROVE Places'
<1> USE DEF PoolAssumption, Places, DropChunk
<1>1. chunck[b] \in Chunk /\ skb[chunck[b]] = b  BY DEF TypeOK, Frees
<1>2. TypeOK'
  <2>1. cnt' \in Count  BY DEF TypeOK, Count
  <2> QED  BY <1>1, <2>1 DEF TypeOK
<1>3. Links'  BY <1>1 DEF TypeOK, Links, Frees
<1>4. Holders'  BY <1>1 DEF TypeOK, Links, Holders, Frees
<1>5. Frees'  BY <1>1 DEF TypeOK, Links, Holders, Frees
<1>6. Phases'  BY <1>1 DEF TypeOK, Phases, Frees
<1> QED  BY <1>2, <1>3, <1>4, <1>5, <1>6 DEF Places

LEMMA FreeStepPlaces ==
  ASSUME PoolAssumption, Places, NEW b \in Skb, FreeStep(b) PROVE Places'
BY RestorePlaces, ReplacePlaces, StarvePlaces, PutBackPlaces, DropChunkPlaces
   DEF FreeStep

\* Nothing is freed while the pool is filled, and nothing is unloaded, with a
\* quiet end, before the frees are through.
LEMMA NextPlaces ==
  ASSUME PoolAssumption, QuietUnload, Places, [Next]_vars PROVE Places'
<1> USE PoolAssumption, QuietUnload, Places
<1>1. CASE InitStart
  BY <1>1 DEF InitStart, PoolAssumption, Places, TypeOK, Links, Holders, Frees,
     Phases, On
<1>2. CASE InitAdd  BY <1>2, InitAddPlaces
<1>3. CASE InitFails
  <2>1. \A b \in Skb : pc[b] = "idle"
    BY <1>3 DEF InitFails, Places, TypeOK, Frees, Phases
  <2> QED  BY <1>3, <2>1, DeinitPlaces DEF InitFails
<1>4. CASE Unload  BY <1>4, DeinitPlaces DEF Unload
<1>5. CASE AllocFromPool  BY <1>5, AllocFromPoolPlaces
<1>6. CASE AllocFromKernel  BY <1>6, AllocFromKernelPlaces
<1>7. ASSUME NEW b \in Skb, FreePlain(b) \/ FreeMarked(b) \/ FreeStep(b)
      PROVE  Places'
  BY <1>7, FreePlainPlaces, FreeMarkedPlaces, FreeStepPlaces
<1>8. CASE Toggle
  BY <1>8 DEF Toggle, Places, TypeOK, Links, Holders, Frees, Phases
<1>9. CASE UNCHANGED vars
  BY <1>9 DEF vars, Places, TypeOK, Links, Holders, Frees, Phases
<1> QED
  BY <1>1, <1>2, <1>3, <1>4, <1>5, <1>6, <1>7, <1>8, <1>9 DEF Next

LEMMA PlacesHold == ASSUME PoolAssumption, QuietUnload PROVE Spec => []Places
<1>1. Init => Places  BY InitPlaces
<1>2. Places /\ [Next]_vars => Places'  BY NextPlaces
<1> QED  BY <1>1, <1>2, PTL DEF Spec

----------------------------------------------------------------------------
(* The counters.                                                            *)

\* A list that gains a chunk is one longer.
LEMMA Gain ==
  ASSUME PoolAssumption, NEW l, NEW c \in Chunk, c \notin On(l),
         On(l)' = On(l) \cup {c}
  PROVE  Cardinality(On(l)') = Cardinality(On(l)) + 1
BY ListsAreFinite, FS_AddElement

\* A list that loses a chunk is one shorter.
LEMMA Lose ==
  ASSUME PoolAssumption, NEW l, NEW c \in On(l), On(l)' = On(l) \ {c}
  PROVE  Cardinality(On(l)') = Cardinality(On(l)) - 1
BY ListsAreFinite, FS_RemoveElement

LEMMA InitCounts == ASSUME Init PROVE CountsCoverLists
<1>1. On("free") = {} /\ On("used") = {}  BY DEF Init, On
<1> QED  BY <1>1, FS_EmptySet DEF Init, NoCount, CountsCoverLists

LEMMA SameLists ==
  ASSUME CountsCoverLists, UNCHANGED <<list, cnt>> PROVE CountsCoverLists'
<1>1. On("free")' = On("free") /\ On("used")' = On("used")  BY DEF On
<1> QED  BY <1>1 DEF CountsCoverLists

\* Each step of a list comes with its counter.
LEMMA NextCounts ==
  ASSUME PoolAssumption, Places, Places', CountsCoverLists, Next
  PROVE  CountsCoverLists'
<1> USE PoolAssumption
<1>1. /\ cnt.free \in Int /\ cnt.used \in Int /\ cnt.chunks \in Int
      /\ cnt \in Count
      /\ \A l : Cardinality(On(l)) \in Nat
  BY ListsAreFinite DEF Places, TypeOK, Count
<1>2. CASE InitStart  BY <1>2, SameLists DEF InitStart
<1>3. CASE InitAdd
  <2>1. PICK c \in Chunk :
          list[c] = "none" /\ list' = [list EXCEPT ![c] = "free"]
    BY <1>3 DEF InitAdd, On
  <2>2. /\ c \notin On("free") /\ On("free")' = On("free") \cup {c}
        /\ On("used")' = On("used")
    BY <2>1 DEF Places, TypeOK, On
  <2>3. Cardinality(On("free")') = Cardinality(On("free")) + 1
    BY <2>2, Gain
  <2>4. /\ cnt'.free = cnt.free + 1 /\ cnt'.used = cnt.used
        /\ cnt'.chunks = cnt.chunks + 1
    BY <1>1, <1>3 DEF InitAdd, Count
  <2> QED  BY <1>1, <2>2, <2>3, <2>4 DEF CountsCoverLists
<1>4. CASE Deinit
  <2>1. On("free")' = {} /\ On("used")' = {}  BY <1>4 DEF Deinit, On
  <2>2. cnt'.free = 0 /\ cnt'.used = 0 /\ cnt'.chunks = 0
    BY <1>1, <1>4 DEF Deinit, CountDeinit, NoCount, CountsCoverLists
  <2> QED  BY <2>1, <2>2, FS_EmptySet DEF CountsCoverLists
<1>5. CASE AllocFromPool
  <2>1. PICK c \in Chunk :
          list[c] = "free" /\ list' = [list EXCEPT ![c] = "used"]
    BY <1>5 DEF AllocFromPool, On
  <2>2. /\ c \in On("free") /\ On("free")' = On("free") \ {c}
        /\ c \notin On("used") /\ On("used")' = On("used") \cup {c}
    BY <2>1 DEF Places, TypeOK, On
  <2>3. /\ Cardinality(On("free")') = Cardinality(On("free")) - 1
        /\ Cardinality(On("used")') = Cardinality(On("used")) + 1
    BY <2>2, Gain, Lose
  <2>4. /\ cnt'.free = cnt.free - 1 /\ cnt'.used = cnt.used + 1
        /\ cnt'.chunks = cnt.chunks
    BY <1>1, <1>5 DEF AllocFromPool, Count
  <2> QED  BY <1>1, <2>3, <2>4 DEF CountsCoverLists
<1>6. CASE AllocFromKernel  BY <1>6, SameLists DEF AllocFromKernel
<1>7. ASSUME NEW b \in Skb, FreePlain(b)  PROVE CountsCoverLists'
  BY <1>7, SameLists DEF FreePlain
<1>8. ASSUME NEW b \in Skb, FreeMarked(b)  PROVE CountsCoverLists'
  BY <1>8, SameLists DEF FreeMarked
<1>9. ASSUME NEW b \in Skb, Restore(b) \/ Replace(b) \/ Starve(b)
      PROVE  CountsCoverLists'
  BY <1>9, SameLists DEF Restore, Replace, Starve
<1>10. ASSUME NEW b \in Skb, PutBack(b)  PROVE CountsCoverLists'
  <2> DEFINE c == chunck[b]
  <2>1. c \in Chunk /\ list[c] = "used"
    BY <1>10 DEF PutBack, Places, TypeOK, Frees
  <2>2. list' = [list EXCEPT ![c] = "free"]  BY <1>10 DEF PutBack
  <2> HIDE DEF c
  <2>3. /\ c \in On("used") /\ On("used")' = On("used") \ {c}
        /\ c \notin On("free") /\ On("free")' = On("free") \cup {c}
    BY <2>1, <2>2 DEF Places, TypeOK, On
  <2>4. /\ Cardinality(On("free")') = Cardinality(On("free")) + 1
        /\ Cardinality(On("used")') = Cardinality(On("used")) - 1
    BY <2>1, <2>3, Gain, Lose
  <2>5. /\ cnt'.free = cnt.free + 1 /\ cnt'.used = cnt.used - 1
        /\ cnt'.chunks = cnt.chunks
    BY <1>1, <1>10 DEF PutBack, CountFreed, Count
  <2> QED  BY <1>1, <2>4, <2>5 DEF CountsCoverLists
<1>11. ASSUME NEW b \in Skb, DropChunk(b)  PROVE CountsCoverLists'
  <2> DEFINE c == chunck[b]
  <2>1. c \in Chunk /\ list[c] = "used"
    BY <1>11 DEF DropChunk, Places, TypeOK, Frees
  <2>2. list' = [list EXCEPT ![c] = "none"]  BY <1>11 DEF DropChunk
  <2> HIDE DEF c
  <2>3. /\ c \in On("used") /\ On("used")' = On("used") \ {c}
        /\ On("free")' = On("free")
    BY <2>1, <2>2 DEF Places, TypeOK, On
  <2>4. Cardinality(On("used")') = Cardinality(On("used")) - 1
    BY <2>3, Lose
  <2>5. /\ cnt'.free = cnt.free /\ cnt'.used = cnt.used
        /\ cnt'.chunks = cnt.chunks - 1
    BY <1>1, <1>11 DEF DropChunk, Count
  <2> QED  BY <1>1, <2>3, <2>4, <2>5 DEF CountsCoverLists
<1>12. CASE Toggle  BY <1>12, SameLists DEF Toggle
<1> QED
  BY <1>2, <1>3, <1>4, <1>5, <1>6, <1>7, <1>8, <1>9, <1>10, <1>11, <1>12
     DEF Next, InitFails, Unload, FreeStep

LEMMA Invariance == ASSUME PoolAssumption, QuietUnload PROVE Spec => []IInv
<1>1. Init => CountsCoverLists  BY InitCounts
<1>2. Places /\ Places' /\ CountsCoverLists /\ [Next]_vars
        => CountsCoverLists'
  BY NextCounts, SameLists DEF vars
<1>3. Spec => []Places  BY PlacesHold
<1>4. Places /\ CountsCoverLists => IInv  BY DEF IInv
<1> QED  BY <1>1, <1>2, <1>3, <1>4, PTL DEF Spec

----------------------------------------------------------------------------
(* The results, for an end of the pool that no free races with.             *)

\* Every variable of the pool keeps its type: siwifi_mem.c's lists, marks,
\* counters and the steps of a free.
THEOREM TypeCorrect == ASSUME PoolAssumption, QuietUnload PROVE Spec => []TypeOK
<1>1. IInv => TypeOK  BY DEF IInv, Places
<1> QED  BY <1>1, Invariance, PTL

\* The counters cover the lists, whatever the number of chunks and whatever
\* frees run side by side: no assertion on a counter of siwifi_mem.c fires.
THEOREM CountersAreRight ==
  ASSUME PoolAssumption, QuietUnload PROVE Spec => []CountsCoverLists
<1>1. IInv => CountsCoverLists  BY DEF IInv
<1> QED  BY <1>1, Invariance, PTL

\* The chunk of a free under way is on the used list, has no other free, and
\* has the buffer that is freed: BUG_ON(chunck->skb != skb) never fires.
THEOREM NoFreeIsLate ==
  ASSUME PoolAssumption, QuietUnload PROVE Spec => []FreedChunkIsUsed
<1>1. IInv => FreedChunkIsUsed
  BY DEF IInv, Places, TypeOK, Frees, FreedChunkIsUsed, On, PoolAssumption
<1> QED  BY <1>1, Invariance, PTL

\* No buffer is lent twice and none is lost.
THEOREM NoBufferTwice ==
  ASSUME PoolAssumption, QuietUnload PROVE Spec => []BuffersHaveOnePlace
<1>1. IInv => BuffersHaveOnePlace
  BY DEF IInv, Places, Links, Holders, BuffersHaveOnePlace, On
<1> QED  BY <1>1, Invariance, PTL
============================================================================
