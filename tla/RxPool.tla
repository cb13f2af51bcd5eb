------------------------------ MODULE RxPool ------------------------------
(* The private pool of receive buffers (siwifi_mem.c,                       *)
(* CONFIG_PRIV_RX_BUFFER_POOL).                                             *)
(*                                                                          *)
(* The driver allocates num chunks when it starts, each with a buffer, and  *)
(* puts a mark on every buffer: the chunk it belongs to.  The receive path  *)
(* takes buffers from the free list, or from the kernel when the list is    *)
(* empty or the pool is disabled.  When the network stack frees a marked    *)
(* buffer, the kernel calls siwifi_dev_free_rxskb, on whatever processor    *)
(* the stack runs: it restores the buffer, or gives the chunk a new one     *)
(* when the buffer cannot be used again, and puts the chunk back.           *)
(* siwifi_deinit_private_rxskbs frees every chunk, those the stack still    *)
(* has the buffers of included.                                             *)
(*                                                                          *)
(* Only the moves between the lists are under priv_rx_skbs_lock; the rest   *)
(* of the free path is not, so its steps are actions of their own.  The     *)
(* order of the free list and the contents of a buffer are left out.        *)
EXTENDS Integers, FiniteSets

CONSTANTS
  Chunk,       \* struct priv_skb_chunck the kernel can allocate
  Skb,         \* buffers the kernel can allocate
  None,
  Num,         \* chunks of the pool: rx_bufnb + 128
  QuietUnload  \* no free is under way when the pool is deinitialised

ASSUME PoolAssumption ==
  /\ IsFiniteSet(Chunk)
  /\ Num \in Nat
  /\ QuietUnload \in BOOLEAN
  /\ None \notin Chunk \cup Skb

VARIABLES
  list,    \* the list each chunk is on
  skb,     \* chunck->skb
  mark,    \* skb->vendor_free_priv[1]
  hold,    \* who has each buffer: the kernel, the pool, or the driver and the stack
  pc,      \* where siwifi_dev_free_rxskb is with each buffer
  chunck,  \* its local variable
  cnt,     \* g_rx_free_cnt, g_rx_used_cnt, g_rx_chunck_alloc_free_debug
  enable,  \* g_rx_skb_pool_enable
  phase    \* of the pool

vars == <<list, skb, mark, hold, pc, chunck, cnt, enable, phase>>

On(l) == {c \in Chunk : list[c] = l}
InKernel == {b \in Skb : hold[b] = "kernel"}

NoCount == [free |-> 0, used |-> 0, chunks |-> 0]

\* Every chunk of the two lists is freed and counted off.
CountDeinit ==
  [NoCount EXCEPT !.chunks =
     cnt.chunks - Cardinality(On("free")) - Cardinality(On("used"))]

Init ==
  /\ list = [c \in Chunk |-> "none"]
  /\ skb = [c \in Chunk |-> None]
  /\ mark = [b \in Skb |-> None]
  /\ hold = [b \in Skb |-> "kernel"]
  /\ pc = [b \in Skb |-> "idle"]
  /\ chunck = [b \in Skb |-> None]
  /\ cnt = NoCount
  /\ enable = TRUE
  /\ phase = "off"

----------------------------------------------------------------------------
(* Start and end of the pool.                                               *)

\* siwifi_init_private_rxskbs refuses lists that are not empty.
InitStart ==
  /\ phase = "off"
  /\ On("free") = {} /\ On("used") = {}
  /\ phase' = IF Num = 0 THEN "on" ELSE "filling"
  /\ UNCHANGED <<list, skb, mark, hold, pc, chunck, cnt, enable>>

\* One round of its loop.
InitAdd ==
  /\ phase = "filling"
  /\ \E c \in On("none"), b \in InKernel :
       /\ list' = [list EXCEPT ![c] = "free"]
       /\ skb' = [skb EXCEPT ![c] = b]
       /\ mark' = [mark EXCEPT ![b] = c]
       /\ hold' = [hold EXCEPT ![b] = "pool"]
  /\ cnt' = [cnt EXCEPT !.free = @ + 1, !.chunks = @ + 1]
  /\ phase' = IF cnt.free + 1 = Num THEN "on" ELSE "filling"
  /\ UNCHANGED <<pc, chunck, enable>>

\* Mutant: the marks of the buffers the stack holds are not reset.
ForgetUsedMarks ==
  /\ list' = [c \in Chunk |-> "none"]
  /\ skb' = [c \in Chunk |-> None]
  /\ mark' = [b \in Skb |-> IF hold[b] = "pool" THEN None ELSE mark[b]]
  /\ hold' = [b \in Skb |-> IF hold[b] = "pool" THEN "kernel" ELSE hold[b]]
  /\ cnt' = CountDeinit
  /\ phase' = "off"
  /\ UNCHANGED <<pc, chunck, enable>>

\* siwifi_deinit_private_rxskbs: one critical section.  The buffers of the
\* used chunks stay with their holders, without their marks.
Deinit ==
  /\ list' = [c \in Chunk |-> "none"]
  /\ skb' = [c \in Chunk |-> None]
  /\ mark' = [b \in Skb |->
                IF \E c \in Chunk : list[c] # "none" /\ skb[c] = b
                  THEN None ELSE mark[b]]
  /\ hold' = [b \in Skb |->
                IF \E c \in On("free") : skb[c] = b THEN "kernel" ELSE hold[b]]
  /\ cnt' = CountDeinit
  /\ phase' = "off"
  /\ UNCHANGED <<pc, chunck, enable>>

\* The goto failed of the loop: a chunk or a buffer could not be allocated.
InitFails ==
  /\ phase = "filling"
  /\ Deinit

\* siwifi_cfg80211_deinit, after siwifi_platform_off.
Unload ==
  /\ phase = "on"
  /\ QuietUnload => \A b \in Skb : pc[b] = "idle"
  /\ Deinit

----------------------------------------------------------------------------
(* siwifi_dev_alloc_rxskb.                                                  *)

AllocFromPool ==
  /\ phase = "on" /\ enable
  /\ \E c \in On("free") :
       /\ list' = [list EXCEPT ![c] = "used"]
       /\ hold' = [hold EXCEPT ![skb[c]] = "out"]
  /\ cnt' = [cnt EXCEPT !.free = @ - 1, !.used = @ + 1]
  /\ UNCHANGED <<skb, mark, pc, chunck, enable, phase>>

\* The pool is disabled or empty.
AllocFromKernel ==
  /\ phase = "on"
  /\ enable => On("free") = {}
  /\ \E b \in InKernel : hold' = [hold EXCEPT ![b] = "out"]
  /\ UNCHANGED <<list, skb, mark, pc, chunck, cnt, enable, phase>>

----------------------------------------------------------------------------
(* The last reference to a buffer goes: siwifi_dev_free_rxskb.              *)

\* CHECK_PRIV_SKB_MAGIC fails: an ordinary buffer.
FreePlain(b) ==
  /\ hold[b] = "out" /\ pc[b] = "idle" /\ mark[b] = None
  /\ hold' = [hold EXCEPT ![b] = "kernel"]
  /\ UNCHANGED <<list, skb, mark, pc, chunck, cnt, enable, phase>>

FreeMarked(b) ==
  /\ hold[b] = "out" /\ pc[b] = "idle" /\ mark[b] # None
  /\ chunck' = [chunck EXCEPT ![b] = mark[b]]
  /\ pc' = [pc EXCEPT ![b] = "marked"]
  /\ UNCHANGED <<list, skb, mark, hold, cnt, enable, phase>>

\* Neither cloned, nor reallocated, nor forced: the buffer is as new.
Restore(b) ==
  /\ pc[b] = "marked" /\ enable
  /\ pc' = [pc EXCEPT ![b] = "restored"]
  /\ UNCHANGED <<list, skb, mark, hold, chunck, cnt, enable, phase>>

\* Mutant: the chunk keeps the buffer it is given back.
KeepOldSkb(b, n) == skb' = skb

NewSkb(b, n) == skb' = [skb EXCEPT ![chunck[b]] = n]

\* Cloned, reallocated, forced, or the pool is disabled: the mark goes to a
\* new buffer, which the chunk takes.
Replace(b) ==
  /\ pc[b] = "marked"
  /\ \E n \in InKernel :
       /\ mark' = [mark EXCEPT ![b] = None, ![n] = chunck[b]]
       /\ hold' = [hold EXCEPT ![n] = "pool"]
       /\ NewSkb(b, n)
  /\ pc' = [pc EXCEPT ![b] = "replaced"]
  /\ UNCHANGED <<list, chunck, cnt, enable, phase>>

\* dev_alloc_skb fails: the chunk is to go.
Starve(b) ==
  /\ pc[b] = "marked"
  /\ mark' = [mark EXCEPT ![b] = None]
  /\ pc' = [pc EXCEPT ![b] = "starved"]
  /\ UNCHANGED <<list, skb, hold, chunck, cnt, enable, phase>>

\* Mutant: the counter of the free list is forgotten.
CountUsedOnly == [cnt EXCEPT !.used = @ - 1]

CountFreed == [cnt EXCEPT !.used = @ - 1, !.free = @ + 1]

\* The critical section at the end; false tells the kernel to free b itself.
PutBack(b) ==
  /\ pc[b] \in {"restored", "replaced"}
  /\ list' = [list EXCEPT ![chunck[b]] = "free"]
  /\ cnt' = CountFreed
  /\ hold' = [hold EXCEPT ![b] = IF pc[b] = "restored" THEN "pool" ELSE "kernel"]
  /\ pc' = [pc EXCEPT ![b] = "idle"]
  /\ chunck' = [chunck EXCEPT ![b] = None]
  /\ UNCHANGED <<skb, mark, enable, phase>>

\* The one of the failed allocation: g_rx_used_cnt is not touched.
DropChunk(b) ==
  /\ pc[b] = "starved"
  /\ list' = [list EXCEPT ![chunck[b]] = "none"]
  /\ skb' = [skb EXCEPT ![chunck[b]] = None]
  /\ cnt' = [cnt EXCEPT !.chunks = @ - 1]
  /\ hold' = [hold EXCEPT ![b] = "kernel"]
  /\ pc' = [pc EXCEPT ![b] = "idle"]
  /\ chunck' = [chunck EXCEPT ![b] = None]
  /\ UNCHANGED <<mark, enable, phase>>

\* siwifi_dbgfs_rxbuf_pool_enable_write, without the lock.
Toggle ==
  /\ enable' = ~enable
  /\ UNCHANGED <<list, skb, mark, hold, pc, chunck, cnt, phase>>

FreeStep(b) ==
  \/ Restore(b) \/ Replace(b) \/ Starve(b) \/ PutBack(b) \/ DropChunk(b)

Next ==
  \/ InitStart \/ InitAdd \/ InitFails \/ Unload
  \/ AllocFromPool \/ AllocFromKernel
  \/ \E b \in Skb : FreePlain(b) \/ FreeMarked(b) \/ FreeStep(b)
  \/ Toggle

Spec == Init /\ [][Next]_vars

----------------------------------------------------------------------------
(* Properties.                                                              *)

Count == [free : Int, used : Int, chunks : Int]

TypeOK ==
  /\ list \in [Chunk -> {"none", "free", "used"}]
  /\ skb \in [Chunk -> Skb \cup {None}]
  /\ mark \in [Skb -> Chunk \cup {None}]
  /\ hold \in [Skb -> {"kernel", "pool", "out"}]
  /\ pc \in [Skb -> {"idle", "marked", "restored", "replaced", "starved"}]
  /\ chunck \in [Skb -> Chunk \cup {None}]
  /\ cnt \in Count
  /\ enable \in BOOLEAN
  /\ phase \in {"off", "filling", "on"}

\* The counter of the free list is its length, that of the chunks what the two
\* lists hold, and that of the used list is never below its length: it stays
\* too high by one for each chunk a failed allocation took (the drop at
\* siwifi_mem.c:279-287 does not count it), so that the assertions
\* g_rx_free_cnt != 0, g_rx_free_cnt < 0 and g_rx_used_cnt < 0 never fire.
CountsCoverLists ==
  /\ cnt.free = Cardinality(On("free"))
  /\ cnt.chunks = Cardinality(On("free")) + Cardinality(On("used"))
  /\ cnt.used >= Cardinality(On("used"))

\* A free that runs without the lock has a chunk that is on the used list and
\* that nobody else frees, and until it replaces it the chunk's buffer is the
\* one it frees: BUG_ON(chunck->skb != skb), siwifi_mem.c:257.
FreedChunkIsUsed ==
  \A b \in Skb : pc[b] # "idle" =>
    /\ chunck[b] \in On("used")
    /\ pc[b] \in {"marked", "restored"} => skb[chunck[b]] = b
    /\ \A d \in Skb \ {b} : chunck[d] # chunck[b]

\* A buffer is in one place: a chunk of the free list has a buffer of the
\* pool, which nobody holds and no other chunk has, so that it is never lent
\* twice; a buffer of the pool has a chunk that leads to it, so that none is
\* lost; a mark leads back to the chunk that has the buffer.
BuffersHaveOnePlace ==
  /\ \A c \in On("free") : hold[skb[c]] = "pool"
  /\ \A c, d \in Chunk : c # d /\ skb[c] = skb[d] => skb[c] = None
  /\ \A b \in Skb : hold[b] = "pool" => \E c \in Chunk : skb[c] = b
  /\ \A b \in Skb : mark[b] # None => skb[mark[b]] = b
  /\ \A b \in Skb : hold[b] = "kernel" => mark[b] = None
============================================================================
