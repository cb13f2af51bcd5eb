------------------------------- MODULE RxBuf -------------------------------
(* Receive buffers and receive descriptors of one band.                      *)
(*                                                                           *)
(* The host lends the firmware rx_bufnb buffers, which it lists in           *)
(* rxbuf_elems and pushes, by index, into the shared ring host_rxbuf.  The   *)
(* firmware receives into them and fills one rx descriptor per MPDU, whose   *)
(* status says what becomes of its buffers: FORWARD and DELETE give them     *)
(* back, ALLOC asks for as many new ones, SPURIOUS wants the same one        *)
(* pushed again, LEN_UPDATE edits one that stays lent.  A buffer that waits  *)
(* in the firmware's reordering is replaced at once (ALLOC alone) and given  *)
(* back later.  The host serves the descriptors in the tasklet siwifi_task,  *)
(* in two bounded passes with the acknowledgement of the interrupt between   *)
(* them; an allocation that fails is counted and tried again by a later      *)
(* tasklet.  siwifi_platform_restart takes everything back and starts anew.  *)
(*                                                                           *)
(* One action is one critical section of cb_lock in the tasklet, one step of *)
(* the firmware or one buffer freed by the network stack.  Free memory is    *)
(* counted in buffers; the private pool behind it is RxPool.  What a frame   *)
(* holds and whom it is for is a choice between handing it up and freeing    *)
(* it; an A-MSDU has at most two subframes.                                  *)
EXTENDS Integers, Sequences, FiniteSets

CONSTANTS
  Memory,     \* buffers the memory has room for
  N,          \* rx_bufnb, and the places of host_rxbuf (IPC_RXBUF_CNT)
  Size,       \* SIWIFI_RXBUFF_MAX, the places of rxbuf_elems
  D,          \* IPC_RXDESC_CNT
  MaxRx,      \* max_rx_process_time
  MaxReord,   \* bound: buffers the firmware keeps for reordering
  MonitorVif  \* the firmware delivers frames for a monitor interface

ASSUME ParamAssumption ==
  /\ N \in Nat \ {0}
  /\ Memory \in Nat /\ Memory >= N
  /\ Size \in Nat /\ Size >= N
  /\ D \in Nat \ {0}
  /\ MaxRx \in Nat
  /\ D <= MaxRx + 2       \* 704 descriptors, 1024 per pass
  /\ MaxReord \in Nat
  /\ MonitorVif \in BOOLEAN

VARIABLES
  buf,        \* what the host and the memory know of the buffers
  ring,       \* indices pushed to host_rxbuf and not used up by the firmware
  reord,      \* indices the firmware keeps for reordering
  ind,        \* filled rx descriptors, oldest first
  unraised,   \* a descriptor was filled and its interrupt is still to be raised
  irq,        \* IPC_IRQ_E2A_RXDESC in the interrupt status
  pc,         \* where siwifi_task is
  count,      \* descriptors of this pass
  rx_status,  \* the tasklet saw IPC_IRQ_E2A_RXDESC
  pending     \* ipc_pending_status

vars == <<buf, ring, reord, ind, unraised, irq, pc, count, rx_status, pending>>

Index == 0 .. Size - 1
MaxMsdu == 2      \* bound: subframes of an A-MSDU (RX_AMSDU_CNT_MAX)

-----------------------------------------------------------------------------
(* Buffers.  buf holds which places of rxbuf_elems are taken, the cursor of  *)
(* the table, the buffers the memory has free and those the stack holds, and *)
(* rx_skb_alloc_fail_cnt.                                                    *)

NoBuf == [listed |-> {}, idx |-> 0, free |-> Memory, stack |-> 0, fail |-> 0]

CanAlloc(b) == b.free > 0 /\ b.listed # Index

PlaceAtCursor(b) == b.idx        \* mutant: the search for a free place is lost

\* The first place of the table at or after the cursor that is not taken.
Place(b) ==
  LET at(n) == (b.idx + n) % Size
  IN  at(CHOOSE n \in Index : at(n) \notin b.listed
                              /\ \A m \in 0 .. n - 1 : at(m) \in b.listed)

\* siwifi_ipc_rxbuf_elem_allocs, on the buffers and the indices pushed.
LentOne(s) ==
  LET i == Place(s.b)
  IN  [b |-> [s.b EXCEPT !.listed = @ \cup {i}, !.free = @ - 1, !.idx = (i + 1) % Size],
       ring |-> Append(s.ring, i)]

LendUncounted(s) == IF CanAlloc(s.b) THEN LentOne(s) ELSE s   \* mutant: no fail_cnt++

Lend(s) ==
  IF CanAlloc(s.b) THEN LentOne(s) ELSE [s EXCEPT !.b.fail = @ + 1]

LendMany(s, n) ==
  LET lent[m \in 0 .. MaxMsdu] == IF m = 0 THEN s ELSE Lend(lent[m - 1])
  IN  lent[n]

\* siwifi_ipc_rxbuf_elem_fail_check: try again until one fails.
FailCheck(s) ==
  LET after[m \in 0 .. s.b.fail] ==
        IF m = 0 THEN s
        ELSE IF CanAlloc(after[m - 1].b)
               THEN LentOne([after[m - 1] EXCEPT !.b.fail = @ - 1])
               ELSE after[m - 1]
  IN  after[s.b.fail]


\* siwifi_ipc_rxbuf_elem_pull, before the buffer goes up or is freed.
Unlisted(s, ids) == [s EXCEPT !.b.listed = @ \ ids]

PullUp(s, ids) ==
  LET u == Unlisted(s, ids) IN [u EXCEPT !.b.stack = @ + Cardinality(ids)]

PullFree(s, ids) ==
  LET u == Unlisted(s, ids) IN [u EXCEPT !.b.free = @ + Cardinality(ids)]

Repush(s, i) == [s EXCEPT !.ring = Append(@, i)]

\* siwifi_ipc_rxbuf_elems_allocs on empty tables.
InitialBuf(b) ==
  LET lent[m \in 0 .. N] == IF m = 0 THEN [b |-> b, ring |-> <<>>]
                                     ELSE Lend(lent[m - 1])
  IN  lent[N]

Init ==
  /\ LET s == InitialBuf(NoBuf)
     IN  buf = s.b /\ ring = s.ring
  /\ reord = {}
  /\ ind = <<>>
  /\ unraised = FALSE
  /\ irq = FALSE
  /\ pc = "idle"
  /\ count = 0
  /\ rx_status = FALSE
  /\ pending = FALSE

-----------------------------------------------------------------------------
(* siwifi_rxdataind: one descriptor d.  s is the state it works on.          *)

Ids(d) == {d.ids[n] : n \in DOMAIN d.ids}
Asked(d) == IF "ALLOC" \in d.status THEN Len(d.ids) ELSE 0

\* The frame goes up to the stack.
Forward(s, d) == LendMany(PullUp(s, Ids(d)), Asked(d))

\* A frame nobody takes is freed, then the new buffer is lent.
ForwardDrops(s, d) == LendMany(PullFree(s, Ids(d)), Asked(d))

\* An A-MSDU that is malformed or that nobody takes: its first buffer is pulled,
\* the new ones are lent, the other is pulled, and only then both are freed.
ForwardFails(s, d) ==
  LET first == {d.ids[1]}
      t     == PullFree(LendMany(Unlisted(s, first), Asked(d)), Ids(d) \ first)
  IN  [t EXCEPT !.b.free = @ + 1]

\* RX_STAT_MONITOR: siwifi_rx_monitor_skb pulls the buffer and hands it up or
\* frees it.  The RX_STAT_ALLOC it then sets is in its own copy of status.
\* Without a monitor interface it returns first: the buffer stays in the table
\* although the firmware is done with it, and is lost until a restart.
Monitor(s, d) == {PullUp(s, Ids(d)), PullFree(s, Ids(d)), s}

Results(s, d) ==
  CASE "DELETE" \in d.status     -> {PullFree(s, Ids(d))}
    [] "MONITOR" \in d.status    -> Monitor(s, d)
    [] "LEN_UPDATE" \in d.status -> {s}
    [] "SPURIOUS" \in d.status   -> {Repush(s, d.ids[1])}
    [] "FORWARD" \in d.status    ->
         {Forward(s, d), ForwardFails(s, d)}
           \cup IF Len(d.ids) = 1 THEN {ForwardDrops(s, d)} ELSE {}
    [] OTHER                     -> {LendMany(s, Asked(d))}

-----------------------------------------------------------------------------
(* siwifi_task                                                               *)

\* The interrupt of a descriptor, or any other of this band.
Irq ==
  /\ pc = "idle"
  /\ rx_status' = irq
  /\ IF irq
       THEN pc' = "first" /\ pending' = FALSE /\ count' = 0
       ELSE pc' = "rest" /\ UNCHANGED <<pending, count>>
  /\ UNCHANGED <<buf, ring, reord, ind, unraised, irq>>

AfterPass == IF pc = "first" THEN "rest" ELSE "idle"

\* One round of ipc_host_rxdesc_handler.
RxDesc ==
  /\ pc \in {"first", "second"}
  /\ ind # <<>>
  /\ Head(ind).ids[1] \in buf.listed
  /\ \E s \in Results([b |-> buf, ring |-> ring], Head(ind)) :
       buf' = s.b /\ ring' = s.ring
  /\ ind' = Tail(ind)
  /\ IF count > MaxRx
       THEN pending' = TRUE /\ pc' = AfterPass /\ count' = 0
       ELSE count' = count + 1 /\ UNCHANGED <<pending, pc>>
  /\ UNCHANGED <<reord, unraised, irq, rx_status>>

\* The next descriptor is not filled, or names no buffer.
RxEnd ==
  /\ pc \in {"first", "second"}
  /\ ind # <<>> => Head(ind).ids[1] \notin buf.listed
  /\ pc' = AfterPass
  /\ count' = 0
  /\ UNCHANGED <<buf, ring, reord, ind, unraised, irq, rx_status, pending>>

\* Mutant: the failed allocations are looked at only after a received frame.
RetryAfterRx == IF rx_status THEN FailCheck([b |-> buf, ring |-> ring])
                             ELSE [b |-> buf, ring |-> ring]

Retry == FailCheck([b |-> buf, ring |-> ring])

\* Mutant: the interrupt is acknowledged and nobody looks again.
AcknowledgeOnly ==
  /\ irq' = IF pending \/ ~rx_status THEN irq ELSE FALSE
  /\ pc' = "idle"
  /\ UNCHANGED <<pending, count>>

\* The interrupt is acknowledged, and what was filled before that is looked for
\* once more, unless the first pass stopped at its limit.
Acknowledge ==
  IF pending \/ ~rx_status
    THEN pc' = "idle" /\ UNCHANGED <<irq, pending, count>>
    ELSE irq' = FALSE /\ pc' = "second" /\ pending' = FALSE /\ count' = 0

TaskRest ==
  /\ pc = "rest"
  /\ buf' = Retry.b /\ ring' = Retry.ring
  /\ Acknowledge
  /\ UNCHANGED <<reord, ind, unraised, rx_status>>

-----------------------------------------------------------------------------
(* siwifi_platform_restart, once the tasklet is killed and the firmware has  *)
(* stopped.  If the memory does not give rx_bufnb buffers back, or the       *)
(* restart fails in another way, the band stays off.                         *)

Restart ==
  /\ pc = "idle"
  /\ LET back == [NoBuf EXCEPT !.free = Memory - buf.stack, !.stack = buf.stack]
         s    == InitialBuf(back)
     IN  \/ back.free >= N /\ buf' = s.b /\ ring' = s.ring /\ pc' = "idle"
         \/ buf' = back /\ ring' = <<>> /\ pc' = "off"
  /\ reord' = {} /\ ind' = <<>>
  /\ unraised' = FALSE /\ irq' = FALSE
  /\ count' = 0 /\ rx_status' = FALSE /\ pending' = FALSE

-----------------------------------------------------------------------------
(* The network stack and the firmware                                        *)

StackFrees ==
  /\ buf.stack > 0
  /\ buf' = [buf EXCEPT !.stack = @ - 1, !.free = @ + 1]
  /\ UNCHANGED <<ring, reord, ind, unraised, irq, pc, count, rx_status, pending>>

\* A descriptor is filled; the interrupt follows.
Indicate(d) ==
  /\ pc # "off"
  /\ Len(ind) < D
  /\ ind' = Append(ind, d)
  /\ unraised' = TRUE
  /\ UNCHANGED <<buf, irq, pc, count, rx_status, pending>>

Statuses(n) == {{"FORWARD", "ALLOC"}, {"ALLOC"}}
                 \cup IF n # 1 THEN {}
                      ELSE {{"SPURIOUS"}} \cup IF MonitorVif THEN {{"MONITOR"}} ELSE {}

\* A frame is received into the next n buffers.
FwReceive ==
  \E n \in 1 .. MaxMsdu : \E status \in Statuses(n) :
    LET d == [ids |-> SubSeq(ring, 1, n), status |-> status]
    IN  /\ n <= Len(ring)
        /\ Indicate(d)
        /\ ring' = SubSeq(ring, n + 1, Len(ring))
        /\ reord' = IF status = {"ALLOC"} THEN reord \cup Ids(d) ELSE reord
        /\ Cardinality(reord') <= MaxReord

\* A buffer leaves reordering, or its length is corrected there.
FwRelease ==
  \E i \in reord : \E status \in {{"FORWARD"}, {"DELETE"}, {"LEN_UPDATE"}} :
    /\ Indicate([ids |-> <<i>>, status |-> status])
    /\ reord' = IF status = {"LEN_UPDATE"} THEN reord ELSE reord \ {i}
    /\ UNCHANGED ring

FwRaise ==
  /\ unraised
  /\ unraised' = FALSE
  /\ irq' = TRUE
  /\ UNCHANGED <<buf, ring, reord, ind, pc, count, rx_status, pending>>

Firmware == FwReceive \/ FwRelease \/ FwRaise
Task == RxDesc \/ RxEnd \/ TaskRest

Off == pc = "off" /\ UNCHANGED vars

Next == Irq \/ Task \/ Restart \/ Firmware \/ StackFrees \/ Off

Spec == Init /\ [][Next]_vars

\* The tasklet runs, the stack frees what it was given, the firmware raises the
\* interrupt of what it filled; and some interrupt always comes (Irq): the heart
\* beat asks the firmware for its state, and its answer is one.
LiveSpec ==
  /\ Spec
  /\ WF_vars(Irq)
  /\ WF_vars(Task)
  /\ WF_vars(FwRaise)
  /\ WF_vars(StackFrees)

-----------------------------------------------------------------------------
(* Properties *)

\* The buffers a descriptor gives back.
Returned(d) ==
  IF d.status \cap {"FORWARD", "DELETE", "MONITOR", "SPURIOUS"} # {} THEN Ids(d) ELSE {}

\* The buffers the firmware counts on getting for it.
Owed(d) == Asked(d) + IF d.status \cap {"SPURIOUS", "MONITOR"} # {} THEN 1 ELSE 0

Total(f(_)) ==
  LET sum[n \in 0 .. Len(ind)] == IF n = 0 THEN 0 ELSE sum[n - 1] + f(ind[n])
  IN  sum[Len(ind)]

Coming == UNION {Returned(ind[n]) : n \in DOMAIN ind}
Pushed == {ring[n] : n \in DOMAIN ring}
ReturnedBy(d) == Cardinality(Returned(d))

\* The table, the memory, the ring and the descriptors are what they should be.
TypeOK ==
  /\ buf \in [listed : SUBSET Index, idx : Index, free : 0 .. Memory,
              stack : 0 .. Memory, fail : 0 .. N]
  /\ ring \in Seq(Index) /\ Len(ring) <= N
  /\ reord \subseteq Index
  /\ Len(ind) <= D
  /\ unraised \in BOOLEAN /\ irq \in BOOLEAN
  /\ rx_status \in BOOLEAN /\ pending \in BOOLEAN
  /\ pc \in {"idle", "first", "rest", "second", "off"}
  /\ count \in 0 .. MaxRx + 1

\* Every buffer has one owner: those listed, which the device may write to, those
\* in the stack and the free ones add up to the memory.  None is handed up or
\* freed while it is listed, none is taken off the list and kept.
OneOwnerEach == Cardinality(buf.listed) + buf.free + buf.stack = Memory

\* What the firmware has, in the ring, in its reordering or in a descriptor on the
\* way back, is in the table, and it has each buffer in one of them only: no index
\* is reused too early.  Nothing else is in the table, unless frames are delivered
\* to a monitor interface, which may be gone by then: nothing leaks.
TableMatchesFirmware ==
  LET has == Pushed \cup reord \cup Coming
  IN  /\ has \subseteq buf.listed
      /\ Cardinality(has) = Len(ring) + Cardinality(reord) + Total(ReturnedBy)
      /\ ~MonitorVif => buf.listed = has

\* Memory, host table and firmware agree on every buffer: none is used by two of
\* them, and none is lost between them, but for those of frames that come for a
\* monitor interface that is gone; every variable keeps its type.
BuffersAreTracked == TypeOK /\ OneOwnerEach /\ TableMatchesFirmware

\* The firmware's supply never shrinks for good: what it has to receive into,
\* what it is about to get and what the memory refused add up to rx_bufnb.
SupplyKept == pc # "off" => Len(ring) + Total(Owed) + buf.fail = N

\* When the tasklet ends, a filled descriptor still has its interrupt.
NeverStalls == pc = "idle" /\ ind # <<>> => irq \/ unraised

\* A band that ran out of buffers, its memory all in the stack, receives again.
NeverStarves == ring = <<>> ~> ring # <<>> \/ pc = "off"
=============================================================================
