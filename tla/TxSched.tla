------------------------------ MODULE TxSched ------------------------------
(***************************************************************************)
(* The transmit scheduler: the per-station transmit queues (txq), the      *)
(* hardware queue (hwq) they share, its tokens, and the frames in flight   *)
(* in the descriptor ring between the host and the firmware.               *)
(*                                                                         *)
(* Every operation runs under tx_lock, so every action is one whole        *)
(* critical section.  An operation that calls others is the composition of *)
(* their operators on the record of the state, in the order of the calls.  *)
(*                                                                         *)
(* One access category is modelled: its hwq and, per station, the one txq  *)
(* of that category (the power-save counters of the station are therefore  *)
(* fields of the txq).  The accelerated list, MU-MIMO and the memory       *)
(* limits of CONFIG_WIFI_LITE_MEMORY are left out.  The ring is the FIFO   *)
(* that module TxRing implements.                                          *)
(***************************************************************************)
EXTENDS Integers, FiniteSets, SequencesExt

CONSTANTS
  Txq,             \* transmit queues, one per station
  Skb,             \* frames
  Mgmt,            \* the frames that are management frames
  Ping,            \* the frames that are ICMP echo messages
  PsIds,           \* the values of ps_id stations join with
  Size,            \* nx_txdesc_cnt: descriptors of the ring
  Tokens,          \* NUM_TX_DESCS_PER_AC
  InitialCredits,  \* NX_TXQ_INITIAL_CREDITS
  MaxCredits,      \* the most the firmware ever grants a queue (bound)
  CfmCredits,      \* credits a confirmation may carry
  MaxInit,         \* bound on init_time
  FlowStop,        \* SIWIFI_NDEV_FLOW_CTRL_STOP
  FlowRestart,     \* SIWIFI_NDEV_FLOW_CTRL_RESTART
  PsDrop,          \* SIWIFI_NDEV_PS_ACTIVE_DROP
  Reasons,         \* reasons for which the vif stops its queues
  PsStates,        \* power-save states the firmware reports
  Decs,            \* credit_dec values of the temperature control
  Stuck,           \* may a queue stay on stuck_check_list for 40 seconds?
  None             \* no frame, no queue, no token

ASSUME SchedAssumption ==
  /\ Mgmt \subseteq Skb /\ Ping \subseteq Skb \ Mgmt
  /\ PsIds \subseteq {"LEGACY_PS_ID", "UAPSD_ID"}
  /\ Size \in Nat \ {0} /\ Tokens \in 1 .. Size
  /\ InitialCredits \in 1 .. MaxCredits /\ MaxCredits \in Nat
  /\ CfmCredits \subseteq Nat /\ MaxInit \in Nat
  /\ FlowStop \in Nat /\ FlowRestart \in 0 .. FlowStop /\ PsDrop \in Nat
  /\ Reasons \subseteq {"CHAN", "RECALI", "VIF_PS", "CSA"}
  /\ PsStates \subseteq {"ON", "OFF", "OFF_FORCE"}
  /\ Decs \subseteq 0 .. Size - 1 /\ Stuck \in BOOLEAN
  /\ None \notin Txq \cup Skb \cup (1 .. Tokens)
  /\ IsFiniteSet(Txq)

Token == 1 .. Tokens

VARIABLES
  txq,       \* struct siwifi_txq of every queue
  hwq,       \* struct siwifi_hwq
  skb,       \* struct siwifi_sw_txhdr of every frame, and its hw_hdr.cfm
  ring,      \* the frames in the descriptor ring, oldest first
  stuck,     \* stuck_check_list
  vif_stop,  \* the reasons that stop the vif, as its other queues record them
  irq        \* "process" from an interrupt to its siwifi_hwq_process_all

vars == <<txq, hwq, skb, ring, stuck, vif_stop, irq>>

NoHdr == [txq |-> None, init_time |-> 0, token |-> None, status |-> "pending",
          credits |-> 0]

FreshTxq(time, stop, ps_id) ==
  [active |-> TRUE, stop |-> stop, flow |-> FALSE, credits |-> InitialCredits,
   sk_list |-> <<>>, last_retry_skb |-> None, nb_retry |-> 0, push_limit |-> 0,
   token_pkt_num |-> [k \in Token |-> 0], init_time |-> time,
   ps_id |-> ps_id, ps_active |-> FALSE, pkt_ready |-> 0, sp_cnt |-> 0]

Init ==
  /\ \E ps_id \in [Txq -> PsIds] : txq = [t \in Txq |-> FreshTxq(0, {}, ps_id[t])]
  /\ hwq = [list |-> <<>>, credits |-> Size, dec |-> 0,
            need_processing |-> FALSE, token_status |-> [k \in Token |-> FALSE],
            outstanding_tokens |-> 0]
  /\ skb = [f \in Skb |-> NoHdr]
  /\ ring = <<>>
  /\ stuck = {}
  /\ vif_stop = {}
  /\ irq = "idle"

-----------------------------------------------------------------------------
(* The two lists a queue's sched_list node may be on.                      *)

Now == [txq |-> txq, hwq |-> hwq, skb |-> skb, ring |-> ring, stuck |-> stuck]

Becomes(state) ==
  \E s \in {state} :
    /\ txq' = s.txq
    /\ hwq' = s.hwq
    /\ skb' = s.skb
    /\ ring' = s.ring
    /\ stuck' = s.stuck

IsScheduled(s, t) == Contains(s.hwq.list, t)
IsStopped(s, t) == s.txq[t].stop # {}
HasData(s, t) == s.txq[t].sk_list # <<>>

FreeSkbs(s, dead) ==
  [s EXCEPT !.skb = [f \in Skb |-> IF f \in dead THEN NoHdr ELSE @[f]]]

AddToStuckCheckList(s, t) == [s EXCEPT !.stuck = @ \cup {t}]
DelFromStuckCheckList(s, t) == [s EXCEPT !.stuck = @ \ {t}]

AddToHwList(s, t) ==
  IF IsScheduled(s, t) THEN s
  ELSE [DelFromStuckCheckList(s, t) EXCEPT !.hwq.list = Append(@, t),
                                           !.hwq.need_processing = TRUE]

(* Mutant: a queue taken off with frames is not watched. *)
DelUnwatched(s, t) == [s EXCEPT !.hwq.list = RemoveFirst(@, t)]

DelFromHwList(s, t) ==
  LET off == [s EXCEPT !.hwq.list = RemoveFirst(@, t)]
  IN  IF ~IsScheduled(s, t) THEN s
      ELSE IF HasData(s, t) THEN AddToStuckCheckList(off, t) ELSE off

(* Mutant: one reason gone starts the queue whatever else stops it. *)
StartAnyway(s, t, reason) ==
  LET r == [s EXCEPT !.txq[t].stop = @ \ {reason}]
  IN  IF s.txq[t].active /\ reason \in s.txq[t].stop /\ HasData(r, t)
      THEN AddToHwList(r, t) ELSE r

Start(s, t, reason) ==
  LET r == [s EXCEPT !.txq[t].stop = @ \ {reason}]
  IN  IF ~(s.txq[t].active /\ reason \in s.txq[t].stop) THEN s
      ELSE IF ~IsStopped(r, t) /\ HasData(r, t) THEN AddToHwList(r, t) ELSE r

Stop(s, t, reason) ==
  IF s.txq[t].active
  THEN DelFromHwList([s EXCEPT !.txq[t].stop = @ \cup {reason}], t)
  ELSE s

-----------------------------------------------------------------------------
(* Queueing a frame, dropping frames.                                      *)

Smallest(a, b) == IF a < b THEN a ELSE b

(* A retried frame goes behind the frames retried before it, a ping too.   *)
BehindRetries(q) ==
  IF q.last_retry_skb = None THEN 1
  ELSE 1 + CHOOSE i \in 1 .. Len(q.sk_list) : q.sk_list[i] = q.last_retry_skb

Insert(s, t, f, how) ==
  LET q == s.txq[t]
      at == IF how = "tail" THEN Len(q.sk_list) + 1 ELSE BehindRetries(q)
      r == [s EXCEPT !.txq[t].sk_list = InsertAt(@, at, f)]
  IN  IF how = "retry"
      THEN [r EXCEPT !.txq[t].last_retry_skb = f, !.txq[t].nb_retry = @ + 1]
      ELSE r

CheckFlowCtrl(s, t) ==
  IF Len(s.txq[t].sk_list) > FlowStop THEN [s EXCEPT !.txq[t].flow = TRUE] ELSE s

QueueSkb(s, t, f, how) ==
  LET q == s.txq[t]
      r == IF q.ps_active /\ q.pkt_ready > PsDrop /\ f \notin Mgmt
           THEN FreeSkbs(s, {f})
           ELSE CheckFlowCtrl(Insert([s EXCEPT !.txq[t].pkt_ready =
                                        IF q.ps_active THEN @ + 1 ELSE @], t, f, how), t)
  IN  IF ~IsStopped(r, t) THEN AddToHwList(r, t)
      ELSE IF HasData(r, t) /\ ~IsScheduled(r, t) THEN AddToStuckCheckList(r, t)
      ELSE r

Flush(s, t) ==
  LET q == s.txq[t]
      n == Len(q.sk_list)
  IN  [FreeSkbs(s, ToSet(q.sk_list)) EXCEPT
         !.txq[t].sk_list = <<>>,
         !.txq[t].pkt_ready = IF q.ps_active THEN @ - n ELSE @,
         !.txq[t].last_retry_skb = None,
         !.txq[t].nb_retry = 0,
         !.txq[t].flow = q.flow /\ n = 0]

(* Mutant: the retried frames are forgotten. *)
PsDropKeepsRetry(s, t) ==
  LET q == s.txq[t].sk_list
      drop == Smallest(Len(q), 1)
  IN  [FreeSkbs(s, ToSet(SubSeq(q, 1, drop))) EXCEPT
         !.txq[t].sk_list = SubSeq(q, drop + 1, Len(q)), !.txq[t].flow = FALSE]

(* A station that falls asleep with a full queue keeps only its tail.      *)
PsDropSkb(s, t) ==
  LET q == s.txq[t]
      n == Len(q.sk_list)
      drop == IF n > FlowRestart THEN n - FlowRestart ELSE IF n > 0 THEN 1 ELSE 0
      retries == IF q.nb_retry > drop THEN q.nb_retry - drop ELSE 0
  IN  [FreeSkbs(s, ToSet(SubSeq(q.sk_list, 1, drop))) EXCEPT
         !.txq[t].sk_list = SubSeq(q.sk_list, drop + 1, n),
         !.txq[t].nb_retry = retries,
         !.txq[t].last_retry_skb = IF retries = 0 \/ drop = n THEN None ELSE @,
         !.txq[t].flow = FALSE]

-----------------------------------------------------------------------------
(* Processing the hardware queue.                                          *)

GetCredits(q) ==
  IF q.push_limit # 0 /\ q.credits > q.push_limit THEN q.push_limit ELSE q.credits

(* How many frames siwifi_txq_get_skb_to_push takes, and its result: is    *)
(* the queue done for this pass?                                           *)
ToPush(s, t) ==
  Smallest(Smallest(GetCredits(s.txq[t]), s.hwq.credits), Size \div Tokens)

Taken(s, t) ==
  IF ToPush(s, t) <= 0 THEN 0 ELSE Smallest(ToPush(s, t), Len(s.txq[t].sk_list))

(* Mutant: the end of a service period is not noticed. *)
EmptyIgnoresLimit(s, t) ==
  s.txq[t].sk_list = <<>> \/ ToPush(s, t) >= Len(s.txq[t].sk_list)
TxqEmpty(s, t) ==
  LET q == s.txq[t]
      n == ToPush(s, t)
  IN  \/ q.sk_list = <<>>
      \/ n >= Len(q.sk_list)
      \/ n > 0 /\ q.push_limit # 0 /\ n = q.push_limit

FreeTokens(s) ==
  IF s.hwq.outstanding_tokens >= Tokens THEN {}
  ELSE {k \in Token : ~s.hwq.token_status[k]}

TakeToken(s, t, k) ==
  [s EXCEPT !.hwq.token_status[k] = TRUE, !.hwq.outstanding_tokens = @ + 1,
            !.txq[t].token_pkt_num[k] = 0]

(* siwifi_set_more_data_flag: a sleeping station is owed one frame less.   *)
MoreData(q) ==
  IF ~q.ps_active THEN q
  ELSE [q EXCEPT !.pkt_ready = IF @ > 0 THEN @ - 1 ELSE @,
                 !.sp_cnt = IF @ > 0 THEN @ - 1 ELSE @]

TxPush(s, t, f, k) ==
  LET q == s.txq[t]
      left == IF q.nb_retry > 0 THEN q.nb_retry - 1 ELSE 0
      r == [s EXCEPT
              !.txq[t] = [MoreData(q) EXCEPT
                            !.nb_retry = left,
                            !.last_retry_skb = IF left = 0 THEN None ELSE @,
                            !.credits = @ - 1,
                            !.push_limit = IF @ > 0 THEN @ - 1 ELSE @,
                            !.token_pkt_num[k] = @ + 1],
              !.skb[f].token = k]
      full == IF q.credits - 1 <= 0 THEN Stop(r, t, "FULL") ELSE r
  IN  [full EXCEPT !.ring = Append(@, f), !.hwq.credits = @ - 1]

(* Mutant: flow control is never restarted. *)
EndPushKeepsFlow(s, t) ==
  [s EXCEPT !.txq[t] = [@ EXCEPT !.sp_cnt = @ - s.txq[t].push_limit, !.push_limit = 0]]

(* The end of a legacy service period, or of one round of it.              *)
EndPush(s, t) ==
  LET q == s.txq[t]
  IN  [s EXCEPT !.txq[t] =
         IF q.push_limit > 0 /\ q.ps_id = "LEGACY_PS_ID"
         THEN [q EXCEPT !.sp_cnt = @ - q.push_limit, !.push_limit = 0]
         ELSE q,
       !.txq[t].flow = @ /\ Len(q.sk_list) >= FlowRestart]

(* The body of the loop once the queue holds the token k.  pkt_sent, the   *)
(* round-robin counter, is a choice: rotate says whether it has passed     *)
(* hwq->size.                                                              *)
PushTxq(s, t, k, rotate) ==
  LET n == Taken(s, t)
      q == s.txq[t].sk_list
      out == [TakeToken(s, t, k) EXCEPT !.txq[t].sk_list = SubSeq(q, n + 1, Len(q))]
      pushed == FoldLeft(LAMBDA r, f : TxPush(r, t, f, k), out, SubSeq(q, 1, n))
      turned == IF TxqEmpty(s, t) THEN DelFromHwList(pushed, t)
                ELSE IF rotate /\ pushed.hwq.credits = 0 /\ IsScheduled(pushed, t)
                THEN [pushed EXCEPT !.hwq.list = Append(Tail(@), Head(@))]
                ELSE pushed
  IN  EndPush(turned, t)

(* skip is the set of queues the airtime fairness passes over: never the   *)
(* slowest queue of the list, so never all of them.                        *)
ProcessTxq(p, t, skip, rotate) ==
  LET free == FreeTokens(p.s)
  IN  IF p.over \/ p.s.hwq.credits = 0 \/ free = {} THEN [p EXCEPT !.over = TRUE]
      ELSE IF t \in skip THEN p
      ELSE LET k == CHOOSE i \in free : \A j \in free : i <= j
           IN  [p EXCEPT !.s = PushTxq(p.s, t, k, rotate)]

HwqProcess(s, skip, rotate) ==
  FoldLeft(LAMBDA p, t : ProcessTxq(p, t, skip, rotate),
           [s |-> [s EXCEPT !.hwq.need_processing = FALSE], over |-> FALSE],
           s.hwq.list).s

Skips(s) == ((SUBSET ToSet(s.hwq.list)) \ {ToSet(s.hwq.list)}) \cup {{}}

-----------------------------------------------------------------------------
(* Confirming a frame.                                                     *)

(* Mutants: the token goes back with the first frame, or not at all. *)
ReturnTokenEarly(s, t, k) ==
  [s EXCEPT !.txq[t].token_pkt_num[k] = @ - 1, !.hwq.token_status[k] = FALSE,
            !.hwq.outstanding_tokens = IF s.hwq.token_status[k] THEN @ - 1 ELSE @]
ReturnNoToken(s, t, k) == [s EXCEPT !.txq[t].token_pkt_num[k] = @ - 1]

ReturnToken(s, t, k) ==
  LET r == [s EXCEPT !.txq[t].token_pkt_num[k] = @ - 1]
  IN  IF r.txq[t].token_pkt_num[k] # 0 THEN r
      ELSE [r EXCEPT !.hwq.token_status[k] = FALSE, !.hwq.outstanding_tokens = @ - 1]

GiveCredits(s, t, n) ==
  LET r == [s EXCEPT !.txq[t].credits = @ + n]
  IN  IF r.txq[t].credits <= 0 THEN Stop(r, t, "FULL") ELSE Start(r, t, "FULL")

TxRetry(s, t, f) ==
  LET h == s.skb[f]
      r == [s EXCEPT !.skb[f] = [NoHdr EXCEPT !.txq = t, !.init_time = h.init_time],
                     !.txq[t].credits = @ + h.credits]
  IN  QueueSkb(IF r.txq[t].credits > 0 THEN Start(r, t, "FULL") ELSE r, t, f, "retry")

(* Mutant: credits are not asked for. *)
ContinueFullService(s, t) ==
  IF s.txq[t].push_limit > 0 THEN AddToHwList(s, t) ELSE s

(* A sleeping station whose service period is not over is scheduled again. *)
ContinueService(s, t) ==
  IF s.txq[t].push_limit > 0 /\ "FULL" \notin s.txq[t].stop
  THEN AddToHwList(s, t)
  ELSE s

(* Mutant: freed descriptors do not have the hwq processed. *)
ConfirmQuietly(s) == [s EXCEPT !.ring = Tail(@), !.hwq.credits = @ + 1]

ConfirmAny(s) ==
  [s EXCEPT !.ring = Tail(@), !.hwq.credits = @ + 1, !.hwq.need_processing = TRUE]


(* The frame was pushed by a station that has left the queue since.        *)
IsStale(s, f) ==
  LET q == s.txq[s.skb[f].txq] IN q.init_time # s.skb[f].init_time \/ ~q.active

TxDataCfm(s, f) ==
  LET h == s.skb[f]
      t == h.txq
      r == ConfirmAny(s)
      owned == ReturnToken(r, t, h.token)
  IN  IF IsStale(s, f) THEN FreeSkbs(r, {f})
      ELSE IF h.status = "retry" /\ f \notin Mgmt THEN TxRetry(owned, t, f)
      ELSE LET paid == IF h.credits = 0 THEN owned ELSE GiveCredits(owned, t, h.credits)
           IN  FreeSkbs(ContinueService(paid, t), {f})

Done(f) == skb[f].status # "pending"

(* The frames at the head of the ring that the firmware is done with.      *)
Confirmable ==
  SubSeq(ring, 1, CHOOSE n \in 0 .. Len(ring) :
                    /\ \A i \in 1 .. n : Done(ring[i])
                    /\ n < Len(ring) => ~Done(ring[n + 1]))

-----------------------------------------------------------------------------
(* The network stack and cfg80211: siwifi_start_xmit and                   *)
(* siwifi_start_mgmt_xmit.  A frame for a queue that is gone, or for a     *)
(* full one, is dropped.                                                   *)
Xmit(t, f) ==
  /\ skb[f].txq = None
  /\ txq[t].active
  /\ f \notin Mgmt => ~txq[t].flow
  /\ LET mine == [NoHdr EXCEPT !.txq = t, !.init_time = txq[t].init_time]
         s == QueueSkb([Now EXCEPT !.skb[f] = mine], t, f,
                       IF f \in Ping THEN "ping" ELSE "tail")
     IN  IF IsStopped(s, t) THEN Becomes(s)
         ELSE \E skip \in Skips(s), rotate \in BOOLEAN :
                Becomes(HwqProcess(s, skip, rotate))
  /\ UNCHANGED <<vif_stop, irq>>

(* IPC_IRQ_E2A_TXCFM *)
TxCfm ==
  /\ Confirmable # <<>>
  /\ Becomes(FoldLeft(TxDataCfm, Now, Confirmable))
  /\ irq' = "process"
  /\ UNCHANGED vif_stop

(* Any interrupt, at its end: siwifi_hwq_process_all, which now and then   *)
(* also flushes the queues that have been stuck for 40 seconds.            *)
CheckStuck(s, late) ==
  LET flushed == FoldSet(LAMBDA t, r : Flush(r, t), s, late)
  IN  [flushed EXCEPT !.stuck = {t \in @ : HasData(flushed, t)}]

HwqProcessAll ==
  /\ irq = "process"
  /\ irq' = "idle"
  /\ \E skip \in Skips(Now), rotate \in BOOLEAN :
       LET s == IF hwq.need_processing THEN HwqProcess(Now, skip, rotate) ELSE Now
       IN  \/ Becomes(s)
           \/ \E late \in SUBSET s.stuck :
                (late # {} => Stuck) /\ Becomes(CheckStuck(s, late))
  /\ UNCHANGED vif_stop

(* An interrupt that brings anything else.                                 *)
OtherIrq ==
  /\ irq = "idle"
  /\ irq' = "process"
  /\ UNCHANGED <<txq, hwq, skb, ring, stuck, vif_stop>>

(* MM_PS_CHANGE_IND *)
PsEnable(s, t) ==
  LET r == Stop([s EXCEPT !.txq[t].ps_active = TRUE, !.txq[t].sp_cnt = 0], t, "STA_PS")
      kept == IF r.txq[t].flow THEN PsDropSkb(r, t) ELSE r
  IN  [kept EXCEPT !.txq[t].pkt_ready = Len(kept.txq[t].sk_list)]

PsDisable(s, t, force) ==
  LET r == [s EXCEPT !.txq[t].ps_active = FALSE, !.txq[t].push_limit = 0]
  IN  Start(IF force THEN DelFromStuckCheckList(Flush(r, t), t) ELSE r, t, "STA_PS")

PsChange(t) ==
  /\ txq[t].active
  /\ \E state \in PsStates :
       /\ (state = "ON") # txq[t].ps_active
       /\ Becomes(IF state = "ON" THEN PsEnable(Now, t)
                  ELSE PsDisable(Now, t, state = "OFF_FORCE"))
  /\ irq' = "process"
  /\ UNCHANGED vif_stop

(* MM_TRAFFIC_REQ_IND: the sleeping station asks for pkt_req frames, or    *)
(* for all of them.                                                        *)
PsTrafficReq(t, pkt_req) ==
  LET q == txq[t]
      asked == IF pkt_req = 0 THEN q.pkt_ready ELSE Smallest(pkt_req, q.pkt_ready)
      n == Smallest(asked, Smallest(Len(q.sk_list), q.credits))
  IN  /\ q.active
      /\ q.ps_active
      /\ q.sp_cnt = 0 /\ q.pkt_ready > 0
      /\ q.credits > 0 /\ q.sk_list # <<>>
      /\ Becomes(AddToHwList([Now EXCEPT !.txq[t].push_limit = n,
                                         !.txq[t].sp_cnt = n], t))
      /\ irq' = "process"
      /\ UNCHANGED vif_stop

(* ME_TX_CREDITS_UPDATE_IND *)
CreditUpdate(t, update) ==
  /\ txq[t].active
  /\ Becomes(GiveCredits(Now, t, update))
  /\ irq' = "process"
  /\ UNCHANGED vif_stop

(* Channel switches, calibration and P2P power save stop and start every   *)
(* queue of the vif; no interrupt need follow.                             *)
VifStop(reason) ==
  /\ vif_stop' = vif_stop \cup {reason}
  /\ Becomes(FoldSet(LAMBDA t, r : Stop(r, t, reason), Now, Txq))
  /\ UNCHANGED irq

VifStart(reason) ==
  /\ vif_stop' = vif_stop \ {reason}
  /\ Becomes(FoldSet(LAMBDA t, r : Start(r, t, reason), Now, Txq))
  /\ UNCHANGED irq

(* A station leaves: its tokens return at once, its frames in flight stay. *)
Deinit(t) ==
  LET held == {k \in Token : txq[t].token_pkt_num[k] > 0}
      s == [Now EXCEPT !.txq[t].ps_active = FALSE,
                       !.hwq.token_status = [k \in Token |-> @[k] /\ k \notin held],
                       !.hwq.outstanding_tokens = @ - Cardinality(held)]
      off == DelFromStuckCheckList(DelFromHwList(Flush(s, t), t), t)
  IN  /\ txq[t].active
      /\ Becomes([off EXCEPT !.txq[t].active = FALSE])
      /\ UNCHANGED <<vif_stop, irq>>

(* A station joins on the same queue.  siwifi_txq_vif_get_status hands it  *)
(* two of the vif's stop reasons.                                          *)
SetUp(t) ==
  /\ ~txq[t].active
  /\ txq[t].init_time < MaxInit
  /\ \E ps_id \in PsIds :
       txq' = [txq EXCEPT ![t] =
                 FreshTxq(txq[t].init_time + 1, vif_stop \cap {"CHAN", "VIF_PS"},
                          ps_id)]
  /\ UNCHANGED <<hwq, skb, ring, stuck, vif_stop, irq>>

(* Mutant: the new limit is subtracted on top of the old one. *)
AdjustOnTop(dec) ==
  /\ dec # hwq.dec
  /\ hwq' = [hwq EXCEPT !.credits = @ - dec, !.dec = dec]
  /\ UNCHANGED <<txq, skb, ring, stuck, vif_stop, irq>>

(* The temperature control lowers or restores the limit of the hwq.        *)
AdjustHwqCredits(dec) ==
  /\ dec # hwq.dec
  /\ hwq' = [hwq EXCEPT !.credits = @ - (dec - hwq.dec), !.dec = dec]
  /\ UNCHANGED <<txq, skb, ring, stuck, vif_stop, irq>>

-----------------------------------------------------------------------------
(* The firmware.                                                           *)

InFlight(t) ==
  {f \in ToSet(ring) : skb[f].txq = t /\ skb[f].init_time = txq[t].init_time}

(* It completes the frames of the ring in any order.                       *)
FwDone(f, status) ==
  /\ Contains(ring, f)
  /\ ~Done(f)
  /\ \E n \in CfmCredits :
       skb' = [skb EXCEPT ![f].status = status, ![f].credits = n]
  /\ UNCHANGED <<txq, hwq, ring, stuck, vif_stop, irq>>

(* It never has more than MaxCredits credits of a queue outstanding.       *)
Granted(t) ==
  txq[t].credits + Cardinality(InFlight(t))

FwUpdate(t) ==
  \E update \in {-1, 1} :
    /\ Granted(t) + update \in 1 .. MaxCredits
    /\ CreditUpdate(t, update)

-----------------------------------------------------------------------------
Host ==
  \/ \E t \in Txq, f \in Skb : Xmit(t, f)
  \/ TxCfm
  \/ HwqProcessAll
  \/ OtherIrq
  \/ \E t \in Txq : PsChange(t)
  \/ \E t \in Txq, n \in 0 .. 1 : PsTrafficReq(t, n)
  \/ \E r \in Reasons : VifStop(r)
  \/ \E r \in Reasons : VifStart(r)
  \/ \E t \in Txq : Deinit(t)
  \/ \E t \in Txq : SetUp(t)
  \/ \E d \in Decs : AdjustHwqCredits(d)

Firmware ==
  \/ \E f \in Skb : FwDone(f, "ok") \/ FwDone(f, "retry")
  \/ \E t \in Txq : FwUpdate(t)

Next == Host \/ Firmware

Spec == Init /\ [][Next]_vars

(* Interrupts keep coming (the driver itself polls the firmware with       *)
(* heart-beat messages), the handler runs, and the firmware does not ask   *)
(* for the same frame again for ever.  The first two conjuncts are the     *)
(* weak fairness of TxCfm and HwqProcessAll with ENABLED worked out.       *)
LiveSpec ==
  /\ Spec
  /\ []<>(Confirmable = <<>>) \/ []<><<TxCfm>>_vars
  /\ []<>(irq # "process") \/ []<><<HwqProcessAll>>_vars
  /\ WF_vars(OtherIrq)
  /\ \A f \in Skb : SF_vars(FwDone(f, "ok"))

-----------------------------------------------------------------------------
(* The state is well typed. *)
TypeOK ==
  /\ txq \in [Txq -> [active : BOOLEAN, flow : BOOLEAN, ps_active : BOOLEAN,
                      stop : SUBSET ({"FULL", "STA_PS"} \cup Reasons),
                      credits : Int, sk_list : Seq(Skb),
                      last_retry_skb : Skb \cup {None}, nb_retry : Nat,
                      push_limit : Nat, token_pkt_num : [Token -> Nat],
                      init_time : 0 .. MaxInit, ps_id : PsIds, pkt_ready : Nat,
                      sp_cnt : Int]]
  /\ hwq \in [list : Seq(Txq), credits : Int, dec : 0 .. Size - 1,
              need_processing : BOOLEAN, token_status : [Token -> BOOLEAN],
              outstanding_tokens : 0 .. Tokens]
  /\ skb \in [Skb -> [txq : Txq \cup {None}, init_time : 0 .. MaxInit,
                      token : Token \cup {None}, status : {"pending", "ok", "retry"},
                      credits : Nat]]
  /\ ring \in Seq(Skb)
  /\ stuck \subseteq Txq
  /\ vif_stop \subseteq Reasons
  /\ irq \in {"idle", "process"}

(* What siwifi_hwq_process asserts of every queue it visits: it is in use, *)
(* has credits and has a frame to push (siwifi_txq.c:1041-1044).           *)
ScheduledCanPush ==
  \A t \in ToSet(hwq.list) :
    txq[t].active /\ txq[t].credits > 0 /\ txq[t].sk_list # <<>>

(* A token is busy exactly while frames of one live queue travel under it, *)
(* the queue counts them, and the hwq counts the busy tokens: otherwise    *)
(* BUG_ON siwifi_tx.c:1551 fires or the hwq runs out of tokens for good.   *)
TokensMatchFlight ==
  /\ \A k \in Token, t \in Txq : txq[t].active =>
       txq[t].token_pkt_num[k] = Cardinality({f \in InFlight(t) : skb[f].token = k})
  /\ \A k \in Token : hwq.token_status[k] <=>
       Cardinality({t \in Txq : txq[t].active /\ txq[t].token_pkt_num[k] > 0}) = 1
  /\ hwq.outstanding_tokens = Cardinality({k \in Token : hwq.token_status[k]})

(* Credits of the hwq, frames in the ring and the temperature limit always *)
(* add up to the ring: a push always finds a free descriptor.              *)
CreditsMatchRing == hwq.credits + Len(ring) + hwq.dec = Size

(* A queue that may send and has frames is scheduled, a stopped one with   *)
(* frames is watched, and no queue is on both lists with its one node.     *)
NothingForgotten ==
  /\ \A t \in Txq : txq[t].active /\ txq[t].sk_list # <<>> =>
       /\ IsStopped(Now, t) => t \in stuck \cup ToSet(hwq.list)
       /\ ~IsStopped(Now, t) => IsScheduled(Now, t)
  /\ stuck \cap ToSet(hwq.list) = {}

(* Scheduled queues never wait for nothing: the hwq is to be processed, or *)
(* a frame in flight will have it processed.                               *)
NeverStalls == hwq.list # <<>> => hwq.need_processing \/ ring # <<>>

(* The retried frames are the first of their queue and last_retry_skb is   *)
(* the last of them: the queue never holds a pointer to a freed frame.     *)
RetriesLead ==
  \A t \in Txq : LET q == txq[t] IN
    q.last_retry_skb = IF q.nb_retry = 0 THEN None ELSE q.sk_list[q.nb_retry]

(* A frame is in one place: in its queue once, in the ring once, or free.  *)
NoFrameLost ==
  \A f \in Skb :
    LET places == [t \in Txq |-> Cardinality({i \in 1 .. Len(txq[t].sk_list) :
                                                txq[t].sk_list[i] = f})]
        queued == {t \in Txq : places[t] > 0}
        flying == {i \in 1 .. Len(ring) : ring[i] = f}
    IN  IF skb[f].txq = None THEN queued = {} /\ flying = {}
        ELSE \/ queued = {skb[f].txq} /\ places[skb[f].txq] = 1 /\ flying = {}
             \/ queued = {} /\ Cardinality(flying) = 1

(* A frame accepted is pushed or freed in the end: it is in one place, and *)
(* its queue is one the scheduler or the stuck list will come back to.     *)
(* Every variable keeps its type meanwhile.                                *)
FramesAreKept == TypeOK /\ NoFrameLost /\ NothingForgotten

(* While a station sleeps, the driver knows how many frames wait for it    *)
(* and owes it exactly the rest of the service period it has opened.       *)
ServiceAccounts ==
  \A t \in Txq : LET q == txq[t] IN
    /\ q.ps_active => q.pkt_ready = Len(q.sk_list) /\ q.sp_cnt = q.push_limit
    /\ q.active /\ q.push_limit > 0 => q.ps_active

(* The counters of a queue, of retries and of the service period, follow   *)
(* its frames through drops, flushes, retries and changes of power save.   *)
CountersFollowFrames == RetriesLead /\ ServiceAccounts

(* A queue that tells the stack to drop its frames has frames of its own   *)
(* whose push will clear the flag.                                         *)
FlowCtrlClears == \A t \in Txq : txq[t].flow => txq[t].sk_list # <<>>

(* No frame of a sleeping U-APSD station is pushed outside the service     *)
(* period it asked for.  (A legacy queue may push the rest of its frames   *)
(* after siwifi_txq.c:1128-1133 ended the period in the middle of a burst.)*)
SleepersKeepTheirFrames ==
  [][\A t \in Txq, f \in Skb :
       (/\ txq[t].ps_id = "UAPSD_ID"
        /\ txq[t].ps_active /\ txq[t].sp_cnt = 0 /\ txq'[t].ps_active
        /\ Contains(txq[t].sk_list, f))
       => ~Contains(ring', f)]_vars

(* While the vif is stopped no frame that was queued reaches the ring.     *)
StoppedVifIsSilent ==
  [][vif_stop # {} => \A f \in ToSet(ring') : Contains(ring, f)]_vars

(* The frame at the head of a queue leaves it: credits, tokens, the full   *)
(* flag and need_processing never block each other for ever.               *)
QueueMoves ==
  \A t \in Txq, f \in Skb :
    (HasData(Now, t) /\ Head(txq[t].sk_list) = f)
      ~> ~(HasData(Now, t) /\ Head(txq[t].sk_list) = f)
=============================================================================
