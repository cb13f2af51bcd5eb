--------------------------- MODULE TxSchedProofs ---------------------------
(* Proofs about the scheduler: for any queues, frames, tokens and limits,   *)
(* and every order of its critical sections, no frame is lost, the counters *)
(* follow the frames, tokens match what flies, and the hardware queue never *)
(* waits for nothing.                                                       *)
EXTENDS TxSchedOps

----------------------------------------------------------------------------
(* Confirming the frame at the head of the ring.                            *)

Popped(a, s) ==
  /\ a \in State /\ a.txq = s.txq /\ a.skb = s.skb /\ a.stuck = s.stuck
  /\ a.ring = Tail(s.ring) /\ a.hwq.credits = s.hwq.credits + 1
  /\ a.hwq.need_processing = TRUE /\ a.hwq.list = s.hwq.list /\ a.hwq.dec = s.hwq.dec
  /\ a.hwq.token_status = s.hwq.token_status
  /\ a.hwq.outstanding_tokens = s.hwq.outstanding_tokens

LEMMA ConfirmIs ==
  ASSUME NEW s \in State, s.ring # <<>>, NEW a, a = ConfirmAny(s)
  PROVE  Popped(a, s)
<1>1. PICK h, g, yes : h = s.hwq /\ g = Tail(s.ring) /\ yes = TRUE
  OBVIOUS
<1>2. s \in Raw /\ Once(s.hwq.list) /\ h \in HwQueue /\ g \in Seq(Skb) /\ h.credits \in Int
  <2>1. s \in Raw /\ Once(s.hwq.list) /\ h \in HwQueue /\ s.ring \in Seq(Skb)
    BY <1>1, StateIs DEF State
  <2>2. g \in Seq(Skb)
    BY <1>1, <2>1, Behead
  <2> QED  BY <2>1, <2>2 DEF HwQueue
<1>3. PICK c : c = h.credits + 1
  OBVIOUS
<1>4. PICK h1 : h1 = [h EXCEPT !.credits = c, !.need_processing = yes]
  OBVIOUS
<1>5. a = [s EXCEPT !.ring = g, !.hwq = h1]
  <2>1. a = [s EXCEPT !.ring = g, !.hwq.credits = c, !.hwq.need_processing = yes]
    BY <1>1, <1>3 DEF ConfirmAny
  <2> QED  BY ONLY <1>1, <1>2, <1>4, <2>1 DEF Raw
<1>6. h1 \in HwQueue
  <2>1. c \in Int /\ yes \in BOOLEAN
    BY <1>1, <1>2, <1>3
  <2> QED  BY ONLY <1>2, <1>4, <2>1 DEF HwQueue
<1>7. /\ h1.credits = c /\ h1.need_processing = TRUE /\ h1.list = h.list /\ h1.dec = h.dec
      /\ h1.token_status = h.token_status /\ h1.outstanding_tokens = h.outstanding_tokens
  BY ONLY <1>1, <1>2, <1>4 DEF HwQueue
<1>8. /\ a \in Raw /\ a.hwq = h1 /\ a.ring = g /\ a.txq = s.txq /\ a.skb = s.skb
      /\ a.stuck = s.stuck
  BY ONLY <1>2, <1>5, <1>6 DEF Raw
<1> QED  BY <1>1, <1>2, <1>3, <1>7, <1>8 DEF Popped, State

\* What Good says of the frame at the head, and of the ring without it.
LEMMA HeadIs ==
  ASSUME NEW s \in State, Good(s, {}), s.ring # <<>>, NEW f, f = Head(s.ring)
  PROVE  /\ f \in Skb /\ f \in ToSet(s.ring) /\ s.skb[f].txq \in Txq /\ s.skb[f].token \in Token
         /\ Tail(s.ring) \in Seq(Skb) /\ Once(Tail(s.ring)) /\ f \notin ToSet(Tail(s.ring))
         /\ ToSet(s.ring) = ToSet(Tail(s.ring)) \cup {f}
         /\ Len(Tail(s.ring)) = Len(s.ring) - 1
         /\ s.skb[f].init_time <= s.txq[s.skb[f].txq].init_time
         /\ s.skb[f].init_time \in Nat /\ s.skb[f].credits \in Nat
<1>1. s.ring \in Seq(Skb) /\ Once(s.ring) /\ Frames(s, {})
  BY StateIs DEF Good, Frames
<1>2. /\ Tail(s.ring) \in Seq(Skb) /\ f \in Skb /\ Len(Tail(s.ring)) = Len(s.ring) - 1
      /\ f \in ToSet(s.ring) /\ ToSet(s.ring) = ToSet(Tail(s.ring)) \cup {f}
      /\ Once(Tail(s.ring)) /\ f \notin ToSet(Tail(s.ring))
  BY <1>1, Behead
<1>3. s.skb[f].txq \in Txq /\ s.skb[f].token \in Token
      /\ s.skb[f].init_time <= s.txq[s.skb[f].txq].init_time
  BY <1>1, <1>2 DEF Frames
<1>4. s.skb[f] \in Hdr
  BY <1>2, StateIs
<1>5. s.skb[f].init_time \in Nat /\ s.skb[f].credits \in Nat
  BY <1>4 DEF Hdr
<1> QED  BY <1>2, <1>3, <1>5

\* A queue of which only the count of frames per token has changed.
SameBut(p, q) ==
  /\ p.active = q.active /\ p.init_time = q.init_time
  /\ p.sk_list = q.sk_list /\ p.ps_active = q.ps_active /\ p.ps_id = q.ps_id
  /\ p.nb_retry = q.nb_retry /\ p.last_retry_skb = q.last_retry_skb
  /\ p.push_limit = q.push_limit /\ p.pkt_ready = q.pkt_ready
  /\ p.sp_cnt = q.sp_cnt /\ p.flow = q.flow /\ p.stop = q.stop /\ p.credits = q.credits

\* The places and the frames once the head is in the hands of the code.
LEMMA PoppedFrames ==
  ASSUME NEW s \in State, Good(s, {}), s.ring # <<>>, NEW f, f = Head(s.ring),
         NEW a \in State, a.ring = Tail(s.ring), a.skb = s.skb, a.hwq.list = s.hwq.list,
         a.stuck = s.stuck, a.hwq.credits = s.hwq.credits + 1, a.hwq.dec = s.hwq.dec,
         \A u \in Txq : SameBut(a.txq[u], s.txq[u])
  PROVE  /\ \A u \in Txq : QueueOK(a.txq[u]) /\ PlaceOK(a, u)
         /\ Frames(a, {f}) /\ SumOK(a)
<1>0. ASSUME NEW u \in Txq
      PROVE  /\ a.txq[u].active = s.txq[u].active /\ a.txq[u].init_time = s.txq[u].init_time
             /\ a.txq[u].sk_list = s.txq[u].sk_list
             /\ a.txq[u].ps_active = s.txq[u].ps_active /\ a.txq[u].ps_id = s.txq[u].ps_id
             /\ a.txq[u].nb_retry = s.txq[u].nb_retry
             /\ a.txq[u].last_retry_skb = s.txq[u].last_retry_skb
             /\ a.txq[u].push_limit = s.txq[u].push_limit
             /\ a.txq[u].pkt_ready = s.txq[u].pkt_ready
             /\ a.txq[u].sp_cnt = s.txq[u].sp_cnt /\ a.txq[u].flow = s.txq[u].flow
             /\ a.txq[u].stop = s.txq[u].stop /\ a.txq[u].credits = s.txq[u].credits
  BY DEF SameBut
<1>1. Listed(a) = Listed(s)
  BY DEF Listed
<1>2. /\ f \in Skb /\ f \in ToSet(s.ring) /\ s.skb[f].txq \in Txq
      /\ Once(a.ring) /\ f \notin ToSet(a.ring)
      /\ ToSet(s.ring) = ToSet(a.ring) \cup {f} /\ Len(a.ring) = Len(s.ring) - 1
  BY HeadIs
<1>3. \A u \in Txq : QueueOK(a.txq[u]) /\ PlaceOK(a, u)
  <2> TAKE u \in Txq
  <2>1. QueueOK(s.txq[u]) /\ PlaceOK(s, u)
    BY DEF Good
  <2>2. QueueOK(a.txq[u])
    BY <1>0, <2>1, SMTT(30) DEF QueueOK
  <2>3. PlaceOK(a, u)
    BY <1>0, <1>1, <2>1 DEF PlaceOK
  <2> QED  BY <2>2, <2>3
<1>4. Frames(a, {f})
  <2>1. Frames(s, {})
    BY DEF Good
  <2> QED  BY <1>0, <1>2, <2>1 DEF Frames
<1>5. SumOK(a)
  <2>1. SumOK(s) /\ Len(s.ring) \in Nat /\ s.hwq \in HwQueue /\ Size \in Int
    BY StateIs, SchedAssumption DEF Good, SchedAssumption
  <2>2. s.hwq.credits \in Int /\ s.hwq.dec \in Int
    BY <2>1 DEF HwQueue
  <2>3. /\ a.hwq.credits = s.hwq.credits + 1 /\ a.hwq.dec = s.hwq.dec
        /\ Len(a.ring) = Len(s.ring) - 1 /\ s.hwq.credits + Len(s.ring) + s.hwq.dec = Size
    BY <1>2, <2>1 DEF SumOK
  <2>4. a.hwq.credits + Len(a.ring) + a.hwq.dec = Size
    <3>1. PICK x \in Int, y \in Int, z \in Int :
            x = s.hwq.credits /\ y = s.hwq.dec /\ z = Len(s.ring)
      BY <2>1, <2>2
    <3>2. x + z + y = Size /\ Len(a.ring) = z - 1 /\ a.hwq.credits = x + 1 /\ a.hwq.dec = y
      BY <2>3, <3>1
    <3>3. (x + 1) + (z - 1) + y = x + z + y
      OBVIOUS
    <3> QED  BY ONLY <3>2, <3>3
  <2> QED  BY <2>4 DEF SumOK
<1> QED  BY <1>3, <1>4, <1>5

\* A frame of a station that has left: it is freed and nothing else.
LEMMA StaleGood ==
  ASSUME NEW s \in State, Good(s, {}), s.ring # <<>>, NEW f, f = Head(s.ring),
         IsStale(s, f), NEW a, Popped(a, s)
  PROVE  Good(a, {f}) /\ (Held(s) => Held(a))
<1>1. PICK t \in Txq : t = s.skb[f].txq
  BY HeadIs
<1>2. /\ f \in Skb /\ f \notin ToSet(a.ring) /\ ToSet(s.ring) = ToSet(a.ring) \cup {f}
  BY HeadIs DEF Popped
<1>3. s.txq[t].init_time # s.skb[f].init_time \/ ~s.txq[t].active
  BY <1>1 DEF IsStale
<1>4. \A u \in Txq : SameBut(a.txq[u], s.txq[u])
  BY DEF Popped, SameBut
<1>5. /\ a \in State /\ a.ring = Tail(s.ring) /\ a.skb = s.skb /\ a.hwq.list = s.hwq.list
      /\ a.stuck = s.stuck /\ a.hwq.credits = s.hwq.credits + 1 /\ a.hwq.dec = s.hwq.dec
      /\ a.txq = s.txq /\ a.hwq.token_status = s.hwq.token_status
      /\ a.hwq.outstanding_tokens = s.hwq.outstanding_tokens
  BY DEF Popped
<1>6. /\ \A u \in Txq : QueueOK(a.txq[u]) /\ PlaceOK(a, u)
      /\ Frames(a, {f}) /\ SumOK(a)
  BY <1>4, <1>5, PoppedFrames
<1>7. \A u \in Txq, k \in Token : a.txq[u].active => Flight(a, u, k) = Flight(s, u, k)
  BY <1>1, <1>2, <1>3, <1>5, ZenonT(30) DEF Flight
<1>8. TokensOK(a)
  <2>1. TokensOK(s) /\ Busy(a) = Busy(s)
    BY <1>5 DEF Good, Busy
  <2> QED  BY <1>5, <1>7, <2>1 DEF TokensOK
<1>9. Held(s) => Held(a)
  BY <1>5 DEF Held
<1> QED  BY <1>5, <1>6, <1>8, <1>9 DEF Good

LEMMA FlightFinite ==
  ASSUME NEW s \in State, NEW t \in Txq, NEW k \in Token
  PROVE  IsFiniteSet(Flight(s, t, k)) /\ IsFiniteSet(Busy(s)) /\ IsFiniteSet(ToSet(s.ring))
<1>1. PICK q \in Seq(Skb) : q = s.ring
  BY StateIs
<1>2. q \in Surjection(1 .. Len(q), ToSet(q))
  BY <1>1, SetIs DEF Surjection
<1>3. IsFiniteSet(1 .. Len(q))
  BY <1>1, FS_Interval
<1>4. IsFiniteSet(ToSet(q))
  BY <1>2, <1>3, FS_Surjection
<1>5. Flight(s, t, k) \in SUBSET ToSet(q)
  BY <1>1 DEF Flight
<1> QED  BY <1>1, <1>4, <1>5, FS_Subset, GoneIs

\* siwifi_txq_return_token: one frame less under token k; the last one frees it.
Returned(b, a, t, k) ==
  /\ b \in State /\ b.ring = a.ring /\ b.skb = a.skb /\ b.stuck = a.stuck
  /\ b.hwq.credits = a.hwq.credits /\ b.hwq.dec = a.hwq.dec /\ b.hwq.list = a.hwq.list
  /\ b.hwq.need_processing = a.hwq.need_processing
  /\ \A u \in Txq \ {t} : b.txq[u] = a.txq[u]
  /\ SameBut(b.txq[t], a.txq[t])
  /\ b.txq[t].token_pkt_num = [a.txq[t].token_pkt_num EXCEPT ![k] = a.txq[t].token_pkt_num[k] - 1]
  /\ Busy(b) = IF a.txq[t].token_pkt_num[k] = 1 THEN Busy(a) \ {k} ELSE Busy(a)
  /\ b.hwq.outstanding_tokens = a.hwq.outstanding_tokens -
       (IF a.txq[t].token_pkt_num[k] = 1 THEN 1 ELSE 0)

LEMMA ReturnIs ==
  ASSUME NEW a \in State, NEW t \in Txq, NEW k \in Token, NEW b, b = ReturnToken(a, t, k)
  PROVE  Returned(b, a, t, k)
<1>1. PICK q, h, no : q = a.txq[t] /\ h = a.hwq /\ no = FALSE
  OBVIOUS
<1>2. a \in Raw /\ q \in Queue /\ h \in HwQueue /\ Once(h.list)
  BY <1>1, StateIs DEF State
<1>3. /\ q.token_pkt_num \in [Token -> Int] /\ q.token_pkt_num[k] \in Int
      /\ h.token_status \in [Token -> BOOLEAN] /\ h.outstanding_tokens \in Int
  BY <1>2 DEF Queue, HwQueue
<1>4. PICK c, tp : c = q.token_pkt_num[k] - 1 /\ tp = [q.token_pkt_num EXCEPT ![k] = c]
  OBVIOUS
<1>5. c \in Int /\ tp \in [Token -> Int] /\ tp[k] = c
  BY <1>3, <1>4
<1>6. PICK p : p = [q EXCEPT !.token_pkt_num = tp]
  OBVIOUS
<1>7. p \in Queue /\ p.token_pkt_num = tp /\ SameBut(p, q)
  BY ONLY <1>2, <1>5, <1>6 DEF Queue, SameBut
<1>8. PICK d : d = SetQ(a, t, p)
  OBVIOUS
<1>9. d = [a EXCEPT !.txq[t].token_pkt_num[k] = @ - 1]
  <2>1. d = [a EXCEPT !.txq[t].token_pkt_num[k] = c]
    BY ONLY <1>1, <1>2, <1>4, <1>6, <1>8, t \in Txq DEF Raw, SetQ, Queue
  <2> QED  BY ONLY <1>1, <1>4, <2>1
<1>10. Only(d, a, t, p)
  BY ONLY a \in State, t \in Txq, <1>7, <1>8, SetQIs
<1>11. /\ d \in State /\ d.txq[t] = p /\ \A u \in Txq \ {t} : d.txq[u] = a.txq[u]
       /\ d.hwq = h /\ d.skb = a.skb /\ d.ring = a.ring /\ d.stuck = a.stuck
  BY <1>1, <1>10 DEF Only
<1>12. d.txq[t].token_pkt_num[k] = c
  BY <1>5, <1>7, <1>11
<1>13. CASE c # 0
  <2>1. b = d
    BY <1>9, <1>12, <1>13 DEF ReturnToken
  <2>2. q.token_pkt_num[k] # 1
    BY <1>3, <1>4, <1>13
  <2>3. Busy(b) = Busy(a) /\ h.outstanding_tokens = h.outstanding_tokens - 0
    BY <1>1, <1>3, <1>11, <2>1 DEF Busy
  <2> QED  BY <1>1, <1>4, <1>7, <1>11, <2>1, <2>2, <2>3 DEF Returned
<1>14. CASE c = 0
  <2>1. PICK ts, ot : ts = [h.token_status EXCEPT ![k] = no] /\ ot = h.outstanding_tokens - 1
    OBVIOUS
  <2>2. ts \in [Token -> BOOLEAN] /\ ot \in Int
    <3>1. no \in BOOLEAN
      BY <1>1
    <3> QED  BY ONLY <1>3, <2>1, <3>1
  <2>3. PICK h1 : h1 = [h EXCEPT !.token_status = ts, !.outstanding_tokens = ot]
    OBVIOUS
  <2>4. /\ h1 \in HwQueue /\ h1.list = h.list /\ h1.credits = h.credits /\ h1.dec = h.dec
        /\ h1.need_processing = h.need_processing /\ h1.token_status = ts
        /\ h1.outstanding_tokens = ot
    BY ONLY <1>2, <2>2, <2>3 DEF HwQueue
  <2>5. b = [d EXCEPT !.hwq = h1]
    <3>1. b = [d EXCEPT !.hwq.token_status[k] = no, !.hwq.outstanding_tokens = @ - 1]
      BY <1>1, <1>9, <1>12, <1>14 DEF ReturnToken
    <3>2. d \in Raw
      BY <1>11 DEF State
    <3> QED  BY ONLY <1>2, <1>11, <2>1, <2>3, <3>1, <3>2 DEF Raw, HwQueue
  <2>6. /\ b \in Raw /\ b.hwq = h1 /\ b.txq = d.txq /\ b.skb = d.skb /\ b.ring = d.ring
        /\ b.stuck = d.stuck
    <3>1. d \in Raw
      BY <1>11 DEF State
    <3> QED  BY ONLY <2>4, <2>5, <3>1 DEF Raw
  <2>7. b \in State
    BY <1>2, <2>4, <2>6 DEF State
  <2>8. q.token_pkt_num[k] = 1
    BY <1>3, <1>4, <1>14
  <2>9. Busy(b) = Busy(a) \ {k}
    <3>1. \A j \in Token : ts[j] <=> a.hwq.token_status[j] /\ j # k
      BY <1>1, <1>3, <2>1
    <3>2. b.hwq.token_status = ts
      BY <2>4, <2>6
    <3> QED  BY ONLY <3>1, <3>2 DEF Busy
  <2> QED  BY <1>1, <1>4, <1>7, <1>11, <2>1, <2>4, <2>6, <2>7, <2>8, <2>9 DEF Returned
<1> QED  BY <1>13, <1>14

TakenUp(b, s, f, t) ==
  /\ s.txq[t].active /\ s.skb[f].init_time = s.txq[t].init_time
  /\ Good(b, {f}) /\ (Held(s) => Held(b))

\* A frame of a live queue leaves the ring: it is in the hands of the code.
LEMMA TakenGood ==
  ASSUME NEW s \in State, Good(s, {}), s.ring # <<>>, NEW f, f = Head(s.ring),
         ~IsStale(s, f), NEW a, Popped(a, s), NEW t, t = s.skb[f].txq,
         NEW k, k = s.skb[f].token, NEW b, Returned(b, a, t, k)
  PROVE  TakenUp(b, s, f, t)
<1>1. /\ f \in Skb /\ f \in ToSet(s.ring) /\ t \in Txq /\ k \in Token
      /\ f \notin ToSet(a.ring) /\ ToSet(s.ring) = ToSet(a.ring) \cup {f}
  BY HeadIs, ZenonT(30) DEF Popped
<1>2. s.txq[t].active /\ s.skb[f].init_time = s.txq[t].init_time
  BY DEF IsStale
<1>3. /\ a \in State /\ a.txq = s.txq /\ a.skb = s.skb /\ a.stuck = s.stuck
      /\ a.ring = Tail(s.ring) /\ a.hwq.credits = s.hwq.credits + 1
      /\ a.hwq.list = s.hwq.list /\ a.hwq.dec = s.hwq.dec
      /\ a.hwq.token_status = s.hwq.token_status
      /\ a.hwq.outstanding_tokens = s.hwq.outstanding_tokens
  BY DEF Popped
<1>4. PICK n, m, c : n = s.txq[t].token_pkt_num /\ m = b.txq[t].token_pkt_num /\ c = n[k]
  OBVIOUS
<1>5. /\ b \in State /\ b.ring = a.ring /\ b.skb = a.skb /\ b.stuck = a.stuck
      /\ b.hwq.credits = a.hwq.credits /\ b.hwq.dec = a.hwq.dec /\ b.hwq.list = a.hwq.list
      /\ \A u \in Txq \ {t} : b.txq[u] = a.txq[u]
      /\ SameBut(b.txq[t], a.txq[t])
      /\ m = [n EXCEPT ![k] = c - 1]
      /\ Busy(b) = IF c = 1 THEN Busy(a) \ {k} ELSE Busy(a)
      /\ b.hwq.outstanding_tokens = a.hwq.outstanding_tokens - (IF c = 1 THEN 1 ELSE 0)
  BY <1>3, <1>4 DEF Returned
<1>6. n \in [Token -> Int] /\ c \in Int
  <2>1. s.txq[t] \in Queue
    BY <1>1, StateIs
  <2>2. n \in [Token -> Int]
    BY <1>4, <2>1 DEF Queue
  <2> QED  BY <1>1, <1>4, <2>2
<1>7. \A j \in Token : m[j] = IF j = k THEN c - 1 ELSE n[j]
  BY ONLY <1>1, <1>5, <1>6
<1>8. \A u \in Txq : SameBut(b.txq[u], s.txq[u])
  <2> TAKE u \in Txq
  <2>1. CASE u = t
    BY <1>3, <1>5, <2>1
  <2>2. CASE u # t
    <3>1. b.txq[u] = s.txq[u]
      BY <1>3, <1>5, <2>2
    <3> QED  BY <3>1 DEF SameBut
  <2> QED  BY <2>1, <2>2
<1>9. /\ \A u \in Txq : QueueOK(b.txq[u]) /\ PlaceOK(b, u)
      /\ Frames(b, {f}) /\ SumOK(b)
  <2>1. /\ b.ring = Tail(s.ring) /\ b.skb = s.skb /\ b.hwq.list = s.hwq.list
        /\ b.stuck = s.stuck /\ b.hwq.credits = s.hwq.credits + 1 /\ b.hwq.dec = s.hwq.dec
    BY <1>3, <1>5
  <2>2. b \in State
    BY <1>5
  <2>3. s \in State /\ Good(s, {}) /\ s.ring # <<>> /\ f = Head(s.ring)
    OBVIOUS
  <2> QED  BY ONLY <1>8, <2>1, <2>2, <2>3, PoppedFrames
<1>10. \A u \in Txq : /\ b.txq[u].active = s.txq[u].active
                      /\ b.txq[u].init_time = s.txq[u].init_time
  BY <1>8 DEF SameBut
<1>11. \A u \in Txq, j \in Token :
         (u # t \/ j # k) => Flight(b, u, j) = Flight(s, u, j)
  <2>1. ToSet(s.ring) = ToSet(b.ring) \cup {f} /\ b.skb = s.skb
    BY <1>1, <1>3, <1>5
  <2> QED  BY <1>10, <2>1 DEF Flight
<1>12. Flight(b, t, k) = Flight(s, t, k) \ {f} /\ f \in Flight(s, t, k)
  <2>1. ToSet(s.ring) = ToSet(b.ring) \cup {f} /\ b.skb = s.skb /\ f \notin ToSet(b.ring)
        /\ b.txq[t].init_time = s.txq[t].init_time
    BY <1>1, <1>3, <1>5, <1>10
  <2>2. s.skb[f].txq = t /\ s.skb[f].init_time = s.txq[t].init_time /\ s.skb[f].token = k
    BY <1>2
  <2> QED  BY ONLY <2>1, <2>2 DEF Flight
<1>13. TokensOK(s)
  BY DEF Good
<1>14. /\ c = Cardinality(Flight(s, t, k)) /\ c >= 1 /\ c - 1 = Cardinality(Flight(b, t, k))
       /\ k \in Busy(s) /\ c \in Nat /\ s.txq[t].token_pkt_num[k] = c
  <2>1. IsFiniteSet(Flight(s, t, k))
    BY <1>1, FlightFinite
  <2>0. s.txq[t].token_pkt_num[k] = c
    BY <1>4
  <2>2. c = Cardinality(Flight(s, t, k))
    BY <1>1, <1>2, <1>13, <2>0 DEF TokensOK
  <2>3. /\ Cardinality(Flight(b, t, k)) = Cardinality(Flight(s, t, k)) - 1
        /\ Cardinality(Flight(s, t, k)) # 0
    <3>1. PICK F, G : F = Flight(s, t, k) /\ G = Flight(b, t, k)
      OBVIOUS
    <3>2. IsFiniteSet(F) /\ G = F \ {f} /\ f \in F
      BY ONLY <1>12, <2>1, <3>1
    <3>3. Cardinality(F \ {f}) = Cardinality(F) - 1
      BY ONLY <3>2, FS_RemoveElement
    <3>4. Cardinality(F) # 0
      BY ONLY <3>2, FS_EmptySet
    <3> QED  BY ONLY <3>1, <3>2, <3>3, <3>4
  <2>4. c \in Nat
    BY <2>1, <2>2, FS_CardinalityType
  <2>5. c >= 1 /\ c - 1 = Cardinality(Flight(b, t, k)) /\ c > 0
    <3>1. PICK x \in Nat : x = c
      BY <2>4
    <3>2. Cardinality(Flight(b, t, k)) = x - 1 /\ x # 0
      BY <2>2, <2>3, <3>1
    <3>3. x >= 1 /\ x > 0
      BY ONLY <3>2, x \in Nat
    <3> QED  BY ONLY <3>1, <3>2, <3>3
  <2>6. s.hwq.token_status[k]
    BY <1>1, <1>2, <1>13, <2>0, <2>5 DEF TokensOK
  <2> QED  BY <1>1, <2>0, <2>2, <2>4, <2>5, <2>6 DEF Busy
<1>20. c \in Nat /\ c > 0 /\ c - 1 >= 0 /\ (c # 1 => c - 1 > 0) /\ ~(c = 1 /\ c - 1 > 0)
  <2>1. c \in Nat /\ c >= 1
    BY <1>14
  <2> QED  BY ONLY <2>1
<1>21. s.txq[t].token_pkt_num[k] > 0 /\ s.txq[t].token_pkt_num[k] = c
  <2>1. s.txq[t].token_pkt_num[k] = c
    BY <1>14
  <2> QED  BY ONLY <2>1, <1>20
<1>22. \A j \in Token : m[j] = b.txq[t].token_pkt_num[j] /\ n[j] = s.txq[t].token_pkt_num[j]
  BY <1>4
<1>15. \A j \in Token : b.hwq.token_status[j] <=> s.hwq.token_status[j] /\ ~(j = k /\ c = 1)
  <2>1. Busy(a) = Busy(s)
    BY <1>3 DEF Busy
  <2> QED  BY <1>5, <2>1 DEF Busy
<1>16. \A u \in Txq, j \in Token :
         b.txq[u].token_pkt_num[j] =
              IF u = t /\ j = k THEN c - 1 ELSE s.txq[u].token_pkt_num[j]
  <2> TAKE u \in Txq, j \in Token
  <2>1. CASE u = t
    <3>1. b.txq[u].token_pkt_num[j] = m[j] /\ s.txq[u].token_pkt_num[j] = n[j]
      BY <1>22, <2>1
    <3>2. m[j] = IF j = k THEN c - 1 ELSE n[j]
      BY <1>7
    <3> QED  BY <2>1, <3>1, <3>2
  <2>2. CASE u # t
    <3>1. b.txq[u] = s.txq[u]
      BY <1>3, <1>5, <2>2
    <3> QED  BY <2>2, <3>1
  <2> QED  BY <2>1, <2>2
<1>17. b.hwq.outstanding_tokens = Cardinality(Busy(b))
  <2>1. Busy(a) = Busy(s) /\ s.hwq.outstanding_tokens = Cardinality(Busy(s))
    BY <1>3, <1>13 DEF Busy, TokensOK
  <2>2. IsFiniteSet(Busy(s))
    BY <1>1, FlightFinite
  <2>3. CASE c = 1
    <3>1. Cardinality(Busy(s) \ {k}) = Cardinality(Busy(s)) - 1
      BY <1>14, <2>2, FS_RemoveElement
    <3> QED  BY <1>3, <1>5, <2>1, <2>3, <3>1
  <2>4. CASE c # 1
    <3>1. Cardinality(Busy(s)) \in Nat
      BY <2>2, FS_CardinalityType
    <3>2. /\ b.hwq.outstanding_tokens = Cardinality(Busy(s)) - 0
          /\ Busy(b) = Busy(s)
      BY <1>3, <1>5, <2>1, <2>4
    <3> QED  BY ONLY <3>1, <3>2
  <2> QED  BY <2>3, <2>4
<1>18. TokensOK(b)
  <2>1. \A u \in Txq, j \in Token :
       /\ b.txq[u].token_pkt_num[j] >= 0
       /\ b.txq[u].active => b.txq[u].token_pkt_num[j] = Cardinality(Flight(b, u, j))
       /\ b.txq[u].active /\ b.txq[u].token_pkt_num[j] > 0 => b.hwq.token_status[j]
    <3> TAKE u \in Txq, j \in Token
    <3>1. /\ s.txq[u].token_pkt_num[j] >= 0
          /\ s.txq[u].active => s.txq[u].token_pkt_num[j] = Cardinality(Flight(s, u, j))
          /\ s.txq[u].active /\ s.txq[u].token_pkt_num[j] > 0 => s.hwq.token_status[j]
      BY <1>13 DEF TokensOK
    <3>2. CASE u = t /\ j = k
      <4>1. b.txq[u].token_pkt_num[j] = c - 1
        BY <1>16, <3>2
      <4>0. s.hwq.token_status[k]
        BY <1>14 DEF Busy
      <4>2. c - 1 > 0 => b.hwq.token_status[j]
        BY <1>1, <1>15, <1>20, <3>2, <4>0
      <4>3. c - 1 = Cardinality(Flight(b, u, j))
        BY <1>14, <3>2
      <4> QED  BY ONLY <1>20, <4>1, <4>2, <4>3
    <3>3. CASE u # t \/ j # k
      <4>1. /\ b.txq[u].token_pkt_num[j] = s.txq[u].token_pkt_num[j]
            /\ b.txq[u].active = s.txq[u].active /\ Flight(b, u, j) = Flight(s, u, j)
        BY <1>10, <1>11, <1>16, <3>3
      <4>2. /\ b.txq[u].active /\ b.txq[u].token_pkt_num[j] > 0 => b.hwq.token_status[j]
        <5>1. SUFFICES ASSUME b.txq[u].active, b.txq[u].token_pkt_num[j] > 0, j = k
                       PROVE  FALSE
          BY <1>15, <3>1, <4>1
        <5>2. s.txq[u].active /\ s.txq[u].token_pkt_num[k] > 0
          BY <4>1, <5>1
        <5>3. s.txq[t].active /\ s.txq[t].token_pkt_num[k] > 0
          BY <1>2, <1>21
        <5>4. u = t
          BY <1>1, <1>13, <5>2, <5>3, ZenonT(30) DEF TokensOK
        <5> QED  BY <3>3, <5>1, <5>4
      <4> QED  BY <3>1, <4>1, <4>2
    <3> QED  BY <3>2, <3>3
  <2>2. \A u, v \in Txq, j \in Token :
       /\ b.txq[u].active /\ b.txq[u].token_pkt_num[j] > 0
       /\ b.txq[v].active /\ b.txq[v].token_pkt_num[j] > 0
       => u = v
    <3>1. \A u \in Txq, j \in Token : b.txq[u].token_pkt_num[j] > 0 => s.txq[u].token_pkt_num[j] > 0
      <4> TAKE u \in Txq, j \in Token
      <4>1. CASE u = t /\ j = k
        BY <1>21, <4>1
      <4>2. CASE ~(u = t /\ j = k)
        BY <1>16, <4>2
      <4> QED  BY <4>1, <4>2
    <3> QED  BY <1>10, <1>13, <3>1 DEF TokensOK
  <2> QED  BY <1>17, <2>1, <2>2 DEF TokensOK
<1>19. ASSUME Held(s) PROVE Held(b)
  <2> SUFFICES ASSUME NEW j \in Token, b.hwq.token_status[j]
               PROVE  \E u \in Txq : b.txq[u].active /\ b.txq[u].token_pkt_num[j] > 0
    BY DEF Held
  <2>1. s.hwq.token_status[j] /\ ~(j = k /\ c = 1)
    BY <1>15
  <2>2. PICK u \in Txq : s.txq[u].active /\ s.txq[u].token_pkt_num[j] > 0
    BY <1>19, <2>1 DEF Held
  <2>3. CASE j = k
    <3>1. s.txq[t].active /\ s.txq[t].token_pkt_num[k] > 0
      BY <1>2, <1>21
    <3>2. b.txq[t].active /\ b.txq[t].token_pkt_num[k] > 0
      <4>1. b.txq[t].active /\ b.txq[t].token_pkt_num[k] = c - 1 /\ c # 1
        BY <1>1, <1>2, <1>10, <1>16, <2>1, <2>3
      <4> QED  BY <1>20, <4>1
    <3> QED  BY <1>1, <2>3, <3>2
  <2>4. CASE j # k
    BY <1>10, <1>16, <2>2, <2>4
  <2> QED  BY <2>3, <2>4
<1> QED  BY <1>1, <1>2, <1>5, <1>9, <1>18, <1>19 DEF Good, TakenUp

\* What the confirmation of the frame at the head of the ring does.
Confirmed(r, s) ==
  /\ r \in State /\ Good(r, {}) /\ r.ring = Tail(s.ring)
  /\ r.hwq.credits = s.hwq.credits + 1 /\ r.hwq.need_processing = TRUE
  /\ Stays(r, s) /\ (Held(s) => Held(r))
  /\ \A u \in Txq : r.txq[u].active = s.txq[u].active

\* The part of it before the frame's fate is decided.
Begun(b, s, f) ==
  /\ b \in State /\ Good(b, {f}) /\ b.ring = Tail(s.ring)
  /\ b.hwq.credits = s.hwq.credits + 1 /\ b.hwq.need_processing = TRUE
  /\ Stays(b, s) /\ (Held(s) => Held(b))
  /\ \A u \in Txq : b.txq[u].active = s.txq[u].active

LEMMA ThenConfirmed ==
  ASSUME NEW s, NEW f, NEW b, Begun(b, s, f),
         NEW r \in State, Good(r, {}), Soft(r, b), Stays(r, b)
  PROVE  Confirmed(r, s)
<1>1. Stays(r, s)
  BY StaysTwice DEF Begun
<1>2. Held(b) => Held(r)
  BY SoftKeeps
<1>3. r.hwq.need_processing = TRUE
  <2>1. r.hwq \in HwQueue
    BY StateIs
  <2>2. r.hwq.need_processing \in BOOLEAN
    BY <2>1 DEF HwQueue
  <2>3. r.hwq.need_processing
    BY DEF Soft, Begun
  <2> QED  BY <2>2, <2>3
<1> QED  BY <1>1, <1>2, <1>3 DEF Confirmed, Begun, Soft, SameHw

\* A frame the code holds is given a fresh header, for the same queue.
Reset(s, f) ==
  [s EXCEPT !.skb[f] = [NoHdr EXCEPT !.txq = s.skb[f].txq, !.init_time = s.skb[f].init_time]]

LEMMA ResetGood ==
  ASSUME NEW s \in State, NEW loose, Good(s, loose), NEW f \in loose, NEW r, r = Reset(s, f)
  PROVE  /\ r \in State /\ Good(r, loose) /\ Soft(r, s) /\ r.txq = s.txq
         /\ r.skb[f].txq = s.skb[f].txq /\ r.skb[f].init_time = s.skb[f].init_time
<1>1. f \in Skb /\ Frames(s, loose) /\ s \in Raw /\ Once(s.hwq.list) /\ s.skb[f] \in Hdr
  <2>1. f \in Skb /\ Frames(s, loose)
    BY DEF Good, Frames
  <2> QED  BY <2>1, StateIs DEF State
<1>2. PICK h, x, i : h = [NoHdr EXCEPT !.txq = x, !.init_time = i]
                     /\ x = s.skb[f].txq /\ i = s.skb[f].init_time
  OBVIOUS
<1>3. x \in Txq \cup {None} /\ i \in 0 .. MaxInit
  BY <1>1, <1>2 DEF Hdr
<1>4. h \in Hdr /\ h.txq = x /\ h.init_time = i
  <2>1. NoHdr \in Hdr
    BY SchedAssumption DEF SchedAssumption, NoHdr, Hdr
  <2> QED  BY ONLY <1>2, <1>3, <2>1 DEF Hdr
<1>5. PICK m : m = [s.skb EXCEPT ![f] = h]
  OBVIOUS
<1>6. m \in [Skb -> Hdr] /\ m[f] = h /\ \A g \in Skb \ {f} : m[g] = s.skb[g]
  BY ONLY <1>1, <1>4, <1>5 DEF Raw
<1>7. r = [s EXCEPT !.skb = m]
  <2>1. r = [s EXCEPT !.skb[f] = h]
    BY <1>2 DEF Reset
  <2> QED  BY ONLY <1>1, <1>5, <2>1 DEF Raw
<1>8. /\ r \in Raw /\ r.skb = m /\ r.txq = s.txq /\ r.hwq = s.hwq /\ r.ring = s.ring
      /\ r.stuck = s.stuck
  BY ONLY <1>1, <1>6, <1>7 DEF Raw
<1>9. /\ \A g \in Skb : r.skb[g].txq = s.skb[g].txq /\ r.skb[g].init_time = s.skb[g].init_time
      /\ \A g \in Skb \ {f} : r.skb[g].token = s.skb[g].token
  <2>1. r.skb[f].txq = s.skb[f].txq /\ r.skb[f].init_time = s.skb[f].init_time
    BY <1>2, <1>4, <1>6, <1>8
  <2> QED  BY <1>6, <1>8, <2>1
<1>10. r \in State
  BY <1>1, <1>8 DEF State
<1>11. f \notin ToSet(s.ring) /\ ToSet(s.ring) \subseteq Skb
  BY <1>1, StateIs DEF Frames
<1>12. Frames(r, loose)
  <2>1. \A g \in ToSet(r.ring) : r.skb[g].token \in Token
    BY <1>1, <1>8, <1>9, <1>11 DEF Frames
  <2>2. \A t \in Txq : ToSet(s.txq[t].sk_list) \subseteq Skb
    BY StateIs
  <2> QED  BY <1>1, <1>8, <1>9, <1>11, <2>1, <2>2 DEF Frames
<1>13. TokensOK(r)
  <2>1. TokensOK(s)
    BY DEF Good
  <2>2. \A g \in ToSet(s.ring) : /\ r.skb[g].txq = s.skb[g].txq
                                 /\ r.skb[g].init_time = s.skb[g].init_time
                                 /\ r.skb[g].token = s.skb[g].token
    BY <1>9, <1>11
  <2> QED  BY <1>8, <1>10, <2>1, <2>2, TokensSame
<1>14. \A t \in Txq : QueueOK(r.txq[t]) /\ PlaceOK(r, t)
  BY <1>8 DEF Good, PlaceOK, Listed
<1>15. SumOK(r)
  BY <1>8 DEF Good, SumOK
<1>16. Soft(r, s)
  BY <1>8 DEF Soft, SameHw, Listed
<1> QED  BY <1>1, <1>8, <1>9, <1>10, <1>12, <1>13, <1>14, <1>15, <1>16 DEF Good

\* siwifi_tx_retry.
LEMMA RetryGood ==
  ASSUME NEW s \in State, NEW f, Good(s, {f}), NEW t \in Txq, s.txq[t].active,
         s.skb[f].txq = t, s.skb[f].init_time = s.txq[t].init_time,
         NEW r, r = TxRetry(s, t, f)
  PROVE  r \in State /\ Good(r, {}) /\ Soft(r, s) /\ Stays(r, s)
<1>1. f \in Skb /\ s.skb[f] \in Hdr /\ s.txq[t] \in Queue /\ s \in Raw
  <2>1. f \in Skb
    BY DEF Good, Frames
  <2> QED  BY <2>1, StateIs DEF State
<1>2. PICK n, c : n = s.skb[f].credits /\ c = s.txq[t].credits + n
  OBVIOUS
<1>3. n \in Nat /\ c \in Int /\ c >= s.txq[t].credits
  <2>1. n \in Nat /\ s.txq[t].credits \in Int
    BY <1>1, <1>2 DEF Hdr, Queue
  <2> QED  BY <1>2, <2>1
<1>4. PICK x : x = Reset(s, f)
  OBVIOUS
<1>5. /\ x \in State /\ Good(x, {f}) /\ Soft(x, s) /\ x.txq = s.txq
      /\ x.skb[f].txq = s.skb[f].txq /\ x.skb[f].init_time = s.skb[f].init_time
  <2>1. f \in {f}
    OBVIOUS
  <2> QED  BY ONLY s \in State, Good(s, {f}), <1>4, <2>1, ResetGood
<1>6. PICK m : m = SetCredits(x, t, c)
  OBVIOUS
<1>7. /\ m \in State /\ m.txq[t].credits = c
  <2>1. m \in State /\ m.txq[t] = [x.txq[t] EXCEPT !.credits = c]
    BY <1>3, <1>5, <1>6, CreditsAs
  <2> QED  BY <1>1, <1>5, <2>1 DEF Queue
<1>8. m = [s EXCEPT !.skb[f] = [NoHdr EXCEPT !.txq = t, !.init_time = s.skb[f].init_time],
                    !.txq[t].credits = @ + s.skb[f].credits]
  <2>1. PICK h : h = [NoHdr EXCEPT !.txq = t, !.init_time = s.skb[f].init_time]
    OBVIOUS
  <2>2. x = [s EXCEPT !.skb[f] = h]
    BY <1>4, <2>1 DEF Reset
  <2>3. m = [x EXCEPT !.txq[t].credits = c]
    BY <1>6 DEF SetCredits
  <2>4. m = [s EXCEPT !.skb[f] = h, !.txq[t].credits = c]
    BY ONLY <2>2, <2>3, <1>1 DEF Raw
  <2>5. m = [s EXCEPT !.skb[f] = h, !.txq[t].credits = @ + s.skb[f].credits]
    BY ONLY <1>1, <1>2, <2>4 DEF Raw
  <2> QED  BY ONLY <2>1, <2>5
<1>9. PICK y : y = IF m.txq[t].credits > 0 THEN Start(m, t, "FULL") ELSE m
  OBVIOUS
<1>10. r = QueueSkb(y, t, f, "retry")
  BY <1>8, <1>9 DEF TxRetry
<1>11. /\ y \in State /\ Good(y, {f}) /\ Gentle(y, x) /\ Stays(y, x)
  <2>1. Flagged(y, m, x, t, c)
    BY <1>3, <1>5, <1>7, <1>9 DEF Flagged
  <2>2. x.txq[t].active
    BY <1>5
  <2> QED  BY ONLY <1>3, <1>5, <1>6, <2>1, <2>2, t \in Txq, CreditsGood
<1>12. /\ y.txq[t].active /\ y.skb[f].txq = t /\ y.skb[f].init_time = y.txq[t].init_time
  BY <1>5, <1>11 DEF Gentle, SameFrames
<1>13. /\ r \in State /\ Good(r, {f} \ {f}) /\ Soft(r, y) /\ KeepsService(r, y)
  <2>1. f \in {f}
    OBVIOUS
  <2> QED  BY ONLY <1>10, <1>11, <1>12, <2>1, t \in Txq, QueueSkbGood
<1>14. Soft(r, s)
  BY <1>5, <1>11, <1>13, GentleIsSoft, SoftTwice
<1>15. Stays(r, s)
  BY <1>5, <1>11, <1>13 DEF Stays, KeepsService
<1>16. {f} \ {f} = {}
  OBVIOUS
<1> QED  BY <1>13, <1>14, <1>15, <1>16

LEMMA TxDataCfmGood ==
  ASSUME NEW s \in State, Good(s, {}), s.ring # <<>>, NEW f, f = Head(s.ring),
         NEW r, r = TxDataCfm(s, f)
  PROVE  Confirmed(r, s)
<1>1. PICK a : a = ConfirmAny(s)
  OBVIOUS
<1>2. Popped(a, s)
  BY <1>1, ConfirmIs
<1>3. PICK t, k, h : t = s.skb[f].txq /\ k = s.skb[f].token /\ h = s.skb[f]
  OBVIOUS
<1>4. f \in Skb /\ t \in Txq /\ k \in Token /\ h.credits \in Nat
  BY <1>3, HeadIs
<1>5. PICK b : b = ReturnToken(a, t, k)
  OBVIOUS
<1>6. a \in State /\ a.txq = s.txq
  BY <1>2 DEF Popped
<1>7. f \in {f} /\ {f} \ {f} = {}
  OBVIOUS
<1>8. CASE IsStale(s, f)
  <2>1. r = FreeSkbs(a, {f})
    BY <1>1, <1>8 DEF TxDataCfm
  <2>2. Good(a, {f}) /\ (Held(s) => Held(a))
    BY <1>2, <1>8, StaleGood
  <2>3. /\ r \in State /\ Good(r, {f} \ {f}) /\ Soft(r, a) /\ r.txq = a.txq
    BY ONLY <1>4, <1>6, <1>7, <2>1, <2>2, FreeGood
  <2>4. Begun(a, s, f)
    BY <1>2, <2>2 DEF Begun, Popped, Stays
  <2>5. Stays(r, a)
    BY <2>3 DEF Stays
  <2> QED  BY ONLY <1>7, <2>3, <2>4, <2>5, ThenConfirmed
<1>9. CASE ~IsStale(s, f)
  <2>1. Returned(b, a, t, k)
    BY ONLY <1>4, <1>5, <1>6, ReturnIs
  <2>2. /\ s.txq[t].active /\ s.skb[f].init_time = s.txq[t].init_time
        /\ Good(b, {f}) /\ (Held(s) => Held(b))
    <3>1. f = Head(s.ring) /\ s.ring # <<>>
      OBVIOUS
    <3>2. t = s.skb[f].txq /\ k = s.skb[f].token
      BY <1>3
    <3>3. TakenUp(b, s, f, t)
      BY ONLY s \in State, Good(s, {}), <1>2, <1>9, <2>1, <3>1, <3>2, TakenGood
    <3> QED  BY ONLY <3>3 DEF TakenUp
  <2>3. /\ b \in State /\ b.ring = a.ring /\ b.skb = s.skb
        /\ b.hwq.credits = a.hwq.credits /\ b.hwq.need_processing = a.hwq.need_processing
        /\ SameBut(b.txq[t], s.txq[t]) /\ \A u \in Txq \ {t} : b.txq[u] = s.txq[u]
    BY <1>2, <1>6, <2>1 DEF Returned, Popped
  <2>4. \A u \in Txq : /\ b.txq[u].active = s.txq[u].active
                       /\ b.txq[u].init_time = s.txq[u].init_time
                       /\ b.txq[u].stop = s.txq[u].stop
    <3> TAKE u \in Txq
    <3>1. CASE u = t
      BY <2>3, <3>1 DEF SameBut
    <3>2. CASE u # t
      BY <2>3, <3>2
    <3> QED  BY <3>1, <3>2
  <2>5. Begun(b, s, f)
    BY <1>2, <2>2, <2>3, <2>4 DEF Begun, Popped, Stays
  <2>6. b.txq[t].active /\ b.skb[f].txq = t /\ b.skb[f].init_time = b.txq[t].init_time
    BY <1>3, <1>4, <2>2, <2>3, <2>4
  <2>7. CASE h.status = "retry" /\ f \notin Mgmt
    <3>1. r = TxRetry(b, t, f)
      BY <1>1, <1>3, <1>5, <1>9, <2>7 DEF TxDataCfm
    <3>2. r \in State /\ Good(r, {}) /\ Soft(r, b) /\ Stays(r, b)
      BY ONLY <1>4, <2>2, <2>3, <2>6, <3>1, RetryGood
    <3> QED  BY ONLY <2>5, <3>2, ThenConfirmed
  <2>8. CASE ~(h.status = "retry" /\ f \notin Mgmt)
    <3>1. PICK x : x = IF h.credits = 0 THEN b ELSE GiveCredits(b, t, h.credits)
      OBVIOUS
    <3>2. PICK y : y = ContinueService(x, t)
      OBVIOUS
    <3>3. r = FreeSkbs(y, {f})
      BY <1>1, <1>3, <1>5, <1>9, <2>8, <3>1, <3>2 DEF TxDataCfm
    <3>4. x \in State /\ Good(x, {f}) /\ Soft(x, b) /\ Stays(x, b)
      <4>1. CASE h.credits = 0
        <5>1. x = b
          BY <3>1, <4>1
        <5>2. Soft(b, b) /\ Stays(b, b)
          BY DEF Soft, SameHw, Stays
        <5> QED  BY <2>2, <2>3, <5>1, <5>2
      <4>2. CASE h.credits # 0
        <5>1. x = GiveCredits(b, t, h.credits) /\ h.credits \in Int
          BY <1>4, <3>1, <4>2
        <5>2. PICK n \in Int : n = h.credits
          BY <5>1
        <5>3. x \in State /\ Good(x, {f}) /\ Gentle(x, b) /\ Stays(x, b)
          BY ONLY <1>4, <2>2, <2>3, <2>6, <5>1, <5>2, GiveCreditsGood
        <5> QED  BY <5>3, GentleIsSoft
      <4> QED  BY <4>1, <4>2
    <3>5. x.txq[t].active
      BY <1>4, <2>6, <3>4 DEF Soft
    <3>6. y \in State /\ Good(y, {f}) /\ Gentle(y, x) /\ y.txq = x.txq
      BY ONLY <1>4, <3>2, <3>4, <3>5, ContinueGood
    <3>7. r \in State /\ Good(r, {f} \ {f}) /\ Soft(r, y) /\ r.txq = y.txq
      BY ONLY <1>4, <1>7, <3>3, <3>6, FreeGood
    <3>8. Soft(r, b)
      BY <3>4, <3>6, <3>7, GentleIsSoft, SoftTwice
    <3>9. Stays(r, b)
      BY <3>4, <3>6, <3>7 DEF Stays
    <3> QED  BY ONLY <1>7, <2>5, <3>7, <3>8, <3>9, ThenConfirmed
  <2> QED  BY <2>7, <2>8
<1> QED  BY <1>8, <1>9

\* The state after the first i frames of the ring of s have been confirmed.
AfterCfm(y, s, i) ==
  /\ y \in State /\ Good(y, {}) /\ y.hwq.credits = s.hwq.credits + i
  /\ Len(y.ring) = Len(s.ring) - i /\ \A j \in 1 .. Len(s.ring) - i : y.ring[j] = s.ring[i + j]
  /\ Stays(y, s) /\ (Held(s) => Held(y))
  /\ \A u \in Txq : y.txq[u].active = s.txq[u].active
  /\ i > 0 => y.hwq.need_processing = TRUE

LEMMA OneMoreCfm ==
  ASSUME NEW s \in State, NEW i \in Nat, i < Len(s.ring), NEW y, AfterCfm(y, s, i),
         NEW r, r = TxDataCfm(y, s.ring[i + 1])
  PROVE  AfterCfm(r, s, i + 1)
<1>1. /\ y \in State /\ Good(y, {}) /\ y.hwq.credits = s.hwq.credits + i
      /\ Len(y.ring) = Len(s.ring) - i /\ \A j \in 1 .. Len(s.ring) - i : y.ring[j] = s.ring[i + j]
      /\ Stays(y, s) /\ (Held(s) => Held(y))
      /\ \A u \in Txq : y.txq[u].active = s.txq[u].active
  BY DEF AfterCfm
<1>2. PICK L, l : L = Len(s.ring) /\ l = L - i
  OBVIOUS
<1>3. L \in Nat /\ l \in Nat /\ l >= 1 /\ y.ring \in Seq(Skb) /\ Len(y.ring) = l
  <2>1. L \in Nat /\ y.ring \in Seq(Skb) /\ Len(y.ring) = l /\ i < L
    BY <1>1, <1>2, StateIs
  <2> QED  BY <1>2, <2>1
<1>4. y.ring # <<>>
  BY <1>3
<1>5. PICK f : f = Head(y.ring)
  OBVIOUS
<1>6. /\ f = y.ring[1] /\ Len(Tail(y.ring)) = l - 1
      /\ \A j \in 1 .. l - 1 : Tail(y.ring)[j] = y.ring[j + 1]
  BY <1>3, <1>4, <1>5, Behead
<1>7. f = s.ring[i + 1]
  BY <1>1, <1>2, <1>3, <1>6
<1>8. r = TxDataCfm(y, f)
  BY <1>7
<1>9. Confirmed(r, y)
  BY ONLY <1>1, <1>4, <1>5, <1>8, TxDataCfmGood
<1>10. /\ r \in State /\ Good(r, {}) /\ r.ring = Tail(y.ring)
       /\ r.hwq.credits = y.hwq.credits + 1 /\ r.hwq.need_processing = TRUE
       /\ Stays(r, y) /\ (Held(y) => Held(r))
       /\ \A u \in Txq : r.txq[u].active = y.txq[u].active
  BY <1>9 DEF Confirmed
<1>11. r.hwq.credits = s.hwq.credits + (i + 1)
  <2>1. s.hwq \in HwQueue
    BY StateIs
  <2>2. s.hwq.credits \in Int
    BY <2>1 DEF HwQueue
  <2>3. /\ y.hwq.credits = s.hwq.credits + i
        /\ r.hwq.credits = y.hwq.credits + 1
    BY <1>1, <1>10
  <2> QED  BY ONLY i \in Nat, <2>2, <2>3
<1>12. Len(r.ring) = L - (i + 1)
  <2>1. Len(r.ring) = l - 1
    BY ONLY <1>6, <1>10
  <2> QED  BY ONLY i \in Nat, <1>2, <1>3, <2>1
<1>13. \A j \in 1 .. L - (i + 1) : r.ring[j] = s.ring[(i + 1) + j]
  <2> TAKE j \in 1 .. L - (i + 1)
  <2>1. j \in 1 .. l - 1 /\ j + 1 \in 1 .. L - i /\ i + (j + 1) = (i + 1) + j
    BY <1>2, <1>3
  <2>2. r.ring[j] = y.ring[j + 1]
    BY <1>6, <1>10, <2>1
  <2>3. y.ring[j + 1] = s.ring[i + (j + 1)]
    BY <1>1, <1>2, <2>1
  <2> QED  BY <2>1, <2>2, <2>3
<1>14. Stays(r, s)
  BY <1>1, <1>10, StaysTwice
<1> QED  BY <1>1, <1>2, <1>10, <1>11, <1>12, <1>13, <1>14 DEF AfterCfm

LEMMA TxCfmGood ==
  ASSUME NEW s \in State, Good(s, {}), NEW n \in 0 .. Len(s.ring),
         NEW r, r = CfmAll(s, SubSeq(s.ring, 1, n))
  PROVE  AfterCfm(r, s, n)
<1>1. s.ring \in Seq(Skb) /\ Len(s.ring) \in Nat /\ n \in Nat /\ n <= Len(s.ring)
  BY StateIs
<1>2. PICK q : q = SubSeq(s.ring, 1, n)
  OBVIOUS
<1>3. DOMAIN q = 1 .. n /\ \A i \in 1 .. n : q[i] = s.ring[i]
  <2>1. q \in Seq(Skb) /\ Len(q) = n /\ \A i \in 1 .. n : q[i] = s.ring[i]
    BY <1>1, <1>2, Cut
  <2> QED  BY <2>1
<1>4. PICK g : /\ g[0] = s
               /\ \A i \in 1 .. n : g[i] = TxDataCfm(g[i - 1], q[i])
               /\ CfmAll(s, q) = g[n]
  <2>1. n \in Nat /\ DOMAIN q = 1 .. n
    BY <1>1, <1>3
  <2>2. CfmRun(s, n, q)
    BY ONLY <2>1, CfmFold
  <2> QED  BY ONLY <2>2 DEF CfmRun
<1> DEFINE A == {i \in 0 .. n : AfterCfm(g[i], s, i)}
<1>5. 0 \in A
  <2>1. /\ s.hwq.credits = s.hwq.credits + 0 /\ Len(s.ring) = Len(s.ring) - 0
        /\ \A j \in 1 .. Len(s.ring) - 0 : s.ring[j] = s.ring[0 + j]
    <3>1. s.hwq \in HwQueue
      BY StateIs
    <3>2. s.hwq.credits \in Int
      BY <3>1 DEF HwQueue
    <3> QED  BY <1>1, <3>2
  <2>2. Stays(s, s)
    BY DEF Stays
  <2>3. AfterCfm(s, s, 0)
    BY <2>1, <2>2 DEF AfterCfm
  <2> QED  BY <1>1, <1>4, <2>3
<1>6. ASSUME NEW m \in 1 .. n, m - 1 \in A
      PROVE  m \in A
  <2>1. PICK i : i = m - 1
    OBVIOUS
  <2>2. i \in Nat /\ i < Len(s.ring) /\ i + 1 = m /\ m \in 0 .. n
    BY <1>1, <2>1
  <2>3. AfterCfm(g[i], s, i)
    BY <1>6, <2>1
  <2>4. g[m] = TxDataCfm(g[i], s.ring[i + 1])
    <3>1. g[m] = TxDataCfm(g[m - 1], q[m]) /\ q[m] = s.ring[m]
      BY <1>3, <1>4
    <3> QED  BY <2>1, <2>2, <3>1
  <2>5. PICK y, x : y = g[i] /\ x = g[m]
    OBVIOUS
  <2>6. AfterCfm(y, s, i) /\ x = TxDataCfm(y, s.ring[i + 1])
    BY <2>3, <2>4, <2>5
  <2>7. AfterCfm(x, s, i + 1)
    BY ONLY s \in State, <2>2, <2>6, OneMoreCfm
  <2> QED  BY <2>2, <2>5, <2>7
<1>7. \A m \in 0 .. n : m \in A
  <2> HIDE DEF A
  <2> QED  BY <1>1, <1>5, <1>6, UpTo
<1>8. n \in A
  BY <1>1, <1>7
<1> QED  BY <1>2, <1>4, <1>8

\* The frames at the head of the ring that are done with.
LEMMA ConfirmableIs ==
  ASSUME ring \in Seq(Skb)
  PROVE  \E n \in 0 .. Len(ring) : Confirmable = SubSeq(ring, 1, n)
<1> DEFINE S == {n \in 0 .. Len(ring) : n = Len(ring) \/ ~Done(ring[n + 1])}
           P(n) == /\ \A i \in 1 .. n : Done(ring[i])
                   /\ n < Len(ring) => ~Done(ring[n + 1])
<1>1. Len(ring) \in Nat /\ Len(ring) \in S /\ S \in SUBSET Nat
  OBVIOUS
<1>2. PICK m \in S : \A n \in S : m <= n
  <2>1. S # {}
    BY <1>1
  <2> HIDE DEF S
  <2> QED  BY <1>1, <2>1, LeastNat
<1>3. m \in 0 .. Len(ring) /\ P(m)
  <2>1. m \in 0 .. Len(ring) /\ (m < Len(ring) => ~Done(ring[m + 1]))
    BY <1>1, <1>2
  <2>2. \A i \in 1 .. m : Done(ring[i])
    <3> TAKE i \in 1 .. m
    <3>1. i - 1 \in 0 .. Len(ring) /\ i - 1 < m /\ (i - 1) + 1 = i /\ i - 1 \in Nat
      BY <1>1, <2>1
    <3>2. i - 1 \notin S
      <4>1. i - 1 \in S => m <= i - 1
        BY <1>2
      <4> HIDE DEF S
      <4> QED  BY <1>1, <2>1, <3>1, <4>1
    <3> QED  BY <3>1, <3>2
  <2> QED  BY <2>1, <2>2
<1>4. PICK n : n = CHOOSE i \in 0 .. Len(ring) : P(i)
  OBVIOUS
<1>5. n \in 0 .. Len(ring)
  <2> HIDE DEF P
  <2> QED  BY <1>3, <1>4
<1>6. Confirmable = SubSeq(ring, 1, n)
  BY <1>4 DEF Confirmable
<1> QED  BY <1>5, <1>6

----------------------------------------------------------------------------
(* A burst of frames pushed under a token (siwifi_hwq_process).            *)

\* siwifi_txq_push, on the queue alone: all it changes but the stop reasons.
PushedQueue(q, k) ==
  LET left == IF q.nb_retry > 0 THEN q.nb_retry - 1 ELSE 0 IN
  [MoreData(q) EXCEPT !.nb_retry = left,
                      !.last_retry_skb = IF left = 0 THEN None ELSE @,
                      !.credits = @ - 1,
                      !.push_limit = IF @ > 0 THEN @ - 1 ELSE @,
                      !.token_pkt_num[k] = @ + 1]

\* p is the queue a after i pushes under token k, but for the stop reasons.
Drained(p, a, k, i) ==
  /\ p.active = a.active /\ p.init_time = a.init_time /\ p.sk_list = a.sk_list
  /\ p.ps_active = a.ps_active /\ p.ps_id = a.ps_id /\ p.flow = a.flow
  /\ p.credits = a.credits - i
  /\ p.push_limit = (IF a.push_limit = 0 THEN 0 ELSE a.push_limit - i)
  /\ p.nb_retry = (IF a.nb_retry > i THEN a.nb_retry - i ELSE 0)
  /\ p.last_retry_skb = (IF p.nb_retry = 0 THEN None ELSE a.last_retry_skb)
  /\ a.ps_active => p.pkt_ready = a.pkt_ready - i /\ p.sp_cnt = p.push_limit
  /\ ~a.ps_active => p.pkt_ready = a.pkt_ready
  /\ \A j \in Token : p.token_pkt_num[j] = IF j = k THEN i ELSE a.token_pkt_num[j]

Moved(z, q, k) ==
  /\ z \in Queue /\ z.active = q.active /\ z.init_time = q.init_time /\ z.sk_list = q.sk_list
  /\ z.ps_active = q.ps_active /\ z.ps_id = q.ps_id /\ z.flow = q.flow /\ z.stop = q.stop
  /\ z.credits = q.credits - 1
  /\ z.push_limit = (IF q.push_limit > 0 THEN q.push_limit - 1 ELSE q.push_limit)
  /\ z.nb_retry = (IF q.nb_retry > 0 THEN q.nb_retry - 1 ELSE 0)
  /\ z.last_retry_skb = (IF z.nb_retry = 0 THEN None ELSE q.last_retry_skb)
  /\ q.ps_active => /\ z.pkt_ready = (IF q.pkt_ready > 0 THEN q.pkt_ready - 1 ELSE q.pkt_ready)
                    /\ z.sp_cnt = (IF q.sp_cnt > 0 THEN q.sp_cnt - 1 ELSE q.sp_cnt)
  /\ ~q.ps_active => z.pkt_ready = q.pkt_ready
  /\ \A j \in Token : z.token_pkt_num[j] =
                        IF j = k THEN q.token_pkt_num[k] + 1 ELSE q.token_pkt_num[j]

LEMMA MoreDataIs ==
  ASSUME NEW q \in Queue, NEW m, m = MoreData(q)
  PROVE  /\ m \in Queue /\ m.active = q.active /\ m.init_time = q.init_time
         /\ m.sk_list = q.sk_list /\ m.token_pkt_num = q.token_pkt_num
         /\ m.ps_active = q.ps_active /\ m.ps_id = q.ps_id /\ m.flow = q.flow
         /\ m.stop = q.stop /\ m.credits = q.credits /\ m.push_limit = q.push_limit
         /\ m.nb_retry = q.nb_retry /\ m.last_retry_skb = q.last_retry_skb
         /\ q.ps_active => /\ m.pkt_ready = (IF q.pkt_ready > 0 THEN q.pkt_ready - 1 ELSE q.pkt_ready)
                           /\ m.sp_cnt = (IF q.sp_cnt > 0 THEN q.sp_cnt - 1 ELSE q.sp_cnt)
         /\ ~q.ps_active => m.pkt_ready = q.pkt_ready
<1>1. CASE ~q.ps_active
  BY <1>1 DEF MoreData
<1>2. CASE q.ps_active
  <2>1. PICK x, y : /\ x = (IF q.pkt_ready > 0 THEN q.pkt_ready - 1 ELSE q.pkt_ready)
                    /\ y = (IF q.sp_cnt > 0 THEN q.sp_cnt - 1 ELSE q.sp_cnt)
    OBVIOUS
  <2>2. x \in Int /\ y \in Int
    BY <2>1 DEF Queue
  <2>3. m = [q EXCEPT !.pkt_ready = x, !.sp_cnt = y]
    BY <1>2, <2>1 DEF MoreData
  <2>4. /\ m \in Queue /\ m.active = q.active /\ m.init_time = q.init_time
        /\ m.sk_list = q.sk_list /\ m.token_pkt_num = q.token_pkt_num
        /\ m.ps_active = q.ps_active /\ m.ps_id = q.ps_id /\ m.flow = q.flow
        /\ m.stop = q.stop /\ m.credits = q.credits /\ m.push_limit = q.push_limit
        /\ m.nb_retry = q.nb_retry /\ m.last_retry_skb = q.last_retry_skb
        /\ m.pkt_ready = x /\ m.sp_cnt = y
    BY ONLY q \in Queue, <2>2, <2>3 DEF Queue
  <2> QED  BY ONLY <1>2, <2>1, <2>4
<1> QED  BY <1>1, <1>2

LEMMA MovedIs ==
  ASSUME NEW q \in Queue, NEW k \in Token, NEW z, z = PushedQueue(q, k)
  PROVE  Moved(z, q, k)
<1>1. PICK m : m = MoreData(q)
  OBVIOUS
<1>2. /\ m \in Queue /\ m.active = q.active /\ m.init_time = q.init_time
      /\ m.sk_list = q.sk_list /\ m.token_pkt_num = q.token_pkt_num
      /\ m.ps_active = q.ps_active /\ m.ps_id = q.ps_id /\ m.flow = q.flow
      /\ m.stop = q.stop /\ m.credits = q.credits /\ m.push_limit = q.push_limit
      /\ m.nb_retry = q.nb_retry /\ m.last_retry_skb = q.last_retry_skb
      /\ q.ps_active => /\ m.pkt_ready = (IF q.pkt_ready > 0 THEN q.pkt_ready - 1 ELSE q.pkt_ready)
                        /\ m.sp_cnt = (IF q.sp_cnt > 0 THEN q.sp_cnt - 1 ELSE q.sp_cnt)
      /\ ~q.ps_active => m.pkt_ready = q.pkt_ready
  BY ONLY q \in Queue, <1>1, MoreDataIs
<1>3. PICK a, b, c, d, e : /\ a = (IF q.nb_retry > 0 THEN q.nb_retry - 1 ELSE 0)
                           /\ b = (IF a = 0 THEN None ELSE q.last_retry_skb)
                           /\ c = q.credits - 1
                           /\ d = (IF q.push_limit > 0 THEN q.push_limit - 1 ELSE q.push_limit)
                           /\ e = [q.token_pkt_num EXCEPT ![k] = q.token_pkt_num[k] + 1]
  OBVIOUS
<1>4. /\ a \in Nat /\ b \in Skb \cup {None} /\ c \in Int /\ d \in Nat
      /\ e \in [Token -> Int] /\ \A j \in Token : e[j] =
           IF j = k THEN q.token_pkt_num[k] + 1 ELSE q.token_pkt_num[j]
  <2>1. /\ q.nb_retry \in Nat /\ q.last_retry_skb \in Skb \cup {None} /\ q.credits \in Int
        /\ q.push_limit \in Nat /\ q.token_pkt_num \in [Token -> Int]
    BY DEF Queue
  <2>2. a \in Nat /\ b \in Skb \cup {None} /\ c \in Int /\ d \in Nat
    BY <1>3, <2>1
  <2>3. /\ e \in [Token -> Int] /\ \A j \in Token : e[j] =
             IF j = k THEN q.token_pkt_num[k] + 1 ELSE q.token_pkt_num[j]
    BY ONLY k \in Token, <1>3, <2>1
  <2> QED  BY <2>2, <2>3
<1>5. PICK y : y = [m EXCEPT !.nb_retry = a, !.last_retry_skb = b, !.credits = c]
  OBVIOUS
<1>6. z = [y EXCEPT !.push_limit = d, !.token_pkt_num = e]
  <2>1. z = [m EXCEPT !.nb_retry = a, !.last_retry_skb = b, !.credits = c,
                      !.push_limit = d, !.token_pkt_num[k] = q.token_pkt_num[k] + 1]
    BY <1>1, <1>2, <1>3 DEF PushedQueue
  <2> QED  BY ONLY k \in Token, <1>2, <1>3, <1>5, <2>1 DEF Queue
<1>7. /\ y \in Queue /\ y.active = m.active /\ y.init_time = m.init_time
      /\ y.sk_list = m.sk_list /\ y.ps_active = m.ps_active /\ y.ps_id = m.ps_id
      /\ y.flow = m.flow /\ y.stop = m.stop /\ y.credits = c /\ y.nb_retry = a
      /\ y.last_retry_skb = b /\ y.pkt_ready = m.pkt_ready /\ y.sp_cnt = m.sp_cnt
  BY ONLY <1>2, <1>4, <1>5 DEF Queue
<1>8. /\ z \in Queue /\ z.active = y.active /\ z.init_time = y.init_time
      /\ z.sk_list = y.sk_list /\ z.ps_active = y.ps_active /\ z.ps_id = y.ps_id
      /\ z.flow = y.flow /\ z.stop = y.stop /\ z.credits = c /\ z.nb_retry = a
      /\ z.last_retry_skb = b /\ z.pkt_ready = y.pkt_ready /\ z.sp_cnt = y.sp_cnt
      /\ z.push_limit = d /\ z.token_pkt_num = e
  BY ONLY <1>4, <1>6, <1>7 DEF Queue
<1>9. \A j \in Token : z.token_pkt_num[j] =
         IF j = k THEN q.token_pkt_num[k] + 1 ELSE q.token_pkt_num[j]
  BY <1>4, <1>8
<1>10. /\ z.credits = q.credits - 1 /\ z.push_limit = d /\ z.nb_retry = a
       /\ z.last_retry_skb = (IF z.nb_retry = 0 THEN None ELSE q.last_retry_skb)
  BY ONLY <1>3, <1>8
<1> QED  BY ONLY <1>2, <1>3, <1>7, <1>8, <1>9, <1>10 DEF Moved

\* One push more.
LEMMA DrainOne ==
  ASSUME NEW a \in Queue, NEW p \in Queue, NEW k \in Token, NEW i \in Nat, Drained(p, a, k, i),
         a.push_limit # 0 => a.push_limit > i, a.ps_active => a.pkt_ready > i,
         a.ps_active => a.sp_cnt = a.push_limit,
         NEW z, Moved(z, p, k)
  PROVE  Drained(z, a, k, i + 1)
<1>1. /\ a.credits \in Int /\ a.push_limit \in Nat /\ a.nb_retry \in Nat
      /\ a.pkt_ready \in Int /\ a.sp_cnt \in Int
      /\ p.credits \in Int /\ p.push_limit \in Nat /\ p.nb_retry \in Nat
      /\ p.pkt_ready \in Int /\ p.sp_cnt \in Int
  BY DEF Queue
<1>2. z.credits = a.credits - (i + 1)
  BY <1>1 DEF Drained, Moved
<1>3. z.push_limit = (IF a.push_limit = 0 THEN 0 ELSE a.push_limit - (i + 1))
  BY <1>1 DEF Drained, Moved
<1>4. z.nb_retry = (IF a.nb_retry > i + 1 THEN a.nb_retry - (i + 1) ELSE 0)
  BY <1>1 DEF Drained, Moved
<1>5. z.last_retry_skb = (IF z.nb_retry = 0 THEN None ELSE a.last_retry_skb)
  <2>1. CASE z.nb_retry = 0
    BY <2>1 DEF Moved
  <2>2. CASE z.nb_retry # 0
    <3>1. p.nb_retry # 0
      BY <1>1, <2>2 DEF Moved
    <3> QED  BY <2>2, <3>1 DEF Moved, Drained
  <2> QED  BY <2>1, <2>2
<1>6. ASSUME a.ps_active
      PROVE  z.pkt_ready = a.pkt_ready - (i + 1) /\ z.sp_cnt = z.push_limit
  <2>1. p.ps_active /\ p.pkt_ready = a.pkt_ready - i /\ p.sp_cnt = p.push_limit
    BY <1>6 DEF Drained
  <2>2. /\ z.pkt_ready = (IF p.pkt_ready > 0 THEN p.pkt_ready - 1 ELSE p.pkt_ready)
        /\ z.sp_cnt = (IF p.sp_cnt > 0 THEN p.sp_cnt - 1 ELSE p.sp_cnt)
        /\ z.push_limit = (IF p.push_limit > 0 THEN p.push_limit - 1 ELSE p.push_limit)
    BY <2>1 DEF Moved
  <2> QED  BY <1>1, <1>6, <2>1, <2>2
<1>7. ~a.ps_active => z.pkt_ready = a.pkt_ready
  BY DEF Drained, Moved
<1>8. \A j \in Token : z.token_pkt_num[j] = IF j = k THEN i + 1 ELSE a.token_pkt_num[j]
  BY DEF Drained, Moved
<1> QED  BY <1>2, <1>3, <1>4, <1>5, <1>6, <1>7, <1>8 DEF Drained, Moved

\* siwifi_txq_push: the frame f of the queue t goes to the ring under token k.
SkbOne(r, y, f, k) ==
  \A g \in Skb : /\ r.skb[g].txq = y.skb[g].txq
                 /\ r.skb[g].init_time = y.skb[g].init_time
                 /\ r.skb[g].token = IF g = f THEN k ELSE y.skb[g].token

HwOne(r, y, f) ==
  /\ r.ring = Append(y.ring, f) /\ r.hwq.credits = y.hwq.credits - 1
  /\ r.hwq.dec = y.hwq.dec /\ r.hwq.token_status = y.hwq.token_status
  /\ r.hwq.outstanding_tokens = y.hwq.outstanding_tokens

PlaceOne(r, y, t) ==
  LET out == y.txq[t].credits - 1 <= 0 IN
  /\ r.txq[t].stop = (IF out THEN y.txq[t].stop \cup {"FULL"} ELSE y.txq[t].stop)
  /\ Listed(r) = (IF out THEN Listed(y) \ {t} ELSE Listed(y))
  /\ r.stuck = (IF out /\ t \in Listed(y) /\ y.txq[t].sk_list # <<>>
                THEN y.stuck \cup {t} ELSE y.stuck)

PushedOne(r, y, t, f, k) ==
  /\ r \in State /\ \A u \in Txq \ {t} : r.txq[u] = y.txq[u]
  /\ \E z : Moved(z, y.txq[t], k) /\ SameQueue(r.txq[t], z) /\ r.txq[t].credits = z.credits
  /\ SkbOne(r, y, f, k) /\ HwOne(r, y, f) /\ PlaceOne(r, y, t)

\* siwifi_txq_push again, in terms of PushedQueue.
TxPushAs(s, t, f, k) ==
  LET m == [s EXCEPT !.txq[t] = PushedQueue(s.txq[t], k), !.skb[f].token = k]
      full == IF s.txq[t].credits - 1 <= 0 THEN Stop(m, t, "FULL") ELSE m
  IN  [full EXCEPT !.ring = Append(@, f), !.hwq.credits = @ - 1]

LEMMA TxPushMirror ==
  ASSUME NEW s, NEW t, NEW f, NEW k
  PROVE  TxPush(s, t, f, k) = TxPushAs(s, t, f, k)
BY DEF TxPush, TxPushAs, PushedQueue

LEMMA TxPushIs ==
  ASSUME NEW y \in State, NEW t \in Txq, NEW f \in Skb, NEW k \in Token, y.txq[t].active,
         NEW r, r = TxPush(y, t, f, k)
  PROVE  PushedOne(r, y, t, f, k)
<1>1. PICK q : q = y.txq[t]
  OBVIOUS
<1>2. q \in Queue /\ y \in Raw /\ Once(y.hwq.list) /\ y.skb[f] \in Hdr
  BY <1>1, StateIs DEF State
<1>3. PICK z : z = PushedQueue(q, k)
  OBVIOUS
<1>4. Moved(z, q, k)
  BY ONLY k \in Token, <1>2, <1>3, MovedIs
<1>5. /\ z \in Queue /\ z.active = q.active /\ z.sk_list = q.sk_list /\ z.stop = q.stop
      /\ z.credits = q.credits - 1
  BY <1>4 DEF Moved
<1>6. PICK h : h = [y.skb[f] EXCEPT !.token = k]
  OBVIOUS
<1>7. /\ h \in Hdr /\ h.token = k /\ h.txq = y.skb[f].txq /\ h.init_time = y.skb[f].init_time
  BY ONLY k \in Token, <1>2, <1>6 DEF Hdr
<1>8. PICK sk : sk = [y.skb EXCEPT ![f] = h]
  OBVIOUS
<1>9. sk \in [Skb -> Hdr] /\ sk[f] = h /\ \A g \in Skb \ {f} : sk[g] = y.skb[g]
  BY ONLY f \in Skb, <1>2, <1>7, <1>8 DEF Raw
<1>10. PICK x : x = [y.txq EXCEPT ![t] = z]
  OBVIOUS
<1>11. x \in [Txq -> Queue] /\ x[t] = z /\ \A u \in Txq \ {t} : x[u] = y.txq[u]
  BY ONLY t \in Txq, <1>2, <1>5, <1>10 DEF Raw
<1>12. PICK m : m = [y EXCEPT !.txq = x, !.skb = sk]
  OBVIOUS
<1>13. /\ m \in Raw /\ m.txq = x /\ m.skb = sk /\ m.hwq = y.hwq /\ m.ring = y.ring
       /\ m.stuck = y.stuck
  BY ONLY <1>2, <1>9, <1>11, <1>12 DEF Raw
<1>14. m \in State
  BY <1>2, <1>13 DEF State
<1>15. PICK w : w = IF q.credits - 1 <= 0 THEN Stop(m, t, "FULL") ELSE m
  OBVIOUS
<1>16. r = [w EXCEPT !.ring = Append(@, f), !.hwq.credits = @ - 1]
  <2>1. m = [y EXCEPT !.txq[t] = z, !.skb[f].token = k]
    <3>1. m = [y EXCEPT !.txq[t] = z, !.skb[f] = h]
      BY ONLY f \in Skb, t \in Txq, <1>2, <1>8, <1>10, <1>12 DEF Raw
    <3> QED  BY ONLY f \in Skb, t \in Txq, <1>2, <1>6, <3>1 DEF Raw
  <2>2. r = TxPushAs(y, t, f, k)
    BY TxPushMirror
  <2> QED  BY ONLY <1>1, <1>3, <1>15, <2>1, <2>2 DEF TxPushAs
<1>17. /\ w \in State /\ SameFrames(w, m) /\ SameHw(w, m)
       /\ \A u \in Txq \ {t} : w.txq[u] = m.txq[u]
       /\ SameQueue(w.txq[t], z) /\ w.txq[t].credits = z.credits
       /\ w.txq[t].stop = (IF q.credits - 1 <= 0 THEN q.stop \cup {"FULL"} ELSE q.stop)
       /\ Listed(w) = (IF q.credits - 1 <= 0 THEN Listed(y) \ {t} ELSE Listed(y))
       /\ w.stuck = (IF q.credits - 1 <= 0 /\ t \in Listed(y) /\ q.sk_list # <<>>
                     THEN y.stuck \cup {t} ELSE y.stuck)
  <2>1. Listed(m) = Listed(y)
    BY <1>13 DEF Listed
  <2>2. CASE q.credits - 1 <= 0
    <3>1. w = Stop(m, t, "FULL") /\ m.txq[t] = z /\ m.txq[t].active
      BY <1>1, <1>5, <1>11, <1>13, <1>15, <2>2
    <3>2. "FULL" \in Stops
      BY Names
    <3>3. Stopped(w, m, t, "FULL")
      BY ONLY t \in Txq, <1>14, <3>1, <3>2, StopEffect
    <3>4. /\ w \in State /\ SameFrames(w, m) /\ SameHw(w, m)
          /\ w.txq[t] = [z EXCEPT !.stop = @ \cup {"FULL"}]
          /\ \A u \in Txq \ {t} : w.txq[u] = m.txq[u]
          /\ Listed(w) = Listed(m) \ {t}
          /\ w.stuck = IF t \in Listed(m) /\ z.sk_list # <<>> THEN m.stuck \cup {t} ELSE m.stuck
      BY <3>1, <3>3 DEF Stopped
    <3>5. PICK v : v = w.txq[t]
      OBVIOUS
    <3>6. v = [z EXCEPT !.stop = @ \cup {"FULL"}]
      BY <3>4, <3>5
    <3>7. SameQueue(v, z) /\ v.credits = z.credits /\ v.stop = z.stop \cup {"FULL"}
      BY ONLY <1>5, <3>6 DEF Queue, SameQueue
    <3> QED  BY <1>5, <1>13, <2>1, <2>2, <3>4, <3>5, <3>7
  <2>3. CASE ~(q.credits - 1 <= 0)
    <3>1. w = m
      BY <1>15, <2>3
    <3>2. SameQueue(z, z) /\ SameFrames(m, m) /\ SameHw(m, m)
      BY DEF SameQueue, SameFrames, SameHw
    <3> QED  BY <1>5, <1>11, <1>13, <1>14, <2>1, <2>3, <3>1, <3>2
  <2> QED  BY <2>2, <2>3
<1>18. PICK g, c, hw : /\ g = Append(w.ring, f) /\ c = w.hwq.credits - 1
                       /\ hw = [w.hwq EXCEPT !.credits = c]
  OBVIOUS
<1>19. w \in Raw /\ w.hwq \in HwQueue /\ Once(w.hwq.list) /\ w.ring \in Seq(Skb)
  BY <1>17, StateIs DEF State
<1>20. g \in Seq(Skb) /\ c \in Int
  <2>1. g \in Seq(Skb)
    BY <1>18, <1>19, Appended
  <2>2. w.hwq.credits \in Int
    BY <1>19 DEF HwQueue
  <2> QED  BY <1>18, <2>1, <2>2
<1>21. /\ hw \in HwQueue /\ hw.credits = c /\ hw.dec = w.hwq.dec /\ hw.list = w.hwq.list
       /\ hw.token_status = w.hwq.token_status
       /\ hw.outstanding_tokens = w.hwq.outstanding_tokens
  BY ONLY <1>18, <1>19, <1>20 DEF HwQueue
<1>22. r = [w EXCEPT !.ring = g, !.hwq = hw]
  BY ONLY <1>16, <1>18, <1>19 DEF Raw
<1>23. /\ r \in Raw /\ r.ring = g /\ r.hwq = hw /\ r.txq = w.txq /\ r.skb = w.skb
       /\ r.stuck = w.stuck
  BY ONLY <1>19, <1>20, <1>21, <1>22 DEF Raw
<1>24. r \in State /\ Listed(r) = Listed(w)
  BY <1>19, <1>21, <1>23 DEF State, Listed
<1>25. /\ r.ring = Append(y.ring, f) /\ r.hwq.credits = y.hwq.credits - 1
       /\ r.hwq.dec = y.hwq.dec /\ r.hwq.token_status = y.hwq.token_status
       /\ r.hwq.outstanding_tokens = y.hwq.outstanding_tokens /\ r.skb = sk
  BY <1>13, <1>17, <1>18, <1>21, <1>23 DEF SameFrames, SameHw
<1>26. SkbOne(r, y, f, k)
  BY <1>7, <1>9, <1>25 DEF SkbOne
<1>27. \A u \in Txq \ {t} : r.txq[u] = y.txq[u]
  BY <1>11, <1>13, <1>17, <1>23
<1>28. r.txq[t] = w.txq[t]
  BY <1>23
<1>29. HwOne(r, y, f)
  BY <1>25 DEF HwOne
<1>30. PlaceOne(r, y, t)
  BY <1>1, <1>17, <1>23, <1>24, <1>28 DEF PlaceOne
<1> QED  BY <1>1, <1>4, <1>17, <1>24, <1>26, <1>27, <1>28, <1>29, <1>30 DEF PushedOne

First(q, i) == {q[j] : j \in 1 .. i}

\* o after the first i frames of q have been pushed from the queue t.
SkbAfter(y, o, k, q, i) ==
  \A g \in Skb : /\ y.skb[g].txq = o.skb[g].txq
                 /\ y.skb[g].init_time = o.skb[g].init_time
                 /\ y.skb[g].token = IF g \in First(q, i) THEN k ELSE o.skb[g].token

RingAfter(y, o, q, i) ==
  /\ Len(y.ring) = Len(o.ring) + i /\ Once(y.ring)
  /\ ToSet(y.ring) = ToSet(o.ring) \cup First(q, i)

HwAfter(y, o, i) ==
  /\ y.hwq.credits = o.hwq.credits - i
  /\ y.hwq.dec = o.hwq.dec /\ y.hwq.token_status = o.hwq.token_status
  /\ y.hwq.outstanding_tokens = o.hwq.outstanding_tokens

PlaceAfter(y, o, t, i) ==
  LET a == o.txq[t]
      out == a.credits - i <= 0
  IN  /\ y.txq[t].stop = (IF out THEN a.stop \cup {"FULL"} ELSE a.stop)
      /\ Listed(y) = (IF out THEN Listed(o) \ {t} ELSE Listed(o))
      /\ y.stuck = (IF out /\ a.sk_list # <<>> THEN o.stuck \cup {t} ELSE o.stuck)

AfterPush(y, o, t, k, q, i) ==
  /\ y \in State /\ \A u \in Txq \ {t} : y.txq[u] = o.txq[u]
  /\ Drained(y.txq[t], o.txq[t], k, i)
  /\ SkbAfter(y, o, k, q, i) /\ RingAfter(y, o, q, i) /\ HwAfter(y, o, i)
  /\ PlaceAfter(y, o, t, i)

\* The queue t of o may push the n frames of q.
MayPush(o, t, q, n) ==
  LET a == o.txq[t] IN
  /\ t \in Listed(o) /\ a.active /\ a.credits > 0 /\ n <= a.credits
  /\ a.push_limit # 0 => n <= a.push_limit
  /\ a.ps_active => a.pkt_ready >= n /\ a.sp_cnt = a.push_limit
  /\ q \in Seq(Skb) /\ Len(q) = n /\ Once(q) /\ Once(o.ring)
  /\ ToSet(q) \cap ToSet(o.ring) = {}

LEMMA Counted ==
  ASSUME NEW q \in Queue
  PROVE  /\ q.credits \in Int /\ q.push_limit \in Nat /\ q.nb_retry \in Nat
         /\ q.pkt_ready \in Int /\ q.sp_cnt \in Int /\ q.stop \subseteq Stops
         /\ q.token_pkt_num \in [Token -> Int] /\ q.init_time \in 0 .. MaxInit
         /\ q.last_retry_skb \in Skb \cup {None} /\ q.active \in BOOLEAN
         /\ q.ps_active \in BOOLEAN /\ q.sk_list \in Seq(Skb)
BY DEF Queue

LEMMA HwCounted ==
  ASSUME NEW s \in State
  PROVE  /\ s.hwq.credits \in Int /\ s.hwq.dec \in 0 .. Size - 1 /\ s.hwq.need_processing \in BOOLEAN
         /\ s.hwq.token_status \in [Token -> BOOLEAN] /\ s.hwq.outstanding_tokens \in Int
<1>1. s.hwq \in HwQueue
  BY StateIs
<1> QED  BY <1>1 DEF HwQueue

LEMMA OneMorePush ==
  ASSUME NEW o \in State, NEW t \in Txq, NEW k \in Token, NEW q, NEW n \in Nat,
         MayPush(o, t, q, n), NEW i \in Nat, i < n, NEW y, AfterPush(y, o, t, k, q, i),
         NEW r, r = TxPush(y, t, q[i + 1], k)
  PROVE  AfterPush(r, o, t, k, q, i + 1)
<1>1. PICK a, p, f : a = o.txq[t] /\ p = y.txq[t] /\ f = q[i + 1]
  OBVIOUS
<1>2. /\ t \in Listed(o) /\ a.active /\ a.credits > 0 /\ n <= a.credits
      /\ a.push_limit # 0 => n <= a.push_limit
      /\ a.ps_active => a.pkt_ready >= n /\ a.sp_cnt = a.push_limit
      /\ q \in Seq(Skb) /\ Len(q) = n /\ Once(q) /\ Once(o.ring)
      /\ ToSet(q) \cap ToSet(o.ring) = {}
  BY <1>1 DEF MayPush
<1>3. /\ y \in State /\ \A u \in Txq \ {t} : y.txq[u] = o.txq[u]
      /\ Drained(p, a, k, i) /\ SkbAfter(y, o, k, q, i) /\ RingAfter(y, o, q, i)
      /\ HwAfter(y, o, i) /\ PlaceAfter(y, o, t, i)
  BY <1>1 DEF AfterPush
<1>4. a \in Queue /\ p \in Queue /\ a.credits \in Int /\ a.push_limit \in Nat /\ a.pkt_ready \in Int
  <2>1. a \in Queue /\ p \in Queue
    BY <1>1, <1>3, StateIs
  <2> QED  BY <2>1, Counted
<1>5. ~(a.credits - i <= 0) /\ p.credits = a.credits - i /\ p.active /\ p.sk_list = a.sk_list
  <2>1. ~(a.credits - i <= 0)
    BY <1>2, <1>4
  <2> QED  BY <1>2, <1>3, <2>1 DEF Drained
<1>6. f \in Skb /\ f \notin ToSet(y.ring) /\ First(q, i + 1) = First(q, i) \cup {f}
  <2>1. i + 1 \in 1 .. Len(q) /\ f \in Skb /\ f \in ToSet(q)
    BY <1>1, <1>2, SetIs
  <2>2. f \notin First(q, i)
    BY <1>1, <1>2, <2>1 DEF First, Once
  <2>3. First(q, i + 1) = First(q, i) \cup {f}
    <3>1. 1 .. i + 1 = (1 .. i) \cup {i + 1}
      OBVIOUS
    <3> QED  BY <1>1, <3>1 DEF First
  <2>4. ToSet(y.ring) = ToSet(o.ring) \cup First(q, i)
    BY <1>3 DEF RingAfter
  <2> QED  BY <1>2, <2>1, <2>2, <2>3, <2>4
<1>7. PushedOne(r, y, t, f, k)
  <2>1. r = TxPush(y, t, f, k) /\ y.txq[t].active
    BY <1>1, <1>5
  <2> QED  BY ONLY t \in Txq, k \in Token, <1>3, <1>6, <2>1, TxPushIs
<1>8. PICK b : b = r.txq[t]
  OBVIOUS
<1>9. PICK z : Moved(z, p, k) /\ SameQueue(b, z) /\ b.credits = z.credits
  BY <1>1, <1>7, <1>8 DEF PushedOne
<1>10. /\ r \in State /\ \A u \in Txq \ {t} : r.txq[u] = y.txq[u]
       /\ SkbOne(r, y, f, k) /\ HwOne(r, y, f) /\ PlaceOne(r, y, t)
  BY <1>7 DEF PushedOne
<1>11. (p.credits - 1 <= 0) <=> (a.credits - (i + 1) <= 0)
  BY <1>4, <1>5
<1>12. Drained(z, a, k, i + 1)
  <2>1. /\ a.push_limit # 0 => a.push_limit > i
        /\ a.ps_active => a.pkt_ready > i
        /\ a.ps_active => a.sp_cnt = a.push_limit
    BY <1>2, <1>4
  <2> QED  BY ONLY k \in Token, i \in Nat, <1>3, <1>4, <1>9, <2>1, DrainOne
<1>13. Drained(b, a, k, i + 1)
  BY <1>9, <1>12 DEF Drained, SameQueue
<1>14. RingAfter(r, o, q, i + 1)
  <2>1. y.ring \in Seq(Skb) /\ Len(o.ring) \in Nat
    BY <1>3, StateIs
  <2>2. r.ring = Append(y.ring, f)
    BY ONLY <1>10 DEF HwOne
  <2>3. /\ Len(y.ring) = Len(o.ring) + i /\ Once(y.ring)
        /\ ToSet(y.ring) = ToSet(o.ring) \cup First(q, i)
    BY ONLY <1>3 DEF RingAfter
  <2>4. /\ Len(r.ring) = Len(y.ring) + 1 /\ Once(r.ring)
        /\ ToSet(r.ring) = ToSet(y.ring) \cup {f}
    BY <1>6, <2>1, <2>2, <2>3, Appended, SMTT(30)
  <2>5. Len(r.ring) = Len(o.ring) + (i + 1)
    <3>1. PICK L \in Nat : L = Len(o.ring)
      BY <2>1
    <3>2. Len(y.ring) = L + i /\ Len(r.ring) = Len(y.ring) + 1
      BY <2>3, <2>4, <3>1
    <3>3. Len(r.ring) = L + (i + 1)
      BY <3>2
    <3> QED  BY <3>1, <3>3
  <2> QED  BY <1>6, <2>3, <2>4, <2>5 DEF RingAfter
<1>15. HwAfter(r, o, i + 1)
  <2>1. o.hwq.credits \in Int
    BY HwCounted
  <2>2. /\ y.hwq.credits = o.hwq.credits - i
        /\ y.hwq.dec = o.hwq.dec /\ y.hwq.token_status = o.hwq.token_status
        /\ y.hwq.outstanding_tokens = o.hwq.outstanding_tokens
    BY ONLY <1>3 DEF HwAfter
  <2>3. /\ r.hwq.credits = y.hwq.credits - 1
        /\ r.hwq.dec = y.hwq.dec /\ r.hwq.token_status = y.hwq.token_status
        /\ r.hwq.outstanding_tokens = y.hwq.outstanding_tokens
    BY ONLY <1>10 DEF HwOne
  <2>4. PICK C \in Int : C = o.hwq.credits
    BY <2>1
  <2>5. (C - i) - 1 = C - (i + 1)
    OBVIOUS
  <2> QED  BY ONLY <2>2, <2>3, <2>4, <2>5 DEF HwAfter
<1>16. PlaceAfter(r, o, t, i + 1)
  <2>1. /\ p.stop = a.stop /\ Listed(y) = Listed(o) /\ y.stuck = o.stuck
    BY <1>1, <1>3, <1>5 DEF PlaceAfter
  <2>2. /\ r.txq[t].stop = (IF p.credits - 1 <= 0 THEN a.stop \cup {"FULL"} ELSE a.stop)
        /\ Listed(r) = (IF p.credits - 1 <= 0 THEN Listed(o) \ {t} ELSE Listed(o))
        /\ r.stuck = (IF p.credits - 1 <= 0 /\ a.sk_list # <<>>
                      THEN o.stuck \cup {t} ELSE o.stuck)
    BY <1>1, <1>2, <1>5, <1>10, <2>1 DEF PlaceOne
  <2> QED  BY <1>1, <1>11, <2>2 DEF PlaceAfter
<1>17. SkbAfter(r, o, k, q, i + 1)
  BY <1>3, <1>6, <1>10 DEF SkbAfter, SkbOne
<1>18. \A u \in Txq \ {t} : r.txq[u] = o.txq[u]
  BY <1>3, <1>10
<1> QED  BY <1>1, <1>8, <1>10, <1>13, <1>14, <1>15, <1>16, <1>17, <1>18 DEF AfterPush

LEMMA PushAllIs ==
  ASSUME NEW o \in State, NEW t \in Txq, NEW k \in Token, NEW q, NEW n \in Nat,
         MayPush(o, t, q, n), o.txq[t].token_pkt_num[k] = 0,
         o.txq[t].nb_retry = 0 => o.txq[t].last_retry_skb = None,
         NEW r, r = PushAll(t, k, o, q)
  PROVE  AfterPush(r, o, t, k, q, n)
<1>1. q \in Seq(Skb) /\ Len(q) = n /\ DOMAIN q = 1 .. n
  BY DEF MayPush
<1>2. PushRun(t, k, o, n, q)
  BY ONLY n \in Nat, <1>1, PushFold
<1>3. PICK g : /\ g[0] = o /\ \A i \in 1 .. n : g[i] = TxPush(g[i - 1], t, q[i], k)
               /\ PushAll(t, k, o, q) = g[n]
  BY ONLY <1>2 DEF PushRun
<1> DEFINE A == {i \in 0 .. n : AfterPush(g[i], o, t, k, q, i)}
<1>4. 0 \in A
  <2>1. PICK a : a = o.txq[t]
    OBVIOUS
  <2>2. /\ a \in Queue /\ a.credits \in Int /\ a.push_limit \in Nat /\ a.nb_retry \in Nat
        /\ a.pkt_ready \in Int /\ a.sp_cnt \in Int
    BY <2>1, StateIs, Counted
  <2>3. First(q, 0) = {}
    BY DEF First
  <2>4. /\ a.credits - 0 = a.credits /\ a.push_limit - 0 = a.push_limit /\ a.nb_retry - 0 = a.nb_retry
        /\ a.pkt_ready - 0 = a.pkt_ready /\ a.credits > 0
        /\ a.ps_active => a.sp_cnt = a.push_limit
    BY <2>1, <2>2 DEF MayPush
  <2>5. Drained(a, a, k, 0)
    <3>1. a.push_limit = (IF a.push_limit = 0 THEN 0 ELSE a.push_limit - 0)
      BY ONLY <2>4
    <3>2. a.nb_retry = (IF a.nb_retry > 0 THEN a.nb_retry - 0 ELSE 0)
      BY ONLY <2>2, <2>4
    <3>3. a.last_retry_skb = (IF a.nb_retry = 0 THEN None ELSE a.last_retry_skb)
      BY <2>1
    <3>4. \A j \in Token : a.token_pkt_num[j] = IF j = k THEN 0 ELSE a.token_pkt_num[j]
      BY <2>1
    <3> QED  BY ONLY <2>4, <3>1, <3>2, <3>3, <3>4 DEF Drained
  <2>6. Len(o.ring) \in Nat /\ o.hwq.credits \in Int
    BY StateIs, HwCounted
  <2>7. /\ Len(o.ring) = Len(o.ring) + 0 /\ o.hwq.credits = o.hwq.credits - 0
        /\ ToSet(o.ring) = ToSet(o.ring) \cup First(q, 0) /\ Once(o.ring)
        /\ ~(a.credits - 0 <= 0)
    BY <2>2, <2>3, <2>4, <2>6 DEF MayPush
  <2>8. AfterPush(o, o, t, k, q, 0)
    <3>1. SkbAfter(o, o, k, q, 0)
      BY <2>3 DEF SkbAfter
    <3>2. RingAfter(o, o, q, 0) /\ HwAfter(o, o, 0)
      BY <2>7 DEF RingAfter, HwAfter
    <3>3. PlaceAfter(o, o, t, 0)
      BY <2>1, <2>7 DEF PlaceAfter
    <3> QED  BY <2>1, <2>5, <3>1, <3>2, <3>3 DEF AfterPush
  <2> QED  BY <1>3, <2>8
<1>5. ASSUME NEW m \in 1 .. n, m - 1 \in A
      PROVE  m \in A
  <2>1. PICK i, y, x : i = m - 1 /\ y = g[i] /\ x = g[m]
    OBVIOUS
  <2>2. i \in Nat /\ i < n /\ i + 1 = m /\ m \in 0 .. n
    BY <2>1
  <2>3. AfterPush(y, o, t, k, q, i)
    BY <1>5, <2>1
  <2>4. x = TxPush(y, t, q[i + 1], k)
    BY <1>3, <2>1, <2>2
  <2>5. MayPush(o, t, q, n)
    OBVIOUS
  <2>6. AfterPush(x, o, t, k, q, i + 1)
    BY ONLY o \in State, t \in Txq, k \in Token, n \in Nat, <2>2, <2>3, <2>4, <2>5, OneMorePush
  <2> QED  BY <2>1, <2>2, <2>6
<1>6. \A m \in 0 .. n : m \in A
  <2> HIDE DEF A
  <2> QED  BY <1>4, <1>5, UpTo
<1>7. n \in A
  BY <1>6
<1> QED  BY <1>3, <1>7

\* A queue of which the frames and the counts per token may have changed.
LikeQueue(p, q) ==
  /\ p.active = q.active /\ p.init_time = q.init_time
  /\ p.ps_active = q.ps_active /\ p.ps_id = q.ps_id /\ p.flow = q.flow
  /\ p.stop = q.stop /\ p.credits = q.credits /\ p.push_limit = q.push_limit
  /\ p.nb_retry = q.nb_retry /\ p.last_retry_skb = q.last_retry_skb
  /\ p.pkt_ready = q.pkt_ready /\ p.sp_cnt = q.sp_cnt

\* The queue t of s has the token k, and x left of its frames.
Took(o, s, t, k, x) ==
  /\ o \in State /\ \A u \in Txq \ {t} : o.txq[u] = s.txq[u]
  /\ LikeQueue(o.txq[t], s.txq[t]) /\ o.txq[t].sk_list = x
  /\ \A j \in Token : o.txq[t].token_pkt_num[j] = IF j = k THEN 0 ELSE s.txq[t].token_pkt_num[j]
  /\ o.skb = s.skb /\ o.ring = s.ring /\ o.stuck = s.stuck /\ Listed(o) = Listed(s)
  /\ o.hwq.credits = s.hwq.credits /\ o.hwq.dec = s.hwq.dec
  /\ Busy(o) = Busy(s) \cup {k}
  /\ o.hwq.outstanding_tokens = s.hwq.outstanding_tokens + 1

LEMMA TookIs ==
  ASSUME NEW s \in State, NEW t \in Txq, NEW k \in Token, NEW x \in Seq(Skb),
         NEW o, o = [TakeToken(s, t, k) EXCEPT !.txq[t].sk_list = x]
  PROVE  Took(o, s, t, k, x)
<1>1. PICK q, h, yes : q = s.txq[t] /\ h = s.hwq /\ yes = TRUE
  OBVIOUS
<1>2. s \in Raw /\ q \in Queue /\ h \in HwQueue /\ Once(h.list)
  BY <1>1, StateIs DEF State
<1>3. /\ q.token_pkt_num \in [Token -> Int] /\ h.token_status \in [Token -> BOOLEAN]
      /\ h.outstanding_tokens \in Int
  BY <1>2 DEF Queue, HwQueue
<1>4. PICK ts, ot, tp : /\ ts = [h.token_status EXCEPT ![k] = yes]
                        /\ ot = h.outstanding_tokens + 1
                        /\ tp = [q.token_pkt_num EXCEPT ![k] = 0]
  OBVIOUS
<1>5. /\ ts \in [Token -> BOOLEAN] /\ ot \in Int /\ tp \in [Token -> Int]
      /\ \A j \in Token : tp[j] = IF j = k THEN 0 ELSE q.token_pkt_num[j]
      /\ \A j \in Token : ts[j] <=> h.token_status[j] \/ j = k
  <2>1. yes \in BOOLEAN
    BY <1>1
  <2>2. ts \in [Token -> BOOLEAN] /\ \A j \in Token : ts[j] <=> h.token_status[j] \/ j = k
    BY <1>1, <1>3, <1>4
  <2>3. ot \in Int
    BY <1>3, <1>4
  <2>4. /\ tp \in [Token -> Int]
        /\ \A j \in Token : tp[j] = IF j = k THEN 0 ELSE q.token_pkt_num[j]
    BY ONLY k \in Token, <1>3, <1>4
  <2> QED  BY <2>2, <2>3, <2>4
<1>6. PICK h1, p : /\ h1 = [h EXCEPT !.token_status = ts, !.outstanding_tokens = ot]
                   /\ p = [q EXCEPT !.token_pkt_num = tp, !.sk_list = x]
  OBVIOUS
<1>7. /\ h1 \in HwQueue /\ h1.list = h.list /\ h1.credits = h.credits /\ h1.dec = h.dec
      /\ h1.token_status = ts /\ h1.outstanding_tokens = ot
  BY ONLY <1>2, <1>5, <1>6 DEF HwQueue
<1>8. p \in Queue /\ p.token_pkt_num = tp /\ p.sk_list = x /\ LikeQueue(p, q)
  <2>1. p \in Queue /\ p.token_pkt_num = tp /\ p.sk_list = x
    BY ONLY x \in Seq(Skb), <1>2, <1>5, <1>6 DEF Queue
  <2>2. LikeQueue(p, q)
    BY ONLY <1>2, <1>6 DEF Queue, LikeQueue
  <2> QED  BY <2>1, <2>2
<1>9. PICK y : y = [s.txq EXCEPT ![t] = p]
  OBVIOUS
<1>10. y \in [Txq -> Queue] /\ y[t] = p /\ \A u \in Txq \ {t} : y[u] = s.txq[u]
  BY ONLY t \in Txq, <1>2, <1>8, <1>9 DEF Raw
<1>11. o = [s EXCEPT !.hwq = h1, !.txq = y]
  <2>1. PICK q1 : q1 = [q EXCEPT !.token_pkt_num = tp]
    OBVIOUS
  <2>2. p = [q1 EXCEPT !.sk_list = x]
    BY ONLY <1>2, <1>6, <2>1 DEF Queue
  <2>3. PICK y1 : y1 = [s.txq EXCEPT ![t] = q1]
    OBVIOUS
  <2>4. TakeToken(s, t, k) = [s EXCEPT !.hwq = h1, !.txq = y1]
    <3>1. TakeToken(s, t, k) = [s EXCEPT !.hwq.token_status[k] = yes,
                                         !.hwq.outstanding_tokens = ot,
                                         !.txq[t].token_pkt_num[k] = 0]
      BY <1>1, <1>4 DEF TakeToken
    <3> QED  BY ONLY t \in Txq, k \in Token, <1>1, <1>2, <1>4, <1>6, <2>1, <2>3, <3>1 DEF Raw, HwQueue, Queue
  <2>5. PICK w : w = [s EXCEPT !.hwq = h1, !.txq = y1]
    OBVIOUS
  <2>6. o = [w EXCEPT !.txq[t].sk_list = x]
    BY <2>4, <2>5
  <2>7. w.txq = y1 /\ y1[t] = q1 /\ y = [y1 EXCEPT ![t] = p]
    BY ONLY t \in Txq, <1>2, <1>9, <2>3, <2>5 DEF Raw
  <2>8. o = [w EXCEPT !.txq = y]
    BY ONLY t \in Txq, <2>2, <2>6, <2>7, <1>2, <2>5 DEF Raw
  <2> QED  BY ONLY <1>2, <2>5, <2>8 DEF Raw
<1>12. /\ o \in Raw /\ o.txq = y /\ o.hwq = h1 /\ o.skb = s.skb /\ o.ring = s.ring
       /\ o.stuck = s.stuck
  BY ONLY <1>2, <1>7, <1>10, <1>11 DEF Raw
<1>13. o \in State /\ Listed(o) = Listed(s)
  BY <1>1, <1>2, <1>7, <1>12 DEF State, Listed
<1>14. Busy(o) = Busy(s) \cup {k}
  <2>1. \A j \in Token : o.hwq.token_status[j] <=> s.hwq.token_status[j] \/ j = k
    BY <1>1, <1>5, <1>7, <1>12
  <2> QED  BY ONLY k \in Token, <2>1 DEF Busy
<1>15. /\ o.txq[t] = p /\ \A u \in Txq \ {t} : o.txq[u] = s.txq[u]
  BY <1>10, <1>12
<1>16. \A j \in Token : o.txq[t].token_pkt_num[j] = IF j = k THEN 0 ELSE s.txq[t].token_pkt_num[j]
  BY <1>1, <1>5, <1>8, <1>15
<1> QED  BY <1>1, <1>4, <1>7, <1>8, <1>12, <1>13, <1>14, <1>15, <1>16 DEF Took

\* The queue t, done for this pass, leaves the list, or another's turn comes.
Turn(y, t, empty, rotate) ==
  IF empty THEN DelFromHwList(y, t)
  ELSE IF rotate /\ y.hwq.credits = 0 /\ IsScheduled(y, t)
  THEN [y EXCEPT !.hwq.list = Append(Tail(@), Head(@))]
  ELSE y

HasTurned(w, y, t, empty) ==
  /\ w \in State /\ w.txq = y.txq /\ SameFrames(w, y) /\ SameHw(w, y)
  /\ Listed(w) = (IF empty THEN Listed(y) \ {t} ELSE Listed(y))
  /\ w.stuck = (IF empty /\ t \in Listed(y) /\ y.txq[t].sk_list # <<>>
                THEN y.stuck \cup {t} ELSE y.stuck)

LEMMA TurnIs ==
  ASSUME NEW y \in State, NEW t \in Txq, NEW empty, NEW rotate,
         NEW w, w = Turn(y, t, empty, rotate)
  PROVE  HasTurned(w, y, t, empty)
<1>1. CASE empty
  <2>1. w = DelFromHwList(y, t)
    BY <1>1 DEF Turn
  <2>2. Unlisted(w, y, t)
    BY ONLY y \in State, t \in Txq, <2>1, DelIs
  <2> QED  BY <1>1, <2>2 DEF Unlisted, HasTurned
<1>2. CASE ~empty /\ rotate /\ y.hwq.credits = 0 /\ IsScheduled(y, t)
  <2>1. PICK h, l : h = y.hwq /\ l = Append(Tail(h.list), Head(h.list))
    OBVIOUS
  <2>2. y \in Raw /\ h \in HwQueue /\ h.list \in Seq(Txq) /\ Once(h.list)
    BY <2>1, StateIs DEF State
  <2>3. h.list # <<>>
    <3>1. t \in ToSet(h.list)
      BY <1>2, <2>1, <2>2, SetIs DEF IsScheduled
    <3> QED  BY <3>1, <2>2, SetIs
  <2>4. l \in Seq(Txq) /\ ToSet(l) = ToSet(h.list) /\ Once(l)
    BY <2>1, <2>2, <2>3, Turned
  <2>5. PICK h1 : h1 = [h EXCEPT !.list = l]
    OBVIOUS
  <2>6. /\ h1 \in HwQueue /\ h1.list = l /\ h1.credits = h.credits /\ h1.dec = h.dec
        /\ h1.token_status = h.token_status /\ h1.outstanding_tokens = h.outstanding_tokens
    BY ONLY <2>2, <2>4, <2>5 DEF HwQueue
  <2>7. w = [y EXCEPT !.hwq = h1]
    <3>1. w = [y EXCEPT !.hwq.list = l]
      BY <1>2, <2>1 DEF Turn
    <3> QED  BY ONLY <2>1, <2>2, <2>5, <3>1 DEF Raw
  <2>8. /\ w \in Raw /\ w.hwq = h1 /\ w.txq = y.txq /\ w.skb = y.skb /\ w.ring = y.ring
        /\ w.stuck = y.stuck
    BY ONLY <2>2, <2>6, <2>7 DEF Raw
  <2>9. w \in State /\ Listed(w) = Listed(y) /\ SameHw(w, y) /\ SameFrames(w, y)
    BY <2>1, <2>4, <2>6, <2>8 DEF State, Listed, SameHw, SameFrames
  <2> QED  BY <1>2, <2>8, <2>9 DEF HasTurned
<1>3. CASE ~empty /\ ~(rotate /\ y.hwq.credits = 0 /\ IsScheduled(y, t))
  <2>1. w = y
    BY <1>3 DEF Turn
  <2> QED  BY <1>3, <2>1 DEF HasTurned, SameFrames, SameHw
<1> QED  BY <1>1, <1>2, <1>3

\* siwifi_txq_handle_queue_end: the limit of a legacy service period, the flow.
Ended(p, q) ==
  LET over == q.push_limit > 0 /\ q.ps_id = "LEGACY_PS_ID" IN
  /\ p \in Queue /\ p.active = q.active /\ p.init_time = q.init_time
  /\ p.ps_active = q.ps_active /\ p.ps_id = q.ps_id
  /\ p.flow = (q.flow /\ Len(q.sk_list) >= FlowRestart)
  /\ p.stop = q.stop /\ p.credits = q.credits /\ p.sk_list = q.sk_list
  /\ p.nb_retry = q.nb_retry /\ p.last_retry_skb = q.last_retry_skb
  /\ p.pkt_ready = q.pkt_ready /\ p.token_pkt_num = q.token_pkt_num
  /\ p.push_limit = (IF over THEN 0 ELSE q.push_limit)
  /\ p.sp_cnt = (IF over THEN q.sp_cnt - q.push_limit ELSE q.sp_cnt)

LEMMA EndIs ==
  ASSUME NEW w \in State, NEW t \in Txq, NEW r, r = EndPush(w, t)
  PROVE  \E p : Ended(p, w.txq[t]) /\ Only(r, w, t, p)
<1>1. PICK q : q = w.txq[t]
  OBVIOUS
<1>2. w \in Raw /\ q \in Queue
  BY <1>1, StateIs DEF State
<1>3. PICK fl, a, b : /\ fl = (q.flow /\ Len(q.sk_list) >= FlowRestart)
                      /\ a = (IF q.push_limit > 0 /\ q.ps_id = "LEGACY_PS_ID" THEN 0 ELSE q.push_limit)
                      /\ b = (IF q.push_limit > 0 /\ q.ps_id = "LEGACY_PS_ID"
                              THEN q.sp_cnt - q.push_limit ELSE q.sp_cnt)
  OBVIOUS
<1>4. fl \in BOOLEAN /\ a \in Nat /\ b \in Int
  <2>1. q.push_limit \in Nat /\ q.sp_cnt \in Int
    BY <1>2, Counted
  <2>2. fl \in BOOLEAN
    BY <1>3
  <2> QED  BY <1>3, <2>1, <2>2
<1>5. PICK p : p = [q EXCEPT !.push_limit = a, !.sp_cnt = b, !.flow = fl]
  OBVIOUS
<1>6. /\ p \in Queue /\ p.active = q.active /\ p.init_time = q.init_time
      /\ p.ps_active = q.ps_active /\ p.ps_id = q.ps_id /\ p.flow = fl
      /\ p.stop = q.stop /\ p.credits = q.credits /\ p.sk_list = q.sk_list
      /\ p.nb_retry = q.nb_retry /\ p.last_retry_skb = q.last_retry_skb
      /\ p.pkt_ready = q.pkt_ready /\ p.token_pkt_num = q.token_pkt_num
      /\ p.push_limit = a /\ p.sp_cnt = b
  BY ONLY <1>2, <1>4, <1>5 DEF Queue
<1>7. Ended(p, q)
  BY ONLY <1>3, <1>6 DEF Ended
<1>8. r = SetQ(w, t, p)
  <2>1. PICK e : e = IF q.push_limit > 0 /\ q.ps_id = "LEGACY_PS_ID"
                     THEN [q EXCEPT !.sp_cnt = q.sp_cnt - q.push_limit, !.push_limit = 0] ELSE q
    OBVIOUS
  <2>2. r = [w EXCEPT !.txq[t] = e, !.txq[t].flow = fl]
    BY <1>1, <1>3, <2>1 DEF EndPush
  <2>3. p = [e EXCEPT !.flow = fl]
    <3>1. CASE q.push_limit > 0 /\ q.ps_id = "LEGACY_PS_ID"
      BY ONLY <1>2, <1>3, <1>5, <2>1, <3>1 DEF Queue
    <3>2. CASE ~(q.push_limit > 0 /\ q.ps_id = "LEGACY_PS_ID")
      <4>1. a = q.push_limit /\ b = q.sp_cnt /\ e = q
        BY ONLY <1>3, <2>1, <3>2
      <4> QED  BY ONLY <1>2, <1>5, <4>1 DEF Queue
    <3> QED  BY <3>1, <3>2
  <2> QED  BY ONLY t \in Txq, <1>2, <2>2, <2>3 DEF Raw, SetQ
<1>9. Only(r, w, t, p)
  BY ONLY w \in State, t \in Txq, <1>6, <1>8, SetQIs
<1> QED  BY <1>1, <1>7, <1>9

\* siwifi_txq_get_skb_to_push: the numbers.
TakenFacts(n, L, a, c, empty) ==
  /\ n \in Nat /\ n <= L /\ n <= a.credits
  /\ a.push_limit # 0 => n <= a.push_limit
  /\ c > 0 => n <= c /\ (L > 0 => n >= 1)
  /\ ~empty => n < L /\ (a.push_limit # 0 => n < a.push_limit)
  /\ empty /\ n < L => a.push_limit > 0

LEMMA TakenIs ==
  ASSUME NEW s \in State, NEW t \in Txq, s.txq[t].credits > 0
  PROVE  TakenFacts(Taken(s, t), Len(s.txq[t].sk_list), s.txq[t], s.hwq.credits, TxqEmpty(s, t))
<1>1. PICK a, L, c, e, n : /\ a = s.txq[t] /\ L = Len(a.sk_list) /\ c = s.hwq.credits
                           /\ e = TxqEmpty(s, t) /\ n = Taken(s, t)
  OBVIOUS
<1>2. PICK m : m = ToPush(s, t)
  OBVIOUS
<1>3. a \in Queue /\ a.credits \in Int /\ a.push_limit \in Nat /\ L \in Nat /\ c \in Int /\ a.credits > 0
  BY <1>1, StateIs, Counted, HwCounted
<1>4. PICK d : d = Size \div Tokens
  OBVIOUS
<1>5. d \in Int /\ d >= 1
  <2>1. Size \in Nat /\ Tokens \in Nat /\ Tokens >= 1 /\ Tokens <= Size
    BY SchedAssumption DEF SchedAssumption
  <2> QED  BY <1>4, <2>1
<1>6. PICK x : x = GetCredits(a)
  OBVIOUS
<1>7. /\ x \in Int /\ x >= 1 /\ x <= a.credits /\ (a.push_limit # 0 => x <= a.push_limit)
  BY <1>3, <1>6 DEF GetCredits
<1>8. m = Smallest(Smallest(x, c), d)
  BY <1>1, <1>2, <1>4, <1>6 DEF ToPush
<1>9. m \in Int /\ m <= x /\ m <= c /\ (c > 0 => m >= 1)
  BY <1>3, <1>5, <1>7, <1>8 DEF Smallest
<1>10. n = IF m <= 0 THEN 0 ELSE Smallest(m, L)
  BY <1>1, <1>2 DEF Taken
<1>11. e <=> a.sk_list = <<>> \/ m >= L \/ (m > 0 /\ a.push_limit # 0 /\ m = a.push_limit)
  BY <1>1, <1>2 DEF TxqEmpty
<1>12. a.sk_list = <<>> <=> L = 0
  <2>1. a.sk_list \in Seq(Skb)
    BY <1>3, Counted
  <2> QED  BY <1>1, <2>1, SetIs
<1>13. n \in Nat /\ n <= L /\ (n = 0 \/ n <= m) /\ (m > 0 => n = m \/ n = L) /\ (m <= 0 => n = 0)
  BY <1>3, <1>9, <1>10 DEF Smallest
<1>14. n <= a.credits /\ (a.push_limit # 0 => n <= a.push_limit)
  BY <1>3, <1>7, <1>9, <1>13
<1>15. c > 0 => n <= c /\ (L > 0 => n >= 1)
  BY <1>3, <1>9, <1>13
<1>16. ~e => n < L
  BY <1>3, <1>9, <1>11, <1>12, <1>13
<1>17. ~e /\ a.push_limit # 0 => n < a.push_limit
  BY <1>3, <1>7, <1>9, <1>11, <1>13, <1>16
<1>18. e /\ n < L => a.push_limit > 0
  BY <1>3, <1>9, <1>11, <1>12, <1>13
<1>19. TakenFacts(n, L, a, c, e)
  BY ONLY <1>13, <1>14, <1>15, <1>16, <1>17, <1>18 DEF TakenFacts
<1> QED  BY <1>1, <1>19

\* What siwifi_hwq_process does to a queue, in one piece.
SentQueue(b, a, k, n) ==
  LET pl == IF a.push_limit = 0 THEN 0 ELSE a.push_limit - n
      L == Len(a.sk_list)
  IN  /\ b \in Queue /\ b.active = a.active /\ b.init_time = a.init_time
      /\ b.sk_list = SubSeq(a.sk_list, n + 1, L)
      /\ b.ps_active = a.ps_active /\ b.ps_id = a.ps_id
      /\ b.flow = (a.flow /\ Len(b.sk_list) >= FlowRestart)
      /\ b.credits = a.credits - n
      /\ b.push_limit = (IF pl > 0 /\ a.ps_id = "LEGACY_PS_ID" THEN 0 ELSE pl)
      /\ b.nb_retry = (IF a.nb_retry > n THEN a.nb_retry - n ELSE 0)
      /\ b.last_retry_skb = (IF b.nb_retry = 0 THEN None ELSE a.last_retry_skb)
      /\ a.ps_active => b.pkt_ready = a.pkt_ready - n /\ b.sp_cnt = b.push_limit
      /\ ~a.ps_active => b.pkt_ready = a.pkt_ready
      /\ \A j \in Token : b.token_pkt_num[j] = IF j = k THEN n ELSE a.token_pkt_num[j]

SentPlace(r, s, t, n, empty) ==
  LET a == s.txq[t]
      out == a.credits - n <= 0
  IN  /\ r.txq[t].stop = (IF out THEN a.stop \cup {"FULL"} ELSE a.stop)
      /\ Listed(r) = (IF out \/ empty THEN Listed(s) \ {t} ELSE Listed(s))
      /\ r.stuck = (IF (out \/ empty) /\ r.txq[t].sk_list # <<>>
                    THEN s.stuck \cup {t} ELSE s.stuck)

SentHw(r, s, k, n) ==
  /\ r.hwq.credits = s.hwq.credits - n /\ r.hwq.dec = s.hwq.dec
  /\ Busy(r) = Busy(s) \cup {k}
  /\ r.hwq.outstanding_tokens = s.hwq.outstanding_tokens + 1

Sent(r, s, t, k, n, empty) ==
  /\ r \in State /\ \A u \in Txq \ {t} : r.txq[u] = s.txq[u]
  /\ SentQueue(r.txq[t], s.txq[t], k, n)
  /\ SentPlace(r, s, t, n, empty)
  /\ SkbAfter(r, s, k, SubSeq(s.txq[t].sk_list, 1, n), n)
  /\ RingAfter(r, s, SubSeq(s.txq[t].sk_list, 1, n), n)
  /\ SentHw(r, s, k, n)

\* The loop body of siwifi_hwq_process again, with its steps named.
PushTxqAs(s, t, k, rotate) ==
  LET n == Taken(s, t)
      q == s.txq[t].sk_list
      o == [TakeToken(s, t, k) EXCEPT !.txq[t].sk_list = SubSeq(q, n + 1, Len(q))]
  IN  EndPush(Turn(PushAll(t, k, o, SubSeq(q, 1, n)), t, TxqEmpty(s, t), rotate), t)

LEMMA PushTxqMirror ==
  ASSUME NEW s, NEW t, NEW k, NEW rotate
  PROVE  PushTxq(s, t, k, rotate) = PushTxqAs(s, t, k, rotate)
BY DEF PushTxq, PushTxqAs, PushAll, Turn

LEMMA PushTxqIs ==
  ASSUME NEW s \in State, Good(s, {}), NEW t \in Txq, t \in Listed(s), NEW k \in Token,
         ~s.hwq.token_status[k], NEW rotate,
         NEW r, r = PushTxq(s, t, k, rotate)
  PROVE  Sent(r, s, t, k, Taken(s, t), TxqEmpty(s, t))
<1>1. PICK a, n, L, e, Q : /\ a = s.txq[t] /\ n = Taken(s, t) /\ Q = a.sk_list /\ L = Len(Q)
                           /\ e = TxqEmpty(s, t)
  OBVIOUS
<1>2. PICK f, x : f = SubSeq(Q, 1, n) /\ x = SubSeq(Q, n + 1, L)
  OBVIOUS
<1>3. /\ a \in Queue /\ QueueOK(a) /\ PlaceOK(s, t) /\ Q \in Seq(Skb) /\ Once(Q) /\ L \in Nat
      /\ a.credits \in Int /\ a.push_limit \in Nat /\ a.nb_retry \in Nat
      /\ a.pkt_ready \in Int /\ a.sp_cnt \in Int
  <2>1. a \in Queue /\ QueueOK(a) /\ PlaceOK(s, t) /\ Q \in Seq(Skb) /\ L \in Nat
    BY <1>1, StateIs DEF Good
  <2> QED  BY <1>1, <2>1, Counted DEF QueueOK
<1>4. a.active /\ a.credits > 0
  BY <1>1, <1>3 DEF PlaceOK, QueueOK
<1>5. TakenFacts(n, L, a, s.hwq.credits, e)
  BY <1>1, <1>4, TakenIs
<1>6. n \in 0 .. L /\ n \in Nat /\ n <= L /\ n <= a.credits /\ (a.push_limit # 0 => n <= a.push_limit)
  BY <1>3, <1>5 DEF TakenFacts
<1>7. /\ f \in Seq(Skb) /\ x \in Seq(Skb) /\ Len(f) = n /\ Once(f)
      /\ ToSet(Q) = ToSet(f) \cup ToSet(x)
  <2>1. Q \in Seq(Skb) /\ n \in 0 .. Len(Q) /\ f = SubSeq(Q, 1, n) /\ x = SubSeq(Q, n + 1, Len(Q)) /\ Once(Q)
    BY <1>1, <1>2, <1>3, <1>6
  <2> QED  BY ONLY <2>1, Cut
<1>8. PICK o : o = [TakeToken(s, t, k) EXCEPT !.txq[t].sk_list = x]
  OBVIOUS
<1>9. Took(o, s, t, k, x)
  BY ONLY s \in State, t \in Txq, k \in Token, <1>7, <1>8, TookIs
<1>10. PICK a1 : a1 = o.txq[t]
  OBVIOUS
<1>11. /\ o \in State /\ \A u \in Txq \ {t} : o.txq[u] = s.txq[u]
       /\ LikeQueue(a1, a) /\ a1.sk_list = x
       /\ \A j \in Token : a1.token_pkt_num[j] = IF j = k THEN 0 ELSE a.token_pkt_num[j]
       /\ o.skb = s.skb /\ o.ring = s.ring /\ o.stuck = s.stuck /\ Listed(o) = Listed(s)
       /\ o.hwq.credits = s.hwq.credits /\ o.hwq.dec = s.hwq.dec
       /\ Busy(o) = Busy(s) \cup {k}
       /\ o.hwq.outstanding_tokens = s.hwq.outstanding_tokens + 1
  BY <1>1, <1>9, <1>10 DEF Took
<1>12. /\ a1.active = a.active /\ a1.init_time = a.init_time
       /\ a1.ps_active = a.ps_active /\ a1.ps_id = a.ps_id /\ a1.flow = a.flow
       /\ a1.stop = a.stop /\ a1.credits = a.credits /\ a1.push_limit = a.push_limit
       /\ a1.nb_retry = a.nb_retry /\ a1.last_retry_skb = a.last_retry_skb
       /\ a1.pkt_ready = a.pkt_ready /\ a1.sp_cnt = a.sp_cnt
  BY <1>11 DEF LikeQueue
<1>13. MayPush(o, t, f, n)
  <2>1. Once(o.ring) /\ ToSet(f) \cap ToSet(o.ring) = {}
    <3>1. Once(s.ring) /\ \A g \in ToSet(Q) : g \notin ToSet(s.ring)
      BY <1>1 DEF Good, Frames
    <3> QED  BY <1>7, <1>11, <3>1
  <2>2. a.ps_active => a.pkt_ready >= n /\ a.sp_cnt = a.push_limit
    BY <1>1, <1>3, <1>6 DEF QueueOK
  <2>3. t \in Listed(o)
    BY <1>11
  <2> QED  BY ONLY <1>4, <1>6, <1>7, <1>10, <1>12, <2>1, <2>2, <2>3 DEF MayPush
<1>14. PICK y : y = PushAll(t, k, o, f)
  OBVIOUS
<1>15. AfterPush(y, o, t, k, f, n)
  <2>1. o.txq[t].token_pkt_num[k] = 0 /\ (o.txq[t].nb_retry = 0 => o.txq[t].last_retry_skb = None)
    BY <1>3, <1>10, <1>11, <1>12 DEF QueueOK
  <2> QED  BY ONLY t \in Txq, k \in Token, <1>6, <1>11, <1>13, <1>14, <2>1, PushAllIs
<1>16. PICK b1 : b1 = y.txq[t]
  OBVIOUS
<1>17. /\ y \in State /\ \A u \in Txq \ {t} : y.txq[u] = o.txq[u]
       /\ Drained(b1, a1, k, n)
       /\ SkbAfter(y, o, k, f, n) /\ RingAfter(y, o, f, n) /\ HwAfter(y, o, n)
       /\ PlaceAfter(y, o, t, n)
  BY <1>10, <1>15, <1>16 DEF AfterPush
<1>18. PICK w : w = Turn(y, t, e, rotate)
  OBVIOUS
<1>19. HasTurned(w, y, t, e)
  BY ONLY t \in Txq, <1>17, <1>18, TurnIs
<1>20. /\ w \in State /\ w.txq = y.txq /\ w.skb = y.skb /\ w.ring = y.ring
       /\ w.hwq.credits = y.hwq.credits /\ w.hwq.dec = y.hwq.dec
       /\ w.hwq.token_status = y.hwq.token_status
       /\ w.hwq.outstanding_tokens = y.hwq.outstanding_tokens
       /\ Listed(w) = (IF e THEN Listed(y) \ {t} ELSE Listed(y))
       /\ w.stuck = (IF e /\ t \in Listed(y) /\ b1.sk_list # <<>>
                     THEN y.stuck \cup {t} ELSE y.stuck)
  BY <1>16, <1>19 DEF HasTurned, SameFrames, SameHw
<1>21. r = EndPush(w, t)
  <2>1. r = PushTxqAs(s, t, k, rotate)
    BY PushTxqMirror
  <2> QED  BY ONLY <1>1, <1>2, <1>8, <1>14, <1>18, <2>1 DEF PushTxqAs
<1>22. PICK b : Ended(b, w.txq[t]) /\ Only(r, w, t, b)
  BY ONLY t \in Txq, <1>20, <1>21, EndIs
<1>23. Ended(b, b1)
  BY <1>16, <1>20, <1>22
<1>24. /\ r \in State /\ r.txq[t] = b /\ \A u \in Txq \ {t} : r.txq[u] = w.txq[u]
       /\ r.hwq = w.hwq /\ r.skb = w.skb /\ r.ring = w.ring /\ r.stuck = w.stuck
  BY ONLY <1>22 DEF Only
<1>25. \A u \in Txq \ {t} : r.txq[u] = s.txq[u]
  BY <1>11, <1>17, <1>20, <1>24
<1>26. SentQueue(b, a, k, n)
  <2>1. PICK pl : pl = IF a.push_limit = 0 THEN 0 ELSE a.push_limit - n
    OBVIOUS
  <2>2. /\ b1.active = a.active /\ b1.init_time = a.init_time /\ b1.sk_list = x
        /\ b1.ps_active = a.ps_active /\ b1.ps_id = a.ps_id /\ b1.flow = a.flow
        /\ b1.credits = a.credits - n
        /\ b1.push_limit = pl
        /\ b1.nb_retry = (IF a.nb_retry > n THEN a.nb_retry - n ELSE 0)
        /\ b1.last_retry_skb = (IF b1.nb_retry = 0 THEN None ELSE a.last_retry_skb)
        /\ a.ps_active => b1.pkt_ready = a.pkt_ready - n /\ b1.sp_cnt = b1.push_limit
        /\ ~a.ps_active => b1.pkt_ready = a.pkt_ready
    BY ONLY <1>11, <1>12, <1>17, <2>1 DEF Drained
  <2>3. \A j \in Token : b1.token_pkt_num[j] = IF j = k THEN n ELSE a.token_pkt_num[j]
    <3>1. \A j \in Token : b1.token_pkt_num[j] = IF j = k THEN n ELSE a1.token_pkt_num[j]
      BY ONLY <1>17 DEF Drained
    <3> QED  BY <1>11, <3>1
  <2>4. /\ b \in Queue /\ b.active = b1.active /\ b.init_time = b1.init_time
        /\ b.ps_active = b1.ps_active /\ b.ps_id = b1.ps_id
        /\ b.flow = (b1.flow /\ Len(b1.sk_list) >= FlowRestart)
        /\ b.credits = b1.credits /\ b.sk_list = b1.sk_list
        /\ b.nb_retry = b1.nb_retry /\ b.last_retry_skb = b1.last_retry_skb
        /\ b.pkt_ready = b1.pkt_ready /\ b.token_pkt_num = b1.token_pkt_num
        /\ b.push_limit = (IF b1.push_limit > 0 /\ b1.ps_id = "LEGACY_PS_ID" THEN 0 ELSE b1.push_limit)
        /\ b.sp_cnt = (IF b1.push_limit > 0 /\ b1.ps_id = "LEGACY_PS_ID"
                       THEN b1.sp_cnt - b1.push_limit ELSE b1.sp_cnt)
    BY ONLY <1>23 DEF Ended
  <2>5. pl \in Int
    BY <1>3, <1>6, <2>1
  <2>6. a.ps_active => b.pkt_ready = a.pkt_ready - n /\ b.sp_cnt = b.push_limit
    <3>1. ASSUME a.ps_active  PROVE b.pkt_ready = a.pkt_ready - n /\ b.sp_cnt = b.push_limit
      <4>1. b1.sp_cnt = pl /\ b1.push_limit = pl /\ b1.pkt_ready = a.pkt_ready - n
        BY ONLY <2>2, <3>1
      <4>2. pl - pl = 0
        BY <2>5
      <4> QED  BY ONLY <2>4, <4>1, <4>2
    <3> QED  BY <3>1
  <2>7. ~a.ps_active => b.pkt_ready = a.pkt_ready
    BY ONLY <2>2, <2>4
  <2>8. \A j \in Token : b.token_pkt_num[j] = IF j = k THEN n ELSE a.token_pkt_num[j]
    BY ONLY <2>3, <2>4
  <2>9. b.flow = (a.flow /\ Len(b.sk_list) >= FlowRestart)
    BY ONLY <2>2, <2>4
  <2>10. /\ b.sk_list = SubSeq(a.sk_list, n + 1, Len(a.sk_list))
         /\ b.push_limit = (IF pl > 0 /\ a.ps_id = "LEGACY_PS_ID" THEN 0 ELSE pl)
         /\ b.credits = a.credits - n
    BY ONLY <1>1, <1>2, <2>2, <2>4
  <2>11. /\ b.nb_retry = (IF a.nb_retry > n THEN a.nb_retry - n ELSE 0)
         /\ b.last_retry_skb = (IF b.nb_retry = 0 THEN None ELSE a.last_retry_skb)
    BY ONLY <2>2, <2>4
  <2>12. /\ b \in Queue /\ b.active = a.active /\ b.init_time = a.init_time
         /\ b.ps_active = a.ps_active /\ b.ps_id = a.ps_id
    BY ONLY <2>2, <2>4
  <2> QED  BY ONLY <2>1, <2>6, <2>7, <2>8, <2>9, <2>10, <2>11, <2>12 DEF SentQueue
<1>27. SentPlace(r, s, t, n, e)
  <2>1. PICK out : out = (a.credits - n <= 0)
    OBVIOUS
  <2>2. /\ b1.stop = (IF out THEN a.stop \cup {"FULL"} ELSE a.stop)
        /\ Listed(y) = (IF out THEN Listed(s) \ {t} ELSE Listed(s))
        /\ y.stuck = (IF out /\ x # <<>> THEN s.stuck \cup {t} ELSE s.stuck)
    BY ONLY <1>10, <1>11, <1>12, <1>16, <1>17, <2>1 DEF PlaceAfter
  <2>3. b1.sk_list = x /\ b.sk_list = x /\ b.stop = b1.stop
    BY ONLY <1>11, <1>17, <1>23 DEF Drained, Ended
  <2>4. Listed(r) = Listed(w) /\ r.stuck = w.stuck
    BY ONLY <1>24 DEF Listed
  <2>5. Listed(r) = (IF out \/ e THEN Listed(s) \ {t} ELSE Listed(s))
    BY ONLY <1>20, <2>2, <2>4
  <2>6. r.stuck = (IF (out \/ e) /\ x # <<>> THEN s.stuck \cup {t} ELSE s.stuck)
    BY ONLY t \in Listed(s), <1>20, <2>2, <2>3, <2>4
  <2> QED  BY ONLY <1>1, <1>24, <2>1, <2>2, <2>3, <2>5, <2>6 DEF SentPlace
<1>28. SkbAfter(r, s, k, f, n) /\ RingAfter(r, s, f, n)
  <2>1. r.skb = y.skb /\ r.ring = y.ring /\ o.skb = s.skb /\ o.ring = s.ring
    BY <1>11, <1>20, <1>24
  <2>2. SkbAfter(r, s, k, f, n)
    BY ONLY <1>17, <2>1 DEF SkbAfter
  <2>3. RingAfter(r, s, f, n)
    BY ONLY <1>17, <2>1 DEF RingAfter
  <2> QED  BY <2>2, <2>3
<1>29. SentHw(r, s, k, n)
  <2>1. /\ r.hwq.credits = y.hwq.credits /\ r.hwq.dec = y.hwq.dec
        /\ r.hwq.token_status = y.hwq.token_status
        /\ r.hwq.outstanding_tokens = y.hwq.outstanding_tokens
    BY <1>20, <1>24
  <2>2. HwAfter(y, o, n)
    BY <1>17
  <2>3. /\ r.hwq.credits = s.hwq.credits - n /\ r.hwq.dec = s.hwq.dec
        /\ r.hwq.outstanding_tokens = s.hwq.outstanding_tokens + 1
        /\ r.hwq.token_status = o.hwq.token_status
    BY ONLY <1>11, <2>1, <2>2 DEF HwAfter
  <2>4. Busy(r) = Busy(o)
    BY ONLY <2>3 DEF Busy
  <2> QED  BY ONLY <1>11, <2>3, <2>4 DEF SentHw
<1>30. Sent(r, s, t, k, n, e)
  BY ONLY <1>1, <1>2, <1>24, <1>25, <1>26, <1>27, <1>28, <1>29 DEF Sent
<1> QED  BY ONLY <1>1, <1>30

LEMMA FirstIs ==
  ASSUME NEW f \in Seq(Skb), NEW n \in Nat, Len(f) = n, Once(f)
  PROVE  First(f, n) = ToSet(f) /\ IsFiniteSet(ToSet(f)) /\ Cardinality(ToSet(f)) = n
<1>1. ToSet(f) = {f[i] : i \in 1 .. n}
  BY SetIs
<1>2. f \in Bijection(1 .. n, ToSet(f))
  <2>1. f \in [1 .. n -> ToSet(f)] /\ \A e \in ToSet(f) : \E i \in 1 .. n : f[i] = e
    BY <1>1
  <2>2. \A i, j \in 1 .. n : f[i] = f[j] => i = j
    BY DEF Once
  <2> QED  BY <2>1, <2>2 DEF Bijection, Injection, Surjection, IsInjective
<1>3. IsFiniteSet(1 .. n) /\ Cardinality(1 .. n) = n
  BY FS_Interval
<1>4. IsFiniteSet(ToSet(f)) /\ Cardinality(ToSet(f)) = Cardinality(1 .. n)
  BY <1>2, <1>3, FS_Bijection DEF ExistsBijection
<1> QED  BY <1>1, <1>3, <1>4 DEF First

\* The queue that has pushed n frames.
LEMMA SentQueueOK ==
  ASSUME NEW a \in Queue, QueueOK(a), a.active, a.credits > 0, "FULL" \notin a.stop,
         NEW k, NEW n \in Nat, n <= Len(a.sk_list), n <= a.credits,
         a.push_limit # 0 => n <= a.push_limit,
         NEW b, SentQueue(b, a, k, n),
         b.stop = IF a.credits - n <= 0 THEN a.stop \cup {"FULL"} ELSE a.stop
  PROVE  QueueOK(b)
<1>1. PICK L, pl, Q, x : /\ Q = a.sk_list /\ L = Len(Q) /\ x = b.sk_list
                         /\ pl = IF a.push_limit = 0 THEN 0 ELSE a.push_limit - n
  OBVIOUS
<1>2. /\ a.credits \in Int /\ a.push_limit \in Nat /\ a.nb_retry \in Nat /\ a.pkt_ready \in Int
      /\ Q \in Seq(Skb) /\ L \in Nat /\ a.last_retry_skb \in Skb \cup {None}
      /\ n \in 0 .. L /\ n \in 0 .. Len(Q) /\ n <= L
  <2>1. /\ a.credits \in Int /\ a.push_limit \in Nat /\ a.nb_retry \in Nat /\ a.pkt_ready \in Int
        /\ Q \in Seq(Skb) /\ a.last_retry_skb \in Skb \cup {None}
    BY <1>1, Counted
  <2>2. L \in Nat
    BY <1>1, <2>1
  <2> QED  BY <1>1, <2>1, <2>2
<1>3. pl \in Nat /\ (pl = 0 \/ pl = a.push_limit - n)
  BY <1>1, <1>2
<1>4. /\ b.active = a.active /\ b.ps_active = a.ps_active
      /\ b.flow = (a.flow /\ Len(x) >= FlowRestart)
      /\ b.credits = a.credits - n
      /\ x = SubSeq(Q, n + 1, Len(Q))
      /\ b.push_limit = (IF pl > 0 /\ a.ps_id = "LEGACY_PS_ID" THEN 0 ELSE pl)
      /\ b.nb_retry = (IF a.nb_retry > n THEN a.nb_retry - n ELSE 0)
      /\ b.last_retry_skb = (IF b.nb_retry = 0 THEN None ELSE a.last_retry_skb)
      /\ a.ps_active => b.pkt_ready = a.pkt_ready - n /\ b.sp_cnt = b.push_limit
      /\ ~a.ps_active => b.pkt_ready = a.pkt_ready
  BY ONLY <1>1, SentQueue(b, a, k, n) DEF SentQueue
<1>5. x \in Seq(Skb) /\ Once(x) /\ Len(x) = L - n /\ \A i \in 1 .. L - n : x[i] = Q[i + n]
  <2>1. Once(Q) /\ x = SubSeq(Q, n + 1, Len(Q))
    BY <1>1, <1>4 DEF QueueOK
  <2>2. /\ SubSeq(Q, n + 1, Len(Q)) \in Seq(Skb) /\ Once(SubSeq(Q, n + 1, Len(Q)))
        /\ Len(SubSeq(Q, n + 1, Len(Q))) = Len(Q) - n
        /\ \A i \in 1 .. Len(Q) - n : SubSeq(Q, n + 1, Len(Q))[i] = Q[i + n]
    BY ONLY <1>2, <2>1, Cut, SMTT(30)
  <2> QED  BY ONLY <1>1, <2>1, <2>2
<1>6. b.pkt_ready >= 0
  <2>1. CASE a.ps_active
    BY <1>1, <1>2, <1>4, <2>1 DEF QueueOK
  <2>2. CASE ~a.ps_active
    BY <1>4, <2>2 DEF QueueOK
  <2> QED  BY <2>1, <2>2
<1>7. "FULL" \in b.stop <=> b.credits <= 0
  BY <1>2, <1>4
<1>8. b.nb_retry \in Nat /\ b.nb_retry <= Len(x)
  <2>1. a.nb_retry <= L
    BY <1>1 DEF QueueOK
  <2>2. PICK d, v : d = b.nb_retry /\ v = a.nb_retry
    OBVIOUS
  <2>3. v \in Nat /\ v <= L /\ d = IF v > n THEN v - n ELSE 0
    BY <1>2, <1>4, <2>1, <2>2
  <2>4. d \in Nat /\ d <= L - n
    <3>1. n <= L /\ L \in Nat
      BY <1>2
    <3> QED  BY ONLY n \in Nat, <2>3, <3>1
  <2> QED  BY <1>5, <2>2, <2>4
<1>9. b.last_retry_skb = IF b.nb_retry = 0 THEN None ELSE x[b.nb_retry]
  <2>1. ASSUME b.nb_retry # 0  PROVE a.last_retry_skb = x[b.nb_retry]
    <3>1. PICK d, v : d = b.nb_retry /\ v = a.nb_retry
      OBVIOUS
    <3>2. v \in Nat /\ v > n /\ d = v - n /\ v <= L
      BY <1>1, <1>2, <1>4, <2>1, <3>1 DEF QueueOK
    <3>3. d \in 1 .. L - n /\ d + n = v /\ v # 0
      BY <1>2, <3>2
    <3>4. a.last_retry_skb = Q[v]
      BY <1>1, <3>1, <3>3 DEF QueueOK
    <3> QED  BY <1>5, <3>1, <3>3, <3>4
  <2> QED  BY <1>4, <2>1
<1>10. b.ps_active => /\ b.pkt_ready = Len(x) /\ b.sp_cnt = b.push_limit
                      /\ "STA_PS" \in b.stop /\ "ON" \in PsStates
  BY <1>1, <1>4, <1>5 DEF QueueOK
<1>11. b.push_limit > 0 => b.ps_active
  <2>1. b.push_limit > 0 => a.push_limit > 0
    BY <1>1, <1>2, <1>4
  <2> QED  BY <1>4, <2>1 DEF QueueOK
<1>12. FlowRestart # 0 /\ b.flow => x # <<>>
  <2>1. FlowRestart \in Nat
    BY SchedAssumption DEF SchedAssumption
  <2>2. x = <<>> => Len(x) = 0
    BY <1>5
  <2>3. b.flow => Len(x) >= FlowRestart
    BY ONLY <1>4
  <2>4. FlowRestart # 0 /\ Len(x) >= FlowRestart => x # <<>>
    BY ONLY <2>1, <2>2
  <2> QED  BY ONLY <2>3, <2>4
<1>13. NoFlush => b.push_limit <= Len(x)
  <2>1. NoFlush => a.push_limit <= L
    BY <1>1 DEF QueueOK
  <2>2. b.push_limit = 0 \/ b.push_limit = pl
    BY <1>4
  <2> QED  BY <1>2, <1>3, <1>5, <2>1, <2>2
<1> QED  BY <1>1, <1>4, <1>5, <1>6, <1>7, <1>8, <1>9, <1>10, <1>11, <1>12, <1>13 DEF QueueOK

LEMMA SentPlaceOK ==
  ASSUME NEW s \in State, NEW r \in State, NEW t \in Txq, QueueOK(s.txq[t]), PlaceOK(s, t),
         t \in Listed(s), NEW k, NEW n \in Nat, NEW e,
         TakenFacts(n, Len(s.txq[t].sk_list), s.txq[t], s.hwq.credits, e),
         SentQueue(r.txq[t], s.txq[t], k, n), SentPlace(r, s, t, n, e)
  PROVE  PlaceOK(r, t)
<1>1. PICK a, b, x, L, pl, out : /\ a = s.txq[t] /\ b = r.txq[t] /\ x = b.sk_list
            /\ L = Len(a.sk_list) /\ out = (a.credits - n <= 0)
            /\ pl = IF a.push_limit = 0 THEN 0 ELSE a.push_limit - n
  OBVIOUS
<1>2. /\ a \in Queue /\ a.sk_list \in Seq(Skb) /\ L \in Nat /\ a.push_limit \in Nat /\ a.active
      /\ "FULL" \notin a.stop /\ t \notin s.stuck /\ (a.stop = {} \/ "ON" \in PsStates)
      /\ (a.ps_active /\ a.ps_id = "UAPSD_ID" => a.push_limit > 0)
  <2>1. a \in Queue /\ a.sk_list \in Seq(Skb) /\ L \in Nat
    BY <1>1, StateIs
  <2>2. a.push_limit \in Nat
    BY <2>1, Counted
  <2> QED  BY <1>1, <2>1, <2>2 DEF PlaceOK
<1>3. /\ n <= L /\ (~e => n < L /\ (a.push_limit # 0 => n < a.push_limit))
      /\ (e /\ n < L => a.push_limit > 0)
  BY <1>1 DEF TakenFacts
<1>4. /\ b.active = a.active /\ b.ps_active = a.ps_active /\ b.ps_id = a.ps_id
      /\ x = SubSeq(a.sk_list, n + 1, Len(a.sk_list))
      /\ b.push_limit = (IF pl > 0 /\ a.ps_id = "LEGACY_PS_ID" THEN 0 ELSE pl)
  BY <1>1 DEF SentQueue
<1>5. /\ b.stop = (IF out THEN a.stop \cup {"FULL"} ELSE a.stop)
      /\ Listed(r) = (IF out \/ e THEN Listed(s) \ {t} ELSE Listed(s))
      /\ r.stuck = (IF (out \/ e) /\ x # <<>> THEN s.stuck \cup {t} ELSE s.stuck)
  BY <1>1 DEF SentPlace
<1>6. x # <<>> <=> n < L
  <2>1. n \in 0 .. Len(a.sk_list) /\ a.sk_list \in Seq(Skb)
    BY <1>1, <1>2, <1>3
  <2>2. /\ SubSeq(a.sk_list, n + 1, Len(a.sk_list)) \in Seq(Skb)
        /\ Len(SubSeq(a.sk_list, n + 1, Len(a.sk_list))) = Len(a.sk_list) - n
    BY ONLY <2>1, Cut
  <2>3. x \in Seq(Skb) /\ Len(x) = L - n
    BY <1>1, <1>4, <2>2
  <2> QED  BY <1>2, <1>3, <2>3, SetIs
<1>7. t \in Listed(r) => ~out /\ ~e
  BY <1>5
<1>8. t \notin Listed(r) => out \/ e
  BY <1>5
<1>9. ASSUME t \in Listed(r)
      PROVE  /\ b.active /\ "FULL" \notin b.stop /\ t \notin r.stuck
             /\ b.stop = {} \/ "ON" \in PsStates
             /\ NoFlush => x # <<>>
             /\ b.ps_active /\ b.ps_id = "UAPSD_ID" => b.push_limit > 0
  <2>1. ~out /\ ~e
    BY <1>7, <1>9
  <2>2. b.ps_active /\ b.ps_id = "UAPSD_ID" => b.push_limit > 0
    <3>1. ASSUME a.ps_active, a.ps_id = "UAPSD_ID"  PROVE b.push_limit > 0
      <4>1. a.push_limit > 0 /\ n < a.push_limit
        BY <1>2, <1>3, <2>1, <3>1
      <4>2. pl > 0
        BY <1>1, <1>2, <4>1
      <4> QED  BY <1>4, <3>1, <4>2
    <3> QED  BY <1>4, <3>1
  <2> QED  BY <1>2, <1>3, <1>4, <1>5, <1>6, <2>1, <2>2
<1>10. b.active /\ x # <<>> /\ t \notin Listed(r) => t \in r.stuck /\ b.stop # {}
  <2>1. ASSUME x # <<>>, t \notin Listed(r)  PROVE t \in r.stuck /\ b.stop # {}
    <3>1. t \in r.stuck
      BY <1>5, <1>8, <2>1
    <3>2. CASE out
      BY <1>5, <3>1, <3>2
    <3>3. CASE ~out
      <4>1. a.push_limit > 0
        BY <1>3, <1>6, <1>8, <2>1, <3>3
      <4>2. a.ps_active /\ "STA_PS" \in a.stop
        BY <1>1, <1>2, <4>1 DEF QueueOK
      <4> QED  BY <1>5, <3>1, <4>2
    <3> QED  BY <3>2, <3>3
  <2> QED  BY <2>1
<1> QED  BY <1>1, <1>2, <1>4, <1>9, <1>10 DEF PlaceOK

LEMMA SentFrames ==
  ASSUME NEW s \in State, NEW r \in State, Frames(s, {}), NEW t \in Txq, NEW k \in Token,
         NEW f, NEW x, ToSet(s.txq[t].sk_list) = f \cup x, f \cap x = {},
         ToSet(r.txq[t].sk_list) = x,
         r.txq[t].init_time = s.txq[t].init_time,
         \A u \in Txq \ {t} : r.txq[u] = s.txq[u],
         \A g \in Skb : /\ r.skb[g].txq = s.skb[g].txq
                        /\ r.skb[g].init_time = s.skb[g].init_time
                        /\ r.skb[g].token = IF g \in f THEN k ELSE s.skb[g].token,
         Once(r.ring), ToSet(r.ring) = ToSet(s.ring) \cup f
  PROVE  Frames(r, {})
<1>1. /\ ToSet(s.ring) \subseteq Skb /\ \A u \in Txq : ToSet(s.txq[u].sk_list) \subseteq Skb
      /\ f \subseteq Skb
  BY StateIs
<1>2. \A u \in Txq : \A g \in ToSet(s.txq[u].sk_list) :
        /\ s.skb[g].txq = u /\ s.skb[g].init_time = s.txq[u].init_time /\ g \notin ToSet(s.ring)
  BY DEF Frames
<1>3. \A u \in Txq : r.txq[u].init_time = s.txq[u].init_time
                     /\ ToSet(r.txq[u].sk_list) = IF u = t THEN x ELSE ToSet(s.txq[u].sk_list)
  OBVIOUS
<1>4. \A g \in f : s.skb[g].txq = t /\ g \notin ToSet(s.ring)
  BY <1>2
<1>5. ASSUME NEW u \in Txq, NEW g \in ToSet(r.txq[u].sk_list)
      PROVE  r.skb[g].txq = u /\ r.skb[g].init_time = r.txq[u].init_time /\ g \notin ToSet(r.ring)
  <2>1. g \in ToSet(s.txq[u].sk_list) /\ g \in Skb /\ g \notin f
    BY <1>1, <1>2, <1>3, <1>4, <1>5
  <2> QED  BY <1>2, <1>3, <2>1
<1>6. ASSUME NEW g \in ToSet(r.ring)  PROVE r.skb[g].txq \in Txq /\ r.skb[g].token \in Token
  <2>1. CASE g \in f
    BY <1>1, <1>4, <2>1
  <2>2. CASE g \notin f
    <3>1. g \in ToSet(s.ring) /\ g \in Skb
      BY <1>1, <1>6, <2>2
    <3>2. s.skb[g].txq \in Txq /\ s.skb[g].token \in Token
      BY <3>1 DEF Frames
    <3> QED  BY <2>2, <3>1, <3>2
  <2> QED  BY <2>1, <2>2
<1>7. ASSUME NEW g \in Skb, r.skb[g].txq \in Txq
      PROVE  /\ r.skb[g].init_time <= r.txq[r.skb[g].txq].init_time
             /\ g \in {} \cup ToSet(r.ring) \cup ToSet(r.txq[r.skb[g].txq].sk_list)
  <2>1. PICK u \in Txq : u = s.skb[g].txq /\ r.skb[g].txq = u
    BY <1>7
  <2>2. /\ s.skb[g].init_time <= s.txq[u].init_time
        /\ g \in {} \cup ToSet(s.ring) \cup ToSet(s.txq[u].sk_list)
    BY <2>1 DEF Frames
  <2>3. r.skb[g].init_time <= r.txq[u].init_time
    BY <1>3, <2>2
  <2>4. g \in {} \cup ToSet(r.ring) \cup ToSet(r.txq[u].sk_list)
    BY <1>3, <2>2
  <2> QED  BY <2>1, <2>3, <2>4
<1> QED  BY <1>5, <1>6, <1>7 DEF Frames

\* The frames f of the queue t leave under the free token k.
Sending(r, s, t, k, n, f) ==
  /\ s.txq[t].active /\ ~s.hwq.token_status[k]
  /\ f \subseteq ToSet(s.txq[t].sk_list) /\ Cardinality(f) = n
  /\ r.txq[t].init_time = s.txq[t].init_time /\ r.txq[t].active = s.txq[t].active
  /\ \A j \in Token : r.txq[t].token_pkt_num[j] = IF j = k THEN n ELSE s.txq[t].token_pkt_num[j]
  /\ \A u \in Txq \ {t} : r.txq[u] = s.txq[u]
  /\ \A g \in Skb : /\ r.skb[g].txq = s.skb[g].txq
                    /\ r.skb[g].init_time = s.skb[g].init_time
                    /\ r.skb[g].token = IF g \in f THEN k ELSE s.skb[g].token
  /\ ToSet(r.ring) = ToSet(s.ring) \cup f
  /\ Busy(r) = Busy(s) \cup {k}
  /\ r.hwq.outstanding_tokens = s.hwq.outstanding_tokens + 1

LEMMA SentTokens ==
  ASSUME NEW s \in State, NEW r \in State, Frames(s, {}), TokensOK(s),
         NEW t \in Txq, NEW k \in Token, NEW n \in Nat, NEW f, Sending(r, s, t, k, n, f)
  PROVE  TokensOK(r)
<1>0. /\ s.txq[t].active /\ ~s.hwq.token_status[k]
      /\ f \subseteq ToSet(s.txq[t].sk_list) /\ Cardinality(f) = n
      /\ r.txq[t].init_time = s.txq[t].init_time /\ r.txq[t].active = s.txq[t].active
      /\ \A j \in Token : r.txq[t].token_pkt_num[j] = IF j = k THEN n ELSE s.txq[t].token_pkt_num[j]
      /\ \A u \in Txq \ {t} : r.txq[u] = s.txq[u]
      /\ \A g \in Skb : /\ r.skb[g].txq = s.skb[g].txq
                        /\ r.skb[g].init_time = s.skb[g].init_time
                        /\ r.skb[g].token = IF g \in f THEN k ELSE s.skb[g].token
      /\ ToSet(r.ring) = ToSet(s.ring) \cup f
      /\ Busy(r) = Busy(s) \cup {k}
      /\ r.hwq.outstanding_tokens = s.hwq.outstanding_tokens + 1
  BY DEF Sending
<1> USE <1>0
<1>1. ToSet(s.ring) \subseteq Skb /\ f \subseteq Skb
  BY StateIs
<1>2. \A g \in f : /\ s.skb[g].txq = t /\ s.skb[g].init_time = s.txq[t].init_time
                   /\ g \notin ToSet(s.ring)
  BY DEF Frames
<1>3. \A u \in Txq : r.txq[u].active = s.txq[u].active /\ r.txq[u].init_time = s.txq[u].init_time
  OBVIOUS
<1>4. \A u \in Txq : s.txq[u].active => s.txq[u].token_pkt_num[k] = 0 /\ Flight(s, u, k) = {}
  <2> TAKE u \in Txq
  <2>1. HAVE s.txq[u].active
  <2>2. s.txq[u].token_pkt_num[k] \in Int
    BY StateIs, Counted
  <2>3. s.txq[u].token_pkt_num[k] = 0 /\ Cardinality(Flight(s, u, k)) = 0
    BY <2>1, <2>2 DEF TokensOK
  <2>4. IsFiniteSet(Flight(s, u, k))
    BY FlightFinite
  <2> QED  BY <2>3, <2>4, FS_EmptySet
<1>5. Flight(r, t, k) = f
  <2>1. \A g \in Flight(r, t, k) : g \in f
    <3> TAKE g \in Flight(r, t, k)
    <3>1. /\ g \in ToSet(r.ring) /\ r.skb[g].txq = t /\ r.skb[g].init_time = r.txq[t].init_time
          /\ r.skb[g].token = k
      BY DEF Flight
    <3>2. ASSUME g \notin f  PROVE FALSE
      <4>1. g \in ToSet(s.ring) /\ g \in Skb
        BY <1>1, <3>1, <3>2
      <4>2. g \in Flight(s, t, k)
        BY <1>3, <3>1, <3>2, <4>1 DEF Flight
      <4> QED  BY <1>4, <4>2
    <3> QED  BY <3>2
  <2>2. \A g \in f : g \in Flight(r, t, k)
    BY <1>1, <1>2, <1>3 DEF Flight
  <2> QED  BY <2>1, <2>2
<1>6. \A u \in Txq, j \in Token : u # t \/ j # k => Flight(r, u, j) = Flight(s, u, j)
  <2> TAKE u \in Txq, j \in Token
  <2>1. HAVE u # t \/ j # k
  <2>2. \A g \in Flight(r, u, j) : g \in Flight(s, u, j)
    <3> TAKE g \in Flight(r, u, j)
    <3>1. /\ g \in ToSet(r.ring) /\ r.skb[g].txq = u /\ r.skb[g].init_time = r.txq[u].init_time
          /\ r.skb[g].token = j
      BY DEF Flight
    <3>2. g \notin f
      BY <1>1, <1>2, <2>1, <3>1
    <3>3. g \in ToSet(s.ring) /\ g \in Skb
      BY <1>1, <3>1, <3>2
    <3> QED  BY <1>3, <3>1, <3>2, <3>3 DEF Flight
  <2>3. \A g \in Flight(s, u, j) : g \in Flight(r, u, j)
    <3> TAKE g \in Flight(s, u, j)
    <3>1. /\ g \in ToSet(s.ring) /\ s.skb[g].txq = u /\ s.skb[g].init_time = s.txq[u].init_time
          /\ s.skb[g].token = j
      BY DEF Flight
    <3>2. g \in Skb /\ g \notin f
      BY <1>1, <1>2, <3>1
    <3> QED  BY <1>3, <3>1, <3>2 DEF Flight
  <2> QED  BY <2>2, <2>3
<1>7. \A u \in Txq, j \in Token :
        r.txq[u].token_pkt_num[j] = IF u = t /\ j = k THEN n ELSE s.txq[u].token_pkt_num[j]
  OBVIOUS
<1>8. \A j \in Token : r.hwq.token_status[j] <=> s.hwq.token_status[j] \/ j = k
  BY DEF Busy
<1>9. ASSUME NEW u \in Txq, NEW j \in Token
      PROVE  /\ r.txq[u].token_pkt_num[j] >= 0
             /\ r.txq[u].active => r.txq[u].token_pkt_num[j] = Cardinality(Flight(r, u, j))
             /\ r.txq[u].active /\ r.txq[u].token_pkt_num[j] > 0 => r.hwq.token_status[j]
  <2>1. CASE u = t /\ j = k
    BY <1>5, <1>7, <1>8, <2>1
  <2>2. CASE ~(u = t /\ j = k)
    <3>1. /\ s.txq[u].token_pkt_num[j] >= 0
          /\ s.txq[u].active => s.txq[u].token_pkt_num[j] = Cardinality(Flight(s, u, j))
          /\ s.txq[u].active /\ s.txq[u].token_pkt_num[j] > 0 => s.hwq.token_status[j]
      BY DEF TokensOK
    <3>2. /\ r.txq[u].token_pkt_num[j] = s.txq[u].token_pkt_num[j] /\ Flight(r, u, j) = Flight(s, u, j)
          /\ r.txq[u].active = s.txq[u].active /\ (s.hwq.token_status[j] => r.hwq.token_status[j])
      BY <1>3, <1>6, <1>7, <1>8, <2>2
    <3> QED  BY ONLY <3>1, <3>2
  <2> QED  BY <2>1, <2>2
<1>10. \A u, v \in Txq, j \in Token :
         /\ r.txq[u].active /\ r.txq[u].token_pkt_num[j] > 0
         /\ r.txq[v].active /\ r.txq[v].token_pkt_num[j] > 0
         => u = v
  <2> TAKE u, v \in Txq, j \in Token
  <2>1. CASE j = k
    <3>1. \A w \in Txq : r.txq[w].active /\ r.txq[w].token_pkt_num[j] > 0 => w = t
      <4> TAKE w \in Txq
      <4>1. w # t /\ s.txq[w].active => r.txq[w].token_pkt_num[k] = 0
        BY <1>4, <1>7
      <4> QED  BY <1>3, <2>1, <4>1
    <3> QED  BY <3>1
  <2>2. CASE j # k
    BY <1>3, <1>7, <2>2 DEF TokensOK
  <2> QED  BY <2>1, <2>2
<1>11. r.hwq.outstanding_tokens = Cardinality(Busy(r))
  <2>1. k \notin Busy(s) /\ IsFiniteSet(Busy(s))
    BY FlightFinite DEF Busy
  <2>2. Cardinality(Busy(s) \cup {k}) = Cardinality(Busy(s)) + 1
    BY <2>1, FS_AddElement
  <2>3. s.hwq.outstanding_tokens = Cardinality(Busy(s))
    BY DEF TokensOK
  <2> QED  BY <2>2, <2>3
<1> QED  BY <1>9, <1>10, <1>11 DEF TokensOK

\* A pass over the queue t of s.
PushedTxq(r, s, t) ==
  /\ r \in State /\ Good(r, {}) /\ \A u \in Txq \ {t} : r.txq[u] = s.txq[u]
  /\ Listed(r) \ {t} = Listed(s) \ {t} /\ Listed(r) \subseteq Listed(s)
  /\ Stays(r, s) /\ \A u \in Txq : r.txq[u].active = s.txq[u].active
  /\ \A g \in Skb : r.skb[g].txq = s.skb[g].txq
  /\ ToSet(s.ring) \subseteq ToSet(r.ring) /\ r.hwq.dec = s.hwq.dec
  /\ \A g \in ToSet(r.ring) : g \in ToSet(s.ring) \/ s.skb[g].txq = t

\* What it leaves of the hwq's credits and tokens, when no queue lists in vain.
PaidFor(r, s) ==
  /\ r.hwq.credits >= 0 /\ r.ring # <<>> /\ (Held(s) => Held(r))

LEMMA PushTxqGood ==
  ASSUME NEW s \in State, Good(s, {}), NEW t \in Txq, t \in Listed(s), NEW k \in Token,
         ~s.hwq.token_status[k], NEW rotate,
         NEW r, r = PushTxq(s, t, k, rotate)
  PROVE  /\ PushedTxq(r, s, t)
         /\ NoFlush /\ s.hwq.credits > 0 => PaidFor(r, s)
<1>1. PICK a, b, n, L, e, Q, c : /\ a = s.txq[t] /\ b = r.txq[t] /\ n = Taken(s, t)
                              /\ Q = a.sk_list /\ L = Len(Q) /\ e = TxqEmpty(s, t)
                              /\ c = s.hwq.credits
  OBVIOUS
<1>2. PICK f, x : f = SubSeq(Q, 1, n) /\ x = SubSeq(Q, n + 1, L)
  OBVIOUS
<1>3. Sent(r, s, t, k, n, e)
  BY ONLY s \in State, Good(s, {}), t \in Txq, t \in Listed(s), k \in Token,
          ~s.hwq.token_status[k], r = PushTxq(s, t, k, rotate), <1>1, PushTxqIs
<1>4. /\ r \in State /\ \A u \in Txq \ {t} : r.txq[u] = s.txq[u]
      /\ SentQueue(b, a, k, n) /\ SentPlace(r, s, t, n, e)
      /\ SkbAfter(r, s, k, f, n) /\ RingAfter(r, s, f, n) /\ SentHw(r, s, k, n)
  BY ONLY <1>1, <1>2, <1>3 DEF Sent
<1>5. /\ a \in Queue /\ QueueOK(a) /\ PlaceOK(s, t) /\ Q \in Seq(Skb) /\ L \in Nat
      /\ Frames(s, {}) /\ TokensOK(s) /\ SumOK(s) /\ c \in Int
  BY <1>1, StateIs, HwCounted DEF Good
<1>6. a.active /\ a.credits > 0 /\ "FULL" \notin a.stop /\ a.credits \in Int /\ Once(Q)
  <2>1. a.active /\ "FULL" \notin a.stop /\ Once(Q) /\ ("FULL" \in a.stop <=> a.credits <= 0)
    BY <1>1, <1>5 DEF PlaceOK, QueueOK
  <2>2. a.credits \in Int
    BY <1>5, Counted
  <2> QED  BY <2>1, <2>2
<1>7. TakenFacts(n, L, a, c, e)
  BY <1>1, <1>6, TakenIs
<1>8. /\ n \in Nat /\ n <= L /\ n <= a.credits /\ (a.push_limit # 0 => n <= a.push_limit)
      /\ (c > 0 => n <= c /\ (L > 0 => n >= 1))
  BY ONLY <1>7 DEF TakenFacts
<1>9. /\ f \in Seq(Skb) /\ x \in Seq(Skb) /\ Len(f) = n /\ Once(f)
      /\ ToSet(Q) = ToSet(f) \cup ToSet(x) /\ ToSet(f) \cap ToSet(x) = {}
  <2>1. /\ Q \in Seq(Skb) /\ n \in 0 .. Len(Q) /\ f = SubSeq(Q, 1, n)
        /\ x = SubSeq(Q, n + 1, Len(Q)) /\ Once(Q)
    BY <1>1, <1>2, <1>5, <1>6, <1>8
  <2> QED  BY ONLY <2>1, Cut
<1>10. First(f, n) = ToSet(f) /\ IsFiniteSet(ToSet(f)) /\ Cardinality(ToSet(f)) = n
  BY ONLY <1>8, <1>9, FirstIs
<1>11. /\ b.active = a.active /\ b.init_time = a.init_time /\ b.sk_list = x
       /\ \A j \in Token : b.token_pkt_num[j] = IF j = k THEN n ELSE a.token_pkt_num[j]
  BY ONLY <1>1, <1>2, <1>4 DEF SentQueue
<1>12. /\ b.stop = (IF a.credits - n <= 0 THEN a.stop \cup {"FULL"} ELSE a.stop)
       /\ Listed(r) = (IF a.credits - n <= 0 \/ e THEN Listed(s) \ {t} ELSE Listed(s))
       /\ r.stuck = (IF (a.credits - n <= 0 \/ e) /\ x # <<>> THEN s.stuck \cup {t} ELSE s.stuck)
  BY ONLY <1>1, <1>4, <1>11 DEF SentPlace
<1>13. \A g \in Skb : /\ r.skb[g].txq = s.skb[g].txq
                      /\ r.skb[g].init_time = s.skb[g].init_time
                      /\ r.skb[g].token = IF g \in ToSet(f) THEN k ELSE s.skb[g].token
  BY ONLY <1>4, <1>10 DEF SkbAfter
<1>14. Len(r.ring) = Len(s.ring) + n /\ Once(r.ring) /\ ToSet(r.ring) = ToSet(s.ring) \cup ToSet(f)
  BY ONLY <1>4, <1>10 DEF RingAfter
<1>15. /\ r.hwq.credits = c - n /\ r.hwq.dec = s.hwq.dec /\ Busy(r) = Busy(s) \cup {k}
       /\ r.hwq.outstanding_tokens = s.hwq.outstanding_tokens + 1
  BY ONLY <1>1, <1>4 DEF SentHw
<1>16. QueueOK(b)
  BY ONLY <1>1, <1>4, <1>5, <1>6, <1>8, <1>12, SentQueueOK
<1>17. PlaceOK(r, t)
  BY ONLY s \in State, t \in Txq, t \in Listed(s), <1>1, <1>4, <1>5, <1>7, <1>8, SentPlaceOK
<1>18. Frames(r, {})
  <2>1. PICK F, X : F = ToSet(f) /\ X = ToSet(x)
    OBVIOUS
  <2>2. /\ ToSet(s.txq[t].sk_list) = F \cup X /\ F \cap X = {} /\ ToSet(r.txq[t].sk_list) = X
        /\ r.txq[t].init_time = s.txq[t].init_time
        /\ ToSet(r.ring) = ToSet(s.ring) \cup F /\ Once(r.ring)
    BY ONLY <1>1, <1>9, <1>11, <1>14, <2>1
  <2>3. \A g \in Skb : /\ r.skb[g].txq = s.skb[g].txq
                       /\ r.skb[g].init_time = s.skb[g].init_time
                       /\ r.skb[g].token = IF g \in F THEN k ELSE s.skb[g].token
    BY ONLY <1>13, <2>1
  <2>4. r \in State /\ Frames(s, {}) /\ \A u \in Txq \ {t} : r.txq[u] = s.txq[u]
    BY ONLY <1>4, <1>5
  <2> QED  BY ONLY s \in State, t \in Txq, k \in Token, <2>2, <2>3, <2>4, SentFrames
<1>19. TokensOK(r)
  <2>1. PICK F : F = ToSet(f)
    OBVIOUS
  <2>2. /\ F \subseteq ToSet(s.txq[t].sk_list) /\ Cardinality(F) = n
        /\ s.txq[t].active
        /\ r.txq[t].init_time = s.txq[t].init_time /\ r.txq[t].active = s.txq[t].active
        /\ ToSet(r.ring) = ToSet(s.ring) \cup F
        /\ Busy(r) = Busy(s) \cup {k}
        /\ r.hwq.outstanding_tokens = s.hwq.outstanding_tokens + 1
    BY ONLY <1>1, <1>6, <1>9, <1>10, <1>11, <1>14, <1>15, <2>1
  <2>3. \A g \in Skb : /\ r.skb[g].txq = s.skb[g].txq
                       /\ r.skb[g].init_time = s.skb[g].init_time
                       /\ r.skb[g].token = IF g \in F THEN k ELSE s.skb[g].token
    BY ONLY <1>13, <2>1
  <2>4. \A j \in Token : r.txq[t].token_pkt_num[j] = IF j = k THEN n ELSE s.txq[t].token_pkt_num[j]
    BY ONLY <1>1, <1>11
  <2>5. \A u \in Txq \ {t} : r.txq[u] = s.txq[u]
    BY ONLY <1>4
  <2>6. Sending(r, s, t, k, n, F)
    BY ONLY ~s.hwq.token_status[k], <2>2, <2>3, <2>4, <2>5 DEF Sending
  <2> QED  BY ONLY s \in State, t \in Txq, k \in Token, <1>4, <1>5, <1>8, <2>6, SentTokens
<1>20. SumOK(r)
  <2>1. PICK l \in Nat, d \in Int : l = Len(s.ring) /\ d = s.hwq.dec
    <3>1. Len(s.ring) \in Nat /\ s.hwq.dec \in Int
      BY StateIs, HwCounted
    <3> QED  BY <3>1
  <2>2. c + l + d = Size /\ Size \in Int
    BY <1>1, <1>5, <2>1, SchedAssumption DEF SumOK, SchedAssumption
  <2>3. (c - n) + (l + n) + d = Size
    BY ONLY <1>5, <1>8, <2>1, <2>2
  <2> QED  BY ONLY <1>14, <1>15, <2>1, <2>3 DEF SumOK
<1>21. Good(r, {})
  <2>1. \A u \in Txq : QueueOK(r.txq[u]) /\ PlaceOK(r, u)
    <3> TAKE u \in Txq
    <3>1. CASE u = t
      BY <1>1, <1>16, <1>17, <3>1
    <3>2. CASE u # t
      <4>1. r.txq[u] = s.txq[u] /\ QueueOK(s.txq[u]) /\ PlaceOK(s, u)
        BY <1>4, <3>2 DEF Good
      <4>2. (u \in Listed(r) <=> u \in Listed(s)) /\ (u \in r.stuck <=> u \in s.stuck)
        BY <1>12, <3>2
      <4> QED  BY <4>1, <4>2 DEF PlaceOK
    <3> QED  BY <3>1, <3>2
  <2> QED  BY <1>4, <1>18, <1>19, <1>20, <2>1 DEF Good
<1>22. PushedTxq(r, s, t)
  <2>1. Stays(r, s)
    BY <1>1, <1>4, <1>12 DEF Stays
  <2>2. \A u \in Txq : r.txq[u].active = s.txq[u].active
    BY <1>1, <1>4, <1>11
  <2>3. \A g \in ToSet(r.ring) : g \in ToSet(s.ring) \/ s.skb[g].txq = t
    <3>1. \A g \in ToSet(Q) : s.skb[g].txq = t
      BY <1>1, <1>5 DEF Frames
    <3> QED  BY <1>9, <1>14, <3>1
  <2>4. Listed(r) \ {t} = Listed(s) \ {t} /\ Listed(r) \subseteq Listed(s)
    BY <1>12
  <2>5. \A g \in Skb : r.skb[g].txq = s.skb[g].txq
    BY ONLY <1>13
  <2>6. ToSet(s.ring) \subseteq ToSet(r.ring)
    BY ONLY <1>14
  <2> QED  BY ONLY <1>4, <1>15, <1>21, <2>1, <2>2, <2>3, <2>4, <2>5, <2>6 DEF PushedTxq
<1>23. ASSUME NoFlush, c > 0
       PROVE  PaidFor(r, s)
  <2>1. Q # <<>>
    BY <1>1, <1>5, <1>23 DEF PlaceOK
  <2>2. L > 0
    BY <1>1, <1>5, <2>1, SetIs
  <2>3. n >= 1 /\ n <= c
    BY <1>8, <1>23, <2>2
  <2>4. r.hwq.credits >= 0
    BY <1>5, <1>8, <1>15, <2>3
  <2>5. r.ring # <<>>
    <3>1. r.ring \in Seq(Skb) /\ Len(s.ring) \in Nat
      BY <1>4, StateIs
    <3>2. Len(r.ring) # 0
      BY <1>8, <1>14, <2>3, <3>1
    <3> QED  BY <3>1, <3>2, SetIs
  <2>6. ASSUME Held(s)  PROVE Held(r)
    <3>1. ASSUME NEW j \in Token, r.hwq.token_status[j]
          PROVE  \E u \in Txq : r.txq[u].active /\ r.txq[u].token_pkt_num[j] > 0
      <4>1. j \in Busy(s) \cup {k}
        BY <1>15, <3>1 DEF Busy
      <4>2. CASE j = k
        <5>1. r.txq[t].active /\ r.txq[t].token_pkt_num[j] = n
          BY <1>1, <1>6, <1>11, <4>2
        <5> QED  BY <1>8, <2>3, <5>1
      <4>3. CASE j # k
        <5>1. PICK u \in Txq : s.txq[u].active /\ s.txq[u].token_pkt_num[j] > 0
          BY <2>6, <4>1, <4>3 DEF Held, Busy
        <5>2. r.txq[u].active /\ r.txq[u].token_pkt_num[j] > 0
          BY <1>1, <1>4, <1>11, <4>3, <5>1
        <5> QED  BY <5>2
      <4> QED  BY <4>2, <4>3
    <3> QED  BY <3>1 DEF Held
  <2> QED  BY <2>4, <2>5, <2>6 DEF PaidFor
<1> QED  BY ONLY <1>1, <1>22, <1>23

----------------------------------------------------------------------------
(* The list of the hwq gone through (siwifi_hwq_process_all).              *)

Pass == [s : State, over : BOOLEAN]

\* No token is free: some frame is on its way back.
LEMMA BusyRing ==
  ASSUME NEW s \in State, Good(s, {}), Held(s), NEW k \in Token, s.hwq.token_status[k]
  PROVE  s.ring # <<>>
<1>1. PICK t \in Txq : s.txq[t].active /\ s.txq[t].token_pkt_num[k] > 0
  BY DEF Held
<1>2. Cardinality(Flight(s, t, k)) > 0 /\ IsFiniteSet(Flight(s, t, k))
  BY <1>1, FlightFinite DEF Good, TokensOK
<1>3. Flight(s, t, k) # {}
  <2>1. Flight(s, t, k) = {} => Cardinality(Flight(s, t, k)) = 0
    BY FS_EmptySet
  <2> QED  BY <1>2, <2>1
<1>4. ToSet(s.ring) # {}
  BY <1>3 DEF Flight
<1> QED  BY <1>4, StateIs, SetIs

Least(free) == CHOOSE i \in free : \A j \in free : i <= j

LEMMA FreeTokenIs ==
  ASSUME NEW s \in State, NEW free, free = FreeTokens(s), free # {}, NEW k, k = Least(free)
  PROVE  k \in Token /\ ~s.hwq.token_status[k]
<1>1. free = {j \in Token : ~s.hwq.token_status[j]}
  <2>1. CASE s.hwq.outstanding_tokens >= Tokens
    BY <2>1 DEF FreeTokens
  <2>2. CASE ~(s.hwq.outstanding_tokens >= Tokens)
    BY <2>2 DEF FreeTokens
  <2> QED  BY <2>1, <2>2
<1>2. free \in SUBSET Nat
  <2>1. Tokens \in Nat
    BY SchedAssumption DEF SchedAssumption
  <2> QED  BY <1>1, <2>1 DEF Token
<1>3. \E i \in free : \A j \in free : i <= j
  BY <1>2, LeastNat
<1>4. k \in free
  BY <1>3 DEF Least
<1> QED  BY <1>1, <1>4

LEMMA NoneFree ==
  ASSUME NEW s \in State, Good(s, {}), FreeTokens(s) = {}
  PROVE  \E k \in Token : s.hwq.token_status[k]
<1>1. Tokens \in Nat /\ Tokens >= 1 /\ 1 \in Token
  <2>1. Tokens \in Nat /\ Tokens >= 1
    BY SchedAssumption DEF SchedAssumption
  <2> QED  BY <2>1 DEF Token
<1>2. CASE s.hwq.outstanding_tokens >= Tokens
  <2>1. s.hwq.outstanding_tokens = Cardinality(Busy(s)) /\ Cardinality(Busy(s)) # 0
    BY <1>1, <1>2 DEF Good, TokensOK
  <2>2. Busy(s) # {}
    BY <2>1, FS_EmptySet
  <2> QED  BY <2>2 DEF Busy
<1>3. CASE ~(s.hwq.outstanding_tokens >= Tokens)
  <2>1. {k \in Token : ~s.hwq.token_status[k]} = {}
    BY <1>3 DEF FreeTokens
  <2> QED  BY <1>1, <2>1
<1> QED  BY <1>2, <1>3

\* s after the first i queues of q have been visited.
Visited(r, s, q, i) ==
  /\ r \in State /\ Good(r, {})
  /\ \A j \in 1 .. Len(q) : j > i => q[j] \in Listed(r)
  /\ Listed(r) \subseteq ToSet(q)
  /\ Stays(r, s) /\ \A u \in Txq : r.txq[u].active = s.txq[u].active
  /\ \A g \in Skb : r.skb[g].txq = s.skb[g].txq
  /\ ToSet(s.ring) \subseteq ToSet(r.ring) /\ r.hwq.dec = s.hwq.dec
  /\ \A g \in ToSet(r.ring) : g \in ToSet(s.ring) \/ s.skb[g].txq \in ToSet(q)

\* Some queue is not passed over: then frames are in flight.
Served(p, s, q, i, skip) ==
  /\ p.s.hwq.credits >= 0 /\ (Held(s) => Held(p.s))
  /\ Held(s) /\ p.over => p.s.ring # <<>>
  /\ Held(s) /\ (\E j \in 1 .. i : q[j] \notin skip) => p.s.ring # <<>>

LEMMA VisitNext ==
  ASSUME NEW s, NEW q \in Seq(Txq), NEW i \in Nat, NEW r, Visited(r, s, q, i)
  PROVE  Visited(r, s, q, i + 1)
<1>1. \A j \in 1 .. Len(q) : j > i + 1 => j > i
  OBVIOUS
<1> QED  BY <1>1 DEF Visited

LEMMA OverIs ==
  ASSUME NEW p \in Pass, NEW z, NEW t, NEW skip, NEW rotate,
         z = ProcessTxq(p, t, skip, rotate),
         p.over \/ p.s.hwq.credits = 0 \/ FreeTokens(p.s) = {}
  PROVE  z \in Pass /\ z.s = p.s /\ z.over
<1>1. PICK yes : yes = TRUE /\ yes \in BOOLEAN
  OBVIOUS
<1>2. z = [p EXCEPT !.over = yes]
  BY <1>1 DEF ProcessTxq
<1>3. z \in Pass /\ z.s = p.s /\ z.over = yes
  BY <1>1, <1>2 DEF Pass
<1> QED  BY <1>1, <1>3

LEMMA SkipIs ==
  ASSUME NEW p \in Pass, NEW z, NEW t, NEW skip, NEW rotate,
         z = ProcessTxq(p, t, skip, rotate),
         ~(p.over \/ p.s.hwq.credits = 0 \/ FreeTokens(p.s) = {}), t \in skip
  PROVE  z = p
BY DEF ProcessTxq

LEMMA PushIs ==
  ASSUME NEW p \in Pass, NEW z, NEW t \in Txq, NEW skip, NEW rotate,
         z = ProcessTxq(p, t, skip, rotate), Good(p.s, {}), t \in Listed(p.s),
         ~(p.over \/ p.s.hwq.credits = 0 \/ FreeTokens(p.s) = {}), t \notin skip
  PROVE  /\ z \in Pass /\ z.over = p.over /\ PushedTxq(z.s, p.s, t)
         /\ NoFlush /\ p.s.hwq.credits > 0 => PaidFor(z.s, p.s)
<1>1. PICK s, free, k, r : /\ s = p.s /\ free = FreeTokens(s)
                           /\ k = Least(free)
                           /\ r = PushTxq(s, t, k, rotate)
  OBVIOUS
<1>2. s \in State /\ Good(s, {}) /\ t \in Listed(s) /\ free # {}
  BY <1>1 DEF Pass
<1>3. k \in Token /\ ~s.hwq.token_status[k]
  <2>1. s \in State /\ free = FreeTokens(s) /\ free # {} /\ k = Least(free)
    BY ONLY <1>1, <1>2
  <2> QED  BY ONLY <2>1, FreeTokenIs
<1>4. /\ PushedTxq(r, s, t)
      /\ NoFlush /\ s.hwq.credits > 0 => PaidFor(r, s)
  BY ONLY t \in Txq, <1>1, <1>2, <1>3, PushTxqGood
<1>5. z = [p EXCEPT !.s = r]
  BY <1>1 DEF ProcessTxq, Least
<1>6. r \in State
  BY <1>4 DEF PushedTxq
<1>7. z \in Pass /\ z.over = p.over /\ z.s = r
  BY ONLY p \in Pass, <1>5, <1>6 DEF Pass
<1> QED  BY <1>1, <1>4, <1>7

LEMMA OneMoreVisit ==
  ASSUME NEW s \in State, NEW q \in Seq(Txq), Once(q), NEW i \in Nat, i < Len(q),
         NEW p \in Pass, Visited(p.s, s, q, i), NEW skip, NEW rotate,
         NEW z, z = ProcessTxq(p, q[i + 1], skip, rotate)
  PROVE  /\ z \in Pass /\ Visited(z.s, s, q, i + 1)
         /\ NoFlush /\ Served(p, s, q, i, skip) => Served(z, s, q, i + 1, skip)
<1>1. PICK t, stop : /\ t = q[i + 1]
                     /\ stop = (p.over \/ p.s.hwq.credits = 0 \/ FreeTokens(p.s) = {})
  OBVIOUS
<1>2. /\ t \in Txq /\ t \in ToSet(q) /\ i + 1 \in 1 .. Len(q) /\ Len(q) \in Nat
      /\ t \in Listed(p.s) /\ p.s \in State /\ Good(p.s, {})
      /\ z = ProcessTxq(p, t, skip, rotate)
  <2>1. i + 1 \in 1 .. Len(q) /\ i + 1 > i /\ Len(q) \in Nat
    OBVIOUS
  <2>2. t \in Txq /\ t \in ToSet(q)
    BY <1>1, <2>1, SetIs
  <2> QED  BY <1>1, <2>1, <2>2 DEF Visited
<1>3. \A j \in 1 .. i + 1 : j = i + 1 \/ j \in 1 .. i
  OBVIOUS
<1>4. CASE stop
  <2>1. z \in Pass /\ z.s = p.s /\ z.over
    BY ONLY p \in Pass, <1>1, <1>2, <1>4, OverIs, ZenonT(30)
  <2>2. Visited(z.s, s, q, i + 1)
    BY <2>1, VisitNext
  <2>3. ASSUME NoFlush, Served(p, s, q, i, skip)  PROVE Served(z, s, q, i + 1, skip)
    <3>1. p.s.hwq.credits >= 0 /\ (Held(s) => Held(p.s)) /\ (Held(s) /\ p.over => p.s.ring # <<>>)
      BY <2>3 DEF Served
    <3>2. ASSUME Held(s)  PROVE p.s.ring # <<>>
      <4>1. CASE p.over
        BY <3>1, <3>2, <4>1
      <4>2. CASE p.s.hwq.credits = 0
        <5>1. PICK l, d : l = Len(p.s.ring) /\ d = p.s.hwq.dec
          OBVIOUS
        <5>2. p.s.ring \in Seq(Skb) /\ l \in Nat /\ d \in 0 .. Size - 1 /\ 0 + l + d = Size /\ Size \in Nat
          BY <1>2, <4>2, <5>1, StateIs, HwCounted, SchedAssumption DEF Good, SumOK, SchedAssumption
        <5>3. l # 0
          BY ONLY <5>2
        <5> QED  BY <5>1, <5>2, <5>3, SetIs
      <4>3. CASE FreeTokens(p.s) = {}
        <5>1. PICK k \in Token : p.s.hwq.token_status[k]
          BY ONLY <1>2, <4>3, NoneFree
        <5> QED  BY <1>2, <3>1, <3>2, <5>1, BusyRing
      <4> QED  BY <1>1, <1>4, <4>1, <4>2, <4>3
    <3> QED  BY <2>1, <3>1, <3>2 DEF Served
  <2> QED  BY <2>1, <2>2, <2>3
<1>5. CASE ~stop /\ t \in skip
  <2>1. z = p
    BY ONLY p \in Pass, <1>1, <1>2, <1>5, SkipIs
  <2>2. Visited(z.s, s, q, i + 1)
    BY <2>1, VisitNext
  <2>3. ASSUME Served(p, s, q, i, skip)  PROVE Served(z, s, q, i + 1, skip)
    <3>1. \A j \in 1 .. i + 1 : q[j] \notin skip => j \in 1 .. i
      BY <1>1, <1>3, <1>5
    <3> QED  BY <2>1, <2>3, <3>1 DEF Served
  <2> QED  BY <2>1, <2>2, <2>3
<1>6. CASE ~stop /\ t \notin skip
  <2>1. /\ z \in Pass /\ z.over = p.over /\ PushedTxq(z.s, p.s, t)
        /\ NoFlush /\ p.s.hwq.credits > 0 => PaidFor(z.s, p.s)
    BY ONLY p \in Pass, <1>1, <1>2, <1>6, PushIs
  <2>2. PICK r, o : r = z.s /\ o = p.s
    OBVIOUS
  <2>3. /\ r \in State /\ Good(r, {}) /\ \A u \in Txq \ {t} : r.txq[u] = o.txq[u]
        /\ Listed(r) \ {t} = Listed(o) \ {t} /\ Listed(r) \subseteq Listed(o)
        /\ Stays(r, o) /\ \A u \in Txq : r.txq[u].active = o.txq[u].active
        /\ \A g \in Skb : r.skb[g].txq = o.skb[g].txq
        /\ ToSet(o.ring) \subseteq ToSet(r.ring) /\ r.hwq.dec = o.hwq.dec
        /\ \A g \in ToSet(r.ring) : g \in ToSet(o.ring) \/ o.skb[g].txq = t
    BY ONLY <2>1, <2>2 DEF PushedTxq
  <2>4. /\ o \in State /\ Good(o, {})
        /\ \A j \in 1 .. Len(q) : j > i => q[j] \in Listed(o)
        /\ Listed(o) \subseteq ToSet(q)
        /\ Stays(o, s) /\ \A u \in Txq : o.txq[u].active = s.txq[u].active
        /\ \A g \in Skb : o.skb[g].txq = s.skb[g].txq
        /\ ToSet(s.ring) \subseteq ToSet(o.ring) /\ o.hwq.dec = s.hwq.dec
        /\ \A g \in ToSet(o.ring) : g \in ToSet(s.ring) \/ s.skb[g].txq \in ToSet(q)
    BY <2>2 DEF Visited
  <2>5. Visited(r, s, q, i + 1)
    <3>1. \A j \in 1 .. Len(q) : j > i + 1 => q[j] \in Listed(r)
      <4> TAKE j \in 1 .. Len(q)
      <4>1. HAVE j > i + 1
      <4>2. q[j] \in Listed(o)
        BY <2>4, <4>1
      <4>3. q[j] # t
        BY <1>1, <1>2, <4>1 DEF Once
      <4> QED  BY <2>3, <4>2, <4>3
    <3>2. Stays(r, s)
      BY <2>3, <2>4, StaysTwice
    <3>3. ToSet(r.ring) \subseteq Skb
      BY <2>3, StateIs
    <3>4. \A g \in ToSet(r.ring) : g \in ToSet(s.ring) \/ s.skb[g].txq \in ToSet(q)
      BY <1>2, <2>3, <2>4, <3>3
    <3>5. /\ Listed(r) \subseteq ToSet(q) /\ ToSet(s.ring) \subseteq ToSet(r.ring)
          /\ r.hwq.dec = s.hwq.dec
          /\ \A u \in Txq : r.txq[u].active = s.txq[u].active
          /\ \A g \in Skb : r.skb[g].txq = s.skb[g].txq
      BY <2>3, <2>4
    <3> QED  BY ONLY <2>3, <3>1, <3>2, <3>4, <3>5 DEF Visited
  <2>6. ASSUME NoFlush, Served(p, s, q, i, skip)  PROVE Served(z, s, q, i + 1, skip)
    <3>1. o.hwq.credits >= 0 /\ (Held(s) => Held(o)) /\ o.hwq.credits # 0 /\ o.hwq.credits \in Int
      BY <1>1, <1>6, <2>2, <2>4, <2>6, HwCounted DEF Served
    <3>2. PaidFor(r, o)
      BY <2>1, <2>2, <2>6, <3>1
    <3> QED  BY <2>2, <3>1, <3>2 DEF Served, PaidFor
  <2> QED  BY <2>1, <2>2, <2>5, <2>6
<1> QED  BY <1>4, <1>5, <1>6

LEMMA Calm ==
  ASSUME NEW s \in State, Good(s, {}), NEW r, r = [s EXCEPT !.hwq.need_processing = FALSE]
  PROVE  /\ r \in State /\ Good(r, {}) /\ r.hwq.list = s.hwq.list /\ r.txq = s.txq
         /\ r.skb = s.skb /\ r.ring = s.ring /\ r.hwq.credits = s.hwq.credits
         /\ r.hwq.token_status = s.hwq.token_status /\ r.hwq.dec = s.hwq.dec
<1>1. PICK h, g, no : /\ h = s.hwq /\ no = FALSE /\ no \in BOOLEAN
                      /\ g = [h EXCEPT !.need_processing = no]
  OBVIOUS
<1>2. s \in Raw /\ h \in HwQueue /\ Once(h.list)
  BY <1>1, StateIs DEF State
<1>3. /\ g \in HwQueue /\ g.list = h.list /\ g.credits = h.credits /\ g.dec = h.dec
      /\ g.token_status = h.token_status /\ g.outstanding_tokens = h.outstanding_tokens
  BY ONLY <1>1, <1>2 DEF HwQueue
<1>4. r = [s EXCEPT !.hwq = g]
  <2>1. r = [s EXCEPT !.hwq.need_processing = no]
    BY <1>1
  <2> QED  BY ONLY <1>1, <1>2, <2>1 DEF Raw
<1>5. /\ r \in Raw /\ r.hwq = g /\ r.txq = s.txq /\ r.skb = s.skb /\ r.ring = s.ring
      /\ r.stuck = s.stuck
  BY ONLY <1>2, <1>3, <1>4 DEF Raw
<1>6. r \in State /\ Listed(r) = Listed(s)
  BY <1>1, <1>2, <1>3, <1>5 DEF State, Listed
<1>7. \A t \in Txq : QueueOK(r.txq[t]) /\ PlaceOK(r, t)
  BY <1>5, <1>6 DEF Good, PlaceOK
<1>8. Frames(r, {})
  BY <1>5, <1>6, FramesSame DEF Good, SameFrames
<1>9. TokensOK(r)
  <2>1. /\ r.hwq.token_status = s.hwq.token_status
        /\ r.hwq.outstanding_tokens = s.hwq.outstanding_tokens
    BY ONLY <1>1, <1>3, <1>5
  <2>2. TokensOK(s)
    BY DEF Good
  <2> QED  BY ONLY s \in State, <1>5, <1>6, <2>1, <2>2, TokensSame
<1>10. SumOK(r)
  BY <1>1, <1>3, <1>5 DEF Good, SumOK
<1> QED  BY <1>1, <1>3, <1>5, <1>6, <1>7, <1>8, <1>9, <1>10 DEF Good

LEMMA VisitAll ==
  ASSUME NEW s \in State, Good(s, {}), NEW q, q = s.hwq.list, NEW skip, NEW rotate,
         NEW b, b = [s |-> s, over |-> FALSE],
         NEW p, p = ProcessAll(skip, rotate, b, q)
  PROVE  /\ p \in Pass /\ Visited(p.s, s, q, Len(q))
         /\ NoFlush /\ s.hwq.credits >= 0 => Served(p, s, q, Len(q), skip)
<1>1. PICK n : n = Len(q)
  OBVIOUS
<1>2. q \in Seq(Txq) /\ Once(q) /\ n \in Nat /\ DOMAIN q = 1 .. n /\ Listed(s) = ToSet(q)
  BY <1>1, StateIs DEF Listed
<1>3. ProcessRun(skip, rotate, b, n, q)
  BY ONLY <1>2, ProcessFold
<1>4. PICK g : /\ g[0] = b
               /\ \A i \in 1 .. n : g[i] = ProcessTxq(g[i - 1], q[i], skip, rotate)
               /\ ProcessAll(skip, rotate, b, q) = g[n]
  BY ONLY <1>3 DEF ProcessRun
<1> DEFINE OK(i) == /\ g[i] \in Pass /\ Visited(g[i].s, s, q, i)
                    /\ NoFlush /\ s.hwq.credits >= 0 => Served(g[i], s, q, i, skip)
           A == {i \in 0 .. n : OK(i)}
<1>5. 0 \in A
  <2>1. b \in Pass /\ b.s = s /\ ~b.over
    <3>1. PICK no : no = FALSE /\ no \in BOOLEAN
      OBVIOUS
    <3>2. b = [s |-> s, over |-> no]
      BY <3>1
    <3>3. b \in Pass /\ b.s = s /\ b.over = no
      BY ONLY s \in State, <3>1, <3>2 DEF Pass
    <3> QED  BY <3>1, <3>3
  <2>2. \A j \in 1 .. Len(q) : q[j] \in Listed(s)
    BY <1>2, SetIs
  <2>3. Visited(s, s, q, 0)
    BY <1>2, <2>2 DEF Visited, Stays
  <2>4. s.hwq.credits >= 0 => Served(b, s, q, 0, skip)
    BY <2>1 DEF Served
  <2> QED  BY <1>2, <1>4, <2>1, <2>3, <2>4
<1>6. ASSUME NEW m \in 1 .. n, m - 1 \in A
      PROVE  m \in A
  <2>1. PICK i, x, z : i = m - 1 /\ x = g[i] /\ z = g[m]
    OBVIOUS
  <2>2. i \in Nat /\ i < Len(q) /\ i + 1 = m /\ m \in 0 .. n
    BY <1>1, <1>2, <2>1
  <2>3. /\ x \in Pass /\ Visited(x.s, s, q, i)
        /\ NoFlush /\ s.hwq.credits >= 0 => Served(x, s, q, i, skip)
    BY <1>6, <2>1
  <2>4. z = ProcessTxq(x, q[i + 1], skip, rotate)
    BY <1>4, <2>1, <2>2
  <2>5. /\ z \in Pass /\ Visited(z.s, s, q, i + 1)
        /\ NoFlush /\ Served(x, s, q, i, skip) => Served(z, s, q, i + 1, skip)
    BY ONLY s \in State, <1>2, <2>2, <2>3, <2>4, OneMoreVisit
  <2>6. OK(m)
    BY <2>1, <2>2, <2>3, <2>5
  <2> HIDE DEF OK
  <2> QED  BY <2>2, <2>6
<1>7. \A m \in 0 .. n : m \in A
  <2> HIDE DEF A
  <2> QED  BY <1>2, <1>5, <1>6, UpTo
<1>8. OK(n)
  <2>1. n \in A
    BY <1>2, <1>7
  <2> HIDE DEF OK
  <2> QED  BY <2>1
<1>9. p = g[n]
  BY <1>4
<1> QED  BY <1>1, <1>8, <1>9

\* What siwifi_hwq_process promises.
Processed(r, s) ==
  /\ r \in State /\ Good(r, {})
  /\ Listed(r) \subseteq Listed(s) /\ r.hwq.dec = s.hwq.dec
  /\ Stays(r, s) /\ \A u \in Txq : r.txq[u].active = s.txq[u].active
  /\ \A g \in ToSet(r.ring) : g \in ToSet(s.ring) \/ s.skb[g].txq \in Listed(s)
  /\ NoFlush /\ s.hwq.credits >= 0 =>
       r.hwq.credits >= 0 /\ (Held(s) => Held(r) /\ Awake(r))

LEMMA HwqProcessGood ==
  ASSUME NEW s \in State, Good(s, {}), NEW skip \in Skips(s), NEW rotate,
         NEW r, r = HwqProcess(s, skip, rotate)
  PROVE  Processed(r, s)
<1>1. PICK s1, q, b, p : /\ s1 = [s EXCEPT !.hwq.need_processing = FALSE]
                         /\ q = s.hwq.list /\ b = [s |-> s1, over |-> FALSE]
                         /\ p = ProcessAll(skip, rotate, b, q)
  OBVIOUS
<1>2. r = p.s
  BY <1>1 DEF HwqProcess, ProcessAll
<1>3. /\ s1 \in State /\ Good(s1, {}) /\ s1.hwq.list = s.hwq.list /\ s1.txq = s.txq
      /\ s1.skb = s.skb /\ s1.ring = s.ring /\ s1.hwq.credits = s.hwq.credits
      /\ s1.hwq.token_status = s.hwq.token_status /\ s1.hwq.dec = s.hwq.dec
  BY ONLY s \in State, Good(s, {}), <1>1, Calm
<1>4. /\ p \in Pass /\ Visited(p.s, s1, q, Len(q))
      /\ NoFlush /\ s1.hwq.credits >= 0 => Served(p, s1, q, Len(q), skip)
  <2>1. q = s1.hwq.list
    BY <1>1, <1>3
  <2> QED  BY ONLY <1>1, <1>3, <2>1, VisitAll
<1>5. /\ r \in State /\ Good(r, {}) /\ Listed(r) \subseteq ToSet(q) /\ r.hwq.dec = s1.hwq.dec
      /\ Stays(r, s1) /\ \A u \in Txq : r.txq[u].active = s1.txq[u].active
      /\ \A g \in ToSet(r.ring) : g \in ToSet(s1.ring) \/ s1.skb[g].txq \in ToSet(q)
  BY ONLY <1>2, <1>4 DEF Visited
<1>6. Listed(s) = ToSet(q)
  BY <1>1 DEF Listed
<1>7. Stays(r, s)
  BY <1>3, <1>5 DEF Stays
<1>8. Held(s) => Held(s1)
  BY <1>3 DEF Held
<1>9. ASSUME NoFlush, s.hwq.credits >= 0
      PROVE  r.hwq.credits >= 0 /\ (Held(s) => Held(r) /\ Awake(r))
  <2>1. /\ r.hwq.credits >= 0 /\ (Held(s1) => Held(r))
        /\ Held(s1) /\ (\E j \in 1 .. Len(q) : q[j] \notin skip) => r.ring # <<>>
    BY <1>2, <1>3, <1>4, <1>9 DEF Served
  <2>2. ASSUME Held(s)  PROVE Awake(r)
    <3>1. ASSUME Listed(r) # {}  PROVE r.ring # <<>>
      <4>1. ToSet(q) # {} /\ q \in Seq(Txq)
        BY <1>1, <1>5, <3>1, StateIs
      <4>2. PICK t \in ToSet(q) : t \notin skip
        <5>1. skip = {} \/ (skip \subseteq ToSet(q) /\ skip # ToSet(q))
          BY <1>1 DEF Skips
        <5> QED  BY ONLY <4>1, <5>1
      <4>3. \E j \in 1 .. Len(q) : q[j] = t
        BY <4>1, <4>2, SetIs
      <4> QED  BY <1>8, <2>1, <2>2, <4>2, <4>3
    <3> QED  BY <3>1 DEF Awake
  <2> QED  BY <1>8, <2>1, <2>2
<1>10. \A g \in ToSet(r.ring) : g \in ToSet(s.ring) \/ s.skb[g].txq \in Listed(s)
  BY <1>3, <1>5, <1>6
<1> QED  BY <1>3, <1>5, <1>6, <1>7, <1>9, <1>10 DEF Processed

----------------------------------------------------------------------------
(* The actions, one lemma each, and the theorems.                          *)

(* What every action keeps, when it leads from s to r.                      *)

\* A U-APSD station that has asked for nothing.
Dozes(q) == q.ps_id = "UAPSD_ID" /\ q.ps_active /\ q.sp_cnt = 0

\* Every live queue has been told what stops the vif.
Told(s, V) == \A u \in Txq : s.txq[u].active => V \subseteq s.txq[u].stop

Step(r, s) ==
  /\ r \in State /\ Good(r, {})
  /\ \A t \in Txq : Dozes(s.txq[t]) => \A f \in ToSet(s.txq[t].sk_list) : f \notin ToSet(r.ring)
  /\ \/ ToSet(r.ring) \subseteq ToSet(s.ring) \/ "ON" \in PsStates
     \/ \E u \in Txq : s.txq[u].active /\ s.txq[u].stop = {}
  /\ NoFlush /\ s.hwq.credits >= 0 =>
       /\ r.hwq.dec = s.hwq.dec => r.hwq.credits >= 0
       /\ Held(s) /\ Awake(s) => Held(r) /\ Awake(r)

LEMMA Apart ==
  ASSUME NEW s \in State, Good(s, {}), NEW R, R \subseteq ToSet(s.ring)
  PROVE  \A t \in Txq : \A f \in ToSet(s.txq[t].sk_list) : f \notin R
BY DEF Good, Frames

\* An action that pushes nothing.
LEMMA QuietStep ==
  ASSUME NEW s \in State, Good(s, {}), NEW r \in State, Good(r, {}),
         ToSet(r.ring) \subseteq ToSet(s.ring),
         r.hwq.dec = s.hwq.dec /\ s.hwq.credits >= 0 => r.hwq.credits >= 0,
         NoFlush /\ s.hwq.credits >= 0 /\ Held(s) /\ Awake(s) => Held(r) /\ Awake(r)
  PROVE  Step(r, s)
BY Apart DEF Step

\* A dozing queue is not listed.
LEMMA DozerUnlisted ==
  ASSUME NEW s \in State, Good(s, {}), NEW t \in Txq, s.txq[t].ps_id = "UAPSD_ID",
         s.txq[t].ps_active, s.txq[t].push_limit = 0
  PROVE  t \notin Listed(s)
BY DEF Good, PlaceOK

\* Queueing a frame, one pass of siwifi_hwq_process or none, and what leaves the ring alone.
LEMMA PassStep ==
  ASSUME NEW s \in State, Good(s, {}), NEW a \in State, Good(a, {}),
         Soft(a, s), KeepsService(a, s),
         NEW b \in State, Processed(b, a) \/ b = a,
         NEW r \in State, Good(r, {}), Soft(r, b), Stays(r, b)
  PROVE  /\ Step(r, s) /\ r.hwq.dec = s.hwq.dec /\ Stays(r, s)
         /\ \A u \in Txq : r.txq[u].active = s.txq[u].active
<1>1. /\ a.ring = s.ring /\ a.hwq.dec = s.hwq.dec /\ a.hwq.credits = s.hwq.credits
      /\ \A u \in Txq : a.txq[u].active = s.txq[u].active
      /\ r.ring = b.ring /\ r.hwq.dec = b.hwq.dec /\ r.hwq.credits = b.hwq.credits
      /\ \A u \in Txq : r.txq[u].active = b.txq[u].active
  BY DEF Soft, SameHw
<1>2. /\ Stays(b, a) /\ b.hwq.dec = a.hwq.dec
      /\ \A u \in Txq : b.txq[u].active = a.txq[u].active
      /\ \A g \in ToSet(b.ring) : g \in ToSet(a.ring) \/ a.skb[g].txq \in Listed(a)
      /\ NoFlush /\ a.hwq.credits >= 0 =>
           b.hwq.credits >= 0 /\ (Held(a) /\ Awake(a) => Held(b) /\ Awake(b))
  <2>1. CASE Processed(b, a)
    BY <2>1 DEF Processed
  <2>2. CASE b = a
    BY <2>2 DEF Stays
  <2> QED  BY <2>1, <2>2
<1>3. (Held(s) => Held(a)) /\ (Awake(s) => Awake(a)) /\ (Held(b) => Held(r)) /\ (Awake(b) => Awake(r))
  BY SoftKeeps
<1>4. Stays(r, s)
  <2>1. Stays(a, s)
    BY DEF KeepsService, Stays
  <2> QED  BY <1>2, <2>1, StaysTwice
<1>5. \A t \in Txq : Dozes(s.txq[t]) => \A f \in ToSet(s.txq[t].sk_list) : f \notin ToSet(r.ring)
  <2> SUFFICES ASSUME NEW t \in Txq, Dozes(s.txq[t]), NEW f \in ToSet(s.txq[t].sk_list)
               PROVE  f \notin ToSet(r.ring)
    OBVIOUS
  <2>1. f \in ToSet(a.txq[t].sk_list) /\ a.txq[t].ps_id = "UAPSD_ID" /\ a.txq[t].ps_active
        /\ a.txq[t].push_limit = s.txq[t].push_limit
    BY DEF KeepsService, Dozes
  <2>2. s.txq[t].push_limit = 0
    <3>1. QueueOK(s.txq[t])
      BY DEF Good
    <3> QED  BY <3>1 DEF QueueOK, Dozes
  <2>3. t \notin Listed(a)
    BY <2>1, <2>2, DozerUnlisted
  <2>4. a.skb[f].txq = t /\ f \notin ToSet(a.ring)
    BY <2>1 DEF Good, Frames
  <2> QED  BY <1>1, <1>2, <2>3, <2>4
<1>6. \/ ToSet(r.ring) \subseteq ToSet(s.ring) \/ "ON" \in PsStates
      \/ \E u \in Txq : s.txq[u].active /\ s.txq[u].stop = {}
  <2> SUFFICES ASSUME NEW g \in ToSet(r.ring), g \notin ToSet(s.ring), "ON" \notin PsStates
               PROVE  \E u \in Txq : s.txq[u].active /\ s.txq[u].stop = {}
    OBVIOUS
  <2>1. PICK u : u = a.skb[g].txq
    OBVIOUS
  <2>2. u \in Listed(a) /\ u \in Txq
    BY <1>1, <1>2, <2>1, StateIs
  <2>3. a.txq[u].active /\ a.txq[u].stop = {}
    BY <2>2 DEF Good, PlaceOK
  <2>4. s.txq[u].active /\ s.txq[u].stop = {}
    BY <1>1, <2>2, <2>3 DEF KeepsService
  <2> QED  BY <2>2, <2>4
<1>7. \A u \in Txq : r.txq[u].active = s.txq[u].active
  BY <1>1, <1>2
<1>8. NoFlush /\ s.hwq.credits >= 0 =>
        /\ r.hwq.dec = s.hwq.dec => r.hwq.credits >= 0
        /\ Held(s) /\ Awake(s) => Held(r) /\ Awake(r)
  BY <1>1, <1>2, <1>3
<1> QED  BY <1>1, <1>2, <1>4, <1>5, <1>6, <1>7, <1>8 DEF Step

\* The same when only queues and lists change.
LEMMA SoftStep ==
  ASSUME NEW s \in State, Good(s, {}), NEW r \in State, Good(r, {}), Soft(r, s), Stays(r, s)
  PROVE  /\ Step(r, s) /\ r.hwq.dec = s.hwq.dec /\ Stays(r, s)
         /\ \A u \in Txq : r.txq[u].active = s.txq[u].active
<1>1. Soft(s, s) /\ KeepsService(s, s)
  BY DEF Soft, SameHw, KeepsService
<1> QED  BY <1>1, PassStep

LEMMA StaysTold ==
  ASSUME NEW s, NEW r, NEW V \in SUBSET Reasons, Told(s, V), Stays(r, s),
         \A u \in Txq : r.txq[u].active => s.txq[u].active
  PROVE  Told(r, V)
<1>1. V \cap {"FULL", "STA_PS"} = {}
  BY SchedAssumption DEF SchedAssumption
<1> QED  BY <1>1 DEF Told, Stays

Inv == Good(Now, {}) /\ vif_stop \subseteq Reasons /\ irq \in {"idle", "process"}

\* siwifi_txq_vif_get_status hands a new queue CHAN and VIF_PS only.
WholeVif == Reasons \subseteq {"CHAN", "VIF_PS"} \/ MaxInit = 0

\* What a step that reaches r gives.
Moves(r) ==
  /\ Now' = r /\ Step(r, Now)
  /\ vif_stop' \subseteq Reasons /\ irq' \in {"idle", "process"}
  /\ Decs \subseteq {0} /\ hwq.dec = 0 => r.hwq.dec = 0
  /\ WholeVif /\ Told(Now, vif_stop) => Told(r, vif_stop')

LEMMA BecomesIs ==
  ASSUME NEW r \in State, Becomes(r)
  PROVE  Now' = r
<1>1. r = [txq |-> r.txq, hwq |-> r.hwq, skb |-> r.skb, ring |-> r.ring, stuck |-> r.stuck]
  BY DEF State, Raw
<1>2. txq' = r.txq /\ hwq' = r.hwq /\ skb' = r.skb /\ ring' = r.ring /\ stuck' = r.stuck
  BY DEF Becomes
<1> QED  BY <1>1, <1>2 DEF Now

LEMMA NowIs ==
  /\ Now.txq = txq /\ Now.hwq = hwq /\ Now.skb = skb /\ Now.ring = ring
  /\ Now.stuck = stuck
BY DEF Now

\* An action that leaves the vif alone.
LEMMA StaysMoves ==
  ASSUME Inv, NEW r \in State, Becomes(r), Step(r, Now), r.hwq.dec = hwq.dec, Stays(r, Now),
         \A u \in Txq : r.txq[u].active => txq[u].active,
         vif_stop' = vif_stop, irq' \in {"idle", "process"}
  PROVE  Moves(r)
<1>1. Now' = r
  BY BecomesIs
<1>2. Told(Now, vif_stop) => Told(r, vif_stop)
  BY StaysTold, NowIs DEF Inv
<1> QED  BY <1>1, <1>2 DEF Moves, Inv

LEMMA SoftMoves ==
  ASSUME Inv, NEW r \in State, Becomes(r), Good(r, {}), Soft(r, Now), Stays(r, Now),
         vif_stop' = vif_stop, irq' \in {"idle", "process"}
  PROVE  Moves(r)
<1>1. PICK s : s = Now
  OBVIOUS
<1>2. s \in State /\ Good(s, {})
  BY <1>1 DEF Inv, Good
<1>3. /\ Step(r, s) /\ r.hwq.dec = s.hwq.dec
      /\ \A u \in Txq : r.txq[u].active = s.txq[u].active
  BY <1>1, <1>2, SoftStep
<1> QED  BY <1>1, <1>3, NowIs, StaysMoves

----------------------------------------------------------------------------
(* One lemma per action.                                                    *)

LEMMA PsChangeMoves ==
  ASSUME Inv, NEW t \in Txq, PsChange(t)
  PROVE  \E r : Moves(r)
<1>1. PICK s : s = Now
  OBVIOUS
<1>2. s \in State /\ Good(s, {}) /\ s.txq = txq
  BY <1>1, NowIs DEF Inv, Good
<1>3. PICK state \in PsStates :
         /\ (state = "ON") # txq[t].ps_active
         /\ Becomes(IF state = "ON" THEN PsEnable(s, t) ELSE PsDisable(s, t, state = "OFF_FORCE"))
  BY <1>1 DEF PsChange
<1>4. txq[t].active /\ txq[t].ps_active \in BOOLEAN /\ vif_stop' = vif_stop /\ irq' = "process"
  BY <1>2, StateIs DEF PsChange, Queue
<1>5. PICK r : r = IF state = "ON" THEN PsEnable(s, t) ELSE PsDisable(s, t, state = "OFF_FORCE")
  OBVIOUS
<1>6. r \in State /\ Good(r, {}) /\ Soft(r, s) /\ Stays(r, s)
  <2>1. CASE state = "ON"
    <3>1. ~s.txq[t].ps_active /\ s.txq[t].active /\ "ON" \in PsStates /\ r = PsEnable(s, t)
      BY <1>2, <1>3, <1>4, <1>5, <2>1
    <3> QED  BY ONLY t \in Txq, <1>2, <3>1, PsEnableGood
  <2>2. CASE state # "ON"
    <3>1. PICK force \in BOOLEAN : force = (state = "OFF_FORCE")
      OBVIOUS
    <3>2. s.txq[t].active /\ (force => ~NoFlush) /\ r = PsDisable(s, t, force)
      BY <1>2, <1>4, <1>5, <2>2, <3>1 DEF NoFlush
    <3> QED  BY ONLY t \in Txq, <1>2, <3>2, PsDisableGood
  <2> QED  BY <2>1, <2>2
<1>7. Becomes(r)
  BY <1>3, <1>5
<1> QED  BY <1>1, <1>4, <1>6, <1>7, SoftMoves

LEMMA TrafficMoves ==
  ASSUME Inv, NEW t \in Txq, NEW m \in 0 .. 1, PsTrafficReq(t, m)
  PROVE  \E r : Moves(r)
<1>1. PICK s, q : s = Now /\ q = txq[t]
  OBVIOUS
<1>2. s \in State /\ Good(s, {}) /\ s.txq[t] = q
  BY <1>1, NowIs DEF Inv, Good
<1>3. PICK asked, n, r :
        /\ asked = IF m = 0 THEN q.pkt_ready ELSE Smallest(m, q.pkt_ready)
        /\ n = Smallest(asked, Smallest(Len(q.sk_list), q.credits))
        /\ r = AddToHwList([s EXCEPT !.txq[t].push_limit = n, !.txq[t].sp_cnt = n], t)
  OBVIOUS
<1>4. /\ q.active /\ q.ps_active /\ q.pkt_ready > 0 /\ q.credits > 0 /\ q.sk_list # <<>>
      /\ Becomes(r) /\ irq' = "process" /\ vif_stop' = vif_stop
  BY <1>1, <1>3 DEF PsTrafficReq
<1>5. q \in Queue /\ q.sk_list \in Seq(Skb)
  BY <1>2, StateIs
<1>6. Len(q.sk_list) \in Nat /\ Len(q.sk_list) > 0 /\ q.credits \in Int /\ q.pkt_ready \in Int
  BY <1>4, <1>5 DEF Queue
<1>7. n \in Nat /\ n > 0 /\ n <= Len(q.sk_list)
  BY <1>3, <1>4, <1>6 DEF Smallest
<1>8. r \in State /\ Good(r, {}) /\ Soft(r, s) /\ Stays(r, s)
  BY ONLY t \in Txq, <1>2, <1>3, <1>4, <1>7, TrafficGood, ZenonT(30)
<1> QED  BY <1>1, <1>4, <1>8, SoftMoves

LEMMA CreditMoves ==
  ASSUME Inv, NEW t \in Txq, FwUpdate(t)
  PROVE  \E r : Moves(r)
<1>1. PICK s : s = Now
  OBVIOUS
<1>2. s \in State /\ Good(s, {}) /\ s.txq = txq
  BY <1>1, NowIs DEF Inv, Good
<1>3. PICK n \in {-1, 1} : CreditUpdate(t, n)
  BY DEF FwUpdate
<1>4. PICK r : r = GiveCredits(s, t, n)
  OBVIOUS
<1>5. s.txq[t].active /\ Becomes(r) /\ irq' = "process" /\ vif_stop' = vif_stop /\ n \in Int
  BY <1>1, <1>2, <1>3, <1>4 DEF CreditUpdate
<1>6. r \in State /\ Good(r, {}) /\ Gentle(r, s) /\ Stays(r, s)
  BY ONLY t \in Txq, <1>2, <1>4, <1>5, GiveCreditsGood
<1>7. Soft(r, s)
  BY <1>6, GentleIsSoft
<1> QED  BY <1>1, <1>5, <1>6, <1>7, SoftMoves

\* siwifi_start_xmit has the frame in its hands and writes its header.
Taking(s, t, f) ==
  [s EXCEPT !.skb[f] = [NoHdr EXCEPT !.txq = t, !.init_time = s.txq[t].init_time]]

LEMMA TakeFrame ==
  ASSUME NEW s \in State, Good(s, {}), NEW t \in Txq, NEW f \in Skb, s.skb[f].txq = None,
         NEW r, r = Taking(s, t, f)
  PROVE  /\ r \in State /\ Good(r, {f}) /\ Soft(r, s) /\ KeepsService(r, s)
         /\ r.skb[f].txq = t /\ r.skb[f].init_time = s.txq[t].init_time /\ r.txq = s.txq
<1>1. PICK h : h = [NoHdr EXCEPT !.txq = t, !.init_time = s.txq[t].init_time]
  OBVIOUS
<1>2. s \in Raw /\ Once(s.hwq.list) /\ s.txq[t] \in Queue
  BY StateIs DEF State
<1>3. h \in Hdr /\ h.txq = t /\ h.init_time = s.txq[t].init_time
  BY <1>1, <1>2, SchedAssumption DEF NoHdr, Hdr, Queue, SchedAssumption
<1>4. r = [s EXCEPT !.skb = [@ EXCEPT ![f] = h]]
  BY ONLY r = Taking(s, t, f), <1>1, <1>2 DEF Raw, Taking
<1>5. /\ r \in Raw /\ r.txq = s.txq /\ r.hwq = s.hwq /\ r.ring = s.ring /\ r.stuck = s.stuck
      /\ r.skb[f] = h /\ \A g \in Skb \ {f} : r.skb[g] = s.skb[g]
  BY ONLY f \in Skb, <1>2, <1>3, <1>4 DEF Raw
<1>6. r \in State /\ Listed(r) = Listed(s)
  BY <1>2, <1>5 DEF State, Listed
<1>7. Soft(r, s) /\ KeepsService(r, s)
  BY <1>5, <1>6 DEF Soft, SameHw, KeepsService
<1>8. None \notin Txq
  BY SchedAssumption DEF SchedAssumption
<1>9. ToSet(s.ring) \subseteq Skb /\ \A u \in Txq : ToSet(s.txq[u].sk_list) \subseteq Skb
  BY StateIs
<1>10. f \notin ToSet(s.ring) /\ \A u \in Txq : f \notin ToSet(s.txq[u].sk_list)
  BY <1>8 DEF Good, Frames
<1>11. Frames(r, {f})
  <2>1. /\ Once(r.ring)
        /\ \A u \in Txq : \A g \in ToSet(r.txq[u].sk_list) :
             /\ r.skb[g].txq = u /\ r.skb[g].init_time = r.txq[u].init_time
             /\ g \notin ToSet(r.ring) /\ g \notin {f}
    BY <1>5, <1>9, <1>10 DEF Good, Frames
  <2>2. \A g \in ToSet(r.ring) : r.skb[g].txq \in Txq /\ r.skb[g].token \in Token /\ g \notin {f}
    BY <1>5, <1>9, <1>10 DEF Good, Frames
  <2>3. ASSUME NEW g \in Skb, r.skb[g].txq \in Txq
        PROVE  /\ r.skb[g].init_time <= r.txq[r.skb[g].txq].init_time
               /\ g \in {f} \cup ToSet(r.ring) \cup ToSet(r.txq[r.skb[g].txq].sk_list)
    <3>1. CASE g = f
      <4>1. s.txq[t].init_time \in 0 .. MaxInit
        BY ONLY <1>2 DEF Queue
      <4>2. s.txq[t].init_time <= s.txq[t].init_time
        BY <4>1
      <4> QED  BY <1>3, <1>5, <3>1, <4>2
    <3>2. CASE g # f
      BY <1>5, <2>3, <3>2 DEF Good, Frames
    <3> QED  BY <3>1, <3>2
  <2>4. {f} \subseteq Skb /\ \A g \in {f} : r.skb[g].txq \in Txq
    BY <1>3, <1>5
  <2> QED  BY <2>1, <2>2, <2>3, <2>4 DEF Frames
<1>12. TokensOK(r)
  <2>1. /\ \A g \in ToSet(s.ring) : /\ r.skb[g].txq = s.skb[g].txq
                                      /\ r.skb[g].init_time = s.skb[g].init_time
                                      /\ r.skb[g].token = s.skb[g].token
        /\ ToSet(r.ring) = ToSet(s.ring)
    BY <1>5, <1>9, <1>10
  <2>2. TokensOK(s)
    BY DEF Good
  <2>3. /\ r.hwq.token_status = s.hwq.token_status
        /\ r.hwq.outstanding_tokens = s.hwq.outstanding_tokens
        /\ \A u \in Txq : /\ r.txq[u].active = s.txq[u].active
                          /\ r.txq[u].init_time = s.txq[u].init_time
                          /\ r.txq[u].token_pkt_num = s.txq[u].token_pkt_num
    BY ONLY <1>5
  <2> QED  BY ONLY s \in State, <1>6, <2>1, <2>2, <2>3, TokensSame
<1>13. SumOK(r)
  BY <1>5 DEF Good, SumOK
<1>14. \A u \in Txq : QueueOK(r.txq[u]) /\ PlaceOK(r, u)
  BY <1>5, <1>6 DEF Good, PlaceOK
<1>15. Good(r, {f})
  BY <1>6, <1>11, <1>12, <1>13, <1>14 DEF Good
<1> QED  BY <1>3, <1>5, <1>6, <1>7, <1>15

LEMMA KeepsTwice ==
  ASSUME NEW r, NEW s, NEW p, KeepsService(r, s), KeepsService(s, p)
  PROVE  KeepsService(r, p)
BY DEF KeepsService

\* Queueing a frame, and one pass or none.
LEMMA PassMoves ==
  ASSUME Inv, NEW a \in State, Good(a, {}), Soft(a, Now), KeepsService(a, Now),
         NEW b \in State, Processed(b, a) \/ b = a,
         NEW r \in State, Good(r, {}), Soft(r, b), Stays(r, b), Becomes(r),
         vif_stop' = vif_stop, irq' \in {"idle", "process"}
  PROVE  Moves(r)
<1>1. PICK s : s = Now
  OBVIOUS
<1>2. s \in State /\ Good(s, {})
  BY <1>1 DEF Inv, Good
<1>3. /\ Step(r, s) /\ r.hwq.dec = s.hwq.dec /\ Stays(r, s)
      /\ \A u \in Txq : r.txq[u].active = s.txq[u].active
  BY <1>1, <1>2, PassStep
<1> QED  BY <1>1, <1>3, NowIs, StaysMoves

LEMMA XmitMoves ==
  ASSUME Inv, NEW t \in Txq, NEW f \in Skb, Xmit(t, f)
  PROVE  \E r : Moves(r)
<1>1. PICK s, how : s = Now /\ how = IF f \in Ping THEN "ping" ELSE "tail"
  OBVIOUS
<1>2. s \in State /\ Good(s, {}) /\ s.txq = txq /\ s.skb = skb
  BY <1>1, NowIs DEF Inv, Good
<1>3. PICK b : b = Taking(s, t, f)
  OBVIOUS
<1>4. PICK a : a = QueueSkb(b, t, f, how)
  OBVIOUS
<1>5. /\ s.skb[f].txq = None /\ s.txq[t].active /\ vif_stop' = vif_stop /\ irq' = irq
      /\ IF IsStopped(a, t) THEN Becomes(a)
         ELSE \E skip \in Skips(a), rotate \in BOOLEAN : Becomes(HwqProcess(a, skip, rotate))
  BY <1>1, <1>2, <1>3, <1>4 DEF Xmit, Taking
<1>6. /\ b \in State /\ Good(b, {f}) /\ Soft(b, s) /\ KeepsService(b, s)
      /\ b.skb[f].txq = t /\ b.skb[f].init_time = s.txq[t].init_time /\ b.txq = s.txq
  BY ONLY t \in Txq, f \in Skb, <1>2, <1>3, <1>5, TakeFrame
<1>7. a \in State /\ Good(a, {}) /\ Soft(a, b) /\ KeepsService(a, b)
  <2>1. PICK loose : loose = {f}
    OBVIOUS
  <2>2. /\ Good(b, loose) /\ f \in loose /\ b.txq[t].active
        /\ b.skb[f].init_time = b.txq[t].init_time
    BY <1>5, <1>6, <2>1
  <2>3. a \in State /\ Good(a, loose \ {f}) /\ Soft(a, b) /\ KeepsService(a, b)
    BY ONLY t \in Txq, <1>4, <1>6, <2>2, QueueSkbGood
  <2>4. loose \ {f} = {}
    BY <2>1
  <2> QED  BY <2>3, <2>4
<1>8. Soft(a, s) /\ KeepsService(a, s) /\ irq' \in {"idle", "process"}
  BY <1>5, <1>6, <1>7, SoftTwice, KeepsTwice DEF Inv
<1>9. PICK r : /\ Becomes(r)
               /\ r = a \/ \E skip \in Skips(a), rotate \in BOOLEAN : r = HwqProcess(a, skip, rotate)
  BY <1>5
<1>10. Processed(r, a) \/ r = a
  BY <1>7, <1>9, HwqProcessGood
<1>11. r \in State /\ Good(r, {}) /\ Soft(r, r) /\ Stays(r, r)
  BY <1>7, <1>10 DEF Processed, Soft, SameHw, Stays
<1> QED  BY <1>1, <1>5, <1>7, <1>8, <1>9, <1>10, <1>11, PassMoves

LEMMA ProcessMoves ==
  ASSUME Inv, HwqProcessAll
  PROVE  \E r : Moves(r)
<1>1. PICK s : s = Now
  OBVIOUS
<1>2. s \in State /\ Good(s, {})
  BY <1>1 DEF Inv, Good
<1>3. vif_stop' = vif_stop /\ irq' = "idle"
  BY DEF HwqProcessAll
<1>4. \E skip \in Skips(s), rotate \in BOOLEAN : \E b :
        /\ b = IF hwq.need_processing THEN HwqProcess(s, skip, rotate) ELSE s
        /\ \/ Becomes(b)
           \/ \E late \in SUBSET b.stuck : (late # {} => Stuck) /\ Becomes(CheckStuck(b, late))
  BY <1>1 DEF HwqProcessAll
<1>5. PICK b : /\ b = s \/ \E skip \in Skips(s), rotate \in BOOLEAN : b = HwqProcess(s, skip, rotate)
               /\ \/ Becomes(b)
                  \/ \E late \in SUBSET b.stuck : (late # {} => Stuck) /\ Becomes(CheckStuck(b, late))
  BY <1>4
<1>6. Processed(b, s) \/ b = s
  BY <1>2, <1>5, HwqProcessGood
<1>7. b \in State /\ Good(b, {}) /\ Soft(b, b) /\ Stays(b, b)
  BY <1>2, <1>6 DEF Processed, Soft, SameHw, Stays
<1>8. PICK r : /\ Becomes(r)
               /\ r = b \/ \E late \in SUBSET b.stuck : (late # {} => Stuck) /\ r = CheckStuck(b, late)
  BY <1>5
<1>9. r \in State /\ Good(r, {}) /\ Soft(r, b) /\ Stays(r, b)
  <2>1. CASE r = b
    BY <1>7, <2>1
  <2>2. CASE r # b
    <3>1. PICK late \in SUBSET b.stuck : (late # {} => Stuck) /\ r = CheckStuck(b, late)
      BY <1>8, <2>2
    <3>2. IsFiniteSet(Txq)
      BY SchedAssumption DEF SchedAssumption
    <3> QED  BY <1>7, <3>1, <3>2, CheckStuckGood
  <2> QED  BY <2>1, <2>2
<1>10. Soft(s, s) /\ KeepsService(s, s)
  BY DEF Soft, SameHw, KeepsService
<1> QED  BY <1>1, <1>2, <1>3, <1>6, <1>7, <1>8, <1>9, <1>10, PassMoves

LEMMA CfmMoves ==
  ASSUME Inv, TxCfm
  PROVE  \E r : Moves(r)
<1>1. PICK s : s = Now
  OBVIOUS
<1>2. s \in State /\ Good(s, {}) /\ s.ring = ring
  BY <1>1, NowIs DEF Inv, Good
<1>3. s.ring \in Seq(Skb) /\ Len(s.ring) \in Nat
  BY <1>2, StateIs
<1>4. PICK n \in 0 .. Len(s.ring) : Confirmable = SubSeq(s.ring, 1, n)
  BY <1>2, <1>3, ConfirmableIs
<1>5. PICK r : r = CfmAll(s, SubSeq(s.ring, 1, n))
  OBVIOUS
<1>6. Becomes(r) /\ irq' = "process" /\ vif_stop' = vif_stop /\ SubSeq(s.ring, 1, n) # <<>>
  BY <1>1, <1>4, <1>5 DEF TxCfm, CfmAll
<1>7. AfterCfm(r, s, n)
  BY ONLY <1>2, <1>4, <1>5, TxCfmGood
<1>8. /\ r \in State /\ Good(r, {}) /\ r.hwq.credits = s.hwq.credits + n
      /\ Len(r.ring) = Len(s.ring) - n
      /\ \A j \in 1 .. Len(s.ring) - n : r.ring[j] = s.ring[n + j]
      /\ Stays(r, s) /\ (Held(s) => Held(r))
      /\ \A u \in Txq : r.txq[u].active = s.txq[u].active
      /\ n > 0 => r.hwq.need_processing = TRUE
  BY ONLY <1>7 DEF AfterCfm
<1>9. n \in Nat /\ n <= Len(s.ring) /\ s.hwq.credits \in Int
  BY <1>2, <1>3, HwCounted
<1>10. n > 0
  <2>1. ASSUME n = 0  PROVE SubSeq(s.ring, 1, n) = <<>>
    BY <1>3, <2>1
  <2> QED  BY <1>6, <1>9, <2>1
<1>11. r.hwq.dec = s.hwq.dec
  <2>1. PICK l, c, d, e : /\ l = Len(s.ring) /\ c = s.hwq.credits
                          /\ d = s.hwq.dec /\ e = r.hwq.dec
    OBVIOUS
  <2>2. /\ l \in Int /\ c \in Int /\ d \in Int /\ e \in Int /\ n \in Int /\ Size \in Int
        /\ c + l + d = Size /\ (c + n) + (l - n) + e = Size
    <3>1. d \in Int /\ e \in Int /\ c \in Int /\ l \in Int /\ n \in Int
      BY <1>2, <1>3, <1>8, <1>9, <2>1, HwCounted
    <3>2. Size \in Int
      BY SchedAssumption DEF SchedAssumption
    <3> QED  BY <1>2, <1>8, <2>1, <3>1, <3>2 DEF Good, SumOK
  <2>3. d = e
    BY ONLY <2>2
  <2> QED  BY <2>1, <2>3
<1>12. ToSet(r.ring) \subseteq ToSet(s.ring)
  <2>1. r.ring \in Seq(Skb)
    BY <1>8, StateIs
  <2>2. ASSUME NEW g \in ToSet(r.ring)  PROVE g \in ToSet(s.ring)
    <3>1. PICK j \in 1 .. Len(r.ring) : r.ring[j] = g
      BY <2>1, <2>2, SetIs
    <3>2. j \in 1 .. Len(s.ring) - n /\ n + j \in 1 .. Len(s.ring)
      BY <1>3, <1>8, <1>9
    <3>3. g = s.ring[n + j]
      BY <1>8, <3>1, <3>2
    <3> QED  BY <1>3, <3>2, <3>3, SetIs
  <2> QED  BY <2>2
<1>13. s.hwq.credits >= 0 => r.hwq.credits >= 0
  BY <1>8, <1>9
<1>14. Awake(r)
  BY <1>8, <1>10 DEF Awake
<1>15. Step(r, s)
  BY <1>2, <1>8, <1>12, <1>13, <1>14, QuietStep
<1>16. \A u \in Txq : r.txq[u].active => txq[u].active
  BY <1>1, <1>8, NowIs
<1> QED  BY <1>1, <1>2, <1>6, <1>8, <1>11, <1>15, <1>16, NowIs, StaysMoves

LEMMA VifStopMoves ==
  ASSUME Inv, NEW reason \in Reasons, VifStop(reason)
  PROVE  \E r : Moves(r)
<1>1. PICK s, r : s = Now /\ r = StopAll(reason, s, Txq)
  OBVIOUS
<1>2. s \in State /\ Good(s, {}) /\ s.txq = txq /\ s.hwq = hwq
  BY <1>1, NowIs DEF Inv, Good
<1>3. Becomes(r) /\ vif_stop' = vif_stop \cup {reason} /\ irq' = irq
  BY <1>1 DEF VifStop, StopAll
<1>4. IsFiniteSet(Txq)
  BY SchedAssumption DEF SchedAssumption
<1>5. /\ r \in State /\ Good(r, {}) /\ Gentle(r, s)
      /\ \A u \in Txq : r.txq[u].stop =
           IF s.txq[u].active THEN s.txq[u].stop \cup {reason} ELSE s.txq[u].stop
  <2>1. PICK y : y \in State /\ y = s
    BY <1>2
  <2>2. Good(y, {}) /\ reason \in Reasons /\ r = StopAll(reason, y, Txq)
    BY <1>1, <1>2, <2>1
  <2>3. /\ r \in State /\ Good(r, {}) /\ Gentle(r, y)
        /\ \A u \in Txq : r.txq[u].stop =
             IF y.txq[u].active THEN y.txq[u].stop \cup {reason} ELSE y.txq[u].stop
    BY ONLY <1>4, <2>1, <2>2, VifStopGood, ZenonT(30)
  <2> QED  BY <2>1, <2>3
<1>6. Soft(r, s) /\ Stays(r, s)
  BY <1>5, GentleIsSoft DEF Stays
<1>7. /\ Step(r, s) /\ r.hwq.dec = s.hwq.dec
      /\ \A u \in Txq : r.txq[u].active = s.txq[u].active
  BY <1>2, <1>5, <1>6, SoftStep
<1>8. Told(s, vif_stop) => Told(r, vif_stop')
  BY <1>3, <1>5, <1>7 DEF Told
<1>9. Now' = r
  BY <1>3, <1>5, BecomesIs
<1>10. vif_stop' \subseteq Reasons /\ irq' \in {"idle", "process"}
  BY <1>3 DEF Inv
<1>11. Moves(r)
  BY <1>1, <1>2, <1>7, <1>8, <1>9, <1>10 DEF Moves
<1> QED  BY <1>11

LEMMA VifStartMoves ==
  ASSUME Inv, NEW reason \in Reasons, VifStart(reason)
  PROVE  \E r : Moves(r)
<1>1. PICK s, r : s = Now /\ r = StartAll(reason, s, Txq)
  OBVIOUS
<1>2. s \in State /\ Good(s, {}) /\ s.txq = txq /\ s.hwq = hwq
  BY <1>1, NowIs DEF Inv, Good
<1>3. Becomes(r) /\ vif_stop' = vif_stop \ {reason} /\ irq' = irq
  BY <1>1 DEF VifStart, StartAll
<1>4. IsFiniteSet(Txq)
  BY SchedAssumption DEF SchedAssumption
<1>5. /\ r \in State /\ Good(r, {}) /\ Gentle(r, s)
      /\ \A u \in Txq : r.txq[u].stop =
           IF s.txq[u].active THEN s.txq[u].stop \ {reason} ELSE s.txq[u].stop
  BY ONLY reason \in Reasons, <1>1, <1>2, <1>4, VifStartGood
<1>6. Soft(r, s)
  BY <1>5, GentleIsSoft
<1>7. /\ r.ring = s.ring /\ r.hwq.dec = s.hwq.dec /\ r.hwq.credits = s.hwq.credits
      /\ \A u \in Txq : r.txq[u].active = s.txq[u].active
  BY <1>6 DEF Soft, SameHw
<1>8. Step(r, s)
  BY <1>2, <1>5, <1>6, <1>7, SoftKeeps, QuietStep
<1>9. Told(s, vif_stop) => Told(r, vif_stop')
  BY <1>3, <1>5, <1>7 DEF Told
<1>10. Now' = r
  BY <1>3, <1>5, BecomesIs
<1>11. vif_stop' \subseteq Reasons /\ irq' \in {"idle", "process"}
  BY <1>3 DEF Inv
<1>12. Moves(r)
  BY <1>1, <1>2, <1>7, <1>8, <1>9, <1>10, <1>11 DEF Moves
<1> QED  BY <1>12

LEMMA DeinitMoves ==
  ASSUME Inv, NEW t \in Txq, Deinit(t)
  PROVE  \E r : Moves(r)
<1>1. PICK s, r : s = Now /\ r = Left(s, t)
  OBVIOUS
<1>2. s \in State /\ Good(s, {}) /\ s.txq = txq /\ s.hwq = hwq
  BY <1>1, NowIs DEF Inv, Good
<1>3. Becomes(r) /\ s.txq[t].active /\ vif_stop' = vif_stop /\ irq' = irq
  <2>1. Gone(s, t) = {k \in Token : txq[t].token_pkt_num[k] > 0}
    BY <1>2 DEF Gone
  <2> QED  BY <1>1, <1>2, <2>1 DEF Deinit, Left
<1>4. /\ r \in State /\ Good(r, {}) /\ r.ring = s.ring
      /\ \A u \in Txq : r.txq[u].active => r.txq[u] = s.txq[u]
      /\ r.hwq.credits = s.hwq.credits /\ r.hwq.dec = s.hwq.dec
      /\ (Held(s) => Held(r)) /\ (Awake(s) => Awake(r))
  BY ONLY t \in Txq, <1>1, <1>2, <1>3, LeftGood
<1>5. Step(r, s)
  BY <1>2, <1>4, QuietStep
<1>6. Told(s, vif_stop) => Told(r, vif_stop')
  BY <1>3, <1>4 DEF Told
<1>7. Now' = r
  BY <1>3, <1>4, BecomesIs
<1>8. vif_stop' \subseteq Reasons /\ irq' \in {"idle", "process"}
  BY <1>3 DEF Inv
<1>9. Moves(r)
  BY <1>1, <1>2, <1>4, <1>5, <1>6, <1>7, <1>8 DEF Moves
<1> QED  BY <1>9

LEMMA SetUpMoves ==
  ASSUME Inv, NEW t \in Txq, SetUp(t)
  PROVE  \E r : Moves(r)
<1>1. PICK s, set : s = Now /\ set = vif_stop \cap {"CHAN", "VIF_PS"}
  OBVIOUS
<1>2. s \in State /\ Good(s, {}) /\ s.txq = txq /\ s.hwq = hwq
  BY <1>1, NowIs DEF Inv, Good
<1>3. PICK ps_id \in PsIds :
        txq' = [txq EXCEPT ![t] = FreshTxq(txq[t].init_time + 1, set, ps_id)]
  BY <1>1 DEF SetUp
<1>4. PICK p, r : p = FreshTxq(s.txq[t].init_time + 1, set, ps_id) /\ r = SetQ(s, t, p)
  OBVIOUS
<1>5. /\ ~s.txq[t].active /\ s.txq[t].init_time < MaxInit /\ set \in SUBSET Reasons
      /\ vif_stop' = vif_stop /\ irq' = irq
  BY <1>1, <1>2 DEF SetUp, Inv
<1>6. /\ r \in State /\ Good(r, {}) /\ r.ring = s.ring /\ r.hwq = s.hwq
      /\ r.txq[t].stop = set /\ \A u \in Txq \ {t} : r.txq[u] = s.txq[u]
      /\ (Held(s) => Held(r)) /\ (Awake(s) => Awake(r))
  BY ONLY t \in Txq, ps_id \in PsIds, <1>2, <1>4, <1>5, JoinGood
<1>7. Now' = r
  <2>1. txq' = [s.txq EXCEPT ![t] = p]
    BY <1>2, <1>3, <1>4
  <2>2. hwq' = s.hwq /\ skb' = s.skb /\ ring' = s.ring /\ stuck' = s.stuck
    BY <1>1, NowIs DEF SetUp
  <2>3. r = [txq |-> [s.txq EXCEPT ![t] = p], hwq |-> s.hwq, skb |-> s.skb, ring |-> s.ring,
             stuck |-> s.stuck]
    BY <1>2, <1>4 DEF SetQ, State, Raw
  <2> QED  BY <2>1, <2>2, <2>3 DEF Now
<1>8. Step(r, s)
  BY <1>2, <1>6, QuietStep
<1>9. WholeVif /\ Told(s, vif_stop) => Told(r, vif_stop')
  <2> SUFFICES ASSUME WholeVif, Told(s, vif_stop), NEW u \in Txq, r.txq[u].active
               PROVE  vif_stop \subseteq r.txq[u].stop
    BY <1>5 DEF Told
  <2>1. MaxInit # 0
    <3>1. s.txq[t].init_time \in 0 .. MaxInit /\ MaxInit \in Nat
      BY <1>2, StateIs, SchedAssumption DEF Queue, SchedAssumption
    <3> QED  BY <1>5, <3>1
  <2>2. set = vif_stop
    BY <1>1, <2>1 DEF WholeVif, Inv
  <2> QED  BY <1>6, <2>2 DEF Told
<1>10. vif_stop' \subseteq Reasons /\ irq' \in {"idle", "process"}
  BY <1>5 DEF Inv
<1>11. Moves(r)
  BY <1>1, <1>2, <1>6, <1>7, <1>8, <1>9, <1>10 DEF Moves
<1> QED  BY <1>11

LEMMA AdjustMoves ==
  ASSUME Inv, NEW dec \in Decs, AdjustHwqCredits(dec)
  PROVE  \E r : Moves(r)
<1>1. PICK s : s = Now
  OBVIOUS
<1>2. s \in State /\ Good(s, {}) /\ s.txq = txq /\ s.hwq = hwq
  BY <1>1, NowIs DEF Inv, Good
<1>3. PICK h : h = [s.hwq EXCEPT !.credits = @ - (dec - s.hwq.dec), !.dec = dec]
  OBVIOUS
<1>4. PICK r : r = [txq |-> s.txq, hwq |-> h, skb |-> s.skb, ring |-> s.ring, stuck |-> s.stuck]
  OBVIOUS
<1>5. dec # s.hwq.dec /\ vif_stop' = vif_stop /\ irq' = irq /\ dec \in 0 .. Size - 1
  BY <1>2, SchedAssumption DEF AdjustHwqCredits, SchedAssumption
<1>6. Now' = r
  BY <1>1, <1>2, <1>3, <1>4, NowIs DEF AdjustHwqCredits, Now
<1>7. /\ r.txq = s.txq /\ r.skb = s.skb /\ r.ring = s.ring /\ r.stuck = s.stuck /\ r.hwq = h
  BY <1>4
<1>8. r \in State
  <2>1. s \in Raw /\ Once(s.hwq.list) /\ s.hwq \in HwQueue /\ s.hwq.credits \in Int
        /\ s.hwq.dec \in Int /\ dec \in Int
    BY <1>2, <1>5, StateIs, HwCounted DEF State
  <2>2. s.hwq.credits - (dec - s.hwq.dec) \in Int
    BY ONLY <2>1
  <2>3. h \in HwQueue /\ h.list = s.hwq.list /\ h.dec = dec
    BY ONLY <1>3, <1>5, <2>1, <2>2 DEF HwQueue
  <2>4. r \in Raw
    BY ONLY <1>4, <2>1, <2>3 DEF Raw
  <2> QED  BY <1>7, <2>1, <2>3, <2>4 DEF State
<1>9. r.hwq.dec = dec
  BY <1>2, <1>3, <1>7, StateIs DEF HwQueue
<1>10. Good(r, {}) /\ (Held(s) => Held(r)) /\ (Awake(s) => Awake(r))
  BY ONLY <1>2, <1>3, <1>5, <1>7, <1>8, AdjustGood
<1>11. Step(r, s)
  BY <1>2, <1>5, <1>7, <1>8, <1>9, <1>10, QuietStep
<1>12. Told(s, vif_stop) => Told(r, vif_stop')
  BY <1>5, <1>7 DEF Told
<1>13. Decs \subseteq {0} => r.hwq.dec = 0
  BY <1>9
<1>14. vif_stop' \subseteq Reasons /\ irq' \in {"idle", "process"}
  BY <1>5 DEF Inv
<1>15. Moves(r)
  BY <1>1, <1>6, <1>11, <1>12, <1>13, <1>14 DEF Moves
<1> QED  BY <1>15

LEMMA FwDoneMoves ==
  ASSUME Inv, NEW f \in Skb, NEW status \in {"ok", "retry"}, FwDone(f, status)
  PROVE  \E r : Moves(r)
<1>1. PICK s : s = Now
  OBVIOUS
<1>2. s \in State /\ Good(s, {}) /\ s.txq = txq /\ s.hwq = hwq /\ s.skb = skb
  BY <1>1, NowIs DEF Inv, Good
<1>3. PICK n \in CfmCredits : skb' = [skb EXCEPT ![f].status = status, ![f].credits = n]
  BY DEF FwDone
<1>4. PICK h : h = [s.skb[f] EXCEPT !.status = status, !.credits = n]
  OBVIOUS
<1>5. PICK r : r = [txq |-> s.txq, hwq |-> s.hwq, skb |-> [s.skb EXCEPT ![f] = h],
                    ring |-> s.ring, stuck |-> s.stuck]
  OBVIOUS
<1>6. s \in Raw /\ Once(s.hwq.list) /\ s.skb \in [Skb -> Hdr] /\ s.skb[f] \in Hdr /\ n \in Nat
  BY <1>2, StateIs, SchedAssumption DEF State, Raw, SchedAssumption
<1>7. /\ h \in Hdr /\ h.txq = s.skb[f].txq /\ h.init_time = s.skb[f].init_time
      /\ h.token = s.skb[f].token
  BY ONLY status \in {"ok", "retry"}, <1>4, <1>6 DEF Hdr
<1>8. skb' = [s.skb EXCEPT ![f] = h]
  BY ONLY f \in Skb, <1>2, <1>3, <1>4, <1>6 DEF Hdr
<1>9. /\ txq' = s.txq /\ hwq' = s.hwq /\ ring' = s.ring /\ stuck' = s.stuck
      /\ vif_stop' = vif_stop /\ irq' = irq
  BY <1>1, NowIs DEF FwDone
<1>10. Now' = r
  BY <1>5, <1>8, <1>9 DEF Now
<1>11. /\ r.txq = s.txq /\ r.hwq = s.hwq /\ r.ring = s.ring /\ r.stuck = s.stuck
       /\ r.skb = [s.skb EXCEPT ![f] = h]
  BY <1>5
<1>12. r \in State
  <2>1. r \in Raw
    BY ONLY f \in Skb, <1>5, <1>6, <1>7 DEF Raw
  <2> QED  BY <1>6, <1>11, <2>1 DEF State
<1>13. \A g \in Skb : /\ r.skb[g].txq = s.skb[g].txq
                      /\ r.skb[g].init_time = s.skb[g].init_time
                      /\ r.skb[g].token = s.skb[g].token
  BY <1>6, <1>7, <1>11
<1>14. Good(r, {}) /\ (Held(s) => Held(r)) /\ (Awake(s) => Awake(r))
  BY ONLY <1>2, <1>11, <1>12, <1>13, FwDoneGood
<1>15. Step(r, s)
  BY <1>2, <1>11, <1>12, <1>14, QuietStep
<1>16. Told(s, vif_stop) => Told(r, vif_stop')
  BY <1>9, <1>11 DEF Told
<1>17. vif_stop' \subseteq Reasons /\ irq' \in {"idle", "process"}
  BY <1>9 DEF Inv
<1>18. Moves(r)
  BY <1>1, <1>2, <1>10, <1>11, <1>15, <1>16, <1>17 DEF Moves
<1> QED  BY <1>18

\* Nothing but the interrupt, or nothing at all.
LEMMA IdleMoves ==
  ASSUME Inv, UNCHANGED <<txq, hwq, skb, ring, stuck, vif_stop>>, irq' \in {"idle", "process"}
  PROVE  \E r : Moves(r)
<1>1. PICK s : s = Now
  OBVIOUS
<1>2. s \in State /\ Good(s, {}) /\ s.hwq = hwq
  BY <1>1, NowIs DEF Inv, Good
<1>3. Now' = s
  BY <1>1 DEF Now
<1>4. Step(s, s)
  BY <1>2, QuietStep
<1>5. Moves(s)
  BY <1>1, <1>2, <1>3, <1>4 DEF Moves, Inv
<1> QED  BY <1>5

LEMMA NextMoves ==
  ASSUME Inv, [Next]_vars
  PROVE  \E r : Moves(r)
<1>1. CASE UNCHANGED vars
  BY <1>1, IdleMoves DEF vars, Inv
<1>2. CASE OtherIrq
  BY <1>2, IdleMoves DEF OtherIrq
<1>3. CASE Host
  <2>1. CASE \E t \in Txq, f \in Skb : Xmit(t, f)
    BY <2>1, XmitMoves
  <2>2. CASE TxCfm
    BY <2>2, CfmMoves
  <2>3. CASE HwqProcessAll
    BY <2>3, ProcessMoves
  <2>4. CASE \E t \in Txq : PsChange(t)
    BY <2>4, PsChangeMoves
  <2>5. CASE \E t \in Txq, n \in 0 .. 1 : PsTrafficReq(t, n)
    BY <2>5, TrafficMoves
  <2>6. CASE \E r \in Reasons : VifStop(r)
    BY <2>6, VifStopMoves
  <2>7. CASE \E r \in Reasons : VifStart(r)
    BY <2>7, VifStartMoves
  <2>8. CASE \E t \in Txq : Deinit(t)
    BY <2>8, DeinitMoves
  <2>9. CASE \E t \in Txq : SetUp(t)
    BY <2>9, SetUpMoves
  <2>10. CASE \E d \in Decs : AdjustHwqCredits(d)
    BY <2>10, AdjustMoves
  <2> QED  BY <1>2, <1>3, <2>1, <2>2, <2>3, <2>4, <2>5, <2>6, <2>7, <2>8, <2>9, <2>10 DEF Host
<1>4. CASE Firmware
  <2>1. CASE \E f \in Skb : FwDone(f, "ok") \/ FwDone(f, "retry")
    BY <2>1, FwDoneMoves
  <2>2. CASE \E t \in Txq : FwUpdate(t)
    BY <2>2, CreditMoves
  <2> QED  BY <1>4, <2>1, <2>2 DEF Firmware
<1> QED  BY <1>1, <1>3, <1>4 DEF Next

(* What the invariant says of the properties.                               *)

LEMMA InitGood ==
  ASSUME Init
  PROVE  /\ Inv /\ Held(Now) /\ Awake(Now) /\ Told(Now, vif_stop)
         /\ hwq.dec = 0 /\ hwq.credits >= 0
<1>1. PICK s : s = Now
  OBVIOUS
<1>2. PICK ids \in [Txq -> PsIds] : txq = [t \in Txq |-> FreshTxq(0, {}, ids[t])]
  BY DEF Init
<1>3. /\ s.txq = txq /\ s.hwq = hwq /\ s.skb = [f \in Skb |-> NoHdr] /\ s.ring = <<>> /\ s.stuck = {}
      /\ s = [txq |-> txq, hwq |-> hwq, skb |-> [f \in Skb |-> NoHdr], ring |-> <<>>, stuck |-> {}]
      /\ vif_stop = {} /\ irq = "idle"
  BY <1>1, NowIs DEF Init, Now
<1>4. Size \in Nat /\ 0 \in 0 .. Size - 1 /\ 0 \in 0 .. MaxInit /\ None \notin Txq
  BY SchedAssumption DEF SchedAssumption
<1>5. PICK no, ts, e : no = FALSE /\ no \in BOOLEAN /\ ts = [k \in Token |-> no] /\ e = <<>>
  OBVIOUS
<1>6. /\ hwq = [list |-> e, credits |-> Size, dec |-> 0, need_processing |-> no,
                token_status |-> ts, outstanding_tokens |-> 0]
  BY <1>5 DEF Init
<1>7. /\ hwq.list = e /\ hwq.credits = Size /\ hwq.dec = 0 /\ hwq.token_status = ts
      /\ hwq.outstanding_tokens = 0
  BY ONLY <1>6
<1>8. hwq \in HwQueue
  <2>1. ts \in [Token -> BOOLEAN] /\ e \in Seq(Txq) /\ Size \in Int /\ 0 \in Int
    BY <1>4, <1>5
  <2> QED  BY ONLY <1>4, <1>5, <1>6, <2>1 DEF HwQueue
<1>9. \A t \in Txq : IsFresh(txq[t], 0, {})
  <2> TAKE t \in Txq
  <2>1. txq[t] = FreshTxq(0, {}, ids[t]) /\ ids[t] \in PsIds
    BY <1>2
  <2> QED  BY <1>4, <2>1, FreshIs
<1>10. \A t \in Txq : /\ txq[t] \in Queue /\ QueueOK(txq[t]) /\ txq[t].active
                      /\ txq[t].stop = {} /\ txq[t].sk_list = <<>>
                      /\ txq[t].push_limit = 0 /\ \A k \in Token : txq[t].token_pkt_num[k] = 0
  BY <1>9 DEF IsFresh
<1>11. NoHdr \in Hdr /\ NoHdr.txq = None
  BY <1>4 DEF NoHdr, Hdr
<1>12. s \in State
  <2>1. txq \in [Txq -> Queue]
    BY <1>2, <1>10
  <2>2. PICK hd : hd = [f \in Skb |-> NoHdr]
    OBVIOUS
  <2>3. hd \in [Skb -> Hdr] /\ e \in Seq(Skb) /\ {} \in SUBSET Txq
    BY <1>5, <1>11, <2>2
  <2>4. s = [txq |-> txq, hwq |-> hwq, skb |-> hd, ring |-> e, stuck |-> {}]
    BY <1>3, <1>5, <2>2
  <2>5. s \in Raw /\ s.hwq = hwq
    BY ONLY <1>8, <2>1, <2>3, <2>4 DEF Raw
  <2> QED  BY <1>5, <1>7, <2>5, NoneIn DEF State
<1>13. Listed(s) = {} /\ ToSet(s.ring) = {} /\ Once(s.ring)
  BY <1>3, <1>5, <1>7, NoneIn DEF Listed
<1>14. \A t \in Txq : QueueOK(s.txq[t]) /\ PlaceOK(s, t)
  BY <1>3, <1>10, <1>13 DEF PlaceOK
<1>15. Frames(s, {})
  <2>1. \A t \in Txq : ToSet(s.txq[t].sk_list) = {}
    BY <1>3, <1>10, NoneIn
  <2>2. \A f \in Skb : s.skb[f].txq \notin Txq
    BY <1>3, <1>4, <1>11
  <2> QED  BY <1>13, <2>1, <2>2 DEF Frames
<1>16. TokensOK(s) /\ Held(s)
  <2>1. Busy(s) = {}
    BY <1>3, <1>5, <1>7 DEF Busy
  <2>2. \A t \in Txq, k \in Token : Flight(s, t, k) = {}
    BY <1>13 DEF Flight
  <2>3. s.hwq.outstanding_tokens = Cardinality(Busy(s))
    BY <1>3, <1>7, <2>1, FS_EmptySet
  <2>4. \A t \in Txq, k \in Token : s.txq[t].token_pkt_num[k] = 0 /\ Cardinality(Flight(s, t, k)) = 0
    BY <1>3, <1>10, <2>2, FS_EmptySet
  <2>5. \A k \in Token : ~s.hwq.token_status[k]
    BY <2>1 DEF Busy
  <2> QED  BY <2>3, <2>4, <2>5 DEF TokensOK, Held
<1>17. SumOK(s)
  <2>1. Len(s.ring) = 0
    BY <1>3
  <2> QED  BY <1>3, <1>4, <1>7, <2>1 DEF SumOK
<1>18. Good(s, {})
  BY <1>12, <1>14, <1>15, <1>16, <1>17 DEF Good
<1>19. Awake(s) /\ Told(s, {})
  BY <1>13 DEF Awake, Told
<1> QED  BY <1>1, <1>3, <1>4, <1>7, <1>16, <1>18, <1>19 DEF Inv

\* What TypeOK says of a queue.
LEMMA QueueTyped ==
  ASSUME NEW q \in Queue, q.pkt_ready >= 0, \A k \in Token : q.token_pkt_num[k] >= 0
  PROVE  q \in [active : BOOLEAN, flow : BOOLEAN, ps_active : BOOLEAN,
                stop : SUBSET ({"FULL", "STA_PS"} \cup Reasons),
                credits : Int, sk_list : Seq(Skb),
                last_retry_skb : Skb \cup {None}, nb_retry : Nat,
                push_limit : Nat, token_pkt_num : [Token -> Nat],
                init_time : 0 .. MaxInit, ps_id : PsIds, pkt_ready : Nat,
                sp_cnt : Int]
<1>1. PICK n : n = q.token_pkt_num
  OBVIOUS
<1>2. n \in [Token -> Int] /\ q.pkt_ready \in Int
  BY <1>1 DEF Queue
<1>3. n \in [Token -> Nat]
  <2>1. \A k \in Token : n[k] \in Nat
    BY <1>1, <1>2
  <2> QED  BY <1>2, <2>1
<1>4. q.pkt_ready \in Nat
  BY <1>2
<1> QED  BY ONLY q \in Queue, <1>1, <1>3, <1>4 DEF Queue, Stops

LEMMA Typed ==
  ASSUME Inv
  PROVE  TypeOK
<1>1. PICK s : s = Now
  OBVIOUS
<1>2. /\ s \in State /\ Good(s, {}) /\ s.txq = txq /\ s.hwq = hwq /\ s.skb = skb /\ s.ring = ring
      /\ s.stuck = stuck
  BY <1>1, NowIs DEF Inv, Good
<1>3. txq \in [Txq -> Queue] /\ hwq \in HwQueue /\ skb \in [Skb -> Hdr] /\ ring \in Seq(Skb)
      /\ stuck \subseteq Txq
  BY <1>2 DEF State, Raw
<1>4. \A t \in Txq : txq[t].pkt_ready >= 0 /\ \A k \in Token : txq[t].token_pkt_num[k] >= 0
  BY <1>2 DEF Good, QueueOK, TokensOK
<1>5. txq \in [Txq -> [active : BOOLEAN, flow : BOOLEAN, ps_active : BOOLEAN,
                       stop : SUBSET ({"FULL", "STA_PS"} \cup Reasons),
                       credits : Int, sk_list : Seq(Skb),
                       last_retry_skb : Skb \cup {None}, nb_retry : Nat,
                       push_limit : Nat, token_pkt_num : [Token -> Nat],
                       init_time : 0 .. MaxInit, ps_id : PsIds, pkt_ready : Nat,
                       sp_cnt : Int]]
  BY <1>3, <1>4, QueueTyped
<1>6. hwq.outstanding_tokens \in 0 .. Tokens
  <2>1. hwq.outstanding_tokens = Cardinality(Busy(s))
    BY <1>2 DEF Good, TokensOK
  <2>2. Cardinality(Busy(s)) \in Nat /\ Cardinality(Busy(s)) <= Tokens /\ Tokens \in Nat
    <3>1. IsFiniteSet(Token) /\ Cardinality(Token) = Tokens /\ Tokens \in Nat
      <4>1. Tokens \in Nat
        BY SchedAssumption DEF SchedAssumption
      <4> QED  BY <4>1, FS_Interval DEF Token
    <3>2. Busy(s) \subseteq Token
      BY DEF Busy
    <3>3. IsFiniteSet(Busy(s)) /\ Cardinality(Busy(s)) <= Cardinality(Token)
      BY <3>1, <3>2, FS_Subset
    <3> QED  BY <3>1, <3>3, FS_CardinalityType
  <2> QED  BY <2>1, <2>2
<1>7. hwq \in [list : Seq(Txq), credits : Int, dec : 0 .. Size - 1,
               need_processing : BOOLEAN, token_status : [Token -> BOOLEAN],
               outstanding_tokens : 0 .. Tokens]
  BY ONLY <1>3, <1>6 DEF HwQueue
<1>8. skb \in [Skb -> [txq : Txq \cup {None}, init_time : 0 .. MaxInit,
                       token : Token \cup {None}, status : {"pending", "ok", "retry"},
                       credits : Nat]]
  BY <1>3 DEF Hdr
<1> QED  BY <1>3, <1>5, <1>7, <1>8 DEF TypeOK, Inv

\* How often a frame is on a list without repetition.
LEMMA OneIndex ==
  ASSUME NEW q \in Seq(Skb), Once(q), NEW f
  PROVE  LET I == {i \in 1 .. Len(q) : q[i] = f}
         IN  /\ f \in ToSet(q) => Cardinality(I) = 1 /\ I # {}
             /\ f \notin ToSet(q) => I = {} /\ Cardinality(I) = 0
<1> DEFINE I == {i \in 1 .. Len(q) : q[i] = f}
<1>1. ASSUME f \in ToSet(q)  PROVE Cardinality(I) = 1 /\ I # {}
  <2>1. PICK i \in 1 .. Len(q) : q[i] = f
    BY <1>1, SetIs
  <2>2. I = {i}
    BY <2>1 DEF Once
  <2> QED  BY <2>2, FS_Singleton
<1>2. ASSUME f \notin ToSet(q)  PROVE I = {} /\ Cardinality(I) = 0
  <2>1. I = {}
    BY <1>2, SetIs
  <2> QED  BY <2>1, FS_EmptySet
<1> QED  BY <1>1, <1>2

LEMMA FramesPlaced ==
  ASSUME Inv
  PROVE  NoFrameLost
<1>1. PICK s : s = Now
  OBVIOUS
<1>2. /\ s \in State /\ Good(s, {}) /\ s.txq = txq /\ s.hwq = hwq /\ s.skb = skb /\ s.ring = ring
      /\ s.stuck = stuck
  BY <1>1, NowIs DEF Inv, Good
<1>3. /\ \A t \in Txq : txq[t].sk_list \in Seq(Skb) /\ Once(txq[t].sk_list)
      /\ ring \in Seq(Skb) /\ Once(ring) /\ None \notin Txq
      /\ \A f \in Skb : skb[f].txq \in Txq \cup {None}
  <2>1. None \notin Txq
    BY SchedAssumption DEF SchedAssumption
  <2>2. \A f \in Skb : skb[f] \in Hdr
    BY <1>2, StateIs
  <2> QED  BY <1>2, <2>1, <2>2, StateIs DEF Good, QueueOK, Frames, Hdr
<1>4. /\ \A t \in Txq : \A f \in ToSet(txq[t].sk_list) : skb[f].txq = t /\ f \notin ToSet(ring)
      /\ \A f \in ToSet(ring) : skb[f].txq \in Txq
      /\ \A f \in Skb : skb[f].txq \in Txq =>
           f \in ToSet(ring) \cup ToSet(txq[skb[f].txq].sk_list)
  BY <1>2 DEF Good, Frames
<1> SUFFICES ASSUME NEW f \in Skb
             PROVE  LET places == [t \in Txq |-> Cardinality({i \in 1 .. Len(txq[t].sk_list) :
                                                                txq[t].sk_list[i] = f})]
                        queued == {t \in Txq : places[t] > 0}
                        flying == {i \in 1 .. Len(ring) : ring[i] = f}
                    IN  IF skb[f].txq = None THEN queued = {} /\ flying = {}
                        ELSE \/ queued = {skb[f].txq} /\ places[skb[f].txq] = 1 /\ flying = {}
                             \/ queued = {} /\ Cardinality(flying) = 1
  BY DEF NoFrameLost
<1> DEFINE I(t) == {i \in 1 .. Len(txq[t].sk_list) : txq[t].sk_list[i] = f}
           places == [t \in Txq |-> Cardinality(I(t))]
           queued == {t \in Txq : places[t] > 0}
           flying == {i \in 1 .. Len(ring) : ring[i] = f}
<1>5. \A t \in Txq : /\ f \in ToSet(txq[t].sk_list) => places[t] = 1
                     /\ f \notin ToSet(txq[t].sk_list) => places[t] = 0
  <2> TAKE t \in Txq
  <2>1. PICK q : q = txq[t].sk_list
    OBVIOUS
  <2>2. q \in Seq(Skb) /\ Once(q)
    BY <1>3, <2>1
  <2>3. /\ f \in ToSet(q) => Cardinality({i \in 1 .. Len(q) : q[i] = f}) = 1
        /\ f \notin ToSet(q) => Cardinality({i \in 1 .. Len(q) : q[i] = f}) = 0
    BY ONLY <2>2, OneIndex
  <2> QED  BY <2>1, <2>3
<1>6. /\ f \in ToSet(ring) => Cardinality(flying) = 1
      /\ f \notin ToSet(ring) => flying = {}
  BY <1>3, OneIndex
<1>7. \A t \in Txq : t \in queued <=> f \in ToSet(txq[t].sk_list)
  BY <1>5
<1> HIDE DEF places, flying
<1>8. CASE skb[f].txq = None
  <2>1. f \notin ToSet(ring) /\ \A t \in Txq : f \notin ToSet(txq[t].sk_list)
    BY <1>3, <1>4, <1>8
  <2>2. queued = {} /\ flying = {}
    BY <1>6, <1>7, <2>1
  <2> QED  BY <1>8, <2>2 DEF places, flying
<1>9. CASE skb[f].txq # None
  <2>1. PICK t \in Txq : t = skb[f].txq
    BY <1>3, <1>9
  <2>2. CASE f \in ToSet(ring)
    <3>1. \A u \in Txq : f \notin ToSet(txq[u].sk_list)
      BY <1>4, <2>2
    <3>2. queued = {} /\ Cardinality(flying) = 1
      BY <1>6, <1>7, <2>2, <3>1
    <3> QED  BY <1>9, <3>2 DEF places, flying
  <2>3. CASE f \notin ToSet(ring)
    <3>1. f \in ToSet(txq[t].sk_list) /\ \A u \in Txq \ {t} : f \notin ToSet(txq[u].sk_list)
      BY <1>4, <2>1, <2>3
    <3>2. queued = {t}
      BY <1>7, <3>1
    <3>3. places[t] = 1 /\ flying = {}
      BY <1>5, <1>6, <2>3, <3>1
    <3> QED  BY <1>9, <2>1, <3>2, <3>3 DEF places, flying
  <2> QED  BY <2>2, <2>3
<1> QED  BY <1>8, <1>9

LEMMA Kept ==
  ASSUME Inv
  PROVE  FramesAreKept
<1>1. PICK s : s = Now
  OBVIOUS
<1>2. /\ s \in State /\ Good(s, {}) /\ s.txq = txq /\ s.hwq = hwq /\ s.skb = skb /\ s.ring = ring
      /\ s.stuck = stuck
  BY <1>1, NowIs DEF Inv, Good
<1>3. \A t \in Txq : IsScheduled(Now, t) <=> t \in Listed(s)
  BY <1>1, <1>2, StateIs, SetIs DEF IsScheduled, Listed
<1>4. \A t \in Txq : PlaceOK(s, t)
  BY <1>2 DEF Good
<1>5. NothingForgotten
  <2>1. ASSUME NEW t \in Txq, txq[t].active, txq[t].sk_list # <<>>
        PROVE  /\ IsStopped(Now, t) => t \in stuck \cup ToSet(hwq.list)
               /\ ~IsStopped(Now, t) => IsScheduled(Now, t)
    BY <1>1, <1>2, <1>3, <1>4, <2>1 DEF PlaceOK, IsStopped, Listed
  <2>2. stuck \cap ToSet(hwq.list) = {}
    BY <1>2, <1>4, StateIs DEF PlaceOK, Listed
  <2> QED  BY <2>1, <2>2 DEF NothingForgotten
<1> QED  BY <1>5, FramesPlaced, Typed DEF FramesAreKept

LEMMA Followed ==
  ASSUME Inv
  PROVE  /\ CountersFollowFrames /\ CreditsMatchRing
         /\ FlowRestart # 0 => FlowCtrlClears
<1>1. Good(Now, {}) /\ Now.txq = txq /\ Now.hwq = hwq /\ Now.ring = ring
  BY NowIs DEF Inv
<1>2. \A t \in Txq : QueueOK(txq[t])
  BY <1>1 DEF Good
<1>3. RetriesLead
  BY <1>2 DEF QueueOK, RetriesLead
<1>4. ServiceAccounts
  BY <1>2 DEF QueueOK, ServiceAccounts
<1>5. FlowRestart # 0 => FlowCtrlClears
  BY <1>2 DEF QueueOK, FlowCtrlClears
<1>6. CreditsMatchRing
  BY <1>1 DEF Good, SumOK, CreditsMatchRing
<1> QED  BY <1>3, <1>4, <1>5, <1>6 DEF CountersFollowFrames

LEMMA CanPush ==
  ASSUME Inv, NoFlush
  PROVE  ScheduledCanPush
<1>1. PICK s : s = Now
  OBVIOUS
<1>2. s \in State /\ Good(s, {}) /\ s.txq = txq /\ s.hwq = hwq
  BY <1>1, NowIs DEF Inv, Good
<1> SUFFICES ASSUME NEW t \in ToSet(hwq.list)
             PROVE  txq[t].active /\ txq[t].credits > 0 /\ txq[t].sk_list # <<>>
  BY DEF ScheduledCanPush
<1>3. t \in Txq /\ t \in Listed(s)
  BY <1>2, StateIs DEF Listed
<1>4. QueueOK(txq[t]) /\ PlaceOK(s, t) /\ txq[t] \in Queue
  BY <1>2, <1>3, StateIs DEF Good
<1>5. txq[t].active /\ "FULL" \notin txq[t].stop /\ txq[t].sk_list # <<>>
  BY <1>2, <1>3, <1>4, NoFlush DEF PlaceOK
<1>6. txq[t].credits > 0
  <2>1. txq[t].credits \in Int /\ ~(txq[t].credits <= 0)
    BY <1>4, <1>5 DEF QueueOK, Queue
  <2> QED  BY <2>1
<1> QED  BY <1>5, <1>6

LEMMA Matched ==
  ASSUME Inv, Held(Now)
  PROVE  TokensMatchFlight
<1>1. PICK s : s = Now
  OBVIOUS
<1>2. /\ s \in State /\ TokensOK(s) /\ Held(s) /\ s.txq = txq /\ s.hwq = hwq /\ s.skb = skb
      /\ s.ring = ring
  BY <1>1, NowIs DEF Inv, Good
<1>3. ASSUME NEW k \in Token, NEW t \in Txq, txq[t].active
      PROVE  txq[t].token_pkt_num[k] = Cardinality({f \in InFlight(t) : skb[f].token = k})
  <2>1. {f \in InFlight(t) : skb[f].token = k} = Flight(s, t, k)
    BY <1>2 DEF InFlight, Flight
  <2> QED  BY <1>2, <1>3, <2>1, ZenonT(30) DEF TokensOK
<1>4. ASSUME NEW k \in Token
      PROVE  hwq.token_status[k] <=>
               Cardinality({t \in Txq : txq[t].active /\ txq[t].token_pkt_num[k] > 0}) = 1
  <2> DEFINE H == {t \in Txq : txq[t].active /\ txq[t].token_pkt_num[k] > 0}
  <2>1. CASE hwq.token_status[k]
    <3>1. PICK t \in Txq : txq[t].active /\ txq[t].token_pkt_num[k] > 0
      BY <1>2, <2>1 DEF Held
    <3>2. H = {t}
      BY <1>2, <3>1 DEF TokensOK
    <3> QED  BY <2>1, <3>2, FS_Singleton
  <2>2. CASE ~hwq.token_status[k]
    <3>1. H = {}
      BY <1>2, <2>2 DEF TokensOK
    <3>2. Cardinality(H) = 0
      BY <3>1, FS_EmptySet
    <3>3. ~(Cardinality(H) = 1)
      BY <3>2
    <3> QED  BY ONLY <2>2, <3>3
  <2> QED  BY <2>1, <2>2
<1>5. hwq.outstanding_tokens = Cardinality({k \in Token : hwq.token_status[k]})
  BY <1>2 DEF TokensOK, Busy
<1> QED  BY <1>3, <1>4, <1>5 DEF TokensMatchFlight

LEMMA NotStalled ==
  ASSUME Inv, Awake(Now)
  PROVE  NeverStalls
<1>1. PICK s : s = Now
  OBVIOUS
<1>2. s \in State /\ Awake(s) /\ s.hwq = hwq /\ s.ring = ring
  BY <1>1, NowIs DEF Inv, Good
<1>3. hwq.list # <<>> => Listed(s) # {}
  BY <1>2, StateIs, SetIs DEF Listed
<1> QED  BY <1>2, <1>3 DEF Awake, NeverStalls

LEMMA InvStep ==
  ASSUME Inv, [Next]_vars
  PROVE  Inv'
<1>1. PICK r : Moves(r)
  BY NextMoves
<1>2. Now' = r /\ Good(r, {}) /\ vif_stop' \subseteq Reasons /\ irq' \in {"idle", "process"}
  BY <1>1 DEF Moves, Step
<1>3. Good(Now, {})'
  BY <1>2
<1> QED  BY <1>2, <1>3 DEF Inv

\* The scheduler keeps its invariant, whatever stops, starts, power save, retries, leaving
\* stations, restarts of the flow control and changes of the limit come in between
\* (every critical section under tx_lock of siwifi_txq.c and siwifi_tx.c).
THEOREM SchedInvariant == Spec => []Inv
<1>1. Init => Inv
  BY InitGood
<1>2. Inv /\ [Next]_vars => Inv'
  BY InvStep
<1> QED  BY <1>1, <1>2, PTL DEF Spec

\* A frame that siwifi_start_xmit queued is in one queue, on its way or confirmed, never lost
\* and never twice, and a queue with frames that may go is on the hardware list or the stuck
\* list (the one list node of siwifi_txq_add_to_hw_list and its like).
THEOREM FramesKept == Spec => []FramesAreKept
<1>1. Inv => FramesAreKept
  BY Kept
<1> QED  BY <1>1, SchedInvariant, PTL

\* last_retry_skb is the last of the nb_retry frames at the head of a queue, behind which
\* siwifi_txq_queue_skb puts the next retry; while a station sleeps, pkt_ready counts its
\* frames and push_limit is what is left of its service period (siwifi_ps_bh_traffic_req).
THEOREM CountersFollow == Spec => []CountersFollowFrames
<1>1. Inv => CountersFollowFrames
  BY Followed
<1> QED  BY <1>1, SchedInvariant, PTL

\* The credits of the hwq, the frames it has in the ring and what the temperature control has
\* taken make up the size of the ring (siwifi_adjust_hwq_credits), retries included.
THEOREM CreditsMatch == Spec => []CreditsMatchRing
<1>1. Inv => CreditsMatchRing
  BY Followed
<1> QED  BY <1>1, SchedInvariant, PTL

\* A queue that asked for flow control has frames enough to lift it again, by whichever path they
\* leave (siwifi_txq_check_flow_ctrl): a push, a flush or a drop. With a restart level of
\* zero an empty queue would never lift it; SIWIFI_NDEV_FLOW_CTRL_RESTART is not zero.
THEOREM FlowClears ==
  ASSUME FlowRestart # 0
  PROVE  Spec => []FlowCtrlClears
<1>1. Inv => FlowCtrlClears
  BY Followed
<1> QED  BY <1>1, SchedInvariant, PTL

\* What siwifi_hwq_process asserts of a queue on its list (siwifi_txq.c:1041-1044): it is in
\* use and has frames and credits. The forced end of power save, and the 40 seconds of the stuck
\* list when a station sleeps, flush a queue that stays listed or is listed again: the
\* assertion fails in those two cases, which NoFlush excludes.
THEOREM ListedCanPush ==
  ASSUME NoFlush
  PROVE  Spec => []ScheduledCanPush
<1>1. Inv => ScheduledCanPush
  BY CanPush
<1> QED  BY <1>1, SchedInvariant, PTL

\* While the hwq's credits are not negative every busy token is a live queue's, and no
\* list waits for nothing.
Flows == Held(Now) /\ Awake(Now)

LEMMA FlowsStep ==
  ASSUME NoFlush, Inv, [Next]_vars, Flows, hwq.credits >= 0
  PROVE  Flows'
<1>1. PICK r : Moves(r)
  BY NextMoves
<1>2. Now.hwq = hwq
  BY NowIs
<1>3. Now' = r /\ Held(r) /\ Awake(r)
  BY <1>1, <1>2 DEF Moves, Step, Flows
<1>4. Held(Now)' /\ Awake(Now)'
  BY <1>3
<1> QED  BY <1>4 DEF Flows

LEMMA FlowsAlways ==
  ASSUME NoFlush
  PROVE  Spec /\ [](hwq.credits >= 0) => []Flows
<1>1. Init => Flows
  BY InitGood DEF Flows
<1>2. Inv /\ Flows /\ hwq.credits >= 0 /\ [Next]_vars => Flows'
  BY FlowsStep
<1> QED  BY <1>1, <1>2, SchedInvariant, PTL DEF Spec

\* A token is taken exactly while frames pushed with it fly: siwifi_txdatacfm returns it with
\* the last of them, and the BUG_ON of siwifi_tx.c:1551 does not fire. With negative credits
\* siwifi_hwq_process takes a token for a push that has nothing to push (siwifi_txq.c:1048),
\* and a queue re-initialised then forgets that it holds it.
THEOREM TokensMatch ==
  ASSUME NoFlush
  PROVE  Spec /\ [](hwq.credits >= 0) => []TokensMatchFlight
<1>1. Inv /\ Flows => TokensMatchFlight
  BY Matched DEF Flows
<1> QED  BY <1>1, SchedInvariant, FlowsAlways, PTL

\* A hardware list with queues is served: need_processing is set or a confirmation that sets
\* it is to come (siwifi_hwq_process_all), and tokens run out only with frames on their way.
\* This needs the tokens, hence the same two conditions.
THEOREM SchedulerAwake ==
  ASSUME NoFlush
  PROVE  Spec /\ [](hwq.credits >= 0) => []NeverStalls
<1>1. Inv /\ Flows => NeverStalls
  BY NotStalled DEF Flows
<1> QED  BY <1>1, SchedInvariant, FlowsAlways, PTL

\* As long as the temperature control never lowers the limit.
Unlimited == hwq.dec = 0 /\ hwq.credits >= 0

LEMMA UnlimitedStep ==
  ASSUME NoFlush, Decs \subseteq {0}, Inv, [Next]_vars, Unlimited
  PROVE  Unlimited'
<1>1. PICK r : Moves(r)
  BY NextMoves
<1>2. Now.hwq = hwq
  BY NowIs
<1>3. Now' = r /\ r.hwq.dec = 0 /\ r.hwq.credits >= 0
  BY <1>1, <1>2 DEF Moves, Step, Unlimited
<1>4. hwq' = r.hwq
  BY <1>3 DEF Now
<1> QED  BY <1>3, <1>4 DEF Unlimited

\* While the temperature control leaves the limit alone the credits of the hwq never become
\* negative, so the two theorems before hold without a condition on the behaviour.
THEOREM NoLimitNoStall ==
  ASSUME NoFlush, Decs \subseteq {0}
  PROVE  Spec => [](hwq.credits >= 0 /\ TokensMatchFlight /\ NeverStalls)
<1>1. Init => Unlimited
  BY InitGood DEF Unlimited
<1>2. Inv /\ Unlimited /\ [Next]_vars => Unlimited'
  BY UnlimitedStep
<1>3. Unlimited => hwq.credits >= 0
  BY DEF Unlimited
<1> QED  BY <1>1, <1>2, <1>3, SchedInvariant, TokensMatch, SchedulerAwake, PTL DEF Spec

\* No frame of a U-APSD station that sleeps and has asked for nothing is pushed: what PS_ON
\* stops, siwifi_hwq_process leaves in its queue until siwifi_ps_bh_traffic_req.
THEOREM SleepersKeep == Spec => SleepersKeepTheirFrames
<1>1. ASSUME Inv, [Next]_vars
      PROVE  \A t \in Txq, f \in Skb :
               (/\ txq[t].ps_id = "UAPSD_ID"
                /\ txq[t].ps_active /\ txq[t].sp_cnt = 0 /\ txq'[t].ps_active
                /\ Contains(txq[t].sk_list, f))
               => ~Contains(ring', f)
  <2>1. PICK r, s : Moves(r) /\ s = Now
    BY <1>1, NextMoves
  <2>2. s \in State /\ s.txq = txq
    BY <1>1, <2>1, NowIs DEF Inv, Good
  <2>3. ring' = r.ring /\ r \in State /\ Step(r, s)
    BY <2>1 DEF Moves, Step, Now
  <2> SUFFICES ASSUME NEW t \in Txq, NEW f \in Skb, txq[t].ps_id = "UAPSD_ID",
                      txq[t].ps_active, txq[t].sp_cnt = 0, Contains(txq[t].sk_list, f)
               PROVE  ~Contains(ring', f)
    OBVIOUS
  <2>4. Dozes(s.txq[t]) /\ f \in ToSet(s.txq[t].sk_list)
    <3>1. txq[t].sk_list \in Seq(Skb)
      BY <2>2, StateIs
    <3> QED  BY <2>2, <3>1, SetIs DEF Dozes
  <2>5. f \notin ToSet(r.ring)
    BY <2>3, <2>4 DEF Step
  <2>6. r.ring \in Seq(Skb)
    BY <2>3, StateIs
  <2> QED  BY <2>3, <2>5, <2>6, SetIs
<1> QED  BY <1>1, SchedInvariant, PTL DEF Spec, SleepersKeepTheirFrames

LEMMA ToldStep ==
  ASSUME WholeVif, Inv, [Next]_vars, Told(Now, vif_stop)
  PROVE  Told(Now, vif_stop)'
<1>1. PICK r : Moves(r)
  BY NextMoves
<1>2. Now' = r /\ Told(r, vif_stop')
  BY <1>1 DEF Moves
<1> QED  BY <1>2

\* After siwifi_txq_vif_stop no frame of the interface is pushed until siwifi_txq_vif_start,
\* retries and frames queued meanwhile included. A service period lists a stopped queue
\* (siwifi_tx.c:1632), hence no power save; and siwifi_txq_vif_get_status hands a new queue
\* only the stops CHAN and VIF_PS, hence WholeVif.
THEOREM StoppedVifSilent ==
  ASSUME "ON" \notin PsStates, WholeVif
  PROVE  Spec => StoppedVifIsSilent
<1>1. Init => Told(Now, vif_stop)
  BY InitGood
<1>2. Inv /\ Told(Now, vif_stop) /\ [Next]_vars => Told(Now, vif_stop)'
  BY ToldStep
<1>3. ASSUME Inv, Told(Now, vif_stop), [Next]_vars
      PROVE  vif_stop # {} => \A f \in ToSet(ring') : Contains(ring, f)
  <2>1. PICK r, s : Moves(r) /\ s = Now
    BY <1>3, NextMoves
  <2>2. s \in State /\ s.ring = ring
    BY <1>3, <2>1, NowIs DEF Inv, Good
  <2>3. ring' = r.ring /\ Step(r, s)
    BY <2>1 DEF Moves, Step, Now
  <2> SUFFICES ASSUME vif_stop # {}, NEW f \in ToSet(ring')
               PROVE  Contains(ring, f)
    OBVIOUS
  <2>4. ~\E u \in Txq : s.txq[u].active /\ s.txq[u].stop = {}
    BY <1>3, <2>1 DEF Told
  <2>5. f \in ToSet(s.ring)
    BY <2>3, <2>4 DEF Step
  <2> QED  BY <2>2, <2>5, StateIs, SetIs
<1> QED  BY <1>1, <1>2, <1>3, SchedInvariant, PTL DEF Spec, StoppedVifIsSilent
=============================================================================
