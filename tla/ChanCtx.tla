------------------------------ MODULE ChanCtx ------------------------------
(* Channel contexts: the table that links interfaces to the channels the    *)
(* firmware works on (siwifi_main.c, siwifi_msg_rx.c), with the stop of an  *)
(* interface's queues while the firmware is on another channel, the radar   *)
(* detection of the current channel, and the life of the channel            *)
(* availability check (siwifi_radar.c).                                     *)
(*                                                                          *)
(* Requests of cfg80211 come one at a time, under the rtnl lock, and sleep  *)
(* between a request and its confirmation; the indications of the firmware  *)
(* are handled in the interrupt, and the ends of the availability check and *)
(* of a channel switch, and a detected radar, are works.  Accesses to the   *)
(* table are under cb_lock (those for a monitor are taken to be), but a     *)
(* request reads the current channel when it wakes up, not when the         *)
(* firmware answered.                                                       *)
(*                                                                          *)
(* A channel definition is abstracted to a frequency; that frequency needs  *)
(* radar detection or does not.                                             *)
EXTENDS Integers, FiniteSets

CONSTANTS
  Ap,         \* access point interfaces
  Sta,        \* the station interface, or None
  Mon,        \* the monitor interface, if there is one
  Ctx,        \* indices of chanctx_table
  Freq,
  Radar,      \* frequencies with IEEE80211_CHAN_RADAR
  None,
  QuietSta,   \* the station stays where it is while a request, the heart
              \* beat or the switch of an AP is under way
  HostWaits,  \* user space starts an AP when the work of its CAC is through
  QuickOff,   \* detection is off after a radar before another radar channel
              \* is current
  CacRefused, \* bound: an availability check may be asked for during another,
              \* and the firmware may refuse one
  MaxCount,   \* bound: no link to a context whose count is there
  MaxCsa      \* bound: channel switches of APs under way at a time

Vif == Ap \cup Mon \cup ({Sta} \ {None})

ASSUME ChanAssumption ==
  /\ IsFiniteSet(Vif)
  /\ None \notin Ap \cup Mon \cup Ctx \cup Freq \cup [c: Ctx, f: Freq]
  /\ Sta \notin Ap \cup Mon /\ Ap \cap Mon = {}
  /\ \A m, n \in Mon : m = n
  /\ Radar \subseteq Freq
  /\ QuietSta \in BOOLEAN /\ HostWaits \in BOOLEAN
  /\ QuickOff \in BOOLEAN /\ CacRefused \in BOOLEAN
  /\ MaxCount \in Nat /\ MaxCsa \in Nat

VARIABLES
  tab,      \* ch: vif->ch_index; count, chan: chanctx_table; detect: radar detection
  cur,      \* cur_chanctx
  q,        \* the queues of each interface: none, go, or STOP_CHAN
  up,       \* vif->up
  started,  \* the APs user space has started, the station when sta.ap is set
  cac,      \* radar.cac_vif and cac_work
  csa,      \* vif->ap.csa and its work
  op,       \* the request under the rtnl lock
  again,    \* the APs a restart has still to start
  stuck,    \* cb_lock is held for good: by a cancel that waits for the CAC
            \* work, or one that woke up to no cac_vif
  beat,     \* what the heart beat read of the station's channel
  dfs,      \* detection_work, and the channel whose radar it reports
  nop,      \* the channels cfg80211 was told a radar is on, for 30 minutes
  fw        \* ch: contexts of the interfaces, freq: of the contexts, cur, pre

vars == <<tab, cur, q, up, started, cac, csa, op, again, stuck, beat, dfs, nop, fw>>

NoOp == [k |-> "none", s |-> "none", v |-> None, f |-> None, c |-> None]
NoCac == [vif |-> None, work |-> "idle"]
NoDfs == [s |-> "idle", f |-> None]
NoCsa == [s |-> "none", f |-> None, c |-> None]
NoFw == [ch |-> [v \in Vif |-> None], freq |-> [c \in Ctx |-> None],
         cur |-> None, pre |-> FALSE]

Init ==
  /\ tab = [ch |-> [v \in Vif |-> None], count |-> [c \in Ctx |-> 0],
            chan |-> [c \in Ctx |-> None], detect |-> FALSE]
  /\ cur \in Ctx
  /\ q = [v \in Vif |-> "none"]
  /\ up = {} /\ started = {}
  /\ cac = NoCac
  /\ csa = [v \in Ap |-> NoCsa]
  /\ op = NoOp /\ again = {}
  /\ stuck = FALSE
  /\ beat = None
  /\ dfs = NoDfs /\ nop = {}
  /\ fw = NoFw

----------------------------------------------------------------------------
(* The table.                                                               *)

\* Mutant: detection ends with any context, not only with the current one.
UnlinkQuiets(t, v) ==
  IF t.ch[v] = None THEN t
  ELSE LET c == t.ch[v]
           left == IF t.count[c] = 0 THEN 0 ELSE t.count[c] - 1
       IN  [ch |-> [t.ch EXCEPT ![v] = None],
            count |-> [t.count EXCEPT ![c] = left],
            chan |-> IF left = 0 THEN [t.chan EXCEPT ![c] = None] ELSE t.chan,
            detect |-> t.detect /\ left # 0]

\* siwifi_chanctx_unlink.
Unlink(t, v) ==
  IF t.ch[v] = None THEN t
  ELSE LET c == t.ch[v]
           left == IF t.count[c] = 0 THEN 0 ELSE t.count[c] - 1
       IN  [ch |-> [t.ch EXCEPT ![v] = None],
            count |-> [t.count EXCEPT ![c] = left],
            chan |-> IF left = 0 THEN [t.chan EXCEPT ![c] = None] ELSE t.chan,
            detect |-> t.detect /\ ~(left = 0 /\ c = cur)]

\* What the interfaces of vs leave of a context's count, and whether nothing.
Leave(t, vs, c) == Cardinality({v \in vs : t.ch[v] = c})
Left(t, vs, c) ==
  IF t.count[c] > Leave(t, vs, c) THEN t.count[c] - Leave(t, vs, c) ELSE 0
Emptied(t, vs, c) == Leave(t, vs, c) > 0 /\ Left(t, vs, c) = 0

\* Several interfaces at once: each unlink is the same, in any order.
UnlinkAll(t, vs) ==
  [ch |-> [v \in Vif |-> IF v \in vs THEN None ELSE t.ch[v]],
   count |-> [c \in Ctx |-> Left(t, vs, c)],
   chan |-> [c \in Ctx |-> IF Emptied(t, vs, c) THEN None ELSE t.chan[c]],
   detect |-> t.detect /\ ~Emptied(t, vs, cur)]

\* Mutant: the interfaces that move are not given their new context.
GatherForgets(t, moved) == UnlinkAll(t, moved)

\* Mutant: the new context does not count the interfaces that move to it.
GatherUncounted(t, moved) ==
  [UnlinkAll(t, moved) EXCEPT
     !.ch = [v \in Vif |-> IF v \in moved THEN t.ch[Sta] ELSE t.ch[v]]]

\* The station's context s takes the interfaces of moved, linked or not.
Gather(t, moved) ==
  LET s == IF moved = {} THEN None ELSE t.ch[Sta] IN
  [ch |-> [v \in Vif |-> IF v \in moved THEN s ELSE t.ch[v]],
   count |-> [c \in Ctx |->
                IF c = s THEN t.count[c] + Cardinality(moved) - Leave(t, moved, c)
                ELSE Left(t, moved, c)],
   chan |-> [c \in Ctx |-> IF c # s /\ Emptied(t, moved, c) THEN None ELSE t.chan[c]],
   detect |-> t.detect /\ ~(cur # s /\ Emptied(t, moved, cur))]

\* The interfaces siwifi_check_vif_channel_same moves.  For one that is not
\* linked it reads the table at index 0xFF, and what it finds there decides:
\* stray are those whose read yields a channel.
Moved(t, stray) ==
  IF Sta = None \/ t.ch[Sta] = None THEN {}
  ELSE {v \in Vif \ {Sta} : t.ch[v] # None \/ v \in stray}

\* siwifi_chanctx_link: the old link, if there is one, keeps its count.
Linked(t, v, c, f) ==
  [ch |-> [t.ch EXCEPT ![v] = c], count |-> [t.count EXCEPT ![c] = @ + 1],
   chan |-> [t.chan EXCEPT ![c] = f], detect |-> t.detect]

Strays == IF Sta = None THEN {{}} ELSE SUBSET (Vif \ {Sta})

LinkMoves(t, v, c, f, stray) == Moved(Linked(t, v, c, f), stray)
Link(t, v, c, f, stray) ==
  Gather(Linked(t, v, c, f), LinkMoves(t, v, c, f, stray))

\* siwifi_radar_detection_enable_on_cur_channel, with the current channel k.
EnableOn(t, k) ==
  IF t.chan[k] = None THEN t ELSE [t EXCEPT !.detect = t.chan[k] \in Radar]

\* siwifi_txq_vif_start and _stop with SIWIFI_TXQ_STOP_CHAN.
SetQ(vs, x) ==
  [v \in Vif |-> IF v \in vs /\ q[v] # "none" THEN x ELSE q[v]]

\* The queues are initialised, those of the moved interfaces were started.
NewQ(v, c, moved) ==
  [SetQ(moved, "go") EXCEPT ![v] = IF cur = c THEN "go" ELSE "stop"]

CanLink(c) == tab.count[c] < MaxCount

----------------------------------------------------------------------------
(* The firmware: it chooses contexts, and moves between those in use.       *)

FwUsers(c) == {v \in Vif : fw.ch[v] = c}

Alone == Sta = None \/ fw.ch[Sta] = None

\* The context for frequency f of interface v: the one that has it, or one
\* that only v uses.  A connected station has its channel shared by all.
Fits(v, c, f) ==
  IF v = Sta THEN fw.freq[c] = f \/ FwUsers(c) = {}
  ELSE IF ~Alone THEN fw.ch[Sta] = c /\ fw.freq[c] = f
  ELSE \/ fw.freq[c] = f /\ FwUsers(c) # {}
       \/ /\ FwUsers(c) \subseteq {v}
          /\ \A d \in Ctx : FwUsers(d) \ {v} # {} => fw.freq[d] # f

StaMayMove ==
  QuietSta => beat = None /\ op.k = "none" /\ \A v \in Ap : csa[v].s = "none"

\* It forgets the channel of a context that nothing uses.
Used(ch, freq) ==
  [c \in Ctx |-> IF \E v \in Vif : ch[v] = c THEN freq[c] ELSE None]

\* A station takes the other interfaces with it.
FwLink(v, c, f) ==
  LET ch == [w \in Vif |-> IF w = v \/ (v = Sta /\ fw.ch[w] # None)
                             THEN c ELSE fw.ch[w]]
  IN  fw' = [fw EXCEPT !.ch = ch, !.freq = Used(ch, [@ EXCEPT ![c] = f])]

FwLeave(v) ==
  LET ch == [fw.ch EXCEPT ![v] = None]
  IN  fw' = [fw EXCEPT !.ch = ch, !.freq = Used(ch, @)]

\* siwifi_rx_chan_pre_switch_ind.
PreSwitch ==
  /\ ~stuck
  /\ fw.cur # None /\ ~fw.pre
  /\ fw' = [fw EXCEPT !.pre = TRUE]
  /\ q' = SetQ({v \in up : tab.ch[v] = fw.cur}, "stop")
  /\ UNCHANGED <<tab, cur, up, started, cac, csa, op, again, stuck, beat, dfs, nop>>

\* Mutant: the queues of interfaces of the old channel are started.
StartOld(c) == SetQ({v \in up : tab.ch[v] = cur}, "go")

StartNew(c) == SetQ({v \in up : tab.ch[v] = c}, "go")

\* siwifi_rx_chan_switch_ind.
Switch(c) ==
  /\ ~stuck
  /\ fw.pre \/ fw.cur = None
  /\ FwUsers(c) # {}
  /\ fw' = [fw EXCEPT !.cur = c, !.pre = FALSE]
  /\ q' = StartNew(c)
  /\ cur' = c
  /\ tab' = EnableOn(tab, c)
  /\ UNCHANGED <<up, started, cac, csa, op, again, stuck, beat, dfs, nop>>

----------------------------------------------------------------------------
(* The station: siwifi_rx_sm_connect_ind, roaming included,                 *)
(* siwifi_rx_sm_disconnect_ind, and the end of the AP's channel switch in   *)
(* siwifi_rx_csa_finish_ind.                                                *)

Connect(c, f) ==
  /\ ~stuck
  /\ StaMayMove
  /\ Sta \in up
  /\ Fits(Sta, c, f) /\ CanLink(c)
  /\ FwLink(Sta, c, f)
  /\ \E stray \in Strays :
       LET moved == LinkMoves(tab, Sta, c, f, stray) IN
       /\ tab' = Link(tab, Sta, c, f, stray)
       /\ q' = NewQ(Sta, c, moved)
  /\ started' = started \cup {Sta}
  /\ UNCHANGED <<cur, up, cac, csa, op, again, stuck, beat, dfs, nop>>

Disconnect ==
  /\ ~stuck
  /\ StaMayMove
  /\ Sta # None /\ fw.ch[Sta] # None
  /\ FwLeave(Sta)
  /\ tab' = Unlink(tab, Sta)
  /\ q' = [q EXCEPT ![Sta] = "none"]
  /\ started' = started \ {Sta}
  /\ UNCHANGED <<cur, up, cac, csa, op, again, stuck, beat, dfs, nop>>

\* Unlink, link, and the queues by the current channel.
Move(v, c, f) ==
  \E stray \in Strays :
    LET t == Unlink(tab, v)
        moved == LinkMoves(t, v, c, f, stray)
        l == Link(t, v, c, f, stray)
    IN  /\ tab' = IF cur = c THEN EnableOn(l, cur) ELSE l
        /\ q' = [v2 \in Vif |->
                   IF v2 = v THEN SetQ({v}, IF cur = c THEN "go" ELSE "stop")[v]
                   ELSE SetQ(moved, "go")[v2]]

StaCsaFinish(c, f) ==
  /\ ~stuck
  /\ StaMayMove
  /\ Sta \in up /\ fw.ch[Sta] # None
  /\ Fits(Sta, c, f) /\ CanLink(c)
  /\ FwLink(Sta, c, f)
  /\ Move(Sta, c, f)
  /\ UNCHANGED <<cur, up, started, cac, csa, op, again, stuck, beat, dfs, nop>>

----------------------------------------------------------------------------
(* Requests of cfg80211, under the rtnl lock.                               *)

Idle == op.k = "none" /\ again = {}
Ask(k, v, f, s) == op' = [k |-> k, s |-> s, v |-> v, f |-> f, c |-> None]
Waits(k, s) == op.k = k /\ op.s = s

\* siwifi_open.
Open(v) ==
  /\ Idle /\ ~stuck /\ v \notin up
  /\ up' = up \cup {v}
  /\ UNCHANGED <<tab, cur, q, started, cac, csa, op, again, stuck, beat, dfs, nop, fw>>

\* siwifi_cfg80211_start_ap up to its request; a restart calls it again.
StartApAsk(v, f) ==
  /\ op.k = "none"
  /\ IF again = {} THEN v \in up \ started /\ f \notin nop ELSE v \in again
  /\ cac.vif = v => ~HostWaits /\ cac.work = "sent"
  /\ Ask("start_ap", v, f, "ask")
  /\ again' = again \ {v}
  /\ UNCHANGED <<tab, cur, q, up, started, cac, csa, stuck, beat, dfs, nop, fw>>

\* The firmware starts it, or sets the monitor's channel; the caller is still
\* asleep.
FwStarts(c) ==
  /\ op.k \in {"start_ap", "start_cac", "monitor"} /\ op.s = "ask"
  /\ Fits(op.v, c, op.f) /\ CanLink(c)
  /\ FwLink(op.v, c, op.f)
  /\ op' = [op EXCEPT !.s = "cfm", !.c = c]
  /\ UNCHANGED <<tab, cur, q, up, started, cac, csa, again, stuck, beat, dfs, nop>>

StartAp ==
  /\ Waits("start_ap", "cfm") /\ ~stuck
  /\ \E stray \in Strays :
       LET moved == LinkMoves(tab, op.v, op.c, op.f, stray) IN
       /\ tab' = Link(tab, op.v, op.c, op.f, stray)
       /\ q' = NewQ(op.v, op.c, moved)
  /\ started' = started \cup {op.v}
  /\ op' = IF cur = op.c THEN [op EXCEPT !.s = "radar"] ELSE NoOp
  /\ UNCHANGED <<cur, up, cac, csa, again, stuck, beat, dfs, nop, fw>>

\* Its second critical section.
StartApRadar ==
  /\ Waits("start_ap", "radar") /\ ~stuck
  /\ tab' = EnableOn(tab, cur)
  /\ op' = NoOp
  /\ UNCHANGED <<cur, q, up, started, cac, csa, again, stuck, beat, dfs, nop, fw>>

\* siwifi_cfg80211_stop_ap, siwifi_close and siwifi_restart_driver begin with
\* siwifi_radar_cancel_cac.  cfg80211 stops an AP before it closes it.
Begin(k, v) ==
  /\ op.k = "none"
  /\ CASE k = "stop_ap" -> again = {} /\ v \in started \cap Ap
       [] k = "close" -> again = {} /\ v \in up /\ v \notin started
       [] k = "restart" -> again = {}
  /\ Ask(k, v, None, "cancel")
  /\ UNCHANGED <<tab, cur, q, up, started, cac, csa, again, stuck, beat, dfs, nop, fw>>

\* siwifi_radar_cancel_cac: there is nothing to cancel, or another cancel is at
\* it, asleep; its interface is then taken from it.
CancelSkips ==
  /\ cac.vif = None \/ cac.work = "idle"
  /\ cac' = [cac EXCEPT !.vif = None]
  /\ UNCHANGED fw

\* The work had not run: the firmware is asked to stop, without the lock.
CancelStops ==
  /\ cac.vif # None /\ cac.work = "pending"
  /\ cac' = [cac EXCEPT !.work = "idle"]
  /\ FwLeave(cac.vif)

\* It is awake again, with the lock.
CancelUnlinks ==
  /\ cac.vif # None
  /\ tab' = Unlink(tab, cac.vif)
  /\ cac' = [cac EXCEPT !.vif = None]

CancelNothing ==
  /\ op.s = "cancel" /\ ~stuck
  /\ CancelSkips
  /\ op' = [op EXCEPT !.s = "ask"]
  /\ UNCHANGED <<tab, cur, q, up, started, csa, again, stuck, beat, dfs, nop>>

CancelPending ==
  /\ op.s = "cancel" /\ ~stuck
  /\ CancelStops
  /\ op' = [op EXCEPT !.s = "cancelling"]
  /\ UNCHANGED <<tab, cur, q, up, started, csa, again, stuck, beat, dfs, nop>>

CancelEnds ==
  /\ op.s = "cancelling" /\ ~stuck
  /\ CancelUnlinks
  /\ op' = [op EXCEPT !.s = "ask"]
  /\ UNCHANGED <<cur, q, up, started, csa, again, stuck, beat, dfs, nop, fw>>

\* The work runs: a cancel waits for it under cb_lock, and it for the lock.  Or
\* who slept wakes up to an interface that another one cleared: it unlinks
\* NULL, under the lock.
CancelSticks ==
  /\ ~stuck
  /\ \/ /\ op.s = "cancel" \/ (dfs.s = "seen" /\ tab.chan[cur] # None)
        /\ cac.vif # None /\ cac.work = "sent"
     \/ /\ op.s = "cancelling" \/ dfs.s = "cancelling" \/ cac.work = "sent"
        /\ cac.vif = None
  /\ stuck' = TRUE
  /\ UNCHANGED <<tab, cur, q, up, started, cac, csa, op, again, beat, dfs, nop, fw>>

\* siwifi_del_csa does not wait for a work that was scheduled.
DelCsa(e) == IF e.s \in {"sched", "freed"} THEN [e EXCEPT !.s = "freed"] ELSE NoCsa

\* The request goes to the firmware, which stops the AP.
FwStops ==
  /\ Waits("stop_ap", "ask")
  /\ FwLeave(op.v)
  /\ op' = [op EXCEPT !.s = "cfm"]
  /\ UNCHANGED <<tab, cur, q, up, started, cac, csa, again, stuck, beat, dfs, nop>>

StopAp ==
  /\ Waits("stop_ap", "cfm") /\ ~stuck
  /\ tab' = Unlink(tab, op.v)
  /\ op' = [op EXCEPT !.s = "left"]
  /\ UNCHANGED <<cur, q, up, started, cac, csa, again, stuck, beat, dfs, nop, fw>>

\* The requests that remove its stations have been through.
StopApEnds ==
  /\ Waits("stop_ap", "left")
  /\ q' = [q EXCEPT ![op.v] = "none"]
  /\ csa' = [csa EXCEPT ![op.v] = DelCsa(@)]
  /\ started' = started \ {op.v}
  /\ op' = NoOp
  /\ UNCHANGED <<tab, cur, up, cac, again, stuck, beat, dfs, nop, fw>>

\* The firmware ends a connection before it confirms the removal.
Close ==
  /\ Waits("close", "ask") /\ ~stuck
  /\ fw.ch[op.v] = None \/ op.v \in Mon
  /\ up' = up \ {op.v}
  /\ FwLeave(op.v)
  /\ op' = NoOp
  /\ UNCHANGED <<tab, cur, q, started, cac, csa, again, stuck, beat, dfs, nop>>

\* siwifi_cfg80211_start_radar_detection: the work is scheduled first.
CacAsk(v, f) ==
  /\ Idle /\ v \in up \ started
  /\ cac.vif = None \/ CacRefused
  /\ cac.work # "sent" /\ f \notin nop
  /\ cac' = [vif |-> v, work |-> "pending"]
  /\ Ask("start_cac", v, f, "ask")
  /\ UNCHANGED <<tab, cur, q, up, started, csa, again, stuck, beat, dfs, nop, fw>>

CacLinks ==
  /\ Waits("start_cac", "cfm") /\ ~stuck
  /\ \E stray \in Strays :
       LET moved == LinkMoves(tab, op.v, op.c, op.f, stray)
           t == Link(tab, op.v, op.c, op.f, stray)
       IN  /\ tab' = IF cur = t.ch[op.v] THEN [t EXCEPT !.detect = TRUE] ELSE t
           /\ q' = SetQ(moved, "go")
  /\ op' = NoOp
  /\ UNCHANGED <<cur, up, started, cac, csa, again, stuck, beat, dfs, nop, fw>>

\* The firmware refuses.  A restart does not look at the answer: for user space
\* the AP stays started.
FwRefuses ==
  /\ op.s = "ask"
  /\ op.k = "start_ap" \/ (op.k = "start_cac" /\ CacRefused)
  /\ op' = NoOp
  /\ UNCHANGED <<tab, cur, q, up, started, cac, csa, again, stuck, beat, dfs, nop, fw>>

\* siwifi_cfg80211_channel_switch: the beacon that announces it is sent.
ChannelSwitch(v, f) ==
  /\ Idle /\ v \in started \cap Ap
  /\ csa[v].s = "none" /\ fw.ch[v] # None /\ f \notin nop
  /\ Cardinality({w \in Ap : csa[w].s # "none"}) < MaxCsa
  /\ csa' = [csa EXCEPT ![v] = [s |-> "beacon", f |-> f, c |-> None]]
  /\ UNCHANGED <<tab, cur, q, up, started, cac, op, again, stuck, beat, dfs, nop, fw>>

\* siwifi_cfg80211_set_monitor_channel, which cfg80211 calls when only monitors
\* run, up to its request.
MonitorAsk(m, f) ==
  /\ Idle /\ m \in up /\ up \subseteq Mon
  /\ tab.ch[m] # None => tab.chan[tab.ch[m]] # f
  /\ Ask("monitor", m, f, "ask")
  /\ UNCHANGED <<tab, cur, q, up, started, cac, csa, again, stuck, beat, dfs, nop, fw>>

\* The firmware answers with no context, SIWIFI_CH_NOT_SET.
FwSetsNone ==
  /\ Waits("monitor", "ask")
  /\ FwLeave(op.v)
  /\ op' = [op EXCEPT !.s = "cfm"]
  /\ UNCHANGED <<tab, cur, q, up, started, cac, csa, again, stuck, beat, dfs, nop>>

\* A context that is linked keeps its index, whatever the firmware answered.
Retune(t, m, c, f, stray) ==
  IF t.ch[m] # None THEN [t EXCEPT !.chan = [@ EXCEPT ![t.ch[m]] = f]]
  ELSE Link(t, m, c, f, stray)

MonitorSet ==
  /\ Waits("monitor", "cfm")
  /\ IF op.c = None
       THEN tab' = Unlink(tab, op.v) /\ UNCHANGED q
       ELSE \E stray \in Strays :
              /\ tab' = Retune(tab, op.v, op.c, op.f, stray)
              /\ q' = IF tab.ch[op.v] # None THEN q
                      ELSE SetQ(LinkMoves(tab, op.v, op.c, op.f, stray), "go")
  /\ op' = NoOp
  /\ UNCHANGED <<cur, up, started, cac, csa, again, stuck, beat, dfs, nop, fw>>

\* siwifi_cfg80211_get_channel asks the firmware where the monitor is, asleep
\* under cb_lock.  A context without a channel is given one of the 2.4 GHz band;
\* beside other interfaces (vif_started > 1) the monitor is linked once more.
MonitorGet(m, c, f) ==
  /\ Idle /\ ~stuck /\ m \in up
  /\ FwUsers(c) # {} /\ Fits(m, c, fw.freq[c]) /\ CanLink(c)
  /\ IF tab.chan[c] = None THEN f \notin Radar ELSE f = tab.chan[c]
  /\ FwLink(m, c, fw.freq[c])
  /\ LET t == [tab EXCEPT !.chan = [@ EXCEPT ![c] = f]] IN
     \E stray \in Strays :
       IF up = {m} /\ tab.ch[m] # None
         THEN tab' = Retune(t, m, c, f, stray) /\ UNCHANGED q
         ELSE /\ tab' = Link(t, m, c, f, stray)
              /\ q' = SetQ(LinkMoves(t, m, c, f, stray), "go")
  /\ UNCHANGED <<cur, up, started, cac, csa, op, again, stuck, beat, dfs, nop>>

\* The answer is no context.
MonitorLost(m) ==
  /\ Idle /\ ~stuck /\ m \in up
  /\ FwLeave(m)
  /\ tab' = Unlink(tab, m)
  /\ UNCHANGED <<cur, q, up, started, cac, csa, op, again, stuck, beat, dfs, nop>>

\* siwifi_open and siwifi_start_driver give the firmware the channel of a monitor
\* that is linked, and do not look at the context it answers.
FwResumes(m, c) ==
  /\ op.k = "none" /\ m \in up
  /\ tab.ch[m] # None /\ fw.ch[m] = None
  /\ Fits(m, c, tab.chan[tab.ch[m]])
  /\ FwLink(m, c, tab.chan[tab.ch[m]])
  /\ UNCHANGED <<tab, cur, q, up, started, cac, csa, op, again, stuck, beat, dfs, nop>>

\* siwifi_cfg80211_del_iface of a monitor that is closed.
RemoveMonitor(m) ==
  /\ Idle /\ ~stuck /\ m \notin up /\ tab.ch[m] # None
  /\ tab' = Unlink(tab, m)
  /\ UNCHANGED <<cur, q, up, started, cac, csa, op, again, stuck, beat, dfs, nop, fw>>

\* siwifi_restart_driver: everything is unlinked but the monitors, and the
\* station if it never connected; the firmware starts from nothing.
\* cur_chanctx stays.
Restart ==
  /\ Waits("restart", "ask") /\ ~stuck
  /\ LET gone == Ap \cup (started \cap {Sta}) IN
     /\ tab' = UnlinkAll(tab, gone)
     /\ q' = [v \in Vif |-> IF v \in gone THEN "none" ELSE q[v]]
  /\ csa' = [v \in Ap |-> DelCsa(csa[v])]
  /\ fw' = NoFw
  /\ again' = started \cap Ap
  /\ op' = NoOp
  /\ UNCHANGED <<cur, up, started, cac, stuck, beat, dfs, nop>>

----------------------------------------------------------------------------
(* Works.                                                                   *)

\* siwifi_radar_cac_work up to its request, and after it.
CacFires ==
  /\ ~stuck
  /\ cac.work = "pending" /\ ~(op.k = "start_cac")
  /\ IF cac.vif = None
       THEN cac' = NoCac /\ UNCHANGED fw
       ELSE cac' = [cac EXCEPT !.work = "sent"] /\ FwLeave(cac.vif)
  /\ UNCHANGED <<tab, cur, q, up, started, csa, op, again, stuck, beat, dfs, nop>>

CacEnds ==
  /\ ~stuck
  /\ cac.work = "sent" /\ cac.vif # None
  /\ tab' = Unlink(tab, cac.vif)
  /\ cac' = NoCac
  /\ UNCHANGED <<cur, q, up, started, csa, op, again, stuck, beat, dfs, nop, fw>>

\* siwifi_radar_process_pulse finds a radar in the pulses, and that detection is
\* on, where a channel may need it.  In debug mode, or with a station in WDS
\* mode, it prints and is done.
RadarSeen ==
  /\ ~stuck
  /\ Radar # {} /\ dfs.s = "idle" /\ tab.detect
  /\ dfs' = [dfs EXCEPT !.s = "seen"]
  /\ UNCHANGED <<tab, cur, q, up, started, cac, csa, op, again, stuck, beat, nop, fw>>

\* siwifi_radar_detected, for the channel that is current by now: it cancels the
\* availability check, as requests do, and reports; cfg80211 tells user space,
\* which has to leave the channel.
\* Mutant: detection ends, but nobody is told.
TellNobody(f) == nop' = nop

Tell(f) == nop' = nop \cup (Radar \cap {f})

RadarReports ==
  /\ ~stuck
  /\ dfs.s = "seen"
  /\ IF tab.chan[cur] = None THEN UNCHANGED <<cac, nop, fw>>
     ELSE CancelSkips /\ Tell(tab.chan[cur])
  /\ dfs' = [s |-> "off", f |-> tab.chan[cur]]
  /\ UNCHANGED <<tab, cur, q, up, started, csa, op, again, stuck, beat>>

RadarCancels ==
  /\ ~stuck
  /\ dfs.s = "seen" /\ tab.chan[cur] # None
  /\ CancelStops
  /\ dfs' = [s |-> "cancelling", f |-> tab.chan[cur]]
  /\ UNCHANGED <<tab, cur, q, up, started, csa, op, again, stuck, beat, nop>>

RadarCancelEnds ==
  /\ ~stuck
  /\ dfs.s = "cancelling"
  /\ CancelUnlinks
  /\ Tell(dfs.f)
  /\ dfs' = [dfs EXCEPT !.s = "off"]
  /\ UNCHANGED <<cur, q, up, started, csa, op, again, stuck, beat, fw>>

\* Detection is turned off, for whatever channel is current, without cb_lock.
RadarOff ==
  /\ dfs.s = "off"
  /\ QuickOff => tab.chan[cur] \notin Radar \/ tab.chan[cur] = dfs.f
  /\ tab' = [tab EXCEPT !.detect = FALSE]
  /\ dfs' = NoDfs
  /\ UNCHANGED <<cur, q, up, started, cac, csa, op, again, stuck, beat, nop, fw>>

\* The 30 minutes end: the work is through and user space has left the channel.
RadarGone(f) ==
  /\ f \in nop
  /\ dfs = NoDfs /\ Idle
  /\ \A v \in started \cap Ap : tab.ch[v] # None => tab.chan[tab.ch[v]] # f
  /\ nop' = nop \ {f}
  /\ UNCHANGED <<tab, cur, q, up, started, cac, csa, op, again, stuck, beat, dfs, fw>>

\* siwifi_rx_csa_finish_ind for an AP.
ApCsaFinish(v, c) ==
  /\ ~stuck
  /\ csa[v].s = "beacon" /\ v \in up /\ fw.ch[v] # None
  /\ Fits(v, c, csa[v].f) /\ CanLink(c)
  /\ FwLink(v, c, csa[v].f)
  /\ csa' = [csa EXCEPT ![v] = [@ EXCEPT !.s = "sched", !.c = c]]
  /\ UNCHANGED <<tab, cur, q, up, started, cac, op, again, stuck, beat, dfs, nop>>

\* siwifi_csa_finish, also when its element was freed meanwhile: it reads what
\* the memory still holds.  With a bad status, or a beacon that is refused, it
\* asks cfg80211 to stop the AP, which is a request of its own.
CsaFinish(v) ==
  /\ ~stuck
  /\ csa[v].s \in {"sched", "freed"} /\ CanLink(csa[v].c)
  /\ \/ Move(v, csa[v].c, csa[v].f) /\ csa' = [csa EXCEPT ![v] = NoCsa]
     \/ /\ csa' = [csa EXCEPT ![v] = IF v \in started THEN [NoCsa EXCEPT !.s = "failed"]
                                     ELSE NoCsa]
        /\ UNCHANGED <<tab, q>>
  /\ UNCHANGED <<cur, up, started, cac, op, again, stuck, beat, dfs, nop, fw>>

\* siwifi_channel_recovery_check asks the firmware where the station is ...
BeatAsk ==
  /\ Sta \in up /\ beat = None /\ fw.ch[Sta] # None
  /\ beat' = [c |-> fw.ch[Sta], f |-> fw.freq[fw.ch[Sta]]]
  /\ UNCHANGED <<tab, cur, q, up, started, cac, csa, op, again, stuck, dfs, nop, fw>>

\* ... and corrects the link, and those of the APs whose beacon says otherwise.
BeatApply ==
  /\ ~stuck
  /\ beat # None /\ CanLink(beat.c)
  /\ \E stray \in Strays, wrong \in SUBSET (started \cap Ap) :
       LET here == tab.ch[Sta] = beat.c /\ tab.chan[beat.c] = beat.f
           t == Unlink(tab, Sta)
           moved == IF here THEN {} ELSE LinkMoves(t, Sta, beat.c, beat.f, stray)
           l == IF here THEN tab ELSE Link(t, Sta, beat.c, beat.f, stray)
       IN  IF tab.ch[Sta] = None THEN UNCHANGED <<tab, q>>
           ELSE /\ tab' = Gather(l, wrong)
                /\ q' = SetQ(moved \cup wrong, "go")
  /\ beat' = None
  /\ UNCHANGED <<cur, up, started, cac, csa, op, again, stuck, dfs, nop, fw>>

----------------------------------------------------------------------------
Next ==
  \/ PreSwitch
  \/ \E c \in Ctx : Switch(c) \/ FwStarts(c)
  \/ \E c \in Ctx, f \in Freq : Connect(c, f) \/ StaCsaFinish(c, f)
  \/ Disconnect
  \/ \E v \in Vif : Open(v) \/ Begin("close", v)
  \/ \E v \in Ap, f \in Freq : StartApAsk(v, f) \/ CacAsk(v, f) \/ ChannelSwitch(v, f)
  \/ StartAp \/ StartApRadar \/ CacLinks \/ FwRefuses
  \/ \E v \in Ap : Begin("stop_ap", v) \/ CsaFinish(v)
  \/ Begin("restart", None)
  \/ CancelNothing \/ CancelPending \/ CancelEnds \/ CancelSticks
  \/ FwStops \/ StopAp \/ StopApEnds \/ Close \/ Restart
  \/ \E m \in Mon, f \in Freq : MonitorAsk(m, f) \/ \E c \in Ctx : MonitorGet(m, c, f)
  \/ FwSetsNone \/ MonitorSet
  \/ \E m \in Mon : MonitorLost(m) \/ RemoveMonitor(m) \/ \E c \in Ctx : FwResumes(m, c)
  \/ CacFires \/ CacEnds
  \/ RadarSeen \/ RadarReports \/ RadarCancels \/ RadarCancelEnds \/ RadarOff
  \/ \E f \in Radar : RadarGone(f)
  \/ \E v \in Ap, c \in Ctx : ApCsaFinish(v, c)
  \/ BeatAsk \/ BeatApply

Spec == Init /\ [][Next]_vars

----------------------------------------------------------------------------
(* Properties.                                                              *)

On(t, c) == {v \in Vif : t.ch[v] = c}

\* The type of every variable.
TypeOK ==
  /\ tab \in [ch: [Vif -> Ctx \cup {None}], count: [Ctx -> Nat],
             chan: [Ctx -> Freq \cup {None}], detect: BOOLEAN]
  /\ cur \in Ctx
  /\ q \in [Vif -> {"none", "go", "stop"}]
  /\ up \subseteq Vif /\ started \subseteq Vif /\ again \subseteq Ap
  /\ cac \in [vif: Vif \cup {None}, work: {"idle", "pending", "sent"}]
  /\ csa \in [Ap -> [s: {"none", "beacon", "sched", "freed", "failed"},
                    f: Freq \cup {None}, c: Ctx \cup {None}]]
  /\ op \in [k: {"none", "start_ap", "stop_ap", "close", "restart", "start_cac", "monitor"},
            s: {"none", "ask", "cfm", "radar", "cancel", "cancelling", "left"},
            v: Vif \cup {None}, f: Freq \cup {None}, c: Ctx \cup {None}]
  /\ stuck \in BOOLEAN
  /\ beat \in [c: Ctx, f: Freq] \cup {None}
  /\ dfs \in [s: {"idle", "seen", "cancelling", "off"}, f: Freq \cup {None}]
  /\ nop \subseteq Radar
  /\ fw \in [ch: [Vif -> Ctx \cup {None}], freq: [Ctx -> Freq \cup {None}],
            cur: Ctx \cup {None}, pre: BOOLEAN]

\* The count of a context covers the interfaces linked to it, so that the
\* assertion of siwifi_chanctx_unlink, Chan ctxt ref count is already 0, never
\* fires, and a linked interface's context has a channel: the code reads
\* chan_def.chan of it without a test (siwifi_frame.c:237, siwifi_main.c:1020).
\* A count may be too high: siwifi_chanctx_link forgets an older link.
CountCovers ==
  /\ \A c \in Ctx : tab.count[c] >= Cardinality(On(tab, c))
  /\ \A v \in Vif : tab.ch[v] # None => tab.chan[tab.ch[v]] # None

\* While the firmware stays on the current channel, no interface linked to it
\* has its queues stopped: whatever was processed between the answer to a
\* request and the wake-up of the caller, an announced switch included.
NotLeftStopped ==
  fw.cur = cur /\ ~fw.pre =>
    \A v \in up : tab.ch[v] = cur => q[v] # "stop"

\* An AP that the firmware has is linked, so that the announced switches stop and
\* start its queues.
StartedIsLinked ==
  op.v = None =>
    \A v \in started \cap Ap : fw.ch[v] # None => tab.ch[v] # None

\* While an AP is on a radar channel that is the current one, and no request is
\* on its way, a radar is noticed: detection is on, or a radar was found there
\* and user space was told to leave the channel.  A station brings its APs to a
\* channel without asking whether it needs detection.
RadarIsWatched ==
  op.v = None =>
    \A v \in started \cap Ap :
      tab.ch[v] = cur /\ tab.chan[cur] \in Radar /\ Sta \notin started
        => tab.detect \/ tab.chan[cur] \in nop
============================================================================
