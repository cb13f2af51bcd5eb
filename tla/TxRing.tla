------------------------------- MODULE TxRing -------------------------------
(***************************************************************************)
(* The ring of transmit descriptors of one hardware queue: the array       *)
(* tx_host_id of the frames the firmware holds, between the free-running   *)
(* 32-bit indices txdesc_used_idx and txdesc_free_idx, and the descriptors *)
(* themselves in shared memory.                                            *)
(*                                                                         *)
(* Pushing and confirming run under tx_lock.  siwifi_close drains the ring *)
(* without it, so its steps and those of the confirmation are apart.       *)
(***************************************************************************)
EXTENDS Integers, FiniteSets, Sequences

CONSTANTS
  Skb,      \* frames
  N,        \* nx_txdesc_cnt of the queue
  W,        \* 2^32: where the indices wrap
  Closes,   \* bound on the number of times the last interface is closed
  Racing,   \* may interrupts arrive while siwifi_close drains the ring?
  None      \* a NULL host id, a free descriptor

ASSUME RingAssumption ==
  /\ N \in Nat \ {0} /\ W \in Nat \ {0} /\ W > N /\ W % N = 0
  /\ Closes \in Nat /\ Racing \in BOOLEAN /\ None \notin Skb

VARIABLES
  free_idx,    \* txdesc_free_idx
  used_idx,    \* txdesc_used_idx
  host_id,     \* tx_host_id
  desc,        \* the frame of a descriptor that is IPC_TXDESC_READY, or None
  fetch_idx,   \* the firmware's own index
  state,       \* of a frame: free, ready, sent to the air, done (status set)
  credits,     \* hwq->credits
  status,      \* the TXCFM bit of the interrupt status register
  cfm,         \* ipc_host_tx_cfm_handler
  drain,       \* siwifi_ipc_tx_drain of siwifi_close
  closes       \* how often it ran

vars == <<free_idx, used_idx, host_id, desc, fetch_idx, state, credits, status,
          cfm, drain, closes>>

Idle == [at |-> "idle", idx |-> 0, id |-> None]

IsDone(id) == id # None /\ state[id] = "done"

Slot(idx) == idx % N
Succ(idx) == (idx + 1) % W

Init ==
  /\ free_idx = 0 /\ used_idx = 0 /\ fetch_idx = 0
  /\ host_id = [i \in 0 .. N - 1 |-> None]
  /\ desc = [i \in 0 .. N - 1 |-> None]
  /\ state = [f \in Skb |-> "free"]
  /\ credits = N
  /\ status = FALSE
  /\ cfm = Idle /\ drain = Idle
  /\ closes = 0

-----------------------------------------------------------------------------
(* The transmit path, under tx_lock: siwifi_tx_push.                       *)

RingFull == free_idx = (used_idx + N) % W

Push(f) ==
  /\ cfm.at = "idle" /\ drain.at = "idle"
  /\ credits > 0
  /\ state[f] = "free"
  /\ ~RingFull
  /\ desc' = [desc EXCEPT ![Slot(free_idx)] = f]
  /\ host_id' = [host_id EXCEPT ![Slot(free_idx)] = f]
  /\ free_idx' = Succ(free_idx)
  /\ state' = [state EXCEPT ![f] = "ready"]
  /\ credits' = credits - 1
  /\ UNCHANGED <<used_idx, fetch_idx, status, cfm, drain, closes>>

-----------------------------------------------------------------------------
(* The tasklet, under tx_lock: IPC_IRQ_E2A_TXCFM.                          *)

Irq ==
  /\ status /\ cfm.at = "idle"
  /\ Racing \/ drain.at = "idle"
  /\ status' = FALSE
  /\ cfm' = [cfm EXCEPT !.at = "loop"]
  /\ UNCHANGED <<free_idx, used_idx, host_id, desc, fetch_idx, state, credits,
                 drain, closes>>

CfmTake ==
  /\ cfm.at = "loop"
  /\ cfm' = [at |-> "taken", idx |-> used_idx, id |-> host_id[Slot(used_idx)]]
  /\ used_idx' = Succ(used_idx)
  /\ host_id' = [host_id EXCEPT ![Slot(used_idx)] = None]
  /\ UNCHANGED <<free_idx, desc, fetch_idx, state, credits, status, drain, closes>>

(* Mutant: a frame that is not done is not put back. *)
CfmForgets ==
  /\ cfm.at = "taken"
  /\ ~IsDone(cfm.id)
  /\ used_idx' = cfm.idx
  /\ cfm' = Idle
  /\ UNCHANGED <<free_idx, host_id, desc, fetch_idx, state, credits, status, drain,
                 closes>>

(* No frame, or one whose status is still 0: everything is put back.  What *)
(* is read in a frame that has been freed may be 0 or not.                 *)
CfmStop ==
  /\ cfm.at = "taken"
  /\ ~IsDone(cfm.id)
  /\ used_idx' = cfm.idx
  /\ host_id' = [host_id EXCEPT ![Slot(cfm.idx)] = cfm.id]
  /\ cfm' = Idle
  /\ UNCHANGED <<free_idx, desc, fetch_idx, state, credits, status, drain, closes>>

(* Mutant: one frame per interrupt. *)
CfmDoneOnce ==
  /\ cfm.at = "taken" /\ IsDone(cfm.id)
  /\ state' = [state EXCEPT ![cfm.id] = "free"]
  /\ credits' = credits + 1
  /\ cfm' = Idle
  /\ UNCHANGED <<free_idx, used_idx, host_id, desc, fetch_idx, status, drain, closes>>

CfmDone ==
  /\ cfm.at = "taken"
  /\ cfm.id # None
  /\ IsDone(cfm.id) \/ state[cfm.id] = "free"
  /\ state' = [state EXCEPT ![cfm.id] = "free"]
  /\ credits' = credits + 1
  /\ cfm' = [Idle EXCEPT !.at = "loop"]
  /\ UNCHANGED <<free_idx, used_idx, host_id, desc, fetch_idx, status, drain, closes>>

-----------------------------------------------------------------------------
(* The last interface is closed: siwifi_ipc_tx_drain, without tx_lock.     *)

DrainRead ==
  /\ \/ drain.at = "loop"
     \/ drain.at = "idle" /\ closes < Closes /\ (Racing \/ cfm.at = "idle")
  /\ closes' = IF drain.at = "idle" THEN closes + 1 ELSE closes
  /\ LET id == host_id[Slot(used_idx)]
     IN  drain' = IF id = None THEN Idle
                  ELSE [at |-> "flush", idx |-> used_idx, id |-> id]
  /\ UNCHANGED <<free_idx, used_idx, host_id, desc, fetch_idx, state, credits, status,
                 cfm>>

(* Mutant: the index is advanced, the host id stays. *)
DrainLeavesId ==
  /\ drain.at = "flush"
  /\ used_idx' = Succ(used_idx)
  /\ state' = [state EXCEPT ![drain.id] = "free"]
  /\ drain' = [Idle EXCEPT !.at = "loop"]
  /\ UNCHANGED <<free_idx, host_id, desc, fetch_idx, credits, status, cfm, closes>>

(* The frame is freed; no credit of the hwq comes back.                    *)
DrainFlush ==
  /\ drain.at = "flush"
  /\ host_id' = [host_id EXCEPT ![Slot(drain.idx)] = None]
  /\ used_idx' = Succ(used_idx)
  /\ state' = [state EXCEPT ![drain.id] = "free"]
  /\ drain' = [Idle EXCEPT !.at = "loop"]
  /\ UNCHANGED <<free_idx, desc, fetch_idx, credits, status, cfm, closes>>

(* The driver restarts: siwifi_ipc_deinit, siwifi_ipc_init, hwq_init.      *)
Restart ==
  /\ cfm.at = "idle" /\ drain.at = "idle"
  /\ free_idx' = 0 /\ used_idx' = 0 /\ fetch_idx' = 0
  /\ host_id' = [i \in 0 .. N - 1 |-> None]
  /\ desc' = [i \in 0 .. N - 1 |-> None]
  /\ state' = [f \in Skb |-> "free"]
  /\ credits' = N
  /\ status' = FALSE
  /\ UNCHANGED <<cfm, drain, closes>>

-----------------------------------------------------------------------------
(* The firmware fetches the descriptors in order and completes the frames  *)
(* in any order.                                                           *)

FwFetch ==
  /\ desc[Slot(fetch_idx)] # None
  /\ desc' = [desc EXCEPT ![Slot(fetch_idx)] = None]
  /\ state' = [f \in Skb |-> IF f = desc[Slot(fetch_idx)] /\ state[f] = "ready"
                             THEN "sent" ELSE state[f]]
  /\ fetch_idx' = Succ(fetch_idx)
  /\ UNCHANGED <<free_idx, used_idx, host_id, credits, status, cfm, drain, closes>>

FwDone(f) ==
  /\ state[f] = "sent"
  /\ state' = [state EXCEPT ![f] = "done"]
  /\ status' = TRUE
  /\ UNCHANGED <<free_idx, used_idx, host_id, desc, fetch_idx, credits, cfm, drain,
                 closes>>

-----------------------------------------------------------------------------
Confirm == CfmTake \/ CfmStop \/ CfmDone

Next ==
  \/ \E f \in Skb : Push(f)
  \/ Irq \/ Confirm
  \/ DrainRead \/ DrainFlush
  \/ Restart
  \/ FwFetch \/ \E f \in Skb : FwDone(f)

Spec == Init /\ [][Next]_vars

(* The tasklet runs when its interrupt is raised, and the firmware works.  *)
LiveSpec ==
  /\ Spec
  /\ WF_vars(Irq) /\ WF_vars(Confirm) /\ WF_vars(DrainRead \/ DrainFlush)
  /\ WF_vars(FwFetch) /\ \A f \in Skb : WF_vars(FwDone(f))

-----------------------------------------------------------------------------
(* How many frames are between the indices, modulo 2^32.                   *)
InUse == (free_idx - used_idx) % W

(* The frames the ring holds, oldest first: the one the confirmation has   *)
(* taken out is still held until it is found to be done.                   *)
Held ==
  LET out == IF cfm.at = "taken" /\ cfm.id # None THEN <<cfm.id>> ELSE <<>>
      n == IF cfm.at = "taken" /\ cfm.id = None THEN 0 ELSE InUse
  IN  out \o [i \in 1 .. n |-> host_id[Slot(used_idx + i - 1)]]

(* The state is well typed. *)
TypeOK ==
  /\ {free_idx, used_idx, fetch_idx} \subseteq 0 .. W - 1
  /\ host_id \in [0 .. N - 1 -> Skb \cup {None}]
  /\ desc \in [0 .. N - 1 -> Skb \cup {None}]
  /\ state \in [Skb -> {"free", "ready", "sent", "done"}]
  /\ credits \in Int /\ status \in BOOLEAN
  /\ cfm \in [at : {"idle", "loop", "taken"}, idx : 0 .. W - 1, id : Skb \cup {None}]
  /\ drain \in [at : {"idle", "loop", "flush"}, idx : 0 .. W - 1, id : Skb \cup {None}]
  /\ closes \in 0 .. Closes

(* ipc_host.c:413 asserts it whenever a frame is pushed: the indices are   *)
(* never further apart than the ring, whatever the wrap.                   *)
IndexWindow == cfm.at = "idle" => InUse <= N

(* A credit of the hwq always stands for a free descriptor: the BUG_ON of  *)
(* siwifi_utils.c:567 never fires and the descriptor is not in use.        *)
CreditIsDescriptor ==
  cfm.at = "idle" /\ drain.at = "idle" /\ credits > 0 =>
    InUse < N /\ host_id[Slot(free_idx)] = None

(* The ring and nothing else holds the frames that are not free, each      *)
(* once: none is leaked, none is freed under the firmware's hands.         *)
HeldOnce ==
  /\ \A i, j \in 1 .. Len(Held) : Held[i] = Held[j] => i = j
  /\ {Held[i] : i \in 1 .. Len(Held)} = {f \in Skb : state[f] # "free"}

(* The ring keeps its shape through pushes, confirmations, drains and the  *)
(* wrap of its indices: well typed, a window of at most N frames, each     *)
(* there once, and a descriptor for every credit that is out.              *)
RingIsSound == TypeOK /\ CreditIsDescriptor /\ IndexWindow /\ HeldOnce

(* The ring is the FIFO. *)
Fifo == INSTANCE TxFifo WITH queue <- Held
ImplementsFifo == Fifo!Spec

(* A frame the firmware is done with is confirmed, once those before it    *)
(* are: no completion interrupt is lost.                                   *)
DoneIsConfirmed == \A f \in Skb : state[f] = "done" ~> state[f] = "free"
=============================================================================
