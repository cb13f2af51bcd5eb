------------------------------- MODULE CmdMgr -------------------------------
(***************************************************************************)
(* The UMAC command manager (umac/siwifi_cmds.c), the one-place A2E        *)
(* mailbox it feeds (umac/ipc_host.c) and the life of a siwifi_cmd from    *)
(* the send wrapper that allocates it (umac/siwifi_msg_tx.c) to the kfree  *)
(* that ends it.  An element of Cmd is one call of siwifi_send_msg or      *)
(* siwifi_send_msg_with_flag together with the siwifi_cmd it allocates, so *)
(* an element is used once and its memory is never recycled.               *)
(*                                                                         *)
(* A critical section under cmd_mgr->lock is one action; whatever the code *)
(* does between two of them is a place where another actor can step in.    *)
(* The list cmd_mgr->cmds is the set cmds ordered by tkn: list_add_tail    *)
(* always goes together with next_tkn++, so list order is token order.     *)
(***************************************************************************)
EXTENDS Integers, FiniteSets

CONSTANTS
  UserCmd,      \* calls of siwifi_send_msg by ordinary callers
  RfCmd,        \* calls of siwifi_send_rf_ctrl by the RF calibration thread
  SetupCmd,     \* calls of siwifi_send_msg by the restart work, one a restart
  None,         \* the NULL hostid
  ReqId,        \* confirmation identifiers of ordinary requests
  MaxQueueSz,   \* SIWIFI_CMD_MAX_QUEUED
  UserKinds,    \* the kinds of request ordinary callers send
  Killable,     \* a blocked ordinary caller may receive a fatal signal
  FwMayStall    \* the firmware may miss the deadline of a command

Cmd == UserCmd \cup RfCmd \cup SetupCmd

Flag == {"NONBLOCK", "REQ_CFM", "WAIT_PUSH", "WAIT_ACK", "WAIT_CFM", "DONE",
         "FORCE_PUSH", "ASK_PAUSE", "ASK_RESUME"}

Result == {"EINTR", "OK", "ETIMEDOUT", "EPIPE", "EPERM", "ENOMEM", "EBUSY"}

\* The requests the driver builds: blocking or not (is_non_blocking_msg), with
\* or without a confirmation.
KindFlags == [plain    |-> {},
              cfm      |-> {"REQ_CFM"},
              async    |-> {"NONBLOCK"},
              asyncCfm |-> {"NONBLOCK", "REQ_CFM"}]

ASSUME CmdAssumption ==
  /\ None \notin Cmd
  /\ UserCmd \cap RfCmd = {}
  /\ UserCmd \cap SetupCmd = {}
  /\ RfCmd \cap SetupCmd = {}
ASSUME ParamAssumption ==
  /\ MaxQueueSz \in Nat \ {0}
  /\ UserKinds \subseteq DOMAIN KindFlags
  /\ Killable \in BOOLEAN
  /\ FwMayStall \in BOOLEAN
\* Only siwifi_send_rf_ctrl waits for MM_RF_CTRL_CFM.
ASSUME IdAssumption == "MM_RF_CTRL_CFM" \notin ReqId

VARIABLES
  \* struct siwifi_cmd_mgr
  state,        \* enum siwifi_cmd_mgr_state
  cmds,         \* the commands on cmd_mgr->cmds
  queue_sz,
  next_tkn,
  \* struct siwifi_cmd
  flags, tkn, reqid, result,
  complete,     \* the completion has been signalled
  a2e_msg,      \* the request buffer is still attached to the command
  mem,          \* "none" before the kzalloc, "live", "freed" after the kfree
  \* the calls of the send wrappers
  pc, ret,
  blocking,     \* the wrapper's local !nonblock
  \* the mailbox and the firmware behind it
  hostid,       \* env->msga2e_hostid
  fw,           \* acknowledged requests the firmware has yet to confirm
  \* the contexts around the manager
  rst, setup,   \* siwifi_restart_driver, and its first request
  rf, rfcmd,    \* the RF calibration thread; "stopped" is SIWIFI_DEV_CALIBRATING
  oops          \* a list_del followed a poisoned list pointer

mgrVars  == <<state, cmds, queue_sz, next_tkn>>
cmdVars  == <<flags, tkn, reqid, result, complete, a2e_msg, mem>>
callVars == <<pc, ret, blocking>>
fwVars   == <<hostid, fw>>
ctxVars  == <<rst, setup, rf, rfcmd>>
vars == <<mgrVars, cmdVars, callVars, fwVars, ctxVars, oops>>

Pc == {"idle", "queue", "wait", "timedout", "killed", "return", "done"}
RstPhase == {"run", "triggered", "irqoff", "deinit", "drained", "init", "dead"}

TypeOK ==
  /\ state \in {"DEINIT", "INITED", "PAUSED", "CRASHED"}
  /\ cmds \subseteq Cmd
  /\ queue_sz \in Int
  /\ next_tkn \in Nat
  /\ flags \in [Cmd -> SUBSET Flag]
  /\ tkn \in [Cmd -> Nat]
  /\ reqid \in [Cmd -> ReqId \cup {"NONE", "MM_RF_CTRL_CFM", "MM_RESET_CFM"}]
  /\ result \in [Cmd -> Result]
  /\ complete \in [Cmd -> BOOLEAN]
  /\ a2e_msg \in [Cmd -> BOOLEAN]
  /\ mem \in [Cmd -> {"none", "live", "freed"}]
  /\ pc \in [Cmd -> Pc]
  /\ ret \in [Cmd -> Result]
  /\ blocking \in [Cmd -> BOOLEAN]
  /\ hostid \in Cmd \cup {None}
  /\ fw \subseteq Cmd
  /\ rst \in RstPhase
  /\ setup \in Cmd \cup {None}
  /\ rf \in {"idle", "stopping", "stopped", "starting"}
  /\ rfcmd \in Cmd \cup {None}
  /\ oops \in BOOLEAN

Init ==
  /\ state = "INITED"
  /\ cmds = {}
  /\ queue_sz = 0
  /\ next_tkn = 0
  /\ flags = [c \in Cmd |-> {}]
  /\ tkn = [c \in Cmd |-> 0]
  /\ reqid = [c \in Cmd |-> "NONE"]
  /\ result = [c \in Cmd |-> "EINTR"]
  /\ complete = [c \in Cmd |-> FALSE]
  /\ a2e_msg = [c \in Cmd |-> FALSE]
  /\ mem = [c \in Cmd |-> "none"]
  /\ pc = [c \in Cmd |-> "idle"]
  /\ ret = [c \in Cmd |-> "EINTR"]
  /\ blocking = [c \in Cmd |-> FALSE]
  /\ hostid = None
  /\ fw = {}
  /\ rst = "run"
  /\ setup = None
  /\ rf = "idle"
  /\ rfcmd = None
  /\ oops = FALSE

-----------------------------------------------------------------------------
(* Reading the list *)

Has(c, f) == f \in flags[c]

\* Mutant: list_add where list_add_tail belongs.
LastListed(c, S) == c \in S /\ \A d \in S : tkn[c] >= tkn[d]

\* The entry of S that comes first on the list.
IsFirst(c, S) == c \in S /\ \A d \in S : tkn[c] <= tkn[d]

Deferred == {c \in cmds : Has(c, "WAIT_PUSH")}

\* Mutant: the acknowledgement alone completes a command.
CompleteOnAck(f) == "WAIT_ACK" \notin f

\* SIWIFI_CMD_WAIT_COMPLETE
WaitComplete(f) == f \cap {"WAIT_ACK", "WAIT_CFM"} = {}

\* Mutant: force pushed entries are not skipped.
LastEntry(c) == c \in cmds /\ \A d \in cmds : tkn[d] <= tkn[c]

\* The entry a newcomer is queued behind: the last one that was not force
\* pushed, or that is and still waits for its acknowledgement.
QueuedBehind(c) ==
  LET seen == {d \in cmds : ~Has(d, "FORCE_PUSH") \/ Has(d, "WAIT_ACK")}
  IN  c \in seen /\ \A d \in seen : tkn[d] <= tkn[c]

\* Mutants: only a deferred predecessor defers; one waiting for its confirmation
\* defers too.
DeferBehindDeferred == \E c \in cmds : QueuedBehind(c) /\ Has(c, "WAIT_PUSH")
DeferBehindUnconfirmed == \E c \in cmds : QueuedBehind(c) /\ ~WaitComplete(flags[c])

MustDefer ==
  \E c \in cmds : QueuedBehind(c) /\ (Has(c, "WAIT_ACK") \/ Has(c, "WAIT_PUSH"))

-----------------------------------------------------------------------------
(* siwifi_send_msg up to the call of cmd_mgr.queue: the drv_flags tests and *)
(* the allocation.                                                          *)

irq == rst \in {"run", "triggered", "init", "dead"}

Alloc(c, f, r, block) ==
  /\ ~oops
  /\ pc[c] = "idle"
  /\ flags' = [flags EXCEPT ![c] = f]
  /\ reqid' = [reqid EXCEPT ![c] = r]
  /\ a2e_msg' = [a2e_msg EXCEPT ![c] = TRUE]
  /\ mem' = [mem EXCEPT ![c] = "live"]
  /\ blocking' = [blocking EXCEPT ![c] = block]
  /\ pc' = [pc EXCEPT ![c] = "queue"]
  /\ UNCHANGED <<mgrVars, tkn, result, complete, ret, fwVars, oops>>

Send(c) ==
  /\ rst = "run"
  /\ \E k \in UserKinds :
       \E r \in IF "REQ_CFM" \in KindFlags[k] THEN ReqId ELSE {"NONE"} :
         Alloc(c, KindFlags[k], r, "NONBLOCK" \notin KindFlags[k])
  /\ UNCHANGED ctxVars

\* SIWIFI_DEV_STARTED is clear or SIWIFI_DEV_HW_DEAD is set: the request is
\* freed and the caller told -EBUSY.
Bypass(c) ==
  /\ ~oops
  /\ rst # "run"
  /\ pc[c] = "idle"
  /\ pc' = [pc EXCEPT ![c] = "done"]
  /\ ret' = [ret EXCEPT ![c] = "EBUSY"]
  /\ UNCHANGED <<mgrVars, cmdVars, blocking, fwVars, ctxVars, oops>>

-----------------------------------------------------------------------------
(* cmd_mgr_queue *)

Refuse(c, res, r) ==
  /\ result' = [result EXCEPT ![c] = res]
  /\ ret' = [ret EXCEPT ![c] = r]
  /\ pc' = [pc EXCEPT ![c] = "return"]
  /\ UNCHANGED <<mgrVars, flags, tkn, reqid, complete, a2e_msg, mem, blocking,
                 fwVars, ctxVars, oops>>

\* Mutant: the hostid is the token.
PushToken(c) ==
  /\ hostid' = tkn[c]
  /\ a2e_msg' = [a2e_msg EXCEPT ![c] = FALSE]

\* siwifi_ipc_msg_push: the mailbox now belongs to c, whatever it held before,
\* and the request buffer has been copied out and freed.
Push(c) ==
  /\ hostid' = c
  /\ a2e_msg' = [a2e_msg EXCEPT ![c] = FALSE]

\* Whether c goes to the back of the queue instead of to the mailbox.
Defers(c) ==
  /\ ~Has(c, "FORCE_PUSH")
  /\ MustDefer \/ state = "PAUSED"

Accept(c) ==
  /\ flags' = [flags EXCEPT ![c] =
                 @ \cup {"WAIT_ACK"}
                   \cup (IF "REQ_CFM" \in @ THEN {"WAIT_CFM"} ELSE {})
                   \cup (IF Defers(c) THEN {"WAIT_PUSH"} ELSE {})]
  /\ tkn' = [tkn EXCEPT ![c] = next_tkn]
  /\ next_tkn' = next_tkn + 1
  /\ cmds' = cmds \cup {c}
  /\ queue_sz' = queue_sz + 1
  /\ IF Defers(c) THEN UNCHANGED <<hostid, a2e_msg>> ELSE Push(c)
  /\ IF blocking[c]
       THEN /\ result' = [result EXCEPT ![c] = "EINTR"]
            /\ pc' = [pc EXCEPT ![c] = "wait"]
            /\ UNCHANGED ret
       ELSE /\ result' = [result EXCEPT ![c] = "OK"]
            /\ pc' = [pc EXCEPT ![c] = "return"]
            /\ ret' = [ret EXCEPT ![c] = "OK"]
  /\ UNCHANGED <<state, reqid, complete, mem, blocking, fw, ctxVars, oops>>

\* Mutant: the queue is closed one command too late.
QueueOneTooMany(c) ==
  /\ ~oops
  /\ pc[c] = "queue"
  /\ CASE state = "DEINIT"  -> Refuse(c, "EPERM", "EPIPE")
       [] state = "CRASHED" -> Refuse(c, "EPIPE", "EPIPE")
       [] state \in {"INITED", "PAUSED"} /\ queue_sz > MaxQueueSz
                            -> Refuse(c, "ENOMEM", "ENOMEM")
       [] OTHER             -> Accept(c)

Queue(c) ==
  /\ ~oops
  /\ pc[c] = "queue"
  /\ CASE state = "DEINIT"  -> Refuse(c, "EPERM", "EPIPE")
       [] state = "CRASHED" -> Refuse(c, "EPIPE", "EPIPE")
       [] state \in {"INITED", "PAUSED"} /\ cmds # {} /\ queue_sz = MaxQueueSz
                            -> Refuse(c, "ENOMEM", "ENOMEM")
       [] OTHER             -> Accept(c)

\* list_del followed a poisoned pointer: the CPU faults inside the lock.
PoisonedListDel ==
  /\ oops' = TRUE
  /\ UNCHANGED <<mgrVars, cmdVars, callVars, fwVars, ctxVars>>

Wake(c) ==
  /\ ~oops
  /\ pc[c] = "wait"
  /\ complete[c]
  /\ pc' = [pc EXCEPT ![c] = "return"]
  /\ ret' = [ret EXCEPT ![c] = "OK"]
  /\ UNCHANGED <<mgrVars, cmdVars, blocking, fwVars, ctxVars, oops>>

\* Mutant: the timeout of a deferred command is only armed by its push.
TimeoutOncePushed(c) ==
  /\ ~oops
  /\ FwMayStall
  /\ pc[c] = "wait"
  /\ ~complete[c] /\ ~Has(c, "WAIT_PUSH")
  /\ pc' = [pc EXCEPT ![c] = "timedout"]
  /\ UNCHANGED <<mgrVars, cmdVars, ret, blocking, fwVars, ctxVars, oops>>

\* wait_for_completion_killable_timeout returns 0, or -ERESTARTSYS; the lock
\* is not held yet.
Timeout(c) ==
  /\ ~oops
  /\ FwMayStall
  /\ pc[c] = "wait"
  /\ ~complete[c]
  /\ pc' = [pc EXCEPT ![c] = "timedout"]
  /\ UNCHANGED <<mgrVars, cmdVars, ret, blocking, fwVars, ctxVars, oops>>

\* The RF thread and the restart work run in kernel workers, which no signal
\* reaches.
Kill(c) ==
  /\ ~oops
  /\ Killable
  /\ pc[c] = "wait"
  /\ ~complete[c]
  /\ pc' = [pc EXCEPT ![c] = "killed"]
  /\ UNCHANGED <<mgrVars, cmdVars, ret, blocking, fwVars, ctxVars, oops>>

TimeoutCrash(c) ==
  /\ ~oops
  /\ pc[c] = "timedout"
  /\ IF ~Has(c, "DONE") /\ c \notin cmds
       THEN PoisonedListDel
       ELSE /\ state' = "CRASHED"
            /\ pc' = [pc EXCEPT ![c] = "return"]
            /\ ret' = [ret EXCEPT ![c] = "ETIMEDOUT"]
            /\ IF Has(c, "DONE")
                 THEN UNCHANGED <<cmds, queue_sz, flags, result>>
                 ELSE /\ cmds' = cmds \ {c}
                      /\ queue_sz' = queue_sz - 1
                      /\ flags' = [flags EXCEPT ![c] = @ \cup {"DONE"}]
                      /\ result' = [result EXCEPT ![c] = "ETIMEDOUT"]
            /\ UNCHANGED <<next_tkn, tkn, reqid, complete, a2e_msg, mem,
                           blocking, fwVars, ctxVars, oops>>

\* A killed caller takes a command that was never pushed off the list, and
\* leaves one in flight behind as if it had been sent without waiting.
Abandon(c) ==
  /\ ~oops
  /\ pc[c] = "killed"
  /\ IF Has(c, "WAIT_PUSH") /\ ~Has(c, "DONE") /\ c \notin cmds
       THEN PoisonedListDel
       ELSE /\ pc' = [pc EXCEPT ![c] = "return"]
            /\ ret' = [ret EXCEPT ![c] = "OK"]
            /\ IF Has(c, "WAIT_PUSH") /\ ~Has(c, "DONE")
                 THEN /\ cmds' = cmds \ {c}
                      /\ queue_sz' = queue_sz - 1
                      /\ flags' = [flags EXCEPT ![c] = @ \ {"WAIT_PUSH"}]
                 ELSE /\ flags' = IF Has(c, "DONE") THEN flags
                                  ELSE [flags EXCEPT ![c] = @ \cup {"NONBLOCK"}]
                      /\ UNCHANGED <<cmds, queue_sz>>
            /\ UNCHANGED <<state, next_tkn, tkn, reqid, result, complete,
                           a2e_msg, mem, blocking, fwVars, ctxVars, oops>>

-----------------------------------------------------------------------------
(* The tail of the send wrappers: siwifi_send_msg_with_flag for the RF      *)
(* thread's commands, siwifi_send_msg for all others.                       *)

\* Mutants: the command is freed even while it is listed; the request is not.
ReleaseAnyway(c, command, request) ==
  /\ mem' = [mem EXCEPT ![c] = "freed"]
  /\ a2e_msg' = IF request THEN [a2e_msg EXCEPT ![c] = FALSE] ELSE a2e_msg
ReleaseCommandOnly(c, command, request) ==
  /\ mem' = IF command THEN [mem EXCEPT ![c] = "freed"] ELSE mem
  /\ UNCHANGED a2e_msg

\* kfree of the command, and of the request buffer still attached to it.
Release(c, command, request) ==
  /\ mem' = IF command THEN [mem EXCEPT ![c] = "freed"] ELSE mem
  /\ a2e_msg' = IF request THEN [a2e_msg EXCEPT ![c] = FALSE] ELSE a2e_msg

Returns(c, r) ==
  /\ ~oops
  /\ pc' = [pc EXCEPT ![c] = "done"]
  /\ ret' = [ret EXCEPT ![c] = r]
  /\ UNCHANGED <<mgrVars, flags, tkn, reqid, result, complete, blocking,
                 fwVars, ctxVars, oops>>

ReturnFlagged(c) ==
  /\ pc[c] = "return"
  /\ c \in RfCmd
  /\ Release(c, TRUE, FALSE)
  /\ Returns(c, result[c])

ReturnBlocking(c) ==
  /\ pc[c] = "return"
  /\ c \notin RfCmd
  /\ blocking[c]
  /\ mem[c] = "live"
  /\ LET r == IF ret[c] = "OK" THEN result[c] ELSE ret[c]
     IN  /\ Release(c, ~Has(c, "NONBLOCK"), r # "OK")
         /\ Returns(c, r)

\* The wrapper reads cmd->result and cmd->flags after the acknowledgement or
\* the confirmation freed the command: whatever the allocator left there.
ReturnFreed(c) ==
  /\ pc[c] = "return"
  /\ c \notin RfCmd
  /\ blocking[c]
  /\ mem[c] = "freed"
  /\ \E r \in Result : Returns(c, r)
  /\ UNCHANGED <<mem, a2e_msg>>

ReturnNonblock(c) ==
  /\ pc[c] = "return"
  /\ ~blocking[c]
  /\ Release(c, ret[c] # "OK", ret[c] # "OK")
  /\ Returns(c, ret[c])

-----------------------------------------------------------------------------
(* The interrupt side *)

\* Mutant: the completion frees a command somebody waits for.
CompleteCmdFrees(c) ==
  /\ cmds' = cmds \ {c}
  /\ queue_sz' = queue_sz - 1
  /\ result' = [result EXCEPT ![c] = "OK"]
  /\ complete' = [complete EXCEPT ![c] = TRUE]
  /\ mem' = [mem EXCEPT ![c] = "freed"]

\* cmd_complete: the command leaves the list; the waiter is told, or a command
\* nobody waits for is freed.
CompleteCmd(c) ==
  /\ cmds' = cmds \ {c}
  /\ queue_sz' = queue_sz - 1
  /\ IF Has(c, "NONBLOCK")
       THEN /\ mem' = [mem EXCEPT ![c] = "freed"]
            /\ UNCHANGED <<result, complete>>
       ELSE /\ result' = [result EXCEPT ![c] = "OK"]
            /\ complete' = [complete EXCEPT ![c] = TRUE]
            /\ UNCHANGED mem

\* A WAIT flag of c is gone: its flags, and whether that completes it.
Answered(c, f) == flags[c] \ {f}
FlagsAfter(c, f) ==
  [flags EXCEPT ![c] = Answered(c, f) \cup
                       (IF WaitComplete(Answered(c, f)) THEN {"DONE"} ELSE {})]
Completes(c, f) ==
  IF WaitComplete(Answered(c, f))
    THEN CompleteCmd(c)
    ELSE UNCHANGED <<cmds, queue_sz, mem, result, complete>>

\* What the acknowledgement of c asks the manager to become.
StateAfterAck(c) ==
  CASE c \in cmds /\ Has(c, "ASK_PAUSE")  -> "PAUSED"
    [] c \in cmds /\ Has(c, "ASK_RESUME") /\ ~Has(c, "ASK_PAUSE") -> "INITED"
    [] OTHER -> state

\* ipc_host_msgack_handler and cmd_mgr_llind: the firmware has taken the
\* request out of the mailbox.  The acknowledged command is looked up by token;
\* one that timed out is not found.  The first deferred command goes next.
Ack ==
  /\ ~oops
  /\ irq
  /\ hostid # None
  /\ LET c == hostid
         ahead == Deferred \ {c}
         next == {d \in ahead : IsFirst(d, ahead) /\ a2e_msg[d]}
         acked == IF c \in cmds THEN FlagsAfter(c, "WAIT_ACK") ELSE flags
     IN  /\ state' = StateAfterAck(c)
         /\ fw' = IF Has(c, "REQ_CFM") THEN fw \cup {c} ELSE fw
         /\ IF c \in cmds
              THEN Completes(c, "WAIT_ACK")
              ELSE UNCHANGED <<cmds, queue_sz, mem, result, complete>>
         /\ IF next # {} /\ state' # "PAUSED"
              THEN \E d \in next :
                     /\ flags' = [acked EXCEPT ![d] = @ \ {"WAIT_PUSH"}]
                     /\ Push(d)
              ELSE /\ flags' = acked
                   /\ hostid' = None
                   /\ UNCHANGED a2e_msg
  /\ UNCHANGED <<next_tkn, tkn, reqid, callVars, ctxVars, oops>>

\* cmd_mgr_msgind: a confirmation goes to the first command on the list that
\* waits for one of its identifier.
Confirm(x) ==
  /\ ~oops
  /\ irq
  /\ x \in fw
  /\ \A y \in fw : reqid[y] = reqid[x] => tkn[x] <= tkn[y]
  /\ fw' = fw \ {x}
  /\ LET waiting == {d \in cmds : reqid[d] = reqid[x] /\ Has(d, "WAIT_CFM")}
     IN  IF waiting = {}
           THEN UNCHANGED <<cmds, queue_sz, flags, mem, result, complete>>
           ELSE \E d \in waiting :
                  /\ IsFirst(d, waiting)
                  /\ flags' = FlagsAfter(d, "WAIT_CFM")
                  /\ Completes(d, "WAIT_CFM")
  /\ UNCHANGED <<state, next_tkn, tkn, reqid, a2e_msg, callVars, hostid,
                 ctxVars, oops>>

-----------------------------------------------------------------------------
(* siwifi_restart_driver, as far as the manager sees it.  SIWIFI_DEV_STARTED *)
(* is rst = "run", SIWIFI_DEV_STACK_RESTARTING is rst # "run".               *)

TriggerRestart ==
  /\ ~oops
  /\ rst = "run"
  /\ \E c \in SetupCmd : pc[c] = "idle"
  /\ rst' = "triggered"
  /\ UNCHANGED <<mgrVars, cmdVars, callVars, fwVars, setup, rf, rfcmd, oops>>

IrqsDeinit ==
  /\ ~oops
  /\ rst = "triggered"
  /\ rst' = "irqoff"
  /\ UNCHANGED <<mgrVars, cmdVars, callVars, fwVars, setup, rf, rfcmd, oops>>

MgrDeinit ==
  /\ ~oops
  /\ rst = "irqoff"
  /\ rst' = "deinit"
  /\ state' = "DEINIT"
  /\ UNCHANGED <<cmds, queue_sz, next_tkn, cmdVars, callVars, fwVars,
                 setup, rf, rfcmd, oops>>

\* cmd_mgr_drain, the memset that ends siwifi_cmd_mgr_deinit and the kfree of
\* ipc_env.  Neither WAIT flags nor DONE are touched.
Drain ==
  /\ ~oops
  /\ rst = "deinit"
  /\ rst' = "drained"
  /\ a2e_msg' = [c \in Cmd |-> a2e_msg[c] /\ c \notin cmds]
  /\ complete' = [c \in Cmd |-> complete[c] \/ (c \in cmds /\ ~Has(c, "NONBLOCK"))]
  /\ mem' = [c \in Cmd |-> IF c \in cmds /\ Has(c, "NONBLOCK") THEN "freed"
                           ELSE mem[c]]
  /\ state' = "DEINIT"
  /\ cmds' = {}
  /\ queue_sz' = 0
  /\ next_tkn' = 0
  /\ hostid' = None
  /\ fw' = {}
  /\ UNCHANGED <<flags, tkn, reqid, result, callVars, setup, rf,
                 rfcmd, oops>>

\* siwifi_ipc_init: siwifi_cmd_mgr_init on the zeroed manager.
MgrInit ==
  /\ ~oops
  /\ rst = "drained"
  /\ rst' = "init"
  /\ state' = "INITED"
  /\ cmds' = {}
  /\ setup' = None
  /\ UNCHANGED <<queue_sz, next_tkn, cmdVars, callVars, fwVars,
                 rf, rfcmd, oops>>

\* siwifi_send_reset, the first of the requests the restart work sends while
\* SIWIFI_DEV_STARTED is clear; the others follow it the same way.
SendSetup(c) ==
  /\ rst = "init"
  /\ setup = None
  /\ Alloc(c, {"REQ_CFM"}, "MM_RESET_CFM", TRUE)
  /\ setup' = c
  /\ UNCHANGED <<rst, rf, rfcmd>>

RestartDone ==
  /\ ~oops
  /\ rst = "init"
  /\ setup # None
  /\ pc[setup] = "done"
  /\ rst' = IF ret[setup] = "OK" THEN "run" ELSE "dead"
  /\ UNCHANGED <<mgrVars, cmdVars, callVars, fwVars, setup, rf,
                 rfcmd, oops>>

-----------------------------------------------------------------------------
(* sf_wifi_rf_callback: RF_EVENT_STOP_BUSINESS, the calibration itself and   *)
(* RF_EVENT_START_BUSINESS, one after the other in the RF thread.            *)

StopBusiness(c) ==
  /\ rf = "idle"
  /\ \/ \E d \in RfCmd \ {c} : pc[d] = "idle"   \* bound: one call is left to resume,
     \/ SetupCmd # {}                           \* or a restart may come
  /\ rst = "run"
  /\ Alloc(c, {"REQ_CFM", "ASK_PAUSE"}, "MM_RF_CTRL_CFM", TRUE)
  /\ rf' = "stopping"
  /\ rfcmd' = c
  /\ UNCHANGED <<rst, setup>>

StopReturns ==
  /\ ~oops
  /\ rf = "stopping"
  /\ pc[rfcmd] = "done"
  /\ rf' = IF ret[rfcmd] = "OK" THEN "stopped" ELSE "idle"
  /\ rfcmd' = None
  /\ UNCHANGED <<mgrVars, cmdVars, callVars, fwVars, rst, setup, oops>>

StartBusiness(c) ==
  /\ rf = "stopped"
  /\ rst = "run"
  /\ Alloc(c, {"REQ_CFM", "FORCE_PUSH", "ASK_RESUME"}, "MM_RF_CTRL_CFM", TRUE)
  /\ rf' = "starting"
  /\ rfcmd' = c
  /\ UNCHANGED <<rst, setup>>

\* START_BUSINESS finds SIWIFI_DEV_STACK_RESTARTING set and sends nothing.
StartSkipped ==
  /\ ~oops
  /\ rf = "stopped"
  /\ rst # "run"
  /\ rf' = "idle"
  /\ UNCHANGED <<mgrVars, cmdVars, callVars, fwVars, rst, setup,
                 rfcmd, oops>>

StartReturns ==
  /\ ~oops
  /\ rf = "starting"
  /\ pc[rfcmd] = "done"
  /\ rf' = "idle"
  /\ rfcmd' = None
  /\ UNCHANGED <<mgrVars, cmdVars, callVars, fwVars, rst, setup, oops>>

-----------------------------------------------------------------------------

\* Every call has returned, is to come, or sleeps until it is answered.
Asleep ==
  /\ \A c \in Cmd : pc[c] \in {"idle", "wait", "done"}
  /\ UNCHANGED vars

CallerStep(c) ==
  \/ Queue(c)
  \/ Wake(c)
  \/ Timeout(c)
  \/ TimeoutCrash(c)
  \/ Abandon(c)
  \/ ReturnFlagged(c)
  \/ ReturnBlocking(c)
  \/ ReturnFreed(c)
  \/ ReturnNonblock(c)

Restart ==
  \/ TriggerRestart
  \/ IrqsDeinit
  \/ MgrDeinit
  \/ Drain
  \/ MgrInit
  \/ RestartDone

Calibration == StopReturns \/ StartSkipped \/ StartReturns

Firmware == Ack \/ \E c \in Cmd : Confirm(c)

\* A processor that faulted holding the lock never gives it back.
Halted == oops /\ UNCHANGED vars

Next ==
  \/ \E c \in UserCmd : Send(c) \/ Bypass(c) \/ Kill(c)
  \/ \E c \in SetupCmd : SendSetup(c)
  \/ \E c \in RfCmd : StopBusiness(c) \/ StartBusiness(c)
  \/ \E c \in Cmd : CallerStep(c)
  \/ Firmware
  \/ Restart
  \/ Calibration
  \/ Asleep
  \/ Halted

Spec == Init /\ [][Next]_vars

\* The kernel runs a runnable thread, its timers expire and its works are run.
Scheduled(c) ==
  /\ WF_vars(Queue(c))
  /\ WF_vars(Wake(c))
  /\ WF_vars(Timeout(c))
  /\ WF_vars(TimeoutCrash(c))
  /\ WF_vars(Abandon(c))
  /\ WF_vars(ReturnFlagged(c) \/ ReturnBlocking(c) \/ ReturnFreed(c)
               \/ ReturnNonblock(c))

\* A firmware that answers everything it was asked, and a calibration that ends
\* and finds a command to resume the manager with.
Answering ==
  /\ WF_vars(Ack)
  /\ \A c \in Cmd : WF_vars(Confirm(c))
  /\ WF_vars(Calibration)
  /\ WF_vars(\E c \in RfCmd : StartBusiness(c))

FairSpec == Spec /\ \A c \in Cmd : Scheduled(c)
-----------------------------------------------------------------------------
(* Safety *)

\* The request that left through the mailbox and is not acknowledged yet.
Unacked == {c \in cmds : Has(c, "WAIT_ACK") /\ ~Has(c, "WAIT_PUSH")}

\* The A2E mailbox has one place (ASSERT_ERR(!env->msga2e_hostid) in
\* ipc_host_msg_push): no push overwrites a request the firmware has not
\* acknowledged.
MailboxNeverOverwritten ==
  [][hostid # None /\ hostid' # hostid => Ack \/ Drain]_vars

\* A command on the list that was pushed and not acknowledged is the one the
\* mailbox names, and unless the manager has crashed the mailbox names nothing
\* else: the acknowledgement always finds the command it is for (llind's WARN
\* on cur != cmd).
MailboxMatchesList ==
  /\ Unacked \subseteq {hostid}
  /\ state \in {"INITED", "PAUSED"} /\ hostid # None => hostid \in Unacked

\* A deferred command is never orphaned: while the manager serves requests, the
\* acknowledgement that will push it is still to come.
DeferredHavePusher ==
  state = "INITED" /\ Deferred # {} => hostid # None

\* The mailbox always serves the list: the acknowledgement to come is that of the
\* command the mailbox names, and the deferred ones depend on no other.
MailboxServesList == MailboxMatchesList /\ DeferredHavePusher

\* Commands reach the firmware in the order they were queued: nothing queued
\* behind a deferred command has been pushed, but for what is force pushed.
NoOvertaking ==
  \A c, d \in cmds :
    Has(c, "WAIT_PUSH") /\ tkn[c] < tkn[d]
      => Has(d, "WAIT_PUSH") \/ Has(d, "FORCE_PUSH")

\* queue_sz, which sizes the timeout and closes the queue, counts the list and
\* stays within max_queue_sz whatever is killed or times out.
QueueSzCountsList == queue_sz = Cardinality(cmds) /\ queue_sz <= MaxQueueSz

\* What the list and the interrupt handlers can reach has not been freed, and
\* every command waiting for its push still has its request.
ListedIsLive ==
  \A c \in cmds : mem[c] = "live" /\ (Has(c, "WAIT_PUSH") => a2e_msg[c])

\* siwifi_send_msg reads the command after cmd_mgr_queue returned: it must not
\* have been freed by then.
ReturnReadsLive == \A c \in Cmd : pc[c] = "return" /\ blocking[c] => mem[c] = "live"

\* A returned siwifi_send_msg has freed its command and its request, unless the
\* command is still on the list and an answer will free it.
NothingLeaks ==
  \A c \in Cmd :
    pc[c] = "done" /\ c \notin cmds /\ mem[c] # "none" /\ c \notin RfCmd
      => mem[c] = "freed" /\ ~a2e_msg[c]

\* A blocking call reports success for a request the firmware took and confirmed,
\* never for an answer to somebody else's.  (After a missed deadline there is no
\* such promise: the late confirmation of a command that timed out is given to
\* the next one on the list waiting for that identifier.)
SuccessIsConfirmed ==
  (\A c \in Cmd : result[c] # "ETIMEDOUT") =>
    \A c \in Cmd : pc[c] = "done" /\ ret[c] = "OK" /\ blocking[c]
                    => c \notin fw /\ hostid # c /\ ~Has(c, "WAIT_PUSH")

\* No list_del is applied to a command that a drain took off the list already.
NoOops == ~oops

\* Every exit of a call, by answer, deadline, signal or refusal, takes the command
\* off the list once and frees it and its request once.
LeavesOnce == NoOops /\ NothingLeaks

(* The strengthening that makes ListedIsLive and QueueSzCountsList inductive *)

Sleeping == {"wait", "timedout", "killed"}

\* A command that is not queued yet is fresh, on no list and owned by its call.
UnqueuedInv ==
  \A c \in Cmd :
    pc[c] \in {"idle", "queue"} =>
      /\ c \notin cmds
      /\ ~complete[c]
      /\ flags[c] \cap {"WAIT_PUSH", "WAIT_ACK", "WAIT_CFM", "DONE"} = {}
      /\ pc[c] = "queue" => mem[c] = "live" /\ a2e_msg[c]
                            /\ (blocking[c] <=> ~Has(c, "NONBLOCK"))
                            /\ (c \in RfCmd => blocking[c])

\* A listed command is not done; its call sleeps, or has left it to be freed by
\* the interrupt side.
OwnerInv ==
  \A c \in cmds :
    /\ ~Has(c, "DONE")
    /\ ~complete[c]
    /\ ~blocking[c] => ret[c] = "OK"
    /\ IF pc[c] \in Sleeping
         THEN blocking[c] /\ ~Has(c, "NONBLOCK")
         ELSE Has(c, "NONBLOCK") /\ c \notin RfCmd
              /\ (blocking[c] => ~Has(c, "WAIT_PUSH"))

\* No signal reaches the kernel's workers.
KilledInv == \A c \in Cmd : pc[c] = "killed" => c \in UserCmd

MemInv == ListedIsLive /\ UnqueuedInv /\ OwnerInv /\ KilledInv

(* Liveness *)

\* Every call returns, whatever the firmware does: nobody waits for ever.
EveryCallReturns ==
  \A c \in Cmd : pc[c] = "queue" ~> pc[c] = "done" \/ oops

\* With a firmware that answers, deadlines that pass only when it has nothing
\* left to answer and the manager is not paused, and a driver that is not
\* restarted, every accepted command is served, even if it was deferred behind
\* others.
EveryCommandServed ==
  Answering /\ [](rst = "run" /\ \A c \in Cmd : pc[c] = "timedout" =>
                     hostid = None /\ fw = {} /\ state # "PAUSED")
    => \A c \in Cmd : pc[c] = "wait" ~> pc[c] = "done" /\ ret[c] = "OK"
-----------------------------------------------------------------------------
(* Refinement *)

Accepted == {c \in Cmd : flags[c] \cap {"WAIT_ACK", "WAIT_CFM", "DONE"} # {}}

Channel == INSTANCE CmdChannel WITH
  Urgent <- RfCmd,
  queue  <- Deferred,
  before <- {p \in Deferred \X Deferred : tkn[p[1]] < tkn[p[2]]},
  slot   <- hostid,
  seen   <- Accepted

\* The manager implements the channel: cmd_mgr_queue and cmd_mgr_llind hand
\* requests to the firmware one at a time, once each, in the order of the list;
\* only commands of the RF thread may pass the others.
ImplementsChannel == Channel!Spec
=============================================================================
