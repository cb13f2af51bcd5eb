---------------------------- MODULE CmdMgrProofs ----------------------------
(* Theorems about the command manager, for any number of callers: its list  *)
(* and its memory; the order of the list, the mailbox and the refinement of *)
(* CmdChannel; what a call may rely on when it returns.                     *)
EXTENDS CmdMgr, FiniteSetTheorems, WellFoundedInduction, TLAPS

\* Every request the driver builds is a set of flags.
LEMMA KindFlagsType == \A k \in UserKinds : KindFlags[k] \subseteq Flag
BY ParamAssumption DEF KindFlags, Flag

LEMMA CmdParts ==
  /\ UserCmd \subseteq Cmd
  /\ RfCmd \subseteq Cmd
  /\ SetupCmd \subseteq Cmd
BY DEF Cmd

LEMMA InitType == Init => TypeOK
<1> SUFFICES ASSUME Init PROVE TypeOK
  OBVIOUS
<1>1. state \in {"DEINIT", "INITED", "PAUSED", "CRASHED"}
  BY DEF Init, Flag, Result, Pc, RstPhase
<1>2. cmds \subseteq Cmd
  BY DEF Init, Flag, Result, Pc, RstPhase
<1>3. queue_sz \in Int
  BY DEF Init, Flag, Result, Pc, RstPhase
<1>4. next_tkn \in Nat
  BY DEF Init, Flag, Result, Pc, RstPhase
<1>5. flags \in [Cmd -> SUBSET Flag]
  BY DEF Init, Flag, Result, Pc, RstPhase
<1>6. tkn \in [Cmd -> Nat]
  BY DEF Init, Flag, Result, Pc, RstPhase
<1>7. reqid \in [Cmd -> ReqId \cup {"NONE", "MM_RF_CTRL_CFM", "MM_RESET_CFM"}]
  BY DEF Init, Flag, Result, Pc, RstPhase
<1>8. result \in [Cmd -> Result]
  BY DEF Init, Flag, Result, Pc, RstPhase
<1>9. complete \in [Cmd -> BOOLEAN]
  BY DEF Init, Flag, Result, Pc, RstPhase
<1>10. a2e_msg \in [Cmd -> BOOLEAN]
  BY DEF Init, Flag, Result, Pc, RstPhase
<1>11. mem \in [Cmd -> {"none", "live", "freed"}]
  BY DEF Init, Flag, Result, Pc, RstPhase
<1>12. pc \in [Cmd -> Pc]
  BY DEF Init, Flag, Result, Pc, RstPhase
<1>13. ret \in [Cmd -> Result]
  BY DEF Init, Flag, Result, Pc, RstPhase
<1>14. blocking \in [Cmd -> BOOLEAN]
  BY DEF Init, Flag, Result, Pc, RstPhase
<1>15. hostid \in Cmd \cup {None}
  BY DEF Init, Flag, Result, Pc, RstPhase
<1>16. fw \subseteq Cmd
  BY DEF Init, Flag, Result, Pc, RstPhase
<1>17. rst \in RstPhase
  BY DEF Init, Flag, Result, Pc, RstPhase
<1>18. setup \in Cmd \cup {None}
  BY DEF Init, Flag, Result, Pc, RstPhase
<1>19. rf \in {"idle", "stopping", "stopped", "starting"}
  BY DEF Init, Flag, Result, Pc, RstPhase
<1>20. rfcmd \in Cmd \cup {None}
  BY DEF Init, Flag, Result, Pc, RstPhase
<1>21. oops \in BOOLEAN
  BY DEF Init, Flag, Result, Pc, RstPhase
<1> QED
  BY <1>1, <1>2, <1>3, <1>4, <1>5, <1>6, <1>7, <1>8, <1>9, <1>10, <1>11, <1>12, <1>13, <1>14, <1>15, <1>16, <1>17, <1>18, <1>19, <1>20, <1>21 DEF TypeOK

LEMMA AllocType ==
  ASSUME TypeOK, NEW c \in Cmd, NEW f \in SUBSET Flag, NEW block \in BOOLEAN,
         NEW r \in ReqId \cup {"NONE", "MM_RF_CTRL_CFM", "MM_RESET_CFM"},
         Alloc(c, f, r, block),
         rst' \in RstPhase, setup' \in Cmd \cup {None},
         rf' \in {"idle", "stopping", "stopped", "starting"},
         rfcmd' \in Cmd \cup {None}
  PROVE  TypeOK'
BY DEF TypeOK, Alloc, Pc, mgrVars, fwVars
\* Both outcomes of cmd_mgr_queue that change the manager's state keep the types.
LEMMA AcceptType ==
  ASSUME TypeOK, NEW c \in Cmd, Accept(c)
  PROVE  TypeOK'
<1>1. flags' \in [Cmd -> SUBSET Flag]
  BY DEF TypeOK, Accept, Flag
<1>2. /\ tkn' \in [Cmd -> Nat] /\ next_tkn' \in Nat
      /\ cmds' \subseteq Cmd /\ queue_sz' \in Int
  BY DEF TypeOK, Accept
<1>3. /\ hostid' \in Cmd \cup {None}
      /\ a2e_msg' \in [Cmd -> BOOLEAN]
  BY DEF TypeOK, Accept, Push
<1>4. /\ result' \in [Cmd -> Result]
      /\ ret' \in [Cmd -> Result]
      /\ pc' \in [Cmd -> Pc]
  BY DEF TypeOK, Accept, Pc, Result
<1> QED
  BY <1>1, <1>2, <1>3, <1>4 DEF TypeOK, Accept, ctxVars

LEMMA RefuseType ==
  ASSUME TypeOK, NEW c \in Cmd, NEW res \in Result, NEW r \in Result, Refuse(c, res, r)
  PROVE  TypeOK'
BY DEF TypeOK, Refuse, Pc, mgrVars, fwVars, ctxVars

LEMMA QueueType ==
  ASSUME TypeOK, NEW c \in Cmd, Queue(c)
  PROVE  TypeOK'
<1>1. CASE Accept(c)
  BY <1>1, AcceptType
<1>2. CASE Refuse(c, "EPERM", "EPIPE") \/ Refuse(c, "EPIPE", "EPIPE")
           \/ Refuse(c, "ENOMEM", "ENOMEM")
  BY <1>2, RefuseType DEF Result
<1> QED
  BY <1>1, <1>2 DEF Queue

LEMMA PoisonType == TypeOK /\ PoisonedListDel => TypeOK'
BY DEF TypeOK, PoisonedListDel, mgrVars, cmdVars, callVars, fwVars, ctxVars

LEMMA TimeoutCrashType ==
  ASSUME TypeOK, NEW c \in Cmd, TimeoutCrash(c)
  PROVE  TypeOK'
<1>1. CASE PoisonedListDel
  BY <1>1, PoisonType
<1>2. CASE ~PoisonedListDel
  BY <1>2 DEF TypeOK, TimeoutCrash, Pc, Flag, Result, fwVars, ctxVars
<1> QED
  BY <1>1, <1>2

LEMMA AbandonType ==
  ASSUME TypeOK, NEW c \in Cmd, Abandon(c)
  PROVE  TypeOK'
<1>1. CASE PoisonedListDel
  BY <1>1, PoisonType
<1>2. CASE ~PoisonedListDel
  BY <1>2 DEF TypeOK, Abandon, Pc, Flag, Result, fwVars, ctxVars
<1> QED
  BY <1>1, <1>2

LEMMA CallerType ==
  ASSUME TypeOK, NEW c \in Cmd, CallerStep(c)
  PROVE  TypeOK'
<1>1. CASE Queue(c)
  BY <1>1, QueueType
<1>2. CASE Wake(c)
  BY <1>2 DEF TypeOK, Wake, Pc, Result, mgrVars, cmdVars, fwVars, ctxVars
<1>3. CASE Timeout(c)
  BY <1>3 DEF TypeOK, Timeout, Pc, mgrVars, cmdVars, fwVars, ctxVars
<1>4. CASE TimeoutCrash(c)
  BY <1>4, TimeoutCrashType
<1>5. CASE Abandon(c)
  BY <1>5, AbandonType
<1>6. CASE ReturnFlagged(c)
  BY <1>6 DEF TypeOK, ReturnFlagged, Release, Returns, Pc, mgrVars, fwVars, ctxVars
<1>7. CASE ReturnBlocking(c)
  BY <1>7 DEF TypeOK, ReturnBlocking, Release, Returns, Pc, mgrVars, fwVars, ctxVars
<1>8. CASE ReturnFreed(c)
  BY <1>8 DEF TypeOK, ReturnFreed, Release, Returns, Pc, mgrVars, fwVars, ctxVars
<1>9. CASE ReturnNonblock(c)
  BY <1>9 DEF TypeOK, ReturnNonblock, Release, Returns, Pc, mgrVars, fwVars, ctxVars
<1> QED
  BY <1>1, <1>2, <1>3, <1>4, <1>5, <1>6, <1>7, <1>8, <1>9 DEF CallerStep

LEMMA FlagsAfterType ==
  ASSUME TypeOK, NEW c \in Cmd, NEW f \in Flag
  PROVE  FlagsAfter(c, f) \in [Cmd -> SUBSET Flag]
BY DEF TypeOK, FlagsAfter, Answered, Flag

LEMMA FirmwareType ==
  ASSUME TypeOK, Firmware
  PROVE  TypeOK'
<1>2. ASSUME NEW c \in Cmd, NEW f, Completes(c, f)
      PROVE  /\ cmds' \subseteq Cmd
             /\ queue_sz' \in Int
             /\ mem' \in [Cmd -> {"none", "live", "freed"}]
             /\ result' \in [Cmd -> Result]
             /\ complete' \in [Cmd -> BOOLEAN]
  <2>1. queue_sz' \in Int
    BY <1>2 DEF TypeOK, Completes, CompleteCmd
  <2>2. complete' \in [Cmd -> BOOLEAN]
    BY <1>2 DEF TypeOK, Completes, CompleteCmd
  <2> QED
    BY <1>2, <2>1, <2>2 DEF TypeOK, Completes, CompleteCmd, Result
<1>3. CASE Ack
  <2>1. hostid \in Cmd
    BY <1>3 DEF TypeOK, Ack
  <2>2. flags' \in [Cmd -> SUBSET Flag]
    <3> DEFINE acked == IF hostid \in cmds THEN FlagsAfter(hostid, "WAIT_ACK") ELSE flags
    <3>1. acked \in [Cmd -> SUBSET Flag]
      BY <2>1, FlagsAfterType DEF TypeOK, Flag
    <3>2. \/ flags' = acked
          \/ \E d \in Cmd : flags' = [acked EXCEPT ![d] = @ \ {"WAIT_PUSH"}]
      BY <1>3 DEF TypeOK, Ack, IsFirst, Deferred
    <3> HIDE DEF acked
    <3> QED
      BY <3>1, <3>2
  <2>3. /\ cmds' \subseteq Cmd
        /\ queue_sz' \in Int
        /\ mem' \in [Cmd -> {"none", "live", "freed"}]
        /\ result' \in [Cmd -> Result]
        /\ complete' \in [Cmd -> BOOLEAN]
    BY <1>2, <1>3, <2>1 DEF TypeOK, Ack
  <2>4. /\ hostid' \in Cmd \cup {None}
        /\ a2e_msg' \in [Cmd -> BOOLEAN]
    BY <1>3 DEF TypeOK, Ack, Push, Deferred, IsFirst
  <2>5. state' \in {"DEINIT", "INITED", "PAUSED", "CRASHED"} /\ fw' \subseteq Cmd
    BY <1>3, <2>1 DEF TypeOK, Ack, StateAfterAck
  <2> QED
    BY <1>3, <2>2, <2>3, <2>4, <2>5 DEF TypeOK, Ack, callVars, ctxVars
<1>4. ASSUME NEW x \in Cmd, Confirm(x)
      PROVE  TypeOK'
  <2>1. flags' \in [Cmd -> SUBSET Flag]
    <3>1. \/ flags' = flags
          \/ \E d \in Cmd : flags' = FlagsAfter(d, "WAIT_CFM")
      BY <1>4 DEF TypeOK, Confirm
    <3> QED
      BY <3>1, FlagsAfterType DEF TypeOK, Flag
  <2>2. /\ cmds' \subseteq Cmd
        /\ queue_sz' \in Int
        /\ mem' \in [Cmd -> {"none", "live", "freed"}]
        /\ result' \in [Cmd -> Result]
        /\ complete' \in [Cmd -> BOOLEAN]
    BY <1>2, <1>4 DEF TypeOK, Confirm
  <2> QED
    BY <1>4, <2>1, <2>2 DEF TypeOK, Confirm, callVars, ctxVars
<1> QED
  BY <1>3, <1>4 DEF Firmware

LEMMA RestartType ==
  ASSUME TypeOK, Restart
  PROVE  TypeOK'
<1> USE DEF TypeOK, RstPhase, mgrVars, cmdVars, callVars, fwVars
<1>1. CASE TriggerRestart
  BY <1>1 DEF TriggerRestart
<1>2. CASE IrqsDeinit
  BY <1>2 DEF IrqsDeinit
<1>3. CASE MgrDeinit
  BY <1>3 DEF MgrDeinit
<1>4. CASE Drain
  BY <1>4 DEF Drain
<1>5. CASE MgrInit
  BY <1>5 DEF MgrInit
<1>6. CASE RestartDone
  BY <1>6 DEF RestartDone
<1> QED
  BY <1>1, <1>2, <1>3, <1>4, <1>5, <1>6 DEF Restart

LEMMA CalibrationType ==
  ASSUME TypeOK, Calibration
  PROVE  TypeOK'
BY DEF TypeOK, Calibration, StopReturns, StartSkipped, StartReturns,
       mgrVars, cmdVars, callVars, fwVars

LEMMA TypeStep == TypeOK /\ [Next]_vars => TypeOK'
<1> SUFFICES ASSUME TypeOK, [Next]_vars PROVE TypeOK'
  OBVIOUS
<1>1. ASSUME NEW c \in UserCmd, Send(c)
      PROVE  TypeOK'
  BY <1>1, AllocType, KindFlagsType, CmdParts DEF Send, TypeOK, ctxVars
<1>2. ASSUME NEW c \in UserCmd, Bypass(c)
      PROVE  TypeOK'
  BY <1>2, CmdParts DEF Bypass, TypeOK, Pc, Result, mgrVars, cmdVars, fwVars, ctxVars
<1>3. ASSUME NEW c \in UserCmd, Kill(c)
      PROVE  TypeOK'
  BY <1>3, CmdParts DEF Kill, TypeOK, Pc, mgrVars, cmdVars, fwVars, ctxVars
<1>4. ASSUME NEW c \in SetupCmd, SendSetup(c)
      PROVE  TypeOK'
  BY <1>4, AllocType, CmdParts DEF SendSetup, TypeOK, Flag
<1>5. ASSUME NEW c \in RfCmd, StopBusiness(c)
      PROVE  TypeOK'
  BY <1>5, AllocType, CmdParts DEF StopBusiness, TypeOK, Flag
<1>6. ASSUME NEW c \in RfCmd, StartBusiness(c)
      PROVE  TypeOK'
  BY <1>6, AllocType, CmdParts DEF StartBusiness, TypeOK, Flag
<1>7. ASSUME NEW c \in Cmd, CallerStep(c)
      PROVE  TypeOK'
  BY <1>7, CallerType
<1>8. CASE Firmware
  BY <1>8, FirmwareType
<1>9. CASE Restart
  BY <1>9, RestartType
<1>10. CASE Calibration
  BY <1>10, CalibrationType
<1>11. CASE UNCHANGED vars
  BY <1>11 DEF TypeOK, vars, mgrVars, cmdVars, callVars, fwVars, ctxVars
<1> QED
  BY <1>1, <1>2, <1>3, <1>4, <1>5, <1>6, <1>7, <1>8, <1>9, <1>10, <1>11
     DEF Next, Asleep, Halted

\* Whatever callers, firmware, restarts and calibrations do, the variables keep
\* the types the C declarations and the callers' program order give them.
THEOREM TypeCorrect == Spec => []TypeOK
<1> QED
  BY InitType, TypeStep, PTL DEF Spec
-----------------------------------------------------------------------------
(* No use after free: what the list and the interrupt handlers reach is live. *)

LEMMA InitMem == Init => MemInv
BY DEF Init, MemInv, ListedIsLive, UnqueuedInv, OwnerInv, KilledInv, Has

LEMMA AllocMem ==
  ASSUME TypeOK, MemInv, NEW c \in Cmd, NEW f \in SUBSET Flag, NEW r,
         NEW block \in BOOLEAN, Alloc(c, f, r, block),
         f \cap {"WAIT_PUSH", "WAIT_ACK", "WAIT_CFM", "DONE"} = {},
         block <=> "NONBLOCK" \notin f,
         c \in RfCmd => block
  PROVE  MemInv'
<1>1. ListedIsLive'
  BY DEF TypeOK, Alloc, MemInv, ListedIsLive, UnqueuedInv, Has, mgrVars
<1>2. UnqueuedInv'
  BY DEF TypeOK, Alloc, MemInv, UnqueuedInv, Has, mgrVars
<1>3. OwnerInv'
  BY DEF TypeOK, Alloc, MemInv, UnqueuedInv, OwnerInv, Has, mgrVars
<1>4. KilledInv'
  BY DEF TypeOK, Alloc, MemInv, KilledInv
<1> QED
  BY <1>1, <1>2, <1>3, <1>4 DEF MemInv

LEMMA AcceptMem ==
  ASSUME TypeOK, MemInv, NEW c \in Cmd, pc[c] = "queue", Accept(c)
  PROVE  MemInv'
<1>1. ListedIsLive'
  BY DEF TypeOK, Accept, Push, MemInv, ListedIsLive, UnqueuedInv, Has
<1>2. UnqueuedInv'
  BY DEF TypeOK, Accept, Push, MemInv, UnqueuedInv, Has
<1>3. OwnerInv'
  BY DEF TypeOK, Accept, Push, MemInv, UnqueuedInv, OwnerInv, Has, Sleeping
<1>4. KilledInv'
  BY DEF TypeOK, Accept, MemInv, KilledInv
<1> QED
  BY <1>1, <1>2, <1>3, <1>4 DEF MemInv
LEMMA RefuseMem ==
  ASSUME TypeOK, MemInv, NEW c \in Cmd, pc[c] = "queue",
         NEW res, NEW r \in Result \ {"OK"}, Refuse(c, res, r)
  PROVE  MemInv'
<1> USE DEF TypeOK, MemInv, ListedIsLive, UnqueuedInv, OwnerInv, KilledInv, Has, Sleeping
<1>1. ListedIsLive'
  BY DEF Refuse, mgrVars
<1>2. UnqueuedInv'
  BY DEF Refuse, mgrVars
<1>3. OwnerInv'
  BY DEF Refuse, mgrVars
<1>4. KilledInv'
  BY DEF Refuse, mgrVars
<1> QED
  BY <1>1, <1>2, <1>3, <1>4

LEMMA QueueMem ==
  ASSUME TypeOK, MemInv, NEW c \in Cmd, Queue(c)
  PROVE  MemInv'
<1>1. CASE Accept(c)
  BY <1>1, AcceptMem DEF Queue
<1>2. CASE Refuse(c, "EPERM", "EPIPE") \/ Refuse(c, "EPIPE", "EPIPE")
           \/ Refuse(c, "ENOMEM", "ENOMEM")
  BY <1>2, RefuseMem DEF Queue, Result
<1> QED
  BY <1>1, <1>2 DEF Queue

LEMMA PoisonMem == MemInv /\ PoisonedListDel => MemInv'
BY DEF PoisonedListDel, MemInv, ListedIsLive, UnqueuedInv, OwnerInv, KilledInv,
       Has, Sleeping, mgrVars, cmdVars, callVars

LEMMA WakeMem ==
  ASSUME TypeOK, MemInv, NEW c \in Cmd, Wake(c)
  PROVE  MemInv'
<1> USE DEF TypeOK, MemInv, ListedIsLive, UnqueuedInv, OwnerInv, KilledInv, Has, Sleeping
<1>1. ListedIsLive'
  BY DEF Wake, mgrVars, cmdVars
<1>2. UnqueuedInv'
  BY DEF Wake, mgrVars, cmdVars
<1>3. OwnerInv'
  BY DEF Wake, mgrVars, cmdVars
<1>4. KilledInv'
  BY DEF Wake, mgrVars, cmdVars
<1> QED
  BY <1>1, <1>2, <1>3, <1>4

LEMMA TimeoutMem ==
  ASSUME TypeOK, MemInv, NEW c \in Cmd, Timeout(c)
  PROVE  MemInv'
<1> USE DEF TypeOK, MemInv, ListedIsLive, UnqueuedInv, OwnerInv, KilledInv, Has, Sleeping
<1>1. ListedIsLive'
  BY DEF Timeout, mgrVars, cmdVars
<1>2. UnqueuedInv'
  BY DEF Timeout, mgrVars, cmdVars
<1>3. OwnerInv'
  BY DEF Timeout, mgrVars, cmdVars
<1>4. KilledInv'
  BY DEF Timeout, mgrVars, cmdVars
<1> QED
  BY <1>1, <1>2, <1>3, <1>4

LEMMA KillMem ==
  ASSUME TypeOK, MemInv, NEW c \in UserCmd, Kill(c)
  PROVE  MemInv'
<1> USE DEF TypeOK, MemInv, ListedIsLive, UnqueuedInv, OwnerInv, KilledInv, Has, Sleeping
<1>1. ListedIsLive'
  BY CmdParts DEF Kill, mgrVars, cmdVars
<1>2. UnqueuedInv'
  BY CmdParts DEF Kill, mgrVars, cmdVars
<1>3. OwnerInv'
  BY CmdParts DEF Kill, mgrVars, cmdVars
<1>4. KilledInv'
  BY CmdParts DEF Kill, mgrVars, cmdVars
<1> QED
  BY <1>1, <1>2, <1>3, <1>4

LEMMA TimeoutCrashMem ==
  ASSUME TypeOK, MemInv, NEW c \in Cmd, TimeoutCrash(c), ~PoisonedListDel
  PROVE  MemInv'
<1> USE DEF TypeOK, MemInv, ListedIsLive, UnqueuedInv, OwnerInv, KilledInv, Has, Sleeping
<1>1. ListedIsLive'
  BY DEF TimeoutCrash
<1>2. UnqueuedInv'
  BY DEF TimeoutCrash
<1>3. OwnerInv'
  BY DEF TimeoutCrash
<1>4. KilledInv'
  BY DEF TimeoutCrash
<1> QED
  BY <1>1, <1>2, <1>3, <1>4

LEMMA AbandonMem ==
  ASSUME TypeOK, MemInv, NEW c \in Cmd, Abandon(c), ~PoisonedListDel
  PROVE  MemInv'
<1> USE DEF TypeOK, MemInv, ListedIsLive, UnqueuedInv, OwnerInv, KilledInv, Has, Sleeping
<1>1. ListedIsLive'
  BY CmdAssumption DEF Abandon
<1>2. UnqueuedInv'
  BY CmdAssumption DEF Abandon
<1>3. OwnerInv'
  BY CmdAssumption DEF Abandon
<1>4. KilledInv'
  BY CmdAssumption DEF Abandon
<1> QED
  BY <1>1, <1>2, <1>3, <1>4

LEMMA ReturnFlaggedMem ==
  ASSUME TypeOK, MemInv, NEW c \in Cmd, ReturnFlagged(c)
  PROVE  MemInv'
<1> USE DEF TypeOK, MemInv, ListedIsLive, UnqueuedInv, OwnerInv, KilledInv, Has, Sleeping
<1>1. ListedIsLive'
  BY DEF ReturnFlagged, Release, Returns, mgrVars
<1>2. UnqueuedInv'
  BY DEF ReturnFlagged, Release, Returns, mgrVars
<1>3. OwnerInv'
  BY DEF ReturnFlagged, Release, Returns, mgrVars
<1>4. KilledInv'
  BY DEF ReturnFlagged, Release, Returns, mgrVars
<1> QED
  BY <1>1, <1>2, <1>3, <1>4

LEMMA ReturnBlockingMem ==
  ASSUME TypeOK, MemInv, NEW c \in Cmd, ReturnBlocking(c)
  PROVE  MemInv'
<1> USE DEF TypeOK, MemInv, ListedIsLive, UnqueuedInv, OwnerInv, KilledInv, Has, Sleeping
<1>1. ListedIsLive'
  BY DEF ReturnBlocking, Release, Returns, mgrVars
<1>2. UnqueuedInv'
  BY DEF ReturnBlocking, Release, Returns, mgrVars
<1>3. OwnerInv'
  BY DEF ReturnBlocking, Release, Returns, mgrVars
<1>4. KilledInv'
  BY DEF ReturnBlocking, Release, Returns, mgrVars
<1> QED
  BY <1>1, <1>2, <1>3, <1>4

LEMMA ReturnFreedMem ==
  ASSUME TypeOK, MemInv, NEW c \in Cmd, ReturnFreed(c)
  PROVE  MemInv'
<1> USE DEF TypeOK, MemInv, ListedIsLive, UnqueuedInv, OwnerInv, KilledInv, Has, Sleeping
<1>1. ListedIsLive'
  BY DEF ReturnFreed, Returns, mgrVars
<1>2. UnqueuedInv'
  BY DEF ReturnFreed, Returns, mgrVars
<1>3. OwnerInv'
  BY DEF ReturnFreed, Returns, mgrVars
<1>4. KilledInv'
  BY DEF ReturnFreed, Returns, mgrVars
<1> QED
  BY <1>1, <1>2, <1>3, <1>4

LEMMA ReturnNonblockMem ==
  ASSUME TypeOK, MemInv, NEW c \in Cmd, ReturnNonblock(c)
  PROVE  MemInv'
<1> USE DEF TypeOK, MemInv, ListedIsLive, UnqueuedInv, OwnerInv, KilledInv, Has, Sleeping
<1>1. ListedIsLive'
  BY DEF ReturnNonblock, Release, Returns, mgrVars
<1>2. UnqueuedInv'
  BY DEF ReturnNonblock, Release, Returns, mgrVars
<1>3. OwnerInv'
  BY DEF ReturnNonblock, Release, Returns, mgrVars
<1>4. KilledInv'
  BY DEF ReturnNonblock, Release, Returns, mgrVars
<1> QED
  BY <1>1, <1>2, <1>3, <1>4

\* What an acknowledgement does to a command other than the acknowledged one: at
\* most, it is pushed.
LEMMA AckOthers ==
  ASSUME TypeOK, Ack, NEW d \in Cmd \ {hostid}
  PROVE  /\ d \in cmds' <=> d \in cmds
         /\ mem'[d] = mem[d]
         /\ complete'[d] = complete[d]
         /\ \/ flags'[d] = flags[d] /\ a2e_msg'[d] = a2e_msg[d]
            \/ d \in cmds /\ flags'[d] = flags[d] \ {"WAIT_PUSH"}
<1>1. hostid \in Cmd
  BY DEF TypeOK, Ack
<1>2. /\ d \in cmds' <=> d \in cmds
      /\ mem'[d] = mem[d]
      /\ complete'[d] = complete[d]
  BY <1>1 DEF TypeOK, Ack, Completes, CompleteCmd
<1> DEFINE acked == IF hostid \in cmds THEN FlagsAfter(hostid, "WAIT_ACK") ELSE flags
<1>3. acked \in [Cmd -> SUBSET Flag] /\ acked[d] = flags[d]
  BY <1>1, FlagsAfterType DEF TypeOK, FlagsAfter, Flag
<1>4. \/ flags' = acked /\ a2e_msg' = a2e_msg
      \/ \E e \in cmds : /\ flags' = [acked EXCEPT ![e] = @ \ {"WAIT_PUSH"}]
                         /\ a2e_msg' = [a2e_msg EXCEPT ![e] = FALSE]
  BY DEF TypeOK, Ack, Push, IsFirst, Deferred
<1> HIDE DEF acked
<1>5. \/ flags'[d] = flags[d] /\ a2e_msg'[d] = a2e_msg[d]
      \/ d \in cmds /\ flags'[d] = flags[d] \ {"WAIT_PUSH"}
  BY <1>3, <1>4 DEF TypeOK
<1> QED
  BY <1>2, <1>5

\* What it does to the acknowledged command: nothing if a timeout took it off the
\* list, else it either waits on for its confirmation or leaves the list.
LEMMA AckSelf ==
  ASSUME TypeOK, Ack
  PROVE  /\ hostid \in Cmd
         /\ a2e_msg'[hostid] = a2e_msg[hostid]
         /\ \/ /\ flags'[hostid] = flags[hostid]
               /\ mem'[hostid] = mem[hostid]
               /\ complete'[hostid] = complete[hostid]
               /\ hostid \notin cmds /\ hostid \notin cmds'
            \/ /\ flags'[hostid] = flags[hostid] \ {"WAIT_ACK"}
               /\ mem'[hostid] = mem[hostid]
               /\ complete'[hostid] = complete[hostid]
               /\ hostid \in cmds /\ hostid \in cmds'
            \/ hostid \in cmds /\ hostid \notin cmds'
<1>1. hostid \in Cmd
  BY DEF TypeOK, Ack
<1> DEFINE acked == IF hostid \in cmds THEN FlagsAfter(hostid, "WAIT_ACK") ELSE flags
<1>2. acked \in [Cmd -> SUBSET Flag]
  BY <1>1, FlagsAfterType DEF TypeOK, Flag
<1>3. \/ flags' = acked /\ a2e_msg' = a2e_msg
      \/ \E e \in Cmd \ {hostid} :
            /\ flags' = [acked EXCEPT ![e] = @ \ {"WAIT_PUSH"}]
            /\ a2e_msg' = [a2e_msg EXCEPT ![e] = FALSE]
  BY DEF TypeOK, Ack, Push, IsFirst, Deferred
<1>4. flags'[hostid] = acked[hostid] /\ a2e_msg'[hostid] = a2e_msg[hostid]
  <2> HIDE DEF acked
  <2> QED
    BY <1>1, <1>2, <1>3 DEF TypeOK
<1>5. CASE hostid \notin cmds
  BY <1>1, <1>4, <1>5 DEF Ack
<1>6. CASE hostid \in cmds /\ WaitComplete(Answered(hostid, "WAIT_ACK"))
  BY <1>1, <1>4, <1>6 DEF TypeOK, Ack, Completes, CompleteCmd
<1>7. CASE hostid \in cmds /\ ~WaitComplete(Answered(hostid, "WAIT_ACK"))
  <2>1. acked[hostid] = flags[hostid] \ {"WAIT_ACK"}
    BY <1>1, <1>7 DEF TypeOK, FlagsAfter, Answered
  <2> QED
    BY <1>1, <1>4, <1>7, <2>1 DEF TypeOK, Ack, Completes
<1> QED
  BY <1>5, <1>6, <1>7

LEMMA AckMem ==
  ASSUME TypeOK, MemInv, Ack
  PROVE  MemInv'
<1> USE DEF MemInv, ListedIsLive, UnqueuedInv, OwnerInv, KilledInv, Has, Sleeping
<1>1. UNCHANGED callVars /\ cmds' \subseteq Cmd /\ cmds \subseteq Cmd
  BY AckOthers, AckSelf DEF Ack, TypeOK, Completes, CompleteCmd
<1>2. ListedIsLive'
  BY <1>1, AckOthers, AckSelf
<1>3. UnqueuedInv'
  BY <1>1, AckOthers, AckSelf DEF callVars
<1>4. OwnerInv'
  BY <1>1, AckOthers, AckSelf DEF callVars
<1>5. KilledInv'
  BY <1>1 DEF callVars
<1> QED
  BY <1>2, <1>3, <1>4, <1>5

LEMMA ConfirmMem ==
  ASSUME TypeOK, MemInv, NEW x \in Cmd, Confirm(x)
  PROVE  MemInv'
<1> USE DEF TypeOK, MemInv, ListedIsLive, UnqueuedInv, OwnerInv, KilledInv, Has, Sleeping
<1>1. ListedIsLive'
  BY DEF Confirm, FlagsAfter, Answered, Completes, CompleteCmd, WaitComplete,
         IsFirst, callVars
<1>2. UnqueuedInv'
  BY DEF Confirm, FlagsAfter, Answered, Completes, CompleteCmd, WaitComplete,
         IsFirst, callVars
<1>3. OwnerInv'
  BY DEF Confirm, FlagsAfter, Answered, Completes, CompleteCmd, WaitComplete,
         IsFirst, callVars
<1>4. KilledInv'
  BY DEF Confirm, FlagsAfter, Answered, Completes, CompleteCmd, WaitComplete,
         IsFirst, callVars
<1> QED
  BY <1>1, <1>2, <1>3, <1>4

LEMMA DrainMem ==
  ASSUME TypeOK, MemInv, Drain
  PROVE  MemInv'
<1> USE DEF TypeOK, MemInv, ListedIsLive, UnqueuedInv, OwnerInv, KilledInv, Has, Sleeping
<1>1. ListedIsLive'
  BY DEF Drain, callVars
<1>2. UnqueuedInv'
  BY DEF Drain, callVars
<1>3. OwnerInv'
  BY DEF Drain, callVars
<1>4. KilledInv'
  BY DEF Drain, callVars
<1> QED
  BY <1>1, <1>2, <1>3, <1>4
LEMMA UnchangedMem ==
  ASSUME MemInv, UNCHANGED <<cmds, cmdVars, callVars>>
  PROVE  MemInv'
BY DEF MemInv, ListedIsLive, UnqueuedInv, OwnerInv, KilledInv, Has, Sleeping,
       cmdVars, callVars

LEMMA CallerMem ==
  ASSUME TypeOK, MemInv, NEW c \in Cmd, CallerStep(c)
  PROVE  MemInv'
<1>1. CASE Queue(c)
  BY <1>1, QueueMem
<1>2. CASE Wake(c)
  BY <1>2, WakeMem
<1>3. CASE Timeout(c)
  BY <1>3, TimeoutMem
<1>4. CASE TimeoutCrash(c)
  BY <1>4, TimeoutCrashMem, PoisonMem
<1>5. CASE Abandon(c)
  BY <1>5, AbandonMem, PoisonMem
<1>6. CASE ReturnFlagged(c)
  BY <1>6, ReturnFlaggedMem
<1>7. CASE ReturnBlocking(c)
  BY <1>7, ReturnBlockingMem
<1>8. CASE ReturnFreed(c)
  BY <1>8, ReturnFreedMem
<1>9. CASE ReturnNonblock(c)
  BY <1>9, ReturnNonblockMem
<1> QED
  BY <1>1, <1>2, <1>3, <1>4, <1>5, <1>6, <1>7, <1>8, <1>9 DEF CallerStep

LEMMA RestartMem ==
  ASSUME TypeOK, MemInv, Restart
  PROVE  MemInv'
<1>1. CASE Drain
  BY <1>1, DrainMem
<1>2. CASE MgrInit
  BY <1>2 DEF MgrInit, MemInv, ListedIsLive, UnqueuedInv, OwnerInv, KilledInv, Has,
              Sleeping, cmdVars, callVars
<1>3. CASE TriggerRestart \/ IrqsDeinit \/ MgrDeinit \/ RestartDone
  BY <1>3, UnchangedMem DEF TriggerRestart, IrqsDeinit, MgrDeinit, RestartDone, mgrVars
<1> QED
  BY <1>1, <1>2, <1>3 DEF Restart

LEMMA MemStep == TypeOK /\ MemInv /\ [Next]_vars => MemInv'
<1> SUFFICES ASSUME TypeOK, MemInv, [Next]_vars PROVE MemInv'
  OBVIOUS
<1>1. ASSUME NEW c \in UserCmd, Send(c)
      PROVE  MemInv'
  <2>1. PICK k \in UserKinds :
          \E r : Alloc(c, KindFlags[k], r, "NONBLOCK" \notin KindFlags[k])
    BY <1>1 DEF Send
  <2>2. /\ KindFlags[k] \subseteq Flag
        /\ KindFlags[k] \cap {"WAIT_PUSH", "WAIT_ACK", "WAIT_CFM", "DONE"} = {}
    BY ParamAssumption DEF KindFlags, Flag
  <2> QED
    BY <2>1, <2>2, AllocMem, CmdParts, CmdAssumption
<1>2. ASSUME NEW c \in UserCmd, Bypass(c)
      PROVE  MemInv'
  BY <1>2, CmdParts DEF Bypass, TypeOK, MemInv, ListedIsLive, UnqueuedInv, OwnerInv,
                        KilledInv, Has, Sleeping, mgrVars, cmdVars
<1>3. ASSUME NEW c \in UserCmd, Kill(c)
      PROVE  MemInv'
  BY <1>3, KillMem
<1>4. ASSUME NEW c \in SetupCmd, SendSetup(c)
      PROVE  MemInv'
  BY <1>4, AllocMem, CmdParts DEF SendSetup, Flag
<1>5. ASSUME NEW c \in RfCmd, StopBusiness(c)
      PROVE  MemInv'
  BY <1>5, AllocMem, CmdParts DEF StopBusiness, Flag
<1>6. ASSUME NEW c \in RfCmd, StartBusiness(c)
      PROVE  MemInv'
  BY <1>6, AllocMem, CmdParts DEF StartBusiness, Flag
<1>7. ASSUME NEW c \in Cmd, CallerStep(c)
      PROVE  MemInv'
  BY <1>7, CallerMem
<1>8. CASE Firmware
  BY <1>8, AckMem, ConfirmMem DEF Firmware
<1>9. CASE Restart
  BY <1>9, RestartMem
<1>10. CASE Calibration
  BY <1>10, UnchangedMem DEF Calibration, StopReturns, StartSkipped, StartReturns, mgrVars
<1>11. CASE UNCHANGED vars
  BY <1>11, UnchangedMem DEF vars, mgrVars
<1> QED
  BY <1>1, <1>2, <1>3, <1>4, <1>5, <1>6, <1>7, <1>8, <1>9, <1>10, <1>11
     DEF Next, Asleep, Halted

\* No command on the manager's list has been freed, and one that still waits for
\* its push still has the request llind will push: cmd_mgr_llind, cmd_mgr_msgind
\* and cmd_mgr_drain never follow a dangling pointer through the list, whoever was
\* killed, timed out or was drained before.
THEOREM ListIsAlwaysLive == Spec => []ListedIsLive
<1>1. TypeOK /\ MemInv => ListedIsLive
  BY DEF MemInv
<1> QED
  BY InitType, TypeStep, InitMem, MemStep, <1>1, PTL DEF Spec

-----------------------------------------------------------------------------
(* The queue size counts the list. *)

SizeInv == IsFiniteSet(cmds) /\ QueueSzCountsList

LEMMA Fewer ==
  ASSUME TypeOK, SizeInv, NEW c \in cmds, cmds' = cmds \ {c}, queue_sz' = queue_sz - 1
  PROVE  SizeInv'
BY FS_RemoveElement, FS_CardinalityType, ParamAssumption
   DEF TypeOK, SizeInv, QueueSzCountsList

LEMMA Same ==
  ASSUME SizeInv, UNCHANGED <<cmds, queue_sz>>
  PROVE  SizeInv'
BY DEF SizeInv, QueueSzCountsList

LEMMA QueueSize ==
  ASSUME TypeOK, MemInv, SizeInv, NEW c \in Cmd, Queue(c)
  PROVE  SizeInv'
<1>1. CASE Accept(c)
  <2>1. cmds' = cmds \cup {c} /\ queue_sz' = queue_sz + 1 /\ c \notin cmds
    BY <1>1 DEF Queue, Accept, MemInv, UnqueuedInv
  <2>2. cmds = {} \/ queue_sz < MaxQueueSz
    <3>1. cmds' # cmds
      BY <2>1
    <3>2. cmds = {} \/ queue_sz # MaxQueueSz
      BY <3>1 DEF Queue, Refuse, mgrVars, TypeOK
    <3> QED
      BY <3>2, ParamAssumption DEF TypeOK, SizeInv, QueueSzCountsList
  <2> QED
    BY <2>1, <2>2, FS_AddElement, FS_EmptySet, FS_CardinalityType, ParamAssumption
       DEF SizeInv, QueueSzCountsList
<1>2. CASE ~Accept(c)
  BY <1>2, Same DEF Queue, Refuse, mgrVars
<1> QED
  BY <1>1, <1>2
LEMMA CompleteSize ==
  ASSUME TypeOK, SizeInv, NEW c \in cmds, NEW f, Completes(c, f)
  PROVE  SizeInv'
BY Fewer, Same DEF Completes, CompleteCmd

LEMMA CallerSize ==
  ASSUME TypeOK, MemInv, SizeInv, NEW c \in Cmd, CallerStep(c)
  PROVE  SizeInv'
<1>1. CASE Queue(c)
  BY <1>1, QueueSize
<1>2. CASE TimeoutCrash(c)
  <2>1. \/ UNCHANGED <<cmds, queue_sz>>
        \/ c \in cmds /\ cmds' = cmds \ {c} /\ queue_sz' = queue_sz - 1
    BY <1>2 DEF TimeoutCrash, PoisonedListDel, mgrVars
  <2> QED
    BY <2>1, Fewer, Same
<1>3. CASE Abandon(c)
  <2>1. \/ UNCHANGED <<cmds, queue_sz>>
        \/ c \in cmds /\ cmds' = cmds \ {c} /\ queue_sz' = queue_sz - 1
    BY <1>3 DEF Abandon, PoisonedListDel, mgrVars
  <2> QED
    BY <2>1, Fewer, Same
<1>4. CASE Wake(c) \/ Timeout(c)
  BY <1>4, Same DEF Wake, Timeout, mgrVars
<1>5. CASE ReturnFlagged(c) \/ ReturnBlocking(c) \/ ReturnFreed(c) \/ ReturnNonblock(c)
  BY <1>5, Same DEF ReturnFlagged, ReturnBlocking, ReturnFreed, ReturnNonblock, Returns,
                    mgrVars
<1> QED
  BY <1>1, <1>2, <1>3, <1>4, <1>5 DEF CallerStep

LEMMA FirmwareSize ==
  ASSUME TypeOK, SizeInv, Firmware
  PROVE  SizeInv'
<1>1. CASE Ack
  BY <1>1, CompleteSize, Same DEF Ack
<1>2. ASSUME NEW x \in Cmd, Confirm(x)
      PROVE  SizeInv'
  BY <1>2, CompleteSize, Same DEF Confirm
<1> QED
  BY <1>1, <1>2 DEF Firmware

LEMMA RestartSize ==
  ASSUME TypeOK, SizeInv, Restart, rst = "drained" => cmds = {}
  PROVE  SizeInv'
<1>1. CASE Drain
  BY <1>1, FS_EmptySet, ParamAssumption DEF Drain, SizeInv, QueueSzCountsList
<1>2. CASE ~Drain
  BY <1>2, Same DEF Restart, TriggerRestart, IrqsDeinit, MgrDeinit, MgrInit, RestartDone,
                    mgrVars
<1> QED
  BY <1>1, <1>2
\* Once the platform restart has closed the manager nothing enters the list, and
\* the drain leaves it empty.
DrainedInv ==
  /\ rst \in {"deinit", "drained"} => state \in {"DEINIT", "CRASHED"}
  /\ rst = "drained" => cmds = {}

LEMMA DrainedStep == TypeOK /\ DrainedInv /\ [Next]_vars => DrainedInv'
<1> SUFFICES ASSUME TypeOK, DrainedInv, [Next]_vars PROVE DrainedInv'
  OBVIOUS
<1> USE DEF DrainedInv, mgrVars, ctxVars
<1>1. ASSUME NEW c \in Cmd,
             Send(c) \/ Bypass(c) \/ Kill(c) \/ SendSetup(c) \/ StopBusiness(c)
               \/ StartBusiness(c)
      PROVE  DrainedInv'
  BY <1>1 DEF Send, Bypass, Kill, SendSetup, StopBusiness, StartBusiness, Alloc
<1>2. ASSUME NEW c \in Cmd, Queue(c)
      PROVE  DrainedInv'
  <2>1. CASE Accept(c) /\ state \notin {"DEINIT", "CRASHED"}
    BY <2>1 DEF Accept
  <2>2. CASE Refuse(c, "EPERM", "EPIPE") \/ Refuse(c, "EPIPE", "EPIPE")
             \/ Refuse(c, "ENOMEM", "ENOMEM")
    BY <2>2 DEF Refuse
  <2> QED
    BY <1>2, <2>1, <2>2 DEF Queue
<1>3. ASSUME NEW c \in Cmd, TimeoutCrash(c) \/ Abandon(c)
      PROVE  DrainedInv'
  BY <1>3 DEF TimeoutCrash, Abandon, PoisonedListDel
<1>4. ASSUME NEW c \in Cmd,
             Wake(c) \/ Timeout(c) \/ ReturnFlagged(c) \/ ReturnBlocking(c)
               \/ ReturnFreed(c) \/ ReturnNonblock(c)
      PROVE  DrainedInv'
  BY <1>4 DEF Wake, Timeout, ReturnFlagged, ReturnBlocking, ReturnFreed, ReturnNonblock,
              Returns
<1>5. CASE Firmware
  BY <1>5 DEF Firmware, Ack, Confirm, irq
<1>6. CASE Restart
  BY <1>6 DEF Restart, TriggerRestart, IrqsDeinit, MgrDeinit, Drain, MgrInit, RestartDone
<1>7. CASE Calibration
  BY <1>7 DEF Calibration, StopReturns, StartSkipped, StartReturns
<1>8. CASE UNCHANGED vars
  BY <1>8 DEF vars
<1> QED
  BY <1>1, <1>2, <1>3, <1>4, <1>5, <1>6, <1>7, <1>8, CmdParts
     DEF Next, CallerStep, Asleep, Halted

LEMMA SizeStep == TypeOK /\ MemInv /\ DrainedInv /\ SizeInv /\ [Next]_vars => SizeInv'
<1> SUFFICES ASSUME TypeOK, MemInv, DrainedInv, SizeInv, [Next]_vars PROVE SizeInv'
  OBVIOUS
<1>1. ASSUME NEW c \in Cmd,
             Send(c) \/ Bypass(c) \/ Kill(c) \/ SendSetup(c) \/ StopBusiness(c)
               \/ StartBusiness(c)
      PROVE  SizeInv'
  BY <1>1, Same DEF Send, Bypass, Kill, SendSetup, StopBusiness, StartBusiness, Alloc,
                    mgrVars
<1>2. ASSUME NEW c \in Cmd, CallerStep(c)
      PROVE  SizeInv'
  BY <1>2, CallerSize
<1>3. CASE Firmware
  BY <1>3, FirmwareSize
<1>4. CASE Restart
  BY <1>4, RestartSize DEF DrainedInv
<1>5. CASE Calibration
  BY <1>5, Same DEF Calibration, StopReturns, StartSkipped, StartReturns, mgrVars
<1>6. CASE UNCHANGED vars
  BY <1>6, Same DEF vars, mgrVars
<1> QED
  BY <1>1, <1>2, <1>3, <1>4, <1>5, <1>6, CmdParts DEF Next, Asleep, Halted

\* queue_sz, decremented in three places, is the length of the list at every
\* instant and never exceeds the limit cmd_mgr_queue tests for equality only.
THEOREM QueueSzIsTheLength == Spec => []QueueSzCountsList
<1>1. Init => DrainedInv
  BY DEF Init, DrainedInv
<1>2. Init => SizeInv
  BY FS_EmptySet, ParamAssumption DEF Init, SizeInv, QueueSzCountsList
<1>3. SizeInv => QueueSzCountsList
  BY DEF SizeInv
<1> QED
  BY InitType, TypeStep, InitMem, MemStep, <1>1, DrainedStep, <1>2, SizeStep, <1>3,
     PTL DEF Spec

----------------------------------------------------------------------------
(* The command manager keeps the order of its list, serves the mailbox and  *)
(* implements CmdChannel.                                                   *)

\* A non-empty set of naturals has a least element.
LEMMA LeastNat ==
  ASSUME NEW S, S \subseteq Nat, S # {}
  PROVE  \E m \in S : \A n \in S : m <= n
<1>1. OpToRel(<, Nat) = {p \in Nat \X Nat : p[1] < p[2]}
  BY DEF OpToRel
<1>2. PICK m \in S : \A n \in S : <<n, m>> \notin OpToRel(<, Nat)
  BY NatLessThanWellFounded, WFMin
<1>3. ASSUME NEW n \in S
      PROVE  ~(n < m)
  <2> DEFINE p == <<n, m>>
  <2>1. p \in Nat \X Nat /\ p[1] = n /\ p[2] = m
    OBVIOUS
  <2>2. p \notin {q \in Nat \X Nat : q[1] < q[2]}
    BY <1>1, <1>2, Zenon
  <2> QED
    BY <2>1, <2>2
<1> QED
  BY <1>3

-----------------------------------------------------------------------------
(* The list and its tokens *)

\* Tokens grow along the list, which holds only what waits for an answer; what
\* waits for its push waits for its acknowledgement too.
TokenInv ==
  \A c \in cmds :
    /\ tkn[c] < next_tkn
    /\ \A d \in cmds : tkn[c] = tkn[d] => c = d
    /\ ~WaitComplete(flags[c])
    /\ Has(c, "WAIT_PUSH") => Has(c, "WAIT_ACK")

\* The mailbox never names a command that is still to be pushed, and the drain
\* leaves it empty.
SlotInv ==
  /\ hostid # None => pc[hostid] \notin {"idle", "queue"} /\ ~Has(hostid, "WAIT_PUSH")
  /\ rst = "drained" => hostid = None

ListInv == TokenInv /\ SlotInv

\* A non-empty part of the list has a first entry and a last one.
LEMMA FirstOf ==
  ASSUME TypeOK, NEW S, S \subseteq cmds, S # {}
  PROVE  \E c \in S : IsFirst(c, S)
<1> DEFINE T == {tkn[c] : c \in S}
<1>1. PICK m \in T : \A n \in T : m <= n
  <2>1. T \subseteq Nat /\ T # {}
    BY DEF TypeOK
  <2> HIDE DEF T
  <2> QED
    BY <2>1, LeastNat
<1>2. PICK c \in S : m = tkn[c]
  BY <1>1
<1> QED
  BY <1>1, <1>2 DEF IsFirst

LEMMA LastOf ==
  ASSUME TypeOK, TokenInv, NEW S, S \subseteq cmds, S # {}
  PROVE  \E c \in S : \A d \in S : tkn[d] <= tkn[c]
<1> DEFINE T == {next_tkn - tkn[c] : c \in S}
<1>1. PICK m \in T : \A n \in T : m <= n
  <2>1. \A c \in S : next_tkn - tkn[c] \in Nat
    BY DEF TypeOK, TokenInv
  <2>2. T \subseteq Nat /\ T # {}
    BY <2>1
  <2> HIDE DEF T
  <2> QED
    BY <2>2, LeastNat
<1>2. PICK c \in S : m = next_tkn - tkn[c]
  BY <1>1
<1>3. ASSUME NEW d \in S
      PROVE  tkn[d] <= tkn[c]
  <2>1. next_tkn - tkn[c] <= next_tkn - tkn[d]
    BY <1>1, <1>2
  <2> QED
    BY <2>1 DEF TypeOK
<1> QED
  BY <1>3

\* When cmd_mgr_queue does not defer, the last entry it looked at was pushed and
\* acknowledged, and no entry it looked at comes after that one.
LEMMA PushedLast ==
  ASSUME TypeOK, TokenInv, ~MustDefer,
         NEW e \in cmds, ~Has(e, "FORCE_PUSH") \/ Has(e, "WAIT_ACK")
  PROVE  \E l \in cmds :
           /\ tkn[e] <= tkn[l]
           /\ ~Has(l, "FORCE_PUSH") /\ ~Has(l, "WAIT_ACK") /\ ~Has(l, "WAIT_PUSH")
<1> DEFINE seen == {d \in cmds : ~Has(d, "FORCE_PUSH") \/ Has(d, "WAIT_ACK")}
<1>1. PICK l \in seen : \A d \in seen : tkn[d] <= tkn[l]
  <2>1. seen \subseteq cmds /\ seen # {}
    OBVIOUS
  <2> HIDE DEF seen
  <2> QED
    BY <2>1, LastOf
<1>2. QueuedBehind(l)
  BY <1>1 DEF QueuedBehind
<1> QED
  BY <1>1, <1>2 DEF MustDefer

-----------------------------------------------------------------------------
(* Nothing overtakes a deferred command. *)

OrderedInv == ListInv /\ NoOvertaking

\* A step that leaves the listed commands, their tokens and the mailbox alone.
LEMMA SameOrder ==
  ASSUME TypeOK, OrderedInv, UNCHANGED <<cmds, next_tkn, tkn, hostid>>,
         \A d \in cmds \cup ({hostid} \ {None}) : flags'[d] = flags[d],
         hostid # None => pc'[hostid] \notin {"idle", "queue"},
         rst' = "drained" => rst = "drained"
  PROVE  OrderedInv'
<1>1. ListInv'
  BY DEF OrderedInv, ListInv, TokenInv, SlotInv, Has
<1>2. NoOvertaking'
  BY DEF OrderedInv, NoOvertaking, Has
<1> QED
  BY <1>1, <1>2 DEF OrderedInv

LEMMA AllocOrder ==
  ASSUME TypeOK, MemInv, OrderedInv, NEW c \in Cmd, NEW f, NEW r, NEW block,
         Alloc(c, f, r, block), rst' = "drained" => rst = "drained"
  PROVE  OrderedInv'
<1>1. c \notin cmds /\ (hostid # None => c # hostid)
  BY DEF Alloc, MemInv, UnqueuedInv, OrderedInv, ListInv, SlotInv
<1>2. UNCHANGED <<cmds, next_tkn, tkn, hostid>>
  BY DEF Alloc, mgrVars, fwVars
<1>3. \A d \in cmds \cup ({hostid} \ {None}) : flags'[d] = flags[d]
  BY <1>1 DEF Alloc, TypeOK
<1>4. hostid # None => pc'[hostid] \notin {"idle", "queue"}
  BY <1>1 DEF Alloc, TypeOK, OrderedInv, ListInv, SlotInv
<1> QED
  BY <1>2, <1>3, <1>4, SameOrder

\* A step of the calls that moves none of them back to its start.
LEMMA QuietOrder ==
  ASSUME TypeOK, OrderedInv, NEW c \in Cmd, NEW p \in Pc \ {"idle", "queue"},
         pc' = [pc EXCEPT ![c] = p], UNCHANGED <<mgrVars, flags, tkn, hostid, rst>>
  PROVE  OrderedInv'
<1>1. hostid # None => pc'[hostid] \notin {"idle", "queue"}
  BY DEF TypeOK, OrderedInv, ListInv, SlotInv
<1> QED
  BY <1>1, SameOrder DEF mgrVars

LEMMA AcceptOrder ==
  ASSUME TypeOK, MemInv, DrainedInv, OrderedInv, NEW c \in Cmd, pc[c] = "queue", Accept(c),
         state \in {"INITED", "PAUSED"}
  PROVE  OrderedInv'
<1>1. /\ c \notin cmds
      /\ flags[c] \cap {"WAIT_PUSH", "WAIT_ACK", "WAIT_CFM", "DONE"} = {}
      /\ hostid # None => c # hostid
  BY DEF MemInv, UnqueuedInv, OrderedInv, ListInv, SlotInv
<1>2. /\ cmds' = cmds \cup {c} /\ cmds \subseteq Cmd
      /\ next_tkn' = next_tkn + 1 /\ next_tkn \in Nat
      /\ tkn'[c] = next_tkn
      /\ \A d \in Cmd \ {c} : /\ tkn'[d] = tkn[d] /\ tkn[d] \in Nat
                              /\ flags'[d] = flags[d]
      /\ "WAIT_ACK" \in flags'[c]
      /\ "WAIT_PUSH" \in flags'[c] <=> Defers(c)
      /\ "FORCE_PUSH" \in flags'[c] <=> Has(c, "FORCE_PUSH")
  BY <1>1 DEF Accept, TypeOK, Has
<1>3. TokenInv'
  <2>1. ASSUME NEW d \in cmds
        PROVE  /\ tkn'[d] < next_tkn' /\ tkn'[d] # tkn'[c]
               /\ ~WaitComplete(flags'[d])
               /\ "WAIT_PUSH" \in flags'[d] => "WAIT_ACK" \in flags'[d]
               /\ \A e \in cmds : tkn'[d] = tkn'[e] => d = e
    <3>1. d \in Cmd \ {c} /\ cmds \subseteq Cmd \ {c}
      BY <1>1, <1>2
    <3>2. /\ tkn[d] < next_tkn /\ ~WaitComplete(flags[d])
          /\ "WAIT_PUSH" \in flags[d] => "WAIT_ACK" \in flags[d]
          /\ \A e \in cmds : tkn[d] = tkn[e] => d = e
      BY DEF OrderedInv, ListInv, TokenInv, Has
    <3> QED
      BY <1>2, <3>1, <3>2
  <2>2. ~WaitComplete(flags'[c]) /\ tkn'[c] < next_tkn'
    BY <1>2 DEF WaitComplete
  <2> QED
    BY <1>2, <2>1, <2>2 DEF TokenInv, Has
<1>4. SlotInv'
  <2>1. hostid' = hostid \/ (hostid' = c /\ ~Defers(c))
    BY DEF Accept, Push
  <2>2. rst' = rst /\ rst # "drained"
    BY DEF Accept, ctxVars, DrainedInv
  <2>3. hostid' # None => pc'[hostid'] \notin {"idle", "queue"}
    BY <2>1 DEF Accept, TypeOK, OrderedInv, ListInv, SlotInv
  <2>4. hostid' # None => "WAIT_PUSH" \notin flags'[hostid']
    BY <1>1, <1>2, <2>1 DEF TypeOK, OrderedInv, ListInv, SlotInv, Has
  <2> QED
    BY <2>2, <2>3, <2>4 DEF SlotInv, Has
<1>5. NoOvertaking'
  <2>1. ASSUME NEW d \in cmds', NEW e \in cmds', Has(d, "WAIT_PUSH")', tkn'[d] < tkn'[e]
        PROVE  Has(e, "WAIT_PUSH")' \/ Has(e, "FORCE_PUSH")'
    <3>1. CASE e \in cmds
      <4>1. d \in cmds
        BY <1>1, <1>2, <2>1, <3>1 DEF OrderedInv, ListInv, TokenInv
      <4> QED
        BY <1>1, <1>2, <2>1, <3>1, <4>1 DEF OrderedInv, NoOvertaking, Has
    <3>2. CASE e = c /\ ~Has(c, "FORCE_PUSH")
      <4>1. d \in cmds /\ Has(d, "WAIT_PUSH")
        BY <1>1, <1>2, <2>1, <3>2 DEF Has
      <4>2. Has(d, "WAIT_ACK")
        BY <4>1 DEF OrderedInv, ListInv, TokenInv
      <4>3. CASE ~MustDefer
        <5>1. PICK l \in cmds : /\ tkn[d] <= tkn[l] /\ ~Has(l, "FORCE_PUSH")
                                /\ ~Has(l, "WAIT_ACK") /\ ~Has(l, "WAIT_PUSH")
          BY <4>1, <4>2, <4>3, PushedLast DEF OrderedInv, ListInv
        <5>2. tkn[d] # tkn[l]
          BY <4>1, <5>1 DEF OrderedInv, ListInv, TokenInv
        <5>3. tkn[d] < tkn[l]
          BY <4>1, <5>1, <5>2 DEF TypeOK
        <5> QED
          BY <4>1, <5>1, <5>3 DEF OrderedInv, NoOvertaking
      <4>4. CASE MustDefer
        BY <1>2, <3>2, <4>4 DEF Defers, Has
      <4> QED
        BY <4>3, <4>4
    <3>3. CASE e = c /\ Has(c, "FORCE_PUSH")
      BY <1>2, <3>3 DEF Has
    <3> QED
      BY <1>2, <2>1, <3>1, <3>2, <3>3
  <2> QED
    BY <2>1 DEF NoOvertaking
<1> QED
  BY <1>3, <1>4, <1>5 DEF OrderedInv, ListInv

\* A step that at most takes commands off the list, and leaves the marks the order
\* is about on the others.
Marks == {"WAIT_ACK", "WAIT_PUSH", "FORCE_PUSH"}

LEMMA FewerOrder ==
  ASSUME TypeOK, OrderedInv, UNCHANGED <<next_tkn, tkn, hostid>>, cmds' \subseteq cmds,
         \A d \in cmds' : /\ flags'[d] \cap Marks = flags[d] \cap Marks
                          /\ ~WaitComplete(flags'[d]),
         hostid # None => pc'[hostid] \notin {"idle", "queue"}
                          /\ "WAIT_PUSH" \notin flags'[hostid],
         rst' = "drained" => rst = "drained"
  PROVE  OrderedInv'
<1>1. \A d \in cmds' : \A m \in Marks : m \in flags'[d] <=> m \in flags[d]
  OBVIOUS
<1>2. TokenInv'
  BY <1>1 DEF OrderedInv, ListInv, TokenInv, Has, Marks
<1>3. SlotInv'
  BY DEF OrderedInv, ListInv, SlotInv, Has
<1>4. NoOvertaking'
  BY <1>1 DEF OrderedInv, NoOvertaking, Has, Marks
<1> QED
  BY <1>2, <1>3, <1>4 DEF OrderedInv, ListInv

LEMMA TimeoutCrashOrder ==
  ASSUME TypeOK, OrderedInv, NEW c \in Cmd, TimeoutCrash(c), ~PoisonedListDel
  PROVE  OrderedInv'
<1>1. /\ UNCHANGED <<next_tkn, tkn, hostid, rst>>
      /\ pc' = [pc EXCEPT ![c] = "return"]
      /\ \/ cmds' = cmds /\ flags' = flags
         \/ cmds' = cmds \ {c} /\ flags' = [flags EXCEPT ![c] = @ \cup {"DONE"}]
  BY DEF TimeoutCrash, fwVars, ctxVars
<1>2. \A d \in cmds' : flags'[d] = flags[d] /\ ~WaitComplete(flags[d])
  BY <1>1 DEF TypeOK, OrderedInv, ListInv, TokenInv
<1>3. hostid # None => pc'[hostid] \notin {"idle", "queue"} /\ "WAIT_PUSH" \notin flags'[hostid]
  BY <1>1 DEF TypeOK, OrderedInv, ListInv, SlotInv, Has
<1> QED
  BY <1>1, <1>2, <1>3, FewerOrder

LEMMA AbandonOrder ==
  ASSUME TypeOK, OrderedInv, NEW c \in Cmd, Abandon(c), ~PoisonedListDel
  PROVE  OrderedInv'
<1>1. /\ UNCHANGED <<next_tkn, tkn, hostid, rst>>
      /\ pc' = [pc EXCEPT ![c] = "return"]
      /\ \/ cmds' = cmds /\ flags' = flags
         \/ cmds' = cmds /\ flags' = [flags EXCEPT ![c] = @ \cup {"NONBLOCK"}]
         \/ cmds' = cmds \ {c} /\ flags' = [flags EXCEPT ![c] = @ \ {"WAIT_PUSH"}]
  BY DEF Abandon, fwVars, ctxVars
<1>2. \A d \in cmds' : flags'[d] = flags[d] \/ flags'[d] = flags[d] \cup {"NONBLOCK"}
  BY <1>1 DEF TypeOK
<1>3. \A d \in cmds' : /\ flags'[d] \cap Marks = flags[d] \cap Marks
                       /\ ~WaitComplete(flags'[d])
  BY <1>1, <1>2 DEF OrderedInv, ListInv, TokenInv, Marks, WaitComplete
<1>4. hostid # None => pc'[hostid] \notin {"idle", "queue"} /\ "WAIT_PUSH" \notin flags'[hostid]
  BY <1>1 DEF TypeOK, OrderedInv, ListInv, SlotInv, Has
<1> QED
  BY <1>1, <1>3, <1>4, FewerOrder

\* What a confirmation does to the list: the answered command has one flag less, or
\* is gone.
LEMMA ConfirmList ==
  ASSUME TypeOK, NEW x \in Cmd, Confirm(x)
  PROVE  /\ cmds' \subseteq cmds
         /\ UNCHANGED <<state, next_tkn, tkn, hostid>>
         /\ \A d \in cmds' :
              \/ flags'[d] = flags[d]
              \/ /\ flags'[d] = flags[d] \ {"WAIT_CFM"}
                 /\ ~WaitComplete(flags'[d])
         /\ \A d \in cmds \ cmds' : Has(d, "WAIT_CFM") /\ ~Has(d, "WAIT_ACK")
         /\ \A d \in Cmd : /\ flags'[d] \cap Marks = flags[d] \cap Marks
                           /\ Has(d, "REQ_CFM")' = Has(d, "REQ_CFM")
                           /\ d \notin cmds => flags'[d] = flags[d]
<1>1. CASE UNCHANGED <<cmds, flags>>
  BY <1>1 DEF Confirm, Has
<1>2. ASSUME NEW d \in cmds, Has(d, "WAIT_CFM"),
             flags' = FlagsAfter(d, "WAIT_CFM"), Completes(d, "WAIT_CFM")
      PROVE  /\ cmds' = cmds \ {d} \/ (cmds' = cmds /\ ~WaitComplete(Answered(d, "WAIT_CFM")))
             /\ cmds' = cmds \/ (WaitComplete(Answered(d, "WAIT_CFM")) /\ ~Has(d, "WAIT_ACK"))
             /\ \A e \in Cmd \ {d} : flags'[e] = flags[e]
             /\ flags'[d] = Answered(d, "WAIT_CFM") \/
                (cmds' = cmds \ {d} /\ flags'[d] = Answered(d, "WAIT_CFM") \cup {"DONE"})
  <2>1. WaitComplete(Answered(d, "WAIT_CFM")) => ~Has(d, "WAIT_ACK")
    BY DEF WaitComplete, Answered, Has
  <2>2. d \in Cmd
    BY DEF TypeOK
  <2>3. \A e \in Cmd \ {d} : flags'[e] = flags[e]
    BY <1>2, <2>2 DEF FlagsAfter, TypeOK
  <2>4. flags'[d] = Answered(d, "WAIT_CFM") \cup
                       (IF WaitComplete(Answered(d, "WAIT_CFM")) THEN {"DONE"} ELSE {})
    BY <1>2, <2>2 DEF FlagsAfter, TypeOK
  <2>5. IF WaitComplete(Answered(d, "WAIT_CFM")) THEN cmds' = cmds \ {d} ELSE cmds' = cmds
    BY <1>2 DEF Completes, CompleteCmd
  <2> QED
    BY <2>1, <2>3, <2>4, <2>5
<1>3. UNCHANGED <<state, next_tkn, tkn, hostid>>
  BY DEF Confirm
<1>4. CASE ~UNCHANGED <<cmds, flags>>
  <2>1. PICK d \in cmds : /\ Has(d, "WAIT_CFM")
                          /\ flags' = FlagsAfter(d, "WAIT_CFM") /\ Completes(d, "WAIT_CFM")
    BY <1>4 DEF Confirm
  <2>2. /\ cmds' = cmds \ {d} \/ (cmds' = cmds /\ ~WaitComplete(flags[d] \ {"WAIT_CFM"}))
        /\ cmds' = cmds \/ ~Has(d, "WAIT_ACK")
        /\ \A e \in Cmd \ {d} : flags'[e] = flags[e]
        /\ flags'[d] = flags[d] \ {"WAIT_CFM"} \/
           (cmds' = cmds \ {d} /\ flags'[d] = (flags[d] \ {"WAIT_CFM"}) \cup {"DONE"})
    BY <1>2, <2>1 DEF Answered
  <2>3. d \in Cmd /\ cmds \subseteq Cmd
    BY DEF TypeOK
  <2>4. \A e \in cmds' : \/ flags'[e] = flags[e]
                         \/ /\ flags'[e] = flags[e] \ {"WAIT_CFM"}
                            /\ ~WaitComplete(flags'[e])
    BY <2>2, <2>3
  <2>5. \A e \in Cmd : /\ flags'[e] \cap Marks = flags[e] \cap Marks
                       /\ Has(e, "REQ_CFM")' = Has(e, "REQ_CFM")
                       /\ e \notin cmds => flags'[e] = flags[e]
    BY <2>2, <2>3 DEF Marks, Has
  <2> QED
    BY <1>3, <2>1, <2>2, <2>4, <2>5
<1> QED
  BY <1>1, <1>3, <1>4

LEMMA ConfirmOrder ==
  ASSUME TypeOK, OrderedInv, NEW x \in Cmd, Confirm(x)
  PROVE  OrderedInv'
<1>1. UNCHANGED <<pc, rst>>
  BY DEF Confirm, callVars, ctxVars
<1>2. \A d \in cmds' : flags'[d] \cap Marks = flags[d] \cap Marks /\ ~WaitComplete(flags'[d])
  BY ConfirmList DEF OrderedInv, ListInv, TokenInv, TypeOK
<1>3. hostid # None => pc'[hostid] \notin {"idle", "queue"} /\ "WAIT_PUSH" \notin flags'[hostid]
  BY <1>1, ConfirmList DEF OrderedInv, ListInv, SlotInv, TypeOK, Marks, Has
<1> QED
  BY <1>1, <1>2, <1>3, ConfirmList, FewerOrder

\* What an acknowledgement does to the list: the command the mailbox named waits on
\* for its confirmation or is gone, and the first deferred one takes its place in
\* the mailbox, unless there is none or the manager pauses.
AckEmpties ==
  /\ hostid' = None
  /\ \A d \in Cmd \ {hostid} : flags'[d] = flags[d]
  /\ state' = "PAUSED" \/ Deferred = {}

AckPushes(d) ==
  /\ d \in Deferred /\ IsFirst(d, Deferred) /\ d # hostid
  /\ hostid' = d
  /\ flags'[d] = flags[d] \ {"WAIT_PUSH"}
  /\ \A e \in Cmd \ {d, hostid} : flags'[e] = flags[e]
  /\ state' # "PAUSED"

AckAnswers ==
  /\ hostid \in Cmd
  /\ cmds' \subseteq cmds /\ cmds \ cmds' \subseteq {hostid}
  /\ UNCHANGED <<next_tkn, tkn>>
  /\ IF hostid \in cmds
       THEN /\ flags'[hostid] \ {"DONE"} = flags[hostid] \ {"WAIT_ACK", "DONE"}
            /\ hostid \in cmds' => ~WaitComplete(flags'[hostid])
            /\ hostid \notin cmds' => "DONE" \in flags'[hostid]
       ELSE flags'[hostid] = flags[hostid]

LEMMA AckList ==
  ASSUME TypeOK, MemInv, SlotInv, Ack
  PROVE  AckAnswers /\ (AckEmpties \/ \E d \in cmds : AckPushes(d))
<1> DEFINE acked == IF hostid \in cmds THEN FlagsAfter(hostid, "WAIT_ACK") ELSE flags
           ahead == Deferred \ {hostid}
           next  == {d \in ahead : IsFirst(d, ahead) /\ a2e_msg[d]}
<1>1. hostid \in Cmd /\ UNCHANGED <<next_tkn, tkn>>
  BY DEF TypeOK, Ack
<1>2. acked \in [Cmd -> SUBSET Flag]
  BY <1>1, FlagsAfterType DEF TypeOK, Flag
<1>3. \A d \in Cmd \ {hostid} : acked[d] = flags[d]
  BY <1>1 DEF TypeOK, FlagsAfter
<1>4. hostid \in cmds => acked[hostid] = Answered(hostid, "WAIT_ACK") \cup
         (IF WaitComplete(Answered(hostid, "WAIT_ACK")) THEN {"DONE"} ELSE {})
  BY <1>1 DEF TypeOK, FlagsAfter
<1>5. hostid \in cmds => IF WaitComplete(Answered(hostid, "WAIT_ACK"))
                           THEN cmds' = cmds \ {hostid} ELSE cmds' = cmds
  BY DEF Ack, Completes, CompleteCmd
<1>6. hostid \notin cmds => cmds' = cmds
  BY DEF Ack
<1>7. \/ /\ flags' = acked /\ hostid' = None
         /\ next = {} \/ state' = "PAUSED"
      \/ \E d \in next : /\ flags' = [acked EXCEPT ![d] = @ \ {"WAIT_PUSH"}]
                         /\ hostid' = d /\ state' # "PAUSED"
  BY DEF Ack, Push
<1>8. ahead = Deferred /\ Deferred \subseteq cmds /\ cmds \subseteq Cmd /\ hostid # None
  BY DEF Ack, SlotInv, Deferred, TypeOK
<1>9. next = {} => Deferred = {}
  <2>1. ASSUME Deferred # {} PROVE next # {}
    <3>1. PICK d \in Deferred : IsFirst(d, Deferred)
      BY <1>8, <2>1, FirstOf
    <3>2. a2e_msg[d]
      BY <1>8 DEF MemInv, ListedIsLive, Deferred
    <3> QED
      BY <1>8, <3>1, <3>2
  <2> QED
    BY <2>1
<1> HIDE DEF acked
<1>10. AckAnswers
  <2>1. flags'[hostid] = acked[hostid]
    BY <1>1, <1>2, <1>7
  <2>2. CASE hostid \notin cmds
    BY <1>1, <1>6, <2>1, <2>2 DEF AckAnswers, acked
  <2>3. CASE hostid \in cmds
    <3>1. flags'[hostid] \ {"DONE"} = flags[hostid] \ {"WAIT_ACK", "DONE"}
      BY <1>4, <2>1, <2>3 DEF Answered
    <3>2. hostid \in cmds' => ~WaitComplete(flags'[hostid])
      BY <1>4, <1>5, <2>1, <2>3
    <3>3. hostid \notin cmds' => "DONE" \in flags'[hostid]
      BY <1>4, <1>5, <2>1, <2>3
    <3>4. cmds' \subseteq cmds /\ cmds \ cmds' \subseteq {hostid}
      BY <1>5, <2>3
    <3> QED
      BY <1>1, <2>3, <3>1, <3>2, <3>3, <3>4 DEF AckAnswers
  <2> QED
    BY <2>2, <2>3
<1>11. CASE flags' = acked /\ hostid' = None /\ (next = {} \/ state' = "PAUSED")
  BY <1>3, <1>9, <1>10, <1>11 DEF AckEmpties
<1>12. ASSUME NEW d \in next, flags' = [acked EXCEPT ![d] = @ \ {"WAIT_PUSH"}],
              hostid' = d, state' # "PAUSED"
       PROVE  AckPushes(d) /\ d \in cmds
  <2>1. d \in Deferred /\ IsFirst(d, Deferred) /\ d # hostid
    BY <1>8
  <2>2. d \in cmds /\ d \in Cmd
    BY <1>8, <2>1
  <2>3. flags'[d] = flags[d] \ {"WAIT_PUSH"}
    BY <1>2, <1>3, <1>12, <2>1, <2>2
  <2>4. \A e \in Cmd \ {d, hostid} : flags'[e] = flags[e]
    BY <1>2, <1>3, <1>12, <2>2
  <2> QED
    BY <1>12, <2>1, <2>2, <2>3, <2>4 DEF AckPushes
<1> QED
  BY <1>7, <1>10, <1>11, <1>12

\* The same, command by command.
LEMMA AckEach ==
  ASSUME TypeOK, MemInv, SlotInv, Ack, NEW e \in cmds'
  PROVE  /\ e \in cmds
         /\ Has(e, "FORCE_PUSH")' = Has(e, "FORCE_PUSH")
         /\ Has(e, "WAIT_ACK")' <=> Has(e, "WAIT_ACK") /\ e # hostid
         /\ Has(e, "WAIT_PUSH")' <=> Has(e, "WAIT_PUSH") /\ hostid' # e
         /\ TokenInv => ~WaitComplete(flags'[e])
<1>1. e \in cmds /\ e \in Cmd /\ hostid \in Cmd
  BY AckList DEF TypeOK, AckAnswers
<1>2. CASE e = hostid
  <2>1. /\ flags'[e] \ {"DONE"} = flags[e] \ {"WAIT_ACK", "DONE"}
        /\ ~WaitComplete(flags'[e])
    BY <1>1, <1>2, AckList DEF AckAnswers
  <2>2. "WAIT_PUSH" \notin flags[e]
    BY <1>2, CmdAssumption, <1>1 DEF SlotInv, Has
  <2> QED
    BY <1>1, <1>2, <2>1, <2>2 DEF Has
<1>3. CASE e # hostid /\ AckEmpties
  <2>1. flags'[e] = flags[e] /\ hostid' # e
    BY <1>1, <1>3, CmdAssumption DEF AckEmpties
  <2> QED
    BY <1>1, <1>3, <2>1 DEF Has, TokenInv
<1>4. ASSUME NEW d \in cmds, AckPushes(d), e # hostid
      PROVE  /\ Has(e, "FORCE_PUSH")' = Has(e, "FORCE_PUSH")
             /\ Has(e, "WAIT_ACK")' = Has(e, "WAIT_ACK")
             /\ Has(e, "WAIT_PUSH")' <=> Has(e, "WAIT_PUSH") /\ hostid' # e
             /\ TokenInv => ~WaitComplete(flags'[e])
  <2>1. CASE e = d
    BY <1>1, <1>4, <2>1 DEF AckPushes, Has, TokenInv, WaitComplete
  <2>2. CASE e # d
    BY <1>1, <1>4, <2>2 DEF AckPushes, Has, TokenInv
  <2> QED
    BY <2>1, <2>2
<1> QED
  BY <1>1, <1>2, <1>3, <1>4, AckList

LEMMA AckOrder ==
  ASSUME TypeOK, MemInv, OrderedInv, Ack
  PROVE  OrderedInv'
<1>1. SlotInv /\ TokenInv
  BY DEF OrderedInv, ListInv
<1>2. /\ UNCHANGED <<pc, rst, tkn, next_tkn>> /\ rst # "drained"
      /\ cmds' \subseteq cmds /\ cmds \subseteq Cmd
  BY <1>1, AckList DEF Ack, callVars, ctxVars, irq, AckAnswers, TypeOK
<1>3. TokenInv'
  <2>1. ASSUME NEW e \in cmds'
        PROVE  /\ ~WaitComplete(flags'[e])
               /\ Has(e, "WAIT_PUSH")' => Has(e, "WAIT_ACK")'
    <3>1. Has(e, "WAIT_PUSH") => e # hostid
      BY <1>1, <1>2, CmdAssumption DEF SlotInv
    <3> QED
      BY <1>1, <3>1, AckEach DEF TokenInv
  <2> QED
    BY <1>1, <1>2, <2>1 DEF TokenInv
<1>4. SlotInv'
  <2>1. CASE hostid' = None
    BY <1>2, <2>1 DEF SlotInv
  <2>2. ASSUME NEW d \in cmds, AckPushes(d)
        PROVE  SlotInv'
    BY <1>2, <2>2 DEF AckPushes, SlotInv, MemInv, UnqueuedInv, Has
  <2> QED
    BY <1>1, <2>1, <2>2, AckList DEF AckEmpties
<1>5. NoOvertaking'
  <2> SUFFICES ASSUME NEW e \in cmds', NEW f \in cmds', Has(e, "WAIT_PUSH")', tkn[e] < tkn[f]
               PROVE  Has(f, "WAIT_PUSH")' \/ Has(f, "FORCE_PUSH")'
    BY <1>2 DEF NoOvertaking
  <2>1. e \in cmds /\ f \in cmds /\ Has(e, "WAIT_PUSH")
    BY <1>1, AckEach
  <2>2. Has(f, "WAIT_PUSH") \/ Has(f, "FORCE_PUSH")
    BY <2>1 DEF OrderedInv, NoOvertaking
  <2>3. CASE Has(f, "FORCE_PUSH") \/ hostid' # f
    BY <1>1, <2>2, <2>3, AckEach
  <2>4. CASE hostid' = f
    <3>1. IsFirst(f, Deferred)
      BY <1>1, <1>2, <2>1, <2>4, AckList, CmdAssumption DEF AckEmpties, AckPushes
    <3>2. tkn[f] <= tkn[e]
      BY <2>1, <3>1 DEF IsFirst, Deferred
    <3> QED
      BY <1>2, <2>1, <3>2 DEF TypeOK
  <2> QED
    BY <2>3, <2>4
<1> QED
  BY <1>3, <1>4, <1>5 DEF OrderedInv, ListInv

LEMMA CallerOrder ==
  ASSUME TypeOK, MemInv, DrainedInv, OrderedInv, NEW c \in Cmd, CallerStep(c)
  PROVE  OrderedInv'
<1>1. CASE Queue(c)
  <2>1. CASE Accept(c) /\ state \in {"INITED", "PAUSED"}
    BY <1>1, <2>1, AcceptOrder DEF Queue
  <2>2. CASE Refuse(c, "EPERM", "EPIPE") \/ Refuse(c, "EPIPE", "EPIPE")
             \/ Refuse(c, "ENOMEM", "ENOMEM")
    BY <2>2, QuietOrder DEF Refuse, fwVars, ctxVars, Pc
  <2> QED
    BY <1>1, <2>1, <2>2 DEF Queue, TypeOK
<1>2. CASE Wake(c) \/ Timeout(c)
  BY <1>2, QuietOrder DEF Wake, Timeout, cmdVars, fwVars, ctxVars, Pc
<1>3. CASE PoisonedListDel
  BY <1>3, SameOrder DEF PoisonedListDel, mgrVars, cmdVars, callVars, fwVars, ctxVars,
                         OrderedInv, ListInv, SlotInv
<1>4. CASE TimeoutCrash(c) /\ ~PoisonedListDel
  BY <1>4, TimeoutCrashOrder
<1>5. CASE Abandon(c) /\ ~PoisonedListDel
  BY <1>5, AbandonOrder
<1>6. CASE ReturnFlagged(c) \/ ReturnBlocking(c) \/ ReturnFreed(c) \/ ReturnNonblock(c)
  BY <1>6, QuietOrder DEF ReturnFlagged, ReturnBlocking, ReturnFreed, ReturnNonblock,
                          Returns, fwVars, ctxVars, Pc
<1> QED
  BY <1>1, <1>2, <1>3, <1>4, <1>5, <1>6 DEF CallerStep

LEMMA RestartOrder ==
  ASSUME TypeOK, DrainedInv, OrderedInv, Restart
  PROVE  OrderedInv'
<1>1. CASE Drain
  BY <1>1 DEF Drain, OrderedInv, ListInv, TokenInv, SlotInv, NoOvertaking
<1>2. CASE MgrInit
  BY <1>2 DEF MgrInit, OrderedInv, ListInv, TokenInv, SlotInv, NoOvertaking, fwVars,
              callVars, cmdVars, Has
<1>3. CASE TriggerRestart \/ IrqsDeinit \/ MgrDeinit \/ RestartDone
  BY <1>3, SameOrder DEF TriggerRestart, IrqsDeinit, MgrDeinit, RestartDone, mgrVars,
                         cmdVars, callVars, fwVars, OrderedInv, ListInv, SlotInv
<1> QED
  BY <1>1, <1>2, <1>3 DEF Restart

LEMMA OrderStep ==
  TypeOK /\ MemInv /\ DrainedInv /\ OrderedInv /\ [Next]_vars => OrderedInv'
<1> SUFFICES ASSUME TypeOK, MemInv, DrainedInv, OrderedInv, [Next]_vars
             PROVE  OrderedInv'
  OBVIOUS
<1>1. ASSUME NEW c \in Cmd, Send(c) \/ SendSetup(c) \/ StopBusiness(c) \/ StartBusiness(c)
      PROVE  OrderedInv'
  BY <1>1, AllocOrder DEF Send, SendSetup, StopBusiness, StartBusiness, ctxVars
<1>2. ASSUME NEW c \in Cmd, Bypass(c) \/ Kill(c)
      PROVE  OrderedInv'
  BY <1>2, QuietOrder DEF Bypass, Kill, cmdVars, fwVars, ctxVars, Pc
<1>3. ASSUME NEW c \in Cmd, CallerStep(c)
      PROVE  OrderedInv'
  BY <1>3, CallerOrder
<1>4. CASE Firmware
  BY <1>4, AckOrder, ConfirmOrder DEF Firmware
<1>5. CASE Restart
  BY <1>5, RestartOrder
<1>6. CASE Calibration
  BY <1>6, SameOrder DEF Calibration, StopReturns, StartSkipped, StartReturns, mgrVars,
                         cmdVars, callVars, fwVars, OrderedInv, ListInv, SlotInv
<1>7. CASE UNCHANGED vars
  BY <1>7, SameOrder DEF vars, mgrVars, cmdVars, callVars, fwVars, ctxVars, OrderedInv,
                         ListInv, SlotInv
<1> QED
  BY <1>1, <1>2, <1>3, <1>4, <1>5, <1>6, <1>7, CmdParts DEF Next, Asleep, Halted

LEMMA InitOrder == Init => DrainedInv /\ OrderedInv
BY DEF Init, DrainedInv, OrderedInv, ListInv, TokenInv, SlotInv, NoOvertaking

\* Whatever times out, is killed, drained or calibrated, commands are pushed in the
\* order of the list: cmd_mgr_queue never hands over a command queued behind one
\* that llind has yet to push, unless it is force pushed.
THEOREM NothingOvertakes == Spec => []NoOvertaking
<1>1. OrderedInv => NoOvertaking
  BY DEF OrderedInv
<1> QED
  BY InitType, TypeStep, InitMem, MemStep, DrainedStep, InitOrder, OrderStep, <1>1,
     PTL DEF Spec

-----------------------------------------------------------------------------
(* The calls of the RF thread *)

RfMarks == {"FORCE_PUSH", "ASK_PAUSE", "ASK_RESUME"}
Asked == RfMarks \cup {"REQ_CFM"}

\* Only RF_EVENT_START_BUSINESS is force pushed and only the RF thread's requests
\* pause and resume the manager; that thread has one of them under way at a time.
RfCallInv ==
  /\ \A c \in Cmd : flags[c] \cap RfMarks # {} => c \in RfCmd
  /\ \A c \in RfCmd : pc[c] \notin {"idle", "done"} => c = rfcmd
  /\ \A c \in RfCmd : pc[c] \in {"idle", "queue"} => result[c] # "OK"
  /\ \A c \in RfCmd : pc[c] # "idle" => blocking[c]
  /\ rf \in {"stopping", "starting"} => rfcmd \in RfCmd /\ pc[rfcmd] # "idle"
  /\ rf \in {"idle", "stopped"} => rfcmd = None
  /\ rf = "stopping" => flags[rfcmd] \cap Asked = {"ASK_PAUSE", "REQ_CFM"}
  /\ rf = "starting" => flags[rfcmd] \cap RfMarks = {"FORCE_PUSH", "ASK_RESUME"}

LEMMA QuietRf ==
  ASSUME TypeOK, RfCallInv, UNCHANGED <<rf, rfcmd, blocking>>,
         \A d \in Cmd : flags'[d] \cap Asked = flags[d] \cap Asked,
         \A d \in RfCmd :
           /\ pc[d] \in {"idle", "done"} => pc'[d] = pc[d]
           /\ pc'[d] \in {"idle", "queue"} => pc'[d] = pc[d] /\ result'[d] = result[d]
  PROVE  RfCallInv'
<1>1. \A d \in Cmd : flags'[d] \cap RfMarks = flags[d] \cap RfMarks
  BY DEF Asked
<1> QED
  BY <1>1, CmdParts DEF RfCallInv

LEMMA AllocRf ==
  ASSUME TypeOK, RfCallInv, NEW c \in UserCmd \cup SetupCmd, NEW f, NEW r, NEW block,
         Alloc(c, f, r, block), f \cap RfMarks = {}, UNCHANGED <<rf, rfcmd>>
  PROVE  RfCallInv'
<1>1. c \in Cmd /\ c \notin RfCmd
  BY CmdParts, CmdAssumption
<1>2. /\ \A d \in Cmd \ {c} : flags'[d] = flags[d] /\ pc'[d] = pc[d]
      /\ flags'[c] = f /\ result' = result
      /\ \A d \in Cmd \ {c} : blocking'[d] = blocking[d]
  BY <1>1 DEF Alloc, TypeOK
<1> QED
  BY <1>1, <1>2, CmdParts DEF RfCallInv

LEMMA RfAllocRf ==
  ASSUME TypeOK, RfCallInv, NEW c \in RfCmd, StopBusiness(c) \/ StartBusiness(c)
  PROVE  RfCallInv'
<1>1. c \in Cmd
  BY CmdParts
<1>2. CASE StopBusiness(c)
  <2>1. /\ \A d \in Cmd \ {c} : flags'[d] = flags[d] /\ pc'[d] = pc[d]
        /\ blocking' = [blocking EXCEPT ![c] = TRUE]
        /\ flags'[c] = {"REQ_CFM", "ASK_PAUSE"} /\ pc'[c] = "queue" /\ result' = result
        /\ pc[c] = "idle" /\ rf = "idle" /\ rf' = "stopping" /\ rfcmd' = c
    BY <1>1, <1>2 DEF StopBusiness, Alloc, TypeOK
  <2> QED
    BY <1>1, <2>1, CmdParts, CmdAssumption DEF RfCallInv, RfMarks, Asked, TypeOK
<1>3. CASE StartBusiness(c)
  <2>1. /\ \A d \in Cmd \ {c} : flags'[d] = flags[d] /\ pc'[d] = pc[d]
        /\ blocking' = [blocking EXCEPT ![c] = TRUE]
        /\ flags'[c] = {"REQ_CFM", "FORCE_PUSH", "ASK_RESUME"} /\ pc'[c] = "queue"
        /\ pc[c] = "idle" /\ result' = result
        /\ rf = "stopped" /\ rf' = "starting" /\ rfcmd' = c
    BY <1>1, <1>3 DEF StartBusiness, Alloc, TypeOK
  <2> QED
    BY <1>1, <2>1, CmdParts, CmdAssumption DEF RfCallInv, RfMarks, Asked, TypeOK
<1> QED
  BY <1>2, <1>3

LEMMA CallerRf ==
  ASSUME TypeOK, MemInv, RfCallInv, NEW c \in Cmd, CallerStep(c)
  PROVE  RfCallInv'
<1>1. UNCHANGED <<rf, rfcmd, blocking>>
  BY DEF CallerStep, Queue, Accept, Refuse, Wake, Timeout, TimeoutCrash, Abandon,
         PoisonedListDel, ReturnFlagged, ReturnBlocking, ReturnFreed, ReturnNonblock,
         Returns, ctxVars, callVars
<1>2. \A d \in Cmd : flags'[d] \cap Asked = flags[d] \cap Asked
  <2>1. \/ flags' = flags
        \/ \E g \in {"DONE", "NONBLOCK"} : flags' = [flags EXCEPT ![c] = @ \cup {g}]
        \/ flags' = [flags EXCEPT ![c] = @ \ {"WAIT_PUSH"}]
        \/ flags' = [flags EXCEPT ![c] =
                 @ \cup {"WAIT_ACK"}
                   \cup (IF "REQ_CFM" \in @ THEN {"WAIT_CFM"} ELSE {})
                   \cup (IF Defers(c) THEN {"WAIT_PUSH"} ELSE {})]
    BY DEF CallerStep, Queue, Accept, Refuse, Wake, Timeout, TimeoutCrash, Abandon,
           PoisonedListDel, ReturnFlagged, ReturnBlocking, ReturnFreed, ReturnNonblock,
           Returns, cmdVars
  <2> QED
    BY <2>1 DEF TypeOK, Asked, RfMarks
<1> DEFINE Queueing == Queue(c)
           Waiting == Wake(c) \/ Timeout(c) \/ TimeoutCrash(c) \/ Abandon(c)
           Leaving == ReturnFlagged(c) \/ ReturnBlocking(c) \/ ReturnFreed(c)
                        \/ ReturnNonblock(c)
           Moves == \E p \in Pc \ {"idle", "queue"} : pc' = [pc EXCEPT ![c] = p]
<1>3. Queueing \/ Waiting \/ Leaving
  BY DEF CallerStep
<1>4. pc[c] \notin {"idle", "done"}
  BY DEF CallerStep, Queue, Wake, Timeout, TimeoutCrash, Abandon, ReturnFlagged,
         ReturnBlocking, ReturnFreed, ReturnNonblock
<1>5. \A d \in Cmd \ {c} : result'[d] = result[d]
  <2>1. CASE Queueing
    BY <2>1 DEF Queue, Accept, Refuse, TypeOK
  <2>2. CASE Waiting
    BY <2>2 DEF Wake, Timeout, TimeoutCrash, Abandon, PoisonedListDel, cmdVars, TypeOK
  <2>3. CASE Leaving
    BY <2>3 DEF ReturnFlagged, ReturnBlocking, ReturnFreed, ReturnNonblock, Returns
  <2> QED
    BY <1>3, <2>1, <2>2, <2>3
<1>6. Moves \/ PoisonedListDel
  <2>1. CASE Queueing
    BY <2>1 DEF Queue, Accept, Refuse, Pc
  <2>2. CASE Waiting
    BY <2>2 DEF Wake, Timeout, TimeoutCrash, Abandon, Pc
  <2>3. CASE Leaving
    BY <2>3 DEF ReturnFlagged, ReturnBlocking, ReturnFreed, ReturnNonblock, Returns, Pc
  <2> QED
    BY <1>3, <2>1, <2>2, <2>3
<1>7. PoisonedListDel => pc' = pc /\ result' = result
  BY DEF PoisonedListDel, callVars, cmdVars
<1>8. /\ \E p \in Pc \ {"idle", "queue"} : pc' = [pc EXCEPT ![c] = p] \/ pc' = pc
      /\ PoisonedListDel \/ pc'[c] \notin {"idle", "queue"}
  BY <1>6, <1>7 DEF TypeOK, Pc
<1> QED
  BY <1>1, <1>2, <1>4, <1>5, <1>7, <1>8, QuietRf, CmdParts DEF TypeOK

LEMMA FirmwareRf ==
  ASSUME TypeOK, MemInv, SlotInv, RfCallInv, Firmware
  PROVE  RfCallInv'
<1>1. UNCHANGED <<rf, rfcmd, pc, blocking>>
  BY DEF Firmware, Ack, Confirm, ctxVars, callVars
<1>2. \A d \in Cmd : pc[d] \in {"idle", "queue"} => result'[d] = result[d]
  <2>1. ASSUME NEW e \in cmds, NEW f, Completes(e, f)
        PROVE  \A d \in Cmd : d # e => result'[d] = result[d]
    BY <2>1 DEF Completes, CompleteCmd, TypeOK
  <2>2. \/ UNCHANGED result
        \/ \E e \in cmds : \E f \in Flag : Completes(e, f)
    BY DEF Firmware, Ack, Confirm, Flag
  <2>3. \A e \in cmds : pc[e] \notin {"idle", "queue"}
    BY DEF MemInv, UnqueuedInv, TypeOK
  <2> QED
    BY <2>1, <2>2, <2>3
<1>3. \A d \in Cmd : flags'[d] \cap Asked = flags[d] \cap Asked
  <2>1. CASE Ack
    <3> SUFFICES ASSUME NEW d \in Cmd
                 PROVE  flags'[d] \ {"WAIT_ACK", "WAIT_PUSH", "DONE"}
                          = flags[d] \ {"WAIT_ACK", "WAIT_PUSH", "DONE"}
      BY DEF Asked, RfMarks
    <3>1. CASE d = hostid
      BY <2>1, <3>1, AckList DEF AckAnswers
    <3>2. CASE d # hostid
      BY <2>1, <3>2, AckList DEF AckEmpties, AckPushes
    <3> QED
      BY <3>1, <3>2
  <2>2. ASSUME NEW x \in Cmd, Confirm(x)
        PROVE  \A d \in Cmd : flags'[d] \cap Asked = flags[d] \cap Asked
    <3>1. \/ flags' = flags
          \/ \E d \in Cmd : flags' = FlagsAfter(d, "WAIT_CFM")
      BY <2>2 DEF Confirm, TypeOK
    <3>2. ASSUME NEW d \in Cmd, flags' = FlagsAfter(d, "WAIT_CFM"), NEW e \in Cmd
          PROVE  flags'[e] \ {"WAIT_CFM", "DONE"} = flags[e] \ {"WAIT_CFM", "DONE"}
      BY <3>2 DEF FlagsAfter, Answered, TypeOK
    <3>3. \A e \in Cmd : flags'[e] \ {"WAIT_CFM", "DONE"} = flags[e] \ {"WAIT_CFM", "DONE"}
      BY <3>1, <3>2
    <3> QED
      BY <3>3 DEF Asked, RfMarks
  <2> QED
    BY <2>1, <2>2 DEF Firmware
<1> QED
  BY <1>1, <1>2, <1>3, QuietRf, CmdParts

LEMMA RfStep == TypeOK /\ MemInv /\ SlotInv /\ RfCallInv /\ [Next]_vars => RfCallInv'
<1> SUFFICES ASSUME TypeOK, MemInv, SlotInv, RfCallInv, [Next]_vars
             PROVE  RfCallInv'
  OBVIOUS
<1>1. ASSUME NEW c \in UserCmd, Send(c)
      PROVE  RfCallInv'
  <2>1. PICK k \in UserKinds :
          \E r : Alloc(c, KindFlags[k], r, "NONBLOCK" \notin KindFlags[k])
    BY <1>1 DEF Send
  <2>2. KindFlags[k] \cap RfMarks = {}
    BY ParamAssumption DEF KindFlags, RfMarks
  <2> QED
    BY <1>1, <2>1, <2>2, AllocRf DEF Send, ctxVars
<1>2. ASSUME NEW c \in UserCmd, Bypass(c) \/ Kill(c)
      PROVE  RfCallInv'
  <2>1. c \in Cmd /\ c \notin RfCmd
    BY CmdParts, CmdAssumption
  <2>2. /\ UNCHANGED <<rf, rfcmd, flags, result, blocking>>
        /\ \A d \in Cmd \ {c} : pc'[d] = pc[d]
    BY <1>2 DEF Bypass, Kill, ctxVars, cmdVars, TypeOK
  <2> QED
    BY <2>1, <2>2, QuietRf, CmdParts
<1>3. ASSUME NEW c \in SetupCmd, SendSetup(c)
      PROVE  RfCallInv'
  BY <1>3, AllocRf DEF SendSetup, RfMarks
<1>4. ASSUME NEW c \in RfCmd, StopBusiness(c) \/ StartBusiness(c)
      PROVE  RfCallInv'
  BY <1>4, RfAllocRf
<1>5. ASSUME NEW c \in Cmd, CallerStep(c)
      PROVE  RfCallInv'
  BY <1>5, CallerRf
<1>6. CASE Firmware
  BY <1>6, FirmwareRf
<1>7. CASE Restart
  BY <1>7, QuietRf DEF Restart, TriggerRestart, IrqsDeinit, MgrDeinit, Drain, MgrInit,
                       RestartDone, cmdVars, callVars
<1>8. CASE Calibration
  BY <1>8, CmdAssumption, CmdParts DEF Calibration, StopReturns, StartSkipped,
       StartReturns, cmdVars, callVars, RfCallInv, TypeOK
<1>9. CASE UNCHANGED vars
  BY <1>9, QuietRf DEF vars, cmdVars, callVars, ctxVars
<1> QED
  BY <1>1, <1>2, <1>3, <1>4, <1>5, <1>6, <1>7, <1>8, <1>9 DEF Next, Asleep, Halted

-----------------------------------------------------------------------------
(* The mailbox serves the list as long as no restart comes during a          *)
(* calibration: the start request of a calibration that a restart overtook   *)
(* is force pushed into a mailbox that others use again.                     *)

Calm == rst # "run" => rf = "idle"

Stopped == state \in {"PAUSED", "CRASHED"}

\* Behind a command that waits for its acknowledgement everything is deferred,
\* but for what is force pushed.
WaitOrder ==
  \A c, d \in cmds :
    Has(c, "WAIT_ACK") /\ tkn[c] < tkn[d]
      => Has(d, "WAIT_PUSH") \/ Has(d, "FORCE_PUSH")

\* A calibration runs with the manager paused, and what is in the mailbox of a
\* paused manager can only be the request that resumes it.
PauseInv ==
  /\ state = "PAUSED" /\ hostid # None => rf = "starting" /\ hostid = rfcmd
  /\ rf = "stopped" => Stopped
  /\ rf = "starting" /\ pc[rfcmd] = "queue" => Stopped
  /\ rf = "stopping" =>
       /\ rfcmd \in cmds /\ ~Has(rfcmd, "WAIT_ACK") => Stopped
       /\ result[rfcmd] = "OK" => Stopped
       /\ pc[rfcmd] = "done" /\ ret[rfcmd] = "OK" => Stopped

ServeInv == WaitOrder /\ PauseInv /\ MailboxServesList

\* A step that leaves the list, the mailbox and the calls of the RF thread alone.
LEMMA SameServe ==
  ASSUME TypeOK, ServeInv, RfCallInv, UNCHANGED <<state, cmds, tkn, hostid, rf, rfcmd>>,
         \A d \in cmds : flags'[d] = flags[d],
         \A d \in RfCmd : /\ pc'[d] = "queue" => pc[d] = "queue"
                          /\ result'[d] = "OK" => result[d] = "OK"
                          /\ pc'[d] = "done" /\ ret'[d] = "OK" =>
                               \/ pc[d] = "done" /\ ret[d] = "OK"
                               \/ result[d] = "OK"
  PROVE  ServeInv'
<1>1. WaitOrder'
  BY DEF ServeInv, WaitOrder, Has
<1>2. MailboxServesList'
  <2>1. Unacked' = Unacked /\ Deferred' = Deferred
    BY DEF Unacked, Deferred, Has
  <2> QED
    BY <2>1 DEF ServeInv, MailboxServesList, MailboxMatchesList, DeferredHavePusher
<1>3. PauseInv'
  BY DEF ServeInv, PauseInv, Stopped, RfCallInv, Has
<1> QED
  BY <1>1, <1>2, <1>3 DEF ServeInv

LEMMA AllocServe ==
  ASSUME TypeOK, MemInv, RfCallInv, ServeInv, NEW c \in UserCmd \cup SetupCmd,
         NEW f, NEW r, NEW block, Alloc(c, f, r, block), UNCHANGED <<rf, rfcmd>>
  PROVE  ServeInv'
<1>1. c \in Cmd /\ c \notin RfCmd /\ c \notin cmds
  BY CmdParts, CmdAssumption DEF Alloc, MemInv, UnqueuedInv
<1>2. /\ \A d \in Cmd \ {c} : flags'[d] = flags[d] /\ pc'[d] = pc[d]
      /\ UNCHANGED <<state, cmds, tkn, hostid, result, ret>>
  BY DEF Alloc, TypeOK, mgrVars, fwVars
<1> QED
  BY <1>1, <1>2, SameServe, CmdParts DEF TypeOK

LEMMA RfAllocServe ==
  ASSUME TypeOK, MemInv, RfCallInv, ServeInv, NEW c \in RfCmd,
         StopBusiness(c) \/ StartBusiness(c)
  PROVE  ServeInv'
<1>1. c \in Cmd /\ c \notin cmds /\ pc[c] = "idle"
  BY CmdParts DEF StopBusiness, StartBusiness, Alloc, MemInv, UnqueuedInv
<1>2. /\ \A d \in Cmd \ {c} : flags'[d] = flags[d]
      /\ UNCHANGED <<state, cmds, tkn, hostid, result, ret>>
      /\ pc' = [pc EXCEPT ![c] = "queue"]
  BY DEF StopBusiness, StartBusiness, Alloc, TypeOK, mgrVars, fwVars
<1>3. WaitOrder'
  BY <1>1, <1>2 DEF ServeInv, WaitOrder, Has, TypeOK
<1>4. MailboxServesList'
  <2>1. Unacked' = Unacked /\ Deferred' = Deferred
    BY <1>1, <1>2 DEF Unacked, Deferred, Has, TypeOK
  <2> QED
    BY <1>2, <2>1 DEF ServeInv, MailboxServesList, MailboxMatchesList, DeferredHavePusher
<1>5. PauseInv'
  <2>1. result[c] # "OK" /\ pc'[c] = "queue" /\ rfcmd' = c
    BY <1>1, <1>2 DEF RfCallInv, StopBusiness, StartBusiness, TypeOK
  <2>2. CASE StopBusiness(c)
    BY <1>1, <1>2, <2>1, <2>2 DEF StopBusiness, ServeInv, PauseInv, Stopped
  <2>3. CASE StartBusiness(c)
    BY <1>1, <1>2, <2>1, <2>3 DEF StartBusiness, ServeInv, PauseInv, Stopped
  <2> QED
    BY <2>2, <2>3
<1> QED
  BY <1>3, <1>4, <1>5 DEF ServeInv

\* When cmd_mgr_queue pushes at once, nothing on the list waits for its
\* acknowledgement and the mailbox is empty.
LEMMA PushIntoEmpty ==
  ASSUME TypeOK, MemInv, ListInv, RfCallInv, ServeInv, NEW c \in Cmd, pc[c] = "queue",
         state \in {"INITED", "PAUSED"}, ~Defers(c)
  PROVE  /\ hostid = None
         /\ Has(c, "FORCE_PUSH") \/ \A e \in cmds : ~Has(e, "WAIT_ACK")
         /\ c \in RfCmd \/ Deferred = {}
         /\ \A e \in cmds : Has(e, "WAIT_ACK") => Has(e, "WAIT_PUSH")
<1>1. CASE Has(c, "FORCE_PUSH")
  <2>1. c \in RfCmd /\ c = rfcmd
    BY <1>1 DEF RfCallInv, RfMarks, Has
  <2>2. rf = "starting"
    BY <1>1, <2>1, CmdAssumption, CmdParts DEF RfCallInv, RfMarks, Asked, Has, TypeOK
  <2>3. state = "PAUSED"
    BY <2>1, <2>2 DEF ServeInv, PauseInv, Stopped
  <2>4. hostid = None
    BY <2>1, <2>3 DEF ServeInv, PauseInv, ListInv, SlotInv
  <2>5. \A e \in cmds : Has(e, "WAIT_ACK") => Has(e, "WAIT_PUSH")
    BY <2>4, CmdAssumption
       DEF ServeInv, MailboxServesList, MailboxMatchesList, Unacked, TypeOK
  <2> QED
    BY <1>1, <2>1, <2>4, <2>5
<1>2. CASE ~Has(c, "FORCE_PUSH")
  <2>1. ~MustDefer /\ state = "INITED"
    BY <1>2 DEF Defers
  <2>2. ASSUME NEW e \in cmds, Has(e, "WAIT_ACK")
        PROVE  FALSE
    <3>1. PICK l \in cmds : /\ tkn[e] <= tkn[l] /\ ~Has(l, "FORCE_PUSH")
                            /\ ~Has(l, "WAIT_ACK") /\ ~Has(l, "WAIT_PUSH")
      BY <2>1, <2>2, PushedLast DEF ListInv
    <3>2. tkn[e] # tkn[l]
      BY <2>2, <3>1 DEF ListInv, TokenInv
    <3>3. tkn[e] < tkn[l]
      BY <3>1, <3>2 DEF TypeOK
    <3> QED
      BY <2>2, <3>1, <3>3 DEF ServeInv, WaitOrder
  <2>3. Unacked = {} /\ Deferred = {}
    BY <2>2 DEF Unacked, Deferred, ListInv, TokenInv
  <2> QED
    BY <1>2, <2>1, <2>2, <2>3 DEF ServeInv, MailboxServesList, MailboxMatchesList
<1> QED
  BY <1>1, <1>2

LEMMA AcceptServe ==
  ASSUME TypeOK, MemInv, ListInv, RfCallInv, ServeInv, NEW c \in Cmd, pc[c] = "queue",
         state \in {"INITED", "PAUSED"}, Accept(c)
  PROVE  ServeInv'
<1>1. /\ c \notin cmds
      /\ flags[c] \cap {"WAIT_PUSH", "WAIT_ACK", "WAIT_CFM", "DONE"} = {}
      /\ hostid # None => c # hostid
  BY DEF MemInv, UnqueuedInv, ListInv, SlotInv
<1>2. /\ cmds' = cmds \cup {c} /\ cmds \subseteq Cmd
      /\ tkn'[c] = next_tkn /\ UNCHANGED <<state, rf, rfcmd>>
      /\ \A d \in Cmd \ {c} : /\ tkn'[d] = tkn[d]
                              /\ flags'[d] = flags[d]
      /\ "WAIT_ACK" \in flags'[c]
      /\ "WAIT_PUSH" \in flags'[c] <=> Defers(c)
      /\ "FORCE_PUSH" \in flags'[c] <=> Has(c, "FORCE_PUSH")
      /\ hostid' = IF Defers(c) THEN hostid ELSE c
  BY <1>1 DEF Accept, Push, TypeOK, Has, ctxVars
<1>3. WaitOrder'
  <2> SUFFICES ASSUME NEW d \in cmds', NEW e \in cmds', Has(d, "WAIT_ACK")', tkn'[d] < tkn'[e]
               PROVE  Has(e, "WAIT_PUSH")' \/ Has(e, "FORCE_PUSH")'
    BY DEF WaitOrder
  <2>1. ASSUME NEW g \in cmds PROVE tkn'[g] < next_tkn /\ g # c
    BY <1>1, <1>2, <2>1 DEF ListInv, TokenInv
  <2>2. d \in cmds
    BY <1>2, <2>1 DEF TypeOK
  <2>3. CASE e \in cmds
    BY <1>1, <1>2, <2>2, <2>3 DEF ServeInv, WaitOrder, Has
  <2>4. CASE e = c
    BY <1>1, <1>2, <2>2, <2>4, PushIntoEmpty DEF Has
  <2> QED
    BY <1>2, <2>3, <2>4
<1>4. MailboxServesList'
  <2>1. \A d \in Cmd \ {c} : /\ d \in Unacked' <=> d \in Unacked
                             /\ d \in Deferred' <=> d \in Deferred
    BY <1>2 DEF Unacked, Deferred, Has
  <2>2. Unacked' \subseteq Cmd /\ Deferred' \subseteq Cmd /\ Unacked \subseteq cmds
        /\ Deferred \subseteq cmds
    BY <1>2 DEF Unacked, Deferred
  <2>3. CASE Defers(c)
    <3>1. c \notin Unacked' /\ c \in Deferred' /\ c \notin Unacked
      BY <1>1, <1>2, <2>3 DEF Unacked, Deferred, Has
    <3>2. Unacked' = Unacked
      BY <1>2, <2>1, <2>2, <3>1
    <3>3. state = "INITED" => hostid # None
      <4>1. state = "INITED" => Unacked # {} \/ Deferred # {}
        BY <2>3 DEF Defers, MustDefer, Unacked, Deferred
      <4> QED
        BY <4>1, <2>2, CmdAssumption, <1>2
           DEF ServeInv, MailboxServesList, MailboxMatchesList, DeferredHavePusher
    <3> QED
      BY <1>2, <2>3, <3>2, <3>3
         DEF ServeInv, MailboxServesList, MailboxMatchesList, DeferredHavePusher
  <2>4. CASE ~Defers(c)
    <3>1. Unacked = {}
      BY <2>4, PushIntoEmpty DEF Unacked
    <3>2. c \in Unacked' /\ hostid' = c
      BY <1>2, <2>4 DEF Unacked, Has
    <3>3. Unacked' = {c}
      BY <1>2, <2>1, <2>2, <3>1, <3>2
    <3>4. c # None
      BY CmdAssumption
    <3> QED
      BY <3>2, <3>3, <3>4 DEF MailboxServesList, MailboxMatchesList, DeferredHavePusher
  <2> QED
    BY <2>3, <2>4
<1>5. PauseInv'
  <2>1. pc' = [pc EXCEPT ![c] = "wait"] \/ pc' = [pc EXCEPT ![c] = "return"]
    BY DEF Accept
  <2>2. c \in RfCmd => c = rfcmd /\ result'[c] # "OK" /\ pc'[c] = "wait"
    BY DEF RfCallInv, MemInv, UnqueuedInv, Accept, TypeOK
  <2>3. \A d \in Cmd \ {c} : result'[d] = result[d] /\ ret'[d] = ret[d] /\ pc'[d] = pc[d]
    BY DEF Accept, TypeOK
  <2>4. state = "PAUSED" /\ hostid' # None => rf = "starting" /\ hostid' = rfcmd
    <3>1. CASE Defers(c)
      BY <1>2, <3>1 DEF ServeInv, PauseInv
    <3>2. CASE ~Defers(c) /\ state = "PAUSED"
      <4>1. Has(c, "FORCE_PUSH")
        BY <3>2 DEF Defers
      <4>2. c \in RfCmd /\ c = rfcmd
        BY <4>1 DEF RfCallInv, RfMarks, Has
      <4>3. rf = "starting"
        BY <4>1, <4>2, CmdAssumption, CmdParts DEF RfCallInv, RfMarks, Asked, Has, TypeOK
      <4> QED
        BY <1>2, <3>2, <4>2, <4>3
    <3> QED
      BY <3>1, <3>2
  <2>5. CASE c = rfcmd
    BY <1>2, <2>2, <2>4, <2>5, CmdParts DEF ServeInv, PauseInv, Stopped, Has, RfCallInv
  <2>6. CASE c # rfcmd
    BY <1>2, <2>3, <2>4, <2>6, CmdParts DEF ServeInv, PauseInv, Stopped, Has, RfCallInv
  <2> QED
    BY <2>5, <2>6
<1> QED
  BY <1>3, <1>4, <1>5 DEF ServeInv

\* A step that at most takes commands off the list keeps what is served.
LEMMA FewerServe ==
  ASSUME TypeOK, ServeInv, UNCHANGED <<tkn, hostid>>, cmds' \subseteq cmds,
         \A d \in cmds' : flags'[d] \cap Marks = flags[d] \cap Marks,
         \/ state' = "CRASHED"
         \/ state' = state /\ \A d \in cmds \ cmds' : d \notin Unacked
  PROVE  WaitOrder' /\ MailboxServesList'
<1>1. \A d \in cmds' : \A m \in Marks : m \in flags'[d] <=> m \in flags[d]
  OBVIOUS
<1>2. WaitOrder'
  BY <1>1 DEF ServeInv, WaitOrder, Has, Marks
<1>3. Unacked' = Unacked \cap cmds' /\ Deferred' = Deferred \cap cmds'
  BY <1>1 DEF Unacked, Deferred, Has, Marks
<1>4. Unacked \subseteq cmds
  BY DEF Unacked
<1>5. MailboxServesList'
  BY <1>3, <1>4 DEF ServeInv, MailboxServesList, MailboxMatchesList, DeferredHavePusher
<1> QED
  BY <1>2, <1>5

LEMMA TimeoutCrashServe ==
  ASSUME TypeOK, ServeInv, NEW c \in Cmd, TimeoutCrash(c), ~PoisonedListDel
  PROVE  ServeInv'
<1>1. /\ state' = "CRASHED" /\ UNCHANGED <<tkn, hostid>>
      /\ \/ cmds' = cmds /\ flags' = flags
         \/ cmds' = cmds \ {c} /\ flags' = [flags EXCEPT ![c] = @ \cup {"DONE"}]
  BY DEF TimeoutCrash, fwVars
<1>2. \A d \in cmds' : flags'[d] = flags[d]
  BY <1>1 DEF TypeOK
<1>3. WaitOrder' /\ MailboxServesList'
  BY <1>1, <1>2, FewerServe
<1> QED
  BY <1>1, <1>3 DEF ServeInv, PauseInv, Stopped

LEMMA AbandonServe ==
  ASSUME TypeOK, MemInv, RfCallInv, ServeInv, NEW c \in Cmd, Abandon(c), ~PoisonedListDel
  PROVE  ServeInv'
<1>1. /\ UNCHANGED <<state, tkn, hostid, rf, rfcmd, result>>
      /\ pc' = [pc EXCEPT ![c] = "return"] /\ ret' = [ret EXCEPT ![c] = "OK"]
      /\ \/ cmds' = cmds /\ flags' = flags
         \/ cmds' = cmds /\ flags' = [flags EXCEPT ![c] = @ \cup {"NONBLOCK"}]
         \/ /\ cmds' = cmds \ {c} /\ flags' = [flags EXCEPT ![c] = @ \ {"WAIT_PUSH"}]
            /\ Has(c, "WAIT_PUSH")
  BY DEF Abandon, fwVars, ctxVars
<1>2. \A d \in cmds' : flags'[d] = flags[d] \/ flags'[d] = flags[d] \cup {"NONBLOCK"}
  BY <1>1 DEF TypeOK
<1>3. WaitOrder' /\ MailboxServesList'
  <2>1. \A d \in cmds' : flags'[d] \cap Marks = flags[d] \cap Marks
    BY <1>2 DEF Marks
  <2>2. \A d \in cmds \ cmds' : d \notin Unacked
    BY <1>1 DEF Unacked
  <2>3. cmds' \subseteq cmds
    BY <1>1
  <2> QED
    BY <1>1, <2>1, <2>2, <2>3, FewerServe
<1>4. c \notin RfCmd
  BY CmdAssumption DEF Abandon, MemInv, KilledInv
<1>5. \A d \in Cmd \ {c} : flags'[d] = flags[d] /\ pc'[d] = pc[d] /\ ret'[d] = ret[d]
  BY <1>1 DEF TypeOK
<1>6. PauseInv'
  <2>1. rf \in {"stopping", "starting"} => rfcmd \in Cmd \ {c}
    BY <1>4, CmdParts DEF RfCallInv
  <2> QED
    BY <1>1, <1>5, <2>1 DEF ServeInv, PauseInv, Stopped, Has
<1> QED
  BY <1>3, <1>6 DEF ServeInv

LEMMA CallerServe ==
  ASSUME TypeOK, MemInv, ListInv, RfCallInv, ServeInv, NEW c \in Cmd, CallerStep(c)
  PROVE  ServeInv'
<1>1. CASE Queue(c)
  <2>1. CASE Accept(c) /\ state \in {"INITED", "PAUSED"}
    BY <1>1, <2>1, AcceptServe DEF Queue
  <2>2. ASSUME NEW res \in Result \ {"OK"}, NEW r, Refuse(c, res, r)
        PROVE  ServeInv'
    <3>1. /\ UNCHANGED <<state, cmds, tkn, hostid, rf, rfcmd, flags>>
          /\ pc' = [pc EXCEPT ![c] = "return"] /\ result' = [result EXCEPT ![c] = res]
          /\ ret' = [ret EXCEPT ![c] = r]
      BY <2>2 DEF Refuse, mgrVars, fwVars, ctxVars
    <3> QED
      BY <3>1, SameServe, CmdParts DEF TypeOK
  <2> QED
    BY <1>1, <2>1, <2>2 DEF Queue, TypeOK, Result
<1>2. CASE Wake(c) \/ Timeout(c)
  <2>1. /\ UNCHANGED <<state, cmds, tkn, hostid, rf, rfcmd, flags, result>>
        /\ pc' = [pc EXCEPT ![c] = "return"] \/ pc' = [pc EXCEPT ![c] = "timedout"]
        /\ \A d \in Cmd \ {c} : ret'[d] = ret[d]
    BY <1>2 DEF Wake, Timeout, mgrVars, cmdVars, fwVars, ctxVars, TypeOK
  <2> QED
    BY <2>1, SameServe, CmdParts DEF TypeOK
<1>3. CASE PoisonedListDel
  BY <1>3, SameServe DEF PoisonedListDel, mgrVars, cmdVars, callVars, fwVars, ctxVars
<1>4. CASE TimeoutCrash(c) /\ ~PoisonedListDel
  BY <1>4, TimeoutCrashServe
<1>5. CASE Abandon(c) /\ ~PoisonedListDel
  BY <1>5, AbandonServe
<1>6. CASE ReturnFlagged(c) \/ ReturnBlocking(c) \/ ReturnFreed(c) \/ ReturnNonblock(c)
  <2>1. /\ UNCHANGED <<state, cmds, tkn, hostid, rf, rfcmd, flags, result>>
        /\ pc' = [pc EXCEPT ![c] = "done"]
        /\ \E r : ret' = [ret EXCEPT ![c] = r] /\ (c \in RfCmd => r = result[c])
    BY <1>6 DEF ReturnFlagged, ReturnBlocking, ReturnFreed, ReturnNonblock, Returns,
                mgrVars, fwVars, ctxVars, RfCallInv
  <2> QED
    BY <2>1, SameServe, CmdParts DEF TypeOK
<1> QED
  BY <1>1, <1>2, <1>3, <1>4, <1>5, <1>6 DEF CallerStep

\* Only the acknowledgement of the resuming request ends a pause, and that of the
\* pausing one begins it.
LEMMA AckState ==
  ASSUME TypeOK, MemInv, RfCallInv, Ack
  PROVE  /\ state' = StateAfterAck(hostid)
         /\ Stopped /\ ~(rf = "starting" /\ pc[rfcmd] # "queue") => Stopped'
         /\ rf = "stopping" /\ hostid = rfcmd /\ hostid \in cmds => state' = "PAUSED"
<1>1. state' = StateAfterAck(hostid)
  BY DEF Ack
<1>2. ASSUME hostid \in cmds, Has(hostid, "ASK_RESUME"), ~Has(hostid, "ASK_PAUSE")
      PROVE  rf = "starting" /\ pc[rfcmd] # "queue"
  <2>1. hostid \in Cmd /\ hostid \in RfCmd
    BY <1>2 DEF TypeOK, RfCallInv, RfMarks, Has
  <2>2. pc[hostid] \in Sleeping
    BY <1>2, <2>1 DEF MemInv, OwnerInv
  <2>3. hostid = rfcmd
    BY <2>1, <2>2 DEF RfCallInv, Sleeping
  <2>4. rf # "stopping"
    BY <1>2, <2>3 DEF RfCallInv, RfMarks, Asked, Has
  <2>5. rfcmd # None
    BY <2>1, <2>3, CmdAssumption
  <2> QED
    BY <2>2, <2>3, <2>4, <2>5 DEF RfCallInv, TypeOK, Sleeping
<1>3. rf = "stopping" /\ hostid = rfcmd => Has(hostid, "ASK_PAUSE")
  BY DEF RfCallInv, Has
<1> QED
  BY <1>1, <1>2, <1>3 DEF StateAfterAck, Stopped

LEMMA AckServe ==
  ASSUME TypeOK, MemInv, ListInv, RfCallInv, ServeInv, Ack
  PROVE  ServeInv'
<1>1. SlotInv /\ TokenInv
  BY DEF ListInv
<1>2. /\ UNCHANGED <<pc, ret, tkn, rf, rfcmd>>
      /\ cmds' \subseteq cmds /\ cmds \subseteq Cmd /\ hostid \in Cmd
  BY <1>1, AckList DEF Ack, callVars, ctxVars, AckAnswers, TypeOK
\* What waits for its acknowledgement and is not in the mailbox is deferred.
<1>3. ASSUME NEW e \in cmds', Has(e, "WAIT_ACK")'
      PROVE  e \in cmds /\ Has(e, "WAIT_ACK") /\ e # hostid /\ e \in Deferred
  <2>1. e \in cmds /\ Has(e, "WAIT_ACK") /\ e # hostid
    BY <1>1, <1>3, AckEach
  <2> QED
    BY <2>1 DEF ServeInv, MailboxServesList, MailboxMatchesList, Unacked, Deferred
<1>4. WaitOrder'
  <2> SUFFICES ASSUME NEW e \in cmds', NEW f \in cmds', Has(e, "WAIT_ACK")', tkn[e] < tkn[f]
               PROVE  Has(f, "WAIT_PUSH")' \/ Has(f, "FORCE_PUSH")'
    BY <1>2 DEF WaitOrder
  <2>1. e \in Deferred /\ e \in cmds /\ Has(e, "WAIT_ACK") /\ f \in cmds
    BY <1>2, <1>3
  <2>2. Has(f, "WAIT_PUSH") \/ Has(f, "FORCE_PUSH")
    BY <2>1 DEF ServeInv, WaitOrder
  <2>3. CASE Has(f, "FORCE_PUSH") \/ hostid' # f
    BY <1>1, <2>2, <2>3, AckEach
  <2>4. CASE hostid' = f
    <3>1. IsFirst(f, Deferred)
      BY <1>1, <1>2, <2>1, <2>4, AckList, CmdAssumption DEF AckEmpties, AckPushes
    <3>2. tkn[f] <= tkn[e]
      BY <2>1, <3>1 DEF IsFirst
    <3> QED
      BY <1>2, <2>1, <3>2 DEF TypeOK
  <2> QED
    BY <2>3, <2>4
<1>5. MailboxServesList'
  <2>1. Unacked' \subseteq {hostid'}
    <3> SUFFICES ASSUME NEW e \in cmds', Has(e, "WAIT_ACK")', ~Has(e, "WAIT_PUSH")'
                 PROVE  e = hostid'
      BY DEF Unacked
    <3>1. Has(e, "WAIT_PUSH")
      BY <1>3 DEF Deferred
    <3> QED
      BY <1>1, <3>1, AckEach
  <2>2. Deferred' \subseteq Deferred
    BY <1>1, <1>2, AckEach DEF Deferred
  <2>3. CASE AckEmpties
    BY <2>1, <2>2, <2>3 DEF AckEmpties, MailboxServesList, MailboxMatchesList,
                            DeferredHavePusher
  <2>4. ASSUME NEW d \in cmds, AckPushes(d)
        PROVE  MailboxServesList'
    <3>1. d \in cmds' /\ hostid' = d /\ d # None /\ d # hostid
      BY <1>1, <1>2, <2>4, AckList, CmdAssumption DEF AckPushes, AckAnswers
    <3>2. Has(d, "WAIT_ACK") /\ Has(d, "WAIT_PUSH")
      BY <1>1, <2>4 DEF AckPushes, Deferred, TokenInv
    <3>3. d \in Unacked'
      BY <1>1, <3>1, <3>2, AckEach DEF Unacked
    <3> QED
      BY <2>1, <3>1, <3>3 DEF MailboxServesList, MailboxMatchesList, DeferredHavePusher
  <2> QED
    BY <1>1, <2>3, <2>4, AckList
<1>6. PauseInv'
  <2>1. state' = "PAUSED" => hostid' = None
    BY <1>1, AckList DEF AckEmpties, AckPushes
  <2>2. rf = "stopped" => Stopped'
    BY AckState DEF ServeInv, PauseInv
  <2>3. rf = "starting" /\ pc[rfcmd] = "queue" => Stopped'
    BY AckState DEF ServeInv, PauseInv
  <2>4. ASSUME rf = "stopping"
        PROVE  /\ rfcmd \in cmds' /\ ~Has(rfcmd, "WAIT_ACK")' => Stopped'
               /\ result'[rfcmd] = "OK" => Stopped'
               /\ pc[rfcmd] = "done" /\ ret[rfcmd] = "OK" => Stopped'
    <3>1. Stopped => Stopped'
      BY <2>4, AckState
    <3>2. rfcmd = hostid /\ hostid \in cmds => Stopped'
      BY <2>4, AckState DEF Stopped
    <3>3. ASSUME rfcmd \in cmds', ~Has(rfcmd, "WAIT_ACK")' PROVE Stopped'
      <4>1. rfcmd = hostid \/ ~Has(rfcmd, "WAIT_ACK")
        BY <1>1, <1>2, <3>3, AckEach DEF Has
      <4> QED
        BY <1>2, <2>4, <3>1, <3>2, <3>3, <4>1 DEF ServeInv, PauseInv
    <3>4. ASSUME result'[rfcmd] = "OK" PROVE Stopped'
      <4>1. result'[rfcmd] = result[rfcmd] \/ (rfcmd = hostid /\ hostid \in cmds)
        <5>1. rfcmd \in Cmd
          BY <2>4, CmdParts DEF RfCallInv
        <5>2. \/ result' = result
              \/ hostid \in cmds /\ result' = [result EXCEPT ![hostid] = "OK"]
          BY DEF Ack, Completes, CompleteCmd
        <5> QED
          BY <5>1, <5>2 DEF TypeOK
      <4> QED
        BY <2>4, <3>1, <3>2, <3>4, <4>1 DEF ServeInv, PauseInv
    <3> QED
      BY <2>4, <3>1, <3>3, <3>4 DEF ServeInv, PauseInv
  <2> QED
    BY <1>2, <2>1, <2>2, <2>3, <2>4 DEF PauseInv, Stopped
<1> QED
  BY <1>4, <1>5, <1>6 DEF ServeInv

LEMMA ConfirmServe ==
  ASSUME TypeOK, RfCallInv, ServeInv, NEW x \in Cmd, Confirm(x)
  PROVE  ServeInv'
<1>1. UNCHANGED <<state, hostid, tkn, pc, ret, rf, rfcmd>>
  BY DEF Confirm, callVars, ctxVars
<1>2. /\ cmds' \subseteq cmds
      /\ \A d \in cmds' : flags'[d] \cap Marks = flags[d] \cap Marks
      /\ \A d \in cmds \ cmds' : d \notin Unacked
  BY ConfirmList DEF TypeOK, Unacked
<1>3. WaitOrder' /\ MailboxServesList'
  BY <1>1, <1>2, FewerServe
<1>4. \A d \in cmds' : Has(d, "WAIT_ACK")' <=> Has(d, "WAIT_ACK")
  BY <1>2 DEF Marks, Has
<1>5. \A d \in Cmd : result'[d] # result[d] => d \in cmds /\ ~Has(d, "WAIT_ACK")
  <2>1. CASE result' = result
    BY <2>1
  <2>2. ASSUME NEW d \in cmds, Completes(d, "WAIT_CFM")
        PROVE  /\ ~Has(d, "WAIT_ACK") \/ result' = result
               /\ \A e \in Cmd \ {d} : result'[e] = result[e]
    BY <2>2 DEF Completes, CompleteCmd, WaitComplete, Answered, Has, TypeOK
  <2> QED
    BY <2>1, <2>2 DEF Confirm
<1>6. PauseInv'
  BY <1>1, <1>2, <1>4, <1>5, CmdParts DEF ServeInv, PauseInv, Stopped, RfCallInv
<1> QED
  BY <1>3, <1>6 DEF ServeInv

LEMMA RestartServe ==
  ASSUME TypeOK, Calm, ListInv, RfCallInv, ServeInv, Restart
  PROVE  ServeInv'
<1>1. CASE TriggerRestart \/ IrqsDeinit \/ RestartDone
  BY <1>1, SameServe DEF TriggerRestart, IrqsDeinit, RestartDone, mgrVars, cmdVars,
                         callVars, fwVars
<1>2. CASE MgrDeinit
  <2>1. /\ state' = "DEINIT" /\ UNCHANGED <<cmds, tkn, flags, hostid, rf>> /\ rf = "idle"
    BY <1>2 DEF MgrDeinit, Calm, cmdVars, fwVars
  <2>2. Unacked' = Unacked
    BY <2>1 DEF Unacked, Has
  <2> QED
    BY <2>1, <2>2 DEF ServeInv, WaitOrder, PauseInv, MailboxServesList, MailboxMatchesList,
                      DeferredHavePusher, Has
<1>3. CASE Drain \/ MgrInit
  <2>1. /\ cmds' = {} /\ hostid' = None /\ rf' = "idle" /\ state' # "PAUSED"
    BY <1>3 DEF Drain, MgrInit, Calm, fwVars, ListInv, SlotInv
  <2>2. Unacked' = {} /\ Deferred' = {}
    BY <2>1 DEF Unacked, Deferred
  <2> QED
    BY <2>1, <2>2 DEF ServeInv, WaitOrder, PauseInv, MailboxServesList, MailboxMatchesList,
                      DeferredHavePusher
<1> QED
  BY <1>1, <1>2, <1>3 DEF Restart

LEMMA CalibrationServe ==
  ASSUME TypeOK, MemInv, RfCallInv, ServeInv, Calibration
  PROVE  ServeInv'
<1>1. UNCHANGED <<state, cmds, tkn, flags, hostid, result, pc, ret>>
  BY DEF Calibration, StopReturns, StartSkipped, StartReturns, mgrVars, cmdVars, callVars,
         fwVars
<1>2. WaitOrder'
  BY <1>1 DEF ServeInv, WaitOrder, Has
<1>3. Unacked' = Unacked /\ Deferred' = Deferred
  BY <1>1 DEF Unacked, Deferred, Has
<1>4. MailboxServesList'
  BY <1>1, <1>3 DEF ServeInv, MailboxServesList, MailboxMatchesList, DeferredHavePusher
<1>5. PauseInv'
  <2>1. CASE StopReturns
    BY <1>1, <2>1 DEF StopReturns, ServeInv, PauseInv, Stopped
  <2>2. CASE StartSkipped
    BY <1>1, <2>2 DEF StartSkipped, ServeInv, PauseInv, Stopped
  <2>3. CASE StartReturns
    <3>1. state = "PAUSED" /\ hostid # None => rfcmd \in cmds
      BY DEF ServeInv, PauseInv, MailboxServesList, MailboxMatchesList, Unacked
    <3>2. rfcmd \notin cmds
      BY <2>3, CmdParts DEF StartReturns, RfCallInv, MemInv, OwnerInv, Sleeping
    <3> QED
      BY <1>1, <2>3, <3>1, <3>2 DEF StartReturns, ServeInv, PauseInv, Stopped
  <2> QED
    BY <2>1, <2>2, <2>3 DEF Calibration
<1> QED
  BY <1>2, <1>4, <1>5 DEF ServeInv

LEMMA ServeStep ==
  TypeOK /\ MemInv /\ ListInv /\ RfCallInv /\ Calm /\ ServeInv /\ [Next]_vars => ServeInv'
<1> SUFFICES ASSUME TypeOK, MemInv, ListInv, RfCallInv, Calm, ServeInv, [Next]_vars
             PROVE  ServeInv'
  OBVIOUS
<1>1. ASSUME NEW c \in UserCmd \cup SetupCmd, Send(c) \/ SendSetup(c)
      PROVE  ServeInv'
  BY <1>1, AllocServe DEF Send, SendSetup, ctxVars
<1>2. ASSUME NEW c \in UserCmd, Bypass(c) \/ Kill(c)
      PROVE  ServeInv'
  <2>1. c \in Cmd /\ c \notin RfCmd
    BY CmdParts, CmdAssumption
  <2>2. /\ UNCHANGED <<state, cmds, tkn, hostid, rf, rfcmd, flags, result>>
        /\ \A d \in Cmd \ {c} : pc'[d] = pc[d] /\ ret'[d] = ret[d]
    BY <1>2 DEF Bypass, Kill, mgrVars, fwVars, ctxVars, cmdVars, TypeOK
  <2> QED
    BY <2>1, <2>2, SameServe, CmdParts
<1>3. ASSUME NEW c \in RfCmd, StopBusiness(c) \/ StartBusiness(c)
      PROVE  ServeInv'
  BY <1>3, RfAllocServe
<1>4. ASSUME NEW c \in Cmd, CallerStep(c)
      PROVE  ServeInv'
  BY <1>4, CallerServe
<1>5. CASE Firmware
  BY <1>5, AckServe, ConfirmServe DEF Firmware
<1>6. CASE Restart
  BY <1>6, RestartServe
<1>7. CASE Calibration
  BY <1>7, CalibrationServe
<1>8. CASE UNCHANGED vars
  BY <1>8, SameServe DEF vars, mgrVars, cmdVars, callVars, fwVars, ctxVars
<1> QED
  BY <1>1, <1>2, <1>3, <1>4, <1>5, <1>6, <1>7, <1>8 DEF Next, Asleep, Halted

IndInv == TypeOK /\ MemInv /\ DrainedInv /\ OrderedInv /\ RfCallInv

LEMMA InitIndInv == Init => IndInv /\ ServeInv
<1> SUFFICES ASSUME Init PROVE IndInv /\ ServeInv
  OBVIOUS
<1>1. TypeOK /\ MemInv /\ DrainedInv /\ OrderedInv
  BY InitType, InitMem, InitOrder
<1>2. RfCallInv
  BY CmdParts DEF Init, RfCallInv
<1>3. ServeInv
  BY DEF Init, ServeInv, WaitOrder, PauseInv, MailboxServesList, MailboxMatchesList,
         DeferredHavePusher, Unacked, Deferred
<1> QED
  BY <1>1, <1>2, <1>3 DEF IndInv

LEMMA IndStep == IndInv /\ [Next]_vars => IndInv'
BY TypeStep, MemStep, DrainedStep, OrderStep, RfStep DEF IndInv, OrderedInv, ListInv

LEMMA IndServeStep == IndInv /\ Calm /\ ServeInv /\ [Next]_vars => ServeInv'
BY ServeStep DEF IndInv, OrderedInv

\* Unless a restart comes during a calibration, the mailbox always serves the list:
\* it names the one command that is pushed and not acknowledged, and while commands
\* are deferred it names one, whose acknowledgement will push the next.
THEOREM MailboxAlwaysServes == Spec /\ []Calm => []MailboxServesList
<1>1. ServeInv => MailboxServesList
  BY DEF ServeInv
<1> QED
  BY InitIndInv, IndStep, IndServeStep, <1>1, PTL DEF Spec

LEMMA OverwrittenStep ==
  ASSUME IndInv, ServeInv, [Next]_vars, hostid # None, hostid' # hostid
  PROVE  Ack \/ Drain
<1> USE DEF mgrVars, cmdVars, callVars, fwVars, ctxVars
<1>1. ASSUME NEW c \in Cmd,
             Send(c) \/ Bypass(c) \/ Kill(c) \/ SendSetup(c) \/ StopBusiness(c)
               \/ StartBusiness(c)
      PROVE  FALSE
  BY <1>1 DEF Send, Bypass, Kill, SendSetup, StopBusiness, StartBusiness, Alloc
<1>2. ASSUME NEW c \in Cmd, CallerStep(c)
      PROVE  FALSE
  <2>1. Queue(c) /\ Accept(c) /\ ~Defers(c)
    BY <1>2 DEF CallerStep, Queue, Accept, Refuse, Wake, Timeout, TimeoutCrash, Abandon,
         PoisonedListDel, ReturnFlagged, ReturnBlocking, ReturnFreed, ReturnNonblock, Returns
  <2>2. pc[c] = "queue" /\ state \in {"INITED", "PAUSED"}
    BY <2>1 DEF Queue, Accept, Refuse, IndInv, TypeOK
  <2> QED
    BY <2>1, <2>2, PushIntoEmpty DEF IndInv, OrderedInv
<1>3. ASSUME NEW x \in Cmd, Confirm(x)
      PROVE  FALSE
  BY <1>3 DEF Confirm
<1>4. CASE Restart /\ ~Drain
  BY <1>4 DEF Restart, TriggerRestart, IrqsDeinit, MgrDeinit, MgrInit, RestartDone
<1>5. CASE Calibration
  BY <1>5 DEF Calibration, StopReturns, StartSkipped, StartReturns
<1>6. CASE UNCHANGED vars
  BY <1>6 DEF vars
<1> QED
  BY <1>1, <1>2, <1>3, <1>4, <1>5, <1>6, CmdParts DEF Next, Firmware, Restart, Asleep, Halted

\* Under the same condition no push ever overwrites a request the firmware has not
\* taken: what ASSERT_ERR(!env->msga2e_hostid) demands fails in no other way than by
\* the stale resume that a run exhibits.
THEOREM MailboxKeptUntilAcked == Spec /\ []Calm => MailboxNeverOverwritten
<1>1. IndInv /\ ServeInv /\ [Next]_vars
        => [hostid # None /\ hostid' # hostid => Ack \/ Drain]_vars
  BY OverwrittenStep
<1> QED
  BY InitIndInv, IndStep, IndServeStep, <1>1, PTL DEF Spec, MailboxNeverOverwritten

\* A driver that is never restarted, or never calibrates, meets the condition.
LEMMA ApartStep ==
  ASSUME SetupCmd = {} \/ RfCmd = {}
  PROVE  /\ Init => (SetupCmd = {} => rst = "run") /\ (RfCmd = {} => rf = "idle")
         /\ ((SetupCmd = {} => rst = "run") /\ (RfCmd = {} => rf = "idle")) /\ [Next]_vars
              => ((SetupCmd = {} => rst = "run") /\ (RfCmd = {} => rf = "idle"))'
<1> USE DEF mgrVars, cmdVars, callVars, fwVars, ctxVars
<1> DEFINE Apart == (SetupCmd = {} => rst = "run") /\ (RfCmd = {} => rf = "idle")
<1> SUFFICES ASSUME Apart, [Next]_vars PROVE Apart'
  BY DEF Init
<1>1. ASSUME NEW c \in Cmd, Send(c) \/ Bypass(c) \/ Kill(c)
      PROVE  Apart'
  BY <1>1 DEF Send, Bypass, Kill, Alloc
<1>2. ASSUME NEW c \in SetupCmd, SendSetup(c)
      PROVE  Apart'
  BY <1>2 DEF SendSetup
<1>3. ASSUME NEW c \in RfCmd, StopBusiness(c) \/ StartBusiness(c)
      PROVE  Apart'
  BY <1>3 DEF StopBusiness, StartBusiness
<1>4. ASSUME NEW c \in Cmd, CallerStep(c)
      PROVE  UNCHANGED <<rst, rf>>
  BY <1>4 DEF CallerStep, Queue, Accept, Refuse, Wake, Timeout, TimeoutCrash, Abandon,
       PoisonedListDel, ReturnFlagged, ReturnBlocking, ReturnFreed, ReturnNonblock, Returns
<1>5. CASE Firmware
  BY <1>5 DEF Firmware, Ack, Confirm
<1>6. CASE Restart
  BY <1>6 DEF Restart, TriggerRestart, IrqsDeinit, MgrDeinit, Drain, MgrInit, RestartDone
<1>7. CASE Calibration
  BY <1>7 DEF Calibration, StopReturns, StartSkipped, StartReturns
<1>8. CASE UNCHANGED vars
  BY <1>8 DEF vars
<1> QED
  BY <1>1, <1>2, <1>3, <1>4, <1>5, <1>6, <1>7, <1>8, CmdParts DEF Next, Asleep, Halted

\* So without restarts, or without calibrations, the mailbox serves the list and is
\* never overwritten, whatever times out, is killed or fills the list.
THEOREM MailboxServesUndisturbed ==
  ASSUME SetupCmd = {} \/ RfCmd = {}
  PROVE  Spec => []MailboxServesList /\ MailboxNeverOverwritten
<1> DEFINE Apart == (SetupCmd = {} => rst = "run") /\ (RfCmd = {} => rf = "idle")
<1>1. Init => Apart
  BY ApartStep
<1>2. Apart /\ [Next]_vars => Apart'
  BY ApartStep
<1>3. Apart => Calm
  BY DEF Calm
<1>4. Spec => []Calm
  <2> HIDE DEF Apart
  <2> QED
    BY <1>1, <1>2, <1>3, PTL DEF Spec
<1> QED
  BY <1>4, MailboxAlwaysServes, MailboxKeptUntilAcked, PTL

-----------------------------------------------------------------------------
(* The manager implements the channel, step by step. *)

Before == {p \in Deferred \X Deferred : tkn[p[1]] < tkn[p[2]]}

WaitFlags == {"WAIT_ACK", "WAIT_CFM", "DONE"}

\* A step of which the channel sees nothing.
LEMMA SameChannel ==
  ASSUME UNCHANGED <<tkn, hostid>>, Deferred' = Deferred,
         \A d \in Cmd : d \in Accepted' <=> d \in Accepted
  PROVE  UNCHANGED Channel!vars
<1>1. Accepted' = Accepted
  BY DEF Accepted
<1>2. Before' = Before
  BY DEF Before
<1> QED
  BY <1>1, <1>2 DEF Channel!vars, Before

\* A step that leaves the flags of the listed commands alone, and of the others what
\* tells that they were accepted.
LEMMA QuietChannel ==
  ASSUME TypeOK, UNCHANGED <<cmds, tkn, hostid>>,
         \A d \in cmds : flags'[d] = flags[d],
         \A d \in Cmd : flags'[d] \cap WaitFlags = flags[d] \cap WaitFlags
  PROVE  UNCHANGED Channel!vars
<1>1. Deferred' = Deferred
  BY DEF Deferred, Has
<1>2. \A d \in Cmd : d \in Accepted' <=> d \in Accepted
  BY DEF Accepted, WaitFlags
<1> QED
  BY <1>1, <1>2, SameChannel

LEMMA AllocChannel ==
  ASSUME TypeOK, MemInv, NEW c \in Cmd, NEW f, NEW r, NEW block, Alloc(c, f, r, block),
         f \cap WaitFlags = {}
  PROVE  UNCHANGED Channel!vars
<1>1. c \notin cmds /\ flags[c] \cap WaitFlags = {}
  BY DEF Alloc, MemInv, UnqueuedInv, WaitFlags
<1>2. /\ \A d \in Cmd \ {c} : flags'[d] = flags[d]
      /\ flags'[c] = f /\ UNCHANGED <<cmds, tkn, hostid>>
  BY DEF Alloc, TypeOK, mgrVars, fwVars
<1> QED
  BY <1>1, <1>2, QuietChannel DEF TypeOK

LEMMA AcceptChannel ==
  ASSUME IndInv, ServeInv, NEW c \in Cmd, pc[c] = "queue", state \in {"INITED", "PAUSED"},
         Accept(c)
  PROVE  Channel!Enqueue(c) \/ Channel!Put(c)
<1>1. /\ c \notin cmds
      /\ flags[c] \cap {"WAIT_PUSH", "WAIT_ACK", "WAIT_CFM", "DONE"} = {}
  BY DEF IndInv, MemInv, UnqueuedInv
<1>2. /\ cmds' = cmds \cup {c} /\ cmds \subseteq Cmd
      /\ tkn'[c] = next_tkn
      /\ \A d \in Cmd \ {c} : tkn'[d] = tkn[d] /\ flags'[d] = flags[d]
      /\ "WAIT_ACK" \in flags'[c]
      /\ "WAIT_PUSH" \in flags'[c] <=> Defers(c)
      /\ hostid' = IF Defers(c) THEN hostid ELSE c
  BY <1>1 DEF Accept, Push, IndInv, TypeOK, Has
<1>3. c \notin Accepted
  BY <1>1 DEF Accepted
<1>4. Accepted' = Accepted \cup {c}
  BY <1>2 DEF Accepted
<1>5. \A d \in cmds : tkn[d] < next_tkn
  BY DEF IndInv, OrderedInv, ListInv, TokenInv
<1>6. CASE Defers(c)
  <2>1. Deferred' = Deferred \cup {c} /\ c \notin Deferred /\ Deferred \subseteq cmds
    BY <1>1, <1>2, <1>6 DEF Deferred, Has
  <2>2. /\ \A d \in Deferred : tkn'[d] = tkn[d] /\ tkn[d] < next_tkn /\ tkn[d] \in Nat
        /\ next_tkn \in Nat /\ tkn'[c] = next_tkn
    BY <1>1, <1>2, <1>5, <2>1 DEF IndInv, TypeOK
  <2>3. Before' = Before \cup (Deferred \X {c})
    <3>1. ASSUME NEW x \in Deferred', NEW y \in Deferred'
          PROVE  tkn'[x] < tkn'[y] <=> \/ x \in Deferred /\ y \in Deferred /\ tkn[x] < tkn[y]
                                       \/ x \in Deferred /\ y = c
      BY <2>1, <2>2
    <3> QED
      BY <2>1, <3>1 DEF Before
  <2> QED
    BY <1>2, <1>3, <1>4, <1>6, <2>1, <2>3 DEF Channel!Enqueue, Before
<1>7. CASE ~Defers(c)
  <2>1. Deferred' = Deferred /\ c \notin Deferred /\ Deferred \subseteq Cmd
    BY <1>1, <1>2, <1>7 DEF Deferred, Has
  <2>2. Before' = Before
    BY <1>2, <2>1 DEF Before
  <2>3. hostid = None /\ (c \in RfCmd \/ Deferred = {})
    BY <1>7, PushIntoEmpty DEF IndInv, OrderedInv
  <2> QED
    BY <1>2, <1>3, <1>4, <1>7, <2>1, <2>2, <2>3 DEF Channel!Put, Before
<1> QED
  BY <1>6, <1>7

\* A deferred command that leaves the list is withdrawn; what else leaves it has
\* left the channel before.
LEMMA RemoveChannel ==
  ASSUME TypeOK, NEW c \in Cmd, UNCHANGED <<tkn, hostid>>, cmds' = cmds \/ cmds' = cmds \ {c},
         \A d \in cmds' : flags'[d] \cap Marks = flags[d] \cap Marks,
         \A d \in Cmd : d \in Accepted' <=> d \in Accepted
  PROVE  UNCHANGED Channel!vars \/ Channel!Withdraw(c)
<1>1. Deferred' = Deferred \cap cmds' /\ Deferred \subseteq cmds
  BY DEF Deferred, Has, Marks
<1>2. Accepted' = Accepted
  BY DEF Accepted
<1>3. CASE cmds' = cmds \ {c} /\ c \in Deferred
  <2>1. Deferred' = Deferred \ {c}
    BY <1>1, <1>3
  <2>2. Before' = Before \cap (Deferred' \X Deferred')
    BY <2>1 DEF Before
  <2> QED
    BY <1>2, <1>3, <2>1, <2>2 DEF Channel!Withdraw, Channel!Remove, Before
<1>4. CASE ~(cmds' = cmds \ {c} /\ c \in Deferred)
  <2>1. Deferred' = Deferred
    BY <1>1, <1>4
  <2> QED
    BY <2>1, SameChannel
<1> QED
  BY <1>3, <1>4

LEMMA CallerChannel ==
  ASSUME IndInv, ServeInv, NEW c \in Cmd, CallerStep(c)
  PROVE  UNCHANGED Channel!vars \/ Channel!Enqueue(c) \/ Channel!Put(c) \/ Channel!Withdraw(c)
<1> USE DEF IndInv
<1>0. TypeOK /\ TokenInv
  BY DEF OrderedInv, ListInv
<1>1. CASE Queue(c)
  <2>1. CASE Accept(c) /\ state \in {"INITED", "PAUSED"}
    BY <1>1, <2>1, AcceptChannel DEF Queue
  <2>2. ASSUME NEW res, NEW r, Refuse(c, res, r)
        PROVE  UNCHANGED Channel!vars
    BY <2>2, QuietChannel DEF Refuse, mgrVars, fwVars
  <2> QED
    BY <1>1, <2>1, <2>2 DEF Queue, TypeOK
<1>2. CASE \/ Wake(c) \/ Timeout(c) \/ PoisonedListDel \/ ReturnFlagged(c)
           \/ ReturnBlocking(c) \/ ReturnFreed(c) \/ ReturnNonblock(c)
  BY <1>2, QuietChannel DEF Wake, Timeout, PoisonedListDel, ReturnFlagged, ReturnBlocking,
       ReturnFreed, ReturnNonblock, Returns, mgrVars, cmdVars, fwVars
<1>3. CASE TimeoutCrash(c) /\ ~PoisonedListDel
  <2>1. /\ UNCHANGED <<tkn, hostid>>
        /\ \/ cmds' = cmds /\ flags' = flags
           \/ /\ cmds' = cmds \ {c} /\ flags' = [flags EXCEPT ![c] = @ \cup {"DONE"}]
              /\ c \in cmds
    BY <1>3 DEF TimeoutCrash, fwVars
  <2>2. c \in cmds => c \in Accepted
    BY <1>0 DEF TokenInv, WaitComplete, Accepted
  <2>3. \A d \in Cmd : d \in Accepted' <=> d \in Accepted
    BY <2>1, <2>2 DEF Accepted, TypeOK
  <2>4. \A d \in cmds' : flags'[d] \cap Marks = flags[d] \cap Marks
    BY <2>1 DEF TypeOK
  <2> QED
    BY <1>0, <2>1, <2>3, <2>4, RemoveChannel
<1>4. CASE Abandon(c) /\ ~PoisonedListDel
  <2>1. /\ UNCHANGED <<tkn, hostid>>
        /\ \/ cmds' = cmds /\ flags' = flags
           \/ cmds' = cmds /\ flags' = [flags EXCEPT ![c] = @ \cup {"NONBLOCK"}]
           \/ cmds' = cmds \ {c} /\ flags' = [flags EXCEPT ![c] = @ \ {"WAIT_PUSH"}]
    BY <1>4 DEF Abandon, fwVars
  <2>2. \A d \in Cmd : d \in Accepted' <=> d \in Accepted
    BY <2>1 DEF Accepted, TypeOK
  <2>3. \A d \in cmds' : flags'[d] \cap Marks = flags[d] \cap Marks
    BY <2>1 DEF TypeOK, Marks
  <2> QED
    BY <1>0, <2>1, <2>2, <2>3, RemoveChannel
<1> QED
  BY <1>1, <1>2, <1>3, <1>4 DEF CallerStep

LEMMA AckChannel ==
  ASSUME IndInv, Ack
  PROVE  Channel!Take \/ \E d \in Cmd : Channel!TakeNext(d)
<1> USE DEF IndInv
<1>1. TypeOK /\ MemInv /\ SlotInv /\ TokenInv
  BY DEF OrderedInv, ListInv
<1>2. /\ hostid # None /\ hostid \in Cmd /\ UNCHANGED tkn
      /\ cmds' \subseteq cmds /\ cmds \subseteq Cmd /\ cmds \ cmds' \subseteq {hostid}
  BY <1>1, AckList DEF Ack, AckAnswers, TypeOK
<1>3. Accepted' = Accepted
  <2>1. hostid \in cmds => hostid \in Accepted
    BY <1>1 DEF TokenInv, WaitComplete, Accepted, TypeOK
  <2>2. hostid \in Accepted' <=> hostid \in Accepted
    <3>1. CASE hostid \in cmds
      BY <1>1, <1>2, <2>1, <3>1, AckList DEF AckAnswers, Accepted, WaitComplete
    <3>2. CASE hostid \notin cmds
      BY <1>1, <3>2, AckList DEF AckAnswers, Accepted
    <3> QED
      BY <3>1, <3>2
  <2>3. ASSUME NEW d \in Cmd \ {hostid}
        PROVE  d \in Accepted' <=> d \in Accepted
    BY <1>1, AckList DEF AckEmpties, AckPushes, Accepted
  <2> QED
    BY <2>2, <2>3 DEF Accepted
<1>4. hostid \notin Deferred
  BY <1>1, <1>2 DEF SlotInv, Deferred
<1>5. Deferred' = Deferred \ {hostid'}
  <2>1. \A e \in Cmd : e \in Deferred' <=> e \in Deferred /\ e # hostid'
    <3> SUFFICES ASSUME NEW e \in Cmd
                 PROVE  e \in Deferred' <=> e \in Deferred /\ e # hostid'
      OBVIOUS
    <3>1. CASE e \in cmds'
      BY <1>1, <3>1, AckEach DEF Deferred
    <3>2. CASE e \notin cmds'
      BY <1>2, <1>4, <3>2 DEF Deferred
    <3> QED
      BY <3>1, <3>2
  <2> QED
    BY <1>2, <2>1 DEF Deferred
<1>6. CASE AckEmpties
  <2>1. hostid' = None /\ Deferred' = Deferred
    BY <1>2, <1>5, <1>6, CmdAssumption DEF AckEmpties, Deferred
  <2>2. Before' = Before
    BY <1>2, <2>1 DEF Before
  <2> QED
    BY <1>2, <1>3, <2>1, <2>2 DEF Channel!Take, Before
<1>7. ASSUME NEW d \in cmds, AckPushes(d)
      PROVE  Channel!TakeNext(d)
  <2>1. d \in Deferred /\ IsFirst(d, Deferred) /\ hostid' = d /\ Deferred' = Deferred \ {d}
    BY <1>5, <1>7 DEF AckPushes
  <2>2. Before' = Before \cap (Deferred' \X Deferred')
    BY <1>2, <2>1 DEF Before
  <2>3. \A e \in Deferred \ {d} : <<d, e>> \in Before
    <3>1. \A e \in Deferred \ {d} : tkn[d] <= tkn[e] /\ tkn[d] # tkn[e]
      BY <2>1 DEF IsFirst, Deferred, OrderedInv, ListInv, TokenInv
    <3> QED
      BY <1>1, <1>2, <2>1, <3>1 DEF Before, TypeOK, Deferred
  <2> QED
    BY <1>2, <1>3, <2>1, <2>2, <2>3 DEF Channel!TakeNext, Channel!Remove, Before
<1> QED
  BY <1>1, <1>2, <1>6, <1>7, AckList

LEMMA ConfirmChannel ==
  ASSUME IndInv, NEW x \in Cmd, Confirm(x)
  PROVE  UNCHANGED Channel!vars
<1> USE DEF IndInv
<1>1. TokenInv
  BY DEF OrderedInv, ListInv
<1>2. Deferred' = Deferred
  <2>1. \A d \in cmds' : Has(d, "WAIT_PUSH")' <=> Has(d, "WAIT_PUSH")
    BY ConfirmList DEF Marks, Has, TypeOK
  <2>2. \A d \in cmds \ cmds' : ~Has(d, "WAIT_PUSH")
    BY <1>1, ConfirmList DEF TokenInv
  <2> QED
    BY <2>1, <2>2, ConfirmList DEF Deferred
<1>3. \A d \in Cmd : d \in Accepted' <=> d \in Accepted
  <2>1. \/ flags' = flags
        \/ \E d \in cmds : flags' = FlagsAfter(d, "WAIT_CFM") /\ Has(d, "WAIT_CFM")
    BY DEF Confirm
  <2>2. ASSUME NEW d \in cmds, flags' = FlagsAfter(d, "WAIT_CFM"), Has(d, "WAIT_CFM"),
               NEW e \in Cmd
        PROVE  e \in Accepted' <=> e \in Accepted
    <3>1. CASE e # d
      BY <2>2, <3>1 DEF FlagsAfter, Accepted, TypeOK
    <3>2. CASE e = d
      <4>1. e \in Accepted
        BY <2>2, <3>2 DEF Accepted, Has
      <4>2. flags'[e] = Answered(e, "WAIT_CFM") \cup
                          (IF WaitComplete(Answered(e, "WAIT_CFM")) THEN {"DONE"} ELSE {})
        BY <2>2, <3>2 DEF FlagsAfter, TypeOK
      <4>3. flags'[e] \cap WaitFlags # {}
        BY <4>2 DEF WaitComplete, WaitFlags
      <4> QED
        BY <4>1, <4>3 DEF Accepted, WaitFlags
    <3> QED
      BY <3>1, <3>2
  <2> QED
    BY <2>1, <2>2 DEF Accepted
<1> QED
  BY <1>2, <1>3, ConfirmList, SameChannel

LEMMA ChannelStep ==
  ASSUME IndInv, ServeInv, [Next]_vars
  PROVE  [Channel!Next]_Channel!vars
<1>0. TypeOK /\ MemInv
  BY DEF IndInv
<1>1. ASSUME NEW c \in UserCmd, Send(c)
      PROVE  UNCHANGED Channel!vars
  <2>1. PICK k \in UserKinds :
          \E r : Alloc(c, KindFlags[k], r, "NONBLOCK" \notin KindFlags[k])
    BY <1>1 DEF Send
  <2>2. KindFlags[k] \cap WaitFlags = {}
    BY ParamAssumption DEF KindFlags, WaitFlags
  <2> QED
    BY <1>0, <2>1, <2>2, AllocChannel, CmdParts
<1>2. ASSUME NEW c \in Cmd, SendSetup(c) \/ StopBusiness(c) \/ StartBusiness(c)
      PROVE  UNCHANGED Channel!vars
  BY <1>0, <1>2, AllocChannel DEF SendSetup, StopBusiness, StartBusiness, WaitFlags
<1>3. ASSUME NEW c \in UserCmd, Bypass(c) \/ Kill(c)
      PROVE  UNCHANGED Channel!vars
  BY <1>0, <1>3, QuietChannel DEF Bypass, Kill, mgrVars, cmdVars, fwVars
<1>4. ASSUME NEW c \in Cmd, CallerStep(c)
      PROVE  [Channel!Next]_Channel!vars
  BY <1>4, CallerChannel DEF Channel!Next
<1>5. CASE Firmware
  BY <1>5, AckChannel, ConfirmChannel DEF Firmware, Channel!Next
<1>6. CASE Restart
  <2>1. CASE Drain
    <3>1. Deferred' = {} /\ hostid' = None /\ flags' = flags
      BY <2>1 DEF Drain, Deferred
    <3>2. Before' = {}
      BY <3>1 DEF Before
    <3>3. Accepted' = Accepted
      BY <3>1 DEF Accepted
    <3> QED
      BY <3>1, <3>2, <3>3 DEF Channel!Reset, Channel!Next, Before
  <2>2. CASE ~Drain
    <3>1. UNCHANGED <<cmds, tkn, flags, hostid>>
      BY <1>6, <2>2 DEF Restart, TriggerRestart, IrqsDeinit, MgrDeinit, MgrInit,
           RestartDone, mgrVars, cmdVars, fwVars, IndInv, DrainedInv
    <3> QED
      BY <1>0, <3>1, QuietChannel
  <2> QED
    BY <2>1, <2>2
<1>7. CASE Calibration
  BY <1>0, <1>7, QuietChannel DEF Calibration, StopReturns, StartSkipped, StartReturns,
       mgrVars, cmdVars, fwVars
<1>8. CASE UNCHANGED vars
  BY <1>0, <1>8, QuietChannel DEF vars, mgrVars, cmdVars, fwVars
<1> QED
  BY <1>1, <1>2, <1>3, <1>4, <1>5, <1>6, <1>7, <1>8, CmdParts DEF Next, Asleep, Halted

LEMMA InitChannel == Init => Channel!Init
BY DEF Init, Channel!Init, Deferred, Accepted

\* cmd_mgr_queue, cmd_mgr_llind, the deadlines, the signals and the drain together
\* are a one-place channel with a queue in front of it: every request enters it at
\* most once, the firmware takes them one at a time and oldest first, what passes
\* the queue is a request of the RF thread and finds the slot empty.  The condition
\* is that of MailboxAlwaysServes, and holds in a driver that is never restarted.
THEOREM ManagerIsAChannel == Spec /\ []Calm => ImplementsChannel
<1>1. IndInv /\ ServeInv /\ [Next]_vars => [Channel!Next]_Channel!vars
  BY ChannelStep
<1> QED
  BY InitIndInv, IndStep, IndServeStep, InitChannel, <1>1, PTL
     DEF Spec, ImplementsChannel, Channel!Spec

----------------------------------------------------------------------------
(* What a call of siwifi_send_msg leaves behind and may rely on when it     *)
(* returns.                                                                 *)

-----------------------------------------------------------------------------
(* Without signals the command is live when the call reads it. *)

LiveInv ==
  \A c \in Cmd : blocking[c] =>
    /\ ~Has(c, "NONBLOCK")
    /\ pc[c] # "killed"
    /\ pc[c] # "done" => mem[c] = "live"

LEMMA CompletesMem ==
  ASSUME TypeOK, NEW c \in Cmd, NEW f, Completes(c, f), NEW d \in Cmd, ~Has(d, "NONBLOCK")
  PROVE  mem'[d] = mem[d]
BY DEF Completes, CompleteCmd, TypeOK

\* An answer takes one WAIT flag off a command and may mark it done.
LEMMA FlagsAfterOne ==
  ASSUME TypeOK, NEW c \in Cmd, NEW f, NEW d \in Cmd, flags' = FlagsAfter(c, f)
  PROVE  flags'[d] \ {f, "DONE"} = flags[d] \ {f, "DONE"}
BY DEF FlagsAfter, Answered, TypeOK

LEMMA FirmwareFlags ==
  ASSUME TypeOK, MemInv, SlotInv, Firmware, NEW d \in Cmd
  PROVE  Has(d, "NONBLOCK")' = Has(d, "NONBLOCK")
<1>1. CASE Ack
  <2>1. flags'[d] \ {"WAIT_ACK", "WAIT_PUSH", "DONE"}
          = flags[d] \ {"WAIT_ACK", "WAIT_PUSH", "DONE"}
    <3>1. CASE d = hostid
      BY <1>1, <3>1, AckList DEF AckAnswers
    <3>2. CASE d # hostid
      BY <1>1, <3>2, AckList DEF AckEmpties, AckPushes
    <3> QED
      BY <3>1, <3>2
  <2> QED
    BY <2>1 DEF Has
<1>2. ASSUME NEW x \in Cmd, Confirm(x)
      PROVE  Has(d, "NONBLOCK")' = Has(d, "NONBLOCK")
  <2>1. \/ flags' = flags
        \/ \E e \in Cmd : flags' = FlagsAfter(e, "WAIT_CFM")
    BY <1>2 DEF Confirm, TypeOK
  <2> QED
    <3>1. flags'[d] \ {"WAIT_CFM", "DONE"} = flags[d] \ {"WAIT_CFM", "DONE"}
      BY <2>1, FlagsAfterOne
    <3> QED
      BY <3>1 DEF Has
<1> QED
  BY <1>1, <1>2 DEF Firmware

LEMMA LiveStep ==
  ASSUME ~Killable, TypeOK, MemInv, SlotInv, LiveInv, [Next]_vars
  PROVE  LiveInv'
<1>1. ASSUME NEW c \in Cmd, NEW f, NEW r, NEW block \in BOOLEAN, Alloc(c, f, r, block),
             block <=> "NONBLOCK" \notin f
      PROVE  LiveInv'
  BY <1>1 DEF Alloc, LiveInv, TypeOK, Has
<1>2. ASSUME NEW c \in UserCmd, Send(c)
      PROVE  LiveInv'
  BY <1>1, <1>2, CmdParts DEF Send
<1>3. ASSUME NEW c \in Cmd, SendSetup(c) \/ StopBusiness(c) \/ StartBusiness(c)
      PROVE  LiveInv'
  BY <1>1, <1>3 DEF SendSetup, StopBusiness, StartBusiness
<1>4. ASSUME NEW c \in UserCmd, Bypass(c) \/ Kill(c)
      PROVE  LiveInv'
  BY <1>4, CmdParts DEF Bypass, Kill, LiveInv, TypeOK, Has, cmdVars
<1>5. ASSUME NEW c \in Cmd, CallerStep(c)
      PROVE  LiveInv'
  <2>1. pc[c] # "done" /\ UNCHANGED blocking
    BY <1>5 DEF CallerStep, Queue, Accept, Refuse, Wake, Timeout, TimeoutCrash, Abandon,
         PoisonedListDel, ReturnFlagged, ReturnBlocking, ReturnFreed, ReturnNonblock,
         Returns, callVars
  <2>2. CASE Queue(c) \/ Wake(c) \/ Timeout(c) \/ TimeoutCrash(c)
    <3>1. /\ mem' = mem
          /\ pc' = pc \/ \E p \in {"return", "wait", "timedout"} : pc' = [pc EXCEPT ![c] = p]
      BY <2>2 DEF Queue, Accept, Refuse, Wake, Timeout, TimeoutCrash, PoisonedListDel,
                  cmdVars, callVars
    <3>2. \A d \in Cmd : Has(d, "NONBLOCK")' = Has(d, "NONBLOCK")
      <4>1. \/ flags' = flags
            \/ flags' = [flags EXCEPT ![c] = @ \cup {"DONE"}]
            \/ flags' = [flags EXCEPT ![c] =
                 @ \cup {"WAIT_ACK"}
                   \cup (IF "REQ_CFM" \in @ THEN {"WAIT_CFM"} ELSE {})
                   \cup (IF Defers(c) THEN {"WAIT_PUSH"} ELSE {})]
        BY <2>2 DEF Queue, Accept, Refuse, Wake, Timeout, TimeoutCrash, PoisonedListDel,
                    cmdVars
      <4> QED
        BY <4>1 DEF TypeOK, Has
    <3> QED
      BY <2>1, <3>1, <3>2 DEF LiveInv, TypeOK
  <2>3. CASE Abandon(c)
    BY <2>3, CmdAssumption DEF Abandon, LiveInv, MemInv, UnqueuedInv, OwnerInv, PoisonedListDel,
         callVars, cmdVars, Has, TypeOK
  <2>4. CASE ReturnFlagged(c) \/ ReturnBlocking(c) \/ ReturnFreed(c) \/ ReturnNonblock(c)
    BY <2>4 DEF ReturnFlagged, ReturnBlocking, ReturnFreed, ReturnNonblock, Release, Returns,
                LiveInv, TypeOK, Has
  <2> QED
    BY <1>5, <2>2, <2>3, <2>4 DEF CallerStep
<1>6. CASE Firmware
  <2>1. UNCHANGED <<pc, blocking>>
    BY <1>6 DEF Firmware, Ack, Confirm, callVars
  <2>2. \A d \in Cmd : ~Has(d, "NONBLOCK") => mem'[d] = mem[d]
    BY <1>6, CompletesMem DEF Firmware, Ack, Confirm, TypeOK
  <2> QED
    BY <1>6, <2>1, <2>2, FirmwareFlags DEF LiveInv
<1>7. CASE Restart
  BY <1>7 DEF Restart, TriggerRestart, IrqsDeinit, MgrDeinit, Drain, MgrInit,
       RestartDone, cmdVars, callVars, LiveInv, Has
<1>8. CASE Calibration
  BY <1>8 DEF Calibration, StopReturns, StartSkipped, StartReturns, cmdVars, callVars,
       LiveInv, Has
<1>9. CASE UNCHANGED vars
  BY <1>9 DEF vars, cmdVars, callVars, LiveInv, Has
<1> QED
  BY <1>2, <1>3, <1>4, <1>5, <1>6, <1>7, <1>8, <1>9, CmdParts DEF Next, Asleep, Halted

\* Where no fatal signal reaches a caller, siwifi_send_msg reads cmd->result and
\* cmd->flags of a command nobody has freed, through deadlines, late answers and
\* restarts alike.
THEOREM ReturnsReadLive == ASSUME ~Killable PROVE Spec => []ReturnReadsLive
<1>1. Init => LiveInv
  BY DEF Init, LiveInv
<1>2. LiveInv => ReturnReadsLive
  BY DEF LiveInv, ReturnReadsLive
<1>3. IndInv /\ LiveInv /\ [Next]_vars => LiveInv'
  BY LiveStep DEF IndInv, OrderedInv, ListInv
<1> QED
  BY InitIndInv, IndStep, <1>1, <1>2, <1>3, PTL DEF Spec

-----------------------------------------------------------------------------
(* While the driver is not restarted every exit leaves the list once and      *)
(* frees what it has to.                                                      *)

Outcome(c) == IF ret[c] = "OK" THEN result[c] ELSE ret[c]

\* What the C code owns at each place of a call, by the place, the list and who
\* waits: a command that left the list is answered, freed, or about to be freed by
\* its call, together with a request that was not sent.
Life(c) ==
  /\ pc[c] = "idle" => mem[c] = "none"
  /\ pc[c] \in {"queue", "return"} \cup Sleeping => mem[c] # "none"
  /\ c \in cmds /\ ~Has(c, "WAIT_PUSH") => ~a2e_msg[c]
  /\ c \in cmds /\ blocking[c] => result[c] = "EINTR"
  /\ pc[c] \in Sleeping /\ c \notin cmds =>
       Has(c, "DONE") /\ ~a2e_msg[c] /\ mem[c] = "live" /\ ~Has(c, "NONBLOCK") /\ blocking[c]
  /\ pc[c] = "return" /\ c \notin cmds =>
       \/ mem[c] = "freed" /\ ~a2e_msg[c] /\ (blocking[c] \/ ret[c] = "OK")
       \/ ~blocking[c] /\ ret[c] # "OK"
       \/ blocking[c] /\ mem[c] = "live" /\ ~Has(c, "NONBLOCK")
            /\ (a2e_msg[c] => Outcome(c) # "OK")
  /\ pc[c] = "done" /\ c \notin cmds /\ mem[c] # "none" /\ c \notin RfCmd =>
       mem[c] = "freed" /\ ~a2e_msg[c]

LifeInv == ~oops /\ \A c \in Cmd : Life(c)

Frozen(d) ==
  /\ pc'[d] = pc[d] /\ ret'[d] = ret[d] /\ blocking'[d] = blocking[d]
  /\ d \in cmds' <=> d \in cmds
  /\ mem'[d] = mem[d] /\ a2e_msg'[d] = a2e_msg[d] /\ result'[d] = result[d]

LEMMA LifeFrozen ==
  ASSUME NEW d, Frozen(d), flags'[d] = flags[d], Life(d)
  PROVE  Life(d)'
BY DEF Frozen, Life, Has, Outcome

\* A step of one call concerns its own command only.
LEMMA CallerFrozen ==
  ASSUME TypeOK, NEW c \in Cmd, CallerStep(c), NEW d \in Cmd \ {c}
  PROVE  Frozen(d) /\ flags'[d] = flags[d]
<1> USE DEF TypeOK, Frozen, mgrVars, cmdVars, callVars
<1>1. CASE Queue(c)
  BY <1>1 DEF Queue, Accept, Refuse, Push
<1>2. CASE Wake(c) \/ Timeout(c)
  BY <1>2 DEF Wake, Timeout
<1>3. CASE TimeoutCrash(c)
  BY <1>3 DEF TimeoutCrash, PoisonedListDel
<1>4. CASE Abandon(c)
  BY <1>4 DEF Abandon, PoisonedListDel
<1>5. CASE ReturnFlagged(c) \/ ReturnBlocking(c) \/ ReturnFreed(c) \/ ReturnNonblock(c)
  BY <1>5 DEF ReturnFlagged, ReturnBlocking, ReturnFreed, ReturnNonblock, Release, Returns
<1> QED
  BY <1>1, <1>2, <1>3, <1>4, <1>5 DEF CallerStep

LEMMA AcceptLife ==
  ASSUME TypeOK, MemInv, NEW c \in Cmd, pc[c] = "queue", Life(c), Accept(c)
  PROVE  Life(c)'
<1>1. /\ c \in cmds' /\ mem'[c] = "live" /\ blocking'[c] = blocking[c]
      /\ pc'[c] \in {"wait", "return"}
      /\ "WAIT_PUSH" \in flags'[c] <=> Defers(c)
      /\ ~Defers(c) => ~a2e_msg'[c]
      /\ blocking[c] => result'[c] = "EINTR"
  BY DEF TypeOK, MemInv, UnqueuedInv, Accept, Push
<1> QED
  BY <1>1 DEF Life, Has

LEMMA CallerLife ==
  ASSUME TypeOK, MemInv, RfCallInv, LifeInv, NEW c \in Cmd, CallerStep(c)
  PROVE  LifeInv'
<1>0. Life(c) /\ ~oops
  BY DEF LifeInv
<1>1. Life(c)' /\ ~oops'
  <2>1. CASE Queue(c)
    <3>1. CASE Accept(c)
      BY <1>0, <2>1, <3>1, AcceptLife DEF Queue, Accept
    <3>2. ASSUME NEW res, NEW r \in Result \ {"OK"}, Refuse(c, res, r), pc[c] = "queue"
          PROVE  Life(c)' /\ ~oops'
      <4>1. /\ pc'[c] = "return" /\ ret'[c] = r /\ mem'[c] = "live" /\ ~oops'
            /\ blocking'[c] = blocking[c] /\ c \notin cmds'
            /\ blocking[c] => "NONBLOCK" \notin flags'[c]
        BY <1>0, <3>2 DEF Refuse, MemInv, UnqueuedInv, TypeOK, mgrVars, Has
      <4> QED
        BY <3>2, <4>1 DEF Life, Outcome, Has, Sleeping
    <3> QED
      BY <2>1, <3>1, <3>2 DEF Queue, Result
  <2>2. CASE Wake(c)
    <3>1. /\ c \notin cmds /\ pc[c] \in Sleeping
      BY <2>2 DEF Wake, MemInv, OwnerInv, Sleeping
    <3>2. /\ pc'[c] = "return" /\ ret'[c] = "OK" /\ ~oops'
          /\ UNCHANGED <<cmds, blocking, mem, a2e_msg, flags, result>>
      BY <2>2 DEF Wake, TypeOK, mgrVars, cmdVars
    <3> QED
      BY <1>0, <3>1, <3>2 DEF Life, Has, Sleeping
  <2>3. CASE Timeout(c)
    <3>1. /\ pc'[c] = "timedout" /\ pc[c] = "wait" /\ ~oops'
          /\ UNCHANGED <<cmds, blocking, mem, a2e_msg, flags, result>>
      BY <2>3 DEF Timeout, TypeOK, mgrVars, cmdVars
    <3> QED
      BY <1>0, <3>1 DEF Life, Has, Sleeping
  <2>4. CASE TimeoutCrash(c)
    <3>1. pc[c] = "timedout" /\ (Has(c, "DONE") \/ c \in cmds)
      BY <1>0, <2>4 DEF TimeoutCrash, Life, Sleeping
    <3>2. /\ pc'[c] = "return" /\ ret'[c] = "ETIMEDOUT" /\ ~oops'
          /\ UNCHANGED <<blocking, mem, a2e_msg>>
          /\ c \notin cmds' /\ flags'[c] \subseteq flags[c] \cup {"DONE"}
      BY <2>4, <3>1 DEF TimeoutCrash, TypeOK, MemInv, OwnerInv
    <3>3. blocking[c] /\ mem[c] = "live" /\ ~Has(c, "NONBLOCK")
      BY <1>0, <3>1 DEF Life, MemInv, OwnerInv, ListedIsLive, Sleeping
    <3> QED
      BY <3>2, <3>3 DEF Life, Outcome, Has, Sleeping
  <2>5. CASE Abandon(c)
    <3>1. pc[c] = "killed" /\ ~(Has(c, "WAIT_PUSH") /\ ~Has(c, "DONE") /\ c \notin cmds)
      BY <1>0, <2>5 DEF Abandon, Life, Sleeping
    <3>2. /\ pc'[c] = "return" /\ ret'[c] = "OK" /\ ~oops'
          /\ UNCHANGED <<blocking, mem, a2e_msg, result>>
      BY <2>5, <3>1 DEF Abandon, TypeOK
    <3>3. blocking[c] /\ mem[c] = "live" /\ ~Has(c, "NONBLOCK")
      BY <1>0, <3>1 DEF Life, MemInv, OwnerInv, ListedIsLive, Sleeping
    <3>4. CASE Has(c, "WAIT_PUSH") /\ ~Has(c, "DONE")
      <4>1. c \in cmds /\ c \notin cmds' /\ flags'[c] = flags[c] \ {"WAIT_PUSH"}
        BY <2>5, <3>1, <3>4 DEF Abandon, TypeOK
      <4>2. result[c] = "EINTR"
        BY <1>0, <3>3, <4>1 DEF Life
      <4> QED
        BY <3>2, <3>3, <4>1, <4>2 DEF Life, Outcome, Has, Sleeping
    <3>5. CASE Has(c, "DONE")
      <4>1. c \notin cmds /\ UNCHANGED <<cmds, flags>>
        BY <2>5, <3>1, <3>5 DEF Abandon, MemInv, OwnerInv
      <4> QED
        BY <1>0, <3>1, <3>2, <3>3, <4>1 DEF Life, Outcome, Has, Sleeping
    <3>6. CASE ~Has(c, "WAIT_PUSH") /\ ~Has(c, "DONE")
      <4>1. c \in cmds /\ UNCHANGED cmds /\ "WAIT_PUSH" \notin flags'[c]
        BY <1>0, <2>5, <3>1, <3>6 DEF Abandon, TypeOK, Life, Sleeping, Has
      <4> QED
        BY <1>0, <3>2, <3>3, <3>6, <4>1 DEF Life, Outcome, Has, Sleeping
    <3> QED
      BY <3>4, <3>5, <3>6
  <2>6. CASE ReturnFlagged(c)
    <3>1. c \in RfCmd /\ c \notin cmds
      BY <2>6 DEF ReturnFlagged, MemInv, OwnerInv, Sleeping
    <3>2. pc'[c] = "done" /\ UNCHANGED cmds /\ ~oops'
      BY <1>0, <2>6 DEF ReturnFlagged, Returns, TypeOK, mgrVars
    <3> QED
      BY <3>1, <3>2 DEF Life, Sleeping
  <2>7. CASE ReturnBlocking(c)
    <3>1. /\ pc[c] = "return" /\ pc'[c] = "done" /\ ~oops' /\ blocking[c] /\ mem[c] = "live"
          /\ UNCHANGED <<cmds, blocking, flags, result>>
          /\ mem'[c] = IF Has(c, "NONBLOCK") THEN mem[c] ELSE "freed"
          /\ a2e_msg'[c] = (a2e_msg[c] /\ Outcome(c) = "OK")
      BY <1>0, <2>7 DEF ReturnBlocking, Release, Returns, TypeOK, mgrVars, Outcome
    <3> QED
      BY <1>0, <3>1 DEF Life, Has, Sleeping
  <2>8. CASE ReturnFreed(c)
    <3>1. /\ pc[c] = "return" /\ pc'[c] = "done" /\ ~oops' /\ blocking[c] /\ mem[c] = "freed"
          /\ UNCHANGED <<cmds, blocking, flags, result, mem, a2e_msg>>
      BY <1>0, <2>8 DEF ReturnFreed, Returns, TypeOK, mgrVars
    <3> QED
      BY <1>0, <3>1 DEF Life, Has, Sleeping
  <2>9. CASE ReturnNonblock(c)
    <3>1. /\ pc[c] = "return" /\ pc'[c] = "done" /\ ~oops' /\ ~blocking[c]
          /\ UNCHANGED <<cmds, blocking, flags, result>>
          /\ mem'[c] = IF ret[c] # "OK" THEN "freed" ELSE mem[c]
          /\ a2e_msg'[c] = (a2e_msg[c] /\ ret[c] = "OK")
      BY <1>0, <2>9 DEF ReturnNonblock, Release, Returns, TypeOK, mgrVars
    <3> QED
      BY <1>0, <3>1 DEF Life, Has, Sleeping
  <2> QED
    BY <2>1, <2>2, <2>3, <2>4, <2>5, <2>6, <2>7, <2>8, <2>9 DEF CallerStep
<1>2. ASSUME NEW d \in Cmd \ {c}
      PROVE  Life(d)'
  BY CallerFrozen, LifeFrozen DEF LifeInv
<1> QED
  BY <1>1, <1>2 DEF LifeInv

\* A completed command is free, or its sleeping call will free it.
LEMMA CompleteLife ==
  ASSUME TypeOK, MemInv, NEW c \in cmds, ~Has(c, "WAIT_PUSH"), Life(c), CompleteCmd(c),
         Has(c, "DONE")', Has(c, "NONBLOCK")' = Has(c, "NONBLOCK"),
         a2e_msg'[c] = a2e_msg[c], UNCHANGED callVars
  PROVE  Life(c)'
<1>1. /\ c \notin cmds' /\ ~a2e_msg'[c] /\ pc'[c] = pc[c] /\ ret'[c] = ret[c]
      /\ blocking'[c] = blocking[c] /\ mem[c] = "live"
  BY DEF CompleteCmd, Life, callVars, MemInv, ListedIsLive
<1>2. CASE Has(c, "NONBLOCK")
  <2>1. mem'[c] = "freed"
    BY <1>2 DEF CompleteCmd, TypeOK
  <2>2. pc[c] \in {"return", "done"} /\ (blocking[c] \/ ret[c] = "OK")
    BY <1>2 DEF MemInv, OwnerInv, UnqueuedInv, TypeOK, Pc, Sleeping
  <2> QED
    BY <1>1, <2>1, <2>2 DEF Life, Sleeping
<1>3. CASE ~Has(c, "NONBLOCK")
  <2>1. mem'[c] = "live"
    BY <1>1, <1>3 DEF CompleteCmd
  <2>2. pc[c] \in Sleeping /\ blocking[c]
    BY <1>3 DEF MemInv, OwnerInv
  <2> QED
    BY <1>1, <1>3, <2>1, <2>2 DEF Life, Sleeping
<1> QED
  BY <1>2, <1>3

LEMMA AckLife ==
  ASSUME TypeOK, MemInv, SlotInv, LifeInv, Ack
  PROVE  LifeInv'
<1>0. PICK h \in Cmd : h = hostid
  BY AckSelf
<1>1. UNCHANGED callVars /\ ~oops' /\ a2e_msg'[h] = a2e_msg[h]
  BY <1>0, AckSelf DEF Ack, LifeInv
<1>2. Life(h)'
  <2>0. Life(h)
    BY DEF LifeInv
  <2>1. CASE h \notin cmds
    <3>1. /\ h \notin cmds' /\ mem' = mem /\ result' = result
          /\ flags'[h] = flags[h]
      BY <1>0, <2>1, AckSelf DEF Ack
    <3> QED
      BY <1>1, <2>0, <2>1, <3>1, LifeFrozen DEF Frozen, callVars
  <2>2. CASE h \in cmds /\ WaitComplete(Answered(h, "WAIT_ACK"))
    <3>1. CompleteCmd(h) /\ ~Has(h, "WAIT_PUSH")
      BY <1>0, <2>2 DEF Ack, Completes, SlotInv
    <3>2. Has(h, "DONE")' /\ Has(h, "NONBLOCK")' = Has(h, "NONBLOCK")
      BY <1>0, <2>2, <3>1, AckList, FirmwareFlags DEF AckAnswers, CompleteCmd, Firmware, Has
    <3> QED
      BY <1>1, <2>0, <2>2, <3>1, <3>2, CompleteLife
  <2>3. CASE h \in cmds /\ ~WaitComplete(Answered(h, "WAIT_ACK"))
    <3>1. UNCHANGED <<cmds, mem, result>>
      BY <1>0, <2>3 DEF Ack, Completes
    <3>2. ~a2e_msg[h] /\ mem[h] = "live"
      BY <1>0, <2>0, <2>3 DEF Ack, SlotInv, Life, MemInv, ListedIsLive
    <3> QED
      BY <1>1, <2>0, <2>3, <3>1, <3>2 DEF Life, callVars
  <2> QED
    BY <2>1, <2>2, <2>3
<1>3. ASSUME NEW d \in Cmd \ {h}
      PROVE  Life(d)'
  <2>0. Life(d)
    BY DEF LifeInv
  <2>1. /\ d \in cmds' <=> d \in cmds
        /\ mem'[d] = mem[d] /\ result'[d] = result[d]
        /\ pc'[d] = pc[d] /\ ret'[d] = ret[d] /\ blocking'[d] = blocking[d]
    BY <1>0, <1>1, AckOthers DEF Ack, Completes, CompleteCmd, TypeOK, callVars
  <2>2. CASE flags'[d] = flags[d] /\ a2e_msg'[d] = a2e_msg[d]
    BY <2>0, <2>1, <2>2, LifeFrozen DEF Frozen
  <2>3. CASE ~(flags'[d] = flags[d] /\ a2e_msg'[d] = a2e_msg[d])
    <3>1. d \in cmds /\ mem[d] = "live"
      BY <1>0, <2>3, AckOthers DEF MemInv, ListedIsLive
    <3>2. ~Has(d, "WAIT_PUSH")' => ~a2e_msg'[d]
      <4>1. CASE hostid' = d
        <5>1. hostid' # None
          BY <4>1, CmdAssumption
        <5> QED
          BY <4>1, <5>1 DEF Ack, Push, TypeOK
      <4>2. CASE hostid' # d
        <5>1. flags'[d] = flags[d]
          BY <1>0, <4>2, AckList DEF AckEmpties, AckPushes
        <5>2. a2e_msg'[d] = a2e_msg[d]
          BY <4>2 DEF Ack, Push, TypeOK
        <5> QED
          BY <2>0, <3>1, <5>1, <5>2 DEF Life, Has
      <4> QED
        BY <4>1, <4>2
    <3> QED
      BY <2>0, <2>1, <3>1, <3>2 DEF Life
  <2> QED
    BY <2>2, <2>3
<1> QED
  BY <1>1, <1>2, <1>3 DEF LifeInv

LEMMA ConfirmLife ==
  ASSUME TypeOK, MemInv, TokenInv, LifeInv, NEW x \in Cmd, Confirm(x)
  PROVE  LifeInv'
<1>1. /\ UNCHANGED <<callVars, a2e_msg>> /\ ~oops'
  BY DEF Confirm, LifeInv
<1>2. CASE UNCHANGED <<cmds, flags, mem, result>>
  BY <1>1, <1>2, LifeFrozen DEF LifeInv, Frozen, callVars
<1>3. ASSUME NEW e \in cmds, flags' = FlagsAfter(e, "WAIT_CFM"), Completes(e, "WAIT_CFM")
      PROVE  LifeInv'
  <2>1. ASSUME NEW d \in Cmd \ {e}
        PROVE  Life(d)'
    <3>1. Frozen(d) /\ flags'[d] = flags[d]
      BY <1>1, <1>3 DEF Frozen, callVars, FlagsAfter, Completes, CompleteCmd, TypeOK
    <3> QED
      BY <3>1, LifeFrozen DEF LifeInv
  <2>2. Life(e)'
    <3>1. Life(e) /\ e \in Cmd
      BY DEF LifeInv, TypeOK
    <3>2. CASE WaitComplete(Answered(e, "WAIT_CFM"))
      <4>1. ~Has(e, "WAIT_PUSH")
        BY <3>2 DEF TokenInv, WaitComplete, Answered, Has
      <4>2. Has(e, "DONE")' /\ Has(e, "NONBLOCK")' = Has(e, "NONBLOCK")
        BY <1>3, <3>1, <3>2 DEF FlagsAfter, Answered, Has, TypeOK
      <4> QED
        BY <1>1, <1>3, <3>1, <3>2, <4>1, <4>2, CompleteLife DEF Completes
    <3>3. CASE ~WaitComplete(Answered(e, "WAIT_CFM"))
      <4>1. flags'[e] = flags[e] \ {"WAIT_CFM"}
        BY <1>3, <3>1, <3>3 DEF FlagsAfter, Answered, TypeOK
      <4>2. UNCHANGED <<cmds, mem, result>>
        BY <1>3, <3>3 DEF Completes
      <4> QED
        BY <1>1, <3>1, <4>1, <4>2 DEF Life, Has, callVars, Outcome
    <3> QED
      BY <3>2, <3>3
  <2> QED
    BY <1>1, <2>1, <2>2 DEF LifeInv
<1> QED
  BY <1>2, <1>3 DEF Confirm

DrainsNothing == rst = "deinit" => cmds = {}

LEMMA LifeStep ==
  ASSUME TypeOK, MemInv, ListInv, RfCallInv, DrainedInv, DrainsNothing, LifeInv, [Next]_vars
  PROVE  LifeInv'
<1>1. ASSUME NEW c \in Cmd, NEW f, NEW r, NEW block, Alloc(c, f, r, block)
      PROVE  LifeInv'
  <2>1. ~oops' /\ c \notin cmds /\ cmds' = cmds
    BY <1>1 DEF Alloc, MemInv, UnqueuedInv, mgrVars
  <2>2. Life(c)'
    BY <1>1, <2>1 DEF Alloc, Life, TypeOK, Sleeping
  <2>3. ASSUME NEW d \in Cmd \ {c}
        PROVE  Frozen(d) /\ flags'[d] = flags[d]
    BY <1>1 DEF Alloc, Frozen, TypeOK, mgrVars
  <2> QED
    BY <2>1, <2>2, <2>3, LifeFrozen DEF LifeInv
<1>2. ASSUME NEW c \in Cmd, Send(c) \/ SendSetup(c) \/ StopBusiness(c) \/ StartBusiness(c)
      PROVE  LifeInv'
  BY <1>1, <1>2 DEF Send, SendSetup, StopBusiness, StartBusiness
<1>3. ASSUME NEW c \in Cmd, Bypass(c) \/ Kill(c)
      PROVE  LifeInv'
  <2>1. ~oops' /\ UNCHANGED <<cmds, cmdVars, blocking>>
    BY <1>3 DEF Bypass, Kill, mgrVars, LifeInv
  <2>2. Life(c)'
    <3>1. CASE Bypass(c)
      <4>1. pc[c] = "idle" /\ pc'[c] = "done" /\ mem[c] = "none"
        BY <3>1 DEF Bypass, TypeOK, LifeInv, Life
      <4>2. c \notin cmds /\ mem'[c] = "none"
        BY <2>1, <4>1 DEF MemInv, UnqueuedInv, cmdVars
      <4> QED
        BY <2>1, <4>1, <4>2 DEF Life, Sleeping
    <3>2. CASE Kill(c)
      <4>1. pc[c] = "wait" /\ pc'[c] = "killed"
        BY <3>2 DEF Kill, TypeOK
      <4> QED
        BY <2>1, <4>1 DEF Life, LifeInv, Sleeping, Has, cmdVars
    <3> QED
      BY <1>3, <3>1, <3>2
  <2>3. ASSUME NEW d \in Cmd \ {c}
        PROVE  Frozen(d) /\ flags'[d] = flags[d]
    BY <1>3, <2>1 DEF Bypass, Kill, Frozen, TypeOK, cmdVars
  <2> QED
    BY <2>1, <2>2, <2>3, LifeFrozen DEF LifeInv
<1>4. ASSUME NEW c \in Cmd, CallerStep(c)
      PROVE  LifeInv'
  BY <1>4, CallerLife
<1>5. CASE Firmware
  BY <1>5, AckLife, ConfirmLife DEF Firmware, ListInv
<1>6. CASE Restart
  <2>1. ~oops' /\ UNCHANGED <<cmds, flags, result, callVars>>
    BY <1>6 DEF Restart, TriggerRestart, IrqsDeinit, MgrDeinit, Drain, MgrInit, RestartDone,
            DrainsNothing, DrainedInv, mgrVars, cmdVars, LifeInv
  <2>2. \A d \in Cmd : a2e_msg'[d] = a2e_msg[d] /\ mem'[d] = mem[d]
    BY <1>6 DEF Restart, TriggerRestart, IrqsDeinit, MgrDeinit, Drain, MgrInit, RestartDone,
            DrainsNothing, cmdVars, TypeOK
  <2> QED
    BY <2>1, <2>2, LifeFrozen DEF LifeInv, Frozen, callVars
<1>7. CASE Calibration
  BY <1>7, LifeFrozen DEF Calibration, StopReturns, StartSkipped, StartReturns, mgrVars,
     cmdVars, callVars, LifeInv, Frozen
<1>8. CASE UNCHANGED vars
  BY <1>8, LifeFrozen DEF vars, mgrVars, cmdVars, callVars, LifeInv, Frozen
<1> QED
  BY <1>2, <1>3, <1>4, <1>5, <1>6, <1>7, <1>8, CmdParts DEF Next, Asleep, Halted

LEMMA InitLife == Init => LifeInv
BY DEF Init, LifeInv, Life, Sleeping

LEMMA LifeLeavesOnce ==
  ASSUME LifeInv
  PROVE  LeavesOnce
BY DEF LifeInv, Life, LeavesOnce, NoOops, NothingLeaks

\* Answers, deadlines and fatal signals take a command off the list once, and its
\* call or its answer frees it and its request once, as long as the drain of a
\* restart finds the list empty.  (A command that is drained while its caller is past
\* its sleep is taken off again, cmd_mgr_queue's list_del at siwifi_cmds.c:33 and 200.)
THEOREM EveryExitLeavesOnce == Spec /\ []DrainsNothing => []LeavesOnce
<1>1. IndInv /\ DrainsNothing /\ LifeInv /\ [Next]_vars => LifeInv'
  BY LifeStep DEF IndInv, OrderedInv
<1> QED
  BY InitIndInv, IndStep, InitLife, <1>1, LifeLeavesOnce, PTL DEF Spec

\* A driver that is never restarted drains nothing: there the promise is without
\* condition.
THEOREM EveryExitLeavesOnceUnrestarted == ASSUME SetupCmd = {} PROVE Spec => []LeavesOnce
<1> DEFINE Apart == (SetupCmd = {} => rst = "run") /\ (RfCmd = {} => rf = "idle")
<1>1. Init => Apart
  BY ApartStep
<1>2. Apart /\ [Next]_vars => Apart'
  BY ApartStep
<1>3. Apart => DrainsNothing
  BY DEF DrainsNothing
<1> QED
  BY <1>1, <1>2, <1>3, EveryExitLeavesOnce, PTL DEF Spec

-----------------------------------------------------------------------------
(* Success is only reported for a request the firmware took and confirmed.    *)

\* Whose confirmations carry the identifier of the RF thread.
IdInv ==
  /\ \A c \in Cmd : reqid[c] = "MM_RF_CTRL_CFM" => c \in RfCmd
  /\ \A c \in RfCmd : pc[c] # "idle" => reqid[c] = "MM_RF_CTRL_CFM"

\* What the result of a call says of its command.
Told(c) ==
  /\ pc[c] \in {"idle", "queue"} => result[c] = "EINTR"
  /\ pc[c] \in Sleeping => mem[c] = "live"
  /\ result[c] = "ETIMEDOUT" => c \notin cmds /\ pc[c] \in {"return", "done"}
  /\ blocking[c] =>
       /\ c \in cmds => result[c] # "OK"
       /\ result[c] = "OK" => ~Has(c, "WAIT_PUSH")
       /\ pc[c] = "return" /\ mem[c] = "freed" => ~Has(c, "WAIT_PUSH")
       /\ pc[c] = "done" /\ ret[c] = "OK" => c \notin cmds /\ ~Has(c, "WAIT_PUSH")

ToldInv == IdInv /\ \A c \in Cmd : Told(c)

LEMMA ToldFrozen ==
  ASSUME NEW d, Frozen(d), flags'[d] = flags[d], Told(d)
  PROVE  Told(d)'
BY DEF Frozen, Told, Has

LEMMA SameId ==
  ASSUME IdInv, UNCHANGED reqid, \A d \in RfCmd : pc[d] = "idle" => pc'[d] = "idle"
  PROVE  IdInv'
BY DEF IdInv

\* A step of the interrupt side: some of the listed commands leave the list
\* answered, at most one more is pushed.
LEMMA AnswerTold ==
  ASSUME TypeOK, MemInv, NEW d \in Cmd, Told(d), UNCHANGED callVars, cmds' \subseteq cmds,
         Has(d, "WAIT_PUSH")' => Has(d, "WAIT_PUSH"),
         \/ mem'[d] = mem[d] /\ result'[d] = result[d]
         \/ /\ d \in cmds /\ d \notin cmds' /\ ~Has(d, "WAIT_PUSH")
            /\ result'[d] \in {"OK", result[d]}
            /\ ~Has(d, "NONBLOCK") => mem'[d] = mem[d]
  PROVE  Told(d)'
<1>1. pc'[d] = pc[d] /\ ret'[d] = ret[d] /\ blocking'[d] = blocking[d]
  BY DEF callVars
<1>2. CASE mem'[d] = mem[d] /\ result'[d] = result[d]
  BY <1>1, <1>2 DEF Told
<1>3. CASE /\ d \in cmds /\ d \notin cmds' /\ ~Has(d, "WAIT_PUSH")
           /\ result'[d] \in {"OK", result[d]}
           /\ ~Has(d, "NONBLOCK") => mem'[d] = mem[d]
  <2>1. pc[d] \notin {"idle", "queue"}
    BY <1>3 DEF MemInv, UnqueuedInv
  <2>2. pc[d] \in Sleeping => ~Has(d, "NONBLOCK")
    BY <1>3 DEF MemInv, OwnerInv
  <2> QED
    BY <1>1, <1>3, <2>1, <2>2 DEF Told
<1> QED
  BY <1>2, <1>3

LEMMA CompletesTold ==
  ASSUME TypeOK, NEW c \in cmds, NEW f, NEW d \in Cmd, Completes(c, f),
         WaitComplete(Answered(c, f)) => ~Has(c, "WAIT_PUSH")
  PROVE  /\ cmds' \subseteq cmds
         /\ \/ mem'[d] = mem[d] /\ result'[d] = result[d]
            \/ /\ d \in cmds /\ d \notin cmds' /\ ~Has(d, "WAIT_PUSH")
               /\ result'[d] \in {"OK", result[d]}
               /\ ~Has(d, "NONBLOCK") => mem'[d] = mem[d]
BY DEF Completes, CompleteCmd, TypeOK

LEMMA FirmwareTold ==
  ASSUME TypeOK, MemInv, ListInv, ToldInv, Firmware
  PROVE  ToldInv'
<1>1. UNCHANGED <<callVars, reqid>>
  BY DEF Firmware, Ack, Confirm
<1>2. CASE Ack
  <2>1. \A d \in Cmd : Has(d, "WAIT_PUSH")' => Has(d, "WAIT_PUSH")
    <3> SUFFICES ASSUME NEW d \in Cmd PROVE Has(d, "WAIT_PUSH")' => Has(d, "WAIT_PUSH")
      OBVIOUS
    <3>1. flags'[d] \ {"WAIT_ACK", "WAIT_PUSH", "DONE"} 
            = flags[d] \ {"WAIT_ACK", "WAIT_PUSH", "DONE"}
          /\ (d # hostid => flags'[d] \in {flags[d], flags[d] \ {"WAIT_PUSH"}})
          /\ (d = hostid => flags'[d] \ {"DONE"} \in {flags[d] \ {"DONE"}, flags[d] \ {"WAIT_ACK", "DONE"}})
      BY <1>2, AckList DEF ListInv, AckAnswers, AckEmpties, AckPushes
    <3> QED
      BY <3>1 DEF Has
  <2>2. ASSUME NEW d \in Cmd
        PROVE  Told(d)'
    <3>1. Told(d)
      BY DEF ToldInv
    <3>2. CASE hostid \in cmds
      <4>1. Completes(hostid, "WAIT_ACK") /\ ~Has(hostid, "WAIT_PUSH")
        BY <1>2, <3>2 DEF Ack, ListInv, SlotInv
      <4> QED
        BY <1>1, <2>1, <3>1, <3>2, <4>1, CompletesTold, AnswerTold
    <3>3. CASE hostid \notin cmds
      <4>1. UNCHANGED <<cmds, mem, result>>
        BY <1>2, <3>3 DEF Ack
      <4> QED
        BY <1>1, <2>1, <3>1, <4>1, AnswerTold
    <3> QED
      BY <3>2, <3>3
  <2> QED
    BY <1>1, <2>2, SameId DEF ToldInv, callVars
<1>3. ASSUME NEW x \in Cmd, Confirm(x)
      PROVE  ToldInv'
  <2>1. \A d \in Cmd : Has(d, "WAIT_PUSH")' => Has(d, "WAIT_PUSH")
    BY <1>3, ConfirmList DEF Marks, Has
  <2>2. ASSUME NEW d \in Cmd
        PROVE  Told(d)'
    <3>1. Told(d)
      BY DEF ToldInv
    <3>2. CASE UNCHANGED <<cmds, mem, result>>
      BY <1>1, <2>1, <3>1, <3>2, AnswerTold
    <3>3. ASSUME NEW e \in cmds, Completes(e, "WAIT_CFM")
          PROVE  Told(d)'
      <4>1. WaitComplete(Answered(e, "WAIT_CFM")) => ~Has(e, "WAIT_PUSH")
        BY DEF ListInv, TokenInv, WaitComplete, Answered, Has
      <4> QED
        BY <1>1, <2>1, <3>1, <3>3, <4>1, CompletesTold, AnswerTold
    <3> QED
      BY <1>3, <3>2, <3>3 DEF Confirm
  <2> QED
    BY <1>1, <2>2, SameId DEF ToldInv, callVars
<1> QED
  BY <1>2, <1>3 DEF Firmware

LEMMA CallerTold ==
  ASSUME TypeOK, MemInv, RfCallInv, ToldInv, NEW c \in Cmd, CallerStep(c)
  PROVE  ToldInv'
<1>0. Told(c) /\ pc[c] \notin {"idle", "done"}
  BY DEF ToldInv, CallerStep, Queue, Wake, Timeout, TimeoutCrash, Abandon,
         ReturnFlagged, ReturnBlocking, ReturnFreed, ReturnNonblock
<1>1. IdInv'
  <2>1. UNCHANGED reqid
    BY DEF CallerStep, Queue, Accept, Refuse, Wake, Timeout, TimeoutCrash, Abandon,
         PoisonedListDel, ReturnFlagged, ReturnBlocking, ReturnFreed, ReturnNonblock,
         Returns, cmdVars
  <2>2. \A d \in Cmd \ {c} : pc'[d] = pc[d]
    BY CallerFrozen DEF Frozen
  <2> QED
    BY <1>0, <2>1, <2>2 DEF ToldInv, IdInv, Cmd
<1>2. Told(c)'
  <2>1. CASE Queue(c)
    <3>1. CASE Accept(c)
      <4>1. /\ pc'[c] \in {"wait", "return"} /\ mem'[c] = "live"
            /\ blocking'[c] = blocking[c]
            /\ result'[c] = IF blocking[c] THEN "EINTR" ELSE "OK"
        BY <2>1, <3>1 DEF Queue, Accept, TypeOK, MemInv, UnqueuedInv
      <4> QED
        BY <4>1 DEF Told
    <3>2. ASSUME NEW res \in {"EPERM", "EPIPE", "ENOMEM"}, NEW r, Refuse(c, res, r)
          PROVE  Told(c)'
      <4>1. pc'[c] = "return" /\ mem'[c] = "live" /\ result'[c] = res
        BY <2>1, <3>2 DEF Queue, Refuse, TypeOK, MemInv, UnqueuedInv
      <4> QED
        BY <4>1 DEF Told, Sleeping
    <3> QED
      BY <2>1, <3>1, <3>2 DEF Queue
  <2>2. CASE Wake(c) \/ Timeout(c)
    <3>1. /\ pc[c] = "wait" /\ pc'[c] \in {"return", "timedout"}
          /\ UNCHANGED <<cmds, cmdVars, blocking>>
      BY <2>2 DEF Wake, Timeout, TypeOK, mgrVars
    <3> QED
      BY <1>0, <3>1 DEF Told, Sleeping, Has, cmdVars
  <2>3. CASE TimeoutCrash(c) /\ ~PoisonedListDel
    <3>1. /\ pc[c] = "timedout" /\ pc'[c] = "return" /\ UNCHANGED <<blocking, mem>>
          /\ c \notin cmds' /\ flags'[c] \subseteq flags[c] \cup {"DONE"}
          /\ result'[c] \in {result[c], "ETIMEDOUT"}
      BY <2>3 DEF TimeoutCrash, TypeOK, MemInv, OwnerInv
    <3> QED
      BY <1>0, <3>1 DEF Told, Sleeping, Has
  <2>4. CASE Abandon(c) /\ ~PoisonedListDel
    <3>1. /\ pc[c] = "killed" /\ pc'[c] = "return" /\ UNCHANGED <<blocking, mem, result>>
          /\ cmds' \subseteq cmds /\ flags'[c] \subseteq flags[c] \cup {"NONBLOCK"}
      BY <2>4 DEF Abandon, TypeOK
    <3> QED
      BY <1>0, <3>1 DEF Told, Sleeping, Has
  <2>5. CASE PoisonedListDel
    BY <1>0, <2>5 DEF PoisonedListDel, Told, Has, mgrVars, cmdVars, callVars
  <2>6. CASE ReturnFlagged(c) \/ ReturnBlocking(c) \/ ReturnFreed(c) \/ ReturnNonblock(c)
    <3>1. /\ pc[c] = "return" /\ pc'[c] = "done" /\ UNCHANGED <<cmds, flags, blocking, result>>
      BY <2>6 DEF ReturnFlagged, ReturnBlocking, ReturnFreed, ReturnNonblock, Returns,
                  TypeOK, mgrVars
    <3>2. blocking[c] /\ ret'[c] = "OK" =>
            result[c] = "OK" \/ mem[c] = "freed"
      <4>1. CASE ReturnFreed(c)
        BY <4>1 DEF ReturnFreed
      <4>2. CASE ReturnNonblock(c)
        BY <4>2 DEF ReturnNonblock
      <4>3. CASE ReturnFlagged(c)
        BY <4>3 DEF ReturnFlagged, Returns, TypeOK
      <4>4. CASE ReturnBlocking(c)
        BY <4>4 DEF ReturnBlocking, Returns, TypeOK
      <4> QED
        BY <2>6, <4>1, <4>2, <4>3, <4>4
    <3>3. mem[c] = "freed" => c \notin cmds
      BY DEF MemInv, ListedIsLive
    <3> QED
      BY <1>0, <3>1, <3>2, <3>3 DEF Told, Sleeping, Has
  <2> QED
    BY <2>1, <2>2, <2>3, <2>4, <2>5, <2>6 DEF CallerStep
<1>3. ASSUME NEW d \in Cmd \ {c}
      PROVE  Told(d)'
  BY CallerFrozen, ToldFrozen DEF ToldInv
<1> QED
  BY <1>1, <1>2, <1>3 DEF ToldInv

LEMMA ToldStep ==
  ASSUME TypeOK, MemInv, ListInv, RfCallInv, ToldInv, [Next]_vars
  PROVE  ToldInv'
<1>1. ASSUME NEW c \in Cmd, NEW f, NEW r, NEW block, Alloc(c, f, r, block),
             r = "MM_RF_CTRL_CFM" <=> c \in RfCmd
      PROVE  ToldInv'
  <2>1. c \notin cmds /\ cmds' = cmds /\ pc[c] = "idle"
    BY <1>1 DEF Alloc, MemInv, UnqueuedInv, mgrVars
  <2>2. Told(c)'
    BY <1>1, <2>1 DEF Alloc, Told, ToldInv, TypeOK, Sleeping
  <2>3. ASSUME NEW d \in Cmd \ {c}
        PROVE  Frozen(d) /\ flags'[d] = flags[d] /\ reqid'[d] = reqid[d]
    BY <1>1 DEF Alloc, Frozen, TypeOK, mgrVars
  <2>4. IdInv'
    <3>1. reqid'[c] = r
      BY <1>1 DEF Alloc, TypeOK
    <3> QED
      BY <1>1, <2>3, <3>1, CmdParts DEF ToldInv, IdInv, Frozen
  <2> QED
    BY <2>2, <2>3, <2>4, ToldFrozen DEF ToldInv
<1>2. ASSUME NEW c \in UserCmd, Send(c)
      PROVE  ToldInv'
  BY <1>1, <1>2, CmdParts, CmdAssumption, IdAssumption DEF Send
<1>3. ASSUME NEW c \in SetupCmd, SendSetup(c)
      PROVE  ToldInv'
  BY <1>1, <1>3, CmdParts, CmdAssumption DEF SendSetup
<1>4. ASSUME NEW c \in RfCmd, StopBusiness(c) \/ StartBusiness(c)
      PROVE  ToldInv'
  BY <1>1, <1>4, CmdParts DEF StopBusiness, StartBusiness
<1>5. ASSUME NEW c \in UserCmd, Bypass(c) \/ Kill(c)
      PROVE  ToldInv'
  <2>1. c \in Cmd /\ c \notin RfCmd
    BY CmdParts, CmdAssumption
  <2>2. UNCHANGED <<cmds, cmdVars, blocking>> /\ \A d \in Cmd \ {c} : pc'[d] = pc[d] /\ ret'[d] = ret[d]
    BY <1>5, <2>1 DEF Bypass, Kill, mgrVars, TypeOK
  <2>3. Told(c)'
    <3>1. CASE Bypass(c)
      <4>1. pc[c] = "idle" /\ pc'[c] = "done" /\ ret'[c] = "EBUSY"
        BY <2>1, <3>1 DEF Bypass, TypeOK
      <4> QED
        BY <2>1, <2>2, <4>1 DEF Told, ToldInv, Sleeping, cmdVars
    <3>2. CASE Kill(c)
      <4>1. pc[c] = "wait" /\ pc'[c] = "killed"
        BY <2>1, <3>2 DEF Kill, TypeOK
      <4> QED
        BY <2>1, <2>2, <4>1 DEF Told, ToldInv, Sleeping, cmdVars, Has
    <3> QED
      BY <1>5, <3>1, <3>2
  <2>4. IdInv'
    BY <2>1, <2>2, CmdParts, SameId DEF ToldInv, cmdVars
  <2>5. \A d \in Cmd \ {c} : Frozen(d) /\ flags'[d] = flags[d]
    BY <2>2 DEF Frozen, cmdVars
  <2> QED
    BY <2>3, <2>4, <2>5, ToldFrozen DEF ToldInv
<1>6. ASSUME NEW c \in Cmd, CallerStep(c)
      PROVE  ToldInv'
  BY <1>6, CallerTold
<1>7. CASE Firmware
  BY <1>7, FirmwareTold
<1>8. CASE Drain
  <2>1. UNCHANGED <<flags, reqid, result, callVars>> /\ cmds' = {}
    BY <1>8 DEF Drain
  <2>2. ASSUME NEW d \in Cmd
        PROVE  mem'[d] = mem[d] \/ (d \in cmds /\ Has(d, "NONBLOCK") /\ mem'[d] = "freed")
    <3>1. mem'[d] = IF d \in cmds /\ Has(d, "NONBLOCK") THEN "freed" ELSE mem[d]
      BY <1>8 DEF Drain
    <3> QED
      BY <3>1 DEF Has
  <2>3. ASSUME NEW d \in Cmd
        PROVE  Told(d)'
    <3>1. d \in cmds /\ Has(d, "NONBLOCK") =>
            pc[d] \notin Sleeping /\ (blocking[d] => ~Has(d, "WAIT_PUSH"))
      BY DEF MemInv, OwnerInv
    <3> QED
      BY <2>1, <2>2, <3>1 DEF Told, ToldInv, callVars, Has
  <2> QED
    BY <2>1, <2>3, SameId DEF ToldInv, callVars
<1>9. CASE MgrInit
  BY <1>9, SameId DEF MgrInit, Told, ToldInv, callVars, cmdVars, Has
<1>10. CASE TriggerRestart \/ IrqsDeinit \/ MgrDeinit \/ RestartDone
  BY <1>10, ToldFrozen, SameId DEF TriggerRestart, IrqsDeinit, MgrDeinit, RestartDone, mgrVars,
     cmdVars, callVars, ToldInv, Frozen
<1>11. CASE Calibration
  BY <1>11, ToldFrozen, SameId DEF Calibration, StopReturns, StartSkipped, StartReturns, mgrVars,
     cmdVars, callVars, ToldInv, Frozen
<1>12. CASE UNCHANGED vars
  BY <1>12, ToldFrozen, SameId DEF vars, mgrVars, cmdVars, callVars, ToldInv, Frozen
<1> QED
  BY <1>2, <1>3, <1>4, <1>5, <1>6, <1>7, <1>8, <1>9, <1>10, <1>11, <1>12
     DEF Next, Asleep, Halted, Restart

\* No command missed its deadline.
OnTime == \A c \in Cmd : result[c] # "ETIMEDOUT"

\* The firmware owes a confirmation for the listed commands it acknowledged.
Unanswered == {c \in cmds : Has(c, "WAIT_CFM") /\ ~Has(c, "WAIT_ACK")}

\* Then what the mailbox and the firmware hold are the commands of the list.
AnswerInv ==
  /\ fw = Unanswered
  /\ hostid # None => hostid \in Unacked
  /\ \A c \in cmds : Has(c, "REQ_CFM") <=> Has(c, "WAIT_CFM")

LEMMA SameAnswer ==
  ASSUME AnswerInv, UNCHANGED <<fw, hostid, cmds>>, \A d \in cmds : flags'[d] = flags[d]
  PROVE  AnswerInv'
BY DEF AnswerInv, Unanswered, Unacked, Has

\* A deadline that was missed stays in the result of its command.
LEMMA OnTimeBefore ==
  ASSUME TypeOK, ToldInv, [Next]_vars, OnTime'
  PROVE  OnTime
<1> SUFFICES ASSUME NEW c \in Cmd, result[c] = "ETIMEDOUT" PROVE result'[c] = "ETIMEDOUT"
  BY DEF OnTime
<1>1. c \notin cmds /\ pc[c] \in {"return", "done"}
  BY DEF ToldInv, Told
<1>2. ASSUME NEW d \in Cmd, CallerStep(d)
      PROVE  result'[c] = result[c]
  <2>1. CASE d = c
    BY <1>1, <1>2, <2>1 DEF CallerStep, Queue, Wake, Timeout, TimeoutCrash, Abandon,
       ReturnFlagged, ReturnBlocking, ReturnFreed, ReturnNonblock, Returns
  <2>2. CASE d # c
    BY <1>2, <2>2, CallerFrozen DEF Frozen
  <2> QED
    BY <2>1, <2>2
<1>3. CASE Firmware
  BY <1>1, <1>3 DEF Firmware, Ack, Confirm, Completes, CompleteCmd, TypeOK
<1> QED
  BY <1>2, <1>3 DEF Next, Asleep, Halted, Restart, TriggerRestart, IrqsDeinit, MgrDeinit, Drain,
     MgrInit, RestartDone, Calibration, StopReturns, StartSkipped, StartReturns, Send, Bypass,
     Kill, SendSetup, StopBusiness, StartBusiness, Alloc, vars, cmdVars

LEMMA AcceptAnswer ==
  ASSUME TypeOK, MemInv, ListInv, RfCallInv, ServeInv, AnswerInv, NEW c \in Cmd,
         pc[c] = "queue", state \in {"INITED", "PAUSED"}, Accept(c)
  PROVE  AnswerInv'
<1>1. /\ c \notin cmds
      /\ flags[c] \cap {"WAIT_PUSH", "WAIT_ACK", "WAIT_CFM", "DONE"} = {}
  BY DEF MemInv, UnqueuedInv
<1>2. /\ cmds' = cmds \cup {c} /\ fw' = fw
      /\ \A d \in Cmd \ {c} : flags'[d] = flags[d]
      /\ Has(c, "WAIT_ACK")' /\ (Has(c, "WAIT_PUSH")' <=> Defers(c))
      /\ Has(c, "REQ_CFM")' <=> Has(c, "WAIT_CFM")'
  BY <1>1 DEF Accept, TypeOK, Has
<1>3. hostid' # None => hostid' \in Unacked'
  <2>1. CASE Defers(c)
    <3>1. hostid' = hostid
      BY <2>1 DEF Accept
    <3> QED
      BY <1>1, <1>2, <3>1 DEF AnswerInv, Unacked, Has, TypeOK
  <2>2. CASE ~Defers(c)
    <3>1. hostid' = c
      BY <2>2 DEF Accept, Push
    <3> QED
      BY <1>2, <2>2, <3>1 DEF Unacked
  <2> QED
    BY <2>1, <2>2
<1>4. Unanswered' = Unanswered
  BY <1>1, <1>2 DEF Unanswered, Has, TypeOK
<1> QED
  BY <1>1, <1>2, <1>3, <1>4 DEF AnswerInv, Has, TypeOK

\* A step of a call that takes at most a deferred command off the list.
LEMMA LeaveAnswer ==
  ASSUME TypeOK, AnswerInv, NEW c \in Cmd, UNCHANGED <<fw, hostid>>,
         cmds' = cmds \/ (cmds' = cmds \ {c} /\ Has(c, "WAIT_PUSH") /\ Has(c, "WAIT_ACK")),
         \A d \in cmds' : flags'[d] \cap {"WAIT_PUSH", "WAIT_ACK", "WAIT_CFM", "REQ_CFM"}
                          = flags[d] \cap {"WAIT_PUSH", "WAIT_ACK", "WAIT_CFM", "REQ_CFM"}
  PROVE  AnswerInv'
<1>1. \A d \in cmds' : /\ Has(d, "WAIT_PUSH")' <=> Has(d, "WAIT_PUSH")
                       /\ Has(d, "WAIT_ACK")' <=> Has(d, "WAIT_ACK")
                       /\ Has(d, "WAIT_CFM")' <=> Has(d, "WAIT_CFM")
                       /\ Has(d, "REQ_CFM")' <=> Has(d, "REQ_CFM")
  BY DEF Has
<1>2. Unanswered' = Unanswered
  BY <1>1 DEF Unanswered
<1>3. hostid # None => hostid' \in Unacked'
  BY <1>1 DEF AnswerInv, Unacked
<1> QED
  BY <1>1, <1>2, <1>3 DEF AnswerInv

LEMMA CallerAnswer ==
  ASSUME TypeOK, MemInv, ListInv, RfCallInv, ServeInv, AnswerInv, OnTime',
         NEW c \in Cmd, CallerStep(c)
  PROVE  AnswerInv'
<1>1. CASE Queue(c)
  <2>1. CASE Accept(c) /\ state \in {"INITED", "PAUSED"}
    BY <1>1, <2>1, AcceptAnswer DEF Queue
  <2>2. ASSUME NEW res, NEW r, Refuse(c, res, r)
        PROVE  AnswerInv'
    BY <2>2, SameAnswer DEF Refuse, mgrVars, fwVars
  <2> QED
    BY <1>1, <2>1, <2>2 DEF Queue, TypeOK
<1>2. CASE Wake(c) \/ Timeout(c) \/ ReturnFlagged(c) \/ ReturnBlocking(c) \/ ReturnFreed(c)
            \/ ReturnNonblock(c) \/ PoisonedListDel
  BY <1>2, SameAnswer DEF Wake, Timeout, ReturnFlagged, ReturnBlocking, ReturnFreed,
     ReturnNonblock, Returns, PoisonedListDel, mgrVars, cmdVars, fwVars
<1>3. CASE TimeoutCrash(c) /\ ~PoisonedListDel
  <2>1. Has(c, "DONE")
    BY <1>3 DEF TimeoutCrash, OnTime, TypeOK
  <2> QED
    BY <1>3, <2>1, SameAnswer DEF TimeoutCrash, fwVars
<1>4. CASE Abandon(c) /\ ~PoisonedListDel
  <2>1. /\ UNCHANGED <<fw, hostid>>
        /\ \/ cmds' = cmds /\ (flags' = flags \/ flags' = [flags EXCEPT ![c] = @ \cup {"NONBLOCK"}])
           \/ /\ cmds' = cmds \ {c} /\ Has(c, "WAIT_PUSH") /\ c \in cmds
              /\ flags' = [flags EXCEPT ![c] = @ \ {"WAIT_PUSH"}]
    BY <1>4 DEF Abandon, fwVars
  <2>2. Has(c, "WAIT_PUSH") /\ c \in cmds => Has(c, "WAIT_ACK")
    BY DEF ListInv, TokenInv
  <2>3. \A d \in cmds' : flags'[d] \ {"NONBLOCK"} = flags[d] \ {"NONBLOCK"}
    BY <2>1 DEF TypeOK
  <2>4. \A d \in cmds' : flags'[d] \cap {"WAIT_PUSH", "WAIT_ACK", "WAIT_CFM", "REQ_CFM"}
                          = flags[d] \cap {"WAIT_PUSH", "WAIT_ACK", "WAIT_CFM", "REQ_CFM"}
    BY <2>3
  <2> QED
    BY <2>1, <2>2, <2>4, LeaveAnswer DEF Has
<1> QED
  BY <1>1, <1>2, <1>3, <1>4 DEF CallerStep

LEMMA AckAnswer ==
  ASSUME TypeOK, MemInv, ListInv, AnswerInv, Ack
  PROVE  AnswerInv'
<1>1. PICK h \in Cmd : h = hostid
  BY AckSelf
<1>2. h \in cmds /\ Has(h, "WAIT_ACK") /\ ~Has(h, "WAIT_PUSH")
  BY <1>1, CmdAssumption DEF AnswerInv, Unacked
<1>3. cmds' \subseteq cmds /\ cmds \ cmds' \subseteq {h}
  BY <1>1, AckList DEF ListInv, AckAnswers
<1>4. \A d \in cmds' : /\ Has(d, "WAIT_ACK")' <=> Has(d, "WAIT_ACK") /\ d # h
                       /\ Has(d, "WAIT_PUSH")' <=> Has(d, "WAIT_PUSH") /\ hostid' # d
                       /\ Has(d, "WAIT_CFM")' <=> Has(d, "WAIT_CFM")
                       /\ Has(d, "REQ_CFM")' <=> Has(d, "REQ_CFM")
  <2> SUFFICES ASSUME NEW d \in cmds'
               PROVE  /\ Has(d, "WAIT_ACK")' <=> Has(d, "WAIT_ACK") /\ d # h
                      /\ Has(d, "WAIT_PUSH")' <=> Has(d, "WAIT_PUSH") /\ hostid' # d
                      /\ Has(d, "WAIT_CFM")' <=> Has(d, "WAIT_CFM")
                      /\ Has(d, "REQ_CFM")' <=> Has(d, "REQ_CFM")
    OBVIOUS
  <2>0. d \in Cmd
    BY <1>3 DEF TypeOK
  <2>1. flags'[d] \ {"WAIT_ACK", "WAIT_PUSH", "DONE"}
          = flags[d] \ {"WAIT_ACK", "WAIT_PUSH", "DONE"}
    <3>1. CASE d = h
      BY <1>1, <1>2, <3>1, AckList DEF ListInv, AckAnswers
    <3>2. CASE d # h
      BY <1>1, <2>0, <3>2, AckList DEF ListInv, AckEmpties, AckPushes
    <3> QED
      BY <3>1, <3>2
  <2>2. (Has(d, "WAIT_CFM")' <=> Has(d, "WAIT_CFM")) /\ (Has(d, "REQ_CFM")' <=> Has(d, "REQ_CFM"))
    BY <2>1 DEF Has
  <2> QED
    BY <1>1, <2>2, AckEach DEF ListInv
<1>5. h \in cmds' <=> Has(h, "WAIT_CFM")
  <2>1. CASE WaitComplete(Answered(h, "WAIT_ACK"))
    <3>1. h \notin cmds'
      BY <1>1, <1>2, <2>1 DEF Ack, Completes, CompleteCmd
    <3> QED
      BY <2>1, <3>1 DEF WaitComplete, Answered, Has
  <2>2. CASE ~WaitComplete(Answered(h, "WAIT_ACK"))
    <3>1. cmds' = cmds
      BY <1>1, <1>2, <2>2 DEF Ack, Completes
    <3> QED
      BY <1>2, <2>2, <3>1 DEF WaitComplete, Answered, Has
  <2> QED
    BY <2>1, <2>2
<1>6. fw' = IF Has(h, "WAIT_CFM") THEN fw \cup {h} ELSE fw
  BY <1>1, <1>2 DEF Ack, AnswerInv
<1>7. fw' = Unanswered'
  <2>1. \A d \in Cmd : d \in Unanswered' <=> d \in fw'
    BY <1>2, <1>3, <1>4, <1>5, <1>6 DEF Unanswered, AnswerInv, TypeOK
  <2>2. Unanswered' \subseteq Cmd /\ fw' \subseteq Cmd
    BY <1>3, <1>6 DEF Unanswered, TypeOK
  <2> QED
    BY <2>1, <2>2
<1>8. hostid' # None => hostid' \in Unacked'
  <2> SUFFICES ASSUME hostid' # None PROVE hostid' \in Unacked'
    OBVIOUS
  <2>1. PICK d \in cmds : AckPushes(d)
    BY AckList DEF ListInv, AckEmpties
  <2>2. d # h /\ hostid' = d /\ d \in cmds' /\ Has(d, "WAIT_PUSH")
    BY <1>1, <1>3, <2>1 DEF AckPushes, Deferred
  <2>3. Has(d, "WAIT_ACK")
    BY <2>2 DEF ListInv, TokenInv
  <2> QED
    BY <1>4, <2>2, <2>3 DEF Unacked
<1> QED
  BY <1>3, <1>4, <1>7, <1>8 DEF AnswerInv

\* The first command that waits for a confirmation of this identifier is the one the
\* firmware confirms.
LEMMA ConfirmFinds ==
  ASSUME TypeOK, MemInv, ListInv, RfCallInv, ServeInv, IdInv, AnswerInv,
         NEW x \in Cmd, Confirm(x), NEW d \in cmds,
         IsFirst(d, {e \in cmds : reqid[e] = reqid[x] /\ Has(e, "WAIT_CFM")})
  PROVE  d = x
<1>1. /\ x \in fw /\ x \in cmds /\ Has(x, "WAIT_CFM") /\ ~Has(x, "WAIT_ACK")
      /\ d \in Cmd /\ reqid[d] = reqid[x] /\ Has(d, "WAIT_CFM")
  BY DEF Confirm, AnswerInv, Unanswered, IsFirst, TypeOK
<1>2. tkn[d] <= tkn[x]
  BY <1>1 DEF IsFirst
<1> SUFFICES ASSUME d # x PROVE FALSE
  OBVIOUS
<1>3. tkn[d] < tkn[x]
  BY <1>1, <1>2 DEF ListInv, TokenInv, TypeOK
<1>4. d \notin fw
  BY <1>1, <1>3 DEF Confirm, TypeOK
<1>5. Has(d, "WAIT_ACK")
  BY <1>1, <1>4 DEF AnswerInv, Unanswered
<1>6. Has(x, "FORCE_PUSH")
  BY <1>1, <1>3, <1>5 DEF ServeInv, WaitOrder, ListInv, TokenInv
<1>7. x \in RfCmd
  BY <1>6 DEF RfCallInv, RfMarks, Has
<1>8. pc[x] \in Sleeping /\ x = rfcmd
  BY <1>1, <1>7 DEF MemInv, OwnerInv, RfCallInv, Sleeping
<1>9. d \in RfCmd
  BY <1>1, <1>7, <1>8 DEF IdInv, Sleeping
<1>10. pc[d] \in Sleeping /\ d = rfcmd
  BY <1>9 DEF MemInv, OwnerInv, RfCallInv, Sleeping
<1> QED
  BY <1>8, <1>10

LEMMA ConfirmAnswer ==
  ASSUME TypeOK, MemInv, ListInv, RfCallInv, ServeInv, IdInv, AnswerInv,
         NEW x \in Cmd, Confirm(x)
  PROVE  AnswerInv'
<1> DEFINE waiting == {e \in cmds : reqid[e] = reqid[x] /\ Has(e, "WAIT_CFM")}
<1>1. /\ x \in fw /\ x \in cmds /\ Has(x, "WAIT_CFM") /\ ~Has(x, "WAIT_ACK")
      /\ fw' = fw \ {x} /\ hostid' = hostid
  BY DEF Confirm, AnswerInv, Unanswered
<1>2. x \in waiting
  BY <1>1
<1>3. PICK d \in waiting : IsFirst(d, waiting) /\ flags' = FlagsAfter(d, "WAIT_CFM")
                           /\ Completes(d, "WAIT_CFM")
  BY <1>2 DEF Confirm
<1>4. d = x
  BY <1>3, ConfirmFinds
<1>5. cmds' = cmds \ {x}
  BY <1>1, <1>3, <1>4 DEF Completes, CompleteCmd, WaitComplete, Answered, Has
<1>6. \A e \in cmds' : flags'[e] = flags[e]
  BY <1>3, <1>4, <1>5 DEF FlagsAfter, TypeOK
<1>7. Unanswered' = Unanswered \ {x}
  BY <1>5, <1>6 DEF Unanswered, Has
<1>8. hostid # None => hostid \in Unacked'
  BY <1>1, <1>5, <1>6 DEF AnswerInv, Unacked, Has
<1> QED
  BY <1>1, <1>5, <1>6, <1>7, <1>8 DEF AnswerInv, Has

LEMMA AnswerStep ==
  ASSUME TypeOK, MemInv, DrainedInv, ListInv, RfCallInv, ServeInv, ToldInv, AnswerInv,
         OnTime', [Next]_vars
  PROVE  AnswerInv'
<1>1. ASSUME NEW c \in Cmd, NEW f, NEW r, NEW block, Alloc(c, f, r, block)
      PROVE  AnswerInv'
  <2>1. c \notin cmds
    BY <1>1 DEF Alloc, MemInv, UnqueuedInv
  <2> QED
    BY <1>1, <2>1, SameAnswer DEF Alloc, mgrVars, fwVars, TypeOK
<1>2. ASSUME NEW c \in Cmd, Send(c) \/ SendSetup(c) \/ StopBusiness(c) \/ StartBusiness(c)
      PROVE  AnswerInv'
  BY <1>1, <1>2 DEF Send, SendSetup, StopBusiness, StartBusiness
<1>3. ASSUME NEW c \in Cmd, Bypass(c) \/ Kill(c)
      PROVE  AnswerInv'
  BY <1>3, SameAnswer DEF Bypass, Kill, mgrVars, cmdVars, fwVars
<1>4. ASSUME NEW c \in Cmd, CallerStep(c)
      PROVE  AnswerInv'
  BY <1>4, CallerAnswer
<1>5. CASE Firmware
  BY <1>5, AckAnswer, ConfirmAnswer DEF Firmware, ToldInv
<1>6. CASE Drain
  BY <1>6 DEF Drain, AnswerInv, Unanswered
<1>7. CASE TriggerRestart \/ IrqsDeinit \/ MgrDeinit \/ MgrInit \/ RestartDone
  BY <1>7, SameAnswer DEF TriggerRestart, IrqsDeinit, MgrDeinit, MgrInit, RestartDone, DrainedInv,
     mgrVars, cmdVars, fwVars
<1>8. CASE Calibration
  BY <1>8, SameAnswer DEF Calibration, StopReturns, StartSkipped, StartReturns, mgrVars,
     cmdVars, fwVars
<1>9. CASE UNCHANGED vars
  BY <1>9, SameAnswer DEF vars, mgrVars, cmdVars, fwVars
<1> QED
  BY <1>2, <1>3, <1>4, <1>5, <1>6, <1>7, <1>8, <1>9, CmdParts DEF Next, Asleep, Halted, Restart

LEMMA InitTold == Init => ToldInv /\ AnswerInv
<1> SUFFICES ASSUME Init PROVE ToldInv /\ AnswerInv
  OBVIOUS
<1>1. IdInv
  BY CmdParts DEF Init, IdInv
<1>2. \A c \in Cmd : Told(c)
  BY DEF Init, Told, Sleeping
<1>3. AnswerInv
  BY DEF Init, AnswerInv, Unanswered
<1> QED
  BY <1>1, <1>2, <1>3 DEF ToldInv

LEMMA ToldIsConfirmed ==
  ASSUME TypeOK, ToldInv, OnTime => AnswerInv
  PROVE  SuccessIsConfirmed
BY CmdAssumption DEF ToldInv, Told, OnTime, AnswerInv, Unanswered, Unacked, SuccessIsConfirmed, TypeOK

\* A blocking call reports success only when its own request was taken out of the
\* mailbox and its own confirmation came, although cmd_mgr_msgind looks the command up
\* by the identifier alone: a confirmation goes to the oldest command waiting for it,
\* and what is older was acknowledged earlier.  The one request that may pass the
\* others, RF_EVENT_START_BUSINESS, has an identifier of its own.
THEOREM SuccessMeansConfirmed == Spec /\ []Calm => []SuccessIsConfirmed
<1> DEFINE Inv == ToldInv /\ (OnTime => AnswerInv)
<1>1. IndInv /\ ServeInv /\ Inv /\ [Next]_vars => Inv'
  BY ToldStep, AnswerStep, OnTimeBefore DEF IndInv, OrderedInv
<1>2. IndInv /\ Inv => SuccessIsConfirmed
  BY ToldIsConfirmed DEF IndInv
<1>3. Init => Inv
  BY InitTold
<1> HIDE DEF Inv
<1> QED
  BY InitIndInv, IndStep, IndServeStep, <1>1, <1>2, <1>3, PTL DEF Spec
=============================================================================
