----------------------------- MODULE Recovery ------------------------------
(* Calibration, restart, heart beat and scans: what may bring a band to a    *)
(* stop, and what brings it back.                                            *)
(*                                                                           *)
(* Both bands share one RF.  Its interrupt masks itself and queues a work    *)
(* (rf_entry.c), which to calibrate asks every registered band to stop its   *)
(* business, and has them start again; a band that cannot stop now has the   *)
(* work come back half a second later.  A band is one driver, with a restart *)
(* as a work of its own, a heart beat that triggers it after two misses      *)
(* (siwifi_main.c), and a scan, for whose end every blocking request waits,  *)
(* and which the first that has waited too long declares over                *)
(* (siwifi_cmds.c).                                                          *)
(*                                                                           *)
(* The command manager is a flag here, paused; CmdMgr has it in full.  An    *)
(* interface's queues are one: none before it is started, go, or stopped     *)
(* for the calibration.                                                      *)
EXTENDS Integers, Sequences, FiniteSets

CONSTANTS
  Band,
  Seat,        \* the order of the bands in clients
  Full,        \* bands that scan, beat and fail; the others only calibrate
  QuickUnmask, \* nothing comes between the two writes that unmask the RF
  MaxAgain,    \* resche_recs.max_cnt
  MaxRestart,  \* restart_recs.max_cnt
  MaxFaults    \* bound: refused or unanswered requests and errors

ASSUME RecoveryAssumption ==
  /\ Seat \in Seq(Band) /\ \A b \in Band : \E i \in 1 .. Len(Seat) : Seat[i] = b
  /\ Full \subseteq Band /\ QuickUnmask \in BOOLEAN
  /\ MaxAgain \in Nat /\ MaxRestart \in Nat /\ MaxFaults \in Nat

VARIABLES
  masked,    \* the interrupt of the RF is off: both bands' enables are one register
  source,    \* irq_source: none, or what its bits are taken for
  work,      \* cali_work is queued, delayed or not
  cali,      \* where the work is, and at which client
  busy,      \* calibrating
  again,     \* resche_recs: cnt; late: 3 s passed since last; slow: since now
  drv,       \* drv_flags of each band, and whether its device is probed again
  paused,    \* the firmware paused the manager of a band
  queue,     \* the queues of a band's interface
  scan,      \* asked: the request is sent, not recorded; fw: in the firmware;
             \* request: scan_request; on: scaning
  restart,   \* restart_work of each band: queued, and where it is
  restarts,  \* restart_recs.cnt of both bands
  beat,      \* the heart beat: where it is, and recovery_hb_num
  faults     \* faults so far

rfVars == <<masked, source, work, cali, busy, again>>
vars == <<rfVars, drv, paused, queue, scan, restart, restarts, beat, faults>>

Idle == [at |-> "idle", i |-> 0]

Init ==
  /\ masked = FALSE /\ source = "none" /\ work = FALSE /\ cali = Idle /\ busy = FALSE
  /\ again = [cnt |-> 0, late |-> FALSE, slow |-> FALSE]
  /\ drv = [b \in Band |-> [started |-> TRUE, restarting |-> FALSE,
                            calib |-> FALSE, life |-> "here"]]
  /\ paused = [b \in Band |-> FALSE]
  /\ queue = [b \in Band |-> "go"]
  /\ scan = [b \in Band |-> [asked |-> FALSE, fw |-> FALSE,
                             request |-> FALSE, on |-> FALSE]]
  /\ restart = [b \in Band |-> [queued |-> FALSE, at |-> "idle"]]
  /\ restarts = 0
  /\ beat = [b \in Band |-> [at |-> "idle", missed |-> 0]]
  /\ faults = 0

Fault == faults < MaxFaults /\ faults' = faults + 1

Here(b) == drv[b].life # "gone"

----------------------------------------------------------------------------
(* The interrupt of the RF and its work.                                     *)

Request == {"boot error", "system", "clock", "stop"}

\* What is stored of a set of requests is shifted by four bits, and then read as
\* if it were not: a clock request is taken for a boot error, one to stop a band
\* for nothing there is a handler for, and of the others nothing is left.
Stored(requests) ==
  IF "clock" \in requests THEN "boot" ELSE IF "stop" \in requests THEN "other" ELSE "none"

Mask(s) == masked' = TRUE /\ source' = s /\ work' = TRUE

Unmasking == {"unmask again", "reopen"}   \* between the two writes

\* The RF asks for something: the interrupt is masked, and the source of an
\* earlier request that waits for its retry is overwritten.
RfIrq(requests) ==
  /\ ~masked
  /\ QuickUnmask => cali.at \notin Unmasking
  /\ Mask(Stored(requests))
  /\ UNCHANGED <<cali, busy, again, drv, paused, queue, scan, restart, restarts, beat, faults>>

\* A calibration forced through debugfs, with the bits its user writes, unless one
\* is asked for or under way.
ForceCalibrate ==
  /\ ~busy /\ source = "none"
  /\ QuickUnmask => cali.at \notin Unmasking
  /\ \E s \in {"boot", "app", "trx"} : Mask(s)
  /\ UNCHANGED <<cali, busy, again, drv, paused, queue, scan, restart, restarts, beat, faults>>

RfStep(at, i) == cali' = [at |-> at, i |-> i]

\* The step at the next client from i on, or the step after the last of them.
NextClient(at, i, after) ==
  LET rest == {j \in i .. Len(Seat) : Here(Seat[j])}
  IN  IF rest = {} THEN RfStep(after, 0)
      ELSE RfStep(at, CHOOSE j \in rest : \A k \in rest : j <= k)

\* Mutant: it leaves the RF masked.
NothingUnmasked ==
  /\ work /\ cali.at = "idle" /\ source = "none"
  /\ work' = FALSE
  /\ UNCHANGED <<masked, source, cali, busy, again, drv, paused, queue, scan,
                 restart, restarts, beat, faults>>

\* The work finds no source: it unmasks the interrupt and that is all.
NothingToDo ==
  /\ work /\ cali.at = "idle" /\ source = "none"
  /\ work' = FALSE
  /\ masked' = FALSE
  /\ RfStep("reopen", 0)
  /\ UNCHANGED <<source, busy, again, drv, paused, queue, scan,
                 restart, restarts, beat, faults>>

\* It goes to the handler of the source.  When the last request to retry is of an
\* earlier calibration, any time has passed since.  A boot error only starts a
\* script that loads the drivers again, which is not modelled.
Dispatch ==
  /\ work /\ cali.at = "idle" /\ source # "none"
  /\ work' = FALSE
  /\ busy' = TRUE
  /\ \/ /\ source = "app"
        /\ NextClient("stop", 1, "calibrate")
        /\ \E late \in BOOLEAN :
             again' = [again EXCEPT !.late = again.cnt > 0 /\ (@ \/ (late /\ ~busy))]
     \/ /\ source = "trx" /\ NextClient("trx", 1, "finish") /\ UNCHANGED again
     \/ /\ source \in {"boot", "other"} /\ RfStep("finish", 0) /\ UNCHANGED again
  /\ UNCHANGED <<masked, source, drv, paused, queue, scan, restart, restarts, beat, faults>>

Client == Seat[cali.i]

\* Mutant: scaning stays set.
DeclareRequestOver(b) == scan' = [scan EXCEPT ![b].request = FALSE]

\* A blocking request that has waited scan_timeout for a scan declares it over,
\* whatever the firmware still does.
DeclareOver(b) == scan' = [scan EXCEPT ![b].request = FALSE, ![b].on = FALSE]

\* The gate every blocking request passes: no scan, or one declared over here.
PassGate(b) == IF scan[b].on THEN DeclareOver(b) ELSE UNCHANGED scan

\* A band whose bit is set sends a request to calibrate its transceiver, if it
\* serves.
TrxRecali ==
  /\ cali.at = "trx"
  /\ \/ drv[Client].started /\ ~drv[Client].restarting /\ drv[Client].life = "here"
        /\ PassGate(Client)
     \/ UNCHANGED scan
  /\ NextClient("trx", cali.i + 1, "finish")
  /\ UNCHANGED <<masked, source, work, busy, again, drv, paused, queue,
                 restart, restarts, beat, faults>>

\* Some band cannot stop now: the work comes back, unless that has happened too
\* often within three seconds of each other; the bands stopped already stay so.
GiveUp == again.cnt > MaxAgain /\ ~again.late

\* Mutant: giving up, it calibrates with the bands that did stop.
AskAgainOrGoOn(slow) ==
  IF GiveUp
    THEN /\ RfStep("calibrate", 0)
         /\ UNCHANGED <<work, again>>
    ELSE /\ again' = [cnt |-> IF again.cnt > 0 /\ again.late THEN 1 ELSE again.cnt + 1,
                      late |-> again.slow \/ slow, slow |-> FALSE]
         /\ work' = TRUE
         /\ cali' = Idle

\* Mutant: the bands that stopped are let go by nobody, nor is the work queued.
AskNobodyAgain(slow) ==
  /\ cali' = Idle
  /\ UNCHANGED <<work, again>>

AskAgain(slow) ==
  IF GiveUp
    THEN /\ NextClient("start", 1, "finish")
         /\ UNCHANGED <<work, again>>
    ELSE /\ again' = [cnt |-> IF again.cnt > 0 /\ again.late THEN 1 ELSE again.cnt + 1,
                      late |-> again.slow \/ slow, slow |-> FALSE]
         /\ work' = TRUE
         /\ cali' = Idle

\* RF_EVENT_STOP_BUSINESS: a band that is calibrating is done, one that restarts
\* is to be asked again.
StopAsked ==
  /\ cali.at = "stop"
  /\ \/ /\ drv[Client].calib
        /\ NextClient("stop", cali.i + 1, "calibrate")
        /\ UNCHANGED <<work, again>>
     \/ /\ ~drv[Client].calib /\ drv[Client].restarting
        /\ AskAgain(FALSE)
     \/ /\ ~drv[Client].calib /\ ~drv[Client].restarting
        /\ RfStep("scan", cali.i)
        /\ UNCHANGED <<work, again>>
  /\ UNCHANGED <<masked, source, busy, drv, paused, queue, scan,
                 restart, restarts, beat, faults>>

\* It waits for the scan, ten seconds at most; its failure ends the calibration
\* before it began.
StopWaits ==
  /\ cali.at = "scan"
  /\ \/ /\ ~scan[Client].on
        /\ RfStep("quiet", cali.i)
        /\ UNCHANGED again
     \/ /\ scan[Client].on
        /\ NextClient("start", 1, "finish")
        /\ UNCHANGED again
     \/ /\ scan[Client].on /\ ~again.slow
        /\ again' = [again EXCEPT !.slow = TRUE]
        /\ UNCHANGED cali
  /\ UNCHANGED <<masked, source, work, busy, drv, paused, queue, scan,
                 restart, restarts, beat, faults>>

StopQueues ==
  /\ cali.at = "quiet"
  /\ queue' = [queue EXCEPT ![Client] = IF @ = "go" THEN "stop" ELSE @]
  /\ RfStep("send", cali.i)
  /\ UNCHANGED <<masked, source, work, busy, again, drv, paused, scan,
                 restart, restarts, beat, faults>>

\* STOP_COMMUNICATION is confirmed: the manager is paused, the band calibrates.
StopSent ==
  /\ cali.at = "send" /\ ~paused[Client]
  /\ PassGate(Client)
  /\ paused' = [paused EXCEPT ![Client] = TRUE]
  /\ drv' = [drv EXCEPT ![Client].calib = TRUE]
  /\ NextClient("stop", cali.i + 1, "calibrate")
  /\ UNCHANGED <<masked, source, work, busy, again, queue, restart, restarts, beat, faults>>

\* It is refused, or its deadline passes, or a restart drains it: the queues stay
\* stopped and the band is not marked.  The firmware may have paused the manager.
StopRefused ==
  /\ cali.at = "send"
  /\ PassGate(Client)
  /\ \/ /\ paused[Client] /\ AskAgain(TRUE)
        /\ UNCHANGED <<paused, faults>>
     \/ /\ drv[Client].restarting \/ drv[Client].life = "dead"
        /\ \E slow \in BOOLEAN : AskAgain(slow)
        /\ UNCHANGED <<paused, faults>>
     \/ /\ Client \in Full /\ Fault
        /\ \E slow \in BOOLEAN :
             /\ AskAgain(slow)
             /\ paused' = [paused EXCEPT ![Client] = @ \/ slow]
  /\ UNCHANGED <<masked, source, busy, drv, queue, restart, restarts, beat>>

Calibrate ==
  /\ cali.at = "calibrate"
  /\ NextClient("start", 1, "finish")
  /\ UNCHANGED <<masked, source, work, busy, again, drv, paused, queue, scan,
                 restart, restarts, beat, faults>>

\* RF_EVENT_START_BUSINESS: it does nothing for a band that is not marked, and
\* only takes the mark from one that restarts.
StartAsked ==
  /\ cali.at = "start"
  /\ drv' = [drv EXCEPT ![Client].calib = FALSE]
  /\ IF drv[Client].calib /\ ~drv[Client].restarting
       THEN RfStep("go", cali.i)
       ELSE NextClient("start", cali.i + 1, "finish")
  /\ UNCHANGED <<masked, source, work, busy, again, paused, queue, scan,
                 restart, restarts, beat, faults>>

\* The queues go, and START_COMMUNICATION, pushed by force, resumes the manager;
\* nobody acts on its failure.
StartQueues ==
  /\ cali.at = "go"
  /\ queue' = [queue EXCEPT ![Client] = IF @ = "stop" THEN "go" ELSE @]
  /\ RfStep("resume", cali.i)
  /\ UNCHANGED <<masked, source, work, busy, again, drv, paused, scan,
                 restart, restarts, beat, faults>>

Resume ==
  /\ cali.at = "resume"
  /\ PassGate(Client)
  /\ \/ paused' = [paused EXCEPT ![Client] = FALSE] /\ UNCHANGED faults
     \/ /\ drv[Client].restarting \/ drv[Client].life = "dead"
        /\ UNCHANGED <<paused, faults>>
     \/ Client \in Full /\ Fault /\ UNCHANGED paused
  /\ NextClient("start", cali.i + 1, "finish")
  /\ UNCHANGED <<masked, source, work, busy, again, drv, queue, restart, restarts, beat>>

\* The end of the work, which writes the enable of either band: the register is
\* one, and what comes between the two writes is unmasked by the second.
Finish ==
  /\ cali.at = "finish"
  /\ source' = "none"
  /\ again' = [again EXCEPT !.slow = FALSE]
  /\ RfStep("unmask", 0)
  /\ UNCHANGED <<masked, work, busy, drv, paused, queue, scan,
                 restart, restarts, beat, faults>>

Unmask ==
  /\ masked' = FALSE
  /\ \/ cali.at = "unmask" /\ RfStep("unmask again", 0) /\ UNCHANGED busy
     \/ cali.at = "unmask again" /\ cali' = Idle /\ busy' = FALSE
     \/ cali.at = "reopen" /\ cali' = Idle /\ UNCHANGED busy
  /\ UNCHANGED <<source, work, again, drv, paused, queue, scan,
                 restart, restarts, beat, faults>>

----------------------------------------------------------------------------
(* Errors, the restart of a band's driver, and the end of its device.        *)

\* siwifi_trigger_restart.  A work that already runs is queued once more.
Trigger(b) ==
  /\ drv' = [drv EXCEPT ![b].restarting = TRUE, ![b].started = FALSE]
  /\ restart' = [restart EXCEPT ![b].queued = TRUE]

Reprobe(b) == drv' = [drv EXCEPT ![b].life = "dead"]

\* An error of the firmware restarts the driver, and has the device probed again
\* when it was not started or was restarting already.
ErrorInd(b) ==
  /\ b \in Full /\ Here(b) /\ Fault
  /\ IF drv[b].started /\ ~drv[b].restarting
       THEN Trigger(b)
       ELSE Reprobe(b) /\ UNCHANGED restart
  /\ UNCHANGED <<rfVars, paused, queue, scan, restarts, beat>>

RestartStep(b, at) == restart' = [restart EXCEPT ![b].at = at]

\* The rtnl lock is the scan's until it is recorded, and the restart's to its end.
RestartBegins(b) ==
  /\ restart[b].queued /\ restart[b].at = "idle" /\ ~scan[b].asked
  /\ restart' = [restart EXCEPT ![b] = [queued |-> FALSE, at |-> "platform"]]
  /\ DeclareOver(b)
  /\ queue' = [queue EXCEPT ![b] = "none"]
  /\ UNCHANGED <<rfVars, drv, paused, restarts, beat, faults>>

\* Mutant: too many restarts only end the work.
RestartTooMany(b) ==
  /\ restart[b].at = "platform" /\ beat[b].at = "idle"
  /\ paused' = [paused EXCEPT ![b] = FALSE]
  /\ scan' = [scan EXCEPT ![b].fw = FALSE]
  /\ \/ /\ restarts > MaxRestart
        /\ RestartStep(b, "idle")
        /\ UNCHANGED <<restarts, drv>>
     \/ /\ restarts' \in IF restarts = 0 THEN {1}
                         ELSE {1} \cup ({restarts + 1} \cap 1 .. MaxRestart + 1)
        /\ RestartStep(b, "reset")
        /\ UNCHANGED drv
  /\ UNCHANGED <<rfVars, queue, beat, faults>>

\* The platform is shut down, under a mutex the heart beat holds, and set up
\* again, with a new manager, unless the restarts are too many and too close.
RestartPlatform(b) ==
  /\ restart[b].at = "platform" /\ beat[b].at = "idle"
  /\ paused' = [paused EXCEPT ![b] = FALSE]
  /\ scan' = [scan EXCEPT ![b].fw = FALSE]
  /\ \/ /\ restarts > MaxRestart
        /\ Reprobe(b) /\ RestartStep(b, "idle")
        /\ UNCHANGED restarts
     \/ /\ restarts' \in IF restarts = 0 THEN {1}
                         ELSE {1} \cup ({restarts + 1} \cap 1 .. MaxRestart + 1)
        /\ RestartStep(b, "reset")
        /\ UNCHANGED drv
  /\ UNCHANGED <<rfVars, queue, beat, faults>>

\* A request of the restart or the heart beat: a dead device sends none, a paused
\* manager or a firmware that fails lets it miss its deadline.
Serves(b) == ~paused[b] /\ drv[b].life = "here" /\ UNCHANGED faults
Fails(b) == \/ (paused[b] \/ drv[b].life = "dead") /\ UNCHANGED faults
            \/ b \in Full /\ Fault

RestartReset(b) ==
  /\ restart[b].at = "reset"
  /\ \/ /\ Serves(b)
        /\ RestartStep(b, "start") /\ UNCHANGED drv
     \/ /\ Fails(b)
        /\ Reprobe(b) /\ RestartStep(b, "idle")
  /\ UNCHANGED <<rfVars, paused, queue, scan, restarts, beat>>

\* siwifi_start_driver, whose failures siwifi_restart_driver does not look at.
RestartStart(b) ==
  /\ restart[b].at = "start"
  /\ scan' = [scan EXCEPT ![b].on = FALSE]
  /\ \/ /\ Serves(b)
        /\ drv' = [drv EXCEPT ![b].started = TRUE]
        /\ RestartStep(b, "interfaces")
     \/ /\ Fails(b)
        /\ RestartStep(b, "done")
        /\ UNCHANGED drv
  /\ UNCHANGED <<rfVars, paused, queue, restarts, beat>>

RestartInterfaces(b) ==
  /\ restart[b].at = "interfaces"
  /\ \/ /\ Serves(b)
        /\ queue' = [queue EXCEPT ![b] = "go"]
     \/ /\ Fails(b) /\ UNCHANGED queue
  /\ RestartStep(b, "done")
  /\ UNCHANGED <<rfVars, drv, paused, scan, restarts, beat>>

RestartDone(b) ==
  /\ restart[b].at = "done"
  /\ drv' = [drv EXCEPT ![b].restarting = FALSE]
  /\ RestartStep(b, "idle")
  /\ UNCHANGED <<rfVars, paused, queue, scan, restarts, beat, faults>>

\* The device is removed, once the calibration has let go of the clients.  What
\* its own works were doing does not outlive it, a queued restart excepted, which
\* nobody cancels and which is not modelled further.
Removed(b) ==
  /\ drv[b].life = "dead" /\ cali.at \in {"idle", "finish", "unmask"} \cup Unmasking
  /\ drv' = [drv EXCEPT ![b] = [started |-> FALSE, restarting |-> FALSE,
                                calib |-> FALSE, life |-> "gone"]]
  /\ paused' = [paused EXCEPT ![b] = FALSE]
  /\ queue' = [queue EXCEPT ![b] = "none"]
  /\ scan' = [scan EXCEPT ![b] = [asked |-> FALSE, fw |-> FALSE,
                                  request |-> FALSE, on |-> FALSE]]
  /\ restart' = [restart EXCEPT ![b] = [queued |-> FALSE, at |-> "idle"]]
  /\ beat' = [beat EXCEPT ![b] = [at |-> "idle", missed |-> 0]]
  /\ UNCHANGED <<rfVars, restarts, faults>>

----------------------------------------------------------------------------
(* The heart beat.                                                           *)

Beat(b) ==
  /\ b \in Full
  /\ beat[b].at = "idle" /\ Here(b) /\ ~drv[b].restarting
  /\ beat' = [beat EXCEPT ![b].at = "sent"]
  /\ UNCHANGED <<rfVars, drv, paused, queue, scan, restart, restarts, faults>>

Missed(b) ==
  beat' = [beat EXCEPT ![b] = IF @.missed = 1 THEN [at |-> "dying", missed |-> 0]
                              ELSE [at |-> "idle", missed |-> @.missed + 1]]

\* The request waits for a scan and declares it over; a restart that was triggered
\* meanwhile then drops it, which counts as a miss.
BeatGate(b) ==
  /\ beat[b].at = "sent" /\ scan[b].on /\ drv[b].life = "here"
  /\ DeclareOver(b)
  /\ IF drv[b].restarting THEN Missed(b) ELSE UNCHANGED beat
  /\ UNCHANGED <<rfVars, drv, paused, queue, restart, restarts, faults>>

BeatAnswered(b) ==
  /\ beat[b].at = "sent" /\ ~scan[b].on /\ Serves(b)
  /\ beat' = [beat EXCEPT ![b] = [at |-> "idle", missed |-> 0]]
  /\ UNCHANGED <<rfVars, drv, paused, queue, scan, restart, restarts>>

BeatMissed(b) ==
  /\ beat[b].at = "sent"
  /\ ~scan[b].on \/ drv[b].life = "dead"
  /\ Fails(b)
  /\ Missed(b)
  /\ UNCHANGED <<rfVars, drv, paused, queue, scan, restart, restarts>>

\* After two seconds of sleep it triggers a restart, whatever has come meanwhile.
BeatTriggers(b) ==
  /\ beat[b].at = "dying"
  /\ Trigger(b)
  /\ beat' = [beat EXCEPT ![b].at = "idle"]
  /\ UNCHANGED <<rfVars, paused, queue, scan, restarts, faults>>

----------------------------------------------------------------------------
(* A scan of cfg80211, under the rtnl lock to its record.                    *)

\* The request is sent and acknowledged; the firmware refuses a second one.
ScanAsks(b) ==
  /\ b \in Full /\ drv[b].started /\ drv[b].life = "here" /\ restart[b].at = "idle"
  /\ ~paused[b] /\ ~scan[b].asked /\ ~scan[b].on /\ ~scan[b].request /\ ~scan[b].fw
  /\ scan' = [scan EXCEPT ![b].asked = TRUE, ![b].fw = TRUE]
  /\ UNCHANGED <<rfVars, drv, paused, queue, restart, restarts, beat, faults>>

ScanRecorded(b) ==
  /\ scan[b].asked
  /\ scan' = [scan EXCEPT ![b].asked = FALSE, ![b].request = TRUE, ![b].on = TRUE]
  /\ UNCHANGED <<rfVars, drv, paused, queue, restart, restarts, beat, faults>>

\* The end of the scan may come before the scan is recorded.
ScanEndsInd(b) ==
  /\ scan[b].fw
  /\ scan' = [scan EXCEPT ![b].fw = FALSE, ![b].request = FALSE, ![b].on = FALSE]
  /\ UNCHANGED <<rfVars, drv, paused, queue, restart, restarts, beat, faults>>

----------------------------------------------------------------------------
RfWork ==
  \/ NothingToDo \/ Dispatch \/ TrxRecali
  \/ StopAsked \/ StopWaits \/ StopQueues \/ StopSent \/ StopRefused
  \/ Calibrate \/ StartAsked \/ StartQueues \/ Resume \/ Finish \/ Unmask

RestartWork(b) ==
  \/ RestartBegins(b) \/ RestartPlatform(b) \/ RestartReset(b)
  \/ RestartStart(b) \/ RestartInterfaces(b) \/ RestartDone(b)

BeatWork(b) ==
  Beat(b) \/ BeatGate(b) \/ BeatAnswered(b) \/ BeatMissed(b) \/ BeatTriggers(b)

Next ==
  \/ \E requests \in SUBSET Request \ {{}} : RfIrq(requests)
  \/ ForceCalibrate
  \/ RfWork
  \/ \E b \in Band : \/ ErrorInd(b) \/ RestartWork(b) \/ Removed(b) \/ BeatWork(b)
                     \/ ScanAsks(b) \/ ScanRecorded(b) \/ ScanEndsInd(b)

Spec == Init /\ [][Next]_vars

\* Works run, waits have deadlines, the heart beat beats, and a scan that was
\* acknowledged is recorded; the firmware need not end it.  The mutex of the
\* clients is handed on between calibrations, so that a device is removed some day.
FairSpec ==
  /\ Spec
  /\ WF_vars(RfWork)
  /\ \A b \in Band : /\ WF_vars(RestartWork(b)) /\ SF_vars(Removed(b))
                     /\ WF_vars(BeatWork(b)) /\ WF_vars(ScanRecorded(b))

----------------------------------------------------------------------------
(* Properties.                                                               *)

\* The type of every variable.
TypeOK ==
  /\ masked \in BOOLEAN /\ source \in {"none", "boot", "app", "trx", "other"}
  /\ work \in BOOLEAN /\ busy \in BOOLEAN
  /\ cali \in [at: {"idle", "stop", "scan", "quiet", "send", "calibrate", "start", "go",
                    "resume", "trx", "finish", "unmask"} \cup Unmasking,
               i: 0 .. Len(Seat)]
  /\ again \in [cnt: 0 .. MaxAgain + 1, late: BOOLEAN, slow: BOOLEAN]
  /\ drv \in [Band -> [started: BOOLEAN, restarting: BOOLEAN, calib: BOOLEAN,
                       life: {"here", "dead", "gone"}]]
  /\ paused \in [Band -> BOOLEAN]
  /\ queue \in [Band -> {"none", "go", "stop"}]
  /\ scan \in [Band -> [asked: BOOLEAN, fw: BOOLEAN, request: BOOLEAN, on: BOOLEAN]]
  /\ restart \in [Band -> [queued: BOOLEAN,
        at: {"idle", "platform", "reset", "start", "interfaces", "done"}]]
  /\ restarts \in 0 .. MaxRestart + 1
  /\ beat \in [Band -> [at: {"idle", "sent", "dying"}, missed: 0 .. 1]]
  /\ faults \in 0 .. MaxFaults

\* Every flag that holds somebody back has somebody who will take it: the mask of
\* the RF and a calibration the work, a band's mark the calibration, the flag of a
\* restart its work or the end of the device, a recorded scan the gate.  Every
\* variable keeps its type.
FlagsHaveWork ==
  /\ TypeOK
  /\ masked \/ busy => work \/ cali.at # "idle"
  /\ \A b \in Band :
       /\ drv[b].calib => busy
       /\ drv[b].restarting =>
            restart[b].queued \/ restart[b].at # "idle" \/ drv[b].life = "dead"
       /\ scan[b].request => scan[b].on

\* While the RF calibrates, every band that is still there carries the mark of
\* having agreed to it; and until some driver is restarted, which may start a band
\* that is marked, its queues are stopped and its manager is paused as well.
RfCalibratesAgreed ==
  cali.at = "calibrate" =>
    \A b \in Band :
      Here(b) => drv[b].calib /\ (restarts = 0 => queue[b] # "go" /\ paused[b])

\* A masked RF is unmasked: no scan, restart or refusal has the calibration
\* retried for ever.
RfListensAgain == masked ~> ~masked

\* A scan ends whether or not the firmware says so: the heart beat comes to its
\* gate.
ScansEnd == \A b \in Band : scan[b].on ~> ~scan[b].on

\* A restart comes to its end, in a driver that serves or a device that is gone.
RestartsEnd == \A b \in Band : drv[b].restarting ~> ~drv[b].restarting
============================================================================
