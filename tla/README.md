# A model of the sf_wifi driver

This directory holds TLA+ specifications of the Siflower FullMAC Wi-Fi driver
(`sf_smac/src`), the TLC configurations that check them, and proofs checked by
TLAPS. The driver runs on the host. The firmware on the wireless processors
(LMAC) is not in the repository; where a module needs it, its steps are modelled
from how the driver uses it and marked external.

Paths below are relative to `sf_smac/src/bb_src/umac` unless they start with
`rf/` or `startcore/`; `siwifi_main.c`, `siwifi_tx.c`, `siwifi_rx.c` and
`siwifi_acs.c` are in `fullmac/`.

To run a check: `tlc -workers 2 -config CmdMgrCallers.cfg MCCmdMgr`. To check the
proofs: `tlapm CmdMgrProofs.tla`, and the same for the other modules whose names
end in `Proofs` and for `TxSchedOps.tla`, a part of the proofs about TxSched (these
two take about a quarter of an hour each).

## 1. The system

| part | where | state | operations |
|---|---|---|---|
| command manager | `siwifi_cmds.c` | list of commands, length, next token, INITED / PAUSED / CRASHED / DEINIT | queue, acknowledgement (llind), confirmation (msgind), drain, init, deinit |
| message senders | `siwifi_msg_tx.c` | one `siwifi_cmd` and one request per call | about a hundred requests over two wrappers |
| IPC host | `ipc_host.c` | mailbox pointer, tx ring indices, rx buffer and descriptor indices, interrupt status | push and confirm per direction, interrupt dispatch |
| tx queues and scheduler | `siwifi_txq.c` | per station and category a txq (frames, stops, credits, retries, tokens), per category an hwq (list, credits, tokens), a stuck list | queue, start, stop, flush, process, confirm |
| tx data path | `siwifi_tx.c` | a header per frame | start_xmit, push, confirmation, retry, power save |
| rx buffers | `siwifi_utils.c`, `siwifi_rx.c` | table of lent buffers and its cursor, count of failed allocations | lend, push again, pull, retry, process a descriptor |
| rx buffer pool | `siwifi_mem.c` | used and free chunks | alloc, recycle in the skb destructor, init, deinit |
| tasklet and platform | `siwifi_mpw0.c` | device flags, restart record | interrupt, tasklet, start, stop, restart |
| RF calibration | `rf/rf_entry.c` | registered bands, interrupt source, the calibration work | interrupt, calibrate, retry, abort |
| restart and heart beat | `siwifi_main.c`, `siwifi_utils.c` | missed beats, restart work | beat, trigger, restart, reprobe |
| interfaces and cfg80211 | `siwifi_main.c`, `siwifi_msg_rx.c` | interfaces, stations, channel contexts, scan request, remain-on-channel element | about sixty operations and forty indications |
| channel selection, radar | `siwifi_acs.c`, `siwifi_radar.c` | its request, the CAC work, the detection work, pulse patterns | start, abort, CAC, a detected radar |
| the rest | debug file systems, ioctls, module parameters, firmware loading, RF registers, start of the cores | counters and configuration | sequential I/O |

How they interact. Any thread, and the calibration work, sends requests through
the command manager, which holds one mailbox towards the firmware. The firmware
answers through the tasklet `siwifi_task`, which runs everything the interrupts
carry: acknowledgements and confirmations of requests, confirmations of frames,
received frames, power save and channel indications. Transmitters, threads or
softirqs, share the scheduler with it under `tx_lock`; `cb_lock` protects
interfaces and what arrives. Calibration pauses the manager and stops the queues.
A restart of the driver, triggered by an error interrupt or missed heart beats,
runs through all of them: it stops the interrupts, drains the manager and the
rings, reloads the firmware and initialises everything again.

What is hard in it:

* the memory of a command is shared by a sleeping caller, the interrupt and a
  restart; a signal, a deadline, an answer and a drain may come in any order;
* the mailbox has one place, deferral and force push decide who gets it;
* the credits of the firmware, the descriptors of the ring and the tokens of a
  burst count the same frames three times, while stations come and go;
* a queue with frames is served only if one of several flags and lists says so;
* the two sides of each ring race at the acknowledgement of an interrupt;
* a buffer that cannot be allocated now has to be made up for later, and one
  that the stack frees comes back to the pool through steps without a lock;
* a request that links an interface to a channel applies its answer when it wakes
  up, while indications that move the same interface are handled in between;
* calibration, restart, heart beat and scan wait for each other through flags of
  the device, with a retry, a deadline or a limit at every place.

What makes each part correct is stated by the properties of section 3. The
hazards, each with the line where it bites and the properties that cover it, are
listed in `PROJECT.json`, those nobody covers yet with the reason.

## 2. The modules

    CmdChannel <== CmdMgr <-- MCCmdMgr          TxSched <-- MCTxSched
                                                   :  (assumes)
                                                TxFifo <== TxRing <-- MCTxRing
    RxPool <-- MCRxPool                         RxBuf
    ChanCtx <-- MCChanCtx                       Recovery <-- MCRecovery

    <== is implemented by      <-- is instantiated / extended by

The proofs are in modules of their own. `CmdMgrProofs`, `TxRingProofs`,
`RxBufProofs`, `RxPoolProofs`, `ChanCtxProofs` and `RecoveryProofs` each extend the
module they are named for. `TxSchedOps` extends TxSched with its invariant and
lemmas about its operators, and `TxSchedProofs` goes on from there to the burst,
the confirmation, the actions and the theorems.

**CmdMgr** is `siwifi_cmds.c`, the wrappers of `siwifi_msg_tx.c`, the mailbox of
`ipc_host.c` and what the calibration and the restart do to them. One element of
`Cmd` is one call of a wrapper with the command it allocates. A critical section
under `cmd_mgr->lock` is one action: `Queue`, `Ack` (llind), `Confirm` (msgind),
`Drain`, `TimeoutCrash`, `Abandon` (the killed waiter). The waits between them
are states of the caller (`pc`). The list is the set `cmds` ordered by `tkn`.
`Restart` walks through `siwifi_restart_driver` as far as it touches the manager;
`StopBusiness` and `StartBusiness` are the requests of the calibration. What the
code does after a `list_del` of an entry already deleted is an `oops` that halts
the machine. Abstracted: payloads; the memory of a command is never recycled, so
a token read from a freed command matches nothing; one set-up request stands for
those a restart sends.

**CmdChannel** says what the manager promises the firmware: one place, each
request at most once, in order, urgent ones may pass the queue but not the slot.
`ImplementsChannel` maps the deferred commands to its queue and the mailbox to
its slot.

**TxSched** is one access category: `siwifi_txq.c` and the parts of
`siwifi_tx.c` that move frames. Everything runs under `tx_lock`, so an action is
a critical section; inner functions are operators on the record of the state,
composed in the order of the calls (`HwqProcess` goes through the list with the
same rotations, stops and token choices as `siwifi_hwq_process`). Also there:
power save (`siwifi_ps_bh_enable`, `siwifi_ps_bh_traffic_req`), the flow control
of the interface, the 40-second stuck check, stops and starts of the interface,
a station that leaves with frames in flight and whose queue another gets
(`Deinit`, `SetUp`, `init_time`), and the limit the temperature control puts on
the credits. Its ring is the FIFO that TxRing implements. Left out: more than
one category per station, multi-user positions, memory control, header building,
A-MSDU, the move of multicast frames to another hardware queue. Where the code
reads a rate or a count to skip or rotate queues, the model has a choice. A
retried frame gives one credit.

**TxRing** is the ring itself: indices of 32 bits that wrap (`W`), the array of
host ids, the descriptors in shared memory and the firmware's place in them. The
confirming tasklet and the drain of `siwifi_close` run in steps, because the
drain takes no lock. **TxFifo** is what it promises.

**RxBuf** is the life of the receive buffers: who has each of them, what the
table and the pushed ring say, and how `siwifi_task` goes over the filled
descriptors, twice with the acknowledgement of the interrupt in between. A
descriptor is the list of its buffers and its status bits. Memory is counted in
buffers. A frame for a monitor interface that is gone leaves its buffer in the
table (`siwifi_rx.c` 1050-1053); the one of an interface that is there is handed up
and not replaced. Left out: what is in a frame (whether it goes up or is freed is a
choice), A-MSDUs of more than two subframes or for an unknown interface, which
also leave reordering as one buffer here.

**RxPool** is the private pool those buffers come from when it is enabled
(`siwifi_mem.c` 40-430): the used and free lists and their counters, the mark
every buffer carries, and `siwifi_dev_free_rxskb`, which the kernel calls on any
processor when the stack frees a marked buffer. Only the moves between the lists
are under its lock, so restoring or replacing the buffer, counting and putting
the chunk back are actions of their own, one program counter per buffer. Clones,
failed allocations, a pool that fails half way through its initialisation, the
switch of debugfs and the end of the pool are there. The order of the free list
is left out. `QuietUnload` says that the end of the pool waits for the frees.

**ChanCtx** is the table of channel contexts (`siwifi_main.c` 560-841,
1982-2176, 2375-2398, 2460-2582, `siwifi_msg_rx.c` 42-115, 318-388, 714-890,
`siwifi_utils.c` 1174-1283, `siwifi_radar.c` 768-1029): start and stop of an AP,
connection and disconnection of a station, switches of both with their
announcement and their work, the availability check, a detected radar, the
monitor's channel, close, and the restart. A request of cfg80211 is an action for
what it asks and one for each critical section after it wakes up (the stop of an
AP unlinks, removes stations, and only then gives up its queues and its switch);
between them the firmware acts (`fw`, external) and its indications are handled.
Only `siwifi_cfg80211_get_channel` is one action, since it sleeps under `cb_lock`.

The work of a detected radar (`siwifi_radar_process_pulse`) is `RadarSeen`, then
`siwifi_radar_detected` in the steps of its cancel of the availability check
(`RadarReports`, `RadarCancels`, `RadarCancelEnds`), then `RadarOff`, which turns
detection off. It reports the channel that is current when it gets there; `nop` is
what cfg80211 makes of the report: user space may not start, check or switch to
that channel for 30 minutes, and has left it by then (`RadarGone`, external). In
debug mode, or beside a WDS station, the work does nothing. Requests and this work
share `siwifi_radar_cancel_cac`: who wakes up there after another one took
`cac_vif` away unlinks NULL under the lock (`CancelSticks`), as who waits for the
check's own work does; nothing that needs `cb_lock` happens after either.

A channel definition is a frequency; two channels of one frequency are taken for
the same. Links for a monitor, which the code makes without `cb_lock`, are taken
to be atomic. `QuietSta`, `HostWaits` and `QuickOff` each exclude an order the
code does not handle (below).

**Recovery** is what may bring a band to a stop, and what brings it back: the RF
interrupt and the calibration work for two bands (`rf/rf_entry.c` 230-371,
406-447, 970-1002), STOP, START and the transceiver calibration at a band
(`siwifi_mpw0.c` 173-257), errors, the restart work in its steps, the limit of
restarts, reprobe and removal, the heart beat, and a scan with the gate that
blocking requests wait at (`siwifi_cmds.c` 87-117). The sources of the interrupt
are stored the way the code stores them (`Stored`): shifted by four bits, then
tested unshifted, so that in this build only a calibration forced through
debugfs reaches the calibration itself. The command manager is one flag,
`paused`; an interface's queues are one value. A boot error starts a script that
reloads the drivers, which is not modelled, nor is a restart work that outlives
its device (nothing cancels it).

The MC modules only add symmetry sets, the sets of request kinds and the order
of the bands.

## 3. The runs

| run | instance | shows |
|---|---|---|
| `cmd_callers` | two callers of all kinds, two calibration requests, queue of three, signals and deadlines at any time | what is listed is live; a command leaves the list once and is freed once; success means confirmed; the mailbox names what the list says and deferred commands keep somebody to push them; no overtaking but by force push; refinement of CmdChannel |
| `cmd_returns` | a caller, a calibration request and a restart, queue of two, with fairness | types; length and list agree and respect the limit; a caller reads only live memory; every call returns whatever the firmware does; every accepted command is served if it answers |
| `cmd_stale_resume` | calibration and restart, a firmware that is in time | **violation**: the resume of an interrupted calibration overwrites the mailbox |
| `ring` | three descriptors, four frames, indices modulo 6, one close | a window of frames each held once, with a descriptor per credit; the FIFO; no completion is missed |
| `sched_burst` | two queues, three frames, bursts of two, retries, stuck check, channel stops, leaving stations | tokens match what flies; frames are in one place and no queue is forgotten; the hardware queue never waits for nothing; a stopped interface is silent |
| `sched_ps` | one queue, three frames of three sorts, both kinds of power save, leave and join, flow control at one frame | what is scheduled can be pushed; counters of retries and services follow the frames; flow control clears; sleepers keep their frames |
| `sched_live` | one queue, three frames, limits lowered and restored | credits, ring and limit add up; every head of a queue moves |
| `rx` | four buffers of which two are lent, a table of three places, two descriptors, restarts | one owner per buffer, and the table is what the firmware has; its supply is kept; no descriptor is left without an interrupt; no starvation |
| `pool` | three chunks, five buffers | counters cover the lists; a free under way has a chunk of its own, on the used list; no buffer is lent twice or lost |
| `chan_repeater` | a station and an AP, two contexts, two channels, one switch at a time, refusals | counts cover links; no queue stays stopped on the channel the firmware is on; an AP that the firmware has is linked |
| `chan_monitor` | an AP and a monitor, one radar channel and another, availability checks one at a time, radars at any moment | a radar on the channel of an AP is noticed: detection is on, or one was found there and user space was told |
| `recovery` | two bands, one with scans, errors, heart beat; one fault, no retry allowed beyond the first; fairness | no flag outlives the work that clears it; the RF calibrates only when every band agreed, which until the first restart is also silent; it listens again; every scan and every restart ends |

Where one line of the table names several things, the property is a conjunction
of named parts (`MailboxServesList`, `LeavesOnce`, `RingIsSound`,
`FramesAreKept`, `CountersFollowFrames`, `BuffersAreTracked`, `FlagsHaveWork`);
the type invariants of TxRing, TxSched, RxBuf and Recovery are such parts, those
of RxPool and ChanCtx are proved.

The bounds are named in the modules (`MaxInit`, `Closes`, `MaxReord`,
`MaxMsdu`, ...). They are small, and each is the least at which the interesting
case happens:

* two callers and two calibration requests make a queue with one in the mailbox,
  one deferred and one that may be overtaken or killed behind them; the queue of
  two in `cmd_returns` refuses a third;
* `W = 6`, `N = 3` lets both indices wrap with frames on either side. `W` stands
  for 2^32, and `RingAssumption` asks that N divide it: the driver has 64 and 32;
* `sched_burst` has two queues and `sched_ps` re-initialises one because the
  product of both is large; it was run once with two queues and one
  re-initialisation (1.7 million states) and held;
* `rx` has a table one larger than what is lent so that the cursor must search,
  and a pass of two descriptors so that the limit of a pass is reached. The
  assumption `D <= MaxRx + 2` is that of the driver (704 descriptors, 1024 per
  pass); with a lower `max_rx_process_time`, which debugfs can set, the second
  pass may leave descriptors behind with their interrupt cleared.
* `pool` has one chunk more than two frees side by side need, and buffers left
  for the kernel, so that a free may replace its buffer or fail to;
* ChanCtx has two runs because `RadarIsWatched` does not hold with a station (it
  brings its AP to a radar channel and nobody asks for detection), and radar
  channels and a station together are too many states. Two contexts and two
  channels are what a move needs. `MaxCount` stops linking at a count, `MaxCsa`
  bounds the switches under way, `CacRefused` adds refused and overlapping
  availability checks; `chan_monitor` has no time for either. `RadarIsWatched` was
  run once with two APs (2 million states) and once with an AP that switches
  between two radar channels (1.9 million), and `CountCovers` once on the instance of
  `chan_monitor` (4.1 million), and held; the theorems have all of it;
* `recovery` lets one band (`Full`) scan, beat and fail and the other only
  calibrate, which is all it takes for one to be stopped while the other cannot
  be. `MaxAgain` and `MaxRestart` are 5 in the code and 0 here, so that both
  limits are met; the invariants were also checked with two faults
  (294 thousand states).

Deadlock is checked where CHECK_DEADLOCK does not say FALSE: in TxSched a finite
set of frames may all be gone; in ChanCtx the bounds may leave nothing to do, and
`siwifi_radar_cancel_cac` may wait under `cb_lock` for a work that takes it, or
fail under it (`CancelSticks`), where the driver really stops; in Recovery all
devices may be gone. In the others a state in which everyone has finished has an
explicit stuttering action (`Asleep`, `Halted`, `Off`).

Some properties hold only under restrictions that a run imposes, each of which
is a hazard in `PROJECT.json`. In each case the code breaks the property without
the restriction:

* `ReturnReadsLive` without signals; `LeavesOnce` without a restart;
* `ScheduledCanPush` without the stuck check and without the forced end of power
  save, which flushes a listed queue and leaves it listed (`siwifi_tx.c:180`),
  against the assertion of `siwifi_txq.c:1044`; `StoppedVifIsSilent` without
  power save; `TokensMatchFlight`, `NeverStalls` and `QueueMoves` without a queue that is
  re-initialised while credits are negative;
* `RingIsSound` with no interrupt inside the drain of `siwifi_close`
  (`Racing`): the drain takes no lock the tasklet holds, and both retire one
  frame, against the assertion of `ipc_host.c:413`;
* `SupplyKept` without a monitor interface (`MonitorVif`), each of whose frames
  costs a buffer (`siwifi_rx.c:1102`; when the interface is gone, `siwifi_rx.c:1050`,
  the buffer stays in the table as well, which `BuffersAreTracked` says; it was run
  once with such frames, 260 thousand states, and held);
* `FreedChunkIsUsed` when the pool does not end during a free (`QuietUnload`);
* `NotLeftStopped` with a station that does not move while the heart beat, a
  request or a switch is under way (`QuietSta`: `siwifi_channel_recovery_check`
  applies what it read before); `StartedIsLinked` when user space waits for the
  end of the availability check (`HostWaits`), whose work unlinks the AP
  otherwise; `RadarIsWatched` without a station, and when detection is turned off
  after a radar before another radar channel is current (`QuickOff`:
  `siwifi_radar.c:893` turns it off for whatever channel is current by then);
* the properties of Recovery when nothing comes between the two writes that
  unmask the RF (`QuickUnmask`): else a later interrupt may replace the source of
  a calibration that waits for its retry, and a band stays marked and stopped.

### Fairness

* CmdMgr: threads that can run do, and timers expire (`Scheduled`). For
  `EveryCommandServed`, only there, the firmware acknowledges and confirms, and
  deadlines pass only when it owes nothing and the manager is not paused; a
  restart excuses.
* TxSched: interrupts keep coming (`OtherIrq`; the heart beat sends a request
  every few seconds, whose answer is one), the handler runs, and the firmware
  does not give the same frame back for ever. Echo frames are left out of the
  liveness run, since they are put in front and can starve the others. The weak
  fairness of `TxCfm` and `HwqProcessAll` is written with its ENABLED worked out.
* TxRing: the tasklet runs when its interrupt is raised, and the firmware works.
* RxBuf: the tasklet runs, the stack frees what it got, the firmware raises the
  interrupt of what it filled, and some interrupt always comes, again by the
  heart beat. This last is needed: when all buffers are gone the firmware has
  nothing to raise one for, and only the tasklet tries the allocations again.
* Recovery: queued works run, waits have deadlines, the heart beat beats, and a
  scan that was acknowledged is recorded. The firmware need not end a scan nor
  answer. Removal of a device has strong fairness: it waits for a mutex that the
  calibration takes again and again, and the mutex is handed on.

### Disagreements found

1. `cmd_stale_resume`: a platform restart leaves `SIWIFI_DEV_CALIBRATING` set;
   the resume that follows is force pushed into a running manager, against the
   assertion on the mailbox (`ipc_host.c:579`).

The restrictions listed above name what else disagrees with an assertion of the
code. Besides, `rf/rf_entry.c:440` stores interrupt sources shifted by four bits
against the numbering of its own enum (`rf/rf_entry.c` 63-73), which the handler
tests (309-324). And Recovery's traces show what its properties do not promise: a
STOP that is refused leaves queues stopped that no START starts again, a START that
meets a restart or fails leaves the manager paused until the heart beat restarts
the driver, and a restart during a calibration starts the queues while the RF
calibrates (`RfCalibratesAgreed` speaks of the mark of the agreement, and of
stopped queues and a paused manager only until the first restart).

## 4. The proofs

`CmdMgrProofs.tla` proves about CmdMgr, for any sets of callers, calibration
requests and restarts, any limit of the queue, with or without signals and with
a firmware that answers when it likes:

* `TypeCorrect`: `Spec => []TypeOK`, one lemma per group of actions;
* `ListIsAlwaysLive`: `Spec => []ListedIsLive`. No command on the list has been
  freed, and each deferred one still has its request. It is not inductive: the
  free in `siwifi_send_msg` is safe only because of who owns the command then.
  `MemInv` adds `UnqueuedInv` (a command not queued yet is fresh and on no
  list), `OwnerInv` (the call of a listed command sleeps, or has left it,
  flagged NONBLOCK, to be freed by the interrupt) and `KilledInv`
  (kernel workers get no signals). One lemma per action shows that the frees,
  the drain and the re-initialisation keep it;
* `QueueSzIsTheLength`: `Spec => []QueueSzCountsList`. Every removal from the
  list decrements the counter, the double ones included, because those halt
  (`PoisonedListDel`); between drain and init both are zero (`DrainedInv`). The
  limit holds because the code compares with equality and never steps over it.

They rest on `CmdAssumption` (the callers are distinct) and `ParamAssumption`.

About the order of the list and the mailbox:

* `NothingOvertakes`: `Spec => []NoOvertaking`. `OrderedInv` adds that tokens grow
  along the list and that what waits for its push waits for its acknowledgement
  (`TokenInv`), and that the mailbox never names a deferred command (`SlotInv`);
* `MailboxAlwaysServes` and `MailboxKeptUntilAcked`: `MailboxServesList` and the
  action property `MailboxNeverOverwritten`, for behaviours that satisfy `[]Calm`: a
  restart does not come while a calibration is under way. Without it the code
  breaks both, as `cmd_stale_resume` shows. `ServeInv` adds that behind a command
  not yet acknowledged everything but the force pushed is deferred (`WaitOrder`), and
  what the manager's pause says about the calibration (`PauseInv`).
  `MailboxServesUndisturbed` removes the condition where there is no restart or no
  calibration, because `Calm` is then an invariant;
* `ManagerIsAChannel`: `Spec /\ []Calm => ImplementsChannel`, one lemma per action
  saying which step of CmdChannel it is, or that it is none. Its queue is the
  deferred commands in the order of the list, so the lemmas are about sequences
  sorted by token: what appending, removing and taking the oldest does to them.

About what a call relies on when it returns:

* `ReturnsReadLive` (`ReturnReadsLive`) when no signal reaches a caller (`~Killable`);
* `EveryExitLeavesOnce` (`LeavesOnce`) for behaviours in which the drain of a
  restart finds the list empty (`DrainsNothing`), and without that condition for
  a driver that is never restarted (`EveryExitLeavesOnceUnrestarted`). `LifeInv`
  says for each place of a caller who is to unlist and who is to free its command;
* `SuccessMeansConfirmed` (`SuccessIsConfirmed`) under `[]Calm`. A confirmation is
  matched by its identifier alone, so `ToldInv` has to say whom the firmware
  believes it answers: while every confirmation is in time, what is older than the
  matched command was acknowledged before it. It needs that the identifier of
  `RF_EVENT_START_BUSINESS`, which passes the others, is used by no caller
  (`IdAssumption`, `siwifi_msg_tx.c:749`).

`TxRingProofs.tla` proves about TxRing, for every `N` and every `W` it divides,
any number of frames and closes, when no interrupt comes inside the drain of
`siwifi_close` (`~Racing`): `RingAlwaysSound` (`RingIsSound`) and `RingIsAFifo`
(`ImplementsFifo`). `RingInv` says that the places between the used and the free
index hold just the frames that are not free, each once, counting the one a
confirmation has taken out and not given back, and that every credit has a place
outside them. The
lemmas are about remainders: two indices less than `N` apart have different
places, and a place keeps its meaning when the index wraps at `W`. They rest on
`RingAssumption`.

`RxBufProofs.tla` proves about RxBuf, for any memory, table, ring, number of
descriptors and reordering that satisfy `ParamAssumption`, with frames of one or two
buffers, failed allocations, restarts, and with or without a monitor interface:
`EveryBufferTracked` (`BuffersAreTracked`), `NoDescriptorIsForgotten`
(`NeverStalls`), and
`SupplyAlwaysKept` (`SupplyKept`) without a monitor interface. `BufInv` adds to them
what they need: that nothing is in two places (`Consistent`), that a
descriptor only names buffers which are in the reordering or still to be returned
(`AwaitedIn`: hence a pass never stops before the last filled descriptor), and how
many descriptors the second pass may find (`Raised`). What is in the table without
being the firmware's is `Lost`; only a frame for a monitor interface that is gone
adds to it (`LosingKeeps`). Lending, retrying and the sums over
descriptors are recursive functions. What they compute is shown by the least
number for which it would fail (`UpTo`, `RunExists`), which takes the place of an
induction principle.

`RxPoolProofs.tla` proves about RxPool, for any number of chunks and buffers, a
pool that may fail to initialise, and any number of frees side by side, when
the end of the pool waits for the frees (`QuietUnload`): `TypeCorrect`,
`CountersAreRight` (`CountsCoverLists`), `NoFreeIsLate` (`FreedChunkIsUsed`) and
`NoBufferTwice` (`BuffersHaveOnePlace`). `FreedChunkIsUsed` needs to know why
nobody else moves the chunk of a free under way. `Places` says so: `Links` (a
chunk and its buffer point at each other), `Holders` (a buffer of a free chunk
is in the pool), `Frees` (what each program counter guarantees about its chunk) and `Phases`. The
counters are then a matter of cardinality, one chunk more or less on a list.
They rest on `PoolAssumption`.

`ChanCtxProofs.tla` proves about ChanCtx, for any finite set of interfaces, any
contexts and channels, and every order of requests, indications and works:

* `TypeCorrect` and `CountsAreCovered` (`CountCovers`), with none of the
  restrictions of section 3, so that the assertion of `siwifi_chanctx_unlink` never
  fires and no linked interface has a context without a channel. `IInv` is the
  table with its counts (`Good`), kept by every operator on it, plus what a
  request, a check and a switch under way carry (`RequestIsFull` and its like):
  what they link when they wake up is an interface, a context and a channel.
  Counts may exceed the links, because `siwifi_chanctx_link` forgets an older
  one; equality is not an invariant of the code;
* `StartedAlwaysLinked` (`StartedIsLinked`) when user space waits for the end of the
  availability check (`HostWaits`). `LinkInv` follows the link of an AP from its
  check or its start to its stop;
* `QueuesAreNotLeftStopped` (`NotLeftStopped`) when the station does not move
  while something is under way (`QuietSta`). `HomeInv` and `StaInv` say which
  answers and works may still arrive, and what they will then find;
* `RadarAlwaysWatched` (`RadarIsWatched`) without a station (`Sta = None`) and with
  `QuickOff`, for any number of APs, with or without `HostWaits`. `WatchInv` says of
  each AP that what the property asks holds in every state but that between the
  link of a new AP and its second critical section; it is kept because every step
  that makes another channel current, or links to the current one, asks for
  detection, and the only steps that end it are the unlink of the last interface
  there, `RadarOff`, and an ask on a channel that needs none. `ToldInv` says that by then user space was told of the
  channel.

They rest on `ChanAssumption`.

`RecoveryProofs.tla` proves about Recovery, for any number of bands in any order of
the clients, and any limits: `CalibratesAgreed` (`RfCalibratesAgreed`) without any
restriction, and `FlagsAlwaysHaveWork` (`FlagsHaveWork`) with `QuickUnmask`.
`AgreedInv` says which clients have agreed at each step of the work, `QuietInv` that
those are stopped and paused as long as no driver was restarted, `ClientInv` that
the one it is at is still registered; a band removed meanwhile is why both speak
of bands still there. For the flags, `MaskInv` relates the mask, the work and the
source of the interrupt, and `MarkInv` says that a marked band is one the work has
still to start again. They rest on `RecoveryAssumption`.

`TxSchedOps.tla` and `TxSchedProofs.tla` prove about TxSched, for any finite set of
queues, any frames, ring, tokens, thresholds and credits, and every order of its
critical sections, each safety property its runs check:

* `SchedInvariant`: `Spec => []Inv`. The core of `Inv` is `Good(s, loose)`, a predicate on
  the record of the state, where `loose` are the frames an operation has taken out
  of one place and not put into another yet. So it can be kept by each operator,
  and is an invariant between actions with nothing loose. Its parts are
  `QueueOK` (the flags, counters and frames of one queue), `PlaceOK` (which queues
  are on the hardware list or the stuck list), `Frames` (each frame in one place,
  named by its header), `TokensOK` (a queue counts under each token just its frames
  in the ring that are not stale, no two queues share a token, and the hwq counts
  the busy tokens) and `SumOK` (the credits). There is one lemma per operator, then
  one per action;
* `FramesKept` (`FramesAreKept`), `CountersFollow` (`CountersFollowFrames`) and
  `CreditsMatch` (`CreditsMatchRing`) follow from it with no condition, the stuck
  check, the forced end of power save and lowered limits included; `FlowClears`
  (`FlowCtrlClears`) where the restart level is not zero (it is 64 in the driver);
* `ListedCanPush` (`ScheduledCanPush`) under `NoFlush`: no forced end of power save, and no
  40-second check where stations sleep. Otherwise a queue in its service period
  loses its frames and stays on the list, or comes back to it;
* `TokensMatch` (`TokensMatchFlight`) and `SchedulerAwake` (`NeverStalls`), under `NoFlush`, for
  behaviours in which the credits of the hwq are never negative. `Held` (a busy
  token has a live queue that counts frames under it) and `Awake` (a list that is
  not empty will be processed) are a second stage over `Inv`, kept together: a token
  leaks when `siwifi_hwq_process` takes one and pushes nothing under it, which the
  test of `siwifi_txq.c:1048` lets happen when the limit was lowered below what is in
  flight; a leaked token makes the hwq sleep. `NoLimitNoStall` removes the condition
  where the temperature control leaves the limit alone (`Decs` is {0}, as in
  `sched_burst`);
* `SleepersKeep` (`SleepersKeepTheirFrames`), with no condition, because a queue that
  dozes is never on the list (`PlaceOK`); and `StoppedVifSilent` (`StoppedVifIsSilent`)
  without power save and where `siwifi_txq_vif_get_status` hands a new queue every
  stop there is (`WholeVif`: the stops are CHAN and VIF_PS, or no queue is
  initialised again). `Told` says that every live queue has the stops of the interface.

The operators are folds over queues and recursive functions over bursts. What they
keep is shown by the least set or number for which it would fail
(`SubsetsInduct`, `LeastNat`), as in RxBuf. They rest on `SchedAssumption`; the
driver has a fixed number of stations, whence the finite set.

Every strengthened invariant was first checked by TLC on the instances of
section 3. Where a theorem has a condition, it is one of the restrictions listed in
section 3, or `Calm` in place of the absence of restarts, and the runs check the
property under it too. (`sched_burst` and `sched_ps` have the one limit `Decs = {0}`,
under which the credits stay non-negative.)

Only model-checked:

* all liveness (`EveryCallReturns`, `QueueMoves` and their like), which the prover does not
  do: it has no rule for fairness. Every other property of a passing run is the
  subject of a theorem;
* `cmd_stale_resume` is a counterexample, and stays one.

## 5. What is not modelled, and the plan

Not modelled, and why:

* device registers, firmware loading, start of the cores, configuration files,
  debug file systems, traces, private ioctls and vendor commands: sequential
  input and output, or one request each through the wrappers CmdMgr has. They
  make up most of the lines of the repository, with the register headers;
* parsing and building of frames (`siwifi_frame.c`, `siwifi_tdls.c`,
  `siwifi_igmp.c`, `siwifi_mesh.c`, header building in `siwifi_tx.c`): functions
  of bytes, whose state is one bit of a station or a cache;
* MU-MIMO groups and beamforming: not in the build this project follows;
* radar pulse patterns and rate tables: arithmetic over hardware data (that a
  radar is found is a choice of ChanCtx). The switches of debugfs for the radar;
* mesh, whose start and stop link and unlink like an AP's, and cancel an
  availability check (`siwifi_main.c` 3234-3328), and the copy of `siwifi_csa_finish`
  that the channel selection has (`siwifi_acs.c` 682-705);
* remain on channel, keys, the stations of an AP over a restart, and the
  automatic channel selection: planned.

Planned, most important first:

1. **TxPath**: TxSched over TxRing instead of the FIFO, with the drain at close
   giving no credits back; multicast and management queues, memory control and
   A-MSDU.
2. **Links**: remain-on-channel (`siwifi_main.c` 2280-2400), keys and the
   recovery of stations over a restart, channel selection sharing the scan flag.
3. Recovery over CmdMgr: the paused manager with its queue in place of the flag.
4. The optional receive thread (`siwifi_rx.c` 1408-1679), and RxBuf over RxPool.

Theorems planned: TokensMatchFlight over negative credits, where only a
re-initialised queue can lose its token; and with each module above, its own.
