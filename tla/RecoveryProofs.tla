--------------------------- MODULE RecoveryProofs ---------------------------
(* Calibration and restarts keep their flags and their agreement, for any      *)
(* number of bands in any order of the clients.                                *)
EXTENDS Recovery, WellFoundedInduction, TLAPS

Steps == {"idle", "stop", "scan", "quiet", "send", "calibrate", "start", "go",
          "resume", "trx", "finish", "unmask"} \cup Unmasking

\* The steps at one client, and those that ask it to stop.
AtClient == {"stop", "scan", "quiet", "send", "start", "go", "resume", "trx"}
Asking == {"stop", "scan", "quiet", "send"}

\* A client of the calibration stays registered to its end.
ClientInv ==
  cali.at \in AtClient => cali.i \in 1 .. Len(Seat) /\ Here(Seat[cali.i])

\* The clients before the one that is asked have agreed.
AgreedInv ==
  /\ cali.at \in Asking =>
       \A j \in 1 .. Len(Seat) : j < cali.i /\ Here(Seat[j]) => drv[Seat[j]].calib
  /\ cali.at = "calibrate" =>
       \A j \in 1 .. Len(Seat) : Here(Seat[j]) => drv[Seat[j]].calib

\* The mask, the work and the end of the calibration.
MaskInv ==
  /\ cali.at # "idle" => ~work
  /\ cali.at \notin {"idle", "reopen"} => busy
  /\ cali.at = "reopen" => ~busy
  /\ work \/ cali.at \notin {"idle"} \cup Unmasking => masked
  /\ masked => work \/ cali.at # "idle"
  /\ busy /\ cali.at = "idle" => work /\ source # "none"
  /\ cali.at \notin {"idle", "unmask"} \cup Unmasking => source # "none"
  /\ cali.at \in {"stop", "scan", "quiet", "send", "calibrate", "start", "go", "resume"} =>
       source = "app"

\* A band that is marked belongs to a calibration, and is before the client that
\* starts next or at it.
MarkInv ==
  \A b \in Band : drv[b].calib =>
    /\ busy /\ source = "app" /\ Here(b)
    /\ cali.at \notin {"finish", "unmask", "unmask again", "reopen", "trx"}
    /\ cali.at = "start" => \E j \in 1 .. Len(Seat) : j >= cali.i /\ Seat[j] = b
    /\ cali.at \in {"go", "resume"} => \E j \in 1 .. Len(Seat) : j > cali.i /\ Seat[j] = b

\* What a band's own flags wait for.
BandInv ==
  \A b \in Band :
    /\ ~Here(b) => /\ ~drv[b].restarting /\ ~restart[b].queued
                   /\ restart[b].at = "idle" /\ beat[b].at = "idle"
    /\ drv[b].restarting =>
         restart[b].queued \/ restart[b].at # "idle" \/ drv[b].life = "dead"
    /\ scan[b].request => scan[b].on
    /\ restart[b].at # "idle" => ~scan[b].asked /\ ~scan[b].request

-----------------------------------------------------------------------------
(* The clients, in their order. *)

LEMMA Seats ==
  /\ Len(Seat) \in Nat
  /\ \A i \in 1 .. Len(Seat) : Seat[i] \in Band
  /\ \A b \in Band : \E i \in 1 .. Len(Seat) : Seat[i] = b
BY RecoveryAssumption

LEMMA LeastSeat ==
  ASSUME NEW S, S \subseteq 1 .. Len(Seat), S # {}
  PROVE  \E m \in S : \A n \in S : m <= n
<1>0. S \subseteq Nat
  BY Seats
<1>1. OpToRel(<, Nat) = {p \in Nat \X Nat : p[1] < p[2]}
  BY DEF OpToRel
<1>2. PICK m \in S : \A n \in S : <<n, m>> \notin OpToRel(<, Nat)
  BY <1>0, NatLessThanWellFounded, WFMin
<1>3. ASSUME NEW n \in S
      PROVE  ~(n < m)
  <2> DEFINE p == <<n, m>>
  <2>1. p \in Nat \X Nat /\ p[1] = n /\ p[2] = m
    BY <1>0
  <2>2. p \notin {q \in Nat \X Nat : q[1] < q[2]}
    BY <1>1, <1>2, Zenon
  <2> QED
    BY <2>1, <2>2
<1> QED
  BY <1>0, <1>3

\* What NextClient finds: the next client that is registered, or none.
LEMMA Moves ==
  ASSUME NEW at, NEW i \in 1 .. Len(Seat) + 1, NEW after, NextClient(at, i, after)
  PROVE  \/ /\ cali' = [at |-> after, i |-> 0]
            /\ \A k \in 1 .. Len(Seat) : k >= i => ~Here(Seat[k])
         \/ \E j \in 1 .. Len(Seat) :
              /\ cali' = [at |-> at, i |-> j] /\ j >= i /\ Here(Seat[j])
              /\ \A k \in 1 .. Len(Seat) : i <= k /\ k < j => ~Here(Seat[k])
<1> DEFINE rest == {j \in i .. Len(Seat) : Here(Seat[j])}
<1>1. rest \subseteq 1 .. Len(Seat) /\ \A k \in 1 .. Len(Seat) : k >= i /\ Here(Seat[k]) => k \in rest
  BY Seats
<1>2. CASE rest = {}
  <2>1. cali' = [at |-> after, i |-> 0]
    BY <1>2 DEF NextClient, RfStep
  <2> QED
    BY <1>1, <1>2, <2>1
<1>3. CASE rest # {}
  <2>1. PICK m \in rest : \A k \in rest : m <= k
    BY <1>1, <1>3, LeastSeat
  <2> DEFINE j == CHOOSE x \in rest : \A k \in rest : x <= k
  <2>2. j \in rest /\ \A k \in rest : j <= k
    BY <2>1
  <2>3. cali' = [at |-> at, i |-> j]
    BY <1>3 DEF NextClient, RfStep
  <2> HIDE DEF j
  <2> QED
    BY <1>1, <2>2, <2>3, Seats
<1> QED
  BY <1>2, <1>3

-----------------------------------------------------------------------------
(* The state is well typed. *)

LEMMA InitType == Init => TypeOK
<1> SUFFICES ASSUME Init PROVE TypeOK
  OBVIOUS
<1>1. 0 \in 0 .. Len(Seat) /\ 0 \in 0 .. MaxAgain + 1 /\ 0 \in 0 .. MaxRestart + 1
      /\ 0 \in 0 .. MaxFaults /\ 0 \in 0 .. 1
  BY Seats, RecoveryAssumption
<1>2. cali \in [at: {"idle", "stop", "scan", "quiet", "send", "calibrate", "start", "go",
                     "resume", "trx", "finish", "unmask"} \cup Unmasking,
                i: 0 .. Len(Seat)]
  BY <1>1 DEF Init, Idle
<1>3. again \in [cnt: 0 .. MaxAgain + 1, late: BOOLEAN, slow: BOOLEAN]
  BY <1>1 DEF Init
<1> QED
  BY <1>1, <1>2, <1>3 DEF Init, TypeOK

Places == [at: Steps, i: 0 .. Len(Seat)]

LEMMA MovesType ==
  ASSUME NEW at \in Steps, NEW i \in 1 .. Len(Seat) + 1, NEW after \in Steps,
         NextClient(at, i, after)
  PROVE  cali' \in Places
<1>1. CASE cali' = [at |-> after, i |-> 0]
  BY <1>1, Seats DEF Places
<1>2. ASSUME NEW j \in 1 .. Len(Seat), cali' = [at |-> at, i |-> j]
      PROVE  cali' \in Places
  BY <1>2, Seats DEF Places
<1> QED
  BY <1>1, <1>2, Moves

LEMMA StepType ==
  ASSUME NEW at \in Steps, NEW i \in 0 .. Len(Seat), RfStep(at, i)
  PROVE  cali' \in Places
BY DEF RfStep, Places

Drvs == [Band -> [started: BOOLEAN, restarting: BOOLEAN, calib: BOOLEAN,
                  life: {"here", "dead", "gone"}]]
Scans == [Band -> [asked: BOOLEAN, fw: BOOLEAN, request: BOOLEAN, on: BOOLEAN]]
Restarts == [Band -> [queued: BOOLEAN,
               at: {"idle", "platform", "reset", "start", "interfaces", "done"}]]
Beats == [Band -> [at: {"idle", "sent", "dying"}, missed: 0 .. 1]]
Agains == [cnt: 0 .. MaxAgain + 1, late: BOOLEAN, slow: BOOLEAN]

Typed ==
  /\ masked \in BOOLEAN /\ source \in {"none", "boot", "app", "trx", "other"}
  /\ work \in BOOLEAN /\ busy \in BOOLEAN /\ cali \in Places /\ again \in Agains
  /\ drv \in Drvs /\ paused \in [Band -> BOOLEAN]
  /\ queue \in [Band -> {"none", "go", "stop"}]
  /\ scan \in Scans /\ restart \in Restarts
  /\ restarts \in 0 .. MaxRestart + 1
  /\ beat \in Beats /\ faults \in 0 .. MaxFaults

LEMMA AskAgainType ==
  ASSUME Typed, NEW slow \in BOOLEAN, AskAgain(slow)
  PROVE  /\ cali' \in Places /\ work' \in BOOLEAN
         /\ again' \in Agains
<1>1. CASE GiveUp
  <2>1. 1 \in 1 .. Len(Seat) + 1 /\ "start" \in Steps /\ "finish" \in Steps
    BY Seats DEF Steps
  <2>2. NextClient("start", 1, "finish") /\ work' = work /\ again' = again
    BY <1>1 DEF AskAgain
  <2> QED
    BY <2>1, <2>2, MovesType DEF Typed
<1>2. CASE ~GiveUp
  <2>1. again' = [cnt |-> IF again.cnt > 0 /\ again.late THEN 1 ELSE again.cnt + 1,
                  late |-> again.slow \/ slow, slow |-> FALSE]
        /\ work' = TRUE /\ cali' = Idle
    BY <1>2 DEF AskAgain
  <2>2. again.cnt \in 0 .. MaxAgain + 1 /\ again.slow \in BOOLEAN /\ again.late \in BOOLEAN
    BY DEF Typed, Agains
  <2>3. (IF again.cnt > 0 /\ again.late THEN 1 ELSE again.cnt + 1) \in 0 .. MaxAgain + 1
    BY <1>2, <2>2, RecoveryAssumption DEF GiveUp
  <2>4. again' \in Agains
    BY <2>1, <2>2, <2>3 DEF Agains
  <2>5. cali' \in Places
    BY <2>1, StepType, Seats DEF Idle, Places, Steps
  <2> QED
    BY <2>1, <2>4, <2>5
<1> QED
  BY <1>1, <1>2

LEMMA TypeParts == TypeOK <=> Typed
BY DEF TypeOK, Typed, Places, Steps, Drvs, Scans, Restarts, Beats, Agains

LEMMA ClientIs ==
  ASSUME Typed, ClientInv, cali.at \in AtClient
  PROVE  /\ Client \in Band /\ Here(Client) /\ cali.i \in 1 .. Len(Seat)
         /\ cali.i + 1 \in 1 .. Len(Seat) + 1
BY Seats DEF ClientInv, Client

LEMMA PassType ==
  ASSUME scan \in Scans, NEW b \in Band, PassGate(b) \/ DeclareOver(b)
  PROVE  scan' \in Scans
<1>1. CASE DeclareOver(b)
  <2> DEFINE mid == [scan EXCEPT ![b].request = FALSE]
  <2>1. mid \in Scans
    BY DEF Scans
  <2>2. scan' = [mid EXCEPT ![b].on = FALSE]
    BY <1>1 DEF DeclareOver
  <2> HIDE DEF mid
  <2> QED
    BY <2>1, <2>2 DEF Scans
<1> QED
  BY <1>1 DEF PassGate

LEMMA FaultType ==
  ASSUME faults \in 0 .. MaxFaults, NEW b \in Band,
         Fault \/ UNCHANGED faults \/ Serves(b) \/ Fails(b)
  PROVE  faults' \in 0 .. MaxFaults
BY RecoveryAssumption DEF Fault, Serves, Fails

LEMMA RfType ==
  ASSUME Typed, ClientInv, RfWork
  PROVE  Typed'
<1> USE DEF Typed
<1>a. \A x \in {"idle", "stop", "scan", "quiet", "send", "calibrate", "start", "go", "resume",
                "trx", "finish", "unmask", "unmask again", "reopen"} : x \in Steps
  BY DEF Steps, Unmasking
<1>b. 0 \in 0 .. Len(Seat) /\ 1 \in 1 .. Len(Seat) + 1 /\ cali.i \in 0 .. Len(Seat)
  BY Seats DEF Places
<1>c. Idle \in Places
  BY <1>a, <1>b DEF Idle, Places
<1>1. CASE NothingToDo
  BY <1>1, <1>a, <1>b, StepType DEF NothingToDo
<1>2. CASE Dispatch
  <2>1. cali' \in Places
    BY <1>2, <1>a, <1>b, StepType, MovesType DEF Dispatch
  <2>2. again' \in Agains
    BY <1>2 DEF Dispatch, Agains
  <2> QED
    BY <1>2, <2>1, <2>2 DEF Dispatch
<1>3. CASE TrxRecali
  <2>1. cali.at \in AtClient
    BY <1>3 DEF TrxRecali, AtClient
  <2> QED
    BY <1>3, <1>a, <2>1, ClientIs, MovesType, PassType DEF TrxRecali
<1>4. CASE StopAsked
  <2>1. cali.at \in AtClient
    BY <1>4 DEF StopAsked, AtClient
  <2>2. cali' \in Places /\ work' \in BOOLEAN /\ again' \in Agains
    BY <1>4, <1>a, <1>b, <2>1, ClientIs, MovesType, StepType, AskAgainType DEF StopAsked, Agains
  <2> QED
    BY <1>4, <2>2 DEF StopAsked
<1>5. CASE StopWaits
  <2>1. cali' \in Places
    BY <1>5, <1>a, <1>b, MovesType, StepType DEF StopWaits
  <2>2. again' \in Agains
    BY <1>5 DEF StopWaits, Agains
  <2> QED
    BY <1>5, <2>1, <2>2 DEF StopWaits
<1>6. CASE StopQueues
  <2>1. cali.at \in AtClient
    BY <1>6 DEF StopQueues, AtClient
  <2>2. cali' \in Places
    BY <1>6, <1>a, <1>b, StepType DEF StopQueues
  <2>3. queue' \in [Band -> {"none", "go", "stop"}]
    BY <1>6, <2>1, ClientIs DEF StopQueues
  <2> QED
    BY <1>6, <2>2, <2>3 DEF StopQueues
<1>7. CASE StopSent
  <2>1. cali.at \in AtClient
    BY <1>7 DEF StopSent, AtClient
  <2>2. cali' \in Places /\ scan' \in Scans
    BY <1>7, <1>a, <1>b, <2>1, ClientIs, MovesType, PassType DEF StopSent
  <2>3. drv' \in Drvs /\ paused' \in [Band -> BOOLEAN]
    BY <1>7, <2>1, ClientIs DEF StopSent, Drvs
  <2> QED
    BY <1>7, <2>2, <2>3 DEF StopSent
<1>8. CASE StopRefused
  <2>1. cali.at \in AtClient
    BY <1>8 DEF StopRefused, AtClient
  <2>2. \E slow \in BOOLEAN : AskAgain(slow)
    BY <1>8 DEF StopRefused
  <2>3. cali' \in Places /\ work' \in BOOLEAN /\ again' \in Agains
    BY <2>2, AskAgainType DEF Agains
  <2>4. scan' \in Scans
    BY <1>8, <2>1, ClientIs, PassType DEF StopRefused
  <2>5. paused' \in [Band -> BOOLEAN]
    BY <1>8, <2>1, ClientIs DEF StopRefused
  <2>6. faults' \in 0 .. MaxFaults
    BY <1>8, <2>1, ClientIs, FaultType DEF StopRefused
  <2> QED
    BY <1>8, <2>3, <2>4, <2>5, <2>6 DEF StopRefused
<1>9. CASE Calibrate
  BY <1>9, <1>a, <1>b, MovesType DEF Calibrate
<1>10. CASE StartAsked
  <2>1. cali.at \in AtClient
    BY <1>10 DEF StartAsked, AtClient
  <2>2. cali' \in Places
    BY <1>10, <1>a, <1>b, <2>1, ClientIs, MovesType, StepType DEF StartAsked
  <2>3. drv' \in Drvs
    BY <1>10, <2>1, ClientIs DEF StartAsked, Drvs
  <2> QED
    BY <1>10, <2>2, <2>3 DEF StartAsked
<1>11. CASE StartQueues
  <2>1. cali.at \in AtClient
    BY <1>11 DEF StartQueues, AtClient
  <2>2. cali' \in Places
    BY <1>11, <1>a, <1>b, StepType DEF StartQueues
  <2>3. queue' \in [Band -> {"none", "go", "stop"}]
    BY <1>11, <2>1, ClientIs DEF StartQueues
  <2> QED
    BY <1>11, <2>2, <2>3 DEF StartQueues
<1>12. CASE Resume
  <2>1. cali.at \in AtClient
    BY <1>12 DEF Resume, AtClient
  <2>2. cali' \in Places /\ scan' \in Scans
    BY <1>12, <1>a, <2>1, ClientIs, MovesType, PassType DEF Resume
  <2>3. paused' \in [Band -> BOOLEAN]
    BY <1>12, <2>1, ClientIs DEF Resume
  <2>4. faults' \in 0 .. MaxFaults
    BY <1>12, <2>1, ClientIs, FaultType DEF Resume
  <2> QED
    BY <1>12, <2>2, <2>3, <2>4 DEF Resume
<1>13. CASE Finish
  <2>1. cali' \in Places
    BY <1>13, <1>a, <1>b, StepType DEF Finish
  <2>2. again' \in Agains
    BY <1>13 DEF Finish, Agains
  <2> QED
    BY <1>13, <2>1, <2>2 DEF Finish
<1>14. CASE Unmask
  <2>1. cali' \in Places
    BY <1>14, <1>a, <1>b, <1>c, StepType DEF Unmask
  <2> QED
    BY <1>14, <2>1 DEF Unmask
<1> QED
  BY <1>1, <1>2, <1>3, <1>4, <1>5, <1>6, <1>7, <1>8, <1>9, <1>10, <1>11, <1>12, <1>13, <1>14
     DEF RfWork

-----------------------------------------------------------------------------
(* A band's own steps. *)

BandStep(b) ==
  ErrorInd(b) \/ RestartWork(b) \/ Removed(b) \/ BeatWork(b)
    \/ ScanAsks(b) \/ ScanRecorded(b) \/ ScanEndsInd(b)

LEMMA TriggerType ==
  ASSUME Typed, NEW b \in Band, Trigger(b)
  PROVE  drv' \in Drvs /\ restart' \in Restarts
<1> DEFINE mid == [drv EXCEPT ![b].restarting = TRUE]
<1>1. mid \in Drvs
  BY DEF Drvs, Typed
<1>2. drv' = [mid EXCEPT ![b].started = FALSE]
  BY DEF Trigger
<1> HIDE DEF mid
<1>3. drv' \in Drvs
  BY <1>1, <1>2 DEF Drvs
<1> QED
  BY <1>3 DEF Trigger, Typed, Restarts

LEMMA ReprobeType ==
  ASSUME Typed, NEW b \in Band, Reprobe(b)
  PROVE  drv' \in Drvs
BY DEF Reprobe, Typed, Drvs

LEMMA RestartType ==
  ASSUME Typed, NEW b \in Band,
         NEW at \in {"idle", "platform", "reset", "start", "interfaces", "done"},
         RestartStep(b, at)
  PROVE  restart' \in Restarts
BY DEF RestartStep, Typed, Restarts

LEMMA MissedType ==
  ASSUME Typed, NEW b \in Band, Missed(b)
  PROVE  beat' \in Beats
BY DEF Missed, Typed, Beats

LEMMA BandType ==
  ASSUME Typed, NEW b \in Band, BandStep(b)
  PROVE  Typed'
<1> USE DEF Typed, rfVars
<1>1. CASE ErrorInd(b)
  BY <1>1, FaultType, TriggerType, ReprobeType DEF ErrorInd
<1>2. CASE RestartBegins(b)
  BY <1>2, PassType DEF RestartBegins, Restarts
<1>3. CASE RestartPlatform(b)
  <2>1. scan' \in Scans
    BY <1>3 DEF RestartPlatform, Scans
  <2>2. restarts' \in 0 .. MaxRestart + 1
    BY <1>3, RecoveryAssumption DEF RestartPlatform
  <2>3. restart' \in Restarts /\ drv' \in Drvs
    BY <1>3, RestartType, ReprobeType DEF RestartPlatform
  <2> QED
    BY <1>3, <2>1, <2>2, <2>3 DEF RestartPlatform
<1>4. CASE RestartReset(b)
  BY <1>4, RestartType, ReprobeType, FaultType DEF RestartReset
<1>5. CASE RestartStart(b)
  <2>1. scan' \in Scans
    BY <1>5 DEF RestartStart, Scans
  <2>2. restart' \in Restarts /\ faults' \in 0 .. MaxFaults
    BY <1>5, RestartType, FaultType DEF RestartStart
  <2>3. drv' \in Drvs
    BY <1>5 DEF RestartStart, Drvs
  <2> QED
    BY <1>5, <2>1, <2>2, <2>3 DEF RestartStart
<1>6. CASE RestartInterfaces(b)
  BY <1>6, RestartType, FaultType DEF RestartInterfaces
<1>7. CASE RestartDone(b)
  <2>1. drv' \in Drvs
    BY <1>7 DEF RestartDone, Drvs
  <2> QED
    BY <1>7, <2>1, RestartType DEF RestartDone
<1>8. CASE Removed(b)
  <2>1. drv' \in Drvs
    BY <1>8 DEF Removed, Drvs
  <2>2. scan' \in Scans
    BY <1>8 DEF Removed, Scans
  <2>3. restart' \in Restarts
    BY <1>8 DEF Removed, Restarts
  <2>4. beat' \in Beats
    BY <1>8 DEF Removed, Beats
  <2> QED
    BY <1>8, <2>1, <2>2, <2>3, <2>4 DEF Removed
<1>9. CASE Beat(b)
  <2>1. beat' \in Beats
    BY <1>9 DEF Beat, Beats
  <2> QED
    BY <1>9, <2>1 DEF Beat
<1>10. CASE BeatGate(b)
  BY <1>10, PassType, MissedType DEF BeatGate
<1>11. CASE BeatAnswered(b)
  <2>1. beat' \in Beats
    BY <1>11 DEF BeatAnswered, Beats
  <2> QED
    BY <1>11, <2>1, FaultType DEF BeatAnswered
<1>12. CASE BeatMissed(b)
  BY <1>12, MissedType, FaultType DEF BeatMissed
<1>13. CASE BeatTriggers(b)
  <2>1. beat' \in Beats
    BY <1>13 DEF BeatTriggers, Beats
  <2> QED
    BY <1>13, <2>1, TriggerType DEF BeatTriggers
<1>14. CASE ScanAsks(b)
  <2> DEFINE mid == [scan EXCEPT ![b].asked = TRUE]
  <2>1. mid \in Scans
    BY DEF Scans
  <2>2. scan' = [mid EXCEPT ![b].fw = TRUE]
    BY <1>14 DEF ScanAsks
  <2> HIDE DEF mid
  <2>3. scan' \in Scans
    BY <2>1, <2>2 DEF Scans
  <2> QED
    BY <1>14, <2>3 DEF ScanAsks
<1>15. CASE ScanRecorded(b)
  <2> DEFINE mid == [scan EXCEPT ![b].asked = FALSE]
             mid2 == [mid EXCEPT ![b].request = TRUE]
  <2>1. mid \in Scans
    BY DEF Scans
  <2>2. scan' = [mid2 EXCEPT ![b].on = TRUE]
    BY <1>15 DEF ScanRecorded
  <2> HIDE DEF mid
  <2>3. mid2 \in Scans
    BY <2>1 DEF Scans
  <2> HIDE DEF mid2
  <2>4. scan' \in Scans
    BY <2>2, <2>3 DEF Scans
  <2> QED
    BY <1>15, <2>4 DEF ScanRecorded
<1>16. CASE ScanEndsInd(b)
  <2> DEFINE mid == [scan EXCEPT ![b].fw = FALSE]
             mid2 == [mid EXCEPT ![b].request = FALSE]
  <2>1. mid \in Scans
    BY DEF Scans
  <2>2. scan' = [mid2 EXCEPT ![b].on = FALSE]
    BY <1>16 DEF ScanEndsInd
  <2> HIDE DEF mid
  <2>3. mid2 \in Scans
    BY <2>1 DEF Scans
  <2> HIDE DEF mid2
  <2>4. scan' \in Scans
    BY <2>2, <2>3 DEF Scans
  <2> QED
    BY <1>16, <2>4 DEF ScanEndsInd
<1> QED
  BY <1>1, <1>2, <1>3, <1>4, <1>5, <1>6, <1>7, <1>8, <1>9, <1>10, <1>11, <1>12, <1>13, <1>14,
     <1>15, <1>16 DEF BandStep, RestartWork, BeatWork

\* The flags a step of band b leaves to the band c.
TriggerIs(b) ==
  \A c \in Band :
    /\ drv'[c].calib = drv[c].calib /\ drv'[c].life = drv[c].life
    /\ restart'[c].at = restart[c].at
    /\ c # b => drv'[c] = drv[c] /\ restart'[c] = restart[c]
    /\ drv'[b].restarting /\ restart'[b].queued

LEMMA TriggerFields ==
  ASSUME Typed, NEW b \in Band, Trigger(b)
  PROVE  TriggerIs(b)
<1> DEFINE mid == [drv EXCEPT ![b].restarting = TRUE]
<1>1. /\ mid \in Drvs /\ mid[b].restarting /\ mid[b].calib = drv[b].calib /\ mid[b].life = drv[b].life
      /\ \A c \in Band : c # b => mid[c] = drv[c]
  BY DEF Drvs, Typed
<1>2. drv' = [mid EXCEPT ![b].started = FALSE]
  BY DEF Trigger
<1> HIDE DEF mid
<1>3. /\ drv'[b].restarting /\ drv'[b].calib = drv[b].calib /\ drv'[b].life = drv[b].life
      /\ \A c \in Band : c # b => drv'[c] = drv[c]
  BY <1>1, <1>2 DEF Drvs
<1>4. /\ restart'[b].queued /\ restart'[b].at = restart[b].at
      /\ \A c \in Band : c # b => restart'[c] = restart[c]
  BY DEF Trigger, Typed, Restarts
<1> QED
  BY <1>3, <1>4 DEF TriggerIs

OverIs(b) ==
  /\ ~scan'[b].request /\ ~scan'[b].on /\ scan'[b].asked = scan[b].asked
  /\ \A c \in Band : c # b => scan'[c] = scan[c]

LEMMA OverFields ==
  ASSUME scan \in Scans, NEW b \in Band, DeclareOver(b)
  PROVE  OverIs(b)
<1> DEFINE mid == [scan EXCEPT ![b].request = FALSE]
<1>1. /\ mid \in Scans /\ ~mid[b].request /\ mid[b].asked = scan[b].asked
      /\ \A c \in Band : c # b => mid[c] = scan[c]
  BY DEF Scans
<1>2. scan' = [mid EXCEPT ![b].on = FALSE]
  BY DEF DeclareOver
<1> HIDE DEF mid
<1> QED
  BY <1>1, <1>2 DEF Scans, OverIs

\* Every flag of a band that is gone is down.
Clear(d, r, t) == ~d.restarting /\ ~r.queued /\ r.at = "idle" /\ t.at = "idle"

\* What one band's flags wait for.
BandIs(d, r, t, k) ==
  /\ d.life = "gone" => Clear(d, r, t)
  /\ d.restarting => r.queued \/ r.at # "idle" \/ d.life = "dead"
  /\ k.request => k.on
  /\ r.at # "idle" => ~k.asked /\ ~k.request

LEMMA BandInvIs ==
  BandInv <=> \A b \in Band : BandIs(drv[b], restart[b], beat[b], scan[b])
BY DEF BandInv, BandIs, Clear, Here

\* A step of b keeps what the flags of b wait for, and leaves the others alone.
OneBand(b) ==
  /\ BandIs(drv'[b], restart'[b], beat'[b], scan'[b])
  /\ \A c \in Band : c # b => /\ drv'[c] = drv[c] /\ restart'[c] = restart[c]
                              /\ beat'[c] = beat[c] /\ scan'[c] = scan[c]
  /\ \/ drv'[b].calib = drv[b].calib /\ (drv'[b].life = "gone" <=> drv[b].life = "gone")
     \/ /\ ~drv'[b].calib /\ drv'[b].life = "gone"
        /\ cali.at \in {"idle", "finish", "unmask"} \cup Unmasking

LEMMA ErrorBand ==
  ASSUME Typed, NEW b \in Band, BandIs(drv[b], restart[b], beat[b], scan[b]), ErrorInd(b)
  PROVE  OneBand(b)
<1>1. CASE Trigger(b)
  BY <1>1, TriggerFields DEF ErrorInd, TriggerIs, OneBand, BandIs, Here
<1>2. CASE Reprobe(b) /\ UNCHANGED restart
  BY <1>2 DEF ErrorInd, Reprobe, OneBand, BandIs, Here, Typed, Drvs
<1> QED
  BY <1>1, <1>2 DEF ErrorInd

LEMMA RestartBand ==
  ASSUME Typed, NEW b \in Band, BandIs(drv[b], restart[b], beat[b], scan[b]), RestartWork(b)
  PROVE  OneBand(b)
<1> USE DEF Typed
<1>1. CASE RestartBegins(b)
  <2>1. OverIs(b)
    BY <1>1, OverFields DEF RestartBegins
  <2>2. /\ restart'[b].at = "platform" /\ drv' = drv /\ beat' = beat /\ ~scan[b].asked
        /\ \A c \in Band : c # b => restart'[c] = restart[c]
    BY <1>1 DEF RestartBegins, Restarts
  <2>3. drv[b].life # "gone"
    BY <1>1 DEF RestartBegins, BandIs, Clear
  <2> QED
    BY <2>1, <2>2, <2>3 DEF OverIs, OneBand, BandIs
<1>2. CASE RestartPlatform(b)
  <2>1. /\ scan'[b].asked = scan[b].asked /\ scan'[b].request = scan[b].request
        /\ scan'[b].on = scan[b].on
        /\ \A c \in Band : c # b => scan'[c] = scan[c]
    BY <1>2 DEF RestartPlatform, Scans
  <2>2. /\ \/ drv' = drv /\ restart'[b].at = "reset"
           \/ drv'[b].life = "dead" /\ restart'[b].at = "idle" /\ drv'[b].calib = drv[b].calib
        /\ \A c \in Band : c # b => drv'[c] = drv[c] /\ restart'[c] = restart[c]
    BY <1>2 DEF RestartPlatform, Reprobe, RestartStep, Restarts, Drvs
  <2>3. drv[b].life # "gone" /\ ~scan[b].asked /\ ~scan[b].request /\ beat' = beat
    BY <1>2 DEF RestartPlatform, BandIs, Clear
  <2> QED
    BY <2>1, <2>2, <2>3 DEF OneBand, BandIs
<1>3. CASE RestartReset(b)
  <2>1. /\ \/ drv' = drv /\ restart'[b].at = "start"
           \/ drv'[b].life = "dead" /\ restart'[b].at = "idle" /\ drv'[b].calib = drv[b].calib
        /\ \A c \in Band : c # b => drv'[c] = drv[c] /\ restart'[c] = restart[c]
    BY <1>3 DEF RestartReset, Reprobe, RestartStep, Restarts, Drvs
  <2>2. /\ drv[b].life # "gone" /\ ~scan[b].asked /\ ~scan[b].request
        /\ beat' = beat /\ scan' = scan
    BY <1>3 DEF RestartReset, BandIs, Clear
  <2> QED
    BY <2>1, <2>2 DEF OneBand, BandIs
<1>4. CASE RestartStart(b)
  <2>1. /\ scan'[b].asked = scan[b].asked /\ scan'[b].request = scan[b].request
        /\ \A c \in Band : c # b => scan'[c] = scan[c]
    BY <1>4 DEF RestartStart, Scans
  <2>2. /\ restart'[b].at \in {"interfaces", "done"}
        /\ drv'[b].life = drv[b].life /\ drv'[b].calib = drv[b].calib
        /\ \A c \in Band : c # b => drv'[c] = drv[c] /\ restart'[c] = restart[c]
    BY <1>4 DEF RestartStart, RestartStep, Restarts, Drvs
  <2>3. drv[b].life # "gone" /\ ~scan[b].asked /\ ~scan[b].request /\ beat' = beat
    BY <1>4 DEF RestartStart, BandIs, Clear
  <2> QED
    BY <2>1, <2>2, <2>3 DEF OneBand, BandIs
<1>5. CASE RestartInterfaces(b)
  <2>1. /\ restart'[b].at = "done" /\ drv' = drv /\ beat' = beat /\ scan' = scan
        /\ \A c \in Band : c # b => restart'[c] = restart[c]
    BY <1>5 DEF RestartInterfaces, RestartStep, Restarts
  <2>2. drv[b].life # "gone" /\ ~scan[b].asked /\ ~scan[b].request
    BY <1>5 DEF RestartInterfaces, BandIs, Clear
  <2> QED
    BY <2>1, <2>2 DEF OneBand, BandIs
<1>6. CASE RestartDone(b)
  <2>1. /\ restart'[b].at = "idle" /\ ~drv'[b].restarting /\ drv'[b].life = drv[b].life
        /\ drv'[b].calib = drv[b].calib /\ beat' = beat /\ scan' = scan
        /\ \A c \in Band : c # b => restart'[c] = restart[c] /\ drv'[c] = drv[c]
    BY <1>6 DEF RestartDone, RestartStep, Restarts, Drvs
  <2>2. drv[b].life # "gone" /\ ~scan[b].asked /\ ~scan[b].request
    BY <1>6 DEF RestartDone, BandIs, Clear
  <2> QED
    BY <2>1, <2>2 DEF OneBand, BandIs
<1> QED
  BY <1>1, <1>2, <1>3, <1>4, <1>5, <1>6 DEF RestartWork

LEMMA BeatBand ==
  ASSUME Typed, NEW b \in Band, BandIs(drv[b], restart[b], beat[b], scan[b]), BeatWork(b)
  PROVE  OneBand(b)
<1> USE DEF Typed
<1>0. \A c \in Band : c # b => beat'[c] = beat[c]
  BY DEF BeatWork, Beat, BeatGate, BeatAnswered, BeatMissed, BeatTriggers, Missed, Beats
<1>1. drv[b].life # "gone"
  BY DEF BeatWork, Beat, BeatGate, BeatAnswered, BeatMissed, BeatTriggers, BandIs, Clear, Here
<1>2. CASE Beat(b) \/ BeatAnswered(b) \/ BeatMissed(b)
  <2>1. UNCHANGED <<drv, restart, scan>>
    BY <1>2 DEF Beat, BeatAnswered, BeatMissed
  <2> QED
    BY <1>0, <1>1, <2>1 DEF OneBand, BandIs
<1>3. CASE BeatGate(b)
  <2>1. OverIs(b) /\ UNCHANGED <<drv, restart>>
    BY <1>3, OverFields DEF BeatGate
  <2> QED
    BY <1>0, <1>1, <2>1 DEF OverIs, OneBand, BandIs
<1>4. CASE BeatTriggers(b)
  <2>1. TriggerIs(b) /\ scan' = scan
    BY <1>4, TriggerFields DEF BeatTriggers
  <2> QED
    BY <1>0, <1>1, <2>1 DEF TriggerIs, OneBand, BandIs
<1> QED
  BY <1>2, <1>3, <1>4 DEF BeatWork

LEMMA ScanBand ==
  ASSUME Typed, NEW b \in Band, BandIs(drv[b], restart[b], beat[b], scan[b]),
         ScanAsks(b) \/ ScanRecorded(b) \/ ScanEndsInd(b)
  PROVE  OneBand(b)
<1> USE DEF Typed
<1>1. UNCHANGED <<drv, restart, beat>>
  BY DEF ScanAsks, ScanRecorded, ScanEndsInd
<1>2. \A c \in Band : c # b => scan'[c] = scan[c]
  BY DEF ScanAsks, ScanRecorded, ScanEndsInd, Scans
<1>3. CASE ScanAsks(b)
  <2> DEFINE mid == [scan EXCEPT ![b].asked = TRUE]
  <2>1. mid \in Scans /\ ~mid[b].request
    BY <1>3 DEF Scans, ScanAsks
  <2>2. scan' = [mid EXCEPT ![b].fw = TRUE] /\ restart[b].at = "idle"
    BY <1>3 DEF ScanAsks
  <2> HIDE DEF mid
  <2>3. ~scan'[b].request
    BY <2>1, <2>2 DEF Scans
  <2> QED
    BY <1>1, <1>2, <2>2, <2>3 DEF OneBand, BandIs
<1>4. CASE ScanRecorded(b)
  <2> DEFINE mid == [scan EXCEPT ![b].asked = FALSE]
             mid2 == [mid EXCEPT ![b].request = TRUE]
  <2>1. mid \in Scans
    BY DEF Scans
  <2>2. scan' = [mid2 EXCEPT ![b].on = TRUE]
    BY <1>4 DEF ScanRecorded
  <2> HIDE DEF mid
  <2>3. mid2 \in Scans
    BY <2>1 DEF Scans
  <2> HIDE DEF mid2
  <2>4. scan'[b].on
    BY <2>2, <2>3 DEF Scans
  <2>5. restart[b].at = "idle"
    BY <1>4 DEF ScanRecorded, BandIs
  <2> QED
    BY <1>1, <1>2, <2>4, <2>5 DEF OneBand, BandIs
<1>5. CASE ScanEndsInd(b)
  <2> DEFINE mid == [scan EXCEPT ![b].fw = FALSE]
             mid2 == [mid EXCEPT ![b].request = FALSE]
  <2>1. mid \in Scans /\ mid[b].asked = scan[b].asked
    BY DEF Scans
  <2>2. scan' = [mid2 EXCEPT ![b].on = FALSE]
    BY <1>5 DEF ScanEndsInd
  <2> HIDE DEF mid
  <2>3. mid2 \in Scans /\ ~mid2[b].request /\ mid2[b].asked = scan[b].asked
    BY <2>1 DEF Scans
  <2> HIDE DEF mid2
  <2>4. ~scan'[b].request /\ scan'[b].asked = scan[b].asked
    BY <2>2, <2>3 DEF Scans
  <2> QED
    BY <1>1, <1>2, <2>4 DEF OneBand, BandIs
<1> QED
  BY <1>3, <1>4, <1>5

LEMMA RemovedBand ==
  ASSUME Typed, NEW b \in Band, Removed(b)
  PROVE  OneBand(b)
<1>1. /\ drv'[b] = [started |-> FALSE, restarting |-> FALSE, calib |-> FALSE, life |-> "gone"]
      /\ restart'[b] = [queued |-> FALSE, at |-> "idle"]
      /\ beat'[b] = [at |-> "idle", missed |-> 0]
      /\ scan'[b] = [asked |-> FALSE, fw |-> FALSE, request |-> FALSE, on |-> FALSE]
  BY DEF Removed, Typed, Drvs, Restarts, Beats, Scans
<1>2. \A c \in Band : c # b => /\ drv'[c] = drv[c] /\ restart'[c] = restart[c]
                               /\ beat'[c] = beat[c] /\ scan'[c] = scan[c]
  BY DEF Removed, Typed, Drvs, Restarts, Beats, Scans
<1>3. cali.at \in {"idle", "finish", "unmask"} \cup Unmasking
  BY DEF Removed
<1>4. /\ ~drv'[b].restarting /\ ~drv'[b].calib /\ drv'[b].life = "gone" /\ ~restart'[b].queued
      /\ restart'[b].at = "idle" /\ beat'[b].at = "idle" /\ ~scan'[b].request
  BY <1>1
<1> QED
  BY <1>2, <1>3, <1>4 DEF OneBand, BandIs, Clear

LEMMA BandAlone ==
  ASSUME Typed, BandInv, NEW b \in Band, BandStep(b)
  PROVE  UNCHANGED rfVars /\ OneBand(b)
<1>1. BandIs(drv[b], restart[b], beat[b], scan[b])
  BY BandInvIs
<1>2. UNCHANGED rfVars
  BY DEF BandStep, ErrorInd, RestartWork, RestartBegins, RestartPlatform, RestartReset,
         RestartStart, RestartInterfaces, RestartDone, Removed, BeatWork, Beat, BeatGate,
         BeatAnswered, BeatMissed, BeatTriggers, ScanAsks, ScanRecorded, ScanEndsInd
<1> QED
  BY <1>1, <1>2, ErrorBand, RestartBand, BeatBand, ScanBand, RemovedBand DEF BandStep

-----------------------------------------------------------------------------
(* The steps of the calibration keep the clients registered, and the bands      *)
(* before the one that is asked agreed.                                          *)

SameHere == \A b \in Band : (drv'[b].life = "gone") <=> (drv[b].life = "gone")

\* What the calibration leaves to the bands.
LEMMA RfBands ==
  ASSUME Typed, ClientInv, RfWork
  PROVE  /\ UNCHANGED <<restart, restarts, beat>>
         /\ \A b \in Band : /\ drv'[b].life = drv[b].life
                            /\ drv'[b].restarting = drv[b].restarting
                            /\ \/ scan'[b] = scan[b]
                               \/ scan'[b].asked = scan[b].asked /\ ~scan'[b].request
<1> USE DEF Typed
<1>1. UNCHANGED <<restart, restarts, beat>>
  BY DEF RfWork, NothingToDo, Dispatch, TrxRecali, StopAsked, StopWaits, StopQueues, StopSent,
         StopRefused, Calibrate, StartAsked, StartQueues, Resume, Finish, Unmask
<1>2. drv' = drv \/ \E x \in BOOLEAN : drv' = [drv EXCEPT ![Client].calib = x]
  BY DEF RfWork, NothingToDo, Dispatch, TrxRecali, StopAsked, StopWaits, StopQueues, StopSent,
         StopRefused, Calibrate, StartAsked, StartQueues, Resume, Finish, Unmask
<1>3. \A b \in Band : drv'[b].life = drv[b].life /\ drv'[b].restarting = drv[b].restarting
  BY <1>2 DEF Drvs
<1>4. scan' = scan \/ (cali.at \in AtClient /\ DeclareOver(Client))
  BY DEF RfWork, NothingToDo, Dispatch, TrxRecali, StopAsked, StopWaits, StopQueues, StopSent,
         StopRefused, Calibrate, StartAsked, StartQueues, Resume, Finish, Unmask, PassGate,
         AtClient
<1>5. \A b \in Band : \/ scan'[b] = scan[b]
                      \/ scan'[b].asked = scan[b].asked /\ ~scan'[b].request
  <2>1. CASE scan' = scan
    BY <2>1
  <2>2. CASE cali.at \in AtClient /\ DeclareOver(Client)
    <3>1. Client \in Band
      BY <2>2, ClientIs
    <3>2. OverIs(Client)
      BY <2>2, <3>1, OverFields
    <3> QED
      BY <3>2 DEF OverIs
  <2> QED
    BY <1>4, <2>1, <2>2
<1> QED
  BY <1>1, <1>3, <1>5

LEMMA MovesOn ==
  ASSUME NEW at, NEW i \in 1 .. Len(Seat) + 1, NEW after, NextClient(at, i, after),
         after \notin AtClient, SameHere
  PROVE  ClientInv' /\ cali'.at \in {at, after}
<1>1. CASE cali' = [at |-> after, i |-> 0]
  BY <1>1 DEF ClientInv
<1>2. ASSUME NEW j \in 1 .. Len(Seat), cali' = [at |-> at, i |-> j], Here(Seat[j])
      PROVE  ClientInv' /\ cali'.at \in {at, after}
  BY <1>2, Seats DEF ClientInv, SameHere, Here
<1> QED
  BY <1>1, <1>2, Moves

LEMMA NotAsking ==
  ASSUME cali'.at \notin Asking \cup {"calibrate"}
  PROVE  AgreedInv'
BY DEF AgreedInv

LEMMA AgreedMove ==
  ASSUME NEW i \in 1 .. Len(Seat) + 1, NextClient("stop", i, "calibrate"), SameHere,
         \A j \in 1 .. Len(Seat) : j < i /\ Here(Seat[j]) => drv'[Seat[j]].calib
  PROVE  AgreedInv'
<1>0. \A j \in 1 .. Len(Seat) : Here(Seat[j])' <=> Here(Seat[j])
  BY Seats DEF SameHere, Here
<1>1. CASE /\ cali' = [at |-> "calibrate", i |-> 0]
           /\ \A k \in 1 .. Len(Seat) : k >= i => ~Here(Seat[k])
  BY <1>0, <1>1, Seats DEF AgreedInv, Asking
<1>2. ASSUME NEW j \in 1 .. Len(Seat), cali' = [at |-> "stop", i |-> j],
             \A k \in 1 .. Len(Seat) : i <= k /\ k < j => ~Here(Seat[k])
      PROVE  AgreedInv'
  BY <1>0, <1>2, Seats DEF AgreedInv, Asking
<1> QED
  BY <1>1, <1>2, Moves

LEMMA AskAgainMoves ==
  ASSUME NEW slow, AskAgain(slow), SameHere
  PROVE  ClientInv' /\ AgreedInv' /\ cali'.at \in {"idle", "start", "finish"}
<1>1. CASE GiveUp
  <2>1. NextClient("start", 1, "finish") /\ 1 \in 1 .. Len(Seat) + 1 /\ "finish" \notin AtClient
    BY <1>1, Seats DEF AskAgain, AtClient
  <2>2. ClientInv' /\ cali'.at \in {"start", "finish"}
    BY <2>1, MovesOn
  <2> QED
    BY <2>2, NotAsking DEF Asking
<1>2. CASE ~GiveUp
  <2>1. cali' = Idle
    BY <1>2 DEF AskAgain
  <2> QED
    BY <2>1, NotAsking DEF Idle, ClientInv, AtClient, Asking
<1> QED
  BY <1>1, <1>2

\* The calibration goes on at the client it is at.
LEMMA StaysAt ==
  ASSUME Typed, ClientInv, AgreedInv, SameHere, cali.at \in AtClient, NEW at, RfStep(at, cali.i)
  PROVE  ClientInv'
<1>1. cali' = [at |-> at, i |-> cali.i] /\ cali.i \in 1 .. Len(Seat) /\ Here(Seat[cali.i])
  BY DEF ClientInv, RfStep
<1> QED
  BY <1>1, Seats DEF ClientInv, SameHere, Here

LEMMA RfAgreed ==
  ASSUME Typed, ClientInv, AgreedInv, RfWork
  PROVE  ClientInv' /\ AgreedInv'
<1>a. SameHere
  BY RfBands DEF SameHere
<1>b. 1 \in 1 .. Len(Seat) + 1 /\ "finish" \notin AtClient /\ "calibrate" \notin AtClient
  BY Seats DEF AtClient
<1>1. CASE NothingToDo \/ Finish \/ Unmask
  <2>1. cali'.at \in {"reopen", "unmask", "unmask again", "idle"}
    <3>1. CASE NothingToDo
      BY <3>1 DEF NothingToDo, RfStep
    <3>2. CASE Finish
      BY <3>2 DEF Finish, RfStep
    <3>3. CASE Unmask
      <4>1. RfStep("unmask again", 0) \/ cali' = Idle
        BY <3>3 DEF Unmask
      <4>2. CASE RfStep("unmask again", 0)
        BY <4>2 DEF RfStep
      <4>3. CASE cali' = Idle
        BY <4>3 DEF Idle
      <4> QED
        BY <4>1, <4>2, <4>3
    <3> QED
      BY <1>1, <3>1, <3>2, <3>3
  <2>2. cali'.at \notin AtClient /\ cali'.at \notin Asking \cup {"calibrate"}
    BY <2>1 DEF AtClient, Asking
  <2> QED
    BY <2>2, NotAsking DEF ClientInv
<1>2. CASE Dispatch
  <2>1. CASE NextClient("stop", 1, "calibrate")
    BY <1>a, <1>b, <2>1, MovesOn, AgreedMove, Seats
  <2>2. CASE NextClient("trx", 1, "finish")
    <3>1. ClientInv' /\ cali'.at \in {"trx", "finish"}
      BY <1>a, <1>b, <2>2, MovesOn
    <3> QED
      BY <3>1, NotAsking DEF Asking
  <2>3. CASE RfStep("finish", 0)
    BY <2>3, NotAsking DEF RfStep, ClientInv, AtClient, Asking
  <2> QED
    BY <1>2, <2>1, <2>2, <2>3 DEF Dispatch
<1>3. CASE TrxRecali
  <2>1. cali.at \in AtClient /\ NextClient("trx", cali.i + 1, "finish")
    BY <1>3 DEF TrxRecali, AtClient
  <2>2. ClientInv' /\ cali'.at \in {"trx", "finish"}
    BY <1>a, <1>b, <2>1, ClientIs, MovesOn
  <2> QED
    BY <2>2, NotAsking DEF Asking
<1>4. CASE StopAsked
  <2>0. cali.at \in AtClient /\ cali.at \in Asking /\ cali.i \in 1 .. Len(Seat) /\ drv' = drv
    BY <1>4, ClientIs DEF StopAsked, AtClient, Asking
  <2>1. CASE drv[Client].calib /\ NextClient("stop", cali.i + 1, "calibrate")
    <3>1. \A j \in 1 .. Len(Seat) : j < cali.i + 1 /\ Here(Seat[j]) => drv'[Seat[j]].calib
      BY <2>0, <2>1, Seats DEF AgreedInv, Client
    <3> QED
      BY <1>a, <1>b, <2>0, <2>1, <3>1, ClientIs, MovesOn, AgreedMove
  <2>2. CASE AskAgain(FALSE)
    BY <1>a, <2>2, AskAgainMoves
  <2>3. CASE RfStep("scan", cali.i)
    <3>1. ClientInv'
      BY <1>a, <2>0, <2>3, StaysAt
    <3>2. AgreedInv'
      BY <2>0, <2>3 DEF AgreedInv, RfStep, Here, Asking
    <3> QED
      BY <3>1, <3>2
  <2> QED
    BY <1>4, <2>1, <2>2, <2>3 DEF StopAsked
<1>5. CASE StopWaits
  <2>0. cali.at \in AtClient /\ cali.at \in Asking /\ drv' = drv
    BY <1>5 DEF StopWaits, AtClient, Asking
  <2>1. CASE RfStep("quiet", cali.i)
    <3>1. ClientInv'
      BY <1>a, <2>0, <2>1, StaysAt
    <3>2. AgreedInv'
      BY <2>0, <2>1 DEF AgreedInv, RfStep, Here, Asking
    <3> QED
      BY <3>1, <3>2
  <2>2. CASE NextClient("start", 1, "finish")
    <3>1. ClientInv' /\ cali'.at \in {"start", "finish"}
      BY <1>a, <1>b, <2>2, MovesOn
    <3> QED
      BY <3>1, NotAsking DEF Asking
  <2>3. CASE UNCHANGED cali
    BY <2>0, <2>3 DEF AgreedInv, ClientInv, Here
  <2> QED
    BY <1>5, <2>1, <2>2, <2>3 DEF StopWaits
<1>6. CASE StopQueues
  <2>1. cali.at \in AtClient /\ cali.at \in Asking /\ drv' = drv /\ RfStep("send", cali.i)
    BY <1>6 DEF StopQueues, AtClient, Asking
  <2>2. ClientInv'
    BY <1>a, <2>1, StaysAt
  <2>3. AgreedInv'
    BY <2>1 DEF AgreedInv, RfStep, Here, Asking
  <2> QED
    BY <2>2, <2>3
<1>7. CASE StopSent
  <2>1. /\ cali.at \in AtClient /\ cali.at \in Asking
        /\ drv' = [drv EXCEPT ![Client].calib = TRUE]
        /\ NextClient("stop", cali.i + 1, "calibrate")
    BY <1>7 DEF StopSent, AtClient, Asking
  <2>2. Client \in Band /\ cali.i \in 1 .. Len(Seat) /\ cali.i + 1 \in 1 .. Len(Seat) + 1
    BY <2>1, ClientIs
  <2>3. drv'[Client].calib /\ \A b \in Band : drv[b].calib => drv'[b].calib
    BY <2>1, <2>2 DEF Typed, Drvs
  <2>4. \A j \in 1 .. Len(Seat) : j < cali.i + 1 /\ Here(Seat[j]) => drv'[Seat[j]].calib
    <3> SUFFICES ASSUME NEW j \in 1 .. Len(Seat), j < cali.i + 1, Here(Seat[j])
                 PROVE  drv'[Seat[j]].calib
      OBVIOUS
    <3>1. CASE j = cali.i
      BY <2>3, <3>1 DEF Client
    <3>2. CASE j # cali.i
      <4>1. j < cali.i
        BY <2>2, <3>2
      <4>2. drv[Seat[j]].calib
        BY <2>1, <4>1 DEF AgreedInv
      <4> QED
        BY <2>3, <4>2, Seats
    <3> QED
      BY <3>1, <3>2
  <2> QED
    BY <1>a, <1>b, <2>1, <2>2, <2>4, MovesOn, AgreedMove
<1>8. CASE StopRefused
  BY <1>8, <1>a, AskAgainMoves DEF StopRefused
<1>9. CASE Calibrate
  <2>1. ClientInv' /\ cali'.at \in {"start", "finish"}
    BY <1>9, <1>a, <1>b, MovesOn DEF Calibrate
  <2> QED
    BY <2>1, NotAsking DEF Asking
<1>10. CASE StartAsked
  <2>1. cali.at \in AtClient
    BY <1>10 DEF StartAsked, AtClient
  <2>2. CASE RfStep("go", cali.i)
    <3>1. ClientInv' /\ cali'.at = "go"
      BY <1>a, <2>1, <2>2, StaysAt DEF RfStep
    <3> QED
      BY <3>1, NotAsking DEF Asking
  <2>3. CASE NextClient("start", cali.i + 1, "finish")
    <3>1. ClientInv' /\ cali'.at \in {"start", "finish"}
      BY <1>a, <1>b, <2>1, <2>3, ClientIs, MovesOn
    <3> QED
      BY <3>1, NotAsking DEF Asking
  <2> QED
    BY <1>10, <2>2, <2>3 DEF StartAsked
<1>11. CASE StartQueues
  <2>1. cali.at \in AtClient /\ RfStep("resume", cali.i)
    BY <1>11 DEF StartQueues, AtClient
  <2>2. ClientInv' /\ cali'.at = "resume"
    BY <1>a, <2>1, StaysAt DEF RfStep
  <2> QED
    BY <2>2, NotAsking DEF Asking
<1>12. CASE Resume
  <2>1. cali.at \in AtClient /\ NextClient("start", cali.i + 1, "finish")
    BY <1>12 DEF Resume, AtClient
  <2>2. ClientInv' /\ cali'.at \in {"start", "finish"}
    BY <1>a, <1>b, <2>1, ClientIs, MovesOn
  <2> QED
    BY <2>2, NotAsking DEF Asking
<1> QED
  BY <1>1, <1>2, <1>3, <1>4, <1>5, <1>6, <1>7, <1>8, <1>9, <1>10, <1>11, <1>12 DEF RfWork

LEMMA BandAgreed ==
  ASSUME Typed, ClientInv, AgreedInv, NEW b \in Band, UNCHANGED rfVars, OneBand(b)
  PROVE  ClientInv' /\ AgreedInv'
<1>1. cali' = cali
  BY DEF rfVars
<1>2. \A c \in Band : Here(c)' => Here(c)
  BY DEF OneBand, Here
<1>3. CASE cali.at \in {"idle", "finish", "unmask"} \cup Unmasking
  BY <1>1, <1>3 DEF ClientInv, AgreedInv, AtClient, Asking, Unmasking
<1>4. CASE \A c \in Band : (Here(c)' <=> Here(c)) /\ drv'[c].calib = drv[c].calib
  <2>1. ClientInv'
    BY <1>1, <1>4, Seats DEF ClientInv
  <2>2. AgreedInv'
    BY <1>1, <1>4, Seats DEF AgreedInv
  <2> QED
    BY <2>1, <2>2
<1> QED
  BY <1>3, <1>4 DEF OneBand, Here

-----------------------------------------------------------------------------
(* The invariant of every schedule. *)

BaseInv == Typed /\ BandInv /\ ClientInv /\ AgreedInv

LEMMA InitBase == Init => BaseInv
<1> SUFFICES ASSUME Init PROVE BaseInv
  OBVIOUS
<1>1. Typed
  BY InitType, TypeParts
<1>2. BandInv
  BY DEF Init, BandInv, Here
<1>3. ClientInv /\ AgreedInv
  BY DEF Init, Idle, ClientInv, AgreedInv, AtClient, Asking
<1> QED
  BY <1>1, <1>2, <1>3 DEF BaseInv

LEMMA OutsideStep ==
  ASSUME Typed, \/ \E requests \in SUBSET Request \ {{}} : RfIrq(requests)
                \/ ForceCalibrate \/ UNCHANGED vars
  PROVE  Typed' /\ UNCHANGED <<cali, busy, again, drv, paused, queue, scan, restart, restarts,
                               beat, faults>>
<1>1. CASE \E requests \in SUBSET Request \ {{}} : RfIrq(requests)
  BY <1>1 DEF RfIrq, Mask, Stored, Typed
<1>2. CASE ForceCalibrate
  BY <1>2 DEF ForceCalibrate, Mask, Typed
<1>3. CASE UNCHANGED vars
  BY <1>3 DEF vars, rfVars, Typed
<1> QED
  BY <1>1, <1>2, <1>3

LEMMA BaseStep ==
  ASSUME BaseInv, [Next]_vars
  PROVE  BaseInv'
<1> USE DEF BaseInv
<1>1. CASE \/ \E requests \in SUBSET Request \ {{}} : RfIrq(requests)
           \/ ForceCalibrate \/ UNCHANGED vars
  <2>1. Typed' /\ UNCHANGED <<cali, drv, scan, restart, beat>>
    BY <1>1, OutsideStep
  <2> QED
    BY <2>1 DEF BandInv, ClientInv, AgreedInv, Here
<1>2. CASE RfWork
  <2>1. BandInv'
    BY <1>2, RfBands DEF BandInv, Here
  <2> QED
    BY <1>2, <2>1, RfType, RfAgreed
<1>3. ASSUME NEW b \in Band, BandStep(b)
      PROVE  BaseInv'
  <2>1. UNCHANGED rfVars /\ OneBand(b)
    BY <1>3, BandAlone
  <2>2. \A c \in Band : BandIs(drv[c], restart[c], beat[c], scan[c])'
    BY <2>1, BandInvIs DEF OneBand
  <2>3. BandInv'
    BY <2>2 DEF BandInv, BandIs, Clear, Here
  <2> QED
    BY <1>3, <2>1, <2>3, BandType, BandAgreed
<1> QED
  BY <1>1, <1>2, <1>3 DEF Next, BandStep

LEMMA BaseAlways == Spec => []BaseInv
BY InitBase, BaseStep, PTL DEF Spec

LEMMA MovesAt ==
  ASSUME NEW at, NEW i \in 1 .. Len(Seat) + 1, NEW after, NextClient(at, i, after)
  PROVE  cali'.at \in {at, after}
<1>1. \/ cali' = [at |-> after, i |-> 0]
      \/ \E j \in 1 .. Len(Seat) : cali' = [at |-> at, i |-> j]
  BY Moves
<1> QED
  BY <1>1

LEMMA AskAgainAt ==
  ASSUME NEW slow, AskAgain(slow)
  PROVE  \/ cali'.at \in {"start", "finish"} /\ UNCHANGED work
         \/ cali'.at = "idle" /\ work'
<1>1. 1 \in 1 .. Len(Seat) + 1
  BY Seats
<1> QED
  BY <1>1, MovesAt DEF AskAgain, Idle

-----------------------------------------------------------------------------
(* The bands that are marked are quiet, until a driver is restarted.            *)

Restarted == {"reset", "start", "interfaces"}

Quiet(b) == queue[b] # "go" /\ paused[b]

QuietInv ==
  /\ \A b \in Band : drv[b].calib /\ restarts = 0 => Quiet(b)
  /\ \A b \in Band : restart[b].at \in Restarted => restarts # 0
  /\ cali.at = "send" /\ restarts = 0 => queue[Client] # "go"
  /\ cali.at \in {"go", "resume"} => ~drv[Client].calib

\* What a step of the calibration leaves as it was, and where it may go.
LEMMA QuietOn ==
  ASSUME QuietInv, UNCHANGED <<drv, paused, queue, restart, restarts>>,
         cali'.at \notin {"send", "go", "resume"}
  PROVE  QuietInv'
BY DEF QuietInv, Quiet

LEMMA QuietRf ==
  ASSUME Typed, ClientInv, QuietInv, RfWork
  PROVE  QuietInv'
<1>a. 1 \in 1 .. Len(Seat) + 1 /\ (cali.at \in AtClient => cali.i + 1 \in 1 .. Len(Seat) + 1)
  BY Seats, ClientIs
<1>b. UNCHANGED <<restart, restarts>>
  BY RfBands
<1>c. drv \in Drvs /\ paused \in [Band -> BOOLEAN] /\ queue \in [Band -> {"none", "go", "stop"}]
  BY DEF Typed
<1>1. CASE NothingToDo \/ Dispatch \/ TrxRecali \/ StopAsked \/ StopWaits
  <2>1. UNCHANGED <<drv, paused, queue>> /\ cali.at \notin {"send", "go", "resume"}
    BY <1>1 DEF NothingToDo, Dispatch, TrxRecali, StopAsked, StopWaits
  <2>2. cali'.at \notin {"send", "go", "resume"}
    <3>1. CASE NothingToDo \/ StopWaits
      BY <1>a, <3>1, MovesAt DEF NothingToDo, StopWaits, RfStep
    <3>2. CASE Dispatch
      BY <1>a, <3>2, MovesAt DEF Dispatch, RfStep
    <3>3. CASE TrxRecali
      BY <1>a, <3>3, MovesAt DEF TrxRecali, AtClient
    <3>4. CASE StopAsked
      <4>1. \/ NextClient("stop", cali.i + 1, "calibrate") \/ AskAgain(FALSE)
            \/ RfStep("scan", cali.i)
        BY <3>4 DEF StopAsked
      <4>2. cali.at \in AtClient
        BY <3>4 DEF StopAsked, AtClient
      <4>3. CASE NextClient("stop", cali.i + 1, "calibrate")
        BY <1>a, <4>2, <4>3, MovesAt
      <4>4. CASE AskAgain(FALSE)
        BY <4>4, AskAgainAt
      <4>5. CASE RfStep("scan", cali.i)
        BY <4>5 DEF RfStep
      <4> QED
        BY <4>1, <4>3, <4>4, <4>5
    <3> QED
      BY <1>1, <3>1, <3>2, <3>3, <3>4
  <2> QED
    BY <1>b, <2>1, <2>2, QuietOn
<1>2. CASE Calibrate \/ Finish \/ Unmask
  <2>1. UNCHANGED <<drv, paused, queue>>
    BY <1>2 DEF Calibrate, Finish, Unmask
  <2>2. cali'.at \notin {"send", "go", "resume"}
    <3>1. CASE Calibrate
      BY <3>1, <1>a, MovesAt DEF Calibrate
    <3>2. CASE Finish
      BY <3>2 DEF Finish, RfStep
    <3>3. CASE Unmask
      <4>1. RfStep("unmask again", 0) \/ cali' = Idle
        BY <3>3 DEF Unmask
      <4>2. CASE RfStep("unmask again", 0)
        BY <4>2 DEF RfStep
      <4>3. CASE cali' = Idle
        BY <4>3 DEF Idle
      <4> QED
        BY <4>1, <4>2, <4>3
    <3> QED
      BY <1>2, <3>1, <3>2, <3>3
  <2> QED
    BY <1>b, <2>1, <2>2, QuietOn
<1>3. CASE StopQueues
  <2>1. /\ cali.at \in AtClient /\ cali' = [at |-> "send", i |-> cali.i]
        /\ queue' = [queue EXCEPT ![Client] = IF @ = "go" THEN "stop" ELSE @]
        /\ UNCHANGED <<drv, paused>>
    BY <1>3 DEF StopQueues, RfStep, AtClient
  <2>2. Client \in Band /\ Client' = Client /\ cali'.at = "send"
    BY <2>1, ClientIs DEF Client
  <2>3. queue'[Client] # "go" /\ \A b \in Band : queue'[b] = "go" => queue[b] = "go"
    BY <1>c, <2>1, <2>2
  <2> QED
    BY <1>b, <2>1, <2>2, <2>3 DEF QuietInv, Quiet
<1>4. CASE StopSent
  <2>1. /\ cali.at = "send" /\ cali.at \in AtClient /\ queue' = queue
        /\ paused' = [paused EXCEPT ![Client] = TRUE]
        /\ drv' = [drv EXCEPT ![Client].calib = TRUE]
        /\ NextClient("stop", cali.i + 1, "calibrate")
    BY <1>4 DEF StopSent, AtClient
  <2>2. Client \in Band /\ cali'.at \in {"stop", "calibrate"}
    BY <1>a, <2>1, ClientIs, MovesAt
  <2>3. paused'[Client] /\ \A b \in Band : b # Client => paused'[b] = paused[b] /\ drv'[b] = drv[b]
    BY <1>c, <2>1, <2>2 DEF Drvs
  <2>4. restarts = 0 => queue[Client] # "go"
    BY <2>1 DEF QuietInv
  <2>5. \A b \in Band : drv'[b].calib /\ restarts' = 0 => Quiet(b)'
    BY <1>b, <2>1, <2>3, <2>4 DEF QuietInv, Quiet
  <2> QED
    BY <1>b, <2>2, <2>5 DEF QuietInv
<1>5. CASE StopRefused
  <2>1. UNCHANGED <<drv, queue>> /\ cali.at = "send" /\ \E slow \in BOOLEAN : AskAgain(slow)
    BY <1>5 DEF StopRefused
  <2>2. \/ paused' = paused
        \/ \E slow \in BOOLEAN : paused' = [paused EXCEPT ![Client] = @ \/ slow]
    BY <1>5 DEF StopRefused
  <2>3. \A b \in Band : paused[b] => paused'[b]
    BY <1>c, <2>2
  <2>4. cali'.at \in {"idle", "start", "finish"}
    BY <2>1, AskAgainAt
  <2> QED
    BY <1>b, <2>1, <2>3, <2>4 DEF QuietInv, Quiet
<1>6. CASE StartAsked
  <2>1. /\ cali.at \in AtClient /\ UNCHANGED <<paused, queue>>
        /\ drv' = [drv EXCEPT ![Client].calib = FALSE]
        /\ RfStep("go", cali.i) \/ NextClient("start", cali.i + 1, "finish")
    BY <1>6 DEF StartAsked, AtClient
  <2>2. Client \in Band
    BY <2>1, ClientIs
  <2>3. ~drv'[Client].calib /\ \A b \in Band : drv'[b].calib => drv[b].calib
    BY <1>c, <2>1, <2>2 DEF Drvs
  <2>4. cali'.at # "send" /\ (cali'.at \in {"go", "resume"} => Client' = Client)
    <3>1. CASE RfStep("go", cali.i)
      BY <3>1 DEF RfStep, Client
    <3>2. CASE NextClient("start", cali.i + 1, "finish")
      BY <1>a, <2>1, <3>2, MovesAt
    <3> QED
      BY <2>1, <3>1, <3>2
  <2> QED
    BY <1>b, <2>1, <2>3, <2>4 DEF QuietInv, Quiet
<1>7. CASE StartQueues
  <2>1. /\ cali.at = "go" /\ cali.at \in AtClient /\ cali' = [at |-> "resume", i |-> cali.i]
        /\ queue' = [queue EXCEPT ![Client] = IF @ = "stop" THEN "go" ELSE @]
        /\ UNCHANGED <<drv, paused>>
    BY <1>7 DEF StartQueues, RfStep, AtClient
  <2>2. Client \in Band /\ Client' = Client /\ cali'.at = "resume"
    BY <2>1, ClientIs DEF Client
  <2>3. ~drv[Client].calib /\ \A b \in Band : b # Client => queue'[b] = queue[b]
    BY <1>c, <2>1 DEF QuietInv
  <2> QED
    BY <1>b, <2>1, <2>2, <2>3 DEF QuietInv, Quiet
<1>8. CASE Resume
  <2>1. /\ cali.at = "resume" /\ cali.at \in AtClient /\ UNCHANGED <<drv, queue>>
        /\ paused' = [paused EXCEPT ![Client] = FALSE] \/ paused' = paused
        /\ NextClient("start", cali.i + 1, "finish")
    BY <1>8 DEF Resume, AtClient
  <2>2. Client \in Band /\ cali'.at \in {"start", "finish"}
    BY <1>a, <2>1, ClientIs, MovesAt
  <2>3. ~drv[Client].calib /\ \A b \in Band : b # Client => paused'[b] = paused[b]
    BY <1>c, <2>1 DEF QuietInv
  <2> QED
    BY <1>b, <2>1, <2>2, <2>3 DEF QuietInv, Quiet
<1> QED
  BY <1>1, <1>2, <1>3, <1>4, <1>5, <1>6, <1>7, <1>8 DEF RfWork

\* What a step of band b may change of it.
QuietBand(b) ==
  /\ restarts = 0 \/ restarts' # 0
  /\ restart'[b].at \in Restarted => restarts' # 0
  /\ restarts' = 0 =>
       \A c \in Band : /\ queue'[c] = "go" => queue[c] = "go"
                       /\ paused[c] => paused'[c] \/ ~drv'[c].calib

LEMMA QuietStays ==
  ASSUME NEW b \in Band, UNCHANGED <<queue, paused, restarts>>,
         restart'[b].at \in Restarted => restarts # 0
  PROVE  QuietBand(b)
BY DEF QuietBand

LEMMA QuietBands ==
  ASSUME Typed, QuietInv, NEW b \in Band, BandStep(b)
  PROVE  QuietBand(b)
<1> USE DEF Typed
<1>0. restart[b].at \in Restarted => restarts # 0
  BY DEF QuietInv
<1>1. CASE ErrorInd(b)
  <2>1. UNCHANGED <<queue, paused, restarts>> /\ (Trigger(b) \/ restart' = restart)
    BY <1>1 DEF ErrorInd
  <2>2. restart'[b].at = restart[b].at
    BY <2>1, TriggerFields DEF TriggerIs
  <2> QED
    BY <1>0, <2>1, <2>2, QuietStays
<1>2. CASE RestartBegins(b)
  <2>1. /\ UNCHANGED <<paused, restarts>> /\ restart'[b].at = "platform"
        /\ queue' = [queue EXCEPT ![b] = "none"]
    BY <1>2 DEF RestartBegins, Restarts
  <2>2. \A c \in Band : queue'[c] = "go" => queue[c] = "go"
    BY <2>1
  <2> QED
    BY <2>1, <2>2 DEF QuietBand, Restarted
<1>3. CASE RestartPlatform(b)
  <2>1. restarts' # 0
    BY <1>3, RecoveryAssumption DEF RestartPlatform
  <2> QED
    BY <2>1 DEF QuietBand
<1>4. CASE RestartReset(b) \/ RestartStart(b) \/ RestartInterfaces(b)
  <2>1. restart[b].at \in Restarted /\ restarts' = restarts
    BY <1>4 DEF RestartReset, RestartStart, RestartInterfaces, Restarted
  <2> QED
    BY <1>0, <2>1 DEF QuietBand
<1>5. CASE RestartDone(b)
  <2>1. UNCHANGED <<queue, paused, restarts>> /\ restart'[b].at = "idle"
    BY <1>5 DEF RestartDone, RestartStep, Restarts
  <2> QED
    BY <2>1, QuietStays DEF Restarted
<1>6. CASE Removed(b)
  <2>1. /\ restart'[b] = [queued |-> FALSE, at |-> "idle"] /\ restarts' = restarts
        /\ drv'[b] = [started |-> FALSE, restarting |-> FALSE, calib |-> FALSE, life |-> "gone"]
        /\ paused' = [paused EXCEPT ![b] = FALSE] /\ queue' = [queue EXCEPT ![b] = "none"]
    BY <1>6 DEF Removed, Restarts, Drvs
  <2>2. \A c \in Band : queue'[c] = "go" => queue[c] = "go"
    BY <2>1
  <2>3. \A c \in Band : paused[c] => paused'[c] \/ ~drv'[c].calib
    BY <2>1
  <2>4. restart'[b].at \notin Restarted
    BY <2>1 DEF Restarted
  <2> QED
    BY <2>1, <2>2, <2>3, <2>4 DEF QuietBand
<1>7. CASE BeatWork(b)
  <2>1. UNCHANGED <<queue, paused, restarts>> /\ (Trigger(b) \/ restart' = restart)
    BY <1>7 DEF BeatWork, Beat, BeatGate, BeatAnswered, BeatMissed, BeatTriggers
  <2>2. restart'[b].at = restart[b].at
    BY <2>1, TriggerFields DEF TriggerIs
  <2> QED
    BY <1>0, <2>1, <2>2, QuietStays
<1>8. CASE ScanAsks(b) \/ ScanRecorded(b) \/ ScanEndsInd(b)
  <2>1. UNCHANGED <<queue, paused, restart, restarts>>
    BY <1>8 DEF ScanAsks, ScanRecorded, ScanEndsInd
  <2> QED
    BY <1>0, <2>1, QuietStays
<1> QED
  BY <1>1, <1>2, <1>3, <1>4, <1>5, <1>6, <1>7, <1>8 DEF BandStep, RestartWork

LEMMA QuietStep ==
  ASSUME BaseInv, QuietInv, [Next]_vars
  PROVE  QuietInv'
<1> USE DEF BaseInv
<1>1. CASE \/ \E requests \in SUBSET Request \ {{}} : RfIrq(requests)
           \/ ForceCalibrate \/ UNCHANGED vars
  <2>1. UNCHANGED <<cali, drv, paused, queue, restart, restarts>>
    BY <1>1, OutsideStep
  <2> QED
    BY <2>1 DEF QuietInv, Quiet, Client
<1>2. CASE RfWork
  BY <1>2, QuietRf
<1>3. ASSUME NEW b \in Band, BandStep(b)
      PROVE  QuietInv'
  <2>1. cali' = cali /\ OneBand(b) /\ QuietBand(b)
    BY <1>3, BandAlone, QuietBands DEF rfVars
  <2>2. \A c \in Band : drv'[c].calib => drv[c].calib
    BY <2>1 DEF OneBand
  <2>3. \A c \in Band : drv'[c].calib /\ restarts' = 0 => Quiet(c)'
    BY <2>1, <2>2 DEF QuietInv, QuietBand, Quiet
  <2>4. \A c \in Band : restart'[c].at \in Restarted => restarts' # 0
    BY <2>1, Zenon DEF QuietInv, QuietBand, OneBand
  <2>5. Client' = Client /\ (cali.at \in {"send", "go", "resume"} => Client \in Band)
    BY <2>1, ClientIs DEF Client, AtClient
  <2>6. cali'.at = "send" /\ restarts' = 0 => queue'[Client] # "go"
    BY <2>1, <2>5 DEF QuietInv, QuietBand
  <2>7. cali'.at \in {"go", "resume"} => ~drv'[Client].calib
    BY <2>1, <2>2, <2>5 DEF QuietInv
  <2> QED
    BY <2>3, <2>4, <2>5, <2>6, <2>7 DEF QuietInv
<1> QED
  BY <1>1, <1>2, <1>3 DEF Next, BandStep

(* While the RF calibrates, every band that is still there carries the mark of *)
(* having agreed (SIWIFI_DEV_CALIBRATING), whatever scans, refusals, restarts  *)
(* and removals come between the requests and however often the work was asked *)
(* again.  A restart may start a marked band, so only until the first one are  *)
(* its queues stopped and its manager paused as well (sf_wifi_rf_callback).    *)
THEOREM CalibratesAgreed == Spec => []RfCalibratesAgreed
<1>1. Init => QuietInv
  BY DEF Init, Idle, QuietInv, Restarted
<1>2. BaseInv /\ QuietInv /\ [Next]_vars => QuietInv'
  BY QuietStep
<1>3. BaseInv /\ QuietInv => RfCalibratesAgreed
  BY Seats DEF BaseInv, AgreedInv, QuietInv, Quiet, RfCalibratesAgreed, Here
<1> QED
  BY <1>1, <1>2, <1>3, BaseAlways, PTL DEF Spec

-----------------------------------------------------------------------------
(* The mask and the marks. *)

\* Where the calibration may go, and what of the mask each of its steps writes.
Agreed == {"stop", "scan", "quiet", "send", "calibrate", "start", "go", "resume"}

GoReopen ==
  /\ cali.at = "idle" /\ work /\ source = "none" /\ cali'.at = "reopen"
  /\ ~masked' /\ ~work' /\ UNCHANGED <<source, busy>>

GoCalibrate ==
  /\ cali.at = "idle" /\ work /\ source # "none" /\ ~work' /\ busy' /\ UNCHANGED <<masked, source>>
  /\ \/ source = "app" /\ cali'.at \in {"stop", "calibrate"}
     \/ cali'.at \in {"trx", "finish"}

GoOn ==
  /\ UNCHANGED <<masked, source, busy, work>>
  /\ \/ cali.at \in Agreed /\ cali'.at \in Agreed \cup {"finish"}
     \/ cali.at = "trx" /\ cali'.at \in {"trx", "finish"}

GoBack ==
  /\ cali.at \in Agreed /\ cali'.at = "idle" /\ work' /\ UNCHANGED <<masked, source, busy>>

GoEnd ==
  \/ cali.at = "finish" /\ cali'.at = "unmask" /\ source' = "none" /\ UNCHANGED <<masked, busy, work>>
  \/ cali.at = "unmask" /\ cali'.at = "unmask again" /\ ~masked' /\ UNCHANGED <<source, busy, work>>
  \/ /\ cali.at = "unmask again" /\ cali'.at = "idle" /\ ~masked' /\ ~busy'
     /\ UNCHANGED <<source, work>>
  \/ cali.at = "reopen" /\ cali'.at = "idle" /\ ~masked' /\ UNCHANGED <<source, busy, work>>

RfGoes == GoReopen \/ GoCalibrate \/ GoOn \/ GoBack \/ GoEnd

LEMMA RfGoesOn ==
  ASSUME Typed, ClientInv, RfWork
  PROVE  RfGoes
<1>a. 1 \in 1 .. Len(Seat) + 1 /\ (cali.at \in AtClient => cali.i + 1 \in 1 .. Len(Seat) + 1)
  BY Seats, ClientIs
<1>1. CASE NothingToDo
  BY <1>1 DEF NothingToDo, RfStep, RfGoes, GoReopen, GoCalibrate, GoOn, GoBack, GoEnd, Agreed
<1>2. CASE Dispatch
  <2>1. /\ cali.at = "idle" /\ work /\ source # "none" /\ ~work' /\ busy'
        /\ UNCHANGED <<masked, source>>
    BY <1>2 DEF Dispatch
  <2>2. CASE source = "app" /\ NextClient("stop", 1, "calibrate")
    <3>1. cali'.at \in {"stop", "calibrate"}
      BY <1>a, <2>2, MovesAt
    <3> QED
      BY <2>1, <2>2, <3>1 DEF RfGoes, GoReopen, GoCalibrate, GoOn, GoBack, GoEnd, Agreed
  <2>3. CASE NextClient("trx", 1, "finish")
    <3>1. cali'.at \in {"trx", "finish"}
      BY <1>a, <2>3, MovesAt
    <3> QED
      BY <2>1, <3>1 DEF RfGoes, GoReopen, GoCalibrate, GoOn, GoBack, GoEnd, Agreed
  <2>4. CASE RfStep("finish", 0)
    BY <2>1, <2>4 DEF RfStep, RfGoes, GoReopen, GoCalibrate, GoOn, GoBack, GoEnd, Agreed
  <2> QED
    BY <1>2, <2>2, <2>3, <2>4 DEF Dispatch
<1>3. CASE TrxRecali
  BY <1>3, <1>a, MovesAt DEF TrxRecali, AtClient, RfGoes, GoReopen, GoCalibrate, GoOn, GoBack, GoEnd, Agreed
<1>4. CASE StopAsked
  <2>1. cali.at = "stop" /\ cali.at \in AtClient /\ UNCHANGED <<masked, source, busy>>
    BY <1>4 DEF StopAsked, AtClient
  <2>2. \/ cali'.at \in {"stop", "calibrate", "scan"} /\ UNCHANGED work
        \/ \E slow \in BOOLEAN : AskAgain(slow)
    <3>1. CASE NextClient("stop", cali.i + 1, "calibrate") /\ UNCHANGED work
      BY <1>a, <2>1, <3>1, MovesAt
    <3>2. CASE RfStep("scan", cali.i) /\ UNCHANGED work
      BY <3>2 DEF RfStep
    <3> QED
      BY <1>4, <3>1, <3>2 DEF StopAsked
  <2> QED
    BY <2>1, <2>2, AskAgainAt DEF RfGoes, GoReopen, GoCalibrate, GoOn, GoBack, GoEnd, Agreed
<1>5. CASE StopWaits
  <2>1. cali.at = "scan" /\ UNCHANGED <<masked, source, busy, work>>
    BY <1>5 DEF StopWaits
  <2>2. cali'.at \in {"quiet", "start", "finish", "scan"}
    BY <1>5, <1>a, MovesAt DEF StopWaits, RfStep
  <2> QED
    BY <2>1, <2>2 DEF RfGoes, GoReopen, GoCalibrate, GoOn, GoBack, GoEnd, Agreed
<1>6. CASE StopQueues
  BY <1>6 DEF StopQueues, RfStep, RfGoes, GoReopen, GoCalibrate, GoOn, GoBack, GoEnd, Agreed
<1>7. CASE StopSent
  <2>1. cali.at = "send" /\ cali.at \in AtClient /\ UNCHANGED <<masked, source, busy, work>>
    BY <1>7 DEF StopSent, AtClient
  <2>2. cali'.at \in {"stop", "calibrate"}
    BY <1>7, <1>a, <2>1, MovesAt DEF StopSent
  <2> QED
    BY <2>1, <2>2 DEF RfGoes, GoReopen, GoCalibrate, GoOn, GoBack, GoEnd, Agreed
<1>8. CASE StopRefused
  <2>1. cali.at = "send" /\ UNCHANGED <<masked, source, busy>>
    BY <1>8 DEF StopRefused
  <2>2. \E slow \in BOOLEAN : AskAgain(slow)
    BY <1>8 DEF StopRefused
  <2> QED
    BY <2>1, <2>2, AskAgainAt DEF RfGoes, GoReopen, GoCalibrate, GoOn, GoBack, GoEnd, Agreed
<1>9. CASE Calibrate
  BY <1>9, <1>a, MovesAt DEF Calibrate, RfGoes, GoReopen, GoCalibrate, GoOn, GoBack, GoEnd, Agreed
<1>10. CASE StartAsked
  <2>1. cali.at = "start" /\ cali.at \in AtClient /\ UNCHANGED <<masked, source, busy, work>>
    BY <1>10 DEF StartAsked, AtClient
  <2>2. cali'.at \in {"go", "start", "finish"}
    BY <1>10, <1>a, <2>1, MovesAt DEF StartAsked, RfStep
  <2> QED
    BY <2>1, <2>2 DEF RfGoes, GoReopen, GoCalibrate, GoOn, GoBack, GoEnd, Agreed
<1>11. CASE StartQueues
  BY <1>11 DEF StartQueues, RfStep, RfGoes, GoReopen, GoCalibrate, GoOn, GoBack, GoEnd, Agreed
<1>12. CASE Resume
  <2>1. cali.at = "resume" /\ cali.at \in AtClient /\ UNCHANGED <<masked, source, busy, work>>
    BY <1>12 DEF Resume, AtClient
  <2>2. cali'.at \in {"start", "finish"}
    BY <1>12, <1>a, <2>1, MovesAt DEF Resume
  <2> QED
    BY <2>1, <2>2 DEF RfGoes, GoReopen, GoCalibrate, GoOn, GoBack, GoEnd, Agreed
<1>13. CASE Finish
  BY <1>13 DEF Finish, RfStep, RfGoes, GoReopen, GoCalibrate, GoOn, GoBack, GoEnd, Agreed
<1>14. CASE Unmask
  <2>1. CASE cali.at = "unmask" /\ RfStep("unmask again", 0) /\ UNCHANGED busy
    BY <1>14, <2>1 DEF Unmask, RfStep, RfGoes, GoReopen, GoCalibrate, GoOn, GoBack, GoEnd, Agreed
  <2>2. CASE cali.at = "unmask again" /\ cali' = Idle /\ busy' = FALSE
    BY <1>14, <2>2 DEF Unmask, Idle, RfGoes, GoReopen, GoCalibrate, GoOn, GoBack, GoEnd, Agreed
  <2>3. CASE cali.at = "reopen" /\ cali' = Idle /\ UNCHANGED busy
    BY <1>14, <2>3 DEF Unmask, Idle, RfGoes, GoReopen, GoCalibrate, GoOn, GoBack, GoEnd, Agreed
  <2> QED
    BY <1>14, <2>1, <2>2, <2>3 DEF Unmask
<1> QED
  BY <1>1, <1>2, <1>3, <1>4, <1>5, <1>6, <1>7, <1>8, <1>9, <1>10, <1>11, <1>12, <1>13, <1>14
     DEF RfWork

LEMMA MaskStep ==
  ASSUME QuickUnmask, BaseInv, MaskInv, [Next]_vars
  PROVE  MaskInv'
<1>1. CASE RfWork
  <2>1. RfGoes
    BY <1>1, RfGoesOn DEF BaseInv
  <2> QED
    <3>1. CASE GoReopen
      BY <3>1 DEF GoReopen, MaskInv, Unmasking
    <3>2. CASE GoCalibrate
      BY <3>2 DEF GoCalibrate, MaskInv, Unmasking
    <3>3. CASE GoOn
      BY <3>3 DEF GoOn, Agreed, MaskInv, Unmasking
    <3>4. CASE GoBack
      BY <3>4 DEF GoBack, Agreed, MaskInv, Unmasking
    <3>5. CASE GoEnd
      <4>1. CASE /\ cali.at = "finish" /\ cali'.at = "unmask" /\ source' = "none"
                 /\ UNCHANGED <<masked, busy, work>>
        BY <4>1 DEF MaskInv, Unmasking
      <4>2. CASE /\ cali.at = "unmask" /\ cali'.at = "unmask again" /\ ~masked'
                 /\ UNCHANGED <<source, busy, work>>
        BY <4>2 DEF MaskInv, Unmasking
      <4>3. CASE /\ cali.at = "unmask again" /\ cali'.at = "idle" /\ ~masked' /\ ~busy'
                 /\ UNCHANGED <<source, work>>
        BY <4>3 DEF MaskInv, Unmasking
      <4>4. CASE /\ cali.at = "reopen" /\ cali'.at = "idle" /\ ~masked'
                 /\ UNCHANGED <<source, busy, work>>
        BY <4>4 DEF MaskInv, Unmasking
      <4> QED
        BY <3>5, <4>1, <4>2, <4>3, <4>4 DEF GoEnd
    <3> QED
      BY <2>1, <3>1, <3>2, <3>3, <3>4, <3>5 DEF RfGoes
<1>2. ASSUME NEW b \in Band, BandStep(b)
      PROVE  MaskInv'
  <2>1. UNCHANGED rfVars
    BY <1>2, BandAlone DEF BaseInv
  <2> QED
    BY <2>1 DEF rfVars, MaskInv
<1>3. CASE (\E requests \in SUBSET Request \ {{}} : RfIrq(requests)) \/ ForceCalibrate
  <2>1. masked' /\ work' /\ UNCHANGED <<cali, busy>> /\ cali.at \notin Unmasking
    BY <1>3 DEF RfIrq, ForceCalibrate, Mask
  <2>2. (~masked) \/ ((~busy) /\ source' # "none")
    BY <1>3 DEF RfIrq, ForceCalibrate, Mask
  <2>3. cali.at = "idle" /\ ~busy
    BY <2>1, <2>2 DEF MaskInv, Unmasking
  <2> QED
    BY <2>1, <2>3 DEF MaskInv, Unmasking
<1>4. CASE UNCHANGED vars
  BY <1>4 DEF vars, rfVars, MaskInv
<1> QED
  BY <1>1, <1>2, <1>3, <1>4 DEF Next, BandStep

-----------------------------------------------------------------------------
(* The marks. *)

Asks == {"stop", "scan", "quiet", "send", "calibrate"}

LEMMA MarkStart ==
  ASSUME NEW i \in 1 .. Len(Seat) + 1, NextClient("start", i, "finish"),
         busy', source' = "app", SameHere,
         \A b \in Band : drv'[b].calib =>
           Here(b) /\ \E j \in 1 .. Len(Seat) : j >= i /\ Seat[j] = b
  PROVE  MarkInv'
<1>1. ASSUME cali' = [at |-> "finish", i |-> 0],
             \A k \in 1 .. Len(Seat) : k >= i => ~Here(Seat[k])
      PROVE  MarkInv'
  <2>1. \A b \in Band : ~drv'[b].calib
    BY <1>1
  <2> QED
    BY <2>1 DEF MarkInv
<1>2. ASSUME NEW j \in 1 .. Len(Seat), cali' = [at |-> "start", i |-> j], j >= i,
             \A k \in 1 .. Len(Seat) : i <= k /\ k < j => ~Here(Seat[k])
      PROVE  MarkInv'
  <2>1. ASSUME NEW b \in Band, drv'[b].calib
        PROVE  Here(b)' /\ \E k \in 1 .. Len(Seat) : k >= j /\ Seat[k] = b
    <3>1. PICK k \in 1 .. Len(Seat) : k >= i /\ Seat[k] = b
      BY <2>1
    <3>2. k >= j
      BY <1>2, <2>1, <3>1, Seats
    <3> QED
      BY <2>1, <3>1, <3>2 DEF SameHere, Here
  <2> QED
    BY <1>2, <2>1 DEF MarkInv
<1> QED
  BY <1>1, <1>2, Moves

\* From the requests to stop, and back to them.
LEMMA MarkAsking ==
  ASSUME cali'.at \in Asks \cup {"idle"}, busy', source' = "app", SameHere,
         \A b \in Band : drv'[b].calib => Here(b)
  PROVE  MarkInv'
BY DEF MarkInv, Asks, SameHere, Here

LEMMA MarkAskAgain ==
  ASSUME NEW slow, AskAgain(slow), busy', source' = "app", SameHere,
         \A b \in Band : drv'[b].calib => Here(b)
  PROVE  MarkInv'
<1>1. CASE GiveUp
  <2>1. 1 \in 1 .. Len(Seat) + 1 /\ \A j \in 1 .. Len(Seat) : j >= 1
    BY Seats
  <2>2. NextClient("start", 1, "finish")
    BY <1>1 DEF AskAgain
  <2>3. \A b \in Band : drv'[b].calib =>
          Here(b) /\ \E j \in 1 .. Len(Seat) : j >= 1 /\ Seat[j] = b
    BY <2>1, Seats
  <2> QED
    BY <2>1, <2>2, <2>3, MarkStart
<1>2. CASE ~GiveUp
  <2>1. cali'.at = "idle"
    BY <1>2 DEF AskAgain, Idle
  <2> QED
    BY <2>1, MarkAsking
<1> QED
  BY <1>1, <1>2

LEMMA MarkRf ==
  ASSUME BaseInv, MaskInv, MarkInv, RfWork
  PROVE  MarkInv'
<1> USE DEF BaseInv
<1>a. SameHere /\ \A b \in Band : Here(b)' <=> Here(b)
  BY RfBands DEF SameHere, Here
<1>b. 1 \in 1 .. Len(Seat) + 1 /\ (cali.at \in AtClient => cali.i + 1 \in 1 .. Len(Seat) + 1)
      /\ \A j \in 1 .. Len(Seat) : j >= 1
  BY Seats, ClientIs
<1>c. \A b \in Band : drv[b].calib => Here(b) /\ source = "app" /\ busy
  BY DEF MarkInv
<1>1. CASE NothingToDo \/ Finish \/ Unmask \/ TrxRecali
  <2>1. drv' = drv /\ \A b \in Band : ~drv[b].calib
    BY <1>1 DEF NothingToDo, Finish, Unmask, TrxRecali, MarkInv
  <2> QED
    BY <2>1 DEF MarkInv
<1>2. CASE Dispatch
  <2>1. drv' = drv /\ source' = source /\ busy'
    BY <1>2 DEF Dispatch
  <2>2. CASE source = "app"
    <3>1. NextClient("stop", 1, "calibrate")
      BY <1>2, <2>2 DEF Dispatch
    <3>2. cali'.at \in Asks
      BY <1>b, <3>1, MovesAt DEF Asks
    <3> QED
      BY <1>a, <1>c, <2>1, <2>2, <3>2, MarkAsking
  <2>3. CASE source # "app"
    BY <1>c, <2>1, <2>3 DEF MarkInv
  <2> QED
    BY <2>2, <2>3
<1>3. CASE StopAsked
  <2>1. /\ cali.at = "stop" /\ cali.at \in AtClient /\ drv' = drv
        /\ UNCHANGED <<source, busy>> /\ source = "app" /\ busy
    BY <1>3 DEF StopAsked, AtClient, MaskInv
  <2>2. CASE NextClient("stop", cali.i + 1, "calibrate")
    <3>1. cali'.at \in Asks
      BY <1>b, <2>1, <2>2, MovesAt DEF Asks
    <3> QED
      BY <1>a, <1>c, <2>1, <3>1, MarkAsking
  <2>3. CASE RfStep("scan", cali.i)
    <3>1. cali'.at \in Asks
      BY <2>3 DEF Asks, RfStep
    <3> QED
      BY <1>a, <1>c, <2>1, <3>1, MarkAsking
  <2>4. CASE AskAgain(FALSE)
    BY <1>a, <1>c, <2>1, <2>4, MarkAskAgain
  <2> QED
    BY <1>3, <2>2, <2>3, <2>4 DEF StopAsked
<1>4. CASE StopWaits
  <2>1. cali.at = "scan" /\ drv' = drv /\ UNCHANGED <<source, busy>> /\ source = "app" /\ busy
    BY <1>4 DEF StopWaits, MaskInv
  <2>2. CASE NextClient("start", 1, "finish")
    <3>1. \A b \in Band : drv'[b].calib =>
            Here(b) /\ \E j \in 1 .. Len(Seat) : j >= 1 /\ Seat[j] = b
      BY <1>b, <1>c, <2>1, Seats
    <3> QED
      BY <1>a, <1>b, <2>1, <2>2, <3>1, MarkStart
  <2>3. CASE RfStep("quiet", cali.i) \/ UNCHANGED cali
    <3>1. cali'.at \in Asks
      BY <2>1, <2>3 DEF Asks, RfStep
    <3> QED
      BY <1>a, <1>c, <2>1, <3>1, MarkAsking
  <2> QED
    BY <1>4, <2>2, <2>3 DEF StopWaits
<1>5. CASE StopQueues
  <2>1. cali.at = "quiet" /\ drv' = drv /\ UNCHANGED <<source, busy>> /\ source = "app" /\ busy
    BY <1>5 DEF StopQueues, MaskInv
  <2>2. cali'.at \in Asks
    BY <1>5 DEF StopQueues, Asks, RfStep
  <2> QED
    BY <1>a, <1>c, <2>1, <2>2, MarkAsking
<1>6. CASE StopSent
  <2>1. /\ cali.at = "send" /\ cali.at \in AtClient
        /\ UNCHANGED <<source, busy>> /\ source = "app" /\ busy
        /\ drv' = [drv EXCEPT ![Client].calib = TRUE]
        /\ NextClient("stop", cali.i + 1, "calibrate")
    BY <1>6 DEF StopSent, AtClient, MaskInv
  <2>2. Client \in Band /\ Here(Client)
    BY <2>1, ClientIs
  <2>3. \A b \in Band : drv'[b].calib => Here(b)
    BY <1>c, <2>1, <2>2 DEF Typed, Drvs
  <2>4. cali'.at \in Asks
    BY <1>b, <2>1, MovesAt DEF Asks
  <2> QED
    BY <1>a, <2>1, <2>3, <2>4, MarkAsking
<1>7. CASE StopRefused
  <2>1. cali.at = "send" /\ drv' = drv /\ UNCHANGED <<source, busy>> /\ source = "app" /\ busy
    BY <1>7 DEF StopRefused, MaskInv
  <2>2. \E slow \in BOOLEAN : AskAgain(slow)
    BY <1>7 DEF StopRefused
  <2> QED
    BY <1>a, <1>c, <2>1, <2>2, MarkAskAgain
<1>8. CASE Calibrate
  <2>1. /\ cali.at = "calibrate" /\ drv' = drv /\ UNCHANGED <<source, busy>>
        /\ source = "app" /\ busy /\ NextClient("start", 1, "finish")
    BY <1>8 DEF Calibrate, MaskInv
  <2>2. \A b \in Band : drv'[b].calib =>
          Here(b) /\ \E j \in 1 .. Len(Seat) : j >= 1 /\ Seat[j] = b
    BY <1>b, <1>c, <2>1, Seats
  <2> QED
    BY <1>a, <1>b, <2>1, <2>2, MarkStart
<1>9. CASE StartAsked
  <2>1. /\ cali.at = "start" /\ cali.at \in AtClient
        /\ UNCHANGED <<source, busy>> /\ source = "app" /\ busy
        /\ drv' = [drv EXCEPT ![Client].calib = FALSE]
    BY <1>9 DEF StartAsked, AtClient, MaskInv
  <2>2. Client \in Band /\ Client = Seat[cali.i] /\ cali.i \in 1 .. Len(Seat)
    BY <2>1, ClientIs DEF Client
  <2>3. \A b \in Band : drv'[b].calib => drv[b].calib /\ b # Client
    BY <2>1, <2>2 DEF Typed, Drvs
  <2>4. ASSUME NEW b \in Band, drv'[b].calib
        PROVE  /\ Here(b)
               /\ \E j \in 1 .. Len(Seat) : j >= cali.i + 1 /\ j > cali.i /\ Seat[j] = b
    <3>1. drv[b].calib /\ b # Client
      BY <2>3, <2>4
    <3>2. PICK j \in 1 .. Len(Seat) : j >= cali.i /\ Seat[j] = b
      BY <2>1, <3>1 DEF MarkInv
    <3>3. j # cali.i
      BY <2>2, <3>1, <3>2
    <3>4. j >= cali.i + 1 /\ j > cali.i
      BY <2>2, <3>2, <3>3, Seats
    <3> QED
      BY <1>c, <3>1, <3>2, <3>4
  <2>5. CASE RfStep("go", cali.i)
    <3>1. cali'.at = "go" /\ cali'.i = cali.i
      BY <2>5 DEF RfStep
    <3> QED
      BY <1>a, <2>1, <2>4, <3>1 DEF MarkInv
  <2>6. CASE NextClient("start", cali.i + 1, "finish")
    <3>1. \A b \in Band : drv'[b].calib =>
            Here(b) /\ \E j \in 1 .. Len(Seat) : j >= cali.i + 1 /\ Seat[j] = b
      BY <2>4
    <3> QED
      BY <1>a, <1>b, <2>1, <2>6, <3>1, MarkStart
  <2> QED
    BY <1>9, <2>5, <2>6 DEF StartAsked
<1>10. CASE StartQueues
  <2>1. /\ cali.at = "go" /\ drv' = drv /\ UNCHANGED <<source, busy>>
        /\ cali'.at = "resume" /\ cali'.i = cali.i
    BY <1>10 DEF StartQueues, RfStep
  <2> QED
    BY <1>a, <2>1 DEF MarkInv
<1>11. CASE Resume
  <2>1. /\ cali.at = "resume" /\ cali.at \in AtClient /\ drv' = drv
        /\ UNCHANGED <<source, busy>> /\ source = "app" /\ busy
        /\ NextClient("start", cali.i + 1, "finish")
    BY <1>11 DEF Resume, AtClient, MaskInv
  <2>2. ASSUME NEW b \in Band, drv'[b].calib
        PROVE  Here(b) /\ \E j \in 1 .. Len(Seat) : j >= cali.i + 1 /\ Seat[j] = b
    <3>1. PICK j \in 1 .. Len(Seat) : j > cali.i /\ Seat[j] = b
      BY <2>1, <2>2 DEF MarkInv
    <3>2. j >= cali.i + 1
      BY <2>1, <3>1, ClientIs, Seats
    <3> QED
      BY <1>c, <2>1, <2>2, <3>1, <3>2
  <2> QED
    BY <1>a, <1>b, <2>1, <2>2, MarkStart
<1> QED
  BY <1>1, <1>2, <1>3, <1>4, <1>5, <1>6, <1>7, <1>8, <1>9, <1>10, <1>11 DEF RfWork

LEMMA MarkStep ==
  ASSUME QuickUnmask, BaseInv, MaskInv, MarkInv, [Next]_vars
  PROVE  MarkInv'
<1>1. CASE RfWork
  BY <1>1, MarkRf
<1>2. ASSUME NEW b \in Band, BandStep(b)
      PROVE  MarkInv'
  <2>1. UNCHANGED rfVars /\ OneBand(b)
    BY <1>2, BandAlone DEF BaseInv
  <2>2. \A c \in Band : drv'[c].calib => drv[c].calib /\ (Here(c) => Here(c)')
    BY <2>1 DEF OneBand, Here
  <2> QED
    BY <2>1, <2>2 DEF rfVars, MarkInv
<1>3. CASE (\E requests \in SUBSET Request \ {{}} : RfIrq(requests)) \/ ForceCalibrate
  <2>1. drv' = drv /\ cali.at \notin Unmasking /\ (~masked \/ ~busy)
    BY <1>3 DEF RfIrq, ForceCalibrate
  <2>2. ~busy
    BY <2>1 DEF MaskInv, Unmasking
  <2> QED
    BY <2>1, <2>2 DEF MarkInv
<1>4. CASE UNCHANGED vars
  BY <1>4 DEF vars, rfVars, MarkInv, Here
<1> QED
  BY <1>1, <1>2, <1>3, <1>4 DEF Next, BandStep

(* When nothing comes between the two writes that unmask the RF, every flag   *)
(* that holds somebody back has somebody who will take it: the mask of the RF *)
(* and a calibration the work, a band's mark the calibration, a restart its   *)
(* work or the end of the device, a recorded scan the gate.                   *)
THEOREM FlagsAlwaysHaveWork ==
  ASSUME QuickUnmask
  PROVE  Spec => []FlagsHaveWork
<1>1. Init => MaskInv /\ MarkInv
  BY DEF Init, Idle, MaskInv, MarkInv, Unmasking
<1>2. BaseInv /\ MaskInv /\ MarkInv /\ [Next]_vars => (MaskInv /\ MarkInv)'
  BY MaskStep, MarkStep
<1>3. BaseInv /\ MaskInv /\ MarkInv => FlagsHaveWork
  <2> SUFFICES ASSUME BaseInv, MaskInv, MarkInv PROVE FlagsHaveWork
    OBVIOUS
  <2>1. TypeOK
    BY TypeParts DEF BaseInv
  <2>2. masked \/ busy => work \/ cali.at # "idle"
    BY DEF MaskInv
  <2> QED
    BY <2>1, <2>2 DEF BaseInv, BandInv, MarkInv, FlagsHaveWork
<1> QED
  BY <1>1, <1>2, <1>3, BaseAlways, PTL DEF Spec
=============================================================================
