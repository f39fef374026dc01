--------------------------- MODULE ServiceProofs ---------------------------
(***************************************************************************)
(* Proofs about three services of the main process.                        *)
(*                                                                         *)
(* Connectivity: the two scheduling invariants of ConnectivityService, for *)
(* any number of outages.  Neither is inductive without the other's facts  *)
(* about the timer and the probe, and both lean on the types.              *)
(*                                                                         *)
(* DeviceHeartbeat: what the backend asked for is held by the gap and by   *)
(* Retry-After, which only time runs down.                                 *)
(*                                                                         *)
(* SessionAccess: access moves forward only.  An answer that is written    *)
(* belongs to the owner that asked, and one that widens access is later    *)
(* than every numbered one the session accepted; the history variable      *)
(* `newest` is tied to the stored number by the invariant.                 *)
(***************************************************************************)
EXTENDS Connectivity, DeviceHeartbeat, SessionAccess, TLAPS

-----------------------------------------------------------------------------
-----------------------------------------------------------------------------
(* Connectivity.                                                           *)

(* Types, a till that keeps trying, and one that is silent when online.    *)
ConnectionInv == TypeOK /\ KeepsTrying /\ SilentWhenOnline

-----------------------------------------------------------------------------
(* Lemmas: what a check and a probe leave behind.                          *)

(* A forced or unforced check preserves the invariant: a probe that starts *)
(* clears the timer, and without a network it arms the next one.           *)
LEMMA CheckKeeps ==
  ASSUME ConnectionInv, NEW force \in BOOLEAN, RequestCheck(force), started' \in BOOLEAN,
         started' => started \/ force, stopped' = stopped, UNCHANGED world
  PROVE  ConnectionInv'
<1> USE DEF ConnectionInv, TypeOK, Status, KeepsTrying, SilentWhenOnline, service, world
<1>1. CASE probe # "none" /\ UNCHANGED service
  BY <1>1
<1>2. CASE probe = "none" /\ recent /\ ~force /\ UNCHANGED service
  BY <1>2
<1>3. CASE probe = "none" /\ (force \/ ~recent) /\ recent' = TRUE /\ RunProbe
  <2>1. CASE ~net /\ status' = "offline" /\ fresh' = TRUE /\ timer' = started'
             /\ UNCHANGED probe
    BY <1>3, <2>1
  <2>2. CASE /\ net /\ probe' = "asking" /\ timer' = FALSE
             /\ status' = IF status = "offline" THEN "checking" ELSE status
             /\ UNCHANGED fresh
    BY <1>3, <2>2
  <2> QED
    BY <1>3, <2>1, <2>2 DEF RunProbe
<1> QED
  BY <1>1, <1>2, <1>3 DEF RequestCheck

LEMMA ConnectionInitHolds == Init => ConnectionInv
<1> SUFFICES ASSUME Init PROVE ConnectionInv
  OBVIOUS
<1>1. outages \in 0 .. MaxOutages
  BY OutageAssumption DEF Init
<1>2. TypeOK
  BY <1>1, Zenon DEF Init, TypeOK, Status
<1>3. KeepsTrying /\ SilentWhenOnline
  BY Zenon DEF Init, KeepsTrying, SilentWhenOnline
<1> QED
  BY <1>2, <1>3 DEF ConnectionInv

(* One step, one case per action.                                          *)
LEMMA ConnectionStepKeeps == ConnectionInv /\ [Next]_vars => ConnectionInv'
<1> SUFFICES ASSUME ConnectionInv, [Next]_vars PROVE ConnectionInv'
  OBVIOUS
<1>1. CASE Start
  BY <1>1, CheckKeeps DEF Start, world
<1>2. CASE CheckNow
  BY <1>2, CheckKeeps DEF CheckNow, phase, world, ConnectionInv, TypeOK
<1>3. CASE EnsureFresh
  BY <1>3, CheckKeeps DEF EnsureFresh, phase, world, ConnectionInv, TypeOK
<1>4. CASE Resume
  BY <1>4, CheckKeeps DEF Resume, phase, world, ConnectionInv, TypeOK
<1>5. CASE ObserveServerError
  BY <1>5, CheckKeeps DEF ObserveServerError, phase, world, ConnectionInv, TypeOK
<1>6. CASE TimerFires
  <2>1. RequestCheck(TRUE)
    BY <1>6 DEF TimerFires, RequestCheck
  <2> QED
    BY <1>6, <2>1, CheckKeeps DEF TimerFires, phase, world, ConnectionInv, TypeOK
<1> USE DEF ConnectionInv, TypeOK, Status, KeepsTrying, SilentWhenOnline
<1>7. CASE ProbeSucceeds
  BY <1>7 DEF ProbeSucceeds, phase, world
<1>8. CASE ProbeLost
  BY <1>8 DEF ProbeLost, phase, world
<1>9. CASE ProbeFails
  BY <1>9 DEF ProbeFails, phase, world
<1>10. CASE ObserveAnswer
  BY <1>10 DEF ObserveAnswer, phase, world
<1>11. CASE Shutdown
  BY <1>11 DEF Shutdown, world
<1>12. CASE GapPasses
  BY <1>12 DEF GapPasses, phase, world
<1>13. CASE GrowsStale
  BY <1>13 DEF GrowsStale, phase, world
<1>14. CASE Outage
  <2>1. outages' \in 0 .. MaxOutages
    BY <1>14, OutageAssumption DEF Outage
  <2>2. net' \in BOOLEAN /\ backend' \in BOOLEAN
    BY <1>14 DEF Outage
  <2> QED
    BY <1>14, <2>1, <2>2 DEF Outage, service, phase
<1>15. CASE NetworkReturns
  BY <1>15 DEF NetworkReturns, service, phase
<1>16. CASE BackendReturns
  BY <1>16 DEF BackendReturns, service, phase
<1>17. CASE UNCHANGED vars
  BY <1>17 DEF vars, service, phase, world
<1> QED
  BY <1>1, <1>2, <1>3, <1>4, <1>5, <1>6, <1>7, <1>8, <1>9, <1>10, <1>11, <1>12,
     <1>13, <1>14, <1>15, <1>16, <1>17 DEF Next

-----------------------------------------------------------------------------
(* The invariant of every reachable state.                                 *)
THEOREM ConnectivityInvariant == Spec => []ConnectionInv
BY ConnectionInitHolds, ConnectionStepKeeps, PTL DEF Spec

(* Every variable stays in its type, whatever the outages.                 *)
THEOREM ConnectivityTypes == Spec => []TypeOK
BY ConnectivityInvariant, PTL DEF ConnectionInv

(* A started till that is not online has a probe under way or a timer      *)
(* armed: requestCheck's coalescing and throttling never lose one.         *)
THEOREM NeverGivesUp == Spec => []KeepsTrying
BY ConnectivityInvariant, PTL DEF ConnectionInv

(* Once online no retry is left armed, by a probe or by a real answer.     *)
THEOREM OnlineIsSilent == Spec => []SilentWhenOnline
BY ConnectivityInvariant, PTL DEF ConnectionInv

-----------------------------------------------------------------------------
-----------------------------------------------------------------------------
(* The heartbeat.                                                          *)

(* What is promised is held by the gap and by Retry-After, which only time *)
(* runs down; while a beat is on the wire Retry-After has passed, and no   *)
(* timer is set.                                                           *)
PromiseHeld ==
  /\ quiet <= Later(hb.gap, hb.retry)
  /\ hb.flight # "none" => hb.retry = 0 /\ ~hb.timer

BeatInv == BeatTypeOK /\ PromiseHeld

(* What becomes of the service in a turn that neither sends nor is told to *)
(* wait: the gap and Retry-After stay.                                     *)
Kept(h, k) ==
  /\ k \in Beat /\ k.gap = h.gap /\ k.retry = h.retry
  /\ k.flight # "none" => h.flight # "none" /\ ~k.timer

Session == [on : BOOLEAN, token : BOOLEAN, epoch : Nat]

LEMMA Levels == Len(Windows) \in Nat \ {0} /\ 0 \in 0 .. Len(Windows)
<1>1. Len(Windows) \in Nat /\ Windows # <<>> /\ Windows \in Seq(Nat)
  BY HeartbeatAssumption
<1>2. Len(Windows) # 0
  BY <1>1
<1> QED
  BY <1>1, <1>2

LEMMA FloorIsNat == ASSUME NEW h \in Beat PROVE NotBefore(h) \in Nat
BY DEF NotBefore, Later, Beat

LEMMA ResetKeeps ==
  ASSUME NEW h \in Beat
  PROVE  /\ Reset(h) \in Beat /\ Reset(h).gap = h.gap /\ Reset(h).retry = h.retry
         /\ Reset(h).flight = h.flight /\ Reset(h).timer = h.timer
BY Levels DEF Reset, Beat

LEMMA GenerationKeeps ==
  ASSUME NEW h \in Beat
  PROVE  /\ NewGeneration(h) \in Beat /\ NewGeneration(h).gap = h.gap
         /\ NewGeneration(h).retry = h.retry /\ NewGeneration(h).timer = h.timer
         /\ NewGeneration(h).flight = "none" <=> h.flight = "none"
BY DEF NewGeneration, Beat, Flight

LEMMA ArmKeeps ==
  ASSUME NEW h \in Beat
  PROVE  /\ Arm(h) \in Beat /\ Arm(h).gap = h.gap /\ Arm(h).retry = h.retry
         /\ Arm(h).flight = h.flight /\ (Arm(h).flight # "none" => ~Arm(h).timer)
BY DEF Arm, Beat, Flight

LEMMA ContextKeeps ==
  ASSUME NEW h \in Beat, NEW s \in Session
  PROVE  Kept(h, ApplyContext(h, s))
<1> DEFINE g == Reset(IF h.eligible THEN NewGeneration(h) ELSE h)
           over == [g EXCEPT !.eligible = FALSE, !.epoch = 0, !.next = 0, !.timer = FALSE]
           n == Reset(NewGeneration(h))
           new == [n EXCEPT !.eligible = TRUE, !.epoch = s.epoch, !.next = 0]
<1>1. g \in Beat /\ g.gap = h.gap /\ g.retry = h.retry /\ (g.flight = "none" <=> h.flight = "none")
  BY GenerationKeeps, ResetKeeps
<1>2. Kept(h, over)
  BY <1>1 DEF Kept, Beat
<1>3. n \in Beat /\ n.gap = h.gap /\ n.retry = h.retry /\ (n.flight = "none" <=> h.flight = "none")
  BY GenerationKeeps, ResetKeeps
<1>4. new \in Beat /\ new.gap = n.gap /\ new.retry = n.retry /\ new.flight = n.flight
  BY <1>3 DEF Beat, Session
<1>5. Kept(h, Arm(new))
  BY <1>3, <1>4, ArmKeeps DEF Kept
<1>6. Kept(h, Arm(h))
  BY ArmKeeps DEF Kept
<1>7. ApplyContext(h, s) \in {over, Arm(new), Arm(h)}
  BY DEF ApplyContext
<1> QED
  BY <1>2, <1>5, <1>6, <1>7

LEMMA ProbeKeeps ==
  ASSUME NEW h \in Beat, NEW verified \in BOOLEAN
  PROVE  Kept(h, EarlyProbe(h, verified))
<1> DEFINE k == IF ~h.eligible \/ h.flight # "none" THEN h
                ELSE IF verified /\ h.mode = "denied" THEN [h EXCEPT !.denied = 0, !.next = 0]
                ELSE IF h.mode = "active" /\ h.next > NotBefore(h)
                  THEN [h EXCEPT !.next = NotBefore(h)]
                ELSE h
<1>1. k \in Beat /\ k.gap = h.gap /\ k.retry = h.retry /\ k.flight = h.flight
  BY FloorIsNat DEF Beat
<1>2. EarlyProbe(h, verified) = Arm(k)
  BY DEF EarlyProbe
<1> HIDE DEF k
<1>3. Arm(k) \in Beat /\ Arm(k).gap = h.gap /\ Arm(k).retry = h.retry /\ Arm(k).flight = h.flight
      /\ (Arm(k).flight # "none" => ~Arm(k).timer)
  BY <1>1, ArmKeeps
<1> QED
  BY <1>2, <1>3 DEF Kept

LEMMA KeptTwice ==
  ASSUME NEW h, NEW k, NEW l, Kept(h, k), Kept(k, l)
  PROVE  Kept(h, l)
BY DEF Kept

(* The wire is free again: the timer may be set.                           *)
LEMMA SettledKeeps ==
  ASSUME NEW h \in Beat
  PROVE  /\ SettleBeat(h) \in Beat /\ SettleBeat(h).gap = h.gap /\ SettleBeat(h).retry = h.retry
         /\ SettleBeat(h).flight = "none"
<1> DEFINE k == [h EXCEPT !.flight = "none"]
<1>1. k \in Beat /\ k.gap = h.gap /\ k.retry = h.retry /\ k.flight = "none"
  BY DEF Beat, Flight
<1>2. SettleBeat(h) = Arm(k)
  BY DEF SettleBeat
<1> HIDE DEF k
<1> QED
  BY <1>1, <1>2, ArmKeeps

-----------------------------------------------------------------------------
LEMMA BeatBegins == BeatInit => BeatInv
<1> SUFFICES ASSUME BeatInit PROVE BeatInv
  OBVIOUS
<1>1. session \in Session
  <2>1. ASSUME NEW s \in [on : {FALSE}, token : {FALSE}, epoch : {0}] PROVE s \in Session
    <3>1. s.on \in BOOLEAN /\ s.token \in BOOLEAN
      <4>1. s.on = FALSE /\ s.token = FALSE
        OBVIOUS
      <4> QED
        BY <4>1, Zenon
    <3>2. s.epoch \in Nat /\ s = [on |-> s.on, token |-> s.token, epoch |-> s.epoch]
      OBVIOUS
    <3> QED
      BY <3>1, <3>2 DEF Session
  <2> QED
    BY <2>1 DEF BeatInit
<1>2. access \in {"x", "y"} /\ naps \in 0 .. 2 * MaxNaps /\ quiet \in Nat
  BY HeartbeatAssumption DEF BeatInit
<1>3. hb \in Beat
  BY Levels DEF BeatInit, Beat, Flight
<1>4. PromiseHeld
  BY DEF BeatInit, PromiseHeld, Later
<1> QED
  BY <1>1, <1>2, <1>3, <1>4 DEF BeatInv, BeatTypeOK, Session

(* A turn that keeps the deadlines keeps the promise.                      *)
LEMMA KeptTurn ==
  ASSUME BeatInv, Kept(hb, hb'), quiet' = quiet,
         session' \in Session, access' \in {"x", "y"}, naps' \in 0 .. 2 * MaxNaps
  PROVE  BeatInv'
BY DEF BeatInv, BeatTypeOK, PromiseHeld, Kept, Session

LEMMA EndedIsSession == ASSUME BeatInv PROVE Ended \in Session
BY DEF BeatInv, BeatTypeOK, Ended, Session

LEMMA SyncKeeps ==
  ASSUME BeatInv, NEW s \in Session, Sync(s)
  PROVE  Kept(hb, hb') /\ session' = s
<1>1. hb \in Beat /\ (hb.flight # "none" => ~hb.timer)
  BY DEF BeatInv, BeatTypeOK, PromiseHeld
<1>2. Kept(hb, hb)
  BY <1>1 DEF Kept
<1> QED
  BY <1>1, <1>2, ContextKeeps DEF Sync

LEMMA SessionsKeep == BeatInv /\ (SignIn \/ SignOut) => BeatInv' /\ Kept(hb, hb')
<1> SUFFICES ASSUME BeatInv, SignIn \/ SignOut PROVE BeatInv' /\ Kept(hb, hb')
  OBVIOUS
<1>1. PICK s \in Session : Sync(s)
  <2>1. session \in Session
    BY DEF BeatInv, BeatTypeOK, Session
  <2>2. [on |-> TRUE, token |-> TRUE, epoch |-> session.epoch + 1] \in Session
    BY <2>1 DEF Session
  <2>3. [session EXCEPT !.token = FALSE] \in Session
    BY <2>1 DEF Session
  <2> QED
    BY <2>2, <2>3, EndedIsSession DEF SignIn, SignOut
<1>2. Kept(hb, hb') /\ session' \in Session
  BY <1>1, SyncKeeps
<1>3. access' \in {"x", "y"} /\ naps' \in 0 .. 2 * MaxNaps /\ quiet' = quiet
  BY DEF SignIn, SignOut, BeatInv, BeatTypeOK
<1> QED
  BY <1>2, <1>3, KeptTurn

LEMMA SignalsKeep ==
  BeatInv /\ (OnAccessSignal \/ ConnectivityOnline \/ Suspend \/ ResumeBeat \/ Stop)
    => BeatInv' /\ Kept(hb, hb')
<1> SUFFICES ASSUME BeatInv,
                    OnAccessSignal \/ ConnectivityOnline \/ Suspend \/ ResumeBeat \/ Stop
             PROVE  BeatInv' /\ Kept(hb, hb')
  OBVIOUS
<1>1. /\ hb \in Beat /\ session \in Session /\ access \in {"x", "y"} /\ naps \in 0 .. 2 * MaxNaps
      /\ hb.flight # "none" => ~hb.timer
  BY DEF BeatInv, BeatTypeOK, PromiseHeld, Session
<1>2. session' \in Session /\ access' \in {"x", "y"} /\ quiet' = quiet
  BY <1>1 DEF OnAccessSignal, ConnectivityOnline, Suspend, ResumeBeat, Stop
<1>3. naps' \in 0 .. 2 * MaxNaps
  <2>1. CASE ResumeBeat
    <3>1. naps % 2 = 1 /\ naps' = naps + 1
      BY <2>1 DEF ResumeBeat, Asleep
    <3>2. MaxNaps \in Nat /\ (2 * MaxNaps) % 2 = 0
      BY HeartbeatAssumption
    <3> QED
      BY <1>1, <3>1, <3>2
  <2>2. CASE Suspend
    BY <1>1, <2>2, HeartbeatAssumption DEF Suspend
  <2>3. CASE OnAccessSignal \/ ConnectivityOnline \/ Stop
    BY <1>1, <2>3 DEF OnAccessSignal, ConnectivityOnline, Stop
  <2> QED
    BY <2>1, <2>2, <2>3
<1>4. Kept(hb, hb')
  <2>1. CASE OnAccessSignal
    <3> DEFINE h == ApplyContext(hb, session)
    <3>1. Kept(hb, h) /\ h \in Beat
      BY <1>1, ContextKeeps DEF Kept
    <3>2. Kept(h, EarlyProbe(h, TRUE))
      BY <3>1, ProbeKeeps
    <3>3. hb' \in {h, EarlyProbe(h, TRUE)}
      BY <2>1 DEF OnAccessSignal
    <3> HIDE DEF h
    <3>4. Kept(hb, EarlyProbe(h, TRUE))
      BY <3>1, <3>2, KeptTwice
    <3> QED
      BY <3>1, <3>3, <3>4
  <2>2. CASE ConnectivityOnline
    BY <2>2, <1>1, ProbeKeeps DEF ConnectivityOnline
  <2>3. CASE Suspend
    BY <2>3, <1>1 DEF Suspend, Kept, Beat
  <2>4. CASE ResumeBeat
    <3>1. Kept(hb, hb) /\ Kept(hb, Arm(hb)) /\ Arm(hb) \in Beat
      BY <1>1, ArmKeeps DEF Kept
    <3>2. Kept(Arm(hb), EarlyProbe(Arm(hb), FALSE))
      BY <3>1, ProbeKeeps
    <3> QED
      BY <2>4, <3>1, <3>2, KeptTwice DEF ResumeBeat
  <2>5. CASE Stop
    BY <2>5, <1>1 DEF Stop, Kept, Beat, Flight
  <2> QED
    BY <2>1, <2>2, <2>3, <2>4, <2>5
<1> QED
  BY <1>2, <1>3, <1>4, KeptTurn

(* A beat leaves when all that was promised has passed, and promises the gap.*)
LEMMA TimerKeeps == BeatInv /\ OnTimer => BeatInv'
<1> SUFFICES ASSUME BeatInv, OnTimer PROVE BeatInv'
  OBVIOUS
<1>1. hb \in Beat /\ session \in Session /\ quiet \in Nat
  BY DEF BeatInv, BeatTypeOK, Session
<1>2. access' \in {"x", "y"} /\ naps' \in 0 .. 2 * MaxNaps /\ session' \in Session
  BY <1>1 DEF OnTimer, BeatInv, BeatTypeOK
<1>3. hb.gap = 0 /\ hb.retry = 0
  BY <1>1 DEF OnTimer, DueAt, NotBefore, Later, Beat
<1>4. CASE Send
  <2>1. hb' \in Beat /\ hb'.gap = MinGap /\ hb'.retry = 0 /\ ~hb'.timer
    BY <1>1, <1>3, <1>4, HeartbeatAssumption DEF Send, Beat, Flight
  <2>2. quiet' = MinGap
    BY <1>1, <1>3, <1>4, HeartbeatAssumption DEF BeatInv, PromiseHeld, Send, Later
  <2>3. quiet' <= Later(hb'.gap, hb'.retry) /\ quiet' \in Nat
    BY <2>1, <2>2, HeartbeatAssumption DEF Later
  <2> QED
    BY <1>2, <2>1, <2>3 DEF BeatInv, BeatTypeOK, PromiseHeld, Session
<1>5. CASE hb' = ApplyContext(hb, session) /\ UNCHANGED quiet
  BY <1>1, <1>2, <1>5, ContextKeeps, KeptTurn
<1> QED
  BY <1>4, <1>5 DEF OnTimer

LEMMA BackOffsKeep ==
  ASSUME NEW h \in Beat, NEW level \in 1 .. Len(Windows), NEW k \in BackedOff(h, level)
  PROVE  k \in Beat /\ k.gap = h.gap /\ k.retry = h.retry
<1>1. Windows[level] \in Nat
  BY HeartbeatAssumption
<1>2. PICK wait \in 0 .. Windows[level] :
        k = [h EXCEPT !.mode = "backoff", !.level = level, !.backoff = wait, !.next = wait]
  BY DEF BackedOff
<1>3. wait \in Nat /\ level \in 0 .. Len(Windows)
  BY <1>1, Levels
<1> QED
  BY <1>2, <1>3 DEF Beat

LEMMA BeatAnswersKeep == BeatInv /\ BeatAnswered => BeatInv'
<1> SUFFICES ASSUME BeatInv, BeatAnswered PROVE BeatInv'
  OBVIOUS
<1>1. /\ hb \in Beat /\ session \in Session /\ quiet \in Nat /\ access \in {"x", "y"}
      /\ quiet <= Later(hb.gap, hb.retry) /\ hb.retry = 0 /\ hb.flight # "none" /\ ~hb.timer
  BY DEF BeatInv, BeatTypeOK, PromiseHeld, Session, BeatAnswered, LateAnswer, AnswerOk,
         AnswerRetryAfter, AnswerDenied, AnswerFails, AnswerSessionEnded
<1>2. access' \in {"x", "y"} /\ naps' \in 0 .. 2 * MaxNaps /\ session' \in Session
  BY <1>1, EndedIsSession
     DEF BeatAnswered, LateAnswer, AnswerOk, AnswerRetryAfter, AnswerDenied, AnswerFails,
         AnswerSessionEnded, BeatInv, BeatTypeOK
<1>3. ASSUME NEW h \in Beat, h.gap = hb.gap, h.retry = hb.retry, hb' = SettleBeat(h),
             quiet' = quiet
      PROVE  BeatInv'
  <2>1. Kept(hb, hb')
    BY <1>3, SettledKeeps DEF Kept
  <2> QED
    BY <1>2, <1>3, <2>1, KeptTurn
<1>4. CASE LateAnswer
  BY <1>1, <1>3, <1>4 DEF LateAnswer
<1>5. CASE AnswerOk
  <2>1. PICK i \in Intervals : hb' = SettleBeat(Good(hb, i))
    BY <1>5 DEF AnswerOk
  <2>2. i \in Nat
    BY HeartbeatAssumption
  <2>3. Good(hb, i) \in Beat /\ Good(hb, i).gap = hb.gap /\ Good(hb, i).retry = hb.retry
    BY <1>1, <2>2, ResetKeeps DEF Good, Beat
  <2> QED
    BY <1>3, <1>5, <2>1, <2>3 DEF AnswerOk
<1>6. CASE AnswerRetryAfter
  <2>1. PICK s \in RetryWaits : hb' = SettleBeat(RetryAfter(hb, s)) /\ quiet' = Later(quiet, s)
    BY <1>6 DEF AnswerRetryAfter
  <2>2. s \in Nat
    BY HeartbeatAssumption
  <2>3. Escalated(hb) \in 0 .. Len(Windows)
    BY <1>1, Levels DEF Escalated, Beat
  <2>4. RetryAfter(hb, s) \in Beat /\ RetryAfter(hb, s).gap = hb.gap /\ RetryAfter(hb, s).retry = s
    BY <1>1, <2>2, <2>3 DEF RetryAfter, Beat
  <2>5. hb' \in Beat /\ hb'.gap = hb.gap /\ hb'.retry = s /\ hb'.flight = "none"
    BY <2>1, <2>4, SettledKeeps
  <2>6. hb.gap \in Nat /\ quiet <= hb.gap
    BY <1>1 DEF Later, Beat
  <2>7. quiet' <= Later(hb'.gap, hb'.retry) /\ quiet' \in Nat
    BY <1>1, <2>1, <2>2, <2>5, <2>6 DEF Later
  <2> QED
    BY <1>2, <2>5, <2>7 DEF BeatInv, BeatTypeOK, PromiseHeld, Session
<1>7. CASE AnswerDenied
  <2>1. PICK w \in DeniedWaits : hb' = SettleBeat(Denied(hb, w))
    BY <1>7 DEF AnswerDenied
  <2>2. w \in Nat
    BY HeartbeatAssumption
  <2>3. Denied(hb, w) \in Beat /\ Denied(hb, w).gap = hb.gap /\ Denied(hb, w).retry = hb.retry
    BY <1>1, <2>2, Levels DEF Denied, Beat
  <2> QED
    BY <1>3, <1>7, <2>1, <2>3 DEF AnswerDenied
<1>8. CASE AnswerFails
  <2>1. Escalated(hb) \in 1 .. Len(Windows)
    BY <1>1, Levels DEF Escalated, Beat
  <2>2. PICK h \in BackedOff(hb, Escalated(hb)) \cup Interrupted(hb) : hb' = SettleBeat(h)
    BY <1>8 DEF AnswerFails
  <2>3. CASE h \in BackedOff(hb, Escalated(hb))
    BY <1>1, <1>3, <1>8, <2>1, <2>2, <2>3, BackOffsKeep DEF AnswerFails
  <2>4. CASE h \in Interrupted(hb)
    <3>1. h \in Beat /\ h.gap = hb.gap /\ h.retry = hb.retry
      <4>1. CASE hb.mode = "denied"
        <5>1. PICK w \in DeniedWaits : h = [hb EXCEPT !.denied = w, !.next = w]
          BY <2>4, <4>1 DEF Interrupted
        <5> QED
          BY <1>1, <5>1, HeartbeatAssumption DEF Beat
      <4>2. CASE hb.mode # "denied" /\ hb.level = 0
        BY <1>1, <2>4, <4>2 DEF Interrupted, Beat
      <4>3. CASE hb.mode # "denied" /\ hb.level # 0
        <5>1. hb.level \in 1 .. Len(Windows) /\ h \in BackedOff(hb, hb.level)
          BY <1>1, <2>4, <4>3, Levels DEF Interrupted, Beat
        <5> QED
          BY <1>1, <5>1, BackOffsKeep
      <4> QED
        BY <4>1, <4>2, <4>3
    <3> QED
      BY <1>3, <1>8, <2>2, <3>1 DEF AnswerFails
  <2> QED
    BY <2>2, <2>3, <2>4
<1>9. CASE AnswerSessionEnded
  <2>1. Kept(hb, ApplyContext(hb, Ended))
    BY <1>1, EndedIsSession, ContextKeeps
  <2> QED
    BY <1>3, <1>9, <2>1 DEF AnswerSessionEnded, Kept
<1> QED
  BY <1>4, <1>5, <1>6, <1>7, <1>8, <1>9 DEF BeatAnswered

LEMMA TickKeeps == BeatInv /\ Tick => BeatInv'
<1> SUFFICES ASSUME BeatInv, Tick PROVE BeatInv'
  OBVIOUS
<1>1. hb \in Beat /\ quiet \in Nat /\ quiet <= Later(hb.gap, hb.retry)
  BY DEF BeatInv, BeatTypeOK, PromiseHeld
<1>2. /\ hb' \in Beat /\ hb'.gap = Gone(hb.gap) /\ hb'.retry = Gone(hb.retry)
      /\ hb'.flight = hb.flight /\ hb'.timer = hb.timer
  <2>1. /\ Gone(hb.gap) \in Nat /\ Gone(hb.next) \in Nat /\ Gone(hb.backoff) \in Nat
        /\ Gone(hb.retry) \in Nat /\ Gone(hb.denied) \in Nat
    BY <1>1 DEF Gone, Beat
  <2> QED
    BY <1>1, <2>1 DEF Tick, Beat
<1>3. quiet' \in Nat /\ quiet' <= Later(hb'.gap, hb'.retry)
  <2>1. hb.gap \in Nat /\ hb.retry \in Nat /\ quiet' = Gone(quiet)
    BY <1>1 DEF Tick, Beat
  <2> QED
    BY <1>1, <1>2, <2>1 DEF Gone, Later
<1>4. hb'.flight # "none" => hb'.retry = 0 /\ ~hb'.timer
  BY <1>2 DEF BeatInv, PromiseHeld, Gone
<1> QED
  BY <1>2, <1>3, <1>4 DEF Tick, BeatInv, BeatTypeOK, PromiseHeld

LEMMA BeatSteps == BeatInv /\ [BeatNext]_beatVars => BeatInv'
<1> SUFFICES ASSUME BeatInv, [BeatNext]_beatVars PROVE BeatInv'
  OBVIOUS
<1>1. CASE UNCHANGED beatVars
  BY <1>1 DEF beatVars, BeatInv, BeatTypeOK, PromiseHeld
<1>2. CASE BeatNext
  BY <1>2, SessionsKeep, SignalsKeep, TimerKeeps, BeatAnswersKeep, TickKeeps DEF BeatNext
<1> QED
  BY <1>1, <1>2

(* The deadlines of the service hold what was promised to the server,      *)
(* through every session, sleep, denial and nudge.                         *)
THEOREM HeartbeatInvariant == BeatSpec => []BeatInv
BY BeatBegins, BeatSteps, PTL DEF BeatSpec

(* The fields of the service keep their types.                             *)
THEOREM HeartbeatTypes == BeatSpec => []BeatTypeOK
<1>1. BeatInv => BeatTypeOK
  BY DEF BeatInv
<1> QED
  BY <1>1, HeartbeatInvariant, PTL

LEMMA BeatsAreDue ==
  ASSUME BeatInv, [BeatNext]_beatVars, hb'.flight = "current", hb.flight = "none"
  PROVE  quiet = 0
<1>1. hb \in Beat /\ session \in Session /\ quiet \in Nat /\ quiet <= Later(hb.gap, hb.retry)
  BY DEF BeatInv, BeatTypeOK, PromiseHeld, Session
<1>2. hb' # hb
  OBVIOUS
<1>3. BeatNext
  BY <1>2 DEF beatVars
<1>4. ~Kept(hb, hb')
  BY DEF Kept
<1>5. ~BeatAnswered
  BY DEF BeatAnswered, LateAnswer, AnswerOk, AnswerRetryAfter, AnswerDenied, AnswerFails,
         AnswerSessionEnded
<1>6. ~Tick
  <2>1. Tick => hb'.flight = hb.flight
    BY <1>1 DEF Tick, Beat
  <2> QED
    BY <2>1
<1>7. OnTimer
  BY <1>3, <1>4, <1>5, <1>6, SessionsKeep, SignalsKeep DEF BeatNext
<1>8. hb.gap = 0 /\ hb.retry = 0
  BY <1>1, <1>7 DEF OnTimer, DueAt, NotBefore, Later, Beat
<1> QED
  BY <1>1, <1>8 DEF Later

(* No beat leaves before the gap and every Retry-After have passed.        *)
THEOREM NoEarlyBeat == BeatSpec => PromisedQuiet
<1>1. BeatInv /\ [BeatNext]_beatVars
        => [hb'.flight = "current" /\ hb.flight = "none" => quiet = 0]_beatVars
  BY BeatsAreDue
<1> QED
  BY <1>1, HeartbeatInvariant, PTL DEF BeatSpec, PromisedQuiet

-----------------------------------------------------------------------------
-----------------------------------------------------------------------------
(* Access.                                                                 *)

(* What a session accepted last is what the till stored for it.            *)
NewestIsStored ==
  newest > 0 => accepted.epoch = login.epoch /\ accepted.number = newest

(* No request is out for nobody: without a session none is made.           *)
AskedForSomebody == \A l \in Legs : leg[l].at # "idle" => leg[l].owner # NoOne

(* A sign-in takes two epochs, its own and the one its end begins; a late  *)
(* answer of /auth/me may open the session once more.                      *)
EpochsLast ==
  /\ login.epoch + (IF login.on THEN 1 ELSE 0) + (IF me THEN 1 ELSE 0) <= 2 * MaxSignIns + 1
  /\ login.token => login.on /\ login.epoch <= 2 * MaxSignIns - 1

AccessInv == AccessTypeOK /\ EpochsLast /\ NewestIsStored /\ AskedForSomebody

Epochs == 0 .. 2 * MaxSignIns + 1
Sessions == [on : BOOLEAN, token : BOOLEAN, epoch : Epochs]

-----------------------------------------------------------------------------
LEMMA OwnersHaveASite ==
  ASSUME NEW s \in Sessions, NEW site \in 1 .. 2
  PROVE  /\ OwnerOf(s, site) \in Owner
         /\ s.on <=> OwnerOf(s, site) # NoOne
<1>1. 0 \in Epochs /\ Epochs = 0 .. 2 * MaxSignIns + 1
  BY AccessAssumption DEF Epochs
<1>2. NoOne \in Owner
  BY <1>1 DEF NoOne, Owner
<1>3. [epoch |-> s.epoch, site |-> site] \in Owner
  BY <1>1 DEF Owner, Sessions
<1>4. [epoch |-> s.epoch, site |-> site] # NoOne
  <2>1. site # 0
    OBVIOUS
  <2>2. [epoch |-> s.epoch, site |-> site].site # NoOne.site
    BY <2>1 DEF NoOne
  <2> QED
    BY <2>2
<1> QED
  BY <1>2, <1>3, <1>4 DEF OwnerOf, Sessions

LEMMA NoLegIsALeg == NoLeg \in Leg /\ Blank \in AccessAnswer
<1>1. 0 \in 0 .. MaxEvals /\ 0 \in 0 .. 2 * MaxSignIns + 1
  BY AccessAssumption
<1>2. Blank \in AccessAnswer
  BY <1>1 DEF Blank, AccessAnswer
<1>3. NoOne \in Owner
  BY <1>1 DEF NoOne, Owner
<1> QED
  BY <1>2, <1>3 DEF NoLeg, Leg

LEMMA AskedIsALeg ==
  ASSUME NEW owner \in Owner
  PROVE  /\ AskedBy(owner) \in Leg
         /\ AskedBy(owner).at = "asked" /\ AskedBy(owner).owner = owner
  BY NoLegIsALeg DEF AskedBy, NoLeg, Leg

(* The legs and the leg in waiting, as the steps below leave them.         *)
LegsOK == leg \in [Legs -> Leg] /\ queued \in BOOLEAN /\ AskedForSomebody

(* A license leg, joined, asked for or put behind the one under way.       *)
LEMMA LegKeeps ==
  ASSUME LegsOK, NEW owner \in Owner, LicenseLeg(owner)
  PROVE  LegsOK'
<1> USE DEF LegsOK, AskedForSomebody
<1>1. CASE UNCHANGED <<leg, queued>>
  BY <1>1
<1>2. CASE leg' = [leg EXCEPT !["license"] = AskedBy(owner)] /\ UNCHANGED queued /\ owner # NoOne
  BY <1>2, AskedIsALeg DEF Legs
<1>3. CASE queued' = TRUE /\ UNCHANGED leg
  BY <1>3
<1> QED
  BY <1>1, <1>2, <1>3 DEF LicenseLeg

(* A free wire, and whoever waited for it.                                 *)
LEMMA FreedKeeps ==
  ASSUME LegsOK, NEW l \in Legs, NEW owner \in Owner, Freed(l, owner)
  PROVE  LegsOK' /\ \A m \in Legs \ {l} : leg'[m] = leg[m]
<1> USE DEF LegsOK, AskedForSomebody
<1>1. CASE leg' = [leg EXCEPT ![l] = AskedBy(owner)] /\ queued' = FALSE /\ owner # NoOne
  BY <1>1, AskedIsALeg
<1>2. CASE leg' = [leg EXCEPT ![l] = NoLeg] /\ queued' \in BOOLEAN
  <2>1. NoLeg.at = "idle"
    BY DEF NoLeg
  <2> QED
    BY <1>2, <2>1, NoLegIsALeg
<1> QED
  BY <1>1, <1>2 DEF Freed

(* A new session, and the renewal that may come with it.                   *)
LEMMA NotifiedKeeps ==
  ASSUME AccessTypeOK, AskedForSomebody, NEW s \in Sessions, Notified(s)
  PROVE  /\ LegsOK' /\ login' = s
         /\ renewal' \in [denied : BOOLEAN, key : Owner]
<1>1. held.site \in 1 .. 2
  BY DEF AccessTypeOK
<1>2. OwnerOf(s, held.site) \in Owner
  BY <1>1, OwnersHaveASite
<1>3. LegsOK
  BY DEF AccessTypeOK, LegsOK
<1>4. CASE UNCHANGED <<renewal, leg, queued>>
  BY <1>3, <1>4 DEF LegsOK, AskedForSomebody, AccessTypeOK, Notified
<1>5. CASE /\ renewal' = [denied |-> FALSE, key |-> OwnerOf(s, held.site)]
           /\ LicenseLeg(OwnerOf(s, held.site))
  BY <1>2, <1>3, <1>5, LegKeeps DEF Notified
<1> QED
  BY <1>4, <1>5 DEF Notified

-----------------------------------------------------------------------------
LEMMA AccessInitHolds == AccessInit => AccessInv
<1> SUFFICES ASSUME AccessInit PROVE AccessInv
  OBVIOUS
<1>1. /\ 0 \in 0 .. 2 * MaxSignIns + 1 /\ 0 \in 0 .. MaxEvals /\ 0 \in 0 .. MaxChanges
  BY AccessAssumption
<1>2. NoOne \in Owner
  BY <1>1 DEF NoOne, Owner
<1>3. AccessTypeOK
  <2>1. /\ login \in [on : BOOLEAN, token : BOOLEAN, epoch : 0 .. 2 * MaxSignIns + 1]
        /\ me \in BOOLEAN /\ newest \in 0 .. MaxEvals /\ changes \in 0 .. MaxChanges
    BY <1>1 DEF AccessInit
  <2>2. office \in [sell : BOOLEAN, perms : BOOLEAN, site : 1 .. 2, evals : 0 .. MaxEvals,
                    numbers : BOOLEAN]
    BY <1>1 DEF AccessInit
  <2>3. /\ held \in [known : BOOLEAN, sell : BOOLEAN, perms : BOOLEAN, site : 1 .. 2]
        /\ accepted \in [epoch : 0 .. 2 * MaxSignIns + 1, number : 0 .. MaxEvals]
    BY <1>1 DEF AccessInit
  <2>4. /\ leg \in [Legs -> Leg] /\ queued \in BOOLEAN
        /\ renewal \in [denied : BOOLEAN, key : Owner]
    BY <1>2, NoLegIsALeg DEF AccessInit
  <2> QED
    BY <2>1, <2>2, <2>3, <2>4 DEF AccessTypeOK
<1>4. NewestIsStored
  BY DEF AccessInit, NewestIsStored
<1>5. AskedForSomebody
  BY DEF AccessInit, AskedForSomebody, NoLeg
<1>6. EpochsLast
  BY AccessAssumption DEF AccessInit, EpochsLast
<1> QED
  BY <1>3, <1>4, <1>5, <1>6 DEF AccessInv

(* The session that ends: its epoch is a number that was not used yet.     *)
LEMMA OverIsASession ==
  ASSUME AccessTypeOK, EpochsLast
  PROVE  /\ Over \in Sessions
         /\ Over.epoch + (IF me THEN 1 ELSE 0) <= 2 * MaxSignIns + 1
         /\ ~Over.on /\ ~Over.token
  BY AccessAssumption DEF AccessTypeOK, EpochsLast, Over, Sessions, Epochs

LEMMA OverIsLast ==
  ASSUME AccessTypeOK, EpochsLast, login' = Over, me' = me
  PROVE  EpochsLast'
<1>1. ~login'.on /\ ~login'.token /\ login'.epoch \in Int
  BY OverIsASession DEF Sessions, Epochs
<1>2. login'.epoch + (IF me' THEN 1 ELSE 0) <= 2 * MaxSignIns + 1
  BY OverIsASession
<1>3. login'.epoch + (IF login'.on THEN 1 ELSE 0) = login'.epoch
  BY <1>1
<1> QED
  BY <1>1, <1>2, <1>3 DEF EpochsLast

-----------------------------------------------------------------------------
(* One step of the session, of a leg and of the world around.              *)
LEMMA AccessStepKeeps == AccessInv /\ [AccessNext]_accessVars => AccessInv'
<1> SUFFICES ASSUME AccessInv, [AccessNext]_accessVars PROVE AccessInv'
  OBVIOUS
<1> USE DEF AccessInv
<1>0. LegsOK /\ Sessions = [on : BOOLEAN, token : BOOLEAN, epoch : 0 .. 2 * MaxSignIns + 1]
  BY DEF LegsOK, AccessTypeOK, Sessions, Epochs
<1>1. CASE StartSession
  <2> DEFINE s == [on |-> TRUE, token |-> TRUE, epoch |-> login.epoch + 1]
  <2>1. s \in Sessions /\ s.epoch <= 2 * MaxSignIns - 1 /\ s.epoch \in Nat /\ s.on /\ s.token
    BY <1>1, AccessAssumption DEF StartSession, AccessTypeOK, Sessions, Epochs
  <2>2. /\ LegsOK' /\ login' = s /\ renewal' \in [denied : BOOLEAN, key : Owner]
    BY <1>1, <2>1, NotifiedKeeps DEF StartSession
  <2>3. newest' = 0 /\ UNCHANGED <<me, office, held, accepted, changes>>
    BY <1>1 DEF StartSession
  <2>4. AccessTypeOK'
    BY <1>0, <2>1, <2>2, <2>3, AccessAssumption DEF LegsOK, AccessTypeOK
  <2>5. login'.epoch + 1 + 1 <= 2 * MaxSignIns + 1 /\ login'.on /\ login'.token
    BY <2>1, <2>2, AccessAssumption
  <2>6. EpochsLast'
    BY <2>1, <2>2, <2>5, AccessAssumption DEF EpochsLast
  <2> QED
    BY <2>2, <2>3, <2>4, <2>6 DEF NewestIsStored, LegsOK
<1>2. CASE EndSession
  <2>1. Over \in Sessions /\ LegsOK' /\ login' = Over /\ renewal' \in [denied : BOOLEAN, key : Owner]
    BY <1>2, OverIsASession, NotifiedKeeps DEF EndSession
  <2>2. newest' = 0 /\ UNCHANGED <<me, office, held, accepted, changes>>
    BY <1>2 DEF EndSession
  <2>3. AccessTypeOK'
    BY <1>0, <2>1, <2>2, AccessAssumption DEF LegsOK, AccessTypeOK
  <2>4. EpochsLast'
    BY <2>1, <2>2, OverIsLast
  <2> QED
    BY <2>1, <2>2, <2>3, <2>4 DEF NewestIsStored, LegsOK
<1>3. CASE EndSessionFails
  <2> DEFINE s == [login EXCEPT !.token = FALSE]
  <2>1. s \in Sessions /\ s.epoch = login.epoch /\ s.on = login.on /\ ~s.token
    BY DEF AccessTypeOK, Sessions, Epochs
  <2>2. /\ LegsOK' /\ login' = s /\ renewal' \in [denied : BOOLEAN, key : Owner]
    BY <1>3, <2>1, NotifiedKeeps DEF EndSessionFails
  <2>3. /\ UNCHANGED <<me, office, held, accepted, newest>> /\ changes' \in 0 .. MaxChanges
    BY <1>3, AccessAssumption DEF EndSessionFails, Change, AccessTypeOK
  <2>4. AccessTypeOK'
    BY <1>0, <2>1, <2>2, <2>3 DEF LegsOK, AccessTypeOK
  <2> QED
    BY <2>1, <2>2, <2>3, <2>4 DEF NewestIsStored, LegsOK, EpochsLast
<1>4. CASE AskMe
  <2>1. UNCHANGED <<login, office, held, accepted, leg, queued, renewal, newest, changes>>
    BY <1>4 DEF AskMe
  <2>2. AccessTypeOK' /\ NewestIsStored' /\ AskedForSomebody'
    BY <1>4, <2>1 DEF AskMe, AccessTypeOK, NewestIsStored, AskedForSomebody
  <2>3. EpochsLast'
    BY <1>4, <2>1, AccessAssumption DEF AskMe, EpochsLast, AccessTypeOK
  <2> QED
    BY <2>2, <2>3
<1>5. CASE MeArrives
  <2> DEFINE s == [login EXCEPT !.on = TRUE]
  <2>1. s \in Sessions /\ s.epoch = login.epoch /\ s.on /\ s.token = login.token
    BY DEF AccessTypeOK, Sessions, Epochs
  <2>2. /\ LegsOK' /\ login' = s /\ renewal' \in [denied : BOOLEAN, key : Owner]
    BY <1>5, <2>1, NotifiedKeeps DEF MeArrives
  <2>3. me /\ me' = FALSE /\ UNCHANGED <<office, held, accepted, newest, changes>>
    BY <1>5 DEF MeArrives
  <2>4. AccessTypeOK'
    BY <1>0, <2>1, <2>2, <2>3 DEF LegsOK, AccessTypeOK
  <2>5. EpochsLast'
    BY <2>1, <2>2, <2>3, AccessAssumption DEF EpochsLast, AccessTypeOK
  <2> QED
    BY <2>1, <2>2, <2>3, <2>4, <2>5 DEF NewestIsStored, LegsOK
<1>6. CASE Renew
  <2>1. LegsOK'
    <3>1. Current \in Owner
      BY <1>0, OwnersHaveASite DEF Current, AccessTypeOK
    <3> QED
      BY <1>0, <1>6, <3>1, LegKeeps DEF Renew
  <2>2. UNCHANGED <<login, me, office, held, accepted, renewal, newest, changes>>
    BY <1>6 DEF Renew
  <2> QED
    BY <2>1, <2>2 DEF LegsOK, AccessTypeOK, EpochsLast, NewestIsStored
<1>7. CASE AskBootstrap
  <2>1. Current \in Owner /\ Current # NoOne
    BY <1>0, <1>7, OwnersHaveASite DEF AskBootstrap, Current, AccessTypeOK
  <2>2. leg' = [leg EXCEPT !["bootstrap"] = AskedBy(Current)]
    BY <1>7 DEF AskBootstrap
  <2>3. UNCHANGED <<login, me, office, held, accepted, queued, renewal, newest, changes>>
    BY <1>7 DEF AskBootstrap
  <2>4. LegsOK'
    BY <1>0, <2>1, <2>2, <2>3, AskedIsALeg DEF LegsOK, AskedForSomebody, Legs
  <2> QED
    BY <2>3, <2>4 DEF LegsOK, AccessTypeOK, EpochsLast, NewestIsStored
<1>8. ASSUME NEW l \in Legs, Evaluates(l) PROVE AccessInv'
  <2> DEFINE a == [eval |-> office.evals + 1, numbered |-> office.numbers, sell |-> office.sell,
                   perms |-> office.perms, site |-> office.site]
  <2>1. UNCHANGED <<login, me, held, accepted, queued, renewal, newest, changes>>
    BY <1>8 DEF Evaluates
  <2>2. a \in AccessAnswer /\ office' \in [sell : BOOLEAN, perms : BOOLEAN, site : 1 .. 2,
                                          evals : 0 .. MaxEvals, numbers : BOOLEAN]
    BY <1>8, AccessAssumption DEF Evaluates, AccessTypeOK, AccessAnswer
  <2>3. leg[l] \in Leg /\ leg[l].at = "asked"
    BY <1>8 DEF Evaluates, AccessTypeOK
  <2>4. [leg[l] EXCEPT !.at = "answered", !.answer = a] \in Leg
    BY <2>2, <2>3 DEF Leg
  <2>5. [leg[l] EXCEPT !.at = "answered", !.answer = a].owner = leg[l].owner
    BY <2>3 DEF Leg
  <2>6. leg' = [leg EXCEPT ![l] = [leg[l] EXCEPT !.at = "answered", !.answer = a]]
    BY <1>8 DEF Evaluates
  <2>7. LegsOK'
    BY <1>0, <2>1, <2>3, <2>4, <2>5, <2>6 DEF LegsOK, AskedForSomebody
  <2> QED
    BY <2>1, <2>2, <2>7 DEF LegsOK, AccessTypeOK, EpochsLast, NewestIsStored
<1>9. ASSUME NEW l \in Legs, Arrives(l) PROVE AccessInv'
  <2> DEFINE a == leg[l].answer
  <2>1. UNCHANGED <<login, me, office, changes>>
    BY <1>9 DEF Arrives
  <2>2. leg[l] \in Leg /\ leg[l].at = "answered" /\ a \in AccessAnswer
    BY <1>9 DEF Arrives, AccessTypeOK, Leg
  <2>3. CASE Written(l, a) /\ SameOwner(leg[l].owner)
    <3>1. held' \in [known : BOOLEAN, sell : BOOLEAN, perms : BOOLEAN, site : 1 .. 2]
      BY <2>2, <2>3 DEF Written, AccessTypeOK, AccessAnswer
    <3>2. login.on
      BY <1>0, <2>2, <2>3, OwnersHaveASite DEF SameOwner, Current, AccessTypeOK, AskedForSomebody
    <3>3. /\ newest' \in 0 .. MaxEvals
          /\ accepted' \in [epoch : 0 .. 2 * MaxSignIns + 1, number : 0 .. MaxEvals]
          /\ NewestIsStored'
      BY <2>1, <2>2, <2>3, <3>2 DEF Written, AccessTypeOK, AccessAnswer, NewestIsStored
    <3>4. renewal' \in [denied : BOOLEAN, key : Owner]
      <4>1. renewal' = renewal \/ renewal' = [renewal EXCEPT !.denied = ~a.sell]
        BY <1>9 DEF Arrives
      <4> QED
        BY <2>2, <4>1 DEF AccessTypeOK
    <3>5. LegsOK'
      <4>1. OwnerOf(login, held'.site) \in Owner /\ Current \in Owner
        BY <1>0, <3>1, OwnersHaveASite DEF Current, AccessTypeOK
      <4> QED
        BY <1>0, <1>9, <4>1, FreedKeeps DEF Arrives
    <3> QED
      BY <2>1, <3>1, <3>3, <3>4, <3>5 DEF LegsOK, AccessTypeOK, EpochsLast
  <2>4. CASE UNCHANGED <<held, newest, accepted, renewal>> /\ Freed(l, Current)
    <3>1. Current \in Owner
      BY <1>0, OwnersHaveASite DEF Current, AccessTypeOK
    <3>2. LegsOK'
      BY <1>0, <2>4, <3>1, FreedKeeps
    <3> QED
      BY <2>1, <2>4, <3>2 DEF LegsOK, AccessTypeOK, EpochsLast, NewestIsStored
  <2> QED
    BY <1>9, <2>3, <2>4 DEF Arrives
<1>10. ASSUME NEW l \in Legs, LegFails(l) \/ LegRefused(l) PROVE AccessInv'
  <2>1. Freed(l, Current) /\ UNCHANGED <<login, me, office, held, accepted, newest>>
    BY <1>10 DEF LegFails, LegRefused
  <2>2. Current \in Owner
    BY <1>0, OwnersHaveASite DEF Current, AccessTypeOK
  <2>3. LegsOK'
    BY <1>0, <2>1, <2>2, FreedKeeps
  <2>4. changes' \in 0 .. MaxChanges
    BY <1>10, AccessAssumption DEF LegFails, LegRefused, Change, AccessTypeOK
  <2>5. renewal' \in [denied : BOOLEAN, key : Owner]
    BY <1>10 DEF LegFails, LegRefused, AccessTypeOK
  <2> QED
    BY <2>1, <2>3, <2>4, <2>5 DEF LegsOK, AccessTypeOK, EpochsLast, NewestIsStored
<1>11. ASSUME NEW l \in Legs, LegEndsSession(l) PROVE AccessInv'
  <2>1. login' = Over /\ newest' = 0 /\ Freed(l, NoOne) /\ UNCHANGED <<me, office, held, accepted>>
    BY <1>11 DEF LegEndsSession
  <2>2. NoOne \in Owner
    BY NoLegIsALeg DEF NoLeg, Leg
  <2>3. LegsOK'
    BY <1>0, <2>1, <2>2, FreedKeeps
  <2>4. changes' \in 0 .. MaxChanges /\ renewal' \in [denied : BOOLEAN, key : Owner]
    BY <1>11, <2>2, AccessAssumption DEF LegEndsSession, Change, AccessTypeOK
  <2>5. AccessTypeOK'
    BY <1>0, <2>1, <2>3, <2>4, OverIsASession, AccessAssumption DEF LegsOK, AccessTypeOK
  <2>6. EpochsLast'
    BY <2>1, OverIsLast
  <2> QED
    BY <2>1, <2>3, <2>5, <2>6 DEF LegsOK, NewestIsStored
<1>12. CASE ServerChanges
  <2>1. UNCHANGED <<login, me, held, accepted, leg, queued, renewal, newest>>
    BY <1>12 DEF ServerChanges
  <2>2. changes' \in 0 .. MaxChanges
    BY <1>12, AccessAssumption DEF ServerChanges, Change, AccessTypeOK
  <2>3. office' \in [sell : BOOLEAN, perms : BOOLEAN, site : 1 .. 2, evals : 0 .. MaxEvals,
                     numbers : BOOLEAN]
    <3> DEFINE Office == [sell : BOOLEAN, perms : BOOLEAN, site : 1 .. 2, evals : 0 .. MaxEvals,
                          numbers : BOOLEAN]
    <3>1. office \in Office
      BY DEF AccessTypeOK
    <3>2. /\ [office EXCEPT !.sell = ~@] \in Office /\ [office EXCEPT !.perms = ~@] \in Office
          /\ [office EXCEPT !.numbers = ~@] \in Office
      BY <3>1
    <3>3. [office EXCEPT !.site = 3 - @] \in Office
      <4>1. office.site \in 1 .. 2
        BY <3>1
      <4>2. 3 - office.site \in 1 .. 2
        BY <4>1
      <4> QED
        BY <3>1, <4>2
    <3> QED
      BY <1>12, <3>2, <3>3 DEF ServerChanges
  <2> QED
    BY <2>1, <2>2, <2>3 DEF AccessTypeOK, EpochsLast, NewestIsStored, AskedForSomebody
<1>13. CASE ProcessRestarts
  <2>1. Current \in Owner
    BY <1>0, OwnersHaveASite DEF Current, AccessTypeOK
  <2>2. UNCHANGED <<login, office, held, accepted, newest>> /\ me' = FALSE /\ queued' = FALSE
    BY <1>13 DEF ProcessRestarts
  <2>3. leg' = [l \in Legs |-> IF l = "license" /\ Current # NoOne THEN AskedBy(Current) ELSE NoLeg]
    BY <1>13 DEF ProcessRestarts
  <2>4. NoLeg.at = "idle"
    BY DEF NoLeg
  <2>5. LegsOK'
    BY <2>1, <2>2, <2>3, <2>4, AskedIsALeg, NoLegIsALeg DEF LegsOK, AskedForSomebody
  <2>6. changes' \in 0 .. MaxChanges /\ renewal' \in [denied : BOOLEAN, key : Owner]
    BY <1>13, <2>1, AccessAssumption DEF ProcessRestarts, Change, AccessTypeOK
  <2>7. EpochsLast'
    BY <2>2, AccessAssumption DEF EpochsLast, AccessTypeOK
  <2> QED
    BY <2>2, <2>5, <2>6, <2>7 DEF LegsOK, AccessTypeOK, NewestIsStored
<1>14. CASE UNCHANGED accessVars
  BY <1>14 DEF accessVars, AccessTypeOK, EpochsLast, NewestIsStored, AskedForSomebody
<1> QED
  BY <1>1, <1>2, <1>3, <1>4, <1>5, <1>6, <1>7, <1>8, <1>9, <1>10, <1>11, <1>12, <1>13, <1>14
     DEF AccessNext

-----------------------------------------------------------------------------
(* The invariant of session and access, for any number of sign-ins,        *)
(* evaluations and changes at the server (accessOrdering.ts).              *)
THEOREM AccessInvariant == AccessSpec => []AccessInv
<1> QED
  BY AccessInitHolds, AccessStepKeeps, PTL DEF AccessSpec

(* Every variable of the model keeps its type; with it the epochs last.    *)
THEOREM AccessTypes == AccessSpec => []AccessTypeOK
<1>1. AccessInv => AccessTypeOK
  BY DEF AccessInv
<1> QED
  BY <1>1, AccessInvariant, PTL

(* What one step may write: only an answer of the leg that ends with it,   *)
(* asked for the owner of now, and no wider than before unless it is later. *)
LEMMA StepIsForward ==
  ASSUME AccessInv, [AccessNext]_accessVars, NEW l \in Legs,
         held' # held, leg[l].at = "answered", leg'[l] # leg[l]
  PROVE  /\ leg[l].owner = Current
         /\ Wider(held', held) /\ newest > 0 => leg[l].answer.eval > newest
<1>1. PICK m \in Legs : Arrives(m)
  BY DEF AccessNext, accessVars, StartSession, EndSession, EndSessionFails, AskMe, MeArrives,
         Renew, AskBootstrap, ServerChanges, ProcessRestarts, Evaluates, LegFails, LegRefused,
         LegEndsSession
<1>2. /\ SameOwner(leg[m].owner) /\ Admits(m, leg[m].answer)
      /\ Written(m, leg[m].answer) /\ Freed(m, OwnerOf(login, held'.site))
  BY <1>1 DEF Arrives
<1>3. m = l
  <2>1. OwnerOf(login, held'.site) \in Owner
    <3>1. held'.site \in 1 .. 2
      BY <1>1, <1>2 DEF Written, AccessInv, AccessTypeOK, Leg, AccessAnswer
    <3> QED
      BY <3>1, OwnersHaveASite DEF AccessInv, AccessTypeOK, Sessions, Epochs
  <2> QED
    BY <1>2, <2>1, FreedKeeps DEF LegsOK, AccessInv, AccessTypeOK
<1>4. leg[l].owner = Current
  BY <1>2, <1>3 DEF SameOwner
<1>5. ASSUME Wider(held', held), newest > 0 PROVE leg[l].answer.eval > newest
  <2>1. accepted.epoch = login.epoch /\ accepted.number = newest
    BY <1>5 DEF AccessInv, NewestIsStored
  <2>2. Relaxes(l, leg[l].answer)
    BY <1>2, <1>3, <1>5 DEF Wider, Written, Relaxes, AccessInv, AccessTypeOK, Legs
  <2> QED
    BY <1>2, <1>3, <2>1, <2>2 DEF Admits
<1> QED
  BY <1>4, <1>5

(* Access never widens on an answer older than one accepted, and never on  *)
(* an answer to an owner that is not the current one.                      *)
THEOREM AccessMovesForward == AccessSpec => AccessOnlyForward
<1>1. AccessInv /\ [AccessNext]_accessVars =>
        [\A l \in Legs : held' # held /\ leg[l].at = "answered" /\ leg'[l] # leg[l] =>
          /\ leg[l].owner = Current
          /\ Wider(held', held) /\ newest > 0 => leg[l].answer.eval > newest]_accessVars
  BY StepIsForward
<1> QED
  BY <1>1, AccessInvariant, PTL DEF AccessSpec, AccessOnlyForward
=============================================================================
