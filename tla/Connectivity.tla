---------------------------- MODULE Connectivity ----------------------------
(***************************************************************************)
(* ConnectivityService: the one judge of whether the backend can be        *)
(* reached.  There is no polling of a healthy backend: a verdict comes     *)
(* from a demand-driven /up probe or from the answer to a real request,    *)
(* and only an unhealthy verdict arms a timer.  Every trigger of the       *)
(* upload worker, the reconciler and the renewal hangs on its verdicts.    *)
(***************************************************************************)
EXTENDS Naturals

CONSTANT MaxOutages   \* bound: how often the network or the backend goes away
ASSUME OutageAssumption == MaxOutages \in Nat

VARIABLES
  status,     \* snapshot.status
  fresh,      \* the last observation is younger than the freshness TTL
  probe,      \* inFlight: no probe, one asking, or one whose answer is lost
  timer,      \* scheduledCheck is armed
  recent,     \* a probe started less than checkNowMinGapMs ago
  started, stopped,
  net,        \* what the operating system says of the network
  backend,    \* the backend answers
  outages

service == <<status, fresh, probe, timer, recent>>
phase   == <<started, stopped>>
world   == <<net, backend, outages>>
vars    == <<service, phase, world>>

Status == {"checking", "online", "offline", "unreachable"}

TypeOK ==
  /\ status \in Status
  /\ fresh \in BOOLEAN /\ timer \in BOOLEAN /\ recent \in BOOLEAN
  /\ probe \in {"none", "asking", "lost"}
  /\ started \in BOOLEAN /\ stopped \in BOOLEAN
  /\ net \in BOOLEAN /\ backend \in BOOLEAN
  /\ outages \in 0 .. MaxOutages

Init ==
  /\ status = "checking" /\ probe = "none"
  /\ fresh = FALSE /\ timer = FALSE /\ recent = FALSE
  /\ started = FALSE /\ stopped = FALSE
  /\ net \in BOOLEAN /\ backend \in BOOLEAN /\ outages = 0

-----------------------------------------------------------------------------
(* The start of a probe.  Without a network the verdict is immediate and    *)
(* the next probe is scheduled, if the service is started.  The actions     *)
(* set phase before they get here.                                         *)
RunProbe ==
  \/ /\ ~net
     /\ status' = "offline" /\ fresh' = TRUE /\ timer' = started'
     /\ UNCHANGED probe
  \/ /\ net
     /\ status' = IF status = "offline" THEN "checking" ELSE status
     /\ probe' = "asking" /\ timer' = FALSE
     /\ UNCHANGED fresh

(* Mutant: the pending timer is cleared before the throttle is looked at.  *)
RequestCheck_ClearFirst(force) ==
  \/ probe # "none" /\ UNCHANGED service
  \/ /\ probe = "none" /\ recent /\ ~force
     /\ timer' = FALSE /\ UNCHANGED <<status, fresh, probe, recent>>
  \/ probe = "none" /\ (force \/ ~recent) /\ recent' = TRUE /\ RunProbe

(* At most one probe; one that is not forced keeps a minimum gap.          *)
RequestCheck(force) ==
  \/ probe # "none" /\ UNCHANGED service
  \/ probe = "none" /\ recent /\ ~force /\ UNCHANGED service
  \/ probe = "none" /\ (force \/ ~recent) /\ recent' = TRUE /\ RunProbe

Start ==
  /\ ~started /\ ~stopped /\ started' = TRUE
  /\ UNCHANGED <<stopped, world>>
  /\ RequestCheck(TRUE)

(* The operator asks, or a request failed on the way.                      *)
CheckNow ==
  /\ ~stopped /\ UNCHANGED <<phase, world>>
  /\ RequestCheck(FALSE)

(* Called before the backend is used: probes only on an old verdict.       *)
EnsureFresh ==
  /\ ~stopped /\ probe = "none" /\ (status = "checking" \/ ~fresh)
  /\ UNCHANGED <<phase, world>>
  /\ RequestCheck(FALSE)

(* The machine wakes up.                                                   *)
Resume ==
  /\ started /\ UNCHANGED <<phase, world>>
  /\ RequestCheck(TRUE)

(* A forced check; SilentWhenOnline says no probe waits while it is armed. *)
TimerFires ==
  /\ timer /\ UNCHANGED <<phase, world>>
  /\ probe = "none" /\ recent' = TRUE /\ RunProbe

(* /up says the backend is up: nothing is scheduled.                       *)
ProbeSucceeds ==
  /\ probe = "asking" /\ net /\ backend
  /\ probe' = "none" /\ status' = "online" /\ fresh' = TRUE
  /\ UNCHANGED <<timer, recent, phase, world>>

(* Neither the question nor its answer will arrive: the service learns of   *)
(* it later, by an error or by its own timeout.                            *)
ProbeLost ==
  /\ probe = "asking" /\ ~(net /\ backend)
  /\ probe' = "lost"
  /\ UNCHANGED <<status, fresh, timer, recent, phase, world>>

(* An unhealthy answer, a timeout or a refused connection.                 *)
ProbeFails ==
  /\ probe = "lost"
  /\ probe' = "none" /\ status' = "unreachable" /\ fresh' = TRUE
  /\ timer' = started
  /\ UNCHANGED <<recent, phase, world>>

(* Mutant: the answer to a request leaves a pending timer armed.           *)
ObserveAnswer_KeepTimer ==
  /\ ~stopped /\ net /\ backend
  /\ fresh' = TRUE /\ status' = "online"
  /\ UNCHANGED <<probe, timer, recent, phase, world>>

(* A desktop request was answered below 500: a waiting retry has nothing    *)
(* left to discover.  A probe in flight is left alone.                     *)
ObserveAnswer ==
  /\ ~stopped /\ net /\ backend
  /\ fresh' = TRUE /\ status' = "online"
  /\ timer' = (timer /\ status = "online")
  /\ UNCHANGED <<probe, recent, phase, world>>

(* A 5xx says nothing about health: let /up decide.                        *)
ObserveServerError ==
  /\ ~stopped /\ net /\ status # "online" /\ UNCHANGED <<phase, world>>
  /\ RequestCheck(FALSE)

(* The probe in flight is aborted and its generation is over.              *)
Shutdown ==
  /\ ~stopped /\ stopped' = TRUE /\ started' = FALSE
  /\ timer' = FALSE /\ probe' = "none"
  /\ UNCHANGED <<status, fresh, recent, world>>

-----------------------------------------------------------------------------
(* Time, the network and the backend.                                      *)
GapPasses ==
  /\ recent /\ recent' = FALSE
  /\ UNCHANGED <<status, fresh, probe, timer, phase, world>>

GrowsStale ==
  /\ fresh /\ fresh' = FALSE
  /\ UNCHANGED <<status, probe, timer, recent, phase, world>>

Outage ==
  /\ outages < MaxOutages /\ outages' = outages + 1
  /\ \/ net /\ net' = FALSE /\ UNCHANGED backend
     \/ backend /\ backend' = FALSE /\ UNCHANGED net
  /\ UNCHANGED <<service, phase>>

NetworkReturns ==
  /\ ~net /\ net' = TRUE
  /\ UNCHANGED <<service, phase, backend, outages>>

BackendReturns ==
  /\ ~backend /\ backend' = TRUE
  /\ UNCHANGED <<service, phase, net, outages>>

Next ==
  \/ Start \/ CheckNow \/ EnsureFresh \/ Resume \/ TimerFires
  \/ ProbeSucceeds \/ ProbeLost \/ ProbeFails \/ ObserveAnswer \/ ObserveServerError
  \/ Shutdown \/ GapPasses \/ GrowsStale
  \/ Outage \/ NetworkReturns \/ BackendReturns

Spec == Init /\ [][Next]_vars

(* Timers fire, a probe ends (by its own timeout if need be), an outage     *)
(* ends.  Nobody presses a button and no request is made.                  *)
FairSpec ==
  /\ Spec
  /\ WF_vars(TimerFires) /\ WF_vars(ProbeSucceeds \/ ProbeLost \/ ProbeFails)
  /\ WF_vars(NetworkReturns) /\ WF_vars(BackendReturns)

-----------------------------------------------------------------------------
(* Properties                                                              *)

(* A started till that is not online has a probe on the way or a timer      *)
(* armed: no throttled, answered or coalesced check leaves it disconnected *)
(* with nothing left that would find out.                                  *)
KeepsTrying == started /\ status # "online" => timer \/ probe # "none"

(* A healthy device is silent: no timer is left behind by an earlier       *)
(* failure once the till is online.                                        *)
SilentWhenOnline == timer => status # "online" /\ probe = "none"

(* A till that is not online gets online by itself when the outage is over.*)
Recovers == started /\ status # "online" ~> status = "online" \/ stopped

=============================================================================
