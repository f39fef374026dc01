------------------------------- MODULE MCTill -------------------------------
(***************************************************************************)
(* Small instances of the services a till runs beside the upload lane and  *)
(* the stock requests, and of the catalog gate, whose holds have to end.   *)
(* They share no state the modules tell apart, so one is explored at a     *)
(* time: `exploring` is chosen at the start and stays, a behaviour is one  *)
(* of that service, and the others rest in their initial states.           *)
(***************************************************************************)
EXTENDS AllocationLedger, DispositionConvergence, EntityCreate, DeviceHeartbeat,
        SessionAccess, PrintJobs, Connectivity, CatalogInstall

CONSTANT Services \* the services explored

VARIABLE exploring

tillVars == <<exploring, ledgerVars, convergenceVars, createVars, beatVars, accessVars,
              printVars, vars, installVars>>

\* Two frozen proofs of one grant in a quarantined sale.
TwoProofs == <<[grant |-> "a", sequence |-> 1], [grant |-> "a", sequence |-> 2]>>

\* The back-off window grows once.
TwoWindows == <<1, 3>>

(* The type invariants of the services: what their columns and fields can  *)
(* hold, and in EntityCreate what its CHECK constraints demand.            *)
TillTypeOK ==
  /\ exploring \in Services /\ LedgerTypeOK /\ ConvergenceTypeOK /\ CreateTypeOK
  /\ BeatTypeOK /\ AccessTypeOK /\ PrintTypeOK /\ TypeOK /\ InstallTypeOK

TillInit ==
  /\ exploring \in Services /\ LedgerInit /\ ConvergenceInit /\ CreateInit
  /\ BeatInit /\ AccessInit /\ PrintInit /\ Init /\ InstallInit
  /\ exploring # "connectivity" => net /\ backend

TillNext ==
  /\ UNCHANGED exploring
  /\ \/ /\ exploring = "ledger" /\ LedgerNext
        /\ UNCHANGED <<convergenceVars, createVars, beatVars, accessVars, printVars, vars,
                       installVars>>
     \/ /\ exploring = "dispositions" /\ ConvergenceNext
        /\ UNCHANGED <<ledgerVars, createVars, beatVars, accessVars, printVars, vars,
                       installVars>>
     \/ /\ exploring = "entities" /\ CreateNext
        /\ UNCHANGED <<ledgerVars, convergenceVars, beatVars, accessVars, printVars, vars,
                       installVars>>
     \/ /\ exploring = "heartbeat" /\ BeatNext
        /\ UNCHANGED <<ledgerVars, convergenceVars, createVars, accessVars, printVars, vars,
                       installVars>>
     \/ /\ exploring = "access" /\ AccessNext
        /\ UNCHANGED <<ledgerVars, convergenceVars, createVars, beatVars, printVars, vars,
                       installVars>>
     \/ /\ exploring = "printing" /\ PrintNext
        /\ UNCHANGED <<ledgerVars, convergenceVars, createVars, beatVars, accessVars, vars,
                       installVars>>
     \/ /\ exploring = "connectivity" /\ Next
        /\ UNCHANGED <<ledgerVars, convergenceVars, createVars, beatVars, accessVars, printVars,
                       installVars>>
     \/ /\ exploring = "catalog" /\ InstallNext
        /\ UNCHANGED <<ledgerVars, convergenceVars, createVars, beatVars, accessVars, printVars, vars>>

(* A recovery goes on when it is triggered, and the backend decides.       *)
RecoveryFairness ==
  /\ WF_ledgerVars(exploring = "ledger" /\ RecoveryStep)
  /\ \A g \in Grants : WF_ledgerVars(exploring = "ledger" /\ Advance(g))

(* A question about dispositions is asked, answered, and asked again after *)
(* the interval; a requeued sale is uploaded.                              *)
ConvergenceFairness ==
  /\ WF_convergenceVars(exploring = "dispositions" /\ RequestConvergence)
  /\ WF_convergenceVars(exploring = "dispositions" /\ (ServerTells \/ RunApplies))
  /\ WF_convergenceVars(exploring = "dispositions" /\ IntervalPasses)
  /\ WF_convergenceVars(exploring = "dispositions" /\ \E i \in Quarantine : Reuploads(i))

(* A drain of the entity outbox runs to its end, requests on the wire      *)
(* arrive, timers fire, bootstraps are made.                               *)
CreateFairness ==
  /\ WF_createVars(exploring = "entities" /\ DrainStep)
  /\ WF_createVars(exploring = "entities" /\ WireStep)
  /\ WF_createVars(exploring = "entities" /\ RetryTimerFires)
  /\ WF_createVars(exploring = "entities" /\ RetryDue)
  /\ WF_createVars(exploring = "entities" /\ Bootstraps)

(* Time passes, the timer fires, a request is answered or times out, a     *)
(* machine asleep wakes up.                                                *)
BeatFairness ==
  /\ WF_beatVars(exploring = "heartbeat" /\ OnTimer)
  /\ WF_beatVars(exploring = "heartbeat" /\ BeatAnswered)
  /\ WF_beatVars(exploring = "heartbeat" /\ ResumeBeat)
  /\ WF_beatVars(exploring = "heartbeat" /\ Tick)

(* As FairSpec of Connectivity.                                            *)
ConnectionFairness ==
  /\ WF_vars(exploring = "connectivity" /\ TimerFires)
  /\ WF_vars(exploring = "connectivity" /\ (ProbeSucceeds \/ ProbeLost \/ ProbeFails))
  /\ WF_vars(exploring = "connectivity" /\ NetworkReturns)
  /\ WF_vars(exploring = "connectivity" /\ BackendReturns)

(* The window answers a hold or its deadline passes, its messages reach    *)
(* the gate and the gate's reach it, and the poll is made and answered.    *)
InstallFairness ==
  /\ WF_installVars(exploring = "catalog" /\ (ReplyArrives \/ ReplyNeverComes))
  /\ WF_installVars(exploring = "catalog"
                    /\ (ReportArrives \/ CompleteArrives \/ RetryArrives \/ RefreshArrives))
  /\ WF_installVars(exploring = "catalog" /\ (HoldArrives \/ ReleaseArrives \/ AnswerArrives))
  /\ WF_installVars(exploring = "catalog" /\ Poll)
  /\ WF_installVars(exploring = "catalog" /\ (ReadStatus \/ ApplyStatus))

TillSpec ==
  /\ TillInit /\ [][TillNext]_tillVars
  /\ RecoveryFairness /\ ConvergenceFairness /\ CreateFairness /\ BeatFairness /\ ConnectionFairness
  /\ InstallFairness
=============================================================================
