---------------------- MODULE AllocationDispatchProofs ----------------------
(***************************************************************************)
(* Proofs about reservation requests, for every set of attempts and keys   *)
(* and every budget of faults.                                             *)
(***************************************************************************)
EXTENDS AllocationDispatch, FiniteSetTheorems, TLAPS

(* What makes the invariants inductive: a request on its way has an        *)
(* outstanding row, and a grant on its way is stored on the server.        *)
OnItsWay ==
  \A k \in Key : /\ conn[k] # "idle" => row[k] = "dispatched"
                 /\ conn[k] = "granted" => k \in held

IInv == /\ TypeOK /\ EvidenceFirst /\ GrantedIsHeld /\ SoldMeansCommitted
        /\ OnItsWay

-----------------------------------------------------------------------------
(* One turn of the main process, whichever process resumes in it.          *)

(* The types of what a turn writes.                                        *)
TurnTypes ==
  /\ attempt' \in [Attempt -> AttemptState] /\ invoice' \subseteq Attempt
  /\ row' \in [Key -> RowState] /\ born' \in [Key -> Nat]
  /\ later' \subseteq Key
  /\ conn' \in [Key -> {"idle", "open"} \cup Answer]
  /\ task' \in [Process -> Task] /\ clean' \in [Key -> BOOLEAN]

(* A turn changes a row only by sending its request: again, or for the     *)
(* first time in the name of an attempt in progress, one in a turn.        *)
TurnSends ==
  /\ \A k \in Key :
       \/ row'[k] = row[k] /\ conn'[k] = conn[k]
       \/ /\ row'[k] = "dispatched" /\ conn[k] = "idle" /\ conn'[k] = "open"
          /\ \/ row[k] \in {"dispatched", "refused"}
             \/ row[k] = "absent" /\ attempt[AttemptOf[k]] = "claimed"
  /\ \A j, k \in Key :
       row[j] = "absent" /\ row'[j] # "absent" /\ row[k] = "absent"
         /\ row'[k] # "absent" => j = k

Turn ==
  /\ TurnTypes /\ TurnSends /\ SoldMeansCommitted'
  /\ UNCHANGED <<doubtful, held, late, up, ready, faults>>

LEMMA IdleIsTask == Idle \in Task
BY DEF Idle, Task, Resolution

LEMMA WaitingIsTask ==
  ASSUME NEW k \in Key, NEW rest \in SUBSET Copy, NEW own \in BOOLEAN
  PROVE  Waiting(k, rest, own) \in Task
BY DEF Waiting, Task, Resolution

LEMMA CopiesAreCopies ==
  ASSUME NEW K \in SUBSET Key PROVE Copies(K) \subseteq Copy
<1>1. ASSUME NEW k \in K PROVE [key |-> k, clean |-> k \notin doubtful] \in Copy
  <2>1. (k \notin doubtful) \in BOOLEAN
    OBVIOUS
  <2> QED BY <2>1 DEF Copy
<1> QED BY <1>1 DEF Copies

(* What sending one recorded request changes.                              *)
LEMMA SendTurn ==
  ASSUME TypeOK, NEW p \in Process, NEW c \in Copy, NEW rest \in SUBSET Copy,
         NEW own \in BOOLEAN, SendRecorded(p, c, rest, own),
         UNCHANGED <<attempt, invoice>>
  PROVE  TurnTypes /\ TurnSends
<1>1. c.key \in Key /\ c.clean \in BOOLEAN
  BY DEF Copy
<1>2. Waiting(c.key, rest, own) \in Task /\ Waiting(c.key, rest, FALSE) \in Task
  BY <1>1, WaitingIsTask
<1>3. CASE Join(p, c, rest, own)
  BY <1>1, <1>2, <1>3 DEF Join, TypeOK, TurnTypes, TurnSends
<1>4. CASE Transmit(p, c, rest, own)
  <2>1. TurnTypes
    BY <1>1, <1>2, <1>4 DEF Transmit, TypeOK, TurnTypes, RowState
  <2>2. TurnSends
    BY <1>1, <1>4 DEF Transmit, Sendable, TypeOK, TurnSends
  <2> QED BY <2>1, <2>2
<1>5. CASE SendThrows(p, c, rest)
  <2>1. [Waiting(c.key, rest, FALSE) EXCEPT !.pc = "woken", !.res = "threw"] \in Task
    BY <1>1 DEF Waiting, Task, Resolution
  <2>2. task' \in [Process -> Task]
    BY <1>5, <2>1, IdleIsTask DEF SendThrows, TypeOK
  <2> QED BY <1>5, <2>2 DEF SendThrows, TypeOK, TurnTypes, TurnSends
<1> QED BY <1>3, <1>4, <1>5 DEF SendRecorded

LEMMA SendFirstTurn ==
  ASSUME TypeOK, NEW p \in Process, NEW S \in SUBSET Copy, SendFirst(p, S),
         UNCHANGED <<attempt, invoice>>
  PROVE  TurnTypes /\ TurnSends
<1>1. PICK c \in Oldest(S) : SendRecorded(p, c, S \ {c}, FALSE)
  BY DEF SendFirst
<1>2. c \in Copy /\ S \ {c} \in SUBSET Copy
  BY DEF Oldest
<1> QED BY <1>1, <1>2, SendTurn

(* The business transaction and the early returns send nothing.            *)
LEMMA BlockedTurn ==
  ASSUME TypeOK, SoldMeansCommitted, NEW a \in Attempt, Blocked(a)
  PROVE  TurnTypes /\ TurnSends /\ SoldMeansCommitted'
BY IdleIsTask DEF Blocked, TypeOK, TurnTypes, TurnSends, SoldMeansCommitted, Process

LEMMA BusinessTurn ==
  ASSUME TypeOK, SoldMeansCommitted, NEW a \in Attempt, Business(a)
  PROVE  TurnTypes /\ TurnSends /\ SoldMeansCommitted'
<1>1. task' \in [Process -> Task]
  BY IdleIsTask DEF Business, TypeOK, Process
<1>2. TurnSends
  BY DEF Business, TurnSends
<1>3. attempt' \in [Attempt -> AttemptState] /\ invoice' \subseteq Attempt
  BY DEF Business, TypeOK, AttemptState
<1>4. SoldMeansCommitted'
  BY DEF Business, TypeOK, SoldMeansCommitted, AttemptState
<1> QED BY <1>1, <1>2, <1>3, <1>4 DEF Business, TypeOK, TurnTypes

LEMMA MintTurn ==
  ASSUME IInv, NEW a \in Attempt, NEW k \in KeysOf(a), Mint(a, k)
  PROVE  TurnTypes /\ TurnSends /\ SoldMeansCommitted'
<1>1. k \in Key /\ AttemptOf[k] = a
  BY DEF KeysOf
<1>2. conn[k] = "idle"
  BY <1>1 DEF IInv, OnItsWay, Mint
<1>3. Waiting(k, {}, TRUE) \in Task
  BY <1>1, WaitingIsTask
<1>4. 1 + Cardinality(Minted) \in Nat
  <2>1. IsFiniteSet(Minted)
    BY AttemptAssumption, FS_Subset DEF Minted
  <2> QED BY <2>1, FS_CardinalityType
<1>5. TurnTypes
  BY <1>1, <1>3, <1>4 DEF Mint, IInv, TypeOK, TurnTypes, RowState, Process
<1>6. TurnSends
  BY <1>1, <1>2 DEF Mint, IInv, TypeOK, TurnSends
<1>7. SoldMeansCommitted'
  BY DEF Mint, IInv, SoldMeansCommitted
<1> QED BY <1>5, <1>6, <1>7

LEMMA DecideTurn ==
  ASSUME IInv, NEW a \in Attempt, NEW online \in BOOLEAN, Decide(a, online)
  PROVE  TurnTypes /\ TurnSends /\ SoldMeansCommitted'
<1>1. CASE Blocked(a)
  BY <1>1, BlockedTurn DEF IInv
<1>2. CASE Business(a)
  BY <1>2, BusinessTurn DEF IInv
<1>3. CASE \E k \in KeysOf(a) : Mint(a, k)
  BY <1>3, MintTurn
<1>4. CASE /\ \E k \in KeysOf(a) : \E c \in Copies({k}) : SendRecorded(a, c, {}, TRUE)
           /\ UNCHANGED <<attempt, invoice, kick>>
  <2>1. PICK k \in KeysOf(a) : \E c \in Copies({k}) : SendRecorded(a, c, {}, TRUE)
    BY <1>4
  <2>2. PICK c \in Copies({k}) : SendRecorded(a, c, {}, TRUE)
    BY <2>1
  <2>3. c \in Copy
    BY CopiesAreCopies DEF KeysOf
  <2>4. TurnTypes /\ TurnSends
    BY <1>4, <2>2, <2>3, SendTurn DEF IInv, Process
  <2> QED BY <1>4, <2>4 DEF IInv, SoldMeansCommitted
<1> QED BY <1>1, <1>2, <1>3, <1>4 DEF Decide

LEMMA AcquireTurn ==
  ASSUME IInv, NEW a \in Attempt, Acquire(a) PROVE Turn
<1> DEFINE mine == Outstanding \cap KeysOf(a)
<1>0. UNCHANGED <<doubtful, held, late, up, ready, faults>>
  BY DEF Acquire
<1>1. CASE Business(a)
  BY <1>0, <1>1, BusinessTurn DEF IInv, Turn
<1>2. CASE SendFirst(a, Copies(mine)) /\ UNCHANGED <<attempt, invoice, kick>>
  <2>1. Copies(mine) \in SUBSET Copy
    BY CopiesAreCopies DEF KeysOf
  <2>2. TurnTypes /\ TurnSends
    BY <1>2, <2>1, SendFirstTurn DEF IInv, Process
  <2> QED BY <1>0, <1>2, <2>2 DEF IInv, SoldMeansCommitted, Turn
<1>3. CASE Decide(a, ready)
  BY <1>0, <1>3, DecideTurn DEF IInv, TypeOK, Turn
<1> QED BY <1>1, <1>2, <1>3 DEF Acquire

LEMMA ResumeTurn ==
  ASSUME IInv, NEW a \in Attempt, Resume(a) PROVE Turn
<1>0. UNCHANGED <<doubtful, held, late, up, ready, faults>>
  BY DEF Resume
<1>1. CASE Blocked(a)
  BY <1>0, <1>1, BlockedTurn DEF IInv, Turn
<1>2. CASE Business(a)
  BY <1>0, <1>2, BusinessTurn DEF IInv, Turn
<1>3. CASE SendFirst(a, task[a].rest) /\ UNCHANGED <<attempt, invoice, kick>>
  <2>1. task[a].rest \in SUBSET Copy
    BY DEF IInv, TypeOK, Task, Process
  <2>2. TurnTypes /\ TurnSends
    BY <1>3, <2>1, SendFirstTurn DEF IInv, Process
  <2> QED BY <1>0, <1>3, <2>2 DEF IInv, SoldMeansCommitted, Turn
<1>4. CASE Decide(a, TRUE)
  BY <1>0, <1>4, DecideTurn DEF Turn
<1> QED BY <1>1, <1>2, <1>3, <1>4 DEF Resume

LEMMA FinishRunTurn ==
  ASSUME TypeOK, FinishRun, UNCHANGED <<attempt, invoice>>
  PROVE  TurnTypes /\ TurnSends
BY IdleIsTask DEF FinishRun, TypeOK, TurnTypes, TurnSends, Process

LEMMA RequestRunTurn ==
  ASSUME IInv, RequestRun
  PROVE  Turn /\ kick' \in BOOLEAN /\ rerun' \in BOOLEAN /\ timer' \in BOOLEAN
<1>1. UNCHANGED <<attempt, invoice, doubtful, held, late, up, ready, faults>>
  BY DEF RequestRun
<1>2. kick' \in BOOLEAN /\ rerun' \in BOOLEAN /\ timer' \in BOOLEAN
  BY DEF RequestRun, FinishRun, IInv, TypeOK
<1> SUFFICES Turn
  BY <1>2
<1>3. CASE UNCHANGED <<row, born, later, conn, clean, task>>
  BY <1>1, <1>3 DEF IInv, TypeOK, TurnTypes, TurnSends, SoldMeansCommitted, Turn
<1>4. CASE FinishRun
  BY <1>1, <1>4, FinishRunTurn DEF IInv, SoldMeansCommitted, Turn
<1>5. CASE SendFirst(Reconciler, Copies(Due))
  <2>1. Copies(Due) \in SUBSET Copy
    BY CopiesAreCopies DEF Due, Outstanding
  <2>2. TurnTypes /\ TurnSends
    BY <1>1, <1>5, <2>1, SendFirstTurn DEF IInv, Process
  <2> QED BY <1>1, <2>2 DEF IInv, SoldMeansCommitted, Turn
<1> QED BY <1>3, <1>4, <1>5 DEF RequestRun

LEMMA ResumeRunTurn ==
  ASSUME IInv, ResumeRun
  PROVE  Turn /\ kick' \in BOOLEAN /\ rerun' \in BOOLEAN /\ timer' \in BOOLEAN
<1>1. UNCHANGED <<attempt, invoice, doubtful, held, late, up, ready, faults>>
  BY DEF ResumeRun
<1>2. kick' \in BOOLEAN /\ rerun' \in BOOLEAN /\ timer' \in BOOLEAN
  BY DEF ResumeRun, FinishRun, IInv, TypeOK, wake
<1> SUFFICES Turn
  BY <1>2
<1>3. CASE FinishRun
  BY <1>1, <1>3, FinishRunTurn DEF IInv, SoldMeansCommitted, Turn
<1>4. CASE SendFirst(Reconciler, task[Reconciler].rest)
  <2>1. task[Reconciler].rest \in SUBSET Copy
    BY DEF IInv, TypeOK, Task, Process
  <2>2. TurnTypes /\ TurnSends
    BY <1>1, <1>4, <2>1, SendFirstTurn DEF IInv, Process
  <2> QED BY <1>1, <2>2 DEF IInv, SoldMeansCommitted, Turn
<1> QED BY <1>3, <1>4 DEF ResumeRun

(* A turn preserves the invariant.                                         *)
LEMMA TurnKeeps ==
  ASSUME IInv, Turn, kick' \in BOOLEAN, rerun' \in BOOLEAN, timer' \in BOOLEAN
  PROVE  IInv'
<1>1. TypeOK'
  BY DEF IInv, TypeOK, Turn, TurnTypes
<1>2. EvidenceFirst'
  BY DEF IInv, EvidenceFirst, Turn, TurnSends
<1>3. GrantedIsHeld' /\ OnItsWay'
  BY DEF IInv, GrantedIsHeld, OnItsWay, Turn, TurnSends
<1> QED BY <1>1, <1>2, <1>3 DEF IInv, Turn

-----------------------------------------------------------------------------
(* The steps that are not turns.                                           *)

LEMMA SettledTasks ==
  ASSUME TypeOK, NEW k \in Key, NEW res \in Resolution
  PROVE  Settled(k, res) \in [Process -> Task]
<1> SUFFICES ASSUME NEW p \in Process
             PROVE  [task[p] EXCEPT !.pc = "woken", !.res = res] \in Task
  BY DEF Settled, TypeOK
<1>1. task[p] \in Task
  BY DEF TypeOK
<1> QED BY <1>1 DEF Task

(* The answers of the server.                                              *)
LEMMA ServerKeeps ==
  ASSUME IInv, NEW k \in Key, ServerAnswers(k) \/ ServerFails(k)
  PROVE  IInv'
<1> USE DEF Reply, Fault, durable, wake
<1>1. PICK answer \in Answer :
        /\ conn[k] = "open" /\ conn' = [conn EXCEPT ![k] = answer]
        /\ held' \in {held, held \cup {k}}
        /\ answer = "granted" => k \in held'
  BY DEF ServerAnswers, ServerFails, ServerGrants, ServerRefuses, ServerDenies,
         ServerBusy, ServerMalformed, ServerRejectsBytes, Answer
<1>2. /\ UNCHANGED <<durable, late, up, ready, task, clean, wake>>
      /\ faults' = faults \/ (faults < MaxFaults /\ faults' = faults + 1)
  BY DEF ServerAnswers, ServerFails, ServerGrants, ServerRefuses, ServerDenies,
         ServerBusy, ServerMalformed, ServerRejectsBytes
<1>3. faults' \in 0 .. MaxFaults
  BY <1>2, FaultAssumption DEF IInv, TypeOK
<1>4. TypeOK'
  BY <1>1, <1>2, <1>3 DEF IInv, TypeOK
<1>5. EvidenceFirst' /\ GrantedIsHeld' /\ SoldMeansCommitted'
  BY <1>1, <1>2 DEF IInv, TypeOK, EvidenceFirst, GrantedIsHeld,
                    SoldMeansCommitted, OnItsWay
<1>6. OnItsWay'
  BY <1>1, <1>2 DEF IInv, TypeOK, OnItsWay
<1> QED BY <1>4, <1>5, <1>6 DEF IInv

(* The answer reaches the till.                                            *)
LEMMA ReceiveKeeps ==
  ASSUME IInv, NEW k \in Key, Receive(k)
  PROVE  IInv'
<1>1. row[k] = "dispatched" /\ (conn[k] = "granted" => k \in held)
  BY DEF IInv, OnItsWay, Receive, Answer
<1>2. /\ NewState(k, conn[k]) \in RowState \ {"absent"}
      /\ NewState(k, conn[k]) = "granted" => conn[k] = "granted"
  BY <1>1 DEF NewState, RowState
<1>3. ResolutionOf(k, conn[k]) \in Resolution
  BY DEF ResolutionOf, Resolution
<1>4. task' \in [Process -> Task]
  BY <1>3, SettledTasks DEF Receive, IInv
<1>5. TypeOK'
  <2>1. row' \in [Key -> RowState] /\ conn' \in [Key -> {"idle", "open"} \cup Answer]
    BY <1>2 DEF Receive, IInv, TypeOK
  <2>2. doubtful' \subseteq Key /\ later' \subseteq Key
    BY DEF Receive, IInv, TypeOK
  <2> QED BY <1>4, <2>1, <2>2 DEF Receive, IInv, TypeOK, wake
<1>6. \A j \in Key \ {k} : row'[j] = row[j] /\ conn'[j] = conn[j]
  BY DEF Receive, IInv, TypeOK
<1>7. row'[k] = NewState(k, conn[k]) /\ conn'[k] = "idle"
  BY DEF Receive, IInv, TypeOK
<1>8. EvidenceFirst' /\ GrantedIsHeld' /\ OnItsWay'
  BY <1>1, <1>2, <1>6, <1>7 DEF Receive, IInv, EvidenceFirst, GrantedIsHeld, OnItsWay
<1>9. SoldMeansCommitted'
  BY DEF Receive, IInv, SoldMeansCommitted
<1> QED BY <1>5, <1>8, <1>9 DEF IInv

(* A send that ends without its answer recorded.                           *)
LEMMA LossKeeps ==
  ASSUME IInv, NEW k \in Key, ReceiveUnrecorded(k) \/ GiveUp(k)
  PROVE  IInv'
<1>1. PICK res \in Resolution : task' = Settled(k, res)
  BY DEF ReceiveUnrecorded, GiveUp, Resolution
<1>2. /\ conn' = [conn EXCEPT ![k] = "idle"] /\ conn[k] # "idle"
      /\ faults < MaxFaults /\ faults' = faults + 1
      /\ doubtful' \in {doubtful, doubtful \cup {k}}
      /\ late' \in {late, late \cup {k}}
      /\ UNCHANGED <<attempt, invoice, row, born, later, held, up, ready, clean, wake>>
  BY DEF ReceiveUnrecorded, GiveUp, Fault, Answer
<1>3. faults' \in 0 .. MaxFaults
  BY <1>2, FaultAssumption DEF IInv, TypeOK
<1>4. task' \in [Process -> Task]
  BY <1>1, SettledTasks DEF IInv
<1>5. TypeOK'
  BY <1>2, <1>3, <1>4 DEF IInv, TypeOK, wake
<1>6. row[k] = "dispatched"
  BY <1>2 DEF IInv, OnItsWay
<1>7. EvidenceFirst' /\ GrantedIsHeld' /\ SoldMeansCommitted' /\ OnItsWay'
  BY <1>2, <1>6 DEF IInv, TypeOK, EvidenceFirst, GrantedIsHeld,
                    SoldMeansCommitted, OnItsWay
<1> QED BY <1>5, <1>7 DEF IInv

(* The cashier and the catalog move an attempt.                            *)
LEMMA CashierKeeps ==
  ASSUME IInv, NEW a \in Attempt, Begin(a) \/ Abandon(a) \/ Settle(a) \/ Acknowledge(a)
  PROVE  IInv'
<1> USE DEF server, wake
<1>1. [Idle EXCEPT !.pc = "prepared"] \in Task
  BY DEF Idle, Task, Resolution
<1>2. task' \in [Process -> Task]
  BY <1>1 DEF Begin, Abandon, Settle, Acknowledge, IInv, TypeOK
<1>3. attempt' \in [Attempt -> AttemptState] /\ SoldMeansCommitted'
  BY DEF Begin, Abandon, Settle, Acknowledge, IInv, TypeOK, SoldMeansCommitted,
         AttemptState
<1>4. UNCHANGED <<invoice, row, born, doubtful, later, held, conn, late, up, ready,
                  clean, kick, rerun, timer, faults>>
  BY DEF Begin, Abandon, Settle, Acknowledge
<1> QED BY <1>2, <1>3, <1>4
        DEF IInv, TypeOK, EvidenceFirst, GrantedIsHeld, OnItsWay

(* Timers, triggers, connectivity and restarts.                            *)
LEMMA OutsideKeeps ==
  ASSUME IInv,
         \/ \E k \in Key : ServeLate(k) \/ RetryAfterPasses(k)
         \/ TimerFires \/ GoOnline \/ GoOffline \/ SessionChanged \/ Start
  PROVE  IInv'
<1> USE DEF durable, server, wake
<1>1. CASE \E k \in Key : ServeLate(k)
  BY <1>1 DEF ServeLate, IInv, TypeOK, EvidenceFirst, GrantedIsHeld,
              SoldMeansCommitted, OnItsWay
<1>2. CASE \E k \in Key : RetryAfterPasses(k)
  BY <1>2 DEF RetryAfterPasses, IInv, TypeOK, EvidenceFirst, GrantedIsHeld,
              SoldMeansCommitted, OnItsWay
<1>3. CASE TimerFires \/ GoOnline \/ SessionChanged \/ Start
  BY <1>3 DEF TimerFires, GoOnline, SessionChanged, Start, IInv, TypeOK,
              EvidenceFirst, GrantedIsHeld, SoldMeansCommitted, OnItsWay
<1>4. CASE GoOffline
  <2>1. faults' \in 0 .. MaxFaults
    BY <1>4, FaultAssumption DEF GoOffline, Fault, IInv, TypeOK
  <2> QED BY <1>4, <2>1 DEF GoOffline, IInv, TypeOK, EvidenceFirst,
                           GrantedIsHeld, SoldMeansCommitted, OnItsWay
<1> QED BY <1>1, <1>2, <1>3, <1>4

LEMMA CrashKeeps == ASSUME IInv, Crash PROVE IInv'
<1> USE DEF durable
<1>1. faults' \in 0 .. MaxFaults
  BY FaultAssumption DEF Crash, Fault, IInv, TypeOK
<1>2. late' \subseteq Key /\ \A k \in late' \ late : conn[k] # "idle"
  BY DEF Crash, IInv, TypeOK
<1>3. TypeOK'
  BY <1>1, <1>2, IdleIsTask DEF Crash, IInv, TypeOK
<1>4. EvidenceFirst'
  BY <1>2 DEF Crash, IInv, EvidenceFirst
<1> QED BY <1>3, <1>4 DEF Crash, IInv, GrantedIsHeld, SoldMeansCommitted, OnItsWay

LEMMA StutterKeeps == ASSUME IInv, UNCHANGED vars PROVE IInv'
BY DEF IInv, TypeOK, EvidenceFirst, GrantedIsHeld, SoldMeansCommitted, OnItsWay,
       vars, durable, server, wake

-----------------------------------------------------------------------------
(* Next, as the cases of the proofs.                                       *)
LEMMA NextCases ==
  ASSUME Next
  PROVE  \/ \E a \in Attempt : Acquire(a)
         \/ \E a \in Attempt : Resume(a)
         \/ RequestRun
         \/ ResumeRun
         \/ \E a \in Attempt : Begin(a) \/ Abandon(a) \/ Settle(a) \/ Acknowledge(a)
         \/ \E k \in Key : ServerAnswers(k) \/ ServerFails(k)
         \/ \E k \in Key : Receive(k)
         \/ \E k \in Key : ReceiveUnrecorded(k) \/ GiveUp(k)
         \/ \/ \E k \in Key : ServeLate(k) \/ RetryAfterPasses(k)
            \/ TimerFires \/ GoOnline \/ GoOffline \/ SessionChanged \/ Start
         \/ Crash
BY Zenon DEF Next, Cashier, Network

LEMMA InitInv == ASSUME Init PROVE IInv
<1>1. TypeOK
  <2>1. task \in [Process -> Task]
    BY IdleIsTask DEF Init
  <2>2. faults \in 0 .. MaxFaults
    BY FaultAssumption DEF Init
  <2>3. attempt \in [Attempt -> AttemptState] /\ row \in [Key -> RowState]
    BY DEF Init, AttemptState, RowState
  <2> QED BY <2>1, <2>2, <2>3 DEF Init, TypeOK
<1>2. EvidenceFirst /\ GrantedIsHeld /\ SoldMeansCommitted /\ OnItsWay
  BY DEF Init, EvidenceFirst, GrantedIsHeld, SoldMeansCommitted, OnItsWay
<1> QED BY <1>1, <1>2 DEF IInv

(* Turns of an attempt also keep the flags of the reconciler typed.        *)
LEMMA AttemptTurnFlags ==
  ASSUME IInv, NEW a \in Attempt, Acquire(a) \/ Resume(a)
  PROVE  kick' \in BOOLEAN /\ rerun' \in BOOLEAN /\ timer' \in BOOLEAN
<1>1. rerun' = rerun /\ timer' = timer
  BY DEF Acquire, Resume
<1>2. kick' = kick \/ kick' = TRUE
  BY DEF Acquire, Resume, Decide, Business, Blocked, Mint
<1> QED BY <1>1, <1>2 DEF IInv, TypeOK

LEMMA InvNext == ASSUME IInv, [Next]_vars PROVE IInv'
<1>1. CASE \E a \in Attempt : Acquire(a)
  BY <1>1, AcquireTurn, AttemptTurnFlags, TurnKeeps
<1>2. CASE \E a \in Attempt : Resume(a)
  BY <1>2, ResumeTurn, AttemptTurnFlags, TurnKeeps
<1>3. CASE RequestRun
  BY <1>3, RequestRunTurn, TurnKeeps
<1>4. CASE ResumeRun
  BY <1>4, ResumeRunTurn, TurnKeeps
<1>5. CASE \E a \in Attempt : Begin(a) \/ Abandon(a) \/ Settle(a) \/ Acknowledge(a)
  BY <1>5, CashierKeeps
<1>6. CASE \E k \in Key : ServerAnswers(k) \/ ServerFails(k)
  BY <1>6, ServerKeeps
<1>7. CASE \E k \in Key : Receive(k)
  BY <1>7, ReceiveKeeps
<1>8. CASE \E k \in Key : ReceiveUnrecorded(k) \/ GiveUp(k)
  BY <1>8, LossKeeps
<1>9. CASE \/ \E k \in Key : ServeLate(k) \/ RetryAfterPasses(k)
           \/ TimerFires \/ GoOnline \/ GoOffline \/ SessionChanged \/ Start
  BY <1>9, OutsideKeeps
<1>10. CASE Crash
  BY <1>10, CrashKeeps
<1>11. CASE UNCHANGED vars
  BY <1>11, StutterKeeps
<1> QED BY <1>1, <1>2, <1>3, <1>4, <1>5, <1>6, <1>7, <1>8, <1>9, <1>10, <1>11,
           NextCases

-----------------------------------------------------------------------------
(* The inductive invariant of reservation requests.                        *)
THEOREM DispatchInvariant == Spec => []IInv
<1>1. Init => IInv
  BY InitInv
<1>2. IInv /\ [Next]_vars => IInv'
  BY InvNext
<1> QED BY <1>1, <1>2, PTL DEF Spec

(* Rows, copies and answers have their types in every reachable state.     *)
THEOREM DispatchTypes == Spec => []TypeOK
<1>1. IInv => TypeOK
  BY DEF IInv
<1> QED BY <1>1, DispatchInvariant, PTL

(* No request exists, nor may still take effect, without its durable row.  *)
THEOREM RequestsHaveEvidence == Spec => []EvidenceFirst
<1>1. IInv => EvidenceFirst
  BY DEF IInv
<1> QED BY <1>1, DispatchInvariant, PTL

(* A row recorded as granted is a reservation the server stores.           *)
THEOREM GrantsAreReal == Spec => []GrantedIsHeld
<1>1. IInv => GrantedIsHeld
  BY DEF IInv
<1> QED BY <1>1, DispatchInvariant, PTL

(* An attempt has an invoice exactly if it is recorded as sold.            *)
THEOREM OnlyCommittedSell == Spec => []SoldMeansCommitted
<1>1. IInv => SoldMeansCommitted
  BY DEF IInv
<1> QED BY <1>1, DispatchInvariant, PTL

-----------------------------------------------------------------------------
(* What a step does to the rows.                                           *)

(* A step that is no turn changes at most the row whose answer it takes.   *)
LEMMA RowSteps ==
  ASSUME IInv, [Next]_vars
  PROVE  \/ Turn
         \/ row' = row
         \/ \E k \in Key : Receive(k)
<1> USE DEF durable, server
<1>1. CASE \E a \in Attempt : Acquire(a)
  BY <1>1, AcquireTurn
<1>2. CASE \E a \in Attempt : Resume(a)
  BY <1>2, ResumeTurn
<1>3. CASE RequestRun
  BY <1>3, RequestRunTurn
<1>4. CASE ResumeRun
  BY <1>4, ResumeRunTurn
<1>5. CASE \E a \in Attempt : Begin(a) \/ Abandon(a) \/ Settle(a) \/ Acknowledge(a)
  BY <1>5 DEF Begin, Abandon, Settle, Acknowledge
<1>6. CASE \E k \in Key : ServerAnswers(k) \/ ServerFails(k)
  BY <1>6 DEF ServerAnswers, ServerFails, ServerGrants, ServerRefuses, ServerDenies,
              ServerBusy, ServerMalformed, ServerRejectsBytes
<1>7. CASE \E k \in Key : Receive(k)
  BY <1>7
<1>8. CASE \E k \in Key : ReceiveUnrecorded(k) \/ GiveUp(k)
  BY <1>8 DEF ReceiveUnrecorded, GiveUp
<1>9. CASE \/ \E k \in Key : ServeLate(k) \/ RetryAfterPasses(k)
           \/ TimerFires \/ GoOnline \/ GoOffline \/ SessionChanged \/ Start
  BY <1>9 DEF ServeLate, RetryAfterPasses, TimerFires, GoOnline, GoOffline,
              SessionChanged, Start
<1>10. CASE Crash
  BY <1>10 DEF Crash
<1>11. CASE UNCHANGED vars
  BY <1>11 DEF vars
<1> QED BY <1>1, <1>2, <1>3, <1>4, <1>5, <1>6, <1>7, <1>8, <1>9, <1>10, <1>11,
           NextCases

(* The answer to a request is taken by an outstanding row.                 *)
LEMMA AnswersSettle ==
  ASSUME IInv, NEW k \in Key, Receive(k)
  PROVE  /\ row[k] = "dispatched"
         /\ \A j \in Key \ {k} : row'[j] = row[j]
         /\ row'[k] # "absent"
         /\ row'[k] = "granted" => k \in held
<1>1. row[k] = "dispatched" /\ (conn[k] = "granted" => k \in held)
  BY DEF IInv, OnItsWay, Receive, Answer
<1>2. row'[k] = NewState(k, conn[k]) /\ \A j \in Key \ {k} : row'[j] = row[j]
  BY DEF Receive, IInv, TypeOK
<1>3. /\ NewState(k, conn[k]) # "absent"
      /\ NewState(k, conn[k]) = "granted" => conn[k] = "granted"
  BY <1>1 DEF NewState
<1> QED BY <1>1, <1>2, <1>3

(* Nothing is asked for an attempt that is no longer in progress.          *)
THEOREM NothingMintedAfterwards == Spec => MintedWhileClaimed
<1>1. ASSUME IInv, [Next]_vars, NEW k \in Key, row[k] = "absent", row'[k] # "absent"
      PROVE  attempt[AttemptOf[k]] = "claimed"
  <2>1. CASE Turn
    BY <1>1, <2>1 DEF Turn, TurnSends
  <2>2. CASE \E j \in Key : Receive(j)
    BY <1>1, <2>2, AnswersSettle
  <2> QED BY <1>1, <2>1, <2>2, RowSteps
<1>2. IInv /\ [Next]_vars =>
        [\A k \in Key : row[k] = "absent" /\ row'[k] # "absent"
           => attempt[AttemptOf[k]] = "claimed"]_vars
  BY <1>1
<1> QED BY <1>2, DispatchInvariant, PTL DEF Spec, MintedWhileClaimed

(* A settled row never changes, whoever sends a copy of it.                *)
THEOREM SettledRowsStay == Spec => SettledIsFinal
<1>1. ASSUME IInv, [Next]_vars, NEW k \in Key,
             row[k] \in {"granted", "conflict", "invalid"}
      PROVE  row'[k] = row[k]
  <2>1. CASE Turn
    BY <1>1, <2>1 DEF Turn, TurnSends
  <2>2. CASE \E j \in Key : Receive(j)
    BY <1>1, <2>2, AnswersSettle
  <2> QED BY <1>1, <2>1, <2>2, RowSteps
<1>2. IInv /\ [Next]_vars =>
        [\A k \in Key : row[k] \in {"granted", "conflict", "invalid"}
           => row'[k] = row[k]]_vars
  BY <1>1
<1> QED BY <1>2, DispatchInvariant, PTL DEF Spec, SettledIsFinal

-----------------------------------------------------------------------------
(* The requests implement Reservation: a turn asks for at most one new     *)
(* request, the server reserves only what was asked, and an answer teaches *)
(* the till only what is reserved.                                         *)
Known == {k \in Key : row[k] = "granted"}

LEMMA TurnAsks ==
  ASSUME IInv, Turn PROVE [Promise!Next]_(Promise!vars)
<1>1. held' = held /\ Known' = Known
  BY DEF Turn, TurnSends, Known
<1>2. Minted \subseteq Minted'
  BY DEF Turn, TurnSends, Minted
<1>3. CASE Minted' = Minted
  BY <1>1, <1>3 DEF Promise!vars, Known
<1>4. CASE Minted' # Minted
  <2>1. PICK k \in Key : k \in Minted' /\ k \notin Minted
    BY <1>2, <1>4 DEF Minted
  <2>2. \A j \in Minted' \ Minted : j = k
    BY <2>1 DEF Turn, TurnSends, Minted
  <2>3. Minted' = Minted \cup {k}
    BY <1>2, <2>1, <2>2
  <2> QED BY <1>1, <2>1, <2>3 DEF Promise!Next, Promise!Ask, Known, Minted
<1> QED BY <1>3, <1>4

LEMMA ReceiveLearns ==
  ASSUME IInv, NEW k \in Key, Receive(k) PROVE [Promise!Next]_(Promise!vars)
<1>1. Minted' = Minted /\ held' = held
  BY AnswersSettle DEF Minted, Receive
<1>2. CASE row'[k] = "granted"
  <2>1. Known' = Known \cup {k} /\ k \notin Known /\ k \in held
    BY <1>2, AnswersSettle DEF Known
  <2> QED BY <1>1, <2>1 DEF Promise!Next, Promise!Learn, Known
<1>3. CASE row'[k] # "granted"
  <2>1. Known' = Known
    BY <1>3, AnswersSettle DEF Known
  <2> QED BY <1>1, <2>1 DEF Promise!vars, Known
<1> QED BY <1>2, <1>3

(* The server stores requests one at a time, and only asked ones.          *)
LEMMA HeldSteps ==
  ASSUME IInv, [Next]_vars
  PROVE  held' = held \/ (row' = row /\ \E k \in Minted \ held : held' = held \cup {k})
<1> USE DEF durable, server
<1>1. CASE \E a \in Attempt : Acquire(a)
  BY <1>1, AcquireTurn DEF Turn
<1>2. CASE \E a \in Attempt : Resume(a)
  BY <1>2, ResumeTurn DEF Turn
<1>3. CASE RequestRun \/ ResumeRun
  BY <1>3, RequestRunTurn, ResumeRunTurn DEF Turn
<1>4. CASE \E a \in Attempt : Begin(a) \/ Abandon(a) \/ Settle(a) \/ Acknowledge(a)
  BY <1>4 DEF Begin, Abandon, Settle, Acknowledge
<1>5. CASE \E k \in Key : ServerAnswers(k) \/ ServerFails(k)
  <2>1. PICK k \in Key : ServerAnswers(k) \/ ServerFails(k)
    BY <1>5
  <2>2. conn[k] = "open" /\ row' = row /\ held' \in {held, held \cup {k}}
    BY <2>1 DEF Reply, ServerAnswers, ServerFails, ServerGrants, ServerRefuses,
                ServerDenies, ServerBusy, ServerMalformed, ServerRejectsBytes
  <2>3. k \in Minted
    BY <2>2 DEF IInv, OnItsWay, Minted
  <2> QED BY <2>2, <2>3
<1>6. CASE \E k \in Key : Receive(k) \/ ReceiveUnrecorded(k) \/ GiveUp(k)
  BY <1>6 DEF Receive, ReceiveUnrecorded, GiveUp
<1>7. CASE \E k \in Key : ServeLate(k) \/ RetryAfterPasses(k)
  BY <1>7 DEF ServeLate, RetryAfterPasses, IInv, EvidenceFirst, Minted
<1>8. CASE TimerFires \/ GoOnline \/ GoOffline \/ SessionChanged \/ Start \/ Crash
  BY <1>8 DEF TimerFires, GoOnline, GoOffline, SessionChanged, Start, Crash
<1>9. CASE UNCHANGED vars
  BY <1>9 DEF vars
<1> QED BY <1>1, <1>2, <1>3, <1>4, <1>5, <1>6, <1>7, <1>8, <1>9, NextCases

LEMMA StepReserves ==
  ASSUME IInv, [Next]_vars PROVE [Promise!Next]_(Promise!vars)
<1>1. CASE Turn
  BY <1>1, TurnAsks
<1>2. CASE \E k \in Key : Receive(k)
  BY <1>2, ReceiveLearns
<1>3. CASE row' = row
  <2>1. Minted' = Minted /\ Known' = Known
    BY <1>3 DEF Minted, Known
  <2>2. CASE held' = held
    BY <2>1, <2>2 DEF Promise!vars, Known
  <2>3. CASE \E k \in Minted \ held : held' = held \cup {k}
    BY <2>1, <2>3 DEF Promise!Next, Promise!Reserve, Known
  <2> QED BY <2>2, <2>3, HeldSteps
<1> QED BY <1>1, <1>2, <1>3, RowSteps

(* Requests to the server are reservations that are never lost or made up. *)
THEOREM RequestsImplementReservation == Spec => ImplementsReservation
<1>1. Init => Promise!Init
  BY DEF Init, Promise!Init, Minted
<1>2. IInv /\ [Next]_vars => [Promise!Next]_(Promise!vars)
  BY StepReserves
<1> QED BY <1>1, <1>2, DispatchInvariant, PTL DEF Spec, ImplementsReservation, Promise!Spec

=============================================================================
