------------------------- MODULE AllocationDispatch -------------------------
(***************************************************************************)
(* Stock reservations of a sale in progress.  A tracked cart that local    *)
(* grants do not cover asks the server for the exact deficit.  The request *)
(* is identified by a key derived from the attempt and the deficit, and a  *)
(* durable row in attempt_allocation_dispatches is written before it is    *)
(* sent.  Two parties send recorded requests: the completion of the        *)
(* attempt (AllocationAcquisitionService.acquire, called by                *)
(* SaleCompletionService) and AllocationDispatchReconciler, which owns     *)
(* what a completion left outstanding.                                     *)
(*                                                                         *)
(* The main process runs one JavaScript turn at a time.  A turn that ends  *)
(* by resolving a promise lets the continuations of its waiters run before *)
(* any other event: Quiet is the guard of every action that is not such a  *)
(* continuation.                                                           *)
(***************************************************************************)
EXTENDS Naturals, FiniteSets

CONSTANTS
  Attempt,      \* sale attempts of one cashier
  Key,          \* idempotency keys, one per attempt and deficit
  NoKey,
  AttemptOf,    \* the attempt a key is derived from
  Reconciler,   \* the process that is not an attempt's completion
  Faults,       \* the kinds of fault that may happen
  MaxFaults     \* bound: how many of them

ASSUME AttemptAssumption ==
  /\ AttemptOf \in [Key -> Attempt]
  /\ IsFiniteSet(Key)
ASSUME NameAssumption == NoKey \notin Key /\ Reconciler \notin Attempt
ASSUME FaultAssumption ==
  /\ Faults \subseteq {"lost", "late", "denied", "busy", "malformed",
                       "integrity", "disk", "offline", "crash"}
  /\ MaxFaults \in Nat

Process == Attempt \cup {Reconciler}

AttemptState ==
  {"open", "claimed", "committed", "acknowledged", "rejected", "abandoned"}
RowState == {"absent", "dispatched", "granted", "refused", "conflict", "invalid"}
Answer == {"granted", "refused", "denied", "conflict", "invalid", "busy",
           "malformed"}
Resolution == {"none", "granted", "refused", "integrity", "unresolved", "threw"}

(* An AllocationDispatchRow in memory: what the database said when it was   *)
(* read. Only ambiguous_send_count = 0 is ever looked at afterwards.        *)
Copy == [key : Key, clean : BOOLEAN]

VARIABLES
  \* SQLite
  attempt,    \* sale_attempts.state
  invoice,    \* attempts with a local invoice
  row,        \* attempt_allocation_dispatches.state
  born,       \* rank of created_at, 0 while there is no row
  doubtful,   \* keys with ambiguous_send_count > 0
  later,      \* keys whose retry_not_before is in the future
  \* the server and the connections to it
  held,       \* keys the server stores a granted request for
  conn,       \* the HTTP exchange of a key: idle, open, or its answer
  late,       \* requests the client gave up on that may still be processed
  \* the main process
  up, ready,  \* running; online, supported and allowed to send
  task,       \* what each process awaits
  clean,      \* the copy the send in flight was given had no ambiguous send
  kick,       \* requestRun has been called and has not run yet
  rerun,      \* AllocationDispatchReconciler.rerunRequested
  timer,      \* its backoff timer is armed
  faults

durable == <<attempt, invoice, row, born, doubtful, later>>
server  == <<held, conn, late>>
wake    == <<kick, rerun, timer>>
vars    == <<durable, server, up, ready, task, clean, wake, faults>>

Idle == [pc |-> "idle", key |-> NoKey, rest |-> {}, own |-> FALSE, res |-> "none"]
Task == [pc : {"idle", "prepared", "waiting", "woken"}, key : Key \cup {NoKey},
         rest : SUBSET Copy, own : BOOLEAN, res : Resolution]

TypeOK ==
  /\ attempt \in [Attempt -> AttemptState]
  /\ invoice \subseteq Attempt
  /\ row \in [Key -> RowState]
  /\ born \in [Key -> Nat]
  /\ doubtful \subseteq Key /\ later \subseteq Key
  /\ held \subseteq Key /\ late \subseteq Key
  /\ conn \in [Key -> {"idle", "open"} \cup Answer]
  /\ up \in BOOLEAN /\ ready \in BOOLEAN
  /\ task \in [Process -> Task]
  /\ clean \in [Key -> BOOLEAN]
  /\ kick \in BOOLEAN /\ rerun \in BOOLEAN /\ timer \in BOOLEAN
  /\ faults \in 0 .. MaxFaults

Fault(kind) == kind \in Faults /\ faults < MaxFaults /\ faults' = faults + 1

Init ==
  /\ attempt = [a \in Attempt |-> "open"]
  /\ invoice = {}
  /\ row = [k \in Key |-> "absent"]
  /\ born = [k \in Key |-> 0]
  /\ doubtful = {} /\ later = {}
  /\ held = {} /\ late = {}
  /\ conn = [k \in Key |-> "idle"]
  /\ up = TRUE /\ ready = FALSE
  /\ task = [p \in Process |-> Idle]
  /\ clean = [k \in Key |-> TRUE]
  /\ kick = FALSE /\ rerun = FALSE /\ timer = FALSE
  /\ faults = 0

Quiet == up /\ ~kick /\ \A p \in Process : task[p].pc # "woken"

Outstanding == {k \in Key : row[k] = "dispatched"}
KeysOf(a) == {k \in Key : AttemptOf[k] = a}
Copies(K) == {[key |-> k, clean |-> k \notin doubtful] : k \in K}
Oldest(S) == {c \in S : \A d \in S : born[c.key] =< born[d.key]}
Minted == {k \in Key : row[k] # "absent"}

-----------------------------------------------------------------------------
(* Sending a recorded request.                                             *)

Waiting(k, rest, own) ==
  [pc |-> "waiting", key |-> k, rest |-> rest, own |-> own, res |-> "none"]

(* Mutant: markSending does not look at the state of the row.              *)
Sendable_AnyState(k) == row[k] \in RowState

(* The states markSending moves to dispatched.                             *)
Sendable(k) == row[k] \in {"dispatched", "refused"}

(* The key is already being sent: wait for that send.                      *)
Join(p, c, rest, own) ==
  /\ conn[c.key] # "idle"
  /\ task' = [task EXCEPT ![p] = Waiting(c.key, rest, own)]
  /\ UNCHANGED <<row, born, later, conn, clean>>

(* markSending commits, then the request leaves.                           *)
Transmit(p, c, rest, own) ==
  /\ conn[c.key] = "idle" /\ Sendable(c.key)
  /\ row' = [row EXCEPT ![c.key] = "dispatched"]
  /\ later' = later \ {c.key}
  /\ conn' = [conn EXCEPT ![c.key] = "open"]
  /\ clean' = [clean EXCEPT ![c.key] = c.clean]
  /\ task' = [task EXCEPT ![p] = Waiting(c.key, rest, own)]
  /\ UNCHANGED born

(* markSending finds the row settled since the copy was read, and throws:  *)
(* a completion ends with the error, the reconciler counts it and goes on. *)
SendThrows(p, c, rest) ==
  /\ conn[c.key] = "idle" /\ ~Sendable(c.key)
  /\ task' = [task EXCEPT ![p] =
                IF p = Reconciler
                  THEN [Waiting(c.key, rest, FALSE)
                          EXCEPT !.pc = "woken", !.res = "threw"]
                  ELSE Idle]
  /\ UNCHANGED <<row, born, later, conn, clean>>

SendRecorded(p, c, rest, own) ==
  Join(p, c, rest, own) \/ Transmit(p, c, rest, own) \/ SendThrows(p, c, rest)

SendFirst(p, S) ==
  \E c \in Oldest(S) : SendRecorded(p, c, S \ {c}, FALSE)

-----------------------------------------------------------------------------
(* The completion of one attempt.                                          *)

(* prepareCompletion or prepareRetry.  A new attempt is claimed only while *)
(* the cashier has no other claimed attempt.  The checks that refuse it    *)
(* without writing anything are left out.                                  *)
Begin(a) ==
  /\ Quiet /\ task[a].pc = "idle"
  /\ \/ attempt[a] = "claimed" /\ UNCHANGED attempt
     \/ /\ attempt[a] = "open"
        /\ \A b \in Attempt : attempt[b] # "claimed"
        /\ attempt' = [attempt EXCEPT ![a] = "claimed"]
  /\ task' = [task EXCEPT ![a] = [Idle EXCEPT !.pc = "prepared"]]
  /\ UNCHANGED <<invoice, row, born, doubtful, later, server, up, ready, clean,
                 wake, faults>>

Blocked(a) ==
  /\ task' = [task EXCEPT ![a] = Idle]
  /\ UNCHANGED <<attempt, invoice, row, born, later, conn, clean, kick>>

(* Mutant: markCommitted does not ask for a claimed attempt.               *)
Business_NoClaim(a) ==
  /\ task' = [task EXCEPT ![a] = Idle]
  /\ \/ /\ attempt[a] = "claimed"
        /\ attempt' = [attempt EXCEPT ![a] = "committed"]
        /\ invoice' = invoice \cup {a}
        /\ kick' = TRUE
     \/ attempt[a] # "claimed" /\ invoice' = invoice \cup {a}
        /\ UNCHANGED <<attempt, kick>>
     \/ UNCHANGED <<attempt, invoice, kick>>
  /\ UNCHANGED <<row, born, later, conn, clean>>

(* runPrepared: one transaction that commits, rejects, or leaves the       *)
(* attempt as it is.  markCommitted rolls it back unless the attempt is    *)
(* still claimed.  A commit asks the reconciler to run.                    *)
Business(a) ==
  /\ task' = [task EXCEPT ![a] = Idle]
  /\ \/ /\ attempt[a] = "claimed"
        /\ attempt' = [attempt EXCEPT ![a] = "committed"]
        /\ invoice' = invoice \cup {a}
        /\ kick' = TRUE
     \/ /\ attempt[a] = "claimed"
        /\ attempt' = [attempt EXCEPT ![a] = "rejected"]
        /\ UNCHANGED <<invoice, kick>>
     \/ UNCHANGED <<attempt, invoice, kick>>
  /\ UNCHANGED <<row, born, later, conn, clean>>

(* Mutant: the row is inserted without looking at the attempt.             *)
Mint_AnyAttempt(a, k) ==
  /\ row[k] = "absent"
  /\ row' = [row EXCEPT ![k] = "dispatched"]
  /\ born' = [born EXCEPT ![k] = 1 + Cardinality(Minted)]
  /\ conn' = [conn EXCEPT ![k] = "open"]
  /\ clean' = [clean EXCEPT ![k] = TRUE]
  /\ task' = [task EXCEPT ![a] = Waiting(k, {}, TRUE)]
  /\ UNCHANGED <<attempt, invoice, later, kick>>

(* A new identity: inserted only while the attempt is claimed, then sent.  *)
Mint(a, k) ==
  /\ row[k] = "absent" /\ attempt[a] = "claimed"
  /\ row' = [row EXCEPT ![k] = "dispatched"]
  /\ born' = [born EXCEPT ![k] = 1 + Cardinality(Minted)]
  /\ conn' = [conn EXCEPT ![k] = "open"]
  /\ clean' = [clean EXCEPT ![k] = TRUE]
  /\ task' = [task EXCEPT ![a] = Waiting(k, {}, TRUE)]
  /\ UNCHANGED <<attempt, invoice, later, kick>>

IntegrityBlocked(a) == \E k \in KeysOf(a) : row[k] \in {"conflict", "invalid"}

(* The part of acquire after the attempt's own outstanding requests.  The   *)
(* deficit may be covered or unrepresentable, else it names one key.       *)
Decide(a, online) ==
  \/ IntegrityBlocked(a) /\ Blocked(a)
  \/ ~IntegrityBlocked(a) /\ Business(a)
  \/ /\ ~IntegrityBlocked(a) /\ online
     /\ \E k \in KeysOf(a) :
          \/ row[k] = "granted" /\ Business(a)
          \/ Mint(a, k)
          \/ row[k] = "absent" /\ attempt[a] # "claimed" /\ Blocked(a)
          \/ /\ row[k] \in {"dispatched", "refused"}
             /\ \E c \in Copies({k}) : SendRecorded(a, c, {}, TRUE)
             /\ UNCHANGED <<attempt, invoice, kick>>

(* acquire, from its first statement to its first await.  A license renewal *)
(* may have been awaited since Begin; an untracked cart or a usable         *)
(* physical-presence authority skips the acquisition.                      *)
Acquire(a) ==
  /\ Quiet /\ task[a].pc = "prepared"
  /\ LET mine == Outstanding \cap KeysOf(a) IN
       \/ Business(a)
       \/ /\ mine # {} /\ ready
          /\ SendFirst(a, Copies(mine))
          /\ UNCHANGED <<attempt, invoice, kick>>
       \/ mine = {} /\ Decide(a, ready)
  /\ UNCHANGED <<doubtful, held, late, up, ready, rerun, timer, faults>>

(* acquire, from an answer to its next await.  The online flag it read at   *)
(* its start is still taken for true.                                      *)
Resume(a) ==
  /\ up /\ ~kick /\ task[a].pc = "woken"
  /\ \/ task[a].res \in {"unresolved", "integrity", "threw"} /\ Blocked(a)
     \/ task[a].own /\ task[a].res = "refused" /\ Blocked(a)
     \/ task[a].own /\ task[a].res = "granted" /\ Business(a)
     \/ /\ ~task[a].own /\ task[a].res \in {"granted", "refused"}
        /\ \/ /\ task[a].rest # {}
              /\ SendFirst(a, task[a].rest)
              /\ UNCHANGED <<attempt, invoice, kick>>
           \/ task[a].rest = {} /\ Decide(a, TRUE)
  /\ UNCHANGED <<doubtful, held, late, up, ready, rerun, timer, faults>>

(* The cashier cancels, even while a completion of the attempt waits.      *)
Abandon(a) ==
  /\ Quiet /\ attempt[a] = "claimed" /\ a \notin invoice
  /\ attempt' = [attempt EXCEPT ![a] = "abandoned"]
  /\ UNCHANGED <<invoice, row, born, doubtful, later, server, up, ready, task,
                 clean, wake, faults>>

(* A catalog install supersedes the frozen intent.                         *)
Settle(a) ==
  /\ Quiet /\ attempt[a] = "claimed" /\ task[a].pc = "idle"
  /\ attempt' = [attempt EXCEPT ![a] = "rejected"]
  /\ UNCHANGED <<invoice, row, born, doubtful, later, server, up, ready, task,
                 clean, wake, faults>>

Acknowledge(a) ==
  /\ Quiet /\ attempt[a] = "committed" /\ a \in invoice
  /\ attempt' = [attempt EXCEPT ![a] = "acknowledged"]
  /\ UNCHANGED <<invoice, row, born, doubtful, later, server, up, ready, task,
                 clean, wake, faults>>

-----------------------------------------------------------------------------
(* The reconciler.                                                         *)

(* Mutant: the run ends without arming the backoff timer.                  *)
FinishRun_NoTimer ==
  /\ task' = [task EXCEPT ![Reconciler] = Idle]
  /\ timer' = FALSE
  /\ kick' = rerun /\ rerun' = FALSE
  /\ UNCHANGED <<row, born, later, conn, clean>>

(* The end of run and its finally: while rows remain the backoff timer is   *)
(* armed; a trigger that came during the run starts another.               *)
FinishRun ==
  /\ task' = [task EXCEPT ![Reconciler] = Idle]
  /\ timer' = (Outstanding # {})
  /\ kick' = rerun /\ rerun' = FALSE
  /\ UNCHANGED <<row, born, later, conn, clean>>

Due == Outstanding \ later

(* requestRun: coalesced into a rerun while a run is under way.            *)
RequestRun ==
  /\ up /\ kick
  /\ \/ /\ task[Reconciler].pc # "idle"
        /\ kick' = FALSE /\ rerun' = TRUE
        /\ UNCHANGED <<row, born, later, conn, clean, task, timer>>
     \/ /\ task[Reconciler].pc = "idle" /\ ~ready
        /\ kick' = FALSE /\ timer' = FALSE
        /\ UNCHANGED <<row, born, later, conn, clean, task, rerun>>
     \/ /\ task[Reconciler].pc = "idle" /\ ready /\ Due = {}
        /\ FinishRun
     \/ /\ task[Reconciler].pc = "idle" /\ ready /\ Due # {}
        /\ SendFirst(Reconciler, Copies(Due))
        /\ kick' = FALSE /\ timer' = FALSE /\ UNCHANGED rerun
  /\ UNCHANGED <<attempt, invoice, doubtful, held, late, up, ready, faults>>

(* The loop of run, from an answer to its next await or its end.           *)
ResumeRun ==
  /\ up /\ ~kick /\ task[Reconciler].pc = "woken"
  /\ \/ /\ task[Reconciler].rest # {}
        /\ SendFirst(Reconciler, task[Reconciler].rest)
        /\ UNCHANGED wake
     \/ task[Reconciler].rest = {} /\ FinishRun
  /\ UNCHANGED <<attempt, invoice, doubtful, held, late, up, ready, faults>>

TimerFires ==
  /\ Quiet /\ timer /\ timer' = FALSE /\ kick' = TRUE
  /\ UNCHANGED <<durable, server, up, ready, task, clean, rerun, faults>>

RetryAfterPasses(k) ==
  /\ k \in later /\ later' = later \ {k}
  /\ UNCHANGED <<attempt, invoice, row, born, doubtful, server, up, ready, task,
                 clean, wake, faults>>

-----------------------------------------------------------------------------
(* The answer to a send.                                                   *)

(* Everyone who waits for the send of k gets its resolution.               *)
Settled(k, res) ==
  [p \in Process |->
     IF task[p].pc = "waiting" /\ task[p].key = k
       THEN [task[p] EXCEPT !.pc = "woken", !.res = res] ELSE task[p]]

(* Mutant: a conflict on the key is taken for a grant made earlier.        *)
NewState_ConflictGrants(k, answer) ==
  CASE answer \in {"granted", "conflict"} -> "granted"
    [] answer \in {"refused", "invalid"} -> answer
    [] answer = "denied" /\ clean[k] -> "refused"
    [] OTHER -> row[k]

(* The state an answer leaves the row in.  A denial that precedes the       *)
(* lookup of the key on the server is taken as proof that the server holds *)
(* nothing when the sender's copy of the row counts no ambiguous send.     *)
NewState(k, answer) ==
  CASE answer \in {"granted", "refused", "conflict", "invalid"} -> answer
    [] answer = "denied" /\ clean[k] -> "refused"
    [] OTHER -> row[k]

ResolutionOf(k, answer) ==
  CASE answer = "granted" -> "granted"
    [] answer = "refused" -> "refused"
    [] answer \in {"conflict", "invalid"} -> "integrity"
    [] answer = "denied" /\ clean[k] -> "refused"
    [] OTHER -> "unresolved"

Receive(k) ==
  /\ Quiet /\ conn[k] \in Answer
  /\ conn' = [conn EXCEPT ![k] = "idle"]
  /\ row' = [row EXCEPT ![k] = NewState(k, conn[k])]
  /\ \/ conn[k] \notin {"busy", "malformed"} /\ UNCHANGED <<doubtful, later>>
     \/ /\ conn[k] \in {"busy", "malformed"}
        /\ doubtful' = doubtful \cup {k}
        /\ \/ UNCHANGED later
           \/ conn[k] = "busy" /\ later' = later \cup {k}
  /\ task' = Settled(k, ResolutionOf(k, conn[k]))
  /\ UNCHANGED <<attempt, invoice, born, held, late, up, ready, clean, wake, faults>>

(* SQLite refuses the write of the outcome.  A grant that cannot be stored  *)
(* is recorded as ambiguous, unless that write fails too and is swallowed; *)
(* any other resolution throws out of the send.                            *)
ReceiveUnrecorded(k) ==
  /\ Quiet /\ conn[k] \in Answer /\ Fault("disk")
  /\ conn' = [conn EXCEPT ![k] = "idle"]
  /\ \/ UNCHANGED doubtful
     \/ conn[k] = "granted" /\ doubtful' = doubtful \cup {k}
  /\ task' = Settled(k, IF conn[k] \in {"granted", "busy", "malformed"}
                          THEN "unresolved" ELSE "threw")
  /\ UNCHANGED <<attempt, invoice, row, born, later, held, late, up, ready, clean,
                 wake>>

(* No answer in time: the send is counted ambiguous, unless that write      *)
(* fails too and is swallowed.  The request may still be processed.        *)
GiveUp(k) ==
  /\ Quiet /\ conn[k] # "idle" /\ Fault("lost")
  /\ conn' = [conn EXCEPT ![k] = "idle"]
  /\ \/ UNCHANGED late
     \/ "late" \in Faults /\ conn[k] = "open" /\ late' = late \cup {k}
  /\ \/ doubtful' = doubtful \cup {k}
     \/ "disk" \in Faults /\ UNCHANGED doubtful
  /\ task' = Settled(k, "unresolved")
  /\ UNCHANGED <<attempt, invoice, row, born, later, held, up, ready, clean, wake>>

-----------------------------------------------------------------------------
(* The server: it decides a request once and replays a stored grant.       *)

Reply(k, answer) == conn[k] = "open" /\ conn' = [conn EXCEPT ![k] = answer]

ServerGrants(k) ==
  /\ Reply(k, "granted") /\ held' = held \cup {k}
  /\ UNCHANGED <<durable, late, up, ready, task, clean, wake, faults>>

ServerRefuses(k) ==
  /\ Reply(k, "refused") /\ k \notin held
  /\ UNCHANGED <<durable, held, late, up, ready, task, clean, wake, faults>>

(* 401, 403, 409 on a quarantine: before the key is looked up.             *)
ServerDenies(k) ==
  /\ Reply(k, "denied") /\ Fault("denied")
  /\ UNCHANGED <<durable, held, late, up, ready, task, clean, wake>>

(* 5xx or 429: the request may or may not have been stored.                *)
ServerBusy(k) ==
  /\ Reply(k, "busy") /\ Fault("busy")
  /\ held' \in {held, held \cup {k}}
  /\ UNCHANGED <<durable, late, up, ready, task, clean, wake>>

(* A success body that does not parse or names an older stock revision.    *)
ServerMalformed(k) ==
  /\ Reply(k, "malformed") /\ Fault("malformed") /\ held' = held \cup {k}
  /\ UNCHANGED <<durable, late, up, ready, task, clean, wake>>

ServerRejectsBytes(k) ==
  /\ \E answer \in {"conflict", "invalid"} : Reply(k, answer)
  /\ k \notin held /\ Fault("integrity")
  /\ UNCHANGED <<durable, held, late, up, ready, task, clean, wake>>

ServeLate(k) ==
  /\ k \in late /\ late' = late \ {k} /\ held' = held \cup {k}
  /\ UNCHANGED <<durable, conn, up, ready, task, clean, wake, faults>>

ServerAnswers(k) == ServerGrants(k) \/ ServerRefuses(k)
ServerFails(k) ==
  ServerDenies(k) \/ ServerBusy(k) \/ ServerMalformed(k) \/ ServerRejectsBytes(k)

-----------------------------------------------------------------------------
(* Connectivity, session and process.                                      *)

GoOnline ==
  /\ Quiet /\ ~ready /\ ready' = TRUE /\ kick' = TRUE
  /\ UNCHANGED <<durable, server, up, task, clean, rerun, timer, faults>>

GoOffline ==
  /\ Quiet /\ ready /\ ready' = FALSE /\ Fault("offline")
  /\ UNCHANGED <<durable, server, up, task, clean, wake>>

(* The session was started or refreshed.                                   *)
SessionChanged ==
  /\ Quiet /\ kick' = TRUE
  /\ UNCHANGED <<durable, server, up, ready, task, clean, rerun, timer, faults>>

Crash ==
  /\ up /\ Fault("crash") /\ up' = FALSE /\ ready' = FALSE
  /\ task' = [p \in Process |-> Idle]
  /\ conn' = [k \in Key |-> "idle"]
  /\ \/ UNCHANGED late
     \/ "late" \in Faults /\ late' = late \cup {k \in Key : conn[k] = "open"}
  /\ clean' = [k \in Key |-> TRUE]
  /\ kick' = FALSE /\ rerun' = FALSE /\ timer' = FALSE
  /\ UNCHANGED <<durable, held>>

(* A start runs the reconciler once, before connectivity is known.         *)
Start ==
  /\ ~up /\ up' = TRUE /\ kick' = TRUE
  /\ UNCHANGED <<durable, server, ready, task, clean, rerun, timer, faults>>

-----------------------------------------------------------------------------
Cashier ==
  \E a \in Attempt : Begin(a) \/ Abandon(a) \/ Settle(a) \/ Acknowledge(a)

Network(k) ==
  \/ ServerAnswers(k) \/ ServerFails(k) \/ ServeLate(k)
  \/ Receive(k) \/ ReceiveUnrecorded(k) \/ GiveUp(k) \/ RetryAfterPasses(k)

Next ==
  \/ Cashier
  \/ \E a \in Attempt : Acquire(a) \/ Resume(a)
  \/ \E k \in Key : Network(k)
  \/ RequestRun \/ ResumeRun \/ TimerFires
  \/ GoOnline \/ GoOffline \/ SessionChanged \/ Crash \/ Start

Spec == Init /\ [][Next]_vars

(* Continuations run, the event loop gets to every timer, answer and        *)
(* network event that keeps pending, the server answers, a process that    *)
(* went down is started and the network comes back.  Nobody has to sell.   *)
FairSpec ==
  /\ Spec
  /\ \A a \in Attempt : SF_vars(Acquire(a)) /\ WF_vars(Resume(a))
  /\ \A k \in Key : WF_vars(ServerAnswers(k)) /\ SF_vars(Receive(k))
                    /\ WF_vars(RetryAfterPasses(k))
  /\ WF_vars(RequestRun) /\ WF_vars(ResumeRun) /\ SF_vars(TimerFires)
  /\ SF_vars(GoOnline) /\ WF_vars(Start)

-----------------------------------------------------------------------------
(* Properties                                                              *)

(* The request identity is durable before the request exists: whatever the *)
(* server stores, or may still store, is a row this till can find again    *)
(* after any crash.                                                        *)
EvidenceFirst ==
  \A k \in Key : k \in held \cup late \/ conn[k] # "idle" => row[k] # "absent"

(* Stock is only spent from a reservation the server really made.          *)
GrantedIsHeld == \A k \in Key : row[k] = "granted" => k \in held

(* A local invoice exists exactly for the attempts recorded as sold, so an *)
(* attempt cancelled or settled while its completion waited for the server *)
(* is not sold when the answer comes.                                      *)
SoldMeansCommitted ==
  \A a \in Attempt : a \in invoice <=> attempt[a] \in {"committed", "acknowledged"}

(* No reservation is asked for in the name of an attempt that is no longer *)
(* in progress, though acquire waits for earlier answers in between.       *)
MintedWhileClaimed ==
  [][\A k \in Key :
       row[k] = "absent" /\ row'[k] # "absent" => attempt[AttemptOf[k]] = "claimed"]_vars

(* A settled request stays as it was settled, whoever still holds a copy   *)
(* of the row from before.                                                 *)
SettledIsFinal ==
  [][\A k \in Key :
       row[k] \in {"granted", "conflict", "invalid"} => row'[k] = row[k]]_vars

(* A request the till has written off as refused holds no stock on the     *)
(* server: nothing would ever look for that reservation again.             *)
RefusedIsUnheld == \A k \in Key : row[k] = "refused" => k \notin held \cup late

(* Once the reconciler has taken up an outstanding request (it is running  *)
(* or its timer is armed) the request is settled without anybody's help,   *)
(* through lost answers, Retry-After, offline spells and restarts.         *)
ReconcilerFinishes ==
  \A k \in Key :
    row[k] = "dispatched" /\ (timer \/ task[Reconciler].pc # "idle")
      ~> row[k] # "dispatched"

(* Every outstanding request is sent again or settled, whatever happens to *)
(* its sale (acquire's comment: the reconciler owns it independently).     *)
OutstandingIsRetried ==
  \A k \in Key :
    row[k] = "dispatched" /\ conn[k] = "idle"
      ~> row[k] # "dispatched" \/ conn[k] # "idle"

(* The requests as the shared reservation of Reservation.tla.              *)
Promise ==
  INSTANCE Reservation WITH Request <- Key, asked <- Minted, reserved <- held,
    known <- {k \in Key : row[k] = "granted"}
ImplementsReservation == Promise!Spec

=============================================================================
