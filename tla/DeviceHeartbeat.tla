-------------------------- MODULE DeviceHeartbeat --------------------------
(***************************************************************************)
(* The presence beat of a signed-in till: one request on the wire at most, *)
(* one timer, and deadlines that no session change, sleep or nudge may     *)
(* move below what the server was promised.  Times are what is left of     *)
(* them on the monotonic clock, 0 when they have passed; a deadline that   *)
(* is not set counts as one that has passed, as it does in dueAt.          *)
(***************************************************************************)
EXTENDS Integers, Sequences

CONSTANTS
  MinGap,       \* from the start of a beat to the next at least
  Intervals,    \* what the jittered interval after a good beat may be
  Windows,      \* the back-off window after 1, 2, ... failures; the last one for more
  DeniedWaits,  \* what the jittered wait after a denial may be
  RetryWaits,   \* what Retry-After may say
  MaxEpoch,     \* bound: sign-ins
  MaxNaps       \* bound: sleeps of the machine

ASSUME HeartbeatAssumption ==
  /\ MinGap \in Nat \ {0} /\ MaxEpoch \in Nat /\ MaxNaps \in Nat
  /\ Windows \in Seq(Nat) /\ Windows # <<>>
  /\ Intervals \subseteq Nat /\ DeniedWaits \subseteq Nat /\ RetryWaits \subseteq Nat

VARIABLES
  session, \* what readSession sees, and the epoch
  access,  \* the access fingerprint
  hb,      \* the service
  naps,    \* times the machine was told to sleep, and to resume
  quiet    \* history: how long the till has promised the server not to beat

beatVars == <<session, access, hb, naps, quiet>>

Flight == {"none", "current", "late"}
Beat == [stopped : BOOLEAN, eligible : BOOLEAN, epoch : Nat,
         mode : {"active", "backoff", "retry-after", "denied"}, level : 0 .. Len(Windows),
         gap : Nat, next : Nat, backoff : Nat, retry : Nat, denied : Nat,
         seen : {"none", "x", "y"}, flight : Flight, spanned : BOOLEAN, timer : BOOLEAN]

BeatTypeOK ==
  /\ session \in [on : BOOLEAN, token : BOOLEAN, epoch : Nat]
  /\ access \in {"x", "y"} /\ hb \in Beat /\ naps \in 0 .. 2 * MaxNaps /\ quiet \in Nat

BeatInit ==
  /\ session \in [on : {FALSE}, token : {FALSE}, epoch : {0}]
  /\ access = "x" /\ naps = 0 /\ quiet = 0
  /\ hb = [stopped |-> FALSE, eligible |-> FALSE, epoch |-> 0, mode |-> "active", level |-> 0,
           gap |-> 0, next |-> 0, backoff |-> 0, retry |-> 0, denied |-> 0, seen |-> "none",
           flight |-> "none", spanned |-> FALSE, timer |-> FALSE]

Later(a, b) == IF a < b THEN b ELSE a
Gone(t) == IF t = 0 THEN 0 ELSE t - 1

-----------------------------------------------------------------------------
(* Mutant: Retry-After is honoured in its own mode only.                   *)
NotBefore_ByMode(h) ==
  Later(h.gap, IF h.mode = "retry-after" THEN h.retry
               ELSE IF h.mode = "backoff" THEN h.backoff
               ELSE IF h.mode = "denied" THEN h.denied ELSE 0)

(* The floor of every path that sends: the gap and Retry-After whatever    *)
(* the mode, the wait of the mode with them.                               *)
NotBefore(h) ==
  Later(Later(h.gap, h.retry),
        IF h.mode = "backoff" THEN h.backoff ELSE IF h.mode = "denied" THEN h.denied ELSE 0)

DueAt(h) == Later(h.next, NotBefore(h))

(* One timer while eligible and idle, due at DueAt; none otherwise.        *)
Arm(h) == [h EXCEPT !.timer = ~h.stopped /\ h.eligible /\ h.flight = "none"]

Reset(h) == [h EXCEPT !.mode = "active", !.level = 0, !.backoff = 0, !.seen = "none",
                      !.denied = 0]

(* The generation moves on: a beat on the wire is answered too late.       *)
NewGeneration(h) == [h EXCEPT !.flight = IF @ = "current" THEN "late" ELSE @]

ApplyContext(h, s) ==
  IF ~(s.on /\ s.token)
    THEN [Reset(IF h.eligible THEN NewGeneration(h) ELSE h) EXCEPT
            !.eligible = FALSE, !.epoch = 0, !.next = 0, !.timer = FALSE]
  ELSE IF ~h.eligible \/ h.epoch # s.epoch
    THEN Arm([Reset(NewGeneration(h)) EXCEPT
                !.eligible = TRUE, !.epoch = s.epoch, !.next = 0])
  ELSE Arm(h)

(* A nudge: only ever an earlier attempt, and only an access change that   *)
(* was verified lifts the wait of a denial.                                *)
EarlyProbe(h, verified) ==
  Arm(IF ~h.eligible \/ h.flight # "none" THEN h
      ELSE IF verified /\ h.mode = "denied" THEN [h EXCEPT !.denied = 0, !.next = 0]
      ELSE IF h.mode = "active" /\ h.next > NotBefore(h) THEN [h EXCEPT !.next = NotBefore(h)]
      ELSE h)

-----------------------------------------------------------------------------
(* The session: every transition tells the service to read it again, even  *)
(* one that fails after it deleted the token.                              *)
Sync(s) == hb' = (IF hb.stopped THEN hb ELSE ApplyContext(hb, s)) /\ session' = s

SignIn ==
  /\ session.epoch < MaxEpoch
  /\ Sync([on |-> TRUE, token |-> TRUE, epoch |-> session.epoch + 1])
  /\ UNCHANGED <<access, naps, quiet>>

Ended == [on |-> FALSE, token |-> FALSE, epoch |-> session.epoch + (IF session.on THEN 1 ELSE 0)]

SignOut ==
  /\ session.on
  /\ \/ Sync(Ended)
     \/ session.token /\ Sync([session EXCEPT !.token = FALSE])  \* the teardown fails half way
  /\ UNCHANGED <<access, naps, quiet>>

(* A publication of the commercial access; the fingerprint holds the       *)
(* session's epoch besides the decisions, which may differ now.            *)
OnAccessSignal ==
  /\ ~hb.stopped
  /\ access' \in {"x", "y"}
  /\ hb' = LET h == ApplyContext(hb, session) IN
           IF h.eligible /\ h.mode = "denied" /\ h.seen # access'
             THEN EarlyProbe(h, TRUE) ELSE h
  /\ UNCHANGED <<session, naps, quiet>>

(* Back online: connectivity asks for an early probe.                      *)
ConnectivityOnline ==
  /\ ~hb.stopped /\ hb' = EarlyProbe(hb, FALSE) /\ UNCHANGED <<session, access, naps, quiet>>

Asleep == naps % 2 = 1

Suspend ==
  /\ ~hb.stopped /\ ~Asleep /\ naps < 2 * MaxNaps /\ naps' = naps + 1
  /\ hb' = [hb EXCEPT !.timer = FALSE, !.spanned = @ \/ hb.flight # "none"]
  /\ UNCHANGED <<session, access, quiet>>

ResumeBeat ==
  /\ ~hb.stopped /\ Asleep /\ naps' = naps + 1
  /\ hb' = IF hb.flight # "none" THEN hb ELSE EarlyProbe(Arm(hb), FALSE)
  /\ UNCHANGED <<session, access, quiet>>

Stop ==
  /\ ~hb.stopped /\ hb' = [hb EXCEPT !.stopped = TRUE, !.timer = FALSE, !.flight = "none"]
  /\ UNCHANGED <<session, access, naps, quiet>>

-----------------------------------------------------------------------------
(* The timer: the session is read again before every beat.                 *)
Send ==
  /\ hb' = [hb EXCEPT !.timer = FALSE, !.flight = "current", !.spanned = FALSE,
                      !.gap = MinGap, !.next = 0]
  /\ quiet' = Later(quiet, MinGap)

OnTimer ==
  /\ hb.timer /\ DueAt(hb) = 0
  /\ IF session.on /\ session.token /\ session.epoch = hb.epoch THEN Send
     ELSE hb' = ApplyContext(hb, session) /\ UNCHANGED quiet
  /\ UNCHANGED <<session, access, naps>>

Good(h, interval) == [Reset(h) EXCEPT !.next = interval]

Escalated(h) == IF h.level < Len(Windows) THEN h.level + 1 ELSE h.level

RetryAfter(h, seconds) ==
  [h EXCEPT !.mode = "retry-after", !.retry = seconds, !.next = seconds, !.level = Escalated(h)]

Denied(h, wait) ==
  [h EXCEPT !.mode = "denied", !.level = 0, !.backoff = 0, !.seen = access,
            !.denied = wait, !.next = wait]

(* enterBackoff: half the window and a random part of the other half.      *)
BackedOff(h, level) ==
  {[h EXCEPT !.mode = "backoff", !.level = level, !.backoff = wait, !.next = wait] :
     wait \in {w \in 0 .. Windows[level] : 2 * w >= Windows[level]}}

(* A transport failure of a beat that was out while the machine slept says *)
(* nothing of the server: the same level again.                            *)
Interrupted(h) ==
  IF h.mode = "denied" THEN {[h EXCEPT !.denied = w, !.next = w] : w \in DeniedWaits}
  ELSE IF h.level = 0 THEN {[h EXCEPT !.mode = "active", !.next = 0]}
  ELSE BackedOff(h, h.level)

(* Mutant: an answer that comes too late leaves the till without a timer.  *)
SettleBeat_LateUnarmed(h) ==
  IF hb.flight = "late" THEN [h EXCEPT !.flight = "none"] ELSE Arm([h EXCEPT !.flight = "none"])

(* settle: the wire is free, and whatever the answer was the timer is set. *)
SettleBeat(h) == Arm([h EXCEPT !.flight = "none"])

(* The answer of another generation changes nothing else.                  *)
LateAnswer ==
  /\ hb.flight = "late" /\ hb' = SettleBeat(hb)
  /\ UNCHANGED <<session, access, naps, quiet>>

AnswerOk ==
  /\ hb.flight = "current" /\ \E i \in Intervals : hb' = SettleBeat(Good(hb, i))
  /\ UNCHANGED <<session, access, naps, quiet>>

AnswerRetryAfter ==
  /\ hb.flight = "current"
  /\ \E s \in RetryWaits : hb' = SettleBeat(RetryAfter(hb, s)) /\ quiet' = Later(quiet, s)
  /\ UNCHANGED <<session, access, naps>>

AnswerDenied ==
  /\ hb.flight = "current" /\ \E w \in DeniedWaits : hb' = SettleBeat(Denied(hb, w))
  /\ UNCHANGED <<session, access, naps, quiet>>

AnswerFails ==
  /\ hb.flight = "current"
  /\ \/ hb' \in {SettleBeat(h) : h \in BackedOff(hb, Escalated(hb))}
     \/ hb.spanned /\ hb' \in {SettleBeat(h) : h \in Interrupted(hb)}
  /\ UNCHANGED <<session, access, naps, quiet>>

(* The session is over for the server: the API client ends the one that is *)
(* current, which makes this answer a late one.                            *)
AnswerSessionEnded ==
  /\ hb.flight # "none" /\ session' = Ended /\ hb' = SettleBeat(ApplyContext(hb, Ended))
  /\ UNCHANGED <<access, naps, quiet>>

BeatAnswered ==
  LateAnswer \/ AnswerOk \/ AnswerRetryAfter \/ AnswerDenied \/ AnswerFails \/ AnswerSessionEnded

Tick ==
  /\ hb' = [hb EXCEPT !.gap = Gone(@), !.next = Gone(@), !.backoff = Gone(@),
                      !.retry = Gone(@), !.denied = Gone(@)]
  /\ quiet' = Gone(quiet) /\ UNCHANGED <<session, access, naps>>

BeatNext ==
  \/ SignIn \/ SignOut \/ OnAccessSignal \/ ConnectivityOnline \/ Suspend \/ ResumeBeat \/ Stop
  \/ OnTimer \/ BeatAnswered \/ Tick

BeatSpec == BeatInit /\ [][BeatNext]_beatVars

-----------------------------------------------------------------------------
(* No beat before the gap since the last one and every Retry-After the     *)
(* server gave have passed, through whatever sessions, sleeps, denials and *)
(* nudges lie between.                                                     *)
PromisedQuiet == [][hb'.flight = "current" /\ hb.flight = "none" => quiet = 0]_beatVars

Present == hb.flight # "none" \/ ~hb.eligible \/ hb.stopped

(* A signed-in till beats again and again: no denial, failure, sleep or    *)
(* change of session with a beat on the wire leaves it without a timer.    *)
PresenceReturns == []<>Present
=============================================================================
