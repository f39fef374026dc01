---------------------------- MODULE CheckoutProofs ----------------------------
(***************************************************************************)
(* Proofs about Checkout.  The invariant follows a sale from both sides:   *)
(* what is on its way to the window is true of the attempts, and the draft *)
(* whose lines an attempt holds waits for the answer that empties it.      *)
(***************************************************************************)
EXTENDS Checkout, FiniteSetTheorems, SequenceTheorems, TLAPS

Completing == {"complete", "retry", "replay"}
Live       == Sold \cup {"claimed"}

(* Parts that speak of a step take the attempts and the window of a state. *)
Begun(a, k)     == k \in Key /\ a[k].state # "none"
Shared(a, w, k) == a[k].state \in Live /\ a[k].items \cap w.cart # {}

-----------------------------------------------------------------------------
(* What always holds, whatever the window is told.                         *)
AttemptTypes ==
  /\ attempt \in [Key -> Attempt] /\ running \subseteq Key /\ able \in BOOLEAN
  /\ shift \in 1 .. MaxShifts /\ rung \in 0 .. MaxItems /\ minted \in 0 .. MaxKeys
  /\ mishaps \subseteq Mishaps /\ Cardinality(mishaps) <= MaxMishaps
  /\ able \/ "away" \in mishaps
  /\ \A k \in Key :
       /\ Begun(attempt, k) => k <= minted
       /\ k \in running => attempt[k].state \in {"claimed", "abandoned"}
       /\ \A i \in attempt[k].items : i <= rung

WindowTypes ==
  /\ window \in Window /\ window.key <= minted /\ \A i \in window.cart : i <= rung
  /\ window.draft <= window.shift + Cardinality(mishaps) /\ window.shift <= shift
  /\ window.asking # "no" => window.asked \in Key

Addressed(w, c) == c.draft <= w.draft /\ (c.kind # "pending" => c.key \in Key)

QueueTypes ==
  /\ answers \in Seq(Message) /\ \A i \in 1 .. Len(answers) : Addressed(window, answers[i].call)
  /\ waiting \in [Key -> Seq(Call)]
  /\ \A k \in Key : \A p \in 1 .. Len(waiting[k]) :
       /\ waiting[k][p].kind \in Completing /\ waiting[k][p].key = k
       /\ Addressed(window, waiting[k][p]) /\ k \in running

(* A completion, and the questions that follow one without an answer, come *)
(* one at a time, and the window is in the state that goes with it.        *)
Single == {"complete", "check", "replay"}

Ours(w, c)  == c.kind \in Single /\ c.draft = w.draft
Suits(w, c) == /\ c.kind = "complete" => w.active /\ w.asking = "no"
               /\ c.kind = "check"    => w.asking = "asked"
               /\ c.kind = "replay"   => w.asking = "replaying"

OneAtATime ==
  /\ \A i, j \in 1 .. Len(answers) :
       Ours(window, answers[i].call) /\ Ours(window, answers[j].call) => i = j
  /\ \A j, k \in Key : \A p \in 1 .. Len(waiting[j]), q \in 1 .. Len(waiting[k]) :
       Ours(window, waiting[j][p]) /\ Ours(window, waiting[k][q]) => j = k /\ p = q
  /\ \A i \in 1 .. Len(answers), k \in Key : \A p \in 1 .. Len(waiting[k]) :
       ~(Ours(window, answers[i].call) /\ Ours(window, waiting[k][p]))
  /\ \A i \in 1 .. Len(answers) :
       Ours(window, answers[i].call) => Suits(window, answers[i].call)
  /\ \A k \in Key : \A p \in 1 .. Len(waiting[k]) :
       Ours(window, waiting[k][p]) => Suits(window, waiting[k][p])

CallsInv == AttemptTypes /\ WindowTypes /\ QueueTypes /\ OneAtATime

-----------------------------------------------------------------------------
(* What holds while the window is told the truth.                          *)

(* An answer on its way.  That an attempt was never begun can only be said *)
(* of the completion the draft waits for.                                  *)
ToldTrue(a, w, m) ==
  LET kind == m.call.kind
      k    == m.call.key IN
  \/ /\ kind = "pending" /\ m.says = "list"
     /\ m.blocking # NoKey => Begun(a, m.blocking)
     /\ \A j \in m.results : Begun(a, j)
  \/ /\ kind = "complete" /\ m.says \in {"blocked", "refused"}
     /\ m.call.draft = w.draft => ~Begun(a, k)
     /\ m.says = "blocked" => Begun(a, m.blocking)
  \/ kind = "complete" /\ m.says = "conflict" /\ Begun(a, k) /\ ~Shared(a, w, k)
  \/ kind \in Completing /\ m.says \in {"claimed", "error"} /\ Begun(a, k)
  \/ kind \in {"check", "status"} /\ m.says \in {"claimed", "in-flight"} /\ Begun(a, k)
  \/ kind \in {"abandon", "acknowledge"} /\ m.says = "refused" /\ Begun(a, k)
  \/ /\ kind \notin {"pending", "acknowledge"} /\ m.says \in {"rejected", "abandoned"} /\ Begun(a, k)
     /\ a[k].state \notin Live
  \/ kind \notin {"pending", "abandon"} /\ m.says \in Sold /\ Begun(a, k) /\ a[k].state \in Sold

AllTold == \A i \in 1 .. Len(answers) : ToldTrue(attempt, window, answers[i])

Knows(a, w) ==
  /\ w.blocking # NoKey => Begun(a, w.blocking)
  /\ w.asking # "no" => Begun(a, w.asked)
  /\ \A k \in w.results : Begun(a, k)
  /\ w.key # NoKey /\ (w.state = "claimed" \/ w.outcome \in Sold) => Begun(a, w.key)

(* The draft that shows the lines of an attempt is the attempt's, and      *)
(* locked.                                                                 *)
Holds(w, k) == w.key = k /\ w.state \in {"claimed", "in-flight"}

Custody ==
  \A k \in Key :
    Shared(attempt, window, k) => Holds(window, k) /\ window.cart = attempt[k].items

LiveOnce ==
  \A j, k \in Key : j # k /\ attempt[j].state \in Live /\ attempt[k].state \in Live =>
    attempt[j].items \cap attempt[k].items = {}

(* The sale of lines that are still shown is announced, ahead of whatever  *)
(* might forget it.                                                        *)
Delivers(w, m, k) ==
  /\ m.call.kind \in Completing /\ m.call.key = k /\ m.call.draft = w.draft
  /\ m.says = "committed"
Forgets(m, k) == m.call.kind = "acknowledge" /\ m.call.key = k /\ m.says = "acknowledged"

AwaitedCalls(k)   == \E p \in 1 .. Len(waiting[k]) : waiting[k][p].draft = window.draft
Announced(k) == \E i \in 1 .. Len(answers) :
                  Delivers(window, answers[i], k) /\ \A h \in 1 .. i : ~Forgets(answers[h], k)

OnItsWay ==
  \A k \in Key :
    Shared(attempt, window, k) => /\ k \in running => AwaitedCalls(k)
                                  /\ attempt[k].state \in Sold => Announced(k)

TruthInv == Informed => AllTold /\ Knows(attempt, window) /\ Custody /\ LiveOnce /\ OnItsWay

CheckoutInv == CallsInv /\ TruthInv

-----------------------------------------------------------------------------
(* Steps, by what they do to the calls on their way.                       *)

(* The first d answers are taken, answers of the set new are added.        *)
Grown(d, new) ==
  /\ d \in {0, 1} /\ d <= Len(answers) /\ answers' \in Seq(Message)
  /\ Len(answers') >= Len(answers) - d
  /\ \A i \in 1 .. Len(answers') :
       IF i <= Len(answers) - d THEN answers'[i] = answers[i + d] ELSE answers'[i] \in new

(* Calls of the set more join those that wait.                             *)
Joined(more) ==
  /\ waiting' \in [Key -> Seq(Call)] /\ running \subseteq running'
  /\ \A k \in Key :
       /\ Len(waiting'[k]) >= Len(waiting[k])
       /\ \A p \in 1 .. Len(waiting'[k]) :
            IF p <= Len(waiting[k]) THEN waiting'[k][p] = waiting[k][p]
            ELSE waiting'[k][p] \in more /\ waiting'[k][p].key = k /\ k \in running'
  /\ \A k \in running' \ running : \E p \in 1 .. Len(waiting'[k]) : waiting'[k][p] \in more

LEMMA QueueGrows ==
  ASSUME QueueTypes, NEW d, NEW new, NEW more, Grown(d, new), Joined(more),
         window'.draft \in Nat, window.draft \in Nat, window'.draft >= window.draft,
         \A m \in new : Addressed(window', m.call),
         \A c \in more : c.kind \in Completing /\ Addressed(window', c)
  PROVE  QueueTypes'
<1>1. \A c : c \in Call /\ Addressed(window, c) => Addressed(window', c)
  BY DEF Addressed, Call
<1>2. \A m \in Message : m.call \in Call
  BY DEF Message
<1>3. answers' \in Seq(Message) /\ \A i \in 1 .. Len(answers') : Addressed(window', answers'[i].call)
  <2> SUFFICES ASSUME NEW i \in 1 .. Len(answers')
               PROVE  Addressed(window', answers'[i].call)
    BY DEF Grown
  <2>1. CASE i <= Len(answers) - d
    <3>1. i + d \in 1 .. Len(answers) /\ answers'[i] = answers[i + d]
      BY <2>1 DEF Grown, QueueTypes
    <3>2. answers[i + d] \in Message /\ Addressed(window, answers[i + d].call)
      BY <3>1 DEF QueueTypes
    <3> QED
      BY <1>1, <1>2, <3>1, <3>2
  <2>2. CASE ~(i <= Len(answers) - d)
    BY <2>2 DEF Grown
  <2> QED
    BY <2>1, <2>2
<1>4. ASSUME NEW k \in Key, NEW p \in 1 .. Len(waiting'[k])
      PROVE  /\ waiting'[k][p].kind \in Completing /\ waiting'[k][p].key = k
             /\ Addressed(window', waiting'[k][p]) /\ k \in running'
  <2>1. CASE p <= Len(waiting[k])
    <3>1. p \in 1 .. Len(waiting[k]) /\ waiting'[k][p] = waiting[k][p] /\ waiting[k] \in Seq(Call)
      BY <2>1 DEF Joined, QueueTypes
    <3>2. waiting[k][p] \in Call
      BY <3>1
    <3> QED
      BY <1>1, <3>1, <3>2 DEF Joined, QueueTypes
  <2>2. CASE ~(p <= Len(waiting[k]))
    BY <2>2 DEF Joined
  <2> QED
    BY <2>1, <2>2
<1> QED
  BY <1>3, <1>4 DEF QueueTypes, Joined

(* The calls that come one at a time, when none is added.                  *)
LEMMA OneStays ==
  ASSUME QueueTypes, OneAtATime, NEW d, NEW new, NEW more, Grown(d, new), Joined(more),
         window'.draft = window.draft,
         \A m \in new : ~Ours(window, m.call),
         \A c \in more : ~Ours(window, c),
         \/ window'.active = window.active /\ window'.asking = window.asking
         \/ d = 1 /\ Ours(window, answers[1].call)
  PROVE  OneAtATime'
<1>1. \A c : Ours(window', c) = Ours(window, c)
  BY DEF Ours
<1>2. d \in {0, 1} /\ Len(answers) \in Nat /\ Len(answers') \in Nat /\ d <= Len(answers)
  BY DEF Grown, QueueTypes
<1>3. ASSUME NEW i \in 1 .. Len(answers'), Ours(window', answers'[i].call)
      PROVE  /\ i + d \in 1 .. Len(answers) /\ answers'[i] = answers[i + d]
             /\ Ours(window, answers[i + d].call)
  <2>1. i <= Len(answers) - d
    BY <1>1, <1>3 DEF Grown
  <2>2. i + d \in 1 .. Len(answers) /\ answers'[i] = answers[i + d]
    BY <1>2, <2>1 DEF Grown
  <2> QED
    BY <1>1, <1>3, <2>2
<1>4. ASSUME NEW k \in Key, NEW p \in 1 .. Len(waiting'[k]), Ours(window', waiting'[k][p])
      PROVE  /\ p \in 1 .. Len(waiting[k]) /\ waiting'[k][p] = waiting[k][p]
             /\ Ours(window, waiting[k][p])
  <2>1. p <= Len(waiting[k]) /\ waiting[k] \in Seq(Call)
    BY <1>1, <1>4 DEF Joined, QueueTypes
  <2>2. p \in 1 .. Len(waiting[k]) /\ waiting'[k][p] = waiting[k][p]
    BY <2>1 DEF Joined
  <2> QED
    BY <1>1, <1>4, <2>2
<1>5. ASSUME NEW i \in 1 .. Len(answers'), NEW j \in 1 .. Len(answers'),
             Ours(window', answers'[i].call), Ours(window', answers'[j].call)
      PROVE  i = j
  <2>1. i + d = j + d
    BY <1>3, <1>5 DEF OneAtATime
  <2> QED
    BY <1>2, <2>1
<1>6. ASSUME NEW j \in Key, NEW k \in Key, NEW p \in 1 .. Len(waiting'[j]),
             NEW q \in 1 .. Len(waiting'[k]),
             Ours(window', waiting'[j][p]), Ours(window', waiting'[k][q])
      PROVE  j = k /\ p = q
  BY <1>4, <1>6 DEF OneAtATime
<1>7. ASSUME NEW i \in 1 .. Len(answers'), NEW k \in Key, NEW p \in 1 .. Len(waiting'[k]),
             Ours(window', answers'[i].call), Ours(window', waiting'[k][p])
      PROVE  FALSE
  BY <1>3, <1>4, <1>7 DEF OneAtATime
<1>8. CASE d = 1 /\ Ours(window, answers[1].call)
  <2>1. 1 \in 1 .. Len(answers)
    BY <1>2, <1>8
  <2>2. \A i \in 1 .. Len(answers') : ~Ours(window', answers'[i].call)
    <3> SUFFICES ASSUME NEW i \in 1 .. Len(answers'), Ours(window', answers'[i].call)
                 PROVE  FALSE
      OBVIOUS
    <3>1. i + 1 = 1
      BY <1>3, <1>8, <2>1 DEF OneAtATime
    <3> QED
      BY <3>1
  <2>3. \A k \in Key : \A p \in 1 .. Len(waiting'[k]) : ~Ours(window', waiting'[k][p])
    BY <1>4, <1>8, <2>1 DEF OneAtATime
  <2> QED
    BY <1>5, <1>6, <1>7, <2>2, <2>3 DEF OneAtATime
<1>9. CASE window'.active = window.active /\ window'.asking = window.asking
  <2>1. \A c : Suits(window, c) => Suits(window', c)
    BY <1>9 DEF Suits
  <2>2. \A i \in 1 .. Len(answers') :
          Ours(window', answers'[i].call) => Suits(window', answers'[i].call)
    BY <1>3, <2>1 DEF OneAtATime
  <2>3. \A k \in Key : \A p \in 1 .. Len(waiting'[k]) :
          Ours(window', waiting'[k][p]) => Suits(window', waiting'[k][p])
    BY <1>4, <2>1 DEF OneAtATime
  <2> QED
    BY <1>5, <1>6, <1>7, <2>2, <2>3 DEF OneAtATime
<1> QED
  BY <1>8, <1>9

(* ... and when one is, with none before it.                               *)
LEMMA OneStarts ==
  ASSUME QueueTypes, NEW d, NEW new, NEW more, Grown(d, new), Joined(more),
         window'.draft = window.draft,
         \A i \in 1 .. Len(answers) : i > d => ~Ours(window, answers[i].call),
         \A k \in Key : \A p \in 1 .. Len(waiting[k]) : ~Ours(window, waiting[k][p]),
         \A m \in new : Suits(window', m.call),
         \A c \in more : Suits(window', c),
         \/ Len(answers') <= Len(answers) - d + 1 /\ waiting' = waiting
         \/ /\ Len(answers') = Len(answers) - d
            /\ \E k \in Key : /\ Len(waiting'[k]) = Len(waiting[k]) + 1
                             /\ \A j \in Key : j # k => waiting'[j] = waiting[j]
  PROVE  OneAtATime'
<1>1. \A c : Ours(window', c) = Ours(window, c)
  BY DEF Ours
<1>2. d \in {0, 1} /\ Len(answers) \in Nat /\ Len(answers') \in Nat /\ d <= Len(answers)
  BY DEF Grown, QueueTypes
<1>3. ASSUME NEW i \in 1 .. Len(answers'), Ours(window', answers'[i].call)
      PROVE  i = Len(answers) - d + 1 /\ Suits(window', answers'[i].call) /\ waiting' = waiting
  <2>1. CASE i <= Len(answers) - d
    <3>1. /\ i + d \in 1 .. Len(answers) /\ i + d > d /\ answers'[i] = answers[i + d]
          /\ Ours(window, answers[i + d].call)
      BY <1>1, <1>2, <1>3, <2>1 DEF Grown
    <3> QED
      BY <3>1
  <2>2. CASE ~(i <= Len(answers) - d)
    <3>1. answers'[i] \in new /\ i > Len(answers) - d
      BY <1>2, <2>2 DEF Grown
    <3> QED
      BY <1>2, <3>1
  <2> QED
    BY <2>1, <2>2
<1>4. ASSUME NEW k \in Key, NEW p \in 1 .. Len(waiting'[k]), Ours(window', waiting'[k][p])
      PROVE  /\ waiting'[k] # waiting[k] /\ p > Len(waiting[k]) /\ Suits(window', waiting'[k][p])
  <2>1. waiting[k] \in Seq(Call) /\ waiting'[k] \in Seq(Call)
    BY DEF QueueTypes, Joined
  <2>2. CASE p <= Len(waiting[k])
    <3>1. /\ p \in 1 .. Len(waiting[k]) /\ waiting'[k][p] = waiting[k][p]
          /\ Ours(window, waiting[k][p])
      BY <1>1, <1>4, <2>1, <2>2 DEF Joined
    <3> QED
      BY <3>1
  <2>3. CASE ~(p <= Len(waiting[k]))
    <3>1. waiting'[k][p] \in more
      BY <2>3 DEF Joined
    <3> QED
      BY <2>1, <2>3, <3>1
  <2> QED
    BY <2>2, <2>3
<1>5. \A k \in Key : waiting[k] \in Seq(Call) /\ waiting'[k] \in Seq(Call)
  BY DEF QueueTypes, Joined
<1>6. ASSUME NEW j \in Key, NEW k \in Key, NEW p \in 1 .. Len(waiting'[j]),
             NEW q \in 1 .. Len(waiting'[k]),
             Ours(window', waiting'[j][p]), Ours(window', waiting'[k][q])
      PROVE  j = k /\ p = q
  <2>1. /\ waiting'[j] # waiting[j] /\ p > Len(waiting[j])
        /\ waiting'[k] # waiting[k] /\ q > Len(waiting[k])
    BY <1>4, <1>6
  <2>2. PICK l \in Key : /\ Len(waiting'[l]) = Len(waiting[l]) + 1
                         /\ \A i \in Key : i # l => waiting'[i] = waiting[i]
    BY <2>1
  <2>3. j = l /\ k = l
    BY <2>1, <2>2
  <2>4. Len(waiting[l]) \in Nat
    BY <1>5
  <2>5. p > Len(waiting[l]) /\ p <= Len(waiting[l]) + 1 /\ q > Len(waiting[l]) /\ q <= Len(waiting[l]) + 1
    BY <2>1, <2>2, <2>3, <2>4
  <2> QED
    BY <2>3, <2>4, <2>5
<1>7. ASSUME NEW i \in 1 .. Len(answers'), NEW k \in Key, NEW p \in 1 .. Len(waiting'[k]),
             Ours(window', answers'[i].call), Ours(window', waiting'[k][p])
      PROVE  FALSE
  BY <1>3, <1>4, <1>7
<1> QED
  BY <1>3, <1>4, <1>6, <1>7 DEF OneAtATime

(* The attempts of a step that begins none and sells none.                 *)
Settle(a, b) ==
  \A k \in Key : /\ b[k].items = a[k].items /\ (Begun(b, k) <=> Begun(a, k))
                 /\ b[k].state \in Live => a[k].state \in Live
                 /\ b[k].state \in Sold <=> a[k].state \in Sold

\* ... and those of one that may sell.
MoveOf(a, b) ==
  \A k \in Key : /\ b[k].items = a[k].items /\ (Begun(b, k) <=> Begun(a, k))
                 /\ b[k].state \in Live => a[k].state \in Live
                 /\ a[k].state \in Sold => b[k].state \in Sold

(* A draft after a step: what it still shows it showed, and locks.         *)
Keeps(a, b, w, v) ==
  /\ v.draft = w.draft
  /\ \A k \in Key : Shared(b, v, k) => Shared(a, w, k) /\ v.cart = w.cart /\ Holds(v, k)

LEMMA ToldStays ==
  ASSUME NEW a, NEW b, NEW w, NEW v, MoveOf(a, b), Keeps(a, b, w, v), NEW m \in Message,
         ToldTrue(a, w, m)
  PROVE  ToldTrue(b, v, m)
<1>1. \A k : Begun(b, k) <=> Begun(a, k)
  BY DEF MoveOf, Begun
<1>2. \A k \in Key : ~Shared(a, w, k) => ~Shared(b, v, k)
  BY DEF Keeps
<1>3. \A k : Begun(a, k) => k \in Key
  BY DEF Begun
<1>4. v.draft = w.draft
  BY DEF Keeps
<1> QED
  BY <1>1, <1>2, <1>3, <1>4 DEF ToldTrue, MoveOf

LEMMA TruthStays ==
  ASSUME CheckoutInv, Informed, NEW d, NEW new, NEW more, Grown(d, new), Joined(more),
         Settle(attempt, attempt'), Keeps(attempt, attempt', window, window'),
         \A m \in new : ToldTrue(attempt', window', m),
         \A c \in more : c.draft = window.draft,
         Knows(attempt', window'),
         d = 1 => \A k \in Key : Delivers(window, answers[1], k) => ~Shared(attempt', window', k)
  PROVE  TruthInv'
<1>1. QueueTypes /\ AllTold /\ Custody /\ LiveOnce /\ OnItsWay
  BY DEF CheckoutInv, CallsInv, TruthInv
<1>2. d \in {0, 1} /\ Len(answers) \in Nat /\ Len(answers') \in Nat /\ d <= Len(answers)
  BY <1>1 DEF Grown, QueueTypes
<1>3. ASSUME NEW i \in 1 .. Len(answers')
      PROVE  ToldTrue(attempt', window', answers'[i])
  <2>1. CASE i <= Len(answers) - d
    <3>1. i + d \in 1 .. Len(answers) /\ answers'[i] = answers[i + d]
      BY <1>2, <2>1 DEF Grown
    <3>2. answers[i + d] \in Message /\ ToldTrue(attempt, window, answers[i + d])
      BY <1>1, <3>1 DEF QueueTypes, AllTold
    <3> QED
      BY <3>1, <3>2, ToldStays DEF Settle, MoveOf
  <2>2. CASE ~(i <= Len(answers) - d)
    BY <2>2 DEF Grown
  <2> QED
    BY <2>1, <2>2
<1>4. Custody'
  <2> SUFFICES ASSUME NEW k \in Key, Shared(attempt', window', k)
               PROVE  Holds(window', k) /\ window'.cart = attempt'[k].items
    BY DEF Custody
  <2> QED
    BY <1>1 DEF Keeps, Settle, Custody
<1>5. LiveOnce'
  BY <1>1 DEF LiveOnce, Settle
<1>6. ASSUME NEW k \in Key, Shared(attempt', window', k), k \in running'
      PROVE  \E p \in 1 .. Len(waiting'[k]) : waiting'[k][p].draft = window'.draft
  <2>1. CASE k \in running
    <3>1. Shared(attempt, window, k)
      BY <1>6 DEF Keeps
    <3>2. PICK p \in 1 .. Len(waiting[k]) : waiting[k][p].draft = window.draft
      BY <1>1, <2>1, <3>1 DEF OnItsWay, AwaitedCalls
    <3>3. waiting[k] \in Seq(Call) /\ waiting'[k] \in Seq(Call)
      BY <1>1 DEF QueueTypes, Joined
    <3>4. p \in 1 .. Len(waiting'[k]) /\ waiting'[k][p] = waiting[k][p]
      BY <3>3 DEF Joined
    <3> QED
      BY <3>2, <3>4 DEF Keeps
  <2>2. CASE k \notin running
    BY <1>6, <2>2 DEF Joined, Keeps
  <2> QED
    BY <2>1, <2>2
<1>7. ASSUME NEW k \in Key, Shared(attempt', window', k), attempt'[k].state \in Sold
      PROVE  \E i \in 1 .. Len(answers') :
               Delivers(window', answers'[i], k) /\ \A h \in 1 .. i : ~Forgets(answers'[h], k)
  <2>1. Shared(attempt, window, k) /\ attempt[k].state \in Sold
    BY <1>7 DEF Keeps, Settle
  <2>2. PICK i \in 1 .. Len(answers) :
               Delivers(window, answers[i], k) /\ \A h \in 1 .. i : ~Forgets(answers[h], k)
    BY <1>1, <2>1 DEF OnItsWay, Announced
  <2>3. i - d \in 1 .. Len(answers')
    <3>1. ~(d = 1 /\ i = 1)
      BY <1>7, <2>2
    <3> QED
      BY <1>2, <3>1 DEF Grown
  <2>4. ASSUME NEW h \in 1 .. i - d
        PROVE  h + d \in 1 .. i /\ answers'[h] = answers[h + d]
    <3>1. h + d \in 1 .. i /\ h \in 1 .. Len(answers') /\ h <= Len(answers) - d
      BY <1>2, <2>3
    <3> QED
      BY <3>1 DEF Grown
  <2>5. answers'[i - d] = answers[i]
    BY <1>2, <2>3, <2>4
  <2>6. Delivers(window', answers'[i - d], k)
    BY <2>2, <2>5 DEF Delivers, Keeps
  <2> QED
    BY <2>2, <2>3, <2>4, <2>6
<1>8. AllTold'
  BY <1>3 DEF AllTold
<1>9. OnItsWay'
  BY <1>6, <1>7 DEF OnItsWay, AwaitedCalls, Announced
<1> QED
  BY <1>4, <1>5, <1>8, <1>9 DEF TruthInv

-----------------------------------------------------------------------------
(* What an answer does to the draft it was asked by.                       *)

WellTaken(w, v, m) ==
  /\ v \in Window /\ v.draft = w.draft /\ v.shift = w.shift
  /\ v.cart \in {w.cart, {}} /\ v.key \in {w.key, NoKey}
  /\ v.asking # "no" => v.asked \in Key
  /\ m.call.kind \notin Single => v.active = w.active /\ v.asking = w.asking

TrulyTaken(a, w, v, m) ==
  /\ Knows(a, v)
  /\ \A k \in Key : Shared(a, v, k) /\ Holds(w, k) /\ ~Forgets(m, k) => Holds(v, k)
  /\ \A k \in Key : Delivers(w, m, k) /\ w.key = k => v.cart = {}

LEMMA ApplyWell ==
  ASSUME NEW w \in Window, NEW m \in Message
  PROVE  /\ Apply(w, m) \in Window /\ Apply(w, m).draft = w.draft /\ Apply(w, m).shift = w.shift
         /\ Apply(w, m).cart \in {w.cart, {}} /\ Apply(w, m).key \in {w.key, NoKey}
         /\ Apply(w, m).asking = w.asking /\ Apply(w, m).asked = w.asked
         /\ Apply(w, m).active = w.active
<1> DEFINE o == IF m.says \in Sold \cup {"rejected", "abandoned"} THEN m.says ELSE "failed"
           said == [w EXCEPT !.outcome = o]
           v == Apply(w, m)
<1>1. o \in {"none", "failed", "rejected", "abandoned"} \cup Sold
  OBVIOUS
<1> HIDE DEF o
<1>2. /\ said \in Window /\ said.draft = w.draft /\ said.shift = w.shift /\ said.cart = w.cart
      /\ said.key = w.key /\ said.asking = w.asking /\ said.asked = w.asked
      /\ said.active = w.active
  BY <1>1 DEF Window
<1>3. /\ m.says = "committed" => v = [said EXCEPT !.state = "committed", !.cart = {}]
      /\ m.says = "claimed" => v = [said EXCEPT !.state = "claimed"]
      /\ m.says = "blocked" =>
           v = [[said EXCEPT !.key = NoKey, !.state = "none"] EXCEPT !.blocking = m.blocking]
      /\ m.says \in {"rejected", "refused", "conflict"} =>
           v = [said EXCEPT !.key = NoKey, !.state = "none"]
      /\ m.says \notin {"committed", "claimed", "blocked", "rejected", "refused", "conflict"} =>
           v = said
  BY DEF Apply, KeyFreed, o
<1> HIDE DEF said, v
<1>4. CASE m.says = "committed"
  <2>1. v = [said EXCEPT !.state = "committed", !.cart = {}]
    BY <1>3, <1>4
  <2>2. v \in Window
    BY <1>2, <2>1 DEF Window
  <2>3. /\ v.draft = said.draft /\ v.shift = said.shift /\ v.cart = {} /\ v.key = said.key
        /\ v.asking = said.asking /\ v.asked = said.asked /\ v.active = said.active
    BY <1>2, <2>1 DEF Window
  <2> QED
    BY <1>2, <2>2, <2>3 DEF v
<1>5. CASE m.says = "claimed"
  BY <1>2, <1>3, <1>5 DEF Window, v
<1> DEFINE freed == [said EXCEPT !.key = NoKey, !.state = "none"]
<1>6. /\ freed \in Window /\ freed.draft = w.draft /\ freed.shift = w.shift
      /\ freed.cart = w.cart /\ freed.key = NoKey /\ freed.asking = w.asking
      /\ freed.asked = w.asked /\ freed.active = w.active
  BY <1>2 DEF Window
<1>7. CASE m.says = "blocked"
  <2>1. m.blocking \in Key \cup {NoKey}
    BY DEF Message
  <2>2. v = [freed EXCEPT !.blocking = m.blocking]
    BY <1>3, <1>7
  <2> HIDE DEF freed
  <2>3. v \in Window
    BY <1>6, <2>1, <2>2 DEF Window
  <2>4. /\ v.draft = freed.draft /\ v.shift = freed.shift /\ v.cart = freed.cart
        /\ v.key = freed.key /\ v.asking = freed.asking /\ v.asked = freed.asked
        /\ v.active = freed.active
    BY <1>6, <2>2 DEF Window
  <2> QED
    BY <1>6, <2>3, <2>4 DEF v
<1>8. CASE m.says \in {"rejected", "refused", "conflict"}
  <2>1. v = freed
    BY <1>3, <1>8
  <2> QED
    BY <1>6, <2>1 DEF v
<1>9. CASE m.says \notin {"committed", "claimed", "blocked", "rejected", "refused", "conflict"}
  BY <1>2, <1>3, <1>9 DEF v
<1> QED
  BY <1>4, <1>5, <1>7, <1>8, <1>9

LEMMA RecordedWell ==
  ASSUME NEW w \in Window, NEW m \in Message, m.call.key \in Key
  PROVE  /\ Recorded(w, m) \in Window
         /\ \A f \in {"draft", "shift", "cart", "key", "asking", "asked", "active", "state", "outcome"} :
              Recorded(w, m)[f] = w[f]
BY DEF Recorded, Window

LEMMA ApplyFields ==
  ASSUME NEW w \in Window, NEW m \in Message
  PROVE  LET v == Apply(w, m) IN
         /\ v.results = w.results
         /\ v.blocking = IF m.says = "blocked" THEN m.blocking ELSE w.blocking
         /\ v.cart = IF m.says = "committed" THEN {} ELSE w.cart
         /\ v.outcome \in Sold => m.says \in Sold
         /\ IF m.says \in {"blocked", "rejected", "refused", "conflict"}
              THEN v.key = NoKey /\ v.state = "none"
              ELSE /\ v.key = w.key
                   /\ v.state = IF m.says \in {"committed", "claimed"} THEN m.says ELSE w.state
<1> DEFINE o == IF m.says \in Sold \cup {"rejected", "abandoned"} THEN m.says ELSE "failed"
           said == [w EXCEPT !.outcome = o]
           freed == [said EXCEPT !.key = NoKey, !.state = "none"]
           v == Apply(w, m)
<1>1. o \in Sold => m.says \in Sold
  BY DEF Sold
<1> HIDE DEF o
<1>2. /\ said.outcome = o /\ said.results = w.results /\ said.blocking = w.blocking
      /\ said.cart = w.cart /\ said.key = w.key /\ said.state = w.state
      /\ DOMAIN said = DOMAIN w
  BY DEF Window
<1>3. DOMAIN w = {"draft", "shift", "cart", "key", "state", "outcome", "active", "pending",
                  "asking", "asked", "blocking", "results"}
  BY DEF Window
<1>4. /\ m.says = "committed" => v = [said EXCEPT !.state = "committed", !.cart = {}]
      /\ m.says = "claimed" => v = [said EXCEPT !.state = "claimed"]
      /\ m.says = "blocked" => v = [freed EXCEPT !.blocking = m.blocking]
      /\ m.says \in {"rejected", "refused", "conflict"} => v = freed
      /\ m.says \notin {"committed", "claimed", "blocked", "rejected", "refused", "conflict"} =>
           v = said
  BY DEF Apply, KeyFreed, o
<1> HIDE DEF said, v
<1>5. CASE m.says = "committed"
  <2>1. v = [said EXCEPT !.state = "committed", !.cart = {}]
    BY <1>4, <1>5
  <2>2. /\ v.state = "committed" /\ v.cart = {} /\ v.key = said.key /\ v.outcome = said.outcome
        /\ v.results = said.results /\ v.blocking = said.blocking
    BY <1>2, <1>3, <2>1
  <2> QED
    BY <1>1, <1>2, <1>5, <2>2 DEF v
<1>6. CASE m.says = "claimed"
  <2>1. v = [said EXCEPT !.state = "claimed"]
    BY <1>4, <1>6
  <2>2. /\ v.state = "claimed" /\ v.cart = said.cart /\ v.key = said.key
        /\ v.outcome = said.outcome
        /\ v.results = said.results /\ v.blocking = said.blocking
    BY <1>2, <1>3, <2>1
  <2> QED
    BY <1>1, <1>2, <1>6, <2>2 DEF v
<1>7. /\ freed.key = NoKey /\ freed.state = "none" /\ freed.cart = w.cart
      /\ freed.outcome = said.outcome /\ freed.results = w.results
      /\ freed.blocking = w.blocking /\ DOMAIN freed = DOMAIN w
  BY <1>2, <1>3
<1> HIDE DEF freed
<1>8. CASE m.says = "blocked"
  <2>1. v = [freed EXCEPT !.blocking = m.blocking]
    BY <1>4, <1>8
  <2>2. /\ v.blocking = m.blocking /\ v.cart = freed.cart /\ v.key = freed.key
        /\ v.state = freed.state /\ v.outcome = freed.outcome /\ v.results = freed.results
    BY <1>7, <1>3, <2>1
  <2> QED
    BY <1>1, <1>2, <1>7, <1>8, <2>2 DEF v
<1>9. CASE m.says \in {"rejected", "refused", "conflict"}
  BY <1>1, <1>2, <1>4, <1>7, <1>9 DEF v
<1>10. CASE m.says \notin {"committed", "claimed", "blocked", "rejected", "refused", "conflict"}
  BY <1>1, <1>2, <1>4, <1>10 DEF v
<1> QED
  BY <1>5, <1>6, <1>8, <1>9, <1>10

LEMMA ApplyTrue ==
  ASSUME NEW a, NEW w \in Window, NEW m \in Message, ToldTrue(a, w, m), Knows(a, w),
         m.call.kind \in Completing, m.call.draft = w.draft, w.key = m.call.key
  PROVE  TrulyTaken(a, w, Apply(w, m), m)
<1> DEFINE v == Apply(w, m)
<1>1. /\ v.results = w.results
      /\ v.blocking = IF m.says = "blocked" THEN m.blocking ELSE w.blocking
      /\ v.cart = IF m.says = "committed" THEN {} ELSE w.cart
      /\ v.outcome \in Sold => m.says \in Sold
      /\ IF m.says \in {"blocked", "rejected", "refused", "conflict"}
           THEN v.key = NoKey /\ v.state = "none"
           ELSE /\ v.key = w.key
                /\ v.state = IF m.says \in {"committed", "claimed"} THEN m.says ELSE w.state
      /\ v.asking = w.asking /\ v.asked = w.asked
  BY ApplyFields, ApplyWell
<1> HIDE DEF v
<1>2. /\ m.says \in {"blocked", "refused"} => ~Begun(a, w.key)
      /\ m.says = "blocked" => Begun(a, m.blocking)
      /\ m.says = "conflict" => ~Shared(a, w, w.key)
      /\ m.says \in {"rejected", "abandoned"} => a[w.key].state \notin Live
      /\ m.says \in {"claimed", "committed", "acknowledged"} => Begun(a, w.key)
  BY DEF ToldTrue, Completing, Sold
<1>3. Knows(a, v)
  BY <1>1, <1>2 DEF Knows, Sold, NoKey
<1>4. ASSUME NEW k \in Key, Shared(a, v, k), Holds(w, k) PROVE Holds(v, k)
  <2>1. w.key = k /\ v.cart = w.cart /\ m.says # "committed"
    BY <1>1, <1>4 DEF Holds, Shared
  <2>2. Shared(a, w, k) /\ Begun(a, k)
    BY <1>4, <2>1 DEF Shared, Begun, Live, Sold
  <2>3. m.says \notin {"blocked", "rejected", "refused", "conflict"}
    BY <1>2, <2>1, <2>2 DEF Shared
  <2> QED
    BY <1>1, <1>4, <2>1, <2>3 DEF Holds
<1>5. \A k \in Key : Delivers(w, m, k) /\ w.key = k => v.cart = {}
  BY <1>1 DEF Delivers
<1> QED
  BY <1>3, <1>4, <1>5 DEF TrulyTaken, v

(* What is recorded of an attempt that is not the draft's.                 *)
LEMMA RecordedTrue ==
  ASSUME NEW a, NEW w \in Window, NEW m \in Message, ToldTrue(a, w, m), Knows(a, w),
         m.call.kind \in Completing, w.key # m.call.key
  PROVE  TrulyTaken(a, w, Recorded(w, m), m)
<1> DEFINE v == Recorded(w, m)
<1>1. /\ v.asking = w.asking /\ v.asked = w.asked /\ v.key = w.key /\ v.state = w.state
      /\ v.outcome = w.outcome /\ v.cart = w.cart
      /\ v.blocking = IF m.says = "claimed" THEN m.call.key ELSE w.blocking
      /\ v.results = IF m.says = "committed" THEN w.results \cup {m.call.key} ELSE w.results
  BY DEF Recorded, Window
<1> HIDE DEF v
<1>2. m.says \in {"claimed", "committed"} => Begun(a, m.call.key)
  BY DEF ToldTrue, Completing, Sold
<1>3. Knows(a, v)
  BY <1>1, <1>2 DEF Knows
<1>4. \A k \in Key : Holds(w, k) => Holds(v, k)
  BY <1>1 DEF Holds
<1>5. \A k \in Key : ~(Delivers(w, m, k) /\ w.key = k)
  BY DEF Delivers
<1> QED
  BY <1>3, <1>4, <1>5 DEF TrulyTaken, v

(* Whether the window is busy or asks plays no part in it.                 *)
Alike(w, v) ==
  /\ v.draft = w.draft /\ v.cart = w.cart /\ v.key = w.key /\ v.state = w.state
  /\ v.outcome = w.outcome /\ v.blocking = w.blocking /\ v.results = w.results

LEMMA AlikeTold ==
  ASSUME NEW a, NEW w, NEW v, NEW m, Alike(w, v)
  PROVE  /\ ToldTrue(a, w, m) => ToldTrue(a, v, m)
         /\ \A u : TrulyTaken(a, v, u, m) => TrulyTaken(a, w, u, m)
<1>1. ToldTrue(a, w, m) => ToldTrue(a, v, m)
  BY DEF Alike, ToldTrue, Shared
<1>2. \A k \in Key : Holds(w, k) = Holds(v, k) /\ Delivers(w, m, k) = Delivers(v, m, k)
  BY DEF Alike, Holds, Delivers
<1> QED
  BY <1>1, <1>2 DEF Alike, TrulyTaken

(* An answer to a call of this draft, and the draft it finds.              *)
AnswersTo(w, m) ==
  /\ w \in Window /\ m \in Message /\ m.call.draft = w.draft
  /\ m.call.kind # "pending" => m.call.key \in Key
  /\ w.asking # "no" => w.asked \in Key
  /\ Suits(w, m.call)

\* Both: the shape of the draft, and that it stays true.
Taking(a, w, v, m) ==
  WellTaken(w, v, m) /\ (ToldTrue(a, w, m) /\ Knows(a, w) => TrulyTaken(a, w, v, m))

LEMMA RetryTaken ==
  ASSUME NEW a, NEW w, NEW m, AnswersTo(w, m), m.call.kind = "retry"
  PROVE  Taking(a, w, OnRetry(w, m), m)
<1> DEFINE k == m.call.key
           done == [w EXCEPT !.pending = FALSE]
           taken == IF w.key = k THEN Apply(done, m)
                    ELSE IF m.says = "committed" THEN Recorded(done, m) ELSE done
           v == OnRetry(w, m)
<1>1. w \in Window /\ m \in Message /\ k \in Key /\ m.call.draft = w.draft
      /\ (w.asking # "no" => w.asked \in Key)
  BY DEF AnswersTo
<1>2. /\ done \in Window /\ Alike(w, done) /\ done.shift = w.shift /\ done.active = w.active
      /\ done.asking = w.asking /\ done.asked = w.asked
  BY <1>1 DEF Window, Alike
<1>3. /\ v = IF m.says = "error" THEN done
             ELSE IF m.says \in Sold \cup {"rejected", "abandoned"} THEN Unblocked(taken, k)
             ELSE taken
  BY DEF OnRetry
<1> HIDE DEF done, v
<1>4. WellTaken(w, done, m)
  BY <1>1, <1>2 DEF WellTaken, Alike
<1>5. WellTaken(w, taken, m)
  <2>1. CASE w.key = k
    <3>1. WellTaken(done, Apply(done, m), m)
      BY <1>1, <1>2, ApplyWell DEF WellTaken
    <3> QED
      BY <1>2, <2>1, <3>1 DEF WellTaken, Alike
  <2>2. CASE w.key # k /\ m.says = "committed"
    <3>1. WellTaken(done, Recorded(done, m), m)
      BY <1>1, <1>2, RecordedWell DEF WellTaken
    <3> QED
      BY <1>2, <2>2, <3>1 DEF WellTaken, Alike
  <2> QED
    BY <1>4, <2>1, <2>2
<1>6. ASSUME NEW u, WellTaken(w, u, m)
      PROVE  /\ WellTaken(w, Unblocked(u, k), m)
             /\ TrulyTaken(a, w, u, m) => TrulyTaken(a, w, Unblocked(u, k), m)
  <2> DEFINE x == Unblocked(u, k)
  <2>1. u \in Window
    BY <1>6 DEF WellTaken
  <2>2. /\ x \in Window
        /\ x.draft = u.draft /\ x.shift = u.shift /\ x.cart = u.cart /\ x.key = u.key
        /\ x.asking = u.asking /\ x.asked = u.asked /\ x.active = u.active
        /\ x.state = u.state /\ x.outcome = u.outcome /\ x.results = u.results
        /\ x.blocking \in {u.blocking, NoKey}
    BY <2>1 DEF Unblocked, Window
  <2> HIDE DEF x
  <2>3. WellTaken(w, x, m)
    BY <1>6, <2>2 DEF WellTaken
  <2>4. TrulyTaken(a, w, u, m) => TrulyTaken(a, w, x, m)
    BY <2>2 DEF TrulyTaken, Knows, Shared, Holds
  <2> QED
    BY <2>3, <2>4 DEF x
<1>7. ASSUME ToldTrue(a, w, m), Knows(a, w)
      PROVE  TrulyTaken(a, w, v, m)
  <2>1. ToldTrue(a, done, m) /\ Knows(a, done)
    BY <1>2, <1>7, AlikeTold DEF Knows, Alike
  <2>2. m.says # "committed" => TrulyTaken(a, w, done, m)
    BY <1>2, <2>1 DEF TrulyTaken, Alike, Holds, Shared, Delivers
  <2>3. TrulyTaken(a, w, taken, m)
    <3>1. CASE w.key = k
      <4>1. TrulyTaken(a, done, Apply(done, m), m)
        BY <1>1, <1>2, <2>1, <3>1, ApplyTrue DEF Completing, Alike
      <4> QED
        BY <1>2, <3>1, <4>1, AlikeTold
    <3>2. CASE w.key # k /\ m.says = "committed"
      <4>1. TrulyTaken(a, done, Recorded(done, m), m)
        BY <1>1, <1>2, <2>1, <3>2, RecordedTrue DEF Completing, Alike
      <4> QED
        BY <1>2, <3>2, <4>1, AlikeTold
    <3> QED
      BY <2>2, <3>1, <3>2
  <2> QED
    BY <1>3, <1>5, <1>6, <2>2, <2>3
<1>8. WellTaken(w, v, m)
  BY <1>3, <1>4, <1>5, <1>6
<1> QED
  BY <1>7, <1>8 DEF Taking, v

LEMMA CompleteTaken ==
  ASSUME NEW a, NEW w, NEW m, AnswersTo(w, m), m.call.kind = "complete"
  PROVE  Taking(a, w, OnComplete(w, m), m)
<1> DEFINE k == m.call.key
           done == [w EXCEPT !.active = FALSE, !.pending = FALSE]
           asks == [done EXCEPT !.asking = "first", !.asked = k]
           v == OnComplete(w, m)
<1>1. w \in Window /\ m \in Message /\ k \in Key /\ m.call.draft = w.draft
      /\ (w.asking # "no" => w.asked \in Key)
  BY DEF AnswersTo
<1>2. /\ done \in Window /\ Alike(w, done) /\ done.shift = w.shift /\ done.active = FALSE
      /\ done.asking = w.asking /\ done.asked = w.asked
  BY <1>1 DEF Window, Alike
<1>3. v = IF m.says = "error" THEN asks ELSE ApplyOrRecord(done, m)
  BY DEF OnComplete
<1> HIDE DEF done, v
<1>4. CASE m.says = "error"
  <2>1. /\ asks \in Window /\ Alike(done, asks) /\ asks.shift = done.shift
        /\ asks.active = done.active /\ asks.asking = "first" /\ asks.asked = k
    BY <1>1, <1>2 DEF Window, Alike
  <2> HIDE DEF asks
  <2>2. WellTaken(w, asks, m)
    BY <1>1, <1>2, <2>1 DEF WellTaken, Alike, Single
  <2>3. ASSUME ToldTrue(a, w, m), Knows(a, w)
        PROVE  TrulyTaken(a, w, asks, m)
    <3>1. Begun(a, k)
      BY <1>4, <2>3 DEF ToldTrue, Sold
    <3>2. Knows(a, asks)
      BY <1>2, <2>1, <2>3, <3>1 DEF Knows, Alike
    <3> QED
      BY <1>2, <1>4, <2>1, <3>2 DEF TrulyTaken, Alike, Holds, Delivers
  <2> QED
    BY <1>3, <1>4, <2>2, <2>3 DEF Taking, v
<1>5. CASE m.says # "error" /\ w.key = k
  <2>1. v = Apply(done, m)
    BY <1>2, <1>3, <1>5 DEF ApplyOrRecord, Alike
  <2>2. WellTaken(w, v, m)
    BY <1>1, <1>2, <2>1, ApplyWell DEF WellTaken, Alike, Single
  <2>3. ASSUME ToldTrue(a, w, m), Knows(a, w)
        PROVE  TrulyTaken(a, w, v, m)
    <3>1. ToldTrue(a, done, m) /\ Knows(a, done)
      BY <1>2, <2>3, AlikeTold DEF Knows, Alike
    <3>2. TrulyTaken(a, done, Apply(done, m), m)
      BY <1>1, <1>2, <1>5, <3>1, ApplyTrue DEF Completing, Alike
    <3> QED
      BY <1>2, <2>1, <3>2, AlikeTold
  <2> QED
    BY <2>2, <2>3 DEF Taking, v
<1>6. CASE m.says # "error" /\ w.key # k
  <2>1. v = Recorded(done, m)
    BY <1>2, <1>3, <1>6 DEF ApplyOrRecord, Alike
  <2>2. WellTaken(w, v, m)
    BY <1>1, <1>2, <2>1, RecordedWell DEF WellTaken, Alike, Single
  <2>3. ASSUME ToldTrue(a, w, m), Knows(a, w)
        PROVE  TrulyTaken(a, w, v, m)
    <3>1. ToldTrue(a, done, m) /\ Knows(a, done)
      BY <1>2, <2>3, AlikeTold DEF Knows, Alike
    <3>2. TrulyTaken(a, done, Recorded(done, m), m)
      BY <1>1, <1>2, <1>6, <3>1, RecordedTrue DEF Completing, Alike
    <3> QED
      BY <1>2, <2>1, <3>2, AlikeTold
  <2> QED
    BY <2>2, <2>3 DEF Taking, v
<1> QED
  BY <1>4, <1>5, <1>6

LEMMA ReplayTaken ==
  ASSUME NEW a, NEW w, NEW m, AnswersTo(w, m), m.call.kind = "replay"
  PROVE  Taking(a, w, OnReplay(w, m), m)
<1> DEFINE k == m.call.key
           done == [w EXCEPT !.asking = "no", !.asked = NoKey]
           v == OnReplay(w, m)
<1>1. w \in Window /\ m \in Message /\ k \in Key /\ m.call.draft = w.draft
  BY DEF AnswersTo
<1>2. /\ done \in Window /\ Alike(w, done) /\ done.shift = w.shift
      /\ done.asking = "no" /\ done.asked = NoKey
  BY <1>1 DEF Window, Alike
<1>3. v = IF m.says = "error" THEN done
          ELSE IF done.key = k THEN Apply(done, m) ELSE Recorded(done, m)
  BY DEF OnReplay, ApplyOrRecord
<1> HIDE DEF done, v
<1>4. ASSUME ToldTrue(a, w, m), Knows(a, w)
      PROVE  ToldTrue(a, done, m) /\ Knows(a, done)
  BY <1>2, <1>4, AlikeTold DEF Knows, Alike
<1>5. CASE m.says = "error"
  <2>1. WellTaken(w, v, m)
    BY <1>1, <1>2, <1>3, <1>5 DEF WellTaken, Alike, Single
  <2>2. ASSUME ToldTrue(a, w, m), Knows(a, w)
        PROVE  TrulyTaken(a, w, v, m)
    BY <1>2, <1>3, <1>4, <1>5, <2>2 DEF TrulyTaken, Alike, Holds, Delivers
  <2> QED
    BY <2>1, <2>2 DEF Taking, v
<1>6. CASE m.says # "error" /\ done.key = k
  <2>1. WellTaken(w, v, m)
    BY <1>1, <1>2, <1>3, <1>6, ApplyWell DEF WellTaken, Alike, Single
  <2>2. ASSUME ToldTrue(a, w, m), Knows(a, w)
        PROVE  TrulyTaken(a, w, v, m)
    <3>1. TrulyTaken(a, done, Apply(done, m), m)
      BY <1>1, <1>2, <1>4, <1>6, <2>2, ApplyTrue DEF Completing, Alike
    <3> QED
      BY <1>2, <1>3, <1>6, <3>1, AlikeTold
  <2> QED
    BY <2>1, <2>2 DEF Taking, v
<1>7. CASE m.says # "error" /\ done.key # k
  <2>1. WellTaken(w, v, m)
    BY <1>1, <1>2, <1>3, <1>7, RecordedWell DEF WellTaken, Alike, Single
  <2>2. ASSUME ToldTrue(a, w, m), Knows(a, w)
        PROVE  TrulyTaken(a, w, v, m)
    <3>1. TrulyTaken(a, done, Recorded(done, m), m)
      BY <1>1, <1>2, <1>4, <1>7, <2>2, RecordedTrue DEF Completing, Alike
    <3> QED
      BY <1>2, <1>3, <1>7, <3>1, AlikeTold
  <2> QED
    BY <2>1, <2>2 DEF Taking, v
<1> QED
  BY <1>5, <1>6, <1>7

(* What the other answers change is said field by field.                   *)
LEMMA CheckTaken ==
  ASSUME NEW a, NEW w, NEW m, AnswersTo(w, m), m.call.kind = "check"
  PROVE  Taking(a, w, OnCheck(w, m), m)
<1> DEFINE k == m.call.key
           done == [w EXCEPT !.asking = "no", !.asked = NoKey]
           v == OnCheck(w, m)
<1>1. /\ w \in Window /\ m \in Message /\ k \in Key /\ m.call.draft = w.draft
      /\ w.asking = "asked" /\ w.asked \in Key
  BY DEF AnswersTo, Suits
<1>2. /\ done \in Window /\ Alike(w, done) /\ done.shift = w.shift
      /\ done.asking = "no" /\ done.asked = NoKey
  BY <1>1 DEF Window, Alike
<1>3. /\ m.says \in {"error", "in-flight"} => v = [w EXCEPT !.asking = "again"]
      /\ m.says \in Sold => v = [w EXCEPT !.asking = "replaying"]
      /\ m.says = "claimed" => v = IF w.key = k THEN [done EXCEPT !.state = "claimed"]
                                   ELSE [done EXCEPT !.blocking = k]
      /\ m.says \notin {"error", "in-flight", "claimed"} \cup Sold =>
           v = IF w.key = k THEN [done EXCEPT !.key = NoKey, !.state = "none"] ELSE done
  BY DEF OnCheck, KeyFreed, Sold
<1> HIDE DEF done, v
<1>4. CASE m.says \in {"error", "in-flight"} \cup Sold
  <2>1. /\ v \in Window /\ Alike(w, v) /\ v.shift = w.shift /\ v.asked = w.asked
    BY <1>1, <1>3, <1>4 DEF Window, Alike, Sold
  <2>2. WellTaken(w, v, m)
    BY <1>1, <2>1 DEF WellTaken, Alike, Single
  <2>3. ASSUME ToldTrue(a, w, m), Knows(a, w)
        PROVE  TrulyTaken(a, w, v, m)
    BY <1>1, <2>1, <2>3 DEF TrulyTaken, Knows, Alike, Holds, Delivers, Completing
  <2> QED
    BY <2>2, <2>3 DEF Taking, v
<1>5. CASE m.says = "claimed" /\ w.key = k
  <2>1. v = [done EXCEPT !.state = "claimed"]
    BY <1>3, <1>5
  <2>2. /\ v \in Window /\ v.shift = w.shift /\ v.asking = "no" /\ v.draft = w.draft
        /\ v.cart = w.cart /\ v.key = w.key /\ v.state = "claimed" /\ v.outcome = w.outcome
        /\ v.blocking = w.blocking /\ v.results = w.results
    BY <1>2, <2>1 DEF Window, Alike
  <2>3. WellTaken(w, v, m)
    BY <1>1, <2>2 DEF WellTaken, Single
  <2>4. ASSUME ToldTrue(a, w, m), Knows(a, w)
        PROVE  TrulyTaken(a, w, v, m)
    <3>1. Begun(a, k)
      BY <1>1, <1>5, <2>4 DEF ToldTrue, Sold
    <3> QED
      BY <1>1, <1>5, <2>2, <2>4, <3>1 DEF TrulyTaken, Knows, Holds, Delivers, Completing
  <2> QED
    BY <2>3, <2>4 DEF Taking, v
<1>6. CASE m.says = "claimed" /\ w.key # k
  <2>1. v = [done EXCEPT !.blocking = k]
    BY <1>3, <1>6
  <2>2. /\ v \in Window /\ v.shift = w.shift /\ v.asking = "no" /\ v.draft = w.draft
        /\ v.cart = w.cart /\ v.key = w.key /\ v.state = w.state /\ v.outcome = w.outcome
        /\ v.blocking = k /\ v.results = w.results
    BY <1>1, <1>2, <2>1 DEF Window, Alike
  <2>3. WellTaken(w, v, m)
    BY <1>1, <2>2 DEF WellTaken, Single
  <2>4. ASSUME ToldTrue(a, w, m), Knows(a, w)
        PROVE  TrulyTaken(a, w, v, m)
    <3>1. Begun(a, k)
      BY <1>1, <1>6, <2>4 DEF ToldTrue, Sold
    <3> QED
      BY <1>1, <1>6, <2>2, <2>4, <3>1 DEF TrulyTaken, Knows, Holds, Delivers, Completing
  <2> QED
    BY <2>3, <2>4 DEF Taking, v
<1>7. CASE m.says \notin {"error", "in-flight", "claimed"} \cup Sold /\ w.key = k
  <2>1. v = [done EXCEPT !.key = NoKey, !.state = "none"]
    BY <1>3, <1>7
  <2>2. /\ v \in Window /\ v.shift = w.shift /\ v.asking = "no" /\ v.draft = w.draft
        /\ v.cart = w.cart /\ v.key = NoKey /\ v.state = "none" /\ v.outcome = w.outcome
        /\ v.blocking = w.blocking /\ v.results = w.results
    BY <1>2, <2>1 DEF Window, Alike
  <2>3. WellTaken(w, v, m)
    BY <1>1, <2>2 DEF WellTaken, Single
  <2>4. ASSUME ToldTrue(a, w, m), Knows(a, w)
        PROVE  TrulyTaken(a, w, v, m)
    <3>1. a[k].state \notin Live
      BY <1>1, <1>7, <2>4 DEF ToldTrue, Completing
    <3> QED
      BY <1>1, <1>7, <2>2, <2>4, <3>1 DEF TrulyTaken, Knows, Holds, Delivers, Completing, Shared
  <2> QED
    BY <2>3, <2>4 DEF Taking, v
<1>8. CASE m.says \notin {"error", "in-flight", "claimed"} \cup Sold /\ w.key # k
  <2>1. v = done
    BY <1>3, <1>8
  <2>2. WellTaken(w, v, m)
    BY <1>1, <1>2, <2>1 DEF WellTaken, Alike, Single
  <2>3. ASSUME ToldTrue(a, w, m), Knows(a, w)
        PROVE  TrulyTaken(a, w, v, m)
    BY <1>1, <1>2, <2>1, <2>3 DEF TrulyTaken, Knows, Alike, Holds, Delivers, Completing
  <2> QED
    BY <2>2, <2>3 DEF Taking, v
<1> QED
  BY <1>4, <1>5, <1>6, <1>7, <1>8

LEMMA StatusTaken ==
  ASSUME NEW a, NEW w, NEW m, AnswersTo(w, m), m.call.kind = "status"
  PROVE  Taking(a, w, OnStatus(w, m), m)
<1> DEFINE k == m.call.key
           v == OnStatus(w, m)
<1>1. /\ w \in Window /\ m \in Message /\ k \in Key /\ m.call.draft = w.draft
      /\ w.asking # "no" => w.asked \in Key
  BY DEF AnswersTo
<1>2. /\ w.key = k /\ m.says \in {"claimed", "in-flight"} => v = [w EXCEPT !.state = m.says]
      /\ w.key = k /\ m.says = "unknown" => v = [w EXCEPT !.key = NoKey, !.state = "none"]
      /\ w.key # k \/ m.says \notin {"claimed", "in-flight", "unknown"} => v = w
  BY DEF OnStatus, KeyFreed
<1> HIDE DEF v
<1>3. CASE w.key = k /\ m.says \in {"claimed", "in-flight"}
  <2>1. v = [w EXCEPT !.state = m.says]
    BY <1>2, <1>3
  <2>2. /\ v \in Window /\ v.shift = w.shift /\ v.asking = w.asking /\ v.draft = w.draft
        /\ v.cart = w.cart /\ v.key = w.key /\ v.state = m.says /\ v.outcome = w.outcome
        /\ v.blocking = w.blocking /\ v.results = w.results /\ v.active = w.active
        /\ v.asked = w.asked
    BY <1>1, <1>3, <2>1 DEF Window
  <2>3. WellTaken(w, v, m)
    BY <1>1, <2>2 DEF WellTaken
  <2>4. ASSUME ToldTrue(a, w, m), Knows(a, w)
        PROVE  TrulyTaken(a, w, v, m)
    <3>1. Begun(a, k)
      BY <1>1, <1>3, <2>4 DEF ToldTrue, Sold
    <3> QED
      BY <1>1, <1>3, <2>2, <2>4, <3>1 DEF TrulyTaken, Knows, Holds, Delivers, Completing
  <2> QED
    BY <2>3, <2>4 DEF Taking, v
<1>4. CASE w.key = k /\ m.says = "unknown"
  <2>1. v = [w EXCEPT !.key = NoKey, !.state = "none"]
    BY <1>2, <1>4
  <2>2. /\ v \in Window /\ v.shift = w.shift /\ v.asking = w.asking /\ v.draft = w.draft
        /\ v.cart = w.cart /\ v.key = NoKey /\ v.active = w.active /\ v.asked = w.asked
    BY <1>1, <2>1 DEF Window
  <2>3. WellTaken(w, v, m)
    BY <1>1, <2>2 DEF WellTaken
  <2>4. ~ToldTrue(a, w, m)
    BY <1>1, <1>4 DEF ToldTrue, Completing, Sold
  <2> QED
    BY <2>3, <2>4 DEF Taking, v
<1>5. CASE w.key # k \/ m.says \notin {"claimed", "in-flight", "unknown"}
  <2>1. v = w
    BY <1>2, <1>5
  <2> QED
    BY <1>1, <2>1 DEF Taking, WellTaken, TrulyTaken, Holds, Delivers, Completing, v
<1> QED
  BY <1>3, <1>4, <1>5

LEMMA PendingTaken ==
  ASSUME NEW a, NEW w, NEW m, AnswersTo(w, m), m.call.kind = "pending"
  PROVE  Taking(a, w, OnPending(w, m), m)
<1> DEFINE st == IF m.blocking # NoKey /\ m.blocking = w.key THEN "claimed" ELSE w.state
           v == OnPending(w, m)
<1>1. /\ w \in Window /\ m \in Message /\ m.call.draft = w.draft
      /\ w.asking # "no" => w.asked \in Key
      /\ m.blocking \in Key \cup {NoKey} /\ m.results \in SUBSET Key
  BY DEF AnswersTo, Message
<1>2. CASE m.says = "error"
  BY <1>1, <1>2 DEF OnPending, Taking, WellTaken, TrulyTaken, Holds, Delivers, Completing
<1>3. CASE m.says # "error"
  <2>1. v = [w EXCEPT !.blocking = m.blocking, !.results = m.results, !.state = st]
    BY <1>3 DEF OnPending
  <2>2. st \in {"none", "in-flight", "claimed", "committed"}
    BY <1>1 DEF Window
  <2>3. \A x : st = x => x \in {"claimed", w.state}
    OBVIOUS
  <2> HIDE DEF v
  <2>4. /\ v \in Window /\ v.shift = w.shift /\ v.asking = w.asking /\ v.draft = w.draft
        /\ v.cart = w.cart /\ v.key = w.key /\ v.outcome = w.outcome /\ v.state = st
        /\ v.blocking = m.blocking /\ v.results = m.results /\ v.active = w.active
        /\ v.asked = w.asked
    BY <1>1, <2>1, <2>2 DEF Window
  <2>5. WellTaken(w, v, m)
    BY <1>1, <2>4 DEF WellTaken
  <2>6. ASSUME ToldTrue(a, w, m), Knows(a, w)
        PROVE  TrulyTaken(a, w, v, m)
    <3>1. /\ m.blocking # NoKey => Begun(a, m.blocking)
          /\ \A j \in m.results : Begun(a, j)
      BY <1>1, <1>3, <2>6 DEF ToldTrue, Completing
    <3>2. Knows(a, v)
      BY <1>1, <2>4, <2>6, <3>1 DEF Knows
    <3> QED
      BY <1>1, <2>4, <3>2 DEF TrulyTaken, Holds, Delivers, Completing
  <2> QED
    BY <2>5, <2>6 DEF Taking, v
<1> QED
  BY <1>2, <1>3

LEMMA AbandonTaken ==
  ASSUME NEW a, NEW w, NEW m, AnswersTo(w, m), m.call.kind = "abandon"
  PROVE  Taking(a, w, OnAbandon(w, m), m)
<1> DEFINE k == m.call.key
           u == Unblocked(w, k)
           v == OnAbandon(w, m)
<1>1. /\ w \in Window /\ m \in Message /\ k \in Key /\ m.call.draft = w.draft
      /\ w.asking # "no" => w.asked \in Key
  BY DEF AnswersTo
<1>2. /\ u \in Window /\ u.shift = w.shift /\ u.asking = w.asking /\ u.draft = w.draft
      /\ u.cart = w.cart /\ u.key = w.key /\ u.outcome = w.outcome /\ u.state = w.state
      /\ u.blocking \in {w.blocking, NoKey} /\ u.results = w.results /\ u.active = w.active
      /\ u.asked = w.asked
  BY <1>1 DEF Unblocked, Window
<1>3. /\ m.says = "abandoned" /\ w.key = k => v = ResetEditable(u)
      /\ m.says = "abandoned" /\ w.key # k => v = u
      /\ m.says # "abandoned" => v = w \/ v = [w EXCEPT !.outcome = "failed"]
  BY DEF OnAbandon
<1> HIDE DEF u, v
<1>4. CASE m.says = "abandoned" /\ w.key = k
  <2>1. v = [[u EXCEPT !.key = NoKey, !.state = "none"] EXCEPT !.outcome = "none"]
    BY <1>3, <1>4 DEF ResetEditable, KeyFreed
  <2>2. /\ v \in Window /\ v.shift = w.shift /\ v.asking = w.asking /\ v.draft = w.draft
        /\ v.cart = w.cart /\ v.key = NoKey /\ v.blocking = u.blocking /\ v.results = w.results
        /\ v.active = w.active /\ v.asked = w.asked
    BY <1>2, <2>1 DEF Window
  <2>3. WellTaken(w, v, m)
    BY <1>1, <2>2 DEF WellTaken
  <2>4. ASSUME ToldTrue(a, w, m), Knows(a, w)
        PROVE  TrulyTaken(a, w, v, m)
    <3>1. a[k].state \notin Live
      BY <1>1, <1>4, <2>4 DEF ToldTrue, Completing, Sold
    <3> QED
      BY <1>1, <1>2, <1>4, <2>2, <2>4, <3>1 DEF TrulyTaken, Knows, Holds, Delivers, Completing, Shared
  <2> QED
    BY <2>3, <2>4 DEF Taking, v
<1>5. CASE m.says = "abandoned" /\ w.key # k
  <2>1. v = u
    BY <1>3, <1>5
  <2>2. WellTaken(w, v, m)
    BY <1>1, <1>2, <2>1 DEF WellTaken
  <2>3. ASSUME ToldTrue(a, w, m), Knows(a, w)
        PROVE  TrulyTaken(a, w, v, m)
    BY <1>1, <1>2, <2>1, <2>3 DEF TrulyTaken, Knows, Holds, Delivers, Completing
  <2> QED
    BY <2>2, <2>3 DEF Taking, v
<1>6. CASE m.says # "abandoned"
  <2>1. /\ v \in Window /\ v.shift = w.shift /\ v.asking = w.asking /\ v.draft = w.draft
        /\ v.cart = w.cart /\ v.key = w.key /\ v.outcome \in {w.outcome, "failed"}
        /\ v.state = w.state /\ v.blocking = w.blocking /\ v.results = w.results
        /\ v.active = w.active /\ v.asked = w.asked
    BY <1>1, <1>3, <1>6 DEF Window
  <2>2. WellTaken(w, v, m)
    BY <1>1, <2>1 DEF WellTaken
  <2>3. ASSUME ToldTrue(a, w, m), Knows(a, w)
        PROVE  TrulyTaken(a, w, v, m)
    BY <1>1, <2>1, <2>3 DEF TrulyTaken, Knows, Holds, Delivers, Completing, Sold
  <2> QED
    BY <2>2, <2>3 DEF Taking, v
<1> QED
  BY <1>4, <1>5, <1>6

LEMMA AcknowledgeTaken ==
  ASSUME NEW a, NEW w, NEW m, AnswersTo(w, m), m.call.kind = "acknowledge"
  PROVE  Taking(a, w, OnAcknowledge(w, m), m)
<1> DEFINE k == m.call.key
           gone == [w EXCEPT !.results = @ \ {k}]
           v == OnAcknowledge(w, m)
<1>1. /\ w \in Window /\ m \in Message /\ k \in Key /\ m.call.draft = w.draft
      /\ w.asking # "no" => w.asked \in Key
  BY DEF AnswersTo
<1>2. /\ gone \in Window /\ gone.shift = w.shift /\ gone.asking = w.asking /\ gone.draft = w.draft
      /\ gone.cart = w.cart /\ gone.key = w.key /\ gone.outcome = w.outcome
      /\ gone.state = w.state /\ gone.blocking = w.blocking /\ gone.results \subseteq w.results
      /\ gone.active = w.active /\ gone.asked = w.asked
  BY <1>1 DEF Window
<1>3. /\ m.says # "acknowledged" => v = w
      /\ m.says = "acknowledged" /\ w.key # k => v = gone
      /\ m.says = "acknowledged" /\ w.key = k => v = ResetEditable(gone)
  BY DEF OnAcknowledge
<1> HIDE DEF gone, v
<1>4. CASE m.says # "acknowledged"
  BY <1>1, <1>3, <1>4
  DEF Taking, WellTaken, TrulyTaken, Holds, Delivers, Completing, v
<1>5. CASE m.says = "acknowledged" /\ w.key # k
  <2>1. v = gone
    BY <1>3, <1>5
  <2>2. WellTaken(w, v, m)
    BY <1>1, <1>2, <2>1 DEF WellTaken
  <2>3. ASSUME ToldTrue(a, w, m), Knows(a, w)
        PROVE  TrulyTaken(a, w, v, m)
    BY <1>1, <1>2, <2>1, <2>3 DEF TrulyTaken, Knows, Holds, Delivers, Completing
  <2> QED
    BY <2>2, <2>3 DEF Taking, v
<1>6. CASE m.says = "acknowledged" /\ w.key = k
  <2>1. v = [[gone EXCEPT !.key = NoKey, !.state = "none"] EXCEPT !.outcome = "none"]
    BY <1>3, <1>6 DEF ResetEditable, KeyFreed
  <2>2. /\ v \in Window /\ v.shift = w.shift /\ v.asking = w.asking /\ v.draft = w.draft
        /\ v.cart = w.cart /\ v.key = NoKey /\ v.blocking = w.blocking
        /\ v.results = gone.results /\ v.active = w.active /\ v.asked = w.asked
    BY <1>2, <2>1 DEF Window
  <2>3. WellTaken(w, v, m)
    BY <1>1, <2>2 DEF WellTaken
  <2>4. ASSUME ToldTrue(a, w, m), Knows(a, w)
        PROVE  TrulyTaken(a, w, v, m)
    <3>1. Knows(a, v)
      BY <1>2, <2>2, <2>4 DEF Knows
    <3>2. \A j : Holds(w, j) => Forgets(m, j)
      BY <1>1, <1>6 DEF Holds, Forgets
    <3> QED
      BY <1>1, <3>1, <3>2 DEF TrulyTaken, Delivers, Completing
  <2> QED
    BY <2>3, <2>4 DEF Taking, v
<1> QED
  BY <1>4, <1>5, <1>6

LEMMA AnswerTaken ==
  ASSUME NEW a, NEW w, NEW m, AnswersTo(w, m)
  PROVE  Taking(a, w, Taken(w, m), m)
<1>1. m.call.kind \in {"complete", "retry", "replay", "check", "status", "pending", "abandon",
                       "acknowledge"} /\ m.call.draft = w.draft
  BY DEF AnswersTo, Message, Call
<1>2. CASE m.call.kind = "complete"
  BY <1>1, <1>2, CompleteTaken DEF Taken
<1>3. CASE m.call.kind = "retry"
  BY <1>1, <1>3, RetryTaken DEF Taken
<1>4. CASE m.call.kind = "replay"
  BY <1>1, <1>4, ReplayTaken DEF Taken
<1>5. CASE m.call.kind = "check"
  BY <1>1, <1>5, CheckTaken DEF Taken
<1>6. CASE m.call.kind = "status"
  BY <1>1, <1>6, StatusTaken DEF Taken
<1>7. CASE m.call.kind = "pending"
  BY <1>1, <1>7, PendingTaken DEF Taken
<1>8. CASE m.call.kind = "abandon"
  BY <1>1, <1>8, AbandonTaken DEF Taken
<1>9. CASE m.call.kind = "acknowledge"
  BY <1>1, <1>9, AcknowledgeTaken DEF Taken
<1> QED
  BY <1>1, <1>2, <1>3, <1>4, <1>5, <1>6, <1>7, <1>8, <1>9

-----------------------------------------------------------------------------
(* How the calls grow.                                                     *)

LEMMA SameAnswers == ASSUME QueueTypes, UNCHANGED answers PROVE Grown(0, {})
BY DEF QueueTypes, Grown

LEMMA OneMoreAnswer ==
  ASSUME QueueTypes, NEW m \in Message, answers' = Append(answers, m)
  PROVE  Grown(0, {m}) /\ Len(answers') = Len(answers) - 0 + 1
BY DEF QueueTypes, Grown

LEMMA HeadTaken ==
  ASSUME QueueTypes, answers # <<>>
  PROVE  /\ answers[1] = Head(answers) /\ Len(answers) \in Nat \ {0}
         /\ answers[1] \in Message /\ Addressed(window, answers[1].call)
         /\ answers' = Tail(answers) => Grown(1, {}) /\ Len(answers') = Len(answers) - 1
         /\ \A m \in Message : answers' = Append(Tail(answers), m) =>
              Grown(1, {m}) /\ Len(answers') = Len(answers) - 1 + 1
<1>1. Len(answers) \in Nat \ {0} /\ answers \in Seq(Message) /\ 1 \in 1 .. Len(answers)
  BY DEF QueueTypes
<1>2. /\ Tail(answers) \in Seq(Message) /\ Len(Tail(answers)) = Len(answers) - 1
      /\ \A i \in 1 .. Len(answers) - 1 : Tail(answers)[i] = answers[i + 1]
  BY <1>1
<1>3. answers[1] \in Message /\ Addressed(window, answers[1].call) /\ answers[1] = Head(answers)
  BY <1>1 DEF QueueTypes
<1>4. ASSUME answers' = Tail(answers)
      PROVE  Grown(1, {}) /\ Len(answers') = Len(answers) - 1
  BY <1>1, <1>2, <1>4 DEF Grown
<1>5. ASSUME NEW m \in Message, answers' = Append(Tail(answers), m)
      PROVE  Grown(1, {m}) /\ Len(answers') = Len(answers) - 1 + 1
  <2> DEFINE t == Tail(answers)
  <2>1. t \in Seq(Message) /\ answers' = Append(t, m) /\ Len(t) = Len(answers) - 1
    BY <1>2, <1>5
  <2> HIDE DEF t
  <2>2. /\ answers' \in Seq(Message) /\ Len(answers') = Len(t) + 1
        /\ \A i \in 1 .. Len(answers') : IF i <= Len(t) THEN answers'[i] = t[i] ELSE answers'[i] = m
    BY <2>1
  <2>3. \A i \in 1 .. Len(t) : t[i] = answers[i + 1]
    BY <1>2, <2>1 DEF t
  <2> QED
    BY <1>1, <2>1, <2>2, <2>3 DEF Grown
<1> QED
  BY <1>1, <1>3, <1>4, <1>5

LEMMA NoneJoin == ASSUME QueueTypes, UNCHANGED <<waiting, running>> PROVE Joined({})
<1>1. \A k \in Key : waiting[k] \in Seq(Call) /\ Len(waiting[k]) \in Nat
  BY DEF QueueTypes
<1> QED
  BY <1>1 DEF QueueTypes, Joined

LEMMA OneJoins ==
  ASSUME QueueTypes, NEW c \in Call, c.key \in Key,
         waiting' = [waiting EXCEPT ![c.key] = Append(@, c)],
         running' = running \cup {c.key}
  PROVE  /\ Joined({c}) /\ Len(waiting'[c.key]) = Len(waiting[c.key]) + 1
         /\ \A j \in Key : j # c.key => waiting'[j] = waiting[j]
<1> DEFINE k == c.key
<1>1. waiting \in [Key -> Seq(Call)] /\ waiting[k] \in Seq(Call)
  BY DEF QueueTypes
<1>2. waiting' \in [Key -> Seq(Call)] /\ waiting'[k] = Append(waiting[k], c)
      /\ \A j \in Key : j # k => waiting'[j] = waiting[j]
  BY <1>1
<1>3. /\ Len(waiting'[k]) = Len(waiting[k]) + 1 /\ Len(waiting[k]) \in Nat
      /\ \A p \in 1 .. Len(waiting'[k]) :
           IF p <= Len(waiting[k]) THEN waiting'[k][p] = waiting[k][p] ELSE waiting'[k][p] = c
      /\ waiting'[k][Len(waiting'[k])] = c
  BY <1>1, <1>2
<1>4. \A j \in Key : waiting[j] \in Seq(Call) /\ Len(waiting[j]) \in Nat
  BY <1>1
<1>5. Joined({c})
  <2>1. ASSUME NEW j \in Key
        PROVE  /\ Len(waiting'[j]) >= Len(waiting[j])
               /\ \A p \in 1 .. Len(waiting'[j]) :
                    IF p <= Len(waiting[j]) THEN waiting'[j][p] = waiting[j][p]
                    ELSE waiting'[j][p] \in {c} /\ waiting'[j][p].key = j /\ j \in running'
    <3>1. CASE j = k
      BY <1>3, <3>1
    <3>2. CASE j # k
      BY <1>2, <1>4, <3>2
    <3> QED
      BY <3>1, <3>2
  <2>2. \A j \in running' \ running : \E p \in 1 .. Len(waiting'[j]) : waiting'[j][p] \in {c}
    BY <1>3
  <2> QED
    BY <1>2, <2>1, <2>2 DEF Joined
<1> QED
  BY <1>2, <1>3, <1>5

LEMMA Reply ==
  ASSUME NEW c \in Call, NEW says \in Saying
  PROVE  /\ To(c, says) \in Message /\ To(c, says).call = c /\ To(c, says).says = says
         /\ To(c, says).blocking = NoKey /\ To(c, says).results = {}
BY DEF To, Message

LEMMA TheBlockingIs ==
  /\ TheBlocking \in Key \cup {NoKey}
  /\ TheBlocking # NoKey => TheBlocking \in Key /\ attempt[TheBlocking].state = "claimed"
BY DEF TheBlocking, ClaimedKeys, NoKey, Key

LEMMA Listed ==
  ASSUME NEW c \in Call
  PROVE  /\ PendingSays(c) \in Message /\ PendingSays(c).call = c
         /\ able => /\ PendingSays(c).says = "list"
                    /\ PendingSays(c).blocking # NoKey => Begun(attempt, PendingSays(c).blocking)
                    /\ \A j \in PendingSays(c).results : Begun(attempt, j)
<1>1. CASE ~able
  BY <1>1, Reply DEF PendingSays, Saying
<1>2. CASE able
  <2> DEFINE done == {k \in Key : attempt[k].state = "committed"}
             m == [call |-> c, says |-> "list", blocking |-> TheBlocking, results |-> done]
  <2>1. PendingSays(c) = m
    BY <1>2 DEF PendingSays
  <2>2. done \in SUBSET Key /\ \A j \in done : Begun(attempt, j)
    BY DEF Begun
  <2> HIDE DEF done
  <2>3. m \in Message
    BY <2>2, TheBlockingIs DEF Message, Saying
  <2>4. TheBlocking # NoKey => Begun(attempt, TheBlocking)
    BY TheBlockingIs DEF Begun
  <2> QED
    BY <1>2, <2>1, <2>2, <2>3, <2>4
<1> QED
  BY <1>1, <1>2

LEMMA StatusIs ==
  ASSUME AttemptTypes, NEW k \in Key
  PROVE  /\ StatusSays(k) \in Saying
         /\ able /\ Begun(attempt, k) =>
              \/ StatusSays(k) \in {"claimed", "in-flight"}
              \/ StatusSays(k) = attempt[k].state /\ StatusSays(k) \in {"rejected", "abandoned"} \cup Sold
<1>1. attempt[k].state \in {"none", "claimed", "rejected", "abandoned"} \cup Sold
  BY DEF AttemptTypes, Attempt
<1>2. CASE ~able
  BY <1>2 DEF StatusSays, Saying
<1>3. CASE able /\ k \in running /\ attempt[k].state \in {"none", "claimed"}
  BY <1>3 DEF StatusSays, Saying
<1>4. CASE able /\ k \notin running /\ attempt[k].state = "none"
  BY <1>4 DEF StatusSays, Saying, Begun
<1>5. CASE able /\ attempt[k].state # "none" /\ ~(k \in running /\ attempt[k].state = "claimed")
  <2>1. StatusSays(k) = attempt[k].state
    BY <1>5 DEF StatusSays
  <2> QED
    BY <1>1, <1>5, <2>1 DEF Saying
<1> QED
  BY <1>2, <1>3, <1>4, <1>5

(* A retry joins the completion in flight, starts one, or is answered.     *)
LEMMA RetryDoes ==
  ASSUME AttemptTypes, QueueTypes, NEW c \in Call, c.key \in Key, NEW queue,
         RetryHandled(c, queue)
  PROVE  \/ /\ answers' = queue /\ attempt[c.key].state \in {"claimed", "abandoned"}
            /\ waiting' = [waiting EXCEPT ![c.key] = Append(@, c)]
            /\ running' = running \cup {c.key}
         \/ /\ UNCHANGED <<waiting, running>>
            /\ \E says \in Saying :
                 /\ answers' = Append(queue, To(c, says))
                 /\ \/ says = "refused" /\ (~able \/ ~Begun(attempt, c.key))
                    \/ /\ says = attempt[c.key].state
                       /\ says \in {"rejected", "abandoned"} \cup Sold
<1> DEFINE state == attempt[c.key].state
<1>1. state \in {"none", "claimed", "rejected", "abandoned"} \cup Sold
  BY DEF AttemptTypes, Attempt
<1>2. CASE c.key \in running /\ Awaits(c, queue) /\ UNCHANGED running
  <2>1. running' = running \cup {c.key} /\ state \in {"claimed", "abandoned"}
    BY <1>2 DEF AttemptTypes
  <2> QED
    BY <1>2, <2>1 DEF Awaits
<1>3. CASE /\ c.key \notin running /\ able /\ state = "claimed"
           /\ running' = running \cup {c.key} /\ Awaits(c, queue)
  BY <1>3 DEF Awaits
<1>4. CASE /\ c.key \notin running /\ ~(able /\ state = "claimed")
           /\ Replies(c, IF ~able \/ state = "none" THEN "refused" ELSE state, queue)
           /\ UNCHANGED running
  <2> DEFINE says == IF ~able \/ state = "none" THEN "refused" ELSE state
  <2>1. says \in Saying /\ \/ says = "refused" /\ (~able \/ ~Begun(attempt, c.key))
                           \/ says = state /\ says \in {"rejected", "abandoned"} \cup Sold
    BY <1>1, <1>4 DEF Saying, Begun
  <2>2. answers' = Append(queue, To(c, says)) /\ UNCHANGED <<waiting, running>>
    BY <1>4 DEF Replies
  <2> HIDE DEF says
  <2> QED
    BY <2>1, <2>2
<1> QED
  BY <1>2, <1>3, <1>4 DEF RetryHandled

-----------------------------------------------------------------------------
(* The steps.                                                              *)

LEMMA MishapStep ==
  ASSUME AttemptTypes, mishaps' = mishaps \/ \E kind \in Mishaps : Mishap(kind)
  PROVE  /\ mishaps' \subseteq Mishaps /\ Cardinality(mishaps') <= MaxMishaps
         /\ Cardinality(mishaps) \in Nat /\ Cardinality(mishaps') \in Nat
         /\ Cardinality(mishaps) <= Cardinality(mishaps') /\ mishaps \subseteq mishaps'
         /\ mishaps' # mishaps => Cardinality(mishaps') = Cardinality(mishaps) + 1
         /\ Informed' => Informed
<1>1. IsFiniteSet(Mishaps)
  <2>1. IsFiniteSet({"refuse", "reject", "disk", "reload", "crash", "return", "lost", "away",
                     "unrecorded"})
    <3>1. \A S, x : IsFiniteSet(S) => IsFiniteSet(S \cup {x})
      BY FS_AddElement
    <3> DEFINE A == {"refuse"}  B == A \cup {"reject"}  C == B \cup {"disk"}
               D == C \cup {"reload"}  E == D \cup {"crash"}  F == E \cup {"return"}
               G == F \cup {"lost"}  H == G \cup {"away"}  I == H \cup {"unrecorded"}
    <3>2. IsFiniteSet(A) /\ IsFiniteSet(B) /\ IsFiniteSet(C)
      BY <3>1, FS_Singleton
    <3>3. IsFiniteSet(D) /\ IsFiniteSet(E) /\ IsFiniteSet(F)
      BY <3>1, <3>2
    <3>4. IsFiniteSet(G) /\ IsFiniteSet(H) /\ IsFiniteSet(I)
      BY <3>1, <3>3
    <3>5. I = {"refuse", "reject", "disk", "reload", "crash", "return", "lost", "away",
               "unrecorded"}
      OBVIOUS
    <3> QED
      BY <3>4, <3>5
  <2> QED
    BY <2>1, CheckoutAssumption, FS_Subset
<1>2. mishaps \subseteq Mishaps /\ IsFiniteSet(mishaps) /\ Cardinality(mishaps) \in Nat
  BY <1>1, FS_Subset, FS_CardinalityType DEF AttemptTypes
<1>3. CASE mishaps' = mishaps
  BY <1>2, <1>3 DEF AttemptTypes, Informed
<1>4. CASE \E kind \in Mishaps : Mishap(kind)
  <2>1. PICK kind \in Mishaps \ mishaps : /\ mishaps' = mishaps \cup {kind}
                                          /\ Cardinality(mishaps) < MaxMishaps
    BY <1>4 DEF Mishap
  <2>2. Cardinality(mishaps') = Cardinality(mishaps) + 1
    BY <1>2, <2>1, FS_AddElement
  <2> QED
    BY <1>2, <2>1, <2>2, CheckoutAssumption DEF Informed
<1> QED
  BY <1>3, <1>4

LEMMA WindowMoves ==
  ASSUME AttemptTypes, WindowTypes, window' \in Window, UNCHANGED <<rung, minted, shift>>,
         mishaps' = mishaps \/ \E kind \in Mishaps : Mishap(kind),
         window'.draft = window.draft, window'.shift = window.shift,
         window'.key \in {window.key, NoKey}, window'.cart \subseteq window.cart,
         window'.asking # "no" => window'.asked \in Key
  PROVE  WindowTypes'
<1>1. /\ window.draft \in Nat /\ window.shift \in Nat /\ window.key \in Nat
      /\ minted \in Nat /\ rung \in Nat
  BY CheckoutAssumption DEF WindowTypes, Window, Key, NoKey, AttemptTypes
<1>2. /\ Cardinality(mishaps) \in Nat /\ Cardinality(mishaps') \in Nat
      /\ Cardinality(mishaps) <= Cardinality(mishaps')
  BY MishapStep
<1> QED
  BY <1>1, <1>2 DEF WindowTypes, NoKey

LEMMA CheckoutStepKeeps ==
  ASSUME CheckoutInv, NEW d, NEW new, NEW more, Grown(d, new), Joined(more),
         AttemptTypes', WindowTypes', OneAtATime', window'.draft = window.draft,
         mishaps' = mishaps \/ \E kind \in Mishaps : Mishap(kind),
         \A m \in new : Addressed(window', m.call),
         \A c \in more : c.kind \in Completing /\ Addressed(window', c) /\ c.draft = window.draft,
         Informed' =>
           /\ Settle(attempt, attempt') /\ Keeps(attempt, attempt', window, window')
           /\ \A m \in new : ToldTrue(attempt', window', m)
           /\ Knows(attempt', window')
           /\ d = 1 => \A k \in Key :
                Delivers(window, answers[1], k) => ~Shared(attempt', window', k)
  PROVE  CheckoutInv'
<1>1. QueueTypes'
  <2>1. window.draft \in Nat /\ window'.draft \in Nat /\ window'.draft >= window.draft
    BY CheckoutAssumption DEF CheckoutInv, CallsInv, WindowTypes, Window
  <2> QED
    BY <2>1, QueueGrows DEF CheckoutInv, CallsInv
<1>2. Informed' => Informed
  BY MishapStep DEF CheckoutInv, CallsInv
<1>3. TruthInv'
  <2>1. CASE Informed'
    BY <1>2, <2>1, TruthStays
  <2> QED
    BY <2>1 DEF TruthInv
<1> QED
  BY <1>1, <1>3 DEF CheckoutInv, CallsInv

\* The attempts and what goes with them, when none changes.
LEMMA AttemptsStand ==
  ASSUME AttemptTypes, UNCHANGED <<attempt, running, able, shift, rung, minted>>,
         mishaps' = mishaps \/ \E kind \in Mishaps : Mishap(kind)
  PROVE  AttemptTypes' /\ Settle(attempt, attempt')
<1>1. AttemptTypes'
  BY MishapStep DEF AttemptTypes
<1>2. Settle(attempt, attempt')
  BY DEF Settle
<1> QED
  BY <1>1, <1>2

(* A cart that may be edited shows no line of an attempt.                  *)
LEMMA NothingShared ==
  ASSUME CheckoutInv, Informed, ~Protected(window) \/ window.key = NoKey
  PROVE  \A k \in Key : ~Shared(attempt, window, k)
<1> SUFFICES ASSUME NEW k \in Key, Shared(attempt, window, k) PROVE FALSE
  OBVIOUS
<1>1. Holds(window, k)
  BY DEF CheckoutInv, TruthInv, Custody
<1>2. k # NoKey
  BY CheckoutAssumption DEF Key, NoKey
<1> QED
  BY <1>1, <1>2 DEF Holds, Protected

\* A draft whose cart, attempt and state are left.
LEMMA DraftStands ==
  ASSUME CheckoutInv, Informed, NEW b, NEW v, Settle(attempt, b), v.draft = window.draft,
         v.cart = window.cart, v.key = window.key, v.state = window.state
  PROVE  Keeps(attempt, b, window, v)
<1>1. \A k \in Key : Shared(b, v, k) => Shared(attempt, window, k)
  BY DEF Shared, Settle
<1>2. \A k \in Key : Shared(attempt, window, k) => Holds(v, k)
  BY DEF CheckoutInv, TruthInv, Custody, Holds
<1> QED
  BY <1>1, <1>2 DEF Keeps

LEMMA RingUpKeeps == ASSUME CheckoutInv, RingUp PROVE CheckoutInv'
<1> DEFINE added == rung + 1
<1>1. /\ window' = [window EXCEPT !.cart = @ \cup {added}] /\ rung' = added
      /\ ~Protected(window) /\ rung < MaxItems
      /\ UNCHANGED <<attempt, running, able, shift, waiting, answers, minted, mishaps>>
  BY DEF RingUp
<1>2. AttemptTypes /\ WindowTypes /\ QueueTypes /\ OneAtATime /\ rung \in Nat /\ MaxItems \in Nat
  BY CheckoutAssumption DEF CheckoutInv, CallsInv, AttemptTypes
<1>3. /\ window' \in Window /\ window'.draft = window.draft /\ window'.shift = window.shift
      /\ window'.key = window.key /\ window'.cart = window.cart \cup {added}
      /\ window'.state = window.state /\ window'.outcome = window.outcome
      /\ window'.active = window.active /\ window'.asking = window.asking
      /\ window'.asked = window.asked /\ window'.blocking = window.blocking
      /\ window'.results = window.results
  <2>1. added \in Item /\ window \in Window
    BY <1>1, <1>2 DEF Item, WindowTypes
  <2> HIDE DEF added
  <2> QED
    BY <1>1, <2>1 DEF Window
<1>4. \A k \in Key : attempt[k].items \subseteq Item /\ \A i \in attempt[k].items : i <= rung /\ i \in Nat
  BY <1>2 DEF AttemptTypes, Attempt, Item
<1>5. AttemptTypes'
  <2>1. \A k \in Key : \A i \in attempt[k].items : i <= added
    BY <1>2, <1>4
  <2> QED
    BY <1>1, <1>2, <2>1 DEF AttemptTypes
<1>6. WindowTypes'
  <2>1. \A i \in window'.cart : i <= added
    <3>1. \A i \in window.cart : i \in Nat /\ i <= rung
      BY <1>2 DEF WindowTypes, Window, Item
    <3> QED
      BY <1>2, <1>3, <3>1
  <2> QED
    BY <1>1, <1>2, <1>3, <2>1 DEF WindowTypes
<1>7. Grown(0, {}) /\ Joined({}) /\ OneAtATime'
  <2>1. Grown(0, {}) /\ Joined({})
    BY <1>1, <1>2, SameAnswers, NoneJoin
  <2> QED
    BY <1>2, <1>3, <2>1, OneStays
<1>8. ASSUME Informed'
      PROVE  /\ Settle(attempt, attempt') /\ Keeps(attempt, attempt', window, window')
             /\ Knows(attempt', window')
  <2>1. Informed
    BY <1>1, <1>8 DEF Informed
  <2>2. \A k \in Key : ~Shared(attempt, window, k)
    BY <1>1, <2>1, NothingShared
  <2>3. \A k \in Key : added \notin attempt[k].items
    BY <1>2, <1>4
  <2> HIDE DEF added
  <2>4. \A k \in Key : ~Shared(attempt', window', k)
    BY <1>1, <1>3, <2>2, <2>3 DEF Shared
  <2>5. Knows(attempt', window')
    BY <1>1, <1>3, <2>1 DEF CheckoutInv, TruthInv, Knows
  <2> QED
    BY <1>1, <1>3, <2>4, <2>5 DEF Keeps, Settle
<1> QED
  BY <1>1, <1>3, <1>5, <1>6, <1>7, <1>8, CheckoutStepKeeps

LEMMA RemoveKeeps ==
  ASSUME CheckoutInv, NEW items \in SUBSET Item, Remove(items) PROVE CheckoutInv'
<1>1. /\ ~Protected(window) /\ items \subseteq window.cart
      /\ window' = IF items = window.cart THEN [ResetEditable(window) EXCEPT !.cart = {}]
                                          ELSE [window EXCEPT !.cart = @ \ items]
      /\ UNCHANGED <<attempt, running, able, shift, waiting, answers, rung, minted, mishaps>>
  BY DEF Remove
<1>2. AttemptTypes /\ WindowTypes /\ QueueTypes /\ OneAtATime /\ window \in Window
  BY DEF CheckoutInv, CallsInv, WindowTypes
<1>3. /\ window' \in Window /\ window'.draft = window.draft /\ window'.shift = window.shift
      /\ window'.cart \subseteq window.cart /\ window'.active = window.active
      /\ window'.asking = window.asking /\ window'.asked = window.asked
      /\ window'.blocking = window.blocking /\ window'.results = window.results
      /\ \/ window'.key = NoKey
         \/ /\ window'.key = window.key /\ window'.state = window.state
            /\ window'.outcome = window.outcome
  <2>1. CASE items = window.cart
    <3> DEFINE u == [window EXCEPT !.key = NoKey, !.state = "none"]
               v == [u EXCEPT !.outcome = "none"]
    <3>1. /\ u \in Window /\ u.draft = window.draft /\ u.shift = window.shift
          /\ u.active = window.active /\ u.asking = window.asking /\ u.asked = window.asked
          /\ u.blocking = window.blocking /\ u.results = window.results /\ u.key = NoKey
      BY <1>2 DEF Window
    <3> HIDE DEF u
    <3>2. /\ v \in Window /\ v.draft = u.draft /\ v.shift = u.shift
          /\ v.active = u.active /\ v.asking = u.asking /\ v.asked = u.asked
          /\ v.blocking = u.blocking /\ v.results = u.results /\ v.key = u.key
      BY <3>1 DEF Window
    <3>3. window' = [v EXCEPT !.cart = {}]
      BY <1>1, <2>1 DEF ResetEditable, KeyFreed, u
    <3> HIDE DEF v
    <3> QED
      BY <3>1, <3>2, <3>3 DEF Window
  <2>2. CASE items # window.cart
    BY <1>1, <1>2, <2>2 DEF Window
  <2> QED
    BY <2>1, <2>2
<1>4. AttemptTypes' /\ Settle(attempt, attempt')
  BY <1>1, <1>2, AttemptsStand
<1>5. WindowTypes'
  BY <1>1, <1>2, <1>3, WindowMoves DEF WindowTypes
<1>6. Grown(0, {}) /\ Joined({}) /\ OneAtATime'
  <2>1. Grown(0, {}) /\ Joined({})
    BY <1>1, <1>2, SameAnswers, NoneJoin
  <2> QED
    BY <1>2, <1>3, <2>1, OneStays
<1>7. ASSUME Informed'
      PROVE  /\ Settle(attempt, attempt') /\ Keeps(attempt, attempt', window, window')
             /\ Knows(attempt', window')
  <2>1. Informed
    BY <1>1, <1>7 DEF Informed
  <2>2. \A k \in Key : ~Shared(attempt, window, k)
    BY <1>1, <2>1, NothingShared
  <2>3. \A k \in Key : ~Shared(attempt', window', k)
    BY <1>1, <1>3, <2>2 DEF Shared
  <2>4. Knows(attempt', window')
    BY <1>1, <1>3, <2>1 DEF CheckoutInv, TruthInv, Knows
  <2> QED
    BY <1>1, <1>3, <1>4, <2>3, <2>4 DEF Keeps
<1>8. mishaps' = mishaps /\ window'.draft = window.draft
  BY <1>1, <1>3
<1> QED
  BY <1>4, <1>5, <1>6, <1>7, <1>8, CheckoutStepKeeps

LEMMA StopAskingKeeps == ASSUME CheckoutInv, StopAsking PROVE CheckoutInv'
<1> DEFINE st == IF window.key = window.asked THEN "claimed" ELSE window.state
<1>1. /\ window.asking = "again"
      /\ window' = [window EXCEPT !.asking = "no", !.asked = NoKey, !.state = st]
      /\ UNCHANGED <<attempt, running, able, shift, waiting, answers, rung, minted, mishaps>>
  BY DEF StopAsking
<1>2. AttemptTypes /\ WindowTypes /\ QueueTypes /\ OneAtATime /\ window \in Window
  BY DEF CheckoutInv, CallsInv, WindowTypes
<1>3. st \in {"none", "in-flight", "claimed", "committed"}
  BY <1>2 DEF Window
<1> HIDE DEF st
<1>4. /\ window' \in Window /\ window'.draft = window.draft /\ window'.shift = window.shift
      /\ window'.cart = window.cart /\ window'.active = window.active
      /\ window'.asking = "no" /\ window'.state = st
      /\ window'.blocking = window.blocking /\ window'.results = window.results
      /\ window'.key = window.key /\ window'.outcome = window.outcome
  BY <1>1, <1>2, <1>3 DEF Window
<1>5. AttemptTypes' /\ Settle(attempt, attempt')
  BY <1>1, <1>2, AttemptsStand
<1>6. WindowTypes'
  BY <1>1, <1>2, <1>4, WindowMoves
<1>7. Grown(0, {}) /\ Joined({}) /\ OneAtATime'
  <2>1. Grown(0, {}) /\ Joined({})
    BY <1>1, <1>2, SameAnswers, NoneJoin
  <2>2. \A c : Ours(window, c) => ~Suits(window, c)
    BY <1>1 DEF Ours, Suits, Single
  <2>3. /\ \A i \in 1 .. Len(answers) : i > 0 => ~Ours(window, answers[i].call)
        /\ \A k \in Key : \A p \in 1 .. Len(waiting[k]) : ~Ours(window, waiting[k][p])
    BY <1>2, <2>2 DEF OneAtATime
  <2>4. Len(answers') <= Len(answers) - 0 + 1 /\ waiting' = waiting
    BY <1>1, <1>2 DEF QueueTypes
  <2> QED
    BY <1>2, <1>4, <2>1, <2>3, <2>4, OneStarts
<1>8. ASSUME Informed'
      PROVE  Keeps(attempt, attempt', window, window') /\ Knows(attempt', window')
  <2>1. Informed
    BY <1>1, <1>8 DEF Informed
  <2>2. Knows(attempt, window) /\ Custody
    BY <2>1 DEF CheckoutInv, TruthInv
  <2>3. Knows(attempt', window')
    BY <1>1, <1>4, <2>2 DEF Knows, st
  <2>4. \A k \in Key : Shared(attempt', window', k) => Shared(attempt, window, k)
    BY <1>1, <1>4 DEF Shared
  <2>5. \A k \in Key : Shared(attempt, window, k) => Holds(window', k)
    BY <1>4, <2>2 DEF Custody, Holds, st
  <2> QED
    BY <1>4, <2>3, <2>4, <2>5 DEF Keeps
<1> QED
  BY <1>1, <1>4, <1>5, <1>6, <1>7, <1>8, CheckoutStepKeeps

(* The shift moves, the context fails and returns, the page is shown again.*)
LEMMA AroundKeeps ==
  ASSUME CheckoutInv, ShiftMoves \/ ContextFails \/ ContextReturns \/ ReturnToPage
  PROVE  CheckoutInv'
<1>1. /\ UNCHANGED <<attempt, running, waiting, window, rung, minted>>
      /\ mishaps' = mishaps \/ \E kind \in Mishaps : Mishap(kind)
  BY DEF ShiftMoves, ContextFails, ContextReturns, ReturnToPage, Mishap
<1>2. AttemptTypes /\ WindowTypes /\ QueueTypes /\ OneAtATime /\ window \in Window
  BY DEF CheckoutInv, CallsInv, WindowTypes
<1>3. AttemptTypes' /\ WindowTypes'
  <2>1. /\ Cardinality(mishaps) \in Nat /\ Cardinality(mishaps') \in Nat
        /\ Cardinality(mishaps) <= Cardinality(mishaps') /\ mishaps \subseteq mishaps'
        /\ mishaps' \subseteq Mishaps /\ Cardinality(mishaps') <= MaxMishaps
    BY <1>1, <1>2, MishapStep
  <2>2. /\ shift' \in 1 .. MaxShifts /\ shift' >= shift /\ able' \in BOOLEAN
        /\ able' \/ "away" \in mishaps'
    <3>1. shift \in 1 .. MaxShifts /\ able \in BOOLEAN /\ (able \/ "away" \in mishaps)
          /\ MaxShifts \in Nat
      BY <1>2, CheckoutAssumption DEF AttemptTypes
    <3>2. CASE ShiftMoves
      BY <2>1, <3>1, <3>2 DEF ShiftMoves
    <3>3. CASE ContextFails
      <4>1. shift' = shift /\ able' = FALSE /\ "away" \in mishaps'
        BY <3>3 DEF ContextFails, Mishap
      <4>2. shift' \in 1 .. MaxShifts /\ shift' >= shift
        BY <3>1, <4>1
      <4>3. able' \in BOOLEAN
        BY <4>1
      <4> QED
        BY <4>1, <4>2, <4>3
    <3>4. CASE ContextReturns
      BY <3>1, <3>4 DEF ContextReturns
    <3>5. CASE ReturnToPage
      <4>1. shift' = shift /\ able' = able
        BY <3>5 DEF ReturnToPage
      <4> QED
        BY <2>1, <3>1, <4>1
    <3> QED
      BY <3>2, <3>3, <3>4, <3>5
  <2>3. AttemptTypes'
    BY <1>1, <1>2, <2>1, <2>2 DEF AttemptTypes
  <2>4. /\ window.draft \in Nat /\ window.shift \in Nat /\ shift \in Nat /\ shift' \in Nat
    BY <1>2, <2>2, CheckoutAssumption DEF Window, AttemptTypes
  <2>5. WindowTypes'
    BY <1>1, <1>2, <2>1, <2>2, <2>4 DEF WindowTypes
  <2> QED
    BY <2>3, <2>5
<1> DEFINE m == Discover(window)
<1>4. m \in Message /\ m.call.kind = "pending" /\ m.call.draft = window.draft
      /\ (able => ToldTrue(attempt, window, m))
  <2> DEFINE c == [kind |-> "pending", key |-> NoKey, draft |-> window.draft]
  <2>1. c \in Call
    BY <1>2 DEF Call, Window
  <2>2. m = PendingSays(c)
    BY DEF Discover
  <2>3. c.kind = "pending" /\ c.draft = window.draft
    OBVIOUS
  <2> HIDE DEF c, m
  <2> QED
    BY <2>1, <2>2, <2>3, Listed DEF ToldTrue
<1> HIDE DEF m
<1> DEFINE new == IF answers' = answers THEN {} ELSE {m}
<1>5. Grown(0, new) /\ Joined({})
  <2>1. answers' = answers \/ answers' = Append(answers, m)
    BY DEF ShiftMoves, ContextFails, ContextReturns, ReturnToPage, m
  <2> QED
    BY <1>1, <1>2, <1>4, <2>1, SameAnswers, OneMoreAnswer, NoneJoin
<1>6. OneAtATime'
  <2>1. \A x \in new : ~Ours(window, x.call)
    BY <1>4 DEF Ours, Single
  <2> HIDE DEF new
  <2> QED
    BY <1>1, <1>2, <1>5, <2>1, OneStays
<1>7. \A x \in new : Addressed(window', x.call)
  BY <1>1, <1>2, <1>4, CheckoutAssumption DEF Addressed, Window
<1>8. ASSUME Informed'
      PROVE  /\ Settle(attempt, attempt') /\ Keeps(attempt, attempt', window, window')
             /\ Knows(attempt', window') /\ \A x \in new : ToldTrue(attempt', window', x)
  <2>1. Informed
    BY <1>1, <1>2, <1>8, MishapStep
  <2>2. able
    BY <1>2, <2>1 DEF AttemptTypes, Informed
  <2>3. Settle(attempt, attempt')
    BY <1>1 DEF Settle
  <2>4. Keeps(attempt, attempt', window, window')
    BY <1>1, <2>1, <2>3, DraftStands
  <2>5. Knows(attempt', window')
    BY <1>1, <2>1 DEF CheckoutInv, TruthInv
  <2>6. \A x \in new : ToldTrue(attempt', window', x)
    BY <1>1, <1>4, <2>2
  <2> QED
    BY <2>3, <2>4, <2>5, <2>6
<1> HIDE DEF new
<1> QED
  BY <1>1, <1>3, <1>5, <1>6, <1>7, <1>8, CheckoutStepKeeps

(* An answer is lost.                                                      *)
LEMMA LossKeeps == ASSUME CheckoutInv, LoseAnswer PROVE CheckoutInv'
<1>1. /\ answers # <<>> /\ Mishap("lost")
      /\ answers' = <<[Head(answers) EXCEPT !.says = "error"]>> \o Tail(answers)
      /\ UNCHANGED <<attempt, running, able, shift, waiting, window, rung, minted>>
  BY DEF LoseAnswer
<1>2. AttemptTypes /\ WindowTypes /\ QueueTypes /\ OneAtATime /\ window \in Window
  BY DEF CheckoutInv, CallsInv, WindowTypes
<1>3. mishaps' = mishaps \/ \E kind \in Mishaps : Mishap(kind)
  BY <1>1 DEF Mishap
<1>4. AttemptTypes'
  BY <1>1, <1>2, <1>3, AttemptsStand
<1>5. WindowTypes'
  BY <1>1, <1>2, <1>3, WindowMoves DEF WindowTypes
<1>6. /\ answers' \in Seq(Message) /\ Len(answers') = Len(answers)
      /\ \A i \in 1 .. Len(answers) : answers'[i].call = answers[i].call
  <2> DEFINE lost == [Head(answers) EXCEPT !.says = "error"]
             rest == Tail(answers)
  <2>1. Head(answers) \in Message /\ Head(answers) = answers[1] /\ Len(answers) \in Nat \ {0}
    BY <1>1, <1>2, HeadTaken
  <2>2. lost \in Message /\ lost.call = answers[1].call
    BY <2>1 DEF Message, Saying
  <2>3. /\ rest \in Seq(Message) /\ Len(rest) = Len(answers) - 1
        /\ \A i \in 1 .. Len(rest) : rest[i] = answers[i + 1]
    BY <1>1, <1>2 DEF QueueTypes
  <2>4. answers' = <<lost>> \o rest
    BY <1>1
  <2> HIDE DEF lost, rest
  <2>5. /\ answers' \in Seq(Message) /\ Len(answers') = 1 + Len(rest) /\ answers'[1] = lost
        /\ \A i \in 2 .. Len(answers') : answers'[i] = rest[i - 1]
    BY <2>2, <2>3, <2>4
  <2>6. \A i \in 2 .. Len(answers) : answers'[i] = answers[i]
    BY <2>1, <2>3, <2>5
  <2> QED
    BY <2>1, <2>2, <2>3, <2>5, <2>6
<1>7. QueueTypes'
  <2>1. \A i \in 1 .. Len(answers') : Addressed(window', answers'[i].call)
    BY <1>1, <1>2, <1>6 DEF QueueTypes
  <2> QED
    BY <1>1, <1>2, <1>6, <2>1 DEF QueueTypes
<1>8. OneAtATime'
  <2>1. \A c : (Ours(window', c) <=> Ours(window, c)) /\ (Suits(window', c) <=> Suits(window, c))
    BY <1>1 DEF Ours, Suits
  <2>2. Len(answers') = Len(answers) /\ waiting' = waiting
    BY <1>1, <1>6
  <2>3. \A i \in 1 .. Len(answers') : answers'[i].call = answers[i].call
    BY <1>6
  <2>4. /\ \A i, j \in 1 .. Len(answers') :
            Ours(window', answers'[i].call) /\ Ours(window', answers'[j].call) => i = j
        /\ \A i \in 1 .. Len(answers') :
             Ours(window', answers'[i].call) => Suits(window', answers'[i].call)
    BY <1>2, <2>1, <2>2, <2>3 DEF OneAtATime
  <2>5. \A i \in 1 .. Len(answers'), k \in Key : \A p \in 1 .. Len(waiting'[k]) :
          ~(Ours(window', answers'[i].call) /\ Ours(window', waiting'[k][p]))
    BY <1>2, <2>1, <2>2, <2>3 DEF OneAtATime
  <2>6. /\ \A j, k \in Key : \A p \in 1 .. Len(waiting'[j]), q \in 1 .. Len(waiting'[k]) :
            Ours(window', waiting'[j][p]) /\ Ours(window', waiting'[k][q]) => j = k /\ p = q
        /\ \A k \in Key : \A p \in 1 .. Len(waiting'[k]) :
            Ours(window', waiting'[k][p]) => Suits(window', waiting'[k][p])
    BY <1>2, <2>1, <2>2 DEF OneAtATime
  <2> QED
    BY <2>4, <2>5, <2>6 DEF OneAtATime
<1>9. ~Informed'
  BY <1>1 DEF Informed, Mishap
<1> QED
  BY <1>4, <1>5, <1>7, <1>8, <1>9 DEF CheckoutInv, CallsInv, TruthInv

(* The window starts over: what is on its way concerns an earlier draft.   *)
LEMMA FreshWindow ==
  ASSUME NEW d \in 1 .. MaxShifts + MaxMishaps, NEW s \in 1 .. MaxShifts
  PROVE  LET w == Fresh(d, s) IN
         /\ w \in Window /\ w.draft = d /\ w.shift = s /\ w.cart = {} /\ w.key = NoKey
         /\ w.asking = "no" /\ \A a : Knows(a, w)
BY DEF Fresh, Window, Knows

LEMMA ToldLater ==
  ASSUME NEW a, NEW w, NEW v, NEW m, ToldTrue(a, w, m), m.call.draft # v.draft,
         \A k : ~Shared(a, v, k)
  PROVE  ToldTrue(a, v, m)
BY DEF ToldTrue

LEMMA RestartKeeps ==
  ASSUME CheckoutInv, WindowSeesShift \/ ReloadWindow
  PROVE  CheckoutInv'
<1> DEFINE d == window.draft + 1
           w == Fresh(d, shift)
           m == Discover(w)
<1>1. /\ window' = w /\ UNCHANGED <<attempt, able, shift, rung, minted>>
      /\ mishaps' = mishaps \/ \E kind \in Mishaps : Mishap(kind)
      /\ \/ answers' = Append(answers, m) /\ UNCHANGED <<waiting, running>>
         \/ /\ answers' = <<m>> /\ waiting' = [k \in Key |-> <<>>]
            /\ running' = running \/ running' = {}
      /\ window.shift < shift \/ mishaps' # mishaps
  <2>1. CASE WindowSeesShift
    BY <2>1 DEF WindowSeesShift
  <2>2. CASE ReloadWindow
    BY <2>2 DEF ReloadWindow, Mishap
  <2> QED
    BY <2>1, <2>2
<1>2. AttemptTypes /\ WindowTypes /\ QueueTypes /\ OneAtATime /\ window \in Window
  BY DEF CheckoutInv, CallsInv, WindowTypes
<1>3. /\ Cardinality(mishaps) \in Nat /\ Cardinality(mishaps') \in Nat
      /\ Cardinality(mishaps) <= Cardinality(mishaps') /\ mishaps \subseteq mishaps'
      /\ mishaps' \subseteq Mishaps /\ Cardinality(mishaps') <= MaxMishaps
      /\ mishaps' # mishaps => Cardinality(mishaps') = Cardinality(mishaps) + 1
      /\ Informed' => Informed
  BY <1>1, <1>2, MishapStep
<1>4. window.draft \in Nat /\ window.draft >= 1 /\ window.shift \in Nat /\ shift \in 1 .. MaxShifts
  BY <1>2, CheckoutAssumption DEF Window, AttemptTypes
<1>5. d <= shift + Cardinality(mishaps') /\ d \in 1 .. MaxShifts + MaxMishaps
  BY <1>1, <1>2, <1>3, <1>4, CheckoutAssumption DEF WindowTypes
<1>6. /\ w \in Window /\ w.draft = d /\ w.shift = shift /\ w.cart = {} /\ w.key = NoKey
      /\ w.asking = "no" /\ \A a : Knows(a, w)
  BY <1>4, <1>5, FreshWindow
<1>7. /\ m \in Message /\ m.call.kind = "pending" /\ m.call.draft = d
      /\ able => ToldTrue(attempt, w, m)
  <2> DEFINE c == [kind |-> "pending", key |-> NoKey, draft |-> w.draft]
  <2>1. c \in Call /\ c.kind = "pending" /\ c.draft = w.draft
    BY <1>5, <1>6 DEF Call
  <2>2. m = PendingSays(c)
    BY DEF Discover
  <2> HIDE DEF c, m, w
  <2> QED
    BY <1>6, <2>1, <2>2, Listed DEF ToldTrue
<1> HIDE DEF m, w
<1>8. AttemptTypes'
  <2>1. running' \subseteq running
    BY <1>1
  <2> QED
    BY <1>1, <1>2, <1>3, <2>1 DEF AttemptTypes
<1>9. WindowTypes'
  BY <1>1, <1>2, <1>4, <1>5, <1>6, CheckoutAssumption DEF WindowTypes, NoKey, AttemptTypes
<1>10. /\ answers' \in Seq(Message)
       /\ \A i \in 1 .. Len(answers') :
            \/ answers'[i] = m
            \/ i \in 1 .. Len(answers) /\ answers'[i] = answers[i]
  <2>1. CASE answers' = Append(answers, m)
    BY <1>2, <1>7, <2>1 DEF QueueTypes
  <2>2. CASE answers' = <<m>>
    BY <1>7, <2>2
  <2> QED
    BY <1>1, <2>1, <2>2
<1>11. /\ waiting' \in [Key -> Seq(Call)]
       /\ \A k \in Key : \A p \in 1 .. Len(waiting'[k]) :
            waiting' = waiting /\ running' = running
  <2>1. CASE UNCHANGED <<waiting, running>>
    BY <1>2, <2>1 DEF QueueTypes
  <2>2. CASE waiting' = [k \in Key |-> <<>>]
    <3>1. \A k \in Key : waiting'[k] = <<>> /\ Len(waiting'[k]) = 0
      BY <2>2
    <3> QED
      BY <2>2, <3>1
  <2> QED
    BY <1>1, <2>1, <2>2
<1>12. \A x \in Message : x.call \in Call
  BY DEF Message
<1>13. \A c \in Call : Addressed(window, c) => Addressed(window', c) /\ c.draft # d
  BY <1>1, <1>4, <1>6 DEF Addressed, Call
<1>14. \A i \in 1 .. Len(answers) : /\ answers[i] \in Message /\ answers[i].call.draft # d
                                    /\ Addressed(window', answers[i].call)
  BY <1>2, <1>12, <1>13 DEF QueueTypes
<1>15. \A k \in Key : \A p \in 1 .. Len(waiting[k]) :
         waiting[k][p].draft # d /\ Addressed(window', waiting[k][p])
  <2> SUFFICES ASSUME NEW k \in Key, NEW p \in 1 .. Len(waiting[k])
               PROVE  waiting[k][p].draft # d /\ Addressed(window', waiting[k][p])
    OBVIOUS
  <2>1. waiting[k] \in Seq(Call) /\ Addressed(window, waiting[k][p])
    BY <1>2 DEF QueueTypes
  <2>2. waiting[k][p] \in Call
    BY <2>1
  <2> QED
    BY <1>13, <2>1, <2>2
<1>16. QueueTypes'
  <2>1. Addressed(window', m.call)
    BY <1>1, <1>4, <1>6, <1>7 DEF Addressed
  <2>2. \A i \in 1 .. Len(answers') : Addressed(window', answers'[i].call)
    BY <1>10, <1>14, <2>1
  <2>3. ASSUME NEW k \in Key, NEW p \in 1 .. Len(waiting'[k])
        PROVE  /\ waiting'[k][p].kind \in Completing /\ waiting'[k][p].key = k
               /\ Addressed(window', waiting'[k][p]) /\ k \in running'
    <3>1. waiting' = waiting /\ running' = running
      BY <1>11, <2>3
    <3>2. p \in 1 .. Len(waiting[k])
      BY <3>1
    <3> QED
      BY <1>2, <1>15, <3>1, <3>2 DEF QueueTypes
  <2> QED
    BY <1>10, <1>11, <2>2, <2>3 DEF QueueTypes
<1>17. OneAtATime'
  <2>1. \A i \in 1 .. Len(answers') : ~Ours(window', answers'[i].call)
    BY <1>1, <1>6, <1>7, <1>10, <1>14 DEF Ours, Single
  <2>2. \A k \in Key : \A p \in 1 .. Len(waiting'[k]) : ~Ours(window', waiting'[k][p])
    BY <1>1, <1>6, <1>11, <1>15 DEF Ours
  <2> QED
    BY <2>1, <2>2 DEF OneAtATime
<1>18. ASSUME Informed'
       PROVE  AllTold' /\ Knows(attempt', window') /\ Custody' /\ LiveOnce' /\ OnItsWay'
  <2>1. Informed /\ able
    BY <1>2, <1>3, <1>18 DEF AttemptTypes, Informed
  <2>2. \A k : ~Shared(attempt', window', k)
    BY <1>1, <1>6 DEF Shared
  <2>3. AllTold'
    <3> SUFFICES ASSUME NEW i \in 1 .. Len(answers')
                 PROVE  ToldTrue(attempt', window', answers'[i])
      BY DEF AllTold
    <3>1. CASE answers'[i] = m
      BY <1>1, <1>7, <2>1, <3>1
    <3>2. CASE i \in 1 .. Len(answers) /\ answers'[i] = answers[i]
      <4>1. ToldTrue(attempt, window, answers[i])
        BY <2>1, <3>2 DEF CheckoutInv, TruthInv, AllTold
      <4>2. ToldTrue(attempt, window', answers[i])
        BY <1>1, <1>6, <1>14, <2>2, <3>2, <4>1, ToldLater
      <4> QED
        BY <1>1, <3>2, <4>2
    <3> QED
      BY <1>10, <3>1, <3>2
  <2>4. LiveOnce'
    BY <1>1, <2>1 DEF CheckoutInv, TruthInv, LiveOnce
  <2> QED
    BY <1>1, <1>6, <2>2, <2>3, <2>4 DEF Custody, OnItsWay
<1> QED
  BY <1>8, <1>9, <1>16, <1>17, <1>18 DEF CheckoutInv, CallsInv, TruthInv

\* A call the window makes, and where the buttons of a recovery point.
LEMMA CallIs ==
  ASSUME window \in Window, NEW k \in Key,
         NEW kind \in {"complete", "retry", "replay", "check", "status", "abandon", "acknowledge"}
  PROVE  LET c == CallOf(kind, k) IN
         /\ c \in Call /\ c.kind = kind /\ c.key = k /\ c.draft = window.draft
         /\ \A v : v.draft = window.draft => Addressed(v, c)
<1>1. window.draft \in 1 .. MaxShifts + MaxMishaps
  BY DEF Window
<1>2. window.draft \in Nat
  BY <1>1, CheckoutAssumption
<1> QED
  BY <1>1, <1>2 DEF CallOf, Call, Addressed

LEMMA RecoveryBegun ==
  ASSUME CheckoutInv, RecoveryKey # NoKey
  PROVE  RecoveryKey \in Key /\ (Informed => Begun(attempt, RecoveryKey))
<1>1. window.blocking \in Key \cup {NoKey} /\ window.key \in Key \cup {NoKey}
  BY DEF CheckoutInv, CallsInv, WindowTypes, Window
<1>2. CASE window.blocking # NoKey
  BY <1>1, <1>2 DEF RecoveryKey, CheckoutInv, TruthInv, Knows
<1>3. CASE window.blocking = NoKey
  <2>1. ClaimedHere /\ RecoveryKey = window.key
    BY <1>3 DEF RecoveryKey
  <2> QED
    BY <1>1, <2>1 DEF ClaimedHere, CheckoutInv, TruthInv, Knows
<1> QED
  BY <1>2, <1>3

LEMMA AskAgainKeeps == ASSUME CheckoutInv, AskAgain PROVE CheckoutInv'
<1> DEFINE c == CallOf("check", window.asked)
           m == To(c, StatusSays(window.asked))
<1>1. /\ window.asking \in {"first", "again"} /\ window' = [window EXCEPT !.asking = "asked"]
      /\ waiting' = waiting /\ answers' = Append(answers, m)
      /\ UNCHANGED <<attempt, running, able, shift, rung, minted, mishaps>>
  BY DEF AskAgain, Replies
<1>2. AttemptTypes /\ WindowTypes /\ QueueTypes /\ OneAtATime /\ window \in Window
  BY DEF CheckoutInv, CallsInv, WindowTypes
<1>3. window.asked \in Key
  BY <1>1, <1>2 DEF WindowTypes
<1>4. /\ m \in Message /\ m.call = c /\ m.says = StatusSays(window.asked)
      /\ c \in Call /\ c.kind = "check" /\ c.key = window.asked /\ c.draft = window.draft
      /\ \A v : v.draft = window.draft => Addressed(v, c)
  BY <1>2, <1>3, CallIs, StatusIs, Reply
<1> HIDE DEF m, c
<1>5. /\ window' \in Window /\ window'.draft = window.draft /\ window'.shift = window.shift
      /\ window'.cart = window.cart /\ window'.asking = "asked" /\ window'.state = window.state
      /\ window'.blocking = window.blocking /\ window'.results = window.results
      /\ window'.key = window.key /\ window'.outcome = window.outcome
      /\ window'.asked = window.asked
  BY <1>1, <1>2 DEF Window
<1>6. AttemptTypes' /\ Settle(attempt, attempt')
  BY <1>1, <1>2, AttemptsStand
<1>7. WindowTypes'
  BY <1>1, <1>2, <1>3, <1>5, WindowMoves
<1>8. Grown(0, {m}) /\ Joined({}) /\ OneAtATime'
  <2>1. Grown(0, {m}) /\ Joined({}) /\ Len(answers') = Len(answers) - 0 + 1
    BY <1>1, <1>2, <1>4, OneMoreAnswer, NoneJoin
  <2>2. \A x : Ours(window, x) => ~Suits(window, x)
    BY <1>1 DEF Ours, Suits, Single
  <2>3. /\ \A i \in 1 .. Len(answers) : i > 0 => ~Ours(window, answers[i].call)
        /\ \A k \in Key : \A p \in 1 .. Len(waiting[k]) : ~Ours(window, waiting[k][p])
    BY <1>2, <2>2 DEF OneAtATime
  <2>4. \A x \in {m} : Suits(window', x.call)
    BY <1>4, <1>5 DEF Suits
  <2>5. Len(answers') <= Len(answers) - 0 + 1 /\ waiting' = waiting
    BY <1>1, <1>2, <2>1 DEF QueueTypes
  <2> QED
    BY <1>2, <1>5, <2>1, <2>3, <2>4, <2>5, OneStarts
<1>9. ASSUME Informed'
      PROVE  /\ Settle(attempt, attempt') /\ Keeps(attempt, attempt', window, window')
             /\ Knows(attempt', window') /\ \A x \in {m} : ToldTrue(attempt', window', x)
  <2>1. Informed /\ able
    BY <1>1, <1>2, <1>9 DEF Informed, AttemptTypes
  <2>2. Keeps(attempt, attempt', window, window')
    BY <1>5, <1>6, <2>1, DraftStands
  <2>3. Knows(attempt, window)
    BY <2>1 DEF CheckoutInv, TruthInv
  <2>4. Knows(attempt', window') /\ Begun(attempt, window.asked)
    BY <1>1, <1>5, <2>3 DEF Knows
  <2>5. ToldTrue(attempt', window', m)
    <3>1. \/ m.says \in {"claimed", "in-flight"}
          \/ m.says = attempt[window.asked].state /\ m.says \in {"rejected", "abandoned"} \cup Sold
      BY <1>2, <1>3, <1>4, <2>1, <2>4, StatusIs
    <3> QED
      BY <1>1, <1>4, <2>4, <3>1 DEF ToldTrue, Live
  <2> QED
    BY <1>6, <2>2, <2>4, <2>5
<1>10. \A x \in {m} : Addressed(window', x.call)
  BY <1>4, <1>5
<1>11. mishaps' = mishaps /\ window'.draft = window.draft
  BY <1>1, <1>5
<1> QED
  BY <1>6, <1>7, <1>8, <1>9, <1>10, <1>11, CheckoutStepKeeps

(* A call answered at once with what an attempt has become, the draft      *)
(* being left.                                                             *)
LEMMA CheckoutAnswerKeeps ==
  ASSUME CheckoutInv, NEW k \in Key, NEW kind \in {"abandon", "acknowledge"}, NEW says \in Saying,
         waiting' = waiting, answers' = Append(answers, To(CallOf(kind, k), says)),
         UNCHANGED <<running, window, mishaps>>, AttemptTypes', WindowTypes',
         Settle(attempt, attempt'),
         Informed => ToldTrue(attempt', window, To(CallOf(kind, k), says))
  PROVE  CheckoutInv'
<1> DEFINE c == CallOf(kind, k)
           m == To(c, says)
<1>1. QueueTypes /\ OneAtATime /\ window \in Window
  BY DEF CheckoutInv, CallsInv, WindowTypes
<1>2. /\ m \in Message /\ m.call = c /\ c.kind = kind /\ c.draft = window.draft
      /\ Addressed(window, c)
  BY <1>1, CallIs, Reply
<1>3. answers' = Append(answers, m)
  OBVIOUS
<1>4. Informed => ToldTrue(attempt', window, m)
  OBVIOUS
<1> HIDE DEF c, m
<1>5. Grown(0, {m}) /\ Joined({})
  BY <1>1, <1>2, <1>3, OneMoreAnswer, NoneJoin
<1>6. OneAtATime'
  <2>1. \A x \in {m} : ~Ours(window, x.call)
    BY <1>2 DEF Ours, Single
  <2> QED
    BY <1>1, <1>5, <2>1, OneStays
<1>7. ASSUME Informed'
      PROVE  /\ Settle(attempt, attempt') /\ Keeps(attempt, attempt', window, window')
             /\ Knows(attempt', window') /\ \A x \in {m} : ToldTrue(attempt', window', x)
  <2>1. Informed
    BY <1>7 DEF Informed
  <2>2. Keeps(attempt, attempt', window, window')
    BY <2>1, DraftStands
  <2>3. Knows(attempt, window)
    BY <2>1 DEF CheckoutInv, TruthInv
  <2>4. Knows(attempt', window')
    BY <2>3 DEF Knows, Settle, Begun
  <2> QED
    BY <1>4, <2>1, <2>2, <2>4
<1>8. \A x \in {m} : Addressed(window', x.call)
  BY <1>2
<1>9. mishaps' = mishaps /\ window'.draft = window.draft
  OBVIOUS
<1> QED
  BY <1>5, <1>6, <1>7, <1>8, <1>9, CheckoutStepKeeps

LEMMA PressAbandonKeeps == ASSUME CheckoutInv, PressAbandon PROVE CheckoutInv'
<1> DEFINE k == RecoveryKey
           may == able /\ attempt[k].state = "claimed"
<1>1. k \in Key /\ (Informed => Begun(attempt, k))
  BY RecoveryBegun DEF PressAbandon
<1>2. AttemptTypes /\ WindowTypes /\ QueueTypes /\ attempt \in [Key -> Attempt]
  BY DEF CheckoutInv, CallsInv, AttemptTypes
<1>3. PICK says \in {"abandoned", "refused"} :
        /\ waiting' = waiting /\ answers' = Append(answers, To(CallOf("abandon", k), says))
        /\ \/ /\ attempt[k].state = "claimed" /\ says = "abandoned"
              /\ attempt' = [attempt EXCEPT ![k].state = "abandoned"]
           \/ /\ attempt' = attempt
              /\ says = "abandoned" => attempt[k].state = "abandoned"
  BY DEF PressAbandon, Replies
<1>4. UNCHANGED <<running, able, shift, window, rung, minted, mishaps>>
  BY DEF PressAbandon
<1> HIDE DEF k
<1>5. /\ attempt' \in [Key -> Attempt]
      /\ \A j \in Key :
           /\ attempt'[j].items = attempt[j].items
           /\ \/ attempt'[j].state = attempt[j].state
              \/ j = k /\ attempt[j].state = "claimed" /\ attempt'[j].state = "abandoned"
  BY <1>1, <1>2, <1>3 DEF Attempt, Sold
<1>6. Settle(attempt, attempt')
  BY <1>5 DEF Settle, Begun, Live, Sold
<1>7. AttemptTypes'
  BY <1>2, <1>4, <1>5 DEF AttemptTypes, Begun
<1>8. WindowTypes'
  BY <1>2, <1>4 DEF WindowTypes
<1>9. attempt'[k].state = "abandoned" \/ says = "refused"
  BY <1>1, <1>2, <1>3 DEF Attempt
<1>10. ASSUME Informed
       PROVE  ToldTrue(attempt', window, To(CallOf("abandon", k), says))
  <2>1. Begun(attempt', k)
    BY <1>1, <1>6, <1>10 DEF Settle
  <2>2. /\ To(CallOf("abandon", k), says).call.kind = "abandon"
        /\ To(CallOf("abandon", k), says).call.key = k
        /\ To(CallOf("abandon", k), says).says = says
    BY DEF To, CallOf
  <2> QED
    BY <1>3, <1>9, <2>1, <2>2 DEF ToldTrue, Live, Sold
<1>11. says \in Saying
  BY DEF Saying
<1> QED
  BY <1>1, <1>3, <1>4, <1>6, <1>7, <1>8, <1>10, <1>11, CheckoutAnswerKeeps

LEMMA PressAcknowledgeKeeps ==
  ASSUME CheckoutInv, NEW k \in Key, PressAcknowledge(k) PROVE CheckoutInv'
<1>1. AttemptTypes /\ WindowTypes /\ QueueTypes /\ attempt \in [Key -> Attempt]
  BY DEF CheckoutInv, CallsInv, AttemptTypes
<1>2. Informed => Begun(attempt, k)
  BY DEF PressAcknowledge, CheckoutInv, TruthInv, Knows
<1>3. PICK says \in {"acknowledged", "refused"} :
        /\ waiting' = waiting /\ answers' = Append(answers, To(CallOf("acknowledge", k), says))
        /\ \/ /\ attempt[k].state \in Sold /\ says = "acknowledged"
              /\ attempt' = [attempt EXCEPT ![k].state = "acknowledged"]
           \/ attempt' = attempt /\ says = "refused"
  BY DEF PressAcknowledge, Replies
<1>4. UNCHANGED <<running, able, shift, window, rung, minted, mishaps>>
  BY DEF PressAcknowledge
<1>5. /\ attempt' \in [Key -> Attempt]
      /\ \A j \in Key :
           /\ attempt'[j].items = attempt[j].items
           /\ \/ attempt'[j].state = attempt[j].state
              \/ j = k /\ attempt[j].state \in Sold /\ attempt'[j].state = "acknowledged"
  BY <1>1, <1>3 DEF Attempt, Sold
<1>6. Settle(attempt, attempt')
  BY <1>5 DEF Settle, Begun, Live, Sold
<1>7. AttemptTypes'
  BY <1>1, <1>4, <1>5 DEF AttemptTypes, Begun, Sold
<1>8. WindowTypes'
  BY <1>1, <1>4 DEF WindowTypes
<1>9. attempt'[k].state = "acknowledged" \/ says = "refused"
  BY <1>1, <1>3 DEF Attempt
<1>10. ASSUME Informed
       PROVE  ToldTrue(attempt', window, To(CallOf("acknowledge", k), says))
  <2>1. Begun(attempt', k)
    BY <1>2, <1>6, <1>10 DEF Settle
  <2>2. /\ To(CallOf("acknowledge", k), says).call.kind = "acknowledge"
        /\ To(CallOf("acknowledge", k), says).call.key = k
        /\ To(CallOf("acknowledge", k), says).says = says
    BY DEF To, CallOf
  <2> QED
    BY <1>3, <1>9, <2>1, <2>2 DEF ToldTrue, Live, Sold
<1>11. says \in Saying
  BY DEF Saying, Sold
<1> QED
  BY <1>3, <1>4, <1>6, <1>7, <1>8, <1>10, <1>11, CheckoutAnswerKeeps

(* What a completion asked for again adds to what is on its way, d answers *)
(* being taken.                                                            *)
OneAdded(d) ==
  \/ Len(answers') <= Len(answers) - d + 1 /\ waiting' = waiting
  \/ /\ Len(answers') = Len(answers) - d
     /\ \E k \in Key : /\ Len(waiting'[k]) = Len(waiting[k]) + 1
                      /\ \A j \in Key : j # k => waiting'[j] = waiting[j]

Runs(k) ==
  \/ running' = running
  \/ running' = running \cup {k} /\ attempt[k].state \in {"claimed", "abandoned"}

Asks(c, d, new, more) ==
  /\ Grown(d, new) /\ Joined(more) /\ more \subseteq {c} /\ (\A m \in new : m.call = c)
  /\ OneAdded(d) /\ Runs(c.key)

LEMMA RetryAsks ==
  ASSUME AttemptTypes, QueueTypes, NEW c \in Call, c.key \in Key, c.kind \in Completing,
         NEW d, NEW queue, RetryHandled(c, queue),
         \/ d = 0 /\ queue = answers
         \/ d = 1 /\ answers # <<>> /\ queue = Tail(answers)
  PROVE  \E new, more :
           /\ Asks(c, d, new, more)
           /\ Informed /\ Begun(attempt, c.key) => \A m \in new : \A w : ToldTrue(attempt, w, m)
<1>1. CASE /\ answers' = queue /\ attempt[c.key].state \in {"claimed", "abandoned"}
           /\ waiting' = [waiting EXCEPT ![c.key] = Append(@, c)]
           /\ running' = running \cup {c.key}
  <2>1. Grown(d, {}) /\ Len(answers') = Len(answers) - d
    <3>1. CASE d = 0 /\ queue = answers
      BY <1>1, <3>1, SameAnswers DEF QueueTypes
    <3>2. CASE d = 1 /\ answers # <<>> /\ queue = Tail(answers)
      BY <1>1, <3>2, HeadTaken
    <3> QED
      BY <3>1, <3>2
  <2>2. /\ Joined({c}) /\ Len(waiting'[c.key]) = Len(waiting[c.key]) + 1
        /\ \A j \in Key : j # c.key => waiting'[j] = waiting[j]
    BY <1>1, OneJoins
  <2>3. OneAdded(d) /\ Runs(c.key)
    BY <1>1, <2>1, <2>2 DEF OneAdded, Runs
  <2>4. Asks(c, d, {}, {c})
    BY <2>1, <2>2, <2>3 DEF Asks
  <2> QED
    BY <2>4
<1>2. ASSUME UNCHANGED <<waiting, running>>, NEW says \in Saying,
             answers' = Append(queue, To(c, says)),
             \/ says = "refused" /\ (~able \/ ~Begun(attempt, c.key))
             \/ says = attempt[c.key].state /\ says \in {"rejected", "abandoned"} \cup Sold
      PROVE  \E new, more :
               /\ Asks(c, d, new, more)
               /\ Informed /\ Begun(attempt, c.key) => \A m \in new : \A w : ToldTrue(attempt, w, m)
  <2> DEFINE m == To(c, says)
  <2>1. m \in Message /\ m.call = c /\ m.says = says
    BY Reply
  <2>2. answers' = Append(queue, m)
    BY <1>2
  <2> HIDE DEF m
  <2>3. Grown(d, {m}) /\ Len(answers') = Len(answers) - d + 1
    <3>1. CASE d = 0 /\ queue = answers
      BY <2>1, <2>2, <3>1, OneMoreAnswer
    <3>2. CASE d = 1 /\ answers # <<>> /\ queue = Tail(answers)
      BY <2>1, <2>2, <3>2, HeadTaken
    <3> QED
      BY <3>1, <3>2
  <2>4. Joined({})
    BY <1>2, NoneJoin
  <2>5. d \in {0, 1} /\ Len(answers) \in Nat
    BY DEF QueueTypes
  <2>6. OneAdded(d) /\ Runs(c.key)
    BY <1>2, <2>3, <2>5 DEF OneAdded, Runs
  <2>7. Asks(c, d, {m}, {})
    BY <2>1, <2>3, <2>4, <2>6 DEF Asks
  <2>8. Informed /\ Begun(attempt, c.key) => \A w : ToldTrue(attempt, w, m)
    <3> SUFFICES ASSUME Informed, Begun(attempt, c.key), NEW w PROVE ToldTrue(attempt, w, m)
      OBVIOUS
    <3>1. able
      BY DEF AttemptTypes, Informed
    <3>2. says = attempt[c.key].state /\ says \in {"rejected", "abandoned"} \cup Sold
      BY <1>2, <3>1
    <3> QED
      BY <2>1, <3>2 DEF ToldTrue, Completing, Live, Sold
  <2> QED
    BY <2>7, <2>8
<1> QED
  BY <1>1, <1>2, RetryDoes

\* The attempts when a completion starts or goes on.
LEMMA RunsStand ==
  ASSUME AttemptTypes, NEW k \in Key, Runs(k),
         UNCHANGED <<attempt, able, shift, rung, minted, mishaps>>
  PROVE  AttemptTypes' /\ Settle(attempt, attempt')
<1>1. running' \subseteq Key /\ \A j \in running' : attempt[j].state \in {"claimed", "abandoned"}
  BY DEF Runs, AttemptTypes
<1> QED
  BY <1>1 DEF AttemptTypes, Settle

LEMMA PressRetryKeeps == ASSUME CheckoutInv, PressRetry PROVE CheckoutInv'
<1> DEFINE c == CallOf("retry", RecoveryKey)
<1>1. /\ window' = [window EXCEPT !.pending = TRUE] /\ RetryHandled(c, answers)
      /\ UNCHANGED <<attempt, able, shift, rung, minted, mishaps>>
  BY DEF PressRetry
<1>2. AttemptTypes /\ WindowTypes /\ QueueTypes /\ OneAtATime /\ window \in Window
  BY DEF CheckoutInv, CallsInv, WindowTypes
<1>3. RecoveryKey \in Key /\ (Informed => Begun(attempt, RecoveryKey))
  BY RecoveryBegun DEF PressRetry
<1>4. /\ c \in Call /\ c.kind = "retry" /\ c.key = RecoveryKey /\ c.draft = window.draft
      /\ \A v : v.draft = window.draft => Addressed(v, c)
  BY <1>2, <1>3, CallIs
<1> HIDE DEF c
<1>5. PICK new, more :
           /\ Asks(c, 0, new, more)
           /\ Informed /\ Begun(attempt, c.key) => \A m \in new : \A w : ToldTrue(attempt, w, m)
  BY <1>1, <1>2, <1>3, <1>4, RetryAsks DEF Completing
<1>6. /\ window' \in Window /\ window'.draft = window.draft /\ window'.shift = window.shift
      /\ window'.cart = window.cart /\ window'.asking = window.asking
      /\ window'.state = window.state /\ window'.active = window.active
      /\ window'.blocking = window.blocking /\ window'.results = window.results
      /\ window'.key = window.key /\ window'.outcome = window.outcome
      /\ window'.asked = window.asked
  BY <1>1, <1>2 DEF Window
<1>7. AttemptTypes' /\ Settle(attempt, attempt')
  BY <1>1, <1>2, <1>3, <1>4, <1>5, RunsStand DEF Asks
<1>8. WindowTypes'
  BY <1>1, <1>2, <1>6, WindowMoves DEF WindowTypes
<1>9. Grown(0, new) /\ Joined(more) /\ OneAtATime'
  <2>1. \A x : x = c => ~Ours(window, x)
    BY <1>4 DEF Ours, Single
  <2>2. (\A m \in new : ~Ours(window, m.call)) /\ (\A x \in more : ~Ours(window, x))
    BY <1>5, <2>1 DEF Asks
  <2>3. Grown(0, new) /\ Joined(more)
    BY <1>5 DEF Asks
  <2> QED
    BY <1>2, <1>6, <2>2, <2>3, OneStays
<1>10. ASSUME Informed'
       PROVE  /\ Settle(attempt, attempt') /\ Keeps(attempt, attempt', window, window')
              /\ Knows(attempt', window') /\ \A x \in new : ToldTrue(attempt', window', x)
  <2>1. Informed /\ Begun(attempt, c.key)
    BY <1>1, <1>3, <1>4, <1>10 DEF Informed
  <2>2. Keeps(attempt, attempt', window, window')
    BY <1>6, <1>7, <2>1, DraftStands
  <2>3. Knows(attempt', window')
    BY <1>1, <1>6, <2>1 DEF CheckoutInv, TruthInv, Knows
  <2>4. \A x \in new : ToldTrue(attempt', window', x)
    BY <1>1, <1>5, <2>1
  <2> QED
    BY <1>7, <2>2, <2>3, <2>4
<1>11. /\ \A x \in new : Addressed(window', x.call)
       /\ \A x \in more : /\ x.kind \in Completing /\ Addressed(window', x)
                          /\ x.draft = window.draft
  BY <1>4, <1>5, <1>6 DEF Asks, Completing
<1>12. mishaps' = mishaps /\ window'.draft = window.draft
  BY <1>1, <1>6
<1> QED
  BY <1>7, <1>8, <1>9, <1>10, <1>11, <1>12, CheckoutStepKeeps

(* The first answer, taken: whatever draft it was asked by, the draft is   *)
(* well formed, keeps its custody, and only a check leads to a replay.     *)
LEMMA TakenKeeps ==
  ASSUME CheckoutInv, answers # <<>>, NEW m, m = Head(answers), NEW w, w = Taken(window, m)
  PROVE  /\ WellTaken(window, w, m)
         /\ Informed => /\ Knows(attempt, w) /\ ToldTrue(attempt, window, m)
                        /\ \A k \in Key : Shared(attempt, w, k) =>
                             /\ Shared(attempt, window, k) /\ w.cart = window.cart
                             /\ Holds(w, k) /\ ~Delivers(window, m, k)
         /\ m.call.draft # window.draft => w = window
         /\ w.asking = "replaying" /\ window.asking # "replaying" =>
              m.call.kind = "check" /\ m.call.draft = window.draft
<1>1. WindowTypes /\ QueueTypes /\ OneAtATime /\ window \in Window
  BY DEF CheckoutInv, CallsInv, WindowTypes
<1>2. /\ m = answers[1] /\ m \in Message /\ Addressed(window, m.call) /\ 1 \in 1 .. Len(answers)
  BY <1>1, HeadTaken
<1>3. m.call.draft = window.draft => AnswersTo(window, m)
  <2> SUFFICES ASSUME m.call.draft = window.draft PROVE AnswersTo(window, m)
    OBVIOUS
  <2>1. Suits(window, m.call)
    <3>1. CASE m.call.kind \in Single
      BY <1>1, <1>2, <3>1 DEF OneAtATime, Ours
    <3>2. CASE m.call.kind \notin Single
      BY <3>2 DEF Suits, Single
    <3> QED
      BY <3>1, <3>2
  <2> QED
    BY <1>1, <1>2, <2>1 DEF AnswersTo, Addressed, WindowTypes
<1>4. m.call.draft # window.draft => w = window
  BY DEF Taken
<1>5. Taking(attempt, window, w, m)
  <2>1. CASE m.call.draft = window.draft
    BY <1>3, <2>1, AnswerTaken
  <2>2. CASE m.call.draft # window.draft
    <3>1. WellTaken(window, w, m)
      BY <1>1, <1>4, <2>2 DEF WellTaken, WindowTypes
    <3>2. Knows(attempt, window) => TrulyTaken(attempt, window, w, m)
      BY <1>4, <2>2 DEF TrulyTaken, Delivers
    <3> QED
      BY <3>1, <3>2 DEF Taking
  <2> QED
    BY <2>1, <2>2
<1>6. ASSUME Informed
      PROVE  /\ Knows(attempt, w) /\ ToldTrue(attempt, window, m)
             /\ \A k \in Key : Shared(attempt, w, k) =>
                  /\ Shared(attempt, window, k) /\ w.cart = window.cart
                  /\ Holds(w, k) /\ ~Delivers(window, m, k)
  <2>1. ToldTrue(attempt, window, m) /\ Knows(attempt, window) /\ Custody /\ OnItsWay
    BY <1>2, <1>6 DEF CheckoutInv, TruthInv, AllTold
  <2>2. TrulyTaken(attempt, window, w, m)
    BY <1>5, <2>1 DEF Taking
  <2>3. ASSUME NEW k \in Key, Shared(attempt, w, k)
        PROVE  /\ Shared(attempt, window, k) /\ w.cart = window.cart
               /\ Holds(w, k) /\ ~Delivers(window, m, k)
    <3>1. w.cart # {} /\ w.cart = window.cart
      BY <1>5, <2>3 DEF Shared, Taking, WellTaken
    <3>2. Shared(attempt, window, k)
      BY <2>3, <3>1 DEF Shared
    <3>3. Holds(window, k)
      BY <2>1, <3>2 DEF Custody
    <3>4. ~Forgets(m, k)
      <4> SUFFICES ASSUME Forgets(m, k) PROVE FALSE
        OBVIOUS
      <4>1. attempt[k].state \in Sold
        BY <2>1 DEF Forgets, ToldTrue, Sold
      <4>2. PICK i \in 1 .. Len(answers) : \A h \in 1 .. i : ~Forgets(answers[h], k)
        BY <2>1, <3>2, <4>1 DEF OnItsWay, Announced
      <4>3. 1 \in 1 .. i
        BY <4>2
      <4> QED
        BY <1>2, <4>2, <4>3
    <3>5. Holds(w, k)
      BY <2>2, <2>3, <3>3, <3>4 DEF TrulyTaken
    <3>6. ~Delivers(window, m, k)
      BY <2>2, <3>1, <3>3 DEF TrulyTaken, Holds
    <3> QED
      BY <3>1, <3>2, <3>5, <3>6
  <2> QED
    BY <2>1, <2>2, <2>3 DEF TrulyTaken
<1>7. ASSUME w.asking = "replaying", window.asking # "replaying"
      PROVE  m.call.kind = "check" /\ m.call.draft = window.draft
  <2>1. m.call.draft = window.draft
    BY <1>4, <1>7
  <2>2. m.call.kind \in Single
    BY <1>5, <1>7 DEF Taking, WellTaken
  <2>3. m.call.kind # "replay"
    BY <1>3, <1>7, <2>1 DEF AnswersTo, Suits
  <2>4. m.call.kind # "complete"
    <3> SUFFICES ASSUME m.call.kind = "complete" PROVE FALSE
      OBVIOUS
    <3> DEFINE done == [window EXCEPT !.active = FALSE, !.pending = FALSE]
    <3>1. w = IF m.says = "error"
              THEN [done EXCEPT !.asking = "first", !.asked = m.call.key]
              ELSE ApplyOrRecord(done, m)
      BY <2>1 DEF Taken, OnComplete
    <3>2. done \in Window /\ done.asking = window.asking
      BY <1>1 DEF Window
    <3>3. m.call.key \in Key
      BY <1>2 DEF Addressed
    <3> HIDE DEF done
    <3>4. CASE m.says = "error"
      <4>1. w.asking = "first"
        BY <3>1, <3>2, <3>4 DEF Window
      <4> QED
        BY <1>7, <4>1
    <3>5. CASE m.says # "error"
      <4>1. w.asking = done.asking
        BY <1>2, <3>1, <3>2, <3>3, <3>5, ApplyWell, RecordedWell DEF ApplyOrRecord
      <4> QED
        BY <1>7, <3>2, <4>1
    <3> QED
      BY <3>4, <3>5
  <2> QED
    BY <2>1, <2>2, <2>3, <2>4 DEF Single
<1> QED
  BY <1>4, <1>5, <1>6, <1>7 DEF Taking

(* What follows an answer at once.                                         *)
LEMMA AfterwardsAdds ==
  ASSUME CheckoutInv, answers # <<>>, NEW m, m = Head(answers), NEW w, w = Taken(window, m),
         answers' = Afterwards(w, m, Tail(answers))
  PROVE  \E new : /\ Grown(1, new)
                  /\ \A x \in new : /\ ~Ours(window, x.call) /\ x.call.draft = window.draft
                                    /\ Addressed(window, x.call)
                                    /\ Informed => \A v : ToldTrue(attempt, v, x)
<1>1. AttemptTypes /\ WindowTypes /\ QueueTypes /\ window \in Window
  BY DEF CheckoutInv, CallsInv, WindowTypes
<1>2. m = answers[1] /\ m \in Message /\ Addressed(window, m.call)
  BY <1>1, HeadTaken
<1>3. w.draft = window.draft /\ window.draft \in 1 .. MaxShifts + MaxMishaps
  BY <1>1, TakenKeeps DEF WellTaken, Window
<1>4. Informed => able
  BY <1>1 DEF Informed, AttemptTypes
<1>5. CASE m.call.kind = "abandon"
  <2> DEFINE c == [m.call EXCEPT !.kind = "pending", !.draft = w.draft]
             x == PendingSays(c)
  <2>1. c \in Call /\ c.kind = "pending" /\ c.draft = window.draft
    BY <1>2, <1>3 DEF Message, Call
  <2>2. answers' = Append(Tail(answers), x)
    BY <1>5 DEF Afterwards
  <2> HIDE DEF c
  <2>3. /\ x \in Message /\ x.call = c
        /\ able => /\ x.says = "list" /\ (x.blocking # NoKey => Begun(attempt, x.blocking))
                   /\ \A j \in x.results : Begun(attempt, j)
    BY <2>1, Listed
  <2> HIDE DEF x
  <2>4. Grown(1, {x})
    BY <1>1, <2>2, <2>3, HeadTaken
  <2>5. ~Ours(window, x.call) /\ Addressed(window, x.call)
    BY <1>3, <2>1, <2>3, CheckoutAssumption DEF Ours, Single, Addressed
  <2>6. Informed => \A v : ToldTrue(attempt, v, x)
    BY <1>4, <2>1, <2>3 DEF ToldTrue
  <2> QED
    BY <2>1, <2>3, <2>4, <2>5, <2>6
<1>6. CASE /\ m.call.kind \in {"complete", "retry"} /\ m.call.draft = w.draft
           /\ m.says = "claimed" /\ window.key = m.call.key
  <2> DEFINE k == m.call.key
             c == CallOf("status", k)
             x == To(c, StatusSays(k))
  <2>1. k \in Key
    BY <1>2, <1>6 DEF Addressed
  <2>2. answers' = Append(Tail(answers), x)
    BY <1>6 DEF Afterwards
  <2> HIDE DEF k
  <2>3. /\ c \in Call /\ c.kind = "status" /\ c.key = k /\ c.draft = window.draft
        /\ Addressed(window, c)
    BY <1>1, <2>1, CallIs
  <2> HIDE DEF c
  <2>4. x \in Message /\ x.call = c /\ x.says = StatusSays(k)
    BY <1>1, <2>1, <2>3, StatusIs, Reply
  <2> HIDE DEF x
  <2>5. Grown(1, {x})
    BY <1>1, <2>2, <2>4, HeadTaken
  <2>6. ~Ours(window, x.call)
    BY <2>3, <2>4 DEF Ours, Single
  <2>7. ASSUME Informed, NEW v PROVE ToldTrue(attempt, v, x)
    <3>1. ToldTrue(attempt, window, m)
      BY <2>7, TakenKeeps
    <3>2. Begun(attempt, k)
      BY <1>6, <3>1 DEF ToldTrue, k, Sold
    <3>3. \/ x.says \in {"claimed", "in-flight"}
          \/ x.says = attempt[k].state /\ x.says \in {"rejected", "abandoned"} \cup Sold
      BY <1>1, <1>4, <2>1, <2>4, <2>7, <3>2, StatusIs
    <3> QED
      BY <2>3, <2>4, <3>2, <3>3 DEF ToldTrue, Live
  <2> QED
    BY <2>3, <2>4, <2>5, <2>6, <2>7
<1>7. CASE /\ m.call.kind # "abandon"
           /\ ~(/\ m.call.kind \in {"complete", "retry"} /\ m.call.draft = w.draft
                /\ m.says = "claimed" /\ window.key = m.call.key)
  <2>1. answers' = Tail(answers)
    BY <1>7 DEF Afterwards
  <2> QED
    BY <1>1, <2>1, HeadTaken
<1> QED
  BY <1>5, <1>6, <1>7

LEMMA TakeAnswerKeeps == ASSUME CheckoutInv, TakeAnswer PROVE CheckoutInv'
<1> DEFINE m == Head(answers)
           w == Taken(window, m)
           queue == Afterwards(w, m, Tail(answers))
           starts == w.asking = "replaying" /\ window.asking # "replaying"
           c == CallOf("replay", w.asked)
<1>1. /\ answers # <<>> /\ window' = w
      /\ UNCHANGED <<attempt, able, shift, rung, minted, mishaps>>
      /\ \/ starts /\ RetryHandled(c, queue)
         \/ ~starts /\ answers' = queue /\ UNCHANGED <<running, waiting>>
  BY DEF TakeAnswer
<1>2. AttemptTypes /\ WindowTypes /\ QueueTypes /\ OneAtATime /\ window \in Window
  BY DEF CheckoutInv, CallsInv, WindowTypes
<1>3. /\ WellTaken(window, w, m)
      /\ Informed => /\ Knows(attempt, w) /\ ToldTrue(attempt, window, m)
                     /\ \A k \in Key : Shared(attempt, w, k) =>
                          /\ Shared(attempt, window, k) /\ w.cart = window.cart
                          /\ Holds(w, k) /\ ~Delivers(window, m, k)
      /\ m.call.draft # window.draft => w = window
      /\ starts => m.call.kind = "check" /\ m.call.draft = window.draft
  BY <1>1, TakenKeeps
<1>4. m = answers[1] /\ 1 \in 1 .. Len(answers)
  BY <1>1, <1>2, HeadTaken
<1>5. PICK new, more :
        /\ Grown(1, new) /\ Joined(more) /\ OneAtATime' /\ AttemptTypes'
        /\ \A x \in new : Addressed(window', x.call)
        /\ \A x \in more : /\ x.kind \in Completing /\ Addressed(window', x)
                           /\ x.draft = window.draft
        /\ Informed => \A x \in new : ToldTrue(attempt, w, x)
  <2>1. CASE starts /\ RetryHandled(c, queue)
    <3>1. queue = Tail(answers)
      BY <1>3, <2>1 DEF Afterwards
    <3>2. w.asked \in Key /\ w.draft = window.draft
      BY <1>3, <2>1 DEF WellTaken
    <3>3. /\ c \in Call /\ c.kind = "replay" /\ c.key = w.asked /\ c.draft = window.draft
          /\ \A v : v.draft = window.draft => Addressed(v, c)
      BY <1>2, <3>2, CallIs
    <3>4. Informed => Begun(attempt, c.key)
      BY <1>3, <2>1, <3>3 DEF Knows
    <3>5. PICK new, more :
             /\ Asks(c, 1, new, more)
             /\ Informed /\ Begun(attempt, c.key) => \A x \in new : \A v : ToldTrue(attempt, v, x)
      <4> HIDE DEF c, queue
      <4> QED
        BY <1>1, <1>2, <2>1, <3>1, <3>2, <3>3, RetryAsks DEF Completing
    <3> HIDE DEF c
    <3>6. AttemptTypes'
      BY <1>1, <1>2, <3>2, <3>3, <3>5, RunsStand DEF Asks
    <3>7. OneAtATime'
      <4>1. Ours(window, answers[1].call)
        BY <1>3, <1>4, <2>1 DEF Ours, Single
      <4>2. /\ \A i \in 1 .. Len(answers) : i > 1 => ~Ours(window, answers[i].call)
            /\ \A k \in Key : \A p \in 1 .. Len(waiting[k]) : ~Ours(window, waiting[k][p])
        BY <1>2, <1>4, <4>1 DEF OneAtATime
      <4>3. Suits(window', c)
        BY <1>1, <2>1, <3>3 DEF Suits
      <4>4. (\A x \in new : Suits(window', x.call)) /\ (\A x \in more : Suits(window', x))
        BY <3>5, <4>3 DEF Asks
      <4>5. Grown(1, new) /\ Joined(more) /\ OneAdded(1)
        BY <3>5 DEF Asks
      <4>6. window'.draft = window.draft
        BY <1>1, <3>2
      <4> QED
        BY <1>2, <4>2, <4>4, <4>5, <4>6, OneStarts DEF OneAdded
    <3>8. Addressed(window', c)
      BY <1>1, <3>2, <3>3
    <3> QED
      BY <3>3, <3>4, <3>5, <3>6, <3>7, <3>8 DEF Asks, Completing
  <2>2. CASE ~starts /\ answers' = queue /\ UNCHANGED <<running, waiting>>
    <3>1. PICK new : /\ Grown(1, new)
                     /\ \A x \in new : /\ ~Ours(window, x.call) /\ x.call.draft = window.draft
                                       /\ Addressed(window, x.call)
                                       /\ Informed => \A v : ToldTrue(attempt, v, x)
      BY <1>1, <2>2, AfterwardsAdds
    <3>2. Joined({})
      BY <1>2, <2>2, NoneJoin
    <3>3. AttemptTypes'
      BY <1>1, <1>2, <2>2, AttemptsStand
    <3>4. window'.draft = window.draft
      BY <1>1, <1>3 DEF WellTaken
    <3>5. OneAtATime'
      <4>1. \/ window'.active = window.active /\ window'.asking = window.asking
            \/ Ours(window, answers[1].call)
        BY <1>1, <1>3, <1>4 DEF WellTaken, Ours
      <4> QED
        BY <1>2, <3>1, <3>2, <3>4, <4>1, OneStays
    <3>6. \A x \in new : Addressed(window', x.call)
      BY <3>1, <3>4 DEF Addressed
    <3> QED
      BY <3>1, <3>2, <3>3, <3>5, <3>6
  <2> QED
    BY <1>1, <2>1, <2>2
<1> HIDE DEF m, w, queue, starts, c
<1>6. /\ window' \in Window /\ window'.draft = window.draft /\ window'.shift = window.shift
      /\ window'.cart \subseteq window.cart /\ window'.key \in {window.key, NoKey}
      /\ window'.asking # "no" => window'.asked \in Key
  BY <1>1, <1>3 DEF WellTaken
<1>7. WindowTypes'
  BY <1>1, <1>2, <1>6, WindowMoves
<1>8. ASSUME Informed'
      PROVE  /\ Settle(attempt, attempt') /\ Keeps(attempt, attempt', window, window')
             /\ (\A x \in new : ToldTrue(attempt', window', x)) /\ Knows(attempt', window')
             /\ \A k \in Key : Delivers(window, answers[1], k) => ~Shared(attempt', window', k)
  <2>1. Informed
    BY <1>1, <1>8 DEF Informed
  <2>2. Settle(attempt, attempt')
    BY <1>1 DEF Settle
  <2>3. Keeps(attempt, attempt', window, window')
    BY <1>1, <1>3, <1>6, <2>1 DEF Keeps
  <2> QED
    BY <1>1, <1>3, <1>4, <1>5, <2>1, <2>2, <2>3
<1>9. mishaps' = mishaps /\ window'.draft = window.draft
  BY <1>1, <1>6
<1> QED
  BY <1>5, <1>7, <1>8, <1>9, CheckoutStepKeeps

\* What SequenceTheorems says of a concatenation, by its halves.
LEMMA Concatenated ==
  ASSUME NEW S, NEW s \in Seq(S), NEW t \in Seq(S)
  PROVE  /\ s \o t \in Seq(S) /\ Len(s \o t) = Len(s) + Len(t)
         /\ \A i \in 1 .. Len(s) : (s \o t)[i] = s[i]
         /\ \A i \in 1 .. Len(t) : (s \o t)[Len(s) + i] = t[i]
<1>1. Len(s) \in Nat /\ Len(t) \in Nat
  OBVIOUS
<1> QED
  BY <1>1, ConcatProperties

(* A completion ends: every call that waited for it is answered alike.     *)
LEMMA CallsAnswered ==
  ASSUME QueueTypes, NEW k \in Key, NEW says \in Saying,
         answers' = answers \o [i \in DOMAIN waiting[k] |-> To(waiting[k][i], says)]
  PROVE  /\ answers' \in Seq(Message) /\ Len(answers') = Len(answers) + Len(waiting[k])
         /\ \A i \in 1 .. Len(answers) : answers'[i] = answers[i]
         /\ \A p \in 1 .. Len(waiting[k]) :
              /\ waiting[k][p] \in Call
              /\ answers'[Len(answers) + p] = To(waiting[k][p], says)
<1> DEFINE q == waiting[k]
           r == [i \in DOMAIN q |-> To(q[i], says)]
<1>1. q \in Seq(Call) /\ answers \in Seq(Message)
  BY DEF QueueTypes
<1>2. DOMAIN q = 1 .. Len(q) /\ Len(q) \in Nat /\ \A p \in 1 .. Len(q) : q[p] \in Call
  BY <1>1
<1>3. \A p \in 1 .. Len(q) : To(q[p], says) \in Message
  BY <1>2, Reply
<1>4. answers' = answers \o r
  OBVIOUS
<1>5. r \in Seq(Message) /\ Len(r) = Len(q) /\ \A p \in 1 .. Len(q) : r[p] = To(q[p], says)
  <2>1. r \in [1 .. Len(q) -> Message]
    BY <1>2, <1>3
  <2>2. r \in Seq(Message)
    BY <1>2, <2>1
  <2>3. \A p \in 1 .. Len(q) : r[p] = To(q[p], says)
    BY <1>2
  <2> QED
    BY <1>2, <2>1, <2>2, <2>3
<1> HIDE DEF r
<1>6. /\ answers' \in Seq(Message) /\ Len(answers') = Len(answers) + Len(r)
      /\ \A i \in 1 .. Len(answers) : answers'[i] = answers[i]
      /\ \A p \in 1 .. Len(r) : answers'[Len(answers) + p] = r[p]
  <2>1. answers \in Seq(Message) /\ r \in Seq(Message)
    BY <1>1, <1>5
  <2>2. answers \o r \in Seq(Message) /\ Len(answers \o r) = Len(answers) + Len(r)
    BY <2>1, Concatenated
  <2>3. \A i \in 1 .. Len(answers) : (answers \o r)[i] = answers[i]
    BY <2>1, Concatenated
  <2>4. \A p \in 1 .. Len(r) : (answers \o r)[Len(answers) + p] = r[p]
    BY <2>1, Concatenated
  <2> QED
    BY <1>4, <2>2, <2>3, <2>4
<1> QED
  BY <1>2, <1>5, <1>6

LEMMA EndsWell ==
  ASSUME CheckoutInv, NEW k \in running, NEW says \in Saying, UNCHANGED window,
         answers' = answers \o [i \in DOMAIN waiting[k] |-> To(waiting[k][i], says)],
         waiting' = [waiting EXCEPT ![k] = <<>>], running' = running \ {k}
  PROVE  QueueTypes' /\ OneAtATime'
<1> DEFINE n == Len(answers)
           q == waiting[k]
<1>1. QueueTypes /\ OneAtATime /\ k \in Key /\ n \in Nat
  BY DEF CheckoutInv, CallsInv, AttemptTypes, QueueTypes
<1>2. /\ answers' \in Seq(Message) /\ Len(answers') = n + Len(q)
      /\ \A i \in 1 .. n : answers'[i] = answers[i]
      /\ \A p \in 1 .. Len(q) : answers'[n + p] = To(q[p], says)
  BY <1>1, CallsAnswered
<1>3. q \in Seq(Call) /\ Len(q) \in Nat
  BY <1>1 DEF QueueTypes
<1>4. /\ waiting' \in [Key -> Seq(Call)] /\ waiting'[k] = <<>> /\ Len(waiting'[k]) = 0
      /\ \A j \in Key : j # k => waiting'[j] = waiting[j]
  BY <1>1 DEF QueueTypes
<1> HIDE DEF n, q
<1>5. \A i \in 1 .. Len(answers') :
        \/ i \in 1 .. n /\ answers'[i].call = answers[i].call
        \/ i - n \in 1 .. Len(q) /\ answers'[i].call = q[i - n]
  <2> SUFFICES ASSUME NEW i \in 1 .. Len(answers')
               PROVE  \/ i \in 1 .. n /\ answers'[i].call = answers[i].call
                      \/ i - n \in 1 .. Len(q) /\ answers'[i].call = q[i - n]
    OBVIOUS
  <2>1. CASE i <= n
    BY <1>2, <2>1
  <2>2. CASE ~(i <= n)
    <3>1. i - n \in 1 .. Len(q) /\ n + (i - n) = i
      BY <1>1, <1>2, <1>3, <2>2
    <3>2. answers'[i] = To(q[i - n], says)
      BY <1>2, <3>1
    <3> QED
      BY <3>1, <3>2 DEF To
  <2> QED
    BY <2>1, <2>2
<1>6. ASSUME NEW j \in Key, NEW p \in 1 .. Len(waiting'[j])
      PROVE  j # k /\ p \in 1 .. Len(waiting[j]) /\ waiting'[j] = waiting[j]
  BY <1>4, <1>6
<1>7. QueueTypes'
  <2>1. \A i \in 1 .. Len(answers') : Addressed(window', answers'[i].call)
    BY <1>1, <1>5 DEF QueueTypes, n, q
  <2>2. ASSUME NEW j \in Key, NEW p \in 1 .. Len(waiting'[j])
        PROVE  /\ waiting'[j][p].kind \in Completing /\ waiting'[j][p].key = j
               /\ Addressed(window', waiting'[j][p]) /\ j \in running'
    BY <1>1, <1>6, <2>2 DEF QueueTypes
  <2> QED
    BY <1>2, <1>4, <2>1, <2>2 DEF QueueTypes
<1>8. OneAtATime'
  <2> DEFINE ours(c) == Ours(window, c)
  <2>1. /\ \A i, j \in 1 .. n : ours(answers[i].call) /\ ours(answers[j].call) => i = j
        /\ \A x, y \in 1 .. Len(q) : ours(q[x]) /\ ours(q[y]) => x = y
        /\ \A i \in 1 .. n, x \in 1 .. Len(q) : ~(ours(answers[i].call) /\ ours(q[x]))
    BY <1>1 DEF OneAtATime, n, q
  <2>2. /\ \A i \in 1 .. n : ours(answers[i].call) => Suits(window, answers[i].call)
        /\ \A x \in 1 .. Len(q) : ours(q[x]) => Suits(window, q[x])
    BY <1>1 DEF OneAtATime, n, q
  <2>3. \A j \in Key : \A p \in 1 .. Len(waiting[j]) :
          /\ \A i \in 1 .. n : ~(ours(answers[i].call) /\ ours(waiting[j][p]))
          /\ \A x \in 1 .. Len(q) : ours(q[x]) /\ ours(waiting[j][p]) => j = k
    BY <1>1 DEF OneAtATime, n, q
  <2>4. \A i, j \in 1 .. Len(answers') :
          ours(answers'[i].call) /\ ours(answers'[j].call) => i = j
    <3> SUFFICES ASSUME NEW i \in 1 .. Len(answers'), NEW j \in 1 .. Len(answers'),
                        ours(answers'[i].call), ours(answers'[j].call)
                 PROVE  i = j
      OBVIOUS
    <3> HIDE DEF ours
    <3>1. CASE i \in 1 .. n /\ answers'[i].call = answers[i].call
      BY <1>5, <2>1, <3>1
    <3>2. CASE i - n \in 1 .. Len(q) /\ answers'[i].call = q[i - n]
      <4>1. j - n \in 1 .. Len(q) /\ answers'[j].call = q[j - n]
        BY <1>5, <2>1, <3>2
      <4>2. i - n = j - n
        BY <2>1, <3>2, <4>1
      <4> QED
        BY <1>1, <4>2
    <3> QED
      BY <1>5, <3>1, <3>2
  <2>5. \A i \in 1 .. Len(answers') : ours(answers'[i].call) => Suits(window, answers'[i].call)
    <3> HIDE DEF ours
    <3> QED
      BY <1>5, <2>2
  <2>6. \A i \in 1 .. Len(answers'), j \in Key : \A p \in 1 .. Len(waiting'[j]) :
          ~(ours(answers'[i].call) /\ ours(waiting'[j][p]))
    <3> SUFFICES ASSUME NEW i \in 1 .. Len(answers'), NEW j \in Key,
                        NEW p \in 1 .. Len(waiting'[j]),
                        ours(answers'[i].call), ours(waiting'[j][p])
                 PROVE  FALSE
      OBVIOUS
    <3> HIDE DEF ours
    <3>1. j # k /\ p \in 1 .. Len(waiting[j]) /\ ours(waiting[j][p])
      BY <1>6
    <3> QED
      BY <1>5, <2>3, <3>1
  <2>7. \A i, j \in Key : \A p \in 1 .. Len(waiting'[i]), x \in 1 .. Len(waiting'[j]) :
          ours(waiting'[i][p]) /\ ours(waiting'[j][x]) => i = j /\ p = x
    BY <1>1, <1>6 DEF OneAtATime
  <2>8. \A j \in Key : \A p \in 1 .. Len(waiting'[j]) :
          ours(waiting'[j][p]) => Suits(window, waiting'[j][p])
    BY <1>1, <1>6 DEF OneAtATime
  <2> HIDE DEF ours
  <2>9. \A c : /\ Ours(window', c) <=> ours(c)
               /\ Suits(window', c) <=> Suits(window, c)
    BY DEF ours
  <2>10. /\ \A i, j \in 1 .. Len(answers') :
              Ours(window', answers'[i].call) /\ Ours(window', answers'[j].call) => i = j
         /\ \A i \in 1 .. Len(answers') :
              Ours(window', answers'[i].call) => Suits(window', answers'[i].call)
    BY <2>4, <2>5, <2>9
  <2>11. \A i \in 1 .. Len(answers'), j \in Key : \A p \in 1 .. Len(waiting'[j]) :
           ~(Ours(window', answers'[i].call) /\ Ours(window', waiting'[j][p]))
    BY <2>6, <2>9
  <2>12. /\ \A i, j \in Key : \A p \in 1 .. Len(waiting'[i]), x \in 1 .. Len(waiting'[j]) :
              Ours(window', waiting'[i][p]) /\ Ours(window', waiting'[j][x]) => i = j /\ p = x
         /\ \A j \in Key : \A p \in 1 .. Len(waiting'[j]) :
              Ours(window', waiting'[j][p]) => Suits(window', waiting'[j][p])
    BY <2>7, <2>8, <2>9
  <2> QED
    BY <2>10, <2>11, <2>12 DEF OneAtATime
<1> QED
  BY <1>7, <1>8

(* What the end of a completion makes of its attempt and says of it.       *)
LEMMA AttemptEndsKeeps ==
  ASSUME CheckoutInv, NEW k \in Key, AttemptEnds(k) PROVE CheckoutInv'
<1>1. /\ k \in running /\ running' = running \ {k} /\ waiting' = [waiting EXCEPT ![k] = <<>>]
      /\ UNCHANGED <<able, shift, window, rung, minted>>
  BY DEF AttemptEnds
<1>2. /\ AttemptTypes /\ WindowTypes /\ QueueTypes /\ OneAtATime /\ window \in Window
      /\ attempt \in [Key -> Attempt] /\ attempt[k].state \in {"claimed", "abandoned"}
  BY <1>1 DEF CheckoutInv, CallsInv, WindowTypes, AttemptTypes
<1>3. PICK state \in {"claimed", "abandoned", "committed", "rejected"},
           says \in {"claimed", "committed", "rejected", "error"} :
        /\ attempt' = [attempt EXCEPT ![k].state = state]
        /\ answers' = answers \o [i \in DOMAIN waiting[k] |-> To(waiting[k][i], says)]
        /\ mishaps' = mishaps \/ \E kind \in Mishaps : Mishap(kind)
        /\ \/ state = attempt[k].state /\ says \in {"claimed", "error"}
           \/ attempt[k].state = "claimed" /\ state = "committed" /\ says = "committed"
           \/ state \in {"rejected", "abandoned"} /\ says = "rejected"
                /\ (attempt[k].state = "claimed" \/ state = attempt[k].state)
           \/ state = attempt[k].state /\ "unrecorded" \in mishaps'
  <2> DEFINE EndsAs(state, says) ==
        /\ attempt' = [attempt EXCEPT ![k].state = state]
        /\ answers' = answers \o [i \in DOMAIN waiting[k] |-> To(waiting[k][i], says)]
      claimed == attempt[k].state = "claimed"
  <2>1. \/ EndsAs(attempt[k].state, "claimed") /\ UNCHANGED mishaps
        \/ MaySell(k) /\ EndsAs("committed", "committed") /\ UNCHANGED mishaps
        \/ claimed /\ able /\ Mishap("reject") /\ EndsAs("rejected", "rejected")
        \/ ~claimed /\ EndsAs(attempt[k].state, "rejected") /\ UNCHANGED mishaps
        \/ Mishap("disk") /\ EndsAs(attempt[k].state, "error")
        \/ claimed /\ able /\ Mishap("unrecorded") /\ EndsAs("claimed", "rejected")
    BY DEF AttemptEnds
  <2>2. \A kind : Mishap(kind) => kind \in Mishaps /\ kind \in mishaps'
    BY DEF Mishap
  <2> HIDE DEF EndsAs
  <2>3. \/ /\ EndsAs(attempt[k].state, "claimed") \/ EndsAs(attempt[k].state, "error")
           /\ mishaps' = mishaps \/ \E kind \in Mishaps : Mishap(kind)
        \/ claimed /\ EndsAs("committed", "committed") /\ UNCHANGED mishaps
        \/ claimed /\ EndsAs("rejected", "rejected") /\ \E kind \in Mishaps : Mishap(kind)
        \/ ~claimed /\ EndsAs(attempt[k].state, "rejected") /\ UNCHANGED mishaps
        \/ /\ claimed /\ EndsAs("claimed", "rejected") /\ \E kind \in Mishaps : Mishap(kind)
           /\ "unrecorded" \in mishaps'
    BY <2>1, <2>2 DEF MaySell
  <2> USE DEF EndsAs
  <2>4. CASE /\ EndsAs(attempt[k].state, "claimed") \/ EndsAs(attempt[k].state, "error")
             /\ mishaps' = mishaps \/ \E kind \in Mishaps : Mishap(kind)
    BY <1>2, <2>4
  <2>5. CASE claimed /\ EndsAs("committed", "committed") /\ UNCHANGED mishaps
    BY <2>5
  <2>6. CASE claimed /\ EndsAs("rejected", "rejected") /\ \E kind \in Mishaps : Mishap(kind)
    BY <2>6
  <2>7. CASE ~claimed /\ EndsAs(attempt[k].state, "rejected") /\ UNCHANGED mishaps
    BY <1>2, <2>7
  <2>8. CASE /\ claimed /\ EndsAs("claimed", "rejected") /\ \E kind \in Mishaps : Mishap(kind)
             /\ "unrecorded" \in mishaps'
    BY <2>8
  <2> HIDE DEF EndsAs, claimed
  <2> QED
    BY <2>3, <2>4, <2>5, <2>6, <2>7, <2>8
<1>4. QueueTypes' /\ OneAtATime'
  BY <1>1, <1>3, EndsWell DEF Saying, Sold
<1>5. /\ attempt' \in [Key -> Attempt] /\ attempt'[k].state = state
      /\ \A j \in Key : /\ attempt'[j].items = attempt[j].items
                        /\ j # k => attempt'[j].state = attempt[j].state
  BY <1>2, <1>3 DEF Attempt, Sold
<1>6. AttemptTypes'
  <2>1. /\ mishaps' \subseteq Mishaps /\ Cardinality(mishaps') <= MaxMishaps
        /\ mishaps \subseteq mishaps'
    BY <1>2, <1>3, MishapStep
  <2>2. \A j \in Key : /\ Begun(attempt', j) => Begun(attempt, j)
                       /\ j \in running' => j \in running /\ attempt'[j].state = attempt[j].state
    BY <1>1, <1>2, <1>5 DEF Begun
  <2> QED
    BY <1>1, <1>2, <1>5, <2>1, <2>2 DEF AttemptTypes
<1>7. WindowTypes'
  BY <1>1, <1>2, <1>3, WindowMoves DEF WindowTypes
<1>8. ASSUME Informed'
      PROVE  AllTold' /\ Knows(attempt', window') /\ Custody' /\ LiveOnce' /\ OnItsWay'
  <2>1. Informed /\ AllTold /\ Knows(attempt, window) /\ Custody /\ LiveOnce /\ OnItsWay
    BY <1>2, <1>3, <1>8, MishapStep DEF CheckoutInv, TruthInv
  <2>2. \/ state = attempt[k].state /\ says \in {"claimed", "error"}
        \/ attempt[k].state = "claimed" /\ state = "committed" /\ says = "committed"
        \/ state \in {"rejected", "abandoned"} /\ says = "rejected"
    BY <1>3, <1>8 DEF Informed
  <2>3. /\ attempt[k].state \notin Sold /\ Begun(attempt, k) /\ Begun(attempt', k)
        /\ state \in Live => attempt[k].state \in Live
    BY <1>2, <1>3, <1>5, <2>2 DEF Begun, Live, Sold
  <2>4. MoveOf(attempt, attempt')
    BY <1>5, <2>3 DEF MoveOf, Begun
  <2>5. \A j \in Key : Shared(attempt', window', j) => Shared(attempt, window, j)
    BY <1>1, <2>4 DEF Shared, MoveOf
  <2>6. Custody' /\ Keeps(attempt, attempt', window, window')
    BY <1>1, <1>5, <2>1, <2>5 DEF Custody, Holds, Keeps
  <2>7. LiveOnce'
    BY <2>1, <2>4 DEF LiveOnce, MoveOf
  <2>8. Knows(attempt', window')
    BY <1>1, <2>1, <2>4 DEF Knows, MoveOf, Begun
  <2> DEFINE n == Len(answers)
             q == waiting[k]
  <2>9. /\ n \in Nat /\ Len(q) \in Nat /\ Len(answers') = n + Len(q)
        /\ \A i \in 1 .. n : answers'[i] = answers[i]
        /\ \A p \in 1 .. Len(q) : /\ answers'[n + p].call = q[p] /\ answers'[n + p].says = says
                                  /\ q[p].kind \in Completing /\ q[p].key = k
    <3>1. says \in Saying
      BY DEF Saying, Sold
    <3>2. /\ Len(answers') = n + Len(q)
          /\ \A i \in 1 .. n : answers'[i] = answers[i]
          /\ \A p \in 1 .. Len(q) : answers'[n + p] = To(q[p], says)
      BY <1>2, <1>3, <3>1, CallsAnswered
    <3>3. \A p \in 1 .. Len(q) : q[p].kind \in Completing /\ q[p].key = k
      BY <1>2 DEF QueueTypes
    <3>4. n \in Nat /\ Len(q) \in Nat
      <4>1. q \in Seq(Call) /\ answers \in Seq(Message)
        BY <1>2 DEF QueueTypes
      <4> QED
        BY <4>1
    <3>5. \A c, s : To(c, s).call = c /\ To(c, s).says = s
      BY DEF To
    <3> HIDE DEF n, q
    <3> QED
      BY <3>2, <3>3, <3>4, <3>5
  <2>10. \A i \in 1 .. Len(answers') : i \in 1 .. n \/ (i - n \in 1 .. Len(q) /\ n + (i - n) = i)
    BY <2>9
  <2> HIDE DEF n, q
  <2>11. AllTold'
    <3> SUFFICES ASSUME NEW i \in 1 .. Len(answers')
                 PROVE  ToldTrue(attempt', window', answers'[i])
      BY DEF AllTold
    <3>1. CASE i \in 1 .. n
      <4>1. answers[i] \in Message /\ ToldTrue(attempt, window, answers[i]) /\ answers'[i] = answers[i]
        BY <1>2, <2>1, <2>9, <3>1 DEF QueueTypes, AllTold, n
      <4> QED
        BY <2>4, <2>6, <4>1, ToldStays
    <3>2. CASE i - n \in 1 .. Len(q) /\ n + (i - n) = i
      <4>1. /\ answers'[i].call.kind \in Completing /\ answers'[i].call.key = k
            /\ answers'[i].says = says
        BY <2>9, <3>2
      <4>2. CASE says \in {"claimed", "error"}
        BY <2>3, <4>1, <4>2 DEF ToldTrue
      <4>3. CASE says = "committed"
        <5>1. attempt'[k].state \in Sold
          BY <1>5, <2>2, <4>3 DEF Sold
        <5> QED
          BY <2>3, <4>1, <4>3, <5>1 DEF ToldTrue, Completing, Sold
      <4>4. CASE says = "rejected"
        <5>1. attempt'[k].state \notin Live
          BY <1>5, <2>2, <4>4 DEF Live, Sold
        <5> QED
          BY <2>3, <4>1, <4>4, <5>1 DEF ToldTrue, Completing
      <4> QED
        BY <4>2, <4>3, <4>4
    <3> QED
      BY <2>10, <3>1, <3>2
  <2>12. ASSUME NEW j \in Key, Shared(attempt', window', j), j \in running'
         PROVE  AwaitedCalls(j)'
    <3>1. j # k /\ j \in running /\ waiting'[j] = waiting[j]
      BY <1>1, <1>2, <2>12 DEF QueueTypes
    <3>2. AwaitedCalls(j)
      BY <2>1, <2>5, <2>12, <3>1 DEF OnItsWay
    <3> QED
      BY <1>1, <3>1, <3>2 DEF AwaitedCalls
  <2>13. ASSUME NEW j \in Key, Shared(attempt', window', j), attempt'[j].state \in Sold
         PROVE  Announced(j)'
    <3>1. Shared(attempt, window, j)
      BY <2>5, <2>13
    <3>2. CASE attempt[j].state \in Sold
      <4>1. PICK i \in 1 .. n :
              /\ Delivers(window, answers[i], j)
              /\ \A h \in 1 .. i : ~Forgets(answers[h], j)
        BY <2>1, <3>1, <3>2 DEF OnItsWay, Announced, n
      <4>2. i \in 1 .. Len(answers') /\ \A h \in 1 .. i : h \in 1 .. n
        BY <2>9
      <4>3. \A h \in 1 .. i : answers'[h] = answers[h]
        BY <2>9, <4>2
      <4>4. answers'[i] = answers[i]
        BY <2>9
      <4> QED
        BY <1>1, <4>1, <4>2, <4>3, <4>4 DEF Announced
    <3>3. CASE attempt[j].state \notin Sold
      <4>1. j = k /\ says = "committed"
        <5>1. j = k
          BY <1>5, <2>13, <3>3
        <5> QED
          BY <1>5, <2>2, <2>3, <2>13, <5>1 DEF Sold
      <4>2. PICK p \in 1 .. Len(q) : q[p].draft = window.draft
        BY <1>1, <2>1, <3>1, <4>1 DEF OnItsWay, AwaitedCalls, q
      <4>3. n + p \in 1 .. Len(answers')
        BY <2>9
      <4>4. Delivers(window', answers'[n + p], j)
        BY <1>1, <2>9, <4>1, <4>2 DEF Delivers
      <4>5. ASSUME NEW h \in 1 .. n + p PROVE ~Forgets(answers'[h], j)
        <5>1. h \in 1 .. Len(answers')
          BY <2>9, <4>5
        <5>2. CASE h \in 1 .. n
          <6>1. answers'[h] = answers[h] /\ ToldTrue(attempt, window, answers[h])
            BY <2>1, <2>9, <5>2 DEF AllTold, n
          <6> QED
            BY <3>3, <6>1 DEF Forgets, ToldTrue, Sold
        <5>3. CASE h - n \in 1 .. Len(q) /\ n + (h - n) = h
          <6>1. answers'[h].call.kind \in Completing
            BY <2>9, <5>3
          <6> QED
            BY <6>1 DEF Forgets, Completing
        <5> QED
          BY <2>10, <5>1, <5>2, <5>3
      <4> QED
        BY <4>3, <4>4, <4>5 DEF Announced
    <3> QED
      BY <3>2, <3>3
  <2>14. OnItsWay'
    BY <2>12, <2>13 DEF OnItsWay
  <2> QED
    BY <2>6, <2>7, <2>8, <2>11, <2>14
<1> QED
  BY <1>4, <1>6, <1>7, <1>8 DEF CheckoutInv, CallsInv, TruthInv

(* A press of the pay button: nothing else of the draft is under way, and  *)
(* lines it shows that an attempt holds are this very attempt's.           *)
LEMMA PressCompleteFinds ==
  ASSUME CheckoutInv, NEW k, k = (IF window.key = NoKey THEN minted + 1 ELSE window.key),
         PressComplete
  PROVE  /\ k \in Key /\ k <= minted' /\ minted' \in 0 .. MaxKeys /\ minted <= minted'
         /\ \A x : ~(Ours(window, x) /\ Suits(window, x))
         /\ Informed => \A j \in Key : Shared(attempt, window, j) =>
              j = k /\ window.cart = attempt[k].items
         /\ window' \in Window /\ window'.draft = window.draft /\ window'.shift = window.shift
         /\ window'.cart = window.cart /\ window'.key = k /\ window'.state = "in-flight"
         /\ window'.active /\ window'.asking = "no" /\ window'.asked = window.asked
         /\ window'.blocking = window.blocking /\ window'.results = window.results
         /\ window'.outcome \notin Sold
<1>1. /\ ~window.active /\ window.asking = "no" /\ window.outcome \notin Sold /\ k <= MaxKeys
      /\ minted' = IF k > minted THEN k ELSE minted
      /\ window' = [window EXCEPT !.key = k, !.state = "in-flight", !.active = TRUE,
                                  !.pending = TRUE]
  BY DEF PressComplete
<1>2. window \in Window /\ minted \in 0 .. MaxKeys /\ window.key <= minted
  BY DEF CheckoutInv, CallsInv, WindowTypes, AttemptTypes
<1>3. window.key \in Key \cup {NoKey}
  BY <1>2 DEF Window
<1>4. k \in Key
  BY <1>1, <1>2, <1>3, CheckoutAssumption DEF Key
<1>5. k <= minted' /\ minted' \in 0 .. MaxKeys /\ minted <= minted'
  BY <1>1, <1>2, <1>4, CheckoutAssumption DEF Key
<1>6. \A x : ~(Ours(window, x) /\ Suits(window, x))
  BY <1>1 DEF Ours, Suits, Single
<1>7. ASSUME Informed, NEW j \in Key, Shared(attempt, window, j)
      PROVE  j = k /\ window.cart = attempt[k].items
  <2>1. Holds(window, j) /\ window.cart = attempt[j].items
    BY <1>7 DEF CheckoutInv, TruthInv, Custody
  <2>2. j # NoKey
    BY CheckoutAssumption DEF Key, NoKey
  <2> QED
    BY <2>1, <2>2 DEF Holds
<1>8. /\ window' \in Window /\ window'.draft = window.draft /\ window'.shift = window.shift
      /\ window'.cart = window.cart /\ window'.key = k /\ window'.state = "in-flight"
      /\ window'.active /\ window'.asking = window.asking /\ window'.asked = window.asked
      /\ window'.blocking = window.blocking /\ window'.results = window.results
      /\ window'.outcome = window.outcome
  BY <1>1, <1>2, <1>4 DEF Window
<1> QED
  BY <1>1, <1>4, <1>5, <1>6, <1>7, <1>8

(* What the handler does, a new claim apart.                               *)
LEMMA CompleteAsks ==
  ASSUME CheckoutInv, NEW k \in Key, NEW c \in Call, c.kind = "complete", c.key = k,
         c.draft = window.draft, NEW w, w.draft = window.draft, w.cart = window.cart,
         Informed => \A j \in Key : Shared(attempt, window, j) =>
              j = k /\ window.cart = attempt[k].items,
         CompleteHandled(c, window.cart)
  PROVE  \/ \E new, more :
              /\ Asks(c, 0, new, more) /\ attempt' = attempt
              /\ mishaps' = mishaps \/ \E kind \in Mishaps : Mishap(kind)
              /\ Informed => \A m \in new : ToldTrue(attempt, w, m)
         \/ /\ attempt[k].state = "none"
            /\ attempt' = [attempt EXCEPT ![k] =
                             [state |-> "claimed", items |-> window.cart, shift |-> shift]]
            /\ running' = running \cup {k} /\ Awaits(c, answers) /\ mishaps' = mishaps
<1> DEFINE AskedAnew == \E new, more :
                      /\ Asks(c, 0, new, more) /\ attempt' = attempt
                      /\ mishaps' = mishaps \/ \E kind \in Mishaps : Mishap(kind)
                      /\ Informed => \A m \in new : ToldTrue(attempt, w, m)
<1>1. AttemptTypes /\ QueueTypes
  BY DEF CheckoutInv, CallsInv
<1>2. ASSUME Begun(attempt, k), RetryHandled(c, answers), attempt' = attempt, mishaps' = mishaps
      PROVE  AskedAnew
  <2>1. PICK new, more :
           /\ Asks(c, 0, new, more)
           /\ Informed /\ Begun(attempt, c.key) => \A m \in new : \A v : ToldTrue(attempt, v, m)
    BY <1>1, <1>2, RetryAsks DEF Completing
  <2> QED
    BY <1>2, <2>1
<1>3. ASSUME NEW m \in Message, m.call = c, answers' = Append(answers, m), waiting' = waiting,
             running' = running, attempt' = attempt,
             mishaps' = mishaps \/ \E kind \in Mishaps : Mishap(kind),
             Informed => ToldTrue(attempt, w, m)
      PROVE  AskedAnew
  <2>1. Grown(0, {m}) /\ Len(answers') = Len(answers) - 0 + 1 /\ Joined({})
    BY <1>1, <1>3, OneMoreAnswer, NoneJoin
  <2>2. Len(answers') <= Len(answers) - 0 + 1
    BY <1>1, <2>1 DEF QueueTypes
  <2>3. Asks(c, 0, {m}, {})
    BY <1>3, <2>1, <2>2 DEF Asks, OneAdded, Runs
  <2> QED
    BY <1>3, <2>3
<1> HIDE DEF AskedAnew
<1>4. \A says \in Saying : /\ To(c, says) \in Message /\ To(c, says).call = c
                           /\ To(c, says).says = says
  BY Reply
<1>5. Informed => able
  BY <1>1 DEF AttemptTypes, Informed
<1>6. CASE k \in running /\ RetryHandled(c, answers) /\ UNCHANGED <<attempt, mishaps>>
  <2>1. Begun(attempt, k)
    BY <1>1, <1>6 DEF AttemptTypes, Begun
  <2> QED
    BY <1>2, <1>6, <2>1 DEF AskedAnew
<1>7. CASE k \notin running /\ ExistingHandled(c, window.cart)
  <2>1. Begun(attempt, k) /\ attempt' = attempt /\ mishaps' = mishaps
    BY <1>7 DEF ExistingHandled, Begun
  <2>2. CASE RetryHandled(c, answers)
    BY <1>2, <2>1, <2>2 DEF AskedAnew
  <2>3. CASE /\ attempt[k].items # window.cart /\ Replies(c, "conflict", answers)
             /\ UNCHANGED running
    <3> DEFINE m == To(c, "conflict")
    <3>1. m \in Message /\ m.call = c /\ m.says = "conflict"
      BY <1>4 DEF Saying
    <3>2. answers' = Append(answers, m) /\ waiting' = waiting
      BY <2>3 DEF Replies
    <3> HIDE DEF m
    <3>3. ASSUME Informed PROVE ToldTrue(attempt, w, m)
      <4>1. ~Shared(attempt, window, k)
        BY <2>3, <3>3
      <4>2. ~Shared(attempt, w, k)
        BY <4>1 DEF Shared
      <4> QED
        BY <2>1, <3>1, <4>2 DEF ToldTrue
    <3> QED
      BY <1>3, <2>1, <2>3, <3>1, <3>2, <3>3 DEF AskedAnew
  <2> QED
    BY <1>7, <2>2, <2>3 DEF ExistingHandled
<1>8. CASE NewHandled(c, window.cart)
  <2>1. able /\ ~Begun(attempt, k) /\ attempt[k].state = "none"
    BY <1>8 DEF NewHandled, Begun
  <2>2. CASE /\ TheBlocking # NoKey /\ waiting' = waiting
             /\ answers' = Append(answers, [To(c, "blocked") EXCEPT !.blocking = TheBlocking])
             /\ UNCHANGED <<attempt, running, mishaps>>
    <3> DEFINE m == [To(c, "blocked") EXCEPT !.blocking = TheBlocking]
    <3>1. m = [call |-> c, says |-> "blocked", blocking |-> TheBlocking, results |-> {}]
      BY DEF To
    <3>2. answers' = Append(answers, m)
      BY <2>2
    <3> HIDE DEF m
    <3>3. m \in Message /\ m.call = c /\ m.says = "blocked" /\ m.blocking = TheBlocking
      BY <3>1, TheBlockingIs DEF Message, Saying
    <3>4. Begun(attempt, TheBlocking)
      BY <2>2, TheBlockingIs DEF Begun
    <3>5. ToldTrue(attempt, w, m)
      BY <2>1, <3>3, <3>4 DEF ToldTrue
    <3> QED
      BY <1>3, <2>2, <3>2, <3>3, <3>5 DEF AskedAnew
  <2>3. CASE /\ Mishap("refuse") /\ Replies(c, "refused", answers)
             /\ UNCHANGED <<attempt, running>>
    <3> DEFINE m == To(c, "refused")
    <3>1. m \in Message /\ m.call = c /\ m.says = "refused"
      BY <1>4 DEF Saying
    <3>2. answers' = Append(answers, m) /\ waiting' = waiting
      BY <2>3 DEF Replies
    <3> HIDE DEF m
    <3>3. ToldTrue(attempt, w, m)
      BY <2>1, <3>1 DEF ToldTrue
    <3>4. \E kind \in Mishaps : Mishap(kind)
      BY <2>3 DEF Mishap
    <3> QED
      BY <1>3, <2>3, <3>1, <3>2, <3>3, <3>4 DEF AskedAnew
  <2>4. CASE /\ attempt' = [attempt EXCEPT ![c.key] =
                              [state |-> "claimed", items |-> window.cart, shift |-> shift]]
             /\ running' = running \cup {c.key} /\ Awaits(c, answers) /\ UNCHANGED mishaps
    BY <2>1, <2>4
  <2> QED
    BY <1>8, <2>2, <2>3, <2>4 DEF NewHandled, AskedAnew
<1>9. CASE ~able /\ Replies(c, "refused", answers) /\ UNCHANGED <<attempt, running, mishaps>>
  <2>1. To(c, "refused") \in Message /\ To(c, "refused").call = c
    BY <1>4 DEF Saying
  <2> QED
    BY <1>3, <1>5, <1>9, <2>1 DEF Replies, AskedAnew
<1> QED
  BY <1>6, <1>7, <1>8, <1>9 DEF CompleteHandled, AskedAnew

(* A new claim: no answer on its way is about it.                          *)
LEMMA ToldOfOthers ==
  ASSUME NEW a, NEW b, NEW w, NEW v, NEW m, ToldTrue(a, w, m), ~Ours(w, m.call), v.draft = w.draft,
         \A j : Begun(a, j) => Begun(b, j) /\ b[j] = a[j] /\ ~Shared(b, v, j)
  PROVE  ToldTrue(b, v, m)
<1>1. CASE m.call.kind = "complete" /\ m.says \in {"blocked", "refused"}
  <2>1. m.call.draft # v.draft
    BY <1>1 DEF Ours, Single
  <2>2. m.says = "blocked" => Begun(b, m.blocking)
    BY <1>1 DEF ToldTrue, Sold
  <2> QED
    BY <1>1, <2>1, <2>2 DEF ToldTrue
<1>2. CASE m.call.kind = "complete" /\ m.says = "conflict"
  BY <1>2 DEF ToldTrue, Sold
<1>3. CASE ~(m.call.kind = "complete" /\ m.says \in {"blocked", "refused", "conflict"})
  <2> DEFINE k == m.call.key
  <2>1. Begun(a, k) => Begun(b, k) /\ b[k].state = a[k].state
    OBVIOUS
  <2>2. \A j : Begun(a, j) => Begun(b, j)
    OBVIOUS
  <2> QED
    BY <1>3, <2>1, <2>2 DEF ToldTrue
<1> QED
  BY <1>1, <1>2, <1>3

LEMMA ClaimKeeps ==
  ASSUME CheckoutInv, NEW k \in Key, NEW c \in Call, c.kind = "complete", c.key = k,
         c.draft = window.draft, Addressed(window, c), WindowTypes',
         k <= minted', minted' \in 0 .. MaxKeys, minted <= minted',
         UNCHANGED <<able, shift, rung, mishaps>>,
         \A x : ~(Ours(window, x) /\ Suits(window, x)),
         Informed => \A j \in Key : Shared(attempt, window, j) =>
              j = k /\ window.cart = attempt[k].items,
         window'.draft = window.draft, window'.cart = window.cart, window'.key = k,
         window'.state = "in-flight", window'.active, window'.asking = "no",
         Informed => Knows(attempt, window'),
         attempt[k].state = "none",
         attempt' = [attempt EXCEPT ![k] =
                       [state |-> "claimed", items |-> window.cart, shift |-> shift]],
         running' = running \cup {k}, Awaits(c, answers)
  PROVE  CheckoutInv'
<1>1. /\ AttemptTypes /\ WindowTypes /\ QueueTypes /\ OneAtATime /\ window \in Window
      /\ attempt \in [Key -> Attempt]
  BY DEF CheckoutInv, CallsInv, WindowTypes, AttemptTypes
<1>2. /\ attempt' \in [Key -> Attempt] /\ attempt'[k].state = "claimed"
      /\ attempt'[k].items = window.cart
      /\ \A j \in Key : j # k => attempt'[j] = attempt[j]
  <2>1. window.cart \in SUBSET Item /\ shift \in 0 .. MaxShifts
    BY <1>1 DEF Window, AttemptTypes
  <2> DEFINE r == [state |-> "claimed", items |-> window.cart, shift |-> shift]
  <2>2. r \in Attempt /\ r.state = "claimed" /\ r.items = window.cart
    BY <2>1 DEF Attempt
  <2>3. attempt' = [attempt EXCEPT ![k] = r]
    OBVIOUS
  <2> HIDE DEF r
  <2> QED
    BY <1>1, <2>2, <2>3
<1>3. AttemptTypes'
  <2>1. \A j \in Key : Begun(attempt', j) => j <= minted'
    <3>1. minted \in Nat /\ minted' \in Nat /\ \A j \in Key : j \in Nat
      BY <1>1, CheckoutAssumption DEF AttemptTypes, Key
    <3>2. \A j \in Key : Begun(attempt, j) => j <= minted
      BY <1>1 DEF AttemptTypes
    <3> QED
      BY <1>2, <3>1, <3>2 DEF Begun
  <2>2. \A j \in Key : j \in running' => attempt'[j].state \in {"claimed", "abandoned"}
    BY <1>1, <1>2 DEF AttemptTypes
  <2>3. \A j \in Key : \A i \in attempt'[j].items : i <= rung'
    BY <1>1, <1>2 DEF AttemptTypes, WindowTypes
  <2>4. running' \subseteq Key
    BY <1>1 DEF AttemptTypes
  <2> QED
    BY <1>1, <1>2, <2>1, <2>2, <2>3, <2>4 DEF AttemptTypes
<1>4. /\ answers' = answers /\ waiting' = [waiting EXCEPT ![c.key] = Append(@, c)]
      /\ running' = running \cup {c.key}
  BY DEF Awaits
<1>5. /\ Grown(0, {}) /\ Joined({c}) /\ Len(waiting'[k]) = Len(waiting[k]) + 1
      /\ \A j \in Key : j # k => waiting'[j] = waiting[j]
  BY <1>1, <1>4, SameAnswers, OneJoins
<1>6. Addressed(window', c)
  BY DEF Addressed
<1>7. QueueTypes'
  <2>1. window.draft \in Nat /\ window'.draft \in Nat /\ window'.draft >= window.draft
    BY <1>1, CheckoutAssumption DEF Window
  <2> QED
    BY <1>1, <1>5, <1>6, <2>1, QueueGrows DEF Completing
<1>8. OneAtATime'
  <2>1. /\ \A i \in 1 .. Len(answers) : i > 0 => ~Ours(window, answers[i].call)
        /\ \A j \in Key : \A p \in 1 .. Len(waiting[j]) : ~Ours(window, waiting[j][p])
    BY <1>1 DEF OneAtATime
  <2>2. Suits(window', c)
    BY DEF Suits
  <2>3. Len(answers') = Len(answers) - 0
    BY <1>1, <1>4 DEF QueueTypes
  <2> QED
    BY <1>1, <1>5, <2>1, <2>2, <2>3, OneStarts
<1>9. ASSUME Informed'
      PROVE  AllTold' /\ Knows(attempt', window') /\ Custody' /\ LiveOnce' /\ OnItsWay'
  <2>1. Informed /\ AllTold /\ Knows(attempt, window') /\ LiveOnce
    BY <1>9 DEF Informed, CheckoutInv, TruthInv
  <2>2. \A j : Begun(attempt, j) => j # k /\ j \in Key /\ Begun(attempt', j) /\ attempt'[j] = attempt[j]
    BY <1>2 DEF Begun
  <2>3. \A j \in Key : ~Shared(attempt, window, j)
    BY <2>1 DEF Shared, Live, Sold
  <2>4. \A j \in Key : Shared(attempt', window', j) => j = k
    BY <1>2, <2>3 DEF Shared
  <2>5. AllTold'
    <3> SUFFICES ASSUME NEW i \in 1 .. Len(answers)
                 PROVE  ToldTrue(attempt', window', answers[i])
      BY <1>4 DEF AllTold
    <3>1. ToldTrue(attempt, window, answers[i]) /\ ~Ours(window, answers[i].call)
      BY <1>1, <2>1 DEF AllTold, OneAtATime
    <3>2. \A j : Begun(attempt, j) =>
            /\ Begun(attempt', j) /\ attempt'[j] = attempt[j]
            /\ ~Shared(attempt', window', j)
      BY <2>2, <2>4
    <3>3. window'.draft = window.draft
      OBVIOUS
    <3> QED
      BY <3>1, <3>2, <3>3, ToldOfOthers
  <2>6. Knows(attempt', window')
    BY <2>1, <2>2 DEF Knows
  <2>7. Custody'
    BY <1>2, <2>4 DEF Custody, Holds
  <2>8. LiveOnce'
    <3> SUFFICES ASSUME NEW i \in Key, NEW j \in Key, i # j,
                        attempt'[i].state \in Live, attempt'[j].state \in Live
                 PROVE  attempt'[i].items \cap attempt'[j].items = {}
      BY DEF LiveOnce
    <3>1. CASE i = k
      BY <1>2, <2>3, <3>1 DEF Shared
    <3>2. CASE j = k
      BY <1>2, <2>3, <3>2 DEF Shared
    <3>3. CASE i # k /\ j # k
      BY <1>2, <2>1, <3>3 DEF LiveOnce
    <3> QED
      BY <3>1, <3>2, <3>3
  <2>9. OnItsWay'
    <3>1. AwaitedCalls(k)'
      <4>1. waiting[k] \in Seq(Call)
        BY <1>1 DEF QueueTypes
      <4>2. waiting'[k] = Append(waiting[k], c)
        BY <1>1, <1>4 DEF QueueTypes
      <4>3. Len(waiting[k]) + 1 \in 1 .. Len(waiting'[k]) /\ waiting'[k][Len(waiting[k]) + 1] = c
        BY <4>1, <4>2
      <4> QED
        BY <4>3 DEF AwaitedCalls
    <3>2. attempt'[k].state \notin Sold
      BY <1>2 DEF Sold
    <3> QED
      BY <2>4, <3>1, <3>2 DEF OnItsWay
  <2> QED
    BY <2>5, <2>6, <2>7, <2>8, <2>9
<1> QED
  BY <1>3, <1>7, <1>8, <1>9 DEF CheckoutInv, CallsInv, TruthInv

LEMMA PressCompleteKeeps == ASSUME CheckoutInv, PressComplete PROVE CheckoutInv'
<1> DEFINE k == IF window.key = NoKey THEN minted + 1 ELSE window.key
           c == CallOf("complete", k)
<1>1. CompleteHandled(c, window.cart) /\ UNCHANGED <<able, shift, rung>>
  BY DEF PressComplete
<1>2. AttemptTypes /\ WindowTypes /\ QueueTypes /\ OneAtATime /\ window \in Window
  BY DEF CheckoutInv, CallsInv, WindowTypes
<1>3. /\ k \in Key /\ k <= minted' /\ minted' \in 0 .. MaxKeys /\ minted <= minted'
      /\ \A x : ~(Ours(window, x) /\ Suits(window, x))
      /\ Informed => \A j \in Key : Shared(attempt, window, j) =>
           j = k /\ window.cart = attempt[k].items
      /\ window' \in Window /\ window'.draft = window.draft /\ window'.shift = window.shift
      /\ window'.cart = window.cart /\ window'.key = k /\ window'.state = "in-flight"
      /\ window'.active /\ window'.asking = "no" /\ window'.asked = window.asked
      /\ window'.blocking = window.blocking /\ window'.results = window.results
      /\ window'.outcome \notin Sold
  BY PressCompleteFinds
<1>4. /\ c \in Call /\ c.kind = "complete" /\ c.key = k /\ c.draft = window.draft
      /\ \A v : v.draft = window.draft => Addressed(v, c)
  BY <1>2, <1>3, CallIs
<1> HIDE DEF k, c
<1>5. Informed => Knows(attempt, window')
  BY <1>3 DEF CheckoutInv, TruthInv, Knows
<1>6. ASSUME mishaps' = mishaps \/ \E kind \in Mishaps : Mishap(kind)
      PROVE  WindowTypes'
  <2>1. /\ Cardinality(mishaps) \in Nat /\ Cardinality(mishaps') \in Nat
        /\ Cardinality(mishaps) <= Cardinality(mishaps')
    BY <1>2, <1>6, MishapStep
  <2>2. window.draft \in Nat /\ window.shift \in Nat
    BY <1>2, CheckoutAssumption DEF Window
  <2> QED
    BY <1>1, <1>2, <1>3, <2>1, <2>2 DEF WindowTypes
<1>7. CASE /\ attempt[k].state = "none"
           /\ attempt' = [attempt EXCEPT ![k] =
                            [state |-> "claimed", items |-> window.cart, shift |-> shift]]
           /\ running' = running \cup {k} /\ Awaits(c, answers) /\ mishaps' = mishaps
  <2>1. WindowTypes' /\ Addressed(window, c)
    BY <1>4, <1>6, <1>7
  <2>2. UNCHANGED <<able, shift, rung, mishaps>>
    BY <1>1, <1>7
  <2> QED
    BY <1>3, <1>4, <1>5, <1>7, <2>1, <2>2, ClaimKeeps
<1>8. ASSUME NEW new, NEW more, Asks(c, 0, new, more), attempt' = attempt,
             mishaps' = mishaps \/ \E kind \in Mishaps : Mishap(kind),
             Informed => \A m \in new : ToldTrue(attempt, window', m)
      PROVE  CheckoutInv'
  <2>1. WindowTypes'
    BY <1>6, <1>8
  <2>2. Grown(0, new) /\ Joined(more) /\ OneAdded(0) /\ Runs(k)
    BY <1>4, <1>8 DEF Asks
  <2>3. AttemptTypes'
    <3>1. running' \subseteq Key /\ \A j \in running' : attempt[j].state \in {"claimed", "abandoned"}
      BY <1>2, <1>3, <2>2 DEF Runs, AttemptTypes
    <3>2. mishaps' \subseteq Mishaps /\ Cardinality(mishaps') <= MaxMishaps /\ mishaps \subseteq mishaps'
      BY <1>2, <1>8, MishapStep
    <3>3. \A j \in Key : Begun(attempt, j) => j <= minted'
      <4>1. minted \in Nat /\ minted' \in Nat /\ \A j \in Key : j \in Nat
        BY <1>2, <1>3, CheckoutAssumption DEF AttemptTypes, Key
      <4>2. \A j \in Key : Begun(attempt, j) => j <= minted
        BY <1>2 DEF AttemptTypes
      <4> QED
        BY <1>3, <4>1, <4>2
    <3> QED
      BY <1>1, <1>2, <1>3, <1>8, <3>1, <3>2, <3>3 DEF AttemptTypes
  <2>4. OneAtATime'
    <3>1. /\ \A i \in 1 .. Len(answers) : i > 0 => ~Ours(window, answers[i].call)
          /\ \A j \in Key : \A p \in 1 .. Len(waiting[j]) : ~Ours(window, waiting[j][p])
      BY <1>2, <1>3 DEF OneAtATime
    <3>2. Suits(window', c)
      BY <1>3, <1>4 DEF Suits
    <3>3. (\A m \in new : Suits(window', m.call)) /\ (\A x \in more : Suits(window', x))
      BY <1>8, <3>2 DEF Asks
    <3> QED
      BY <1>2, <1>3, <2>2, <3>1, <3>3, OneStarts DEF OneAdded
  <2>5. ASSUME Informed'
        PROVE  /\ Settle(attempt, attempt') /\ Keeps(attempt, attempt', window, window')
               /\ (\A m \in new : ToldTrue(attempt', window', m)) /\ Knows(attempt', window')
    <3>1. Informed
      BY <1>2, <1>8, <2>5, MishapStep
    <3>2. Settle(attempt, attempt')
      BY <1>8 DEF Settle
    <3>3. \A j \in Key : Shared(attempt', window', j) =>
            Shared(attempt, window, j) /\ Holds(window', j)
      BY <1>3, <1>8, <3>1 DEF Shared, Holds
    <3>4. Keeps(attempt, attempt', window, window')
      BY <1>3, <3>3 DEF Keeps
    <3> QED
      BY <1>5, <1>8, <3>1, <3>2, <3>4
  <2>6. /\ \A m \in new : Addressed(window', m.call)
        /\ \A x \in more : /\ x.kind \in Completing /\ Addressed(window', x)
                           /\ x.draft = window.draft
    BY <1>3, <1>4, <1>8 DEF Asks, Completing
  <2>7. window'.draft = window.draft
    BY <1>3
  <2> QED
    BY <1>8, <2>1, <2>2, <2>3, <2>4, <2>5, <2>6, <2>7, CheckoutStepKeeps
<1> QED
  BY <1>1, <1>3, <1>4, <1>7, <1>8, CompleteAsks

-----------------------------------------------------------------------------
(* The theorems.                                                           *)

LEMMA CheckoutBegins == CheckoutInit => CheckoutInv
<1> SUFFICES ASSUME CheckoutInit PROVE CheckoutInv
  OBVIOUS
<1>1. /\ attempt = [k \in Key |-> [state |-> "none", items |-> {}, shift |-> 0]]
      /\ running = {} /\ able = TRUE /\ shift = 1 /\ waiting = [k \in Key |-> <<>>]
      /\ answers = <<>> /\ window = Fresh(1, 1) /\ rung = 0 /\ minted = 0 /\ mishaps = {}
  BY DEF CheckoutInit
<1>2. 1 \in 1 .. MaxShifts /\ 1 \in 1 .. MaxShifts + MaxMishaps /\ 0 \in 0 .. MaxShifts
  BY CheckoutAssumption
<1>3. /\ window \in Window /\ window.draft = 1 /\ window.shift = 1 /\ window.cart = {}
      /\ window.key = NoKey /\ window.asking = "no" /\ \A a : Knows(a, window)
  BY <1>1, <1>2, FreshWindow
<1>4. \A k \in Key : attempt[k].state = "none" /\ attempt[k].items = {}
  BY <1>1
<1>5. AttemptTypes
  <2>1. attempt \in [Key -> Attempt]
    BY <1>1, <1>2 DEF Attempt
  <2>2. Cardinality(mishaps) = 0
    BY <1>1, FS_EmptySet
  <2> QED
    BY <1>1, <1>2, <1>4, <2>1, <2>2, CheckoutAssumption DEF AttemptTypes, Begun
<1>6. WindowTypes
  <2>1. Cardinality(mishaps) = 0
    BY <1>1, FS_EmptySet
  <2> QED
    BY <1>1, <1>3, <2>1 DEF WindowTypes, NoKey
<1>7. \A k \in Key : waiting[k] = <<>> /\ Len(waiting[k]) = 0
  BY <1>1
<1>8. QueueTypes /\ OneAtATime
  <2>1. Len(answers) = 0 /\ answers \in Seq(Message) /\ waiting \in [Key -> Seq(Call)]
    BY <1>1
  <2> QED
    BY <1>7, <2>1 DEF QueueTypes, OneAtATime
<1>9. TruthInv
  <2>1. Len(answers) = 0 /\ \A k \in Key : attempt[k].state \notin Live
    BY <1>1, <1>4 DEF Live, Sold
  <2> QED
    BY <1>3, <2>1 DEF TruthInv, AllTold, Custody, LiveOnce, OnItsWay, Shared
<1> QED
  BY <1>5, <1>6, <1>8, <1>9 DEF CheckoutInv, CallsInv

LEMMA CheckoutSteps == CheckoutInv /\ [CheckoutNext]_checkoutVars => CheckoutInv'
<1> SUFFICES ASSUME CheckoutInv, [CheckoutNext]_checkoutVars PROVE CheckoutInv'
  OBVIOUS
<1>1. CASE RingUp
  BY <1>1, RingUpKeeps
<1>2. CASE \E items \in SUBSET Item : Remove(items)
  BY <1>2, RemoveKeeps
<1>3. CASE PressComplete
  BY <1>3, PressCompleteKeeps
<1>4. CASE PressRetry
  BY <1>4, PressRetryKeeps
<1>5. CASE PressAbandon
  BY <1>5, PressAbandonKeeps
<1>6. CASE \E k \in Key : PressAcknowledge(k)
  BY <1>6, PressAcknowledgeKeeps
<1>7. CASE \E k \in Key : AttemptEnds(k)
  BY <1>7, AttemptEndsKeeps
<1>8. CASE TakeAnswer
  BY <1>8, TakeAnswerKeeps
<1>9. CASE AskAgain
  BY <1>9, AskAgainKeeps
<1>10. CASE StopAsking
  BY <1>10, StopAskingKeeps
<1>11. CASE ShiftMoves \/ ContextFails \/ ContextReturns \/ ReturnToPage
  BY <1>11, AroundKeeps
<1>12. CASE WindowSeesShift \/ ReloadWindow
  BY <1>12, RestartKeeps
<1>13. CASE LoseAnswer
  BY <1>13, LossKeeps
<1>14. CASE UNCHANGED checkoutVars
  <2>1. /\ UNCHANGED <<attempt, running, able, shift, waiting, answers, window>>
        /\ UNCHANGED <<rung, minted, mishaps>>
    BY <1>14 DEF checkoutVars
  <2>2. CallsInv'
    BY <2>1 DEF CheckoutInv, CallsInv, AttemptTypes, WindowTypes, QueueTypes, OneAtATime
  <2>3. TruthInv'
    BY <2>1 DEF CheckoutInv, TruthInv, Informed, AllTold, Custody, LiveOnce, OnItsWay, AwaitedCalls,
                Announced
  <2> QED
    BY <2>2, <2>3 DEF CheckoutInv
<1> QED
  BY <1>1, <1>2, <1>3, <1>4, <1>5, <1>6, <1>7, <1>8, <1>9, <1>10, <1>11, <1>12, <1>13, <1>14
  DEF CheckoutNext

(* The inductive invariant: calls come one at a time, and while the window *)
(* is told the truth, lines in custody are shown by their own draft, which *)
(* is locked until the answer that empties it is taken.                    *)
THEOREM CheckoutInvariant == CheckoutSpec => []CheckoutInv
<1> QED
  BY CheckoutBegins, CheckoutSteps, PTL DEF CheckoutSpec

(* Attempts, calls, answers and the draft keep their types.                *)
THEOREM CheckoutTypes == CheckoutSpec => []CheckoutTypeOK
<1>1. CheckoutInv => CheckoutTypeOK
  BY DEF CheckoutInv, CallsInv, AttemptTypes, WindowTypes, QueueTypes, CheckoutTypeOK
<1> QED
  BY <1>1, CheckoutInvariant, PTL

(* SaleCompletion and the payment store: no line is in two sales, whatever *)
(* the cashier pressed and whatever was answered late.                     *)
THEOREM SoldOnceOnly == CheckoutSpec => []SoldOnce
<1>1. CheckoutInv => SoldOnce
  BY DEF CheckoutInv, TruthInv, SoldOnce, LiveOnce, Live
<1> QED
  BY <1>1, CheckoutInvariant, PTL

(* attemptProtected: a cart whose lines a claimed attempt holds is locked, *)
(* and shows exactly those lines.                                          *)
THEOREM CartStaysFrozen == CheckoutSpec => []CartFrozen
<1>1. CheckoutInv => CartFrozen
  <2> SUFFICES ASSUME CheckoutInv, Informed, NEW k \in Key, attempt[k].state = "claimed",
                      attempt[k].items \cap window.cart # {}
               PROVE  Protected(window) /\ window.cart = attempt[k].items
    BY DEF CartFrozen
  <2>1. Holds(window, k) /\ window.cart = attempt[k].items
    BY DEF CheckoutInv, TruthInv, Custody, Shared, Live
  <2>2. k # NoKey
    BY CheckoutAssumption DEF Key, NoKey
  <2> QED
    BY <2>1, <2>2 DEF Holds, Protected
<1> QED
  BY <1>1, CheckoutInvariant, PTL
===============================================================================
