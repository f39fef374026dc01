------------------------ MODULE CatalogInstallProofs ------------------------
(***************************************************************************)
(* Proofs about CatalogInstall, for any number of revisions, holds, drafts *)
(* and troubles: the types, that no valid catalog is replaced under a      *)
(* payment, and that what is sold was read from the catalog installed.     *)
(***************************************************************************)
EXTENDS CatalogInstall, TLAPS

-----------------------------------------------------------------------------
(* The invariant: types, in parts.                                         *)

GateTypes ==
  /\ registry \in Report /\ context \in 0 .. MaxDraft /\ calls \in Seq(0 .. MaxDraft)
  /\ active \in Ask /\ fetched \in 0 .. MaxRevision
  /\ holds \in Seq(HoldOutcome) /\ Len(holds) <= MaxHolds
  /\ \A id \in 1 .. Len(holds) : (holds[id].state = "requested") <=> (Asking /\ id = Asked)
  /\ Asking => Len(holds) > 0

BookTypes ==
  /\ installed \in Revision /\ expired \in BOOLEAN
  /\ claim \in 0 .. MaxRevision /\ completing \in BOOLEAN

DraftTypes ==
  /\ generation \in 1 .. MaxDraft /\ lines \in SUBSET Line
  /\ panel \in BOOLEAN /\ known \in Known /\ pending \in BOOLEAN
  /\ view \in 0 .. MaxRevision /\ changed \in BOOLEAN
  /\ item \in 0 .. MaxRevision /\ preview \in Preview \cup {NoPreview}

ClientTypes ==
  /\ armed \in 0 .. MaxHolds /\ flag \in BOOLEAN /\ applying \in SUBSET (1 .. MaxHolds)
  /\ reading \in 0 .. MaxRevision /\ refreshing \in BOOLEAN

WireTypes ==
  up \in Seq(Upward) /\ down \in Seq(Downward) /\ trouble \in 0 .. MaxTrouble

(* A hold of the stale path is asked for only once the catalog expired.    *)
PathIsTrue == active.path = "stale" => expired

(* What is about to be written is no older than what is installed.         *)
FetchedIsNew == Asking => installed <= fetched

(* The window knows of nothing newer than what is installed.               *)
NothingNewer ==
  /\ view <= installed /\ reading <= installed /\ item <= installed
  /\ preview # NoPreview => preview.under <= preview.read /\ preview.read <= installed

(* A line was read under its contract or a later one; without a flag its   *)
(* contract is the window's.                                               *)
ReadUnder(l) == l.stamp <= l.read /\ l.read <= installed
LinesAreRead == \A l \in lines : ReadUnder(l) /\ (~changed => l.stamp = view)

(* The same of an intent on its way: what stands in it was not flagged, or *)
(* it says so.                                                             *)
SentIsRead ==
  \A i \in 1 .. Len(up) : up[i].kind = "complete" =>
    \A l \in up[i].lines : ReadUnder(l) /\ (up[i].flagged \/ l.stamp = up[i].revision)

TypesInv   == GateTypes /\ BookTypes /\ DraftTypes /\ ClientTypes /\ WireTypes
InstallInv ==
  /\ TypesInv /\ PathIsTrue /\ FetchedIsNew /\ NothingNewer /\ LinesAreRead /\ SentIsRead

LEMMA TypesInvIsType == TypesInv => InstallTypeOK
  BY DEF TypesInv, GateTypes, BookTypes, DraftTypes, ClientTypes, WireTypes, InstallTypeOK

LEMMA InstallInvInit == InstallInit => InstallInv
<1>. SUFFICES ASSUME InstallInit PROVE InstallInv OBVIOUS
<1>. USE DEF InstallInit
<1>0. /\ 0 \in 0 .. MaxRevision /\ 1 \in 0 .. MaxRevision /\ 1 \in 1 .. MaxRevision
      /\ 0 \in 0 .. MaxDraft /\ 1 \in 0 .. MaxDraft /\ 1 \in 1 .. MaxDraft
      /\ 0 \in 0 .. MaxHolds /\ 0 \in 0 .. MaxTrouble /\ 0 <= MaxHolds
  BY InstallAssumption
<1>1. GateTypes
  <2>1. registry \in Report BY <1>0 DEF Report, NoReport
  <2>2. active \in Ask /\ ~Asking BY <1>0 DEF Ask, NoAsk, Asking
  <2>3. calls \in Seq(0 .. MaxDraft) /\ holds \in Seq(HoldOutcome) /\ Len(holds) = 0 OBVIOUS
  <2>. QED BY <1>0, <2>1, <2>2, <2>3 DEF GateTypes
<1>2. BookTypes BY <1>0 DEF BookTypes, Revision
<1>3. DraftTypes BY <1>0 DEF DraftTypes, Known
<1>4. ClientTypes BY <1>0 DEF ClientTypes
<1>5. WireTypes BY <1>0 DEF WireTypes
<1>6. PathIsTrue /\ FetchedIsNew /\ NothingNewer
  BY DEF PathIsTrue, FetchedIsNew, NothingNewer, NoAsk, Asking
<1>7. LinesAreRead /\ SentIsRead BY DEF LinesAreRead, SentIsRead
<1>. QED BY <1>1, <1>2, <1>3, <1>4, <1>5, <1>6, <1>7 DEF InstallInv, TypesInv

-----------------------------------------------------------------------------
(* Messages.                                                               *)

LEMMA UpwardMessages ==
  ASSUME NEW m \in Upward
  PROVE  /\ m.kind \in {"report", "reply", "refresh", "complete", "retry"}
         /\ m.kind = "report" => m.draft \in Report
         /\ m.kind = "refresh" => m.consent \in 1 .. MaxDraft
         /\ m.kind = "complete" => m.revision \in Revision /\ m.lines \in SUBSET Line
  BY DEF Upward

LEMMA DownwardMessages ==
  ASSUME NEW m \in Downward
  PROVE  /\ m.kind \in {"hold", "release", "answer"}
         /\ m.kind = "hold" => m.hold \in 1 .. MaxHolds /\ m.ask \in Ask
         /\ m.kind = "release" => m.hold \in 1 .. MaxHolds
         /\ m.kind = "answer" => m.verdict \in Verdict
  BY DEF Downward

LEMMA LineNumbers ==
  ASSUME NEW l \in Line
  PROVE  l.stamp \in Nat \ {0} /\ l.read \in Nat
  BY InstallAssumption DEF Line, Revision

(* The head of a channel, and the rest of it.                              *)
LEMMA Shorter ==
  ASSUME NEW S, NEW s \in Seq(S), s # <<>>
  PROVE  /\ Head(s) \in S /\ Tail(s) \in Seq(S) /\ Head(s) = s[1] /\ 1 \in 1 .. Len(s)
         /\ \A i \in 1 .. Len(Tail(s)) : i + 1 \in 1 .. Len(s) /\ Tail(s)[i] = s[i + 1]
  OBVIOUS

LEMMA LastMember ==
  ASSUME NEW S, NEW s \in Seq(S), s # <<>>
  PROVE  s[Len(s)] \in S
<1>1. Len(s) \in 1 .. Len(s) OBVIOUS
<1>. QED BY <1>1

LEMMA Longer ==
  ASSUME NEW S, NEW s \in Seq(S), NEW m \in S
  PROVE  /\ Append(s, m) \in Seq(S) /\ Len(Append(s, m)) = Len(s) + 1
         /\ \A i \in 1 .. Len(Append(s, m)) :
              (i \in 1 .. Len(s) /\ Append(s, m)[i] = s[i]) \/ (i = Len(s) + 1 /\ Append(s, m)[i] = m)
  OBVIOUS

(* Intents on their way stay as they are when a catalog is installed, a    *)
(* message is taken, or one of another kind is sent.                       *)
LEMMA SentStaysRead ==
  ASSUME InstallInv, installed' \in Revision, installed <= installed',
         \/ up' = up
         \/ up # <<>> /\ up' = Tail(up)
         \/ \E m \in Upward : m.kind # "complete" /\ up' = Append(up, m)
  PROVE  SentIsRead' /\ up' \in Seq(Upward)
<1>1. up \in Seq(Upward) /\ installed \in Nat /\ installed' \in Nat
  BY InstallAssumption DEF InstallInv, TypesInv, WireTypes, BookTypes, Revision
<1>2. \A l \in Line : ReadUnder(l) => ReadUnder(l)'
  BY <1>1, LineNumbers DEF ReadUnder
<1>3. up' \in Seq(Upward)
  <2>1. CASE up' = up BY <1>1, <2>1
  <2>2. CASE up # <<>> /\ up' = Tail(up) BY <1>1, <2>2, Shorter
  <2>3. CASE \E m \in Upward : m.kind # "complete" /\ up' = Append(up, m) BY <1>1, <2>3, Longer
  <2>. QED BY <2>1, <2>2, <2>3
<1>4. \A i \in 1 .. Len(up') :
        up'[i].kind = "complete" => \E j \in 1 .. Len(up) : up'[i] = up[j]
  <2>1. CASE up' = up BY <2>1
  <2>2. CASE up # <<>> /\ up' = Tail(up) BY <1>1, <2>2, Shorter
  <2>3. CASE \E m \in Upward : m.kind # "complete" /\ up' = Append(up, m)
    <3>1. PICK m \in Upward : m.kind # "complete" /\ up' = Append(up, m) BY <2>3
    <3>. QED BY <1>1, <3>1, Longer
  <2>. QED BY <2>1, <2>2, <2>3
<1>5. SentIsRead'
  <2>. SUFFICES ASSUME NEW i \in 1 .. Len(up'), up'[i].kind = "complete", NEW l \in up'[i].lines
                PROVE  ReadUnder(l)' /\ (up'[i].flagged \/ l.stamp = up'[i].revision)
    BY DEF SentIsRead
  <2>1. PICK j \in 1 .. Len(up) : up'[i] = up[j] BY <1>4
  <2>2. up[j] \in Upward BY <1>1, <2>1
  <2>3. l \in Line BY <2>1, <2>2, UpwardMessages
  <2>4. ReadUnder(l) /\ (up[j].flagged \/ l.stamp = up[j].revision) BY <2>1 DEF InstallInv, SentIsRead
  <2>. QED BY <1>2, <2>1, <2>3, <2>4
<1>. QED BY <1>3, <1>5

-----------------------------------------------------------------------------
(* What stands when a step leaves it alone.                                *)

LEMMA GateStands ==
  ASSUME InstallInv, UNCHANGED <<gate, books>>
  PROVE  GateTypes' /\ BookTypes' /\ PathIsTrue' /\ FetchedIsNew'
<1>. USE DEF InstallInv, TypesInv, gate, books
<1>1. GateTypes' BY DEF GateTypes, Asking, Asked
<1>2. BookTypes' BY DEF BookTypes
<1>3. PathIsTrue' /\ FetchedIsNew' BY DEF PathIsTrue, FetchedIsNew, Asking
<1>. QED BY <1>1, <1>2, <1>3

LEMMA WindowStands ==
  ASSUME InstallInv, UNCHANGED draft, UNCHANGED <<armed, flag, applying, reading>>,
         refreshing' \in BOOLEAN, installed' \in Revision, installed <= installed'
  PROVE  DraftTypes' /\ ClientTypes' /\ NothingNewer' /\ LinesAreRead'
<1>. USE DEF InstallInv, TypesInv, draft
<1>1. DraftTypes' BY DEF DraftTypes
<1>2. ClientTypes' BY DEF ClientTypes
<1>3. /\ installed \in Nat /\ installed' \in Nat /\ view \in Nat /\ reading \in Nat /\ item \in Nat
      /\ preview # NoPreview => preview.under \in Nat /\ preview.read \in Nat
  BY InstallAssumption DEF BookTypes, DraftTypes, ClientTypes, Revision, Preview
<1>4. NothingNewer' BY <1>3 DEF NothingNewer
<1>5. LinesAreRead'
  <2>. SUFFICES ASSUME NEW l \in lines PROVE ReadUnder(l)' /\ (~changed => l.stamp = view)
    BY DEF LinesAreRead
  <2>1. l \in Line /\ ReadUnder(l) /\ (~changed => l.stamp = view)
    BY DEF LinesAreRead, DraftTypes
  <2>. QED BY <1>3, <2>1, LineNumbers DEF ReadUnder
<1>. QED BY <1>1, <1>2, <1>4, <1>5

-----------------------------------------------------------------------------
(* Main: the hold asked for is settled.                                    *)

LEMMA HoldSettles ==
  ASSUME InstallInv, Asking, UNCHANGED <<registry, context, calls>>,
         Abort(Asked) \/ Persist(Asked) \/ PersistFails(Asked)
  PROVE  /\ GateTypes' /\ BookTypes' /\ PathIsTrue' /\ FetchedIsNew'
         /\ down' \in Seq(Downward) /\ installed <= installed'
<1>. USE DEF InstallInv, TypesInv
<1>1. /\ holds \in Seq(HoldOutcome) /\ Len(holds) \in Nat /\ Len(holds) <= MaxHolds
      /\ Asked \in 1 .. Len(holds) /\ Asked \in 1 .. MaxHolds
      /\ fetched \in Revision /\ installed <= fetched /\ installed \in Revision
  BY InstallAssumption DEF GateTypes, BookTypes, FetchedIsNew, Asked, Revision
<1>2. down' \in Seq(Downward)
  <2>1. [kind |-> "release", hold |-> Asked] \in Downward BY <1>1 DEF Downward
  <2>2. down' = Append(down, [kind |-> "release", hold |-> Asked])
    BY DEF Abort, Persist, PersistFails
  <2>. QED BY <2>1, <2>2 DEF WireTypes
<1>3. /\ holds' \in Seq(HoldOutcome) /\ Len(holds') = Len(holds)
      /\ holds'[Asked].state # "requested"
      /\ \A id \in 1 .. Len(holds) : id # Asked => holds'[id] = holds[id]
  <2>1. holds[Asked] \in HoldOutcome BY <1>1
  <2>2. PICK h \in HoldOutcome : h.state # "requested" /\ holds' = [holds EXCEPT ![Asked] = h]
    <3>1. CASE Abort(Asked) \/ PersistFails(Asked)
      <4>1. [holds[Asked] EXCEPT !.state = "aborted"] \in HoldOutcome BY <2>1 DEF HoldOutcome
      <4>2. [holds[Asked] EXCEPT !.state = "aborted"].state # "requested" BY <2>1 DEF HoldOutcome
      <4>3. holds' = [holds EXCEPT ![Asked] = [holds[Asked] EXCEPT !.state = "aborted"]]
        BY <1>1, <3>1 DEF Abort, PersistFails
      <4>. QED BY <4>1, <4>2, <4>3
    <3>2. CASE Persist(Asked)
      <4>. DEFINE h == [state |-> "installed", revision |-> fetched]
      <4>1. h \in HoldOutcome BY <1>1 DEF HoldOutcome, Revision
      <4>2. holds' = [holds EXCEPT ![Asked] = h] BY <1>1, <2>1, <3>2 DEF Persist, HoldOutcome
      <4>. QED BY <4>1, <4>2
    <3>. QED BY <3>1, <3>2
  <2>. QED BY <1>1, <2>2
<1>4. active' = NoAsk /\ fetched' = 0 /\ ~Asking' BY DEF Abort, Persist, PersistFails, Asking
<1>5. GateTypes'
  <2>1. NoAsk \in Ask /\ 0 \in 0 .. MaxRevision BY InstallAssumption DEF Ask, NoAsk
  <2>2. \A id \in 1 .. Len(holds') : holds'[id].state # "requested"
    BY <1>1, <1>3 DEF GateTypes, Asked
  <2>. QED BY <1>1, <1>3, <1>4, <2>1, <2>2 DEF GateTypes
<1>6. BookTypes' /\ installed <= installed'
  <2>1. CASE Abort(Asked) \/ PersistFails(Asked)
    BY <1>1, <2>1 DEF Abort, PersistFails, books, BookTypes, Revision
  <2>2. CASE Persist(Asked)
    <3>1. installed' = fetched /\ expired' = FALSE /\ completing' = completing
      BY <2>2 DEF Persist
    <3>2. claim' \in {0, claim} BY <2>2 DEF Persist, SettleSuperseded
    <3>3. 0 \in 0 .. MaxRevision BY InstallAssumption
    <3>4. BookTypes' BY <1>1, <3>1, <3>2, <3>3 DEF BookTypes
    <3>. QED BY <1>1, <3>1, <3>4
  <2>. QED BY <2>1, <2>2
<1>7. PathIsTrue' BY <1>4 DEF PathIsTrue, NoAsk
<1>8. FetchedIsNew' BY <1>4 DEF FetchedIsNew
<1>. QED BY <1>2, <1>5, <1>6, <1>7, <1>8

(* The three ways to settle it.                                            *)
LEMMA SettlingKeepsInv ==
  ASSUME InstallInv, ReplyArrives \/ ReplyLate \/ ReplyNeverComes
  PROVE  InstallInv'
<1>. DEFINE Settles == Asking /\ (Abort(Asked) \/ Persist(Asked) \/ PersistFails(Asked))
<1>1. Settles \/ UNCHANGED <<active, fetched, holds, books, down>>
  BY DEF ReplyArrives, ReplyLate, ReplyNeverComes, Decide, GiveUp
<1>2. UNCHANGED <<registry, context, calls, draft, client>>
  BY DEF ReplyArrives, ReplyLate, ReplyNeverComes
<1>3. up' = up \/ (up # <<>> /\ up' = Tail(up))
  BY DEF ReplyArrives, ReplyLate, ReplyNeverComes
<1>4. trouble' \in 0 .. MaxTrouble
  <2>1. trouble \in 0 .. MaxTrouble BY DEF InstallInv, TypesInv, WireTypes
  <2>2. trouble' = trouble \/ (trouble < MaxTrouble /\ trouble' = trouble + 1)
    BY DEF ReplyArrives, ReplyLate, ReplyNeverComes, Decide, PersistFails
  <2>. QED BY <2>1, <2>2, InstallAssumption
<1>5. /\ GateTypes' /\ BookTypes' /\ PathIsTrue' /\ FetchedIsNew'
      /\ down' \in Seq(Downward) /\ installed <= installed'
  <2>1. CASE Settles BY <1>2, <2>1, HoldSettles
  <2>2. CASE UNCHANGED <<active, fetched, holds, books, down>>
    <3>1. UNCHANGED <<gate, books>> BY <1>2, <2>2 DEF gate
    <3>2. installed <= installed' /\ down' \in Seq(Downward)
      BY <2>2, InstallAssumption DEF books, InstallInv, TypesInv, BookTypes, WireTypes, Revision
    <3>. QED BY <3>1, <3>2, GateStands
  <2>. QED BY <1>1, <2>1, <2>2
<1>6. installed' \in Revision BY <1>5 DEF BookTypes
<1>7. DraftTypes' /\ ClientTypes' /\ NothingNewer' /\ LinesAreRead'
  BY <1>2, <1>5, <1>6, WindowStands DEF client, InstallInv, TypesInv, ClientTypes
<1>8. SentIsRead' /\ up' \in Seq(Upward) BY <1>3, <1>5, <1>6, SentStaysRead
<1>9. WireTypes' BY <1>4, <1>5, <1>8 DEF WireTypes
<1>. QED BY <1>5, <1>7, <1>8, <1>9 DEF InstallInv, TypesInv

-----------------------------------------------------------------------------
(* Main: the other steps.                                                  *)

(* A step of main that installs nothing.                                   *)
LEMMA MainKeepsInv ==
  ASSUME InstallInv, GateTypes', BookTypes', PathIsTrue', FetchedIsNew',
         UNCHANGED <<installed, draft, armed, flag, applying, reading, trouble>>,
         refreshing' \in BOOLEAN, up' = up \/ (up # <<>> /\ up' = Tail(up)),
         down' \in Seq(Downward)
  PROVE  InstallInv'
<1>1. installed' \in Revision /\ installed <= installed'
  BY InstallAssumption DEF BookTypes, Revision
<1>2. DraftTypes' /\ ClientTypes' /\ NothingNewer' /\ LinesAreRead' BY <1>1, WindowStands
<1>3. SentIsRead' /\ up' \in Seq(Upward) BY <1>1, SentStaysRead
<1>4. WireTypes' BY <1>3 DEF WireTypes, InstallInv, TypesInv
<1>. QED BY <1>2, <1>3, <1>4 DEF InstallInv, TypesInv

LEMMA ReportArrivesKeepsInv ==
  ASSUME InstallInv, ReportArrives
  PROVE  InstallInv'
<1>. USE DEF InstallInv, TypesInv
<1>1. registry' \in Report
  BY Shorter, UpwardMessages DEF ReportArrives, WireTypes
<1>2. /\ UNCHANGED <<context, calls, active, fetched, holds, books, draft, client, down, trouble>>
      /\ up # <<>> /\ up' = Tail(up)
  BY DEF ReportArrives
<1>3. GateTypes' BY <1>1, <1>2 DEF GateTypes, Asking, Asked
<1>4. BookTypes' /\ PathIsTrue' /\ FetchedIsNew'
  BY <1>2 DEF BookTypes, books, PathIsTrue, FetchedIsNew, Asking
<1>5. refreshing' \in BOOLEAN /\ down' \in Seq(Downward)
  BY <1>2 DEF client, ClientTypes, WireTypes
<1>. QED BY <1>2, <1>3, <1>4, <1>5, MainKeepsInv DEF client, books

(* What an answer adds to the channel.                                     *)
LEMMA AnswersAreTyped ==
  ASSUME InstallInv, NEW rest, NEW ruling \in Verdict, Answer(rest, ruling)
  PROVE  down' \in Seq(Downward)
<1>1. [kind |-> "answer", verdict |-> ruling] \in Downward BY DEF Downward
<1>. QED BY <1>1 DEF Answer, InstallInv, TypesInv, WireTypes

LEMMA CompleteArrivesKeepsInv ==
  ASSUME InstallInv, CompleteArrives
  PROVE  InstallInv'
<1>. USE DEF InstallInv, TypesInv
<1>1. /\ UNCHANGED <<installed, expired, gate, draft, client, trouble>>
      /\ up # <<>> /\ up' = Tail(up)
  BY DEF CompleteArrives
<1>2. Head(up) \in Upward /\ Head(up).kind = "complete"
  BY Shorter DEF CompleteArrives, WireTypes
<1>3. Head(up).revision \in 0 .. MaxRevision
  BY <1>2, UpwardMessages, InstallAssumption DEF Revision
<1>4. claim' \in 0 .. MaxRevision /\ completing' \in BOOLEAN
  BY <1>3 DEF CompleteArrives, NewClaim, RefuseClaim, BookTypes
<1>5. down' \in Seq(Downward)
  <2>1. CASE NewClaim(Head(up)) BY <2>1 DEF NewClaim, WireTypes
  <2>2. CASE RefuseClaim(Head(up)) BY <2>2, AnswersAreTyped DEF RefuseClaim, Verdict
  <2>. QED BY <2>1, <2>2 DEF CompleteArrives
<1>6. BookTypes' BY <1>1, <1>4 DEF BookTypes
<1>7. GateTypes' BY <1>1 DEF gate, GateTypes, Asking, Asked
<1>8. PathIsTrue' /\ FetchedIsNew' BY <1>1 DEF gate, PathIsTrue, FetchedIsNew, Asking
<1>9. refreshing' \in BOOLEAN BY <1>1 DEF client, ClientTypes
<1>. QED BY <1>1, <1>5, <1>6, <1>7, <1>8, <1>9, MainKeepsInv DEF client

LEMMA RetryArrivesKeepsInv ==
  ASSUME InstallInv, RetryArrives
  PROVE  InstallInv'
<1>. USE DEF InstallInv, TypesInv
<1>1. /\ UNCHANGED <<installed, expired, claim, gate, draft, client, trouble>>
      /\ up # <<>> /\ up' = Tail(up) /\ completing' \in BOOLEAN
  BY DEF RetryArrives
<1>2. down' \in Seq(Downward)
  <2>1. CASE claim # 0 BY <2>1 DEF RetryArrives, WireTypes
  <2>2. CASE claim = 0
    <3>1. PICK ruling \in {"committed", "refused"} : Answer(Tail(up), ruling)
      BY <2>2 DEF RetryArrives
    <3>. QED BY <3>1, AnswersAreTyped DEF Verdict
  <2>. QED BY <2>1, <2>2
<1>3. BookTypes' BY <1>1 DEF BookTypes
<1>4. GateTypes' BY <1>1 DEF gate, GateTypes, Asking, Asked
<1>5. PathIsTrue' /\ FetchedIsNew' BY <1>1 DEF gate, PathIsTrue, FetchedIsNew, Asking
<1>6. refreshing' \in BOOLEAN BY <1>1 DEF client, ClientTypes
<1>. QED BY <1>1, <1>2, <1>3, <1>4, <1>5, <1>6, MainKeepsInv DEF client

LEMMA CompletionEndsKeepsInv ==
  ASSUME InstallInv, CompletionEnds
  PROVE  InstallInv'
<1>. USE DEF InstallInv, TypesInv
<1>1. /\ UNCHANGED <<installed, expired, gate, draft, client, up, trouble>>
      /\ completing' = FALSE /\ claim' \in {0, claim}
  BY DEF CompletionEnds
<1>2. down' \in Seq(Downward) BY AnswersAreTyped DEF CompletionEnds, Verdict
<1>3. BookTypes'
  <2>1. claim' \in 0 .. MaxRevision BY <1>1, InstallAssumption DEF BookTypes
  <2>2. completing' \in BOOLEAN BY <1>1
  <2>. QED BY <1>1, <2>1, <2>2 DEF BookTypes
<1>4. GateTypes' BY <1>1 DEF gate, GateTypes, Asking, Asked
<1>5. PathIsTrue' /\ FetchedIsNew' BY <1>1 DEF gate, PathIsTrue, FetchedIsNew, Asking
<1>6. refreshing' \in BOOLEAN BY <1>1 DEF client, ClientTypes
<1>. QED BY <1>1, <1>2, <1>3, <1>4, <1>5, <1>6, MainKeepsInv DEF client

LEMMA RefreshArrivesKeepsInv ==
  ASSUME InstallInv, RefreshArrives
  PROVE  InstallInv'
<1>. USE DEF InstallInv, TypesInv
<1>1. /\ UNCHANGED <<registry, active, fetched, holds, books, draft, armed, flag, applying,
                     reading, down, trouble>>
      /\ up # <<>> /\ up' = Tail(up)
  BY DEF RefreshArrives
<1>2. Head(up) \in Upward /\ Head(up).kind = "refresh"
  BY Shorter DEF RefreshArrives, WireTypes
<1>3. Head(up).consent \in 0 .. MaxDraft
  BY <1>2, UpwardMessages, InstallAssumption
<1>4. context' \in 0 .. MaxDraft /\ calls' \in Seq(0 .. MaxDraft) /\ refreshing' \in BOOLEAN
  <2>1. CASE PaymentActive
    BY <2>1 DEF RefreshArrives, GateTypes
  <2>2. CASE ~PaymentActive
    <3>1. context' = Head(up).consent /\ calls' = Append(calls, context) /\ refreshing' = refreshing
      BY <2>2 DEF RefreshArrives
    <3>. QED BY <1>3, <3>1 DEF GateTypes, ClientTypes
  <2>. QED BY <2>1, <2>2
<1>5. GateTypes' BY <1>1, <1>4 DEF GateTypes, Asking, Asked
<1>6. BookTypes' /\ PathIsTrue' /\ FetchedIsNew'
  BY <1>1 DEF BookTypes, books, PathIsTrue, FetchedIsNew, Asking
<1>7. down' \in Seq(Downward) BY <1>1 DEF WireTypes
<1>. QED BY <1>1, <1>4, <1>5, <1>6, <1>7, MainKeepsInv DEF books

LEMMA RefreshReturnsKeepsInv ==
  ASSUME InstallInv, RefreshReturns
  PROVE  InstallInv'
<1>. USE DEF InstallInv, TypesInv
<1>1. /\ UNCHANGED <<registry, active, fetched, holds, books, draft, armed, flag, applying,
                     reading, up, down, trouble>>
      /\ calls # <<>> /\ context' = calls[Len(calls)] /\ calls' = <<>> /\ refreshing' \in BOOLEAN
  BY DEF RefreshReturns
<1>2. context' \in 0 .. MaxDraft /\ calls' \in Seq(0 .. MaxDraft)
  <2>1. calls \in Seq(0 .. MaxDraft) BY DEF GateTypes
  <2>2. calls[Len(calls)] \in 0 .. MaxDraft BY <1>1, <2>1, LastMember
  <2>. QED BY <1>1, <2>2
<1>3. GateTypes' BY <1>1, <1>2 DEF GateTypes, Asking, Asked
<1>4. BookTypes' /\ PathIsTrue' /\ FetchedIsNew'
  BY <1>1 DEF BookTypes, books, PathIsTrue, FetchedIsNew, Asking
<1>5. down' \in Seq(Downward) BY <1>1 DEF WireTypes
<1>. QED BY <1>1, <1>3, <1>4, <1>5, MainKeepsInv DEF books

LEMMA AcquireKeepsInv ==
  ASSUME InstallInv, Acquire
  PROVE  InstallInv'
<1>. USE DEF InstallInv, TypesInv
<1>. DEFINE h == [state |-> "requested", revision |-> 0]
            m == [kind |-> "hold", hold |-> Len(holds) + 1, ask |-> active']
<1>1. /\ UNCHANGED <<registry, context, calls, books, draft, client, up, trouble>>
      /\ ~Asking /\ Len(holds) < MaxHolds /\ holds' = Append(holds, h)
      /\ fetched' \in installed .. MaxRevision /\ down' = Append(down, m)
  BY DEF Acquire
<1>2. /\ holds \in Seq(HoldOutcome) /\ Len(holds) \in Nat /\ context \in 0 .. MaxDraft
      /\ installed \in Nat \ {0} /\ 0 \in 0 .. MaxDraft /\ h \in HoldOutcome
  BY InstallAssumption DEF GateTypes, BookTypes, Revision, HoldOutcome
<1>3. active' \in Ask /\ active'.path = Path /\ active' # NoAsk /\ Path \in {"stale", "manual", "background"}
  BY <1>2 DEF Acquire, Ask, NoAsk, Path
<1>4. GateTypes'
  <2>1. /\ holds' \in Seq(HoldOutcome) /\ Len(holds') = Len(holds) + 1
        /\ \A id \in 1 .. Len(holds) : holds'[id] = holds[id]
        /\ holds'[Len(holds) + 1] = h
    BY <1>1, <1>2
  <2>2. Len(holds') <= MaxHolds BY <1>1, <1>2, <2>1, InstallAssumption
  <2>3. \A id \in 1 .. Len(holds') : (holds'[id].state = "requested") <=> id = Len(holds')
    BY <1>1, <1>2, <2>1 DEF GateTypes
  <2>4. Asking' /\ Asked' = Len(holds') BY <1>3 DEF Asking, Asked
  <2>5. fetched' \in 0 .. MaxRevision BY <1>1, <1>2, InstallAssumption
  <2>. QED BY <1>1, <1>2, <1>3, <2>1, <2>2, <2>3, <2>4, <2>5 DEF GateTypes
<1>5. m \in Downward
  <2>1. Len(holds) + 1 \in 1 .. MaxHolds BY <1>1, <1>2, InstallAssumption
  <2>. QED BY <1>3, <2>1 DEF Downward
<1>6. down' \in Seq(Downward) BY <1>1, <1>5 DEF WireTypes
<1>7. BookTypes' BY <1>1 DEF BookTypes, books
<1>8. PathIsTrue' BY <1>1, <1>3 DEF PathIsTrue, Path, books
<1>9. FetchedIsNew' BY <1>1, <1>2, InstallAssumption DEF FetchedIsNew, books
<1>10. refreshing' \in BOOLEAN BY <1>1 DEF client, ClientTypes
<1>. QED BY <1>1, <1>4, <1>6, <1>7, <1>8, <1>9, <1>10, MainKeepsInv DEF books, client

LEMMA ExpiresKeepsInv ==
  ASSUME InstallInv, Expires
  PROVE  InstallInv'
<1>. USE DEF InstallInv, TypesInv
<1>1. UNCHANGED <<installed, claim, completing, gate, draft, client, up, down, trouble>>
      /\ expired' = TRUE
  BY DEF Expires
<1>2. GateTypes' BY <1>1 DEF gate, GateTypes, Asking, Asked
<1>3. BookTypes' BY <1>1 DEF BookTypes
<1>4. PathIsTrue' /\ FetchedIsNew' BY <1>1 DEF gate, PathIsTrue, FetchedIsNew, Asking
<1>5. refreshing' \in BOOLEAN /\ down' \in Seq(Downward) BY <1>1 DEF client, ClientTypes, WireTypes
<1>. QED BY <1>1, <1>2, <1>3, <1>4, <1>5, MainKeepsInv DEF client

-----------------------------------------------------------------------------
(* The window.                                                             *)

(* A step of the window changes neither the gate nor the books.            *)
LEMMA WindowKeepsInv ==
  ASSUME InstallInv, UNCHANGED <<gate, books>>,
         DraftTypes', ClientTypes', NothingNewer', LinesAreRead', SentIsRead', WireTypes'
  PROVE  InstallInv'
  BY GateStands DEF InstallInv, TypesInv

(* One that sends nothing of its own but reports, replies and requests.    *)
LEMMA TalkKeepsInv ==
  ASSUME InstallInv, UNCHANGED <<gate, books>>,
         DraftTypes', ClientTypes', NothingNewer', LinesAreRead',
         up' = up \/ \E m \in Upward : m.kind # "complete" /\ up' = Append(up, m),
         down' = down \/ (down # <<>> /\ down' = Tail(down)) \/ down' = <<>>,
         trouble' = trouble \/ (trouble < MaxTrouble /\ trouble' = trouble + 1)
  PROVE  InstallInv'
<1>1. installed' = installed /\ installed \in Revision /\ installed <= installed
  BY InstallAssumption DEF books, InstallInv, TypesInv, BookTypes, Revision
<1>2. SentIsRead' /\ up' \in Seq(Upward) BY <1>1, SentStaysRead
<1>3. down' \in Seq(Downward)
  <2>1. down \in Seq(Downward) BY DEF InstallInv, TypesInv, WireTypes
  <2>2. down # <<>> => Tail(down) \in Seq(Downward) BY <2>1, Shorter
  <2>3. <<>> \in Seq(Downward) OBVIOUS
  <2>. QED BY <2>1, <2>2, <2>3
<1>4. trouble' \in 0 .. MaxTrouble BY InstallAssumption DEF InstallInv, TypesInv, WireTypes
<1>. QED BY <1>2, <1>3, <1>4, WindowKeepsInv DEF WireTypes

(* Telling main of a draft.                                                *)
LEMMA Reporting ==
  ASSUME InstallInv, NEW l \in SUBSET Line, NEW p \in BOOLEAN, NEW a \in Known, Told(l, p, a)
  PROVE  /\ \E m \in Upward : m.kind # "complete" /\ up' = Append(up, m)
         /\ generation' \in 1 .. MaxDraft /\ lines' = l /\ panel' = p /\ known' = a
<1>1. generation \in 1 .. MaxDraft /\ generation < MaxDraft
  BY DEF InstallInv, TypesInv, DraftTypes, Told
<1>2. generation + 1 \in 1 .. MaxDraft /\ generation + 1 \in 0 .. MaxDraft
  BY <1>1, InstallAssumption
<1>. DEFINE d == [generation |-> generation + 1, lines |-> l # {}, paying |-> p \/ a # "none"]
            m == [kind |-> "report", draft |-> d]
<1>3. d \in Report BY <1>2 DEF Report
<1>4. m \in Upward /\ m.kind # "complete" BY <1>3 DEF Upward
<1>5. up' = Append(up, m) BY DEF Told
<1>. HIDE DEF m
<1>. QED BY <1>2, <1>4, <1>5 DEF Told

(* What the window knows, read one by one.                                 *)
LEMMA WindowNumbers ==
  ASSUME InstallInv
  PROVE  /\ installed \in Nat \ {0} /\ installed <= MaxRevision /\ installed \in Revision
         /\ view \in Nat /\ reading \in Nat /\ item \in Nat
         /\ view <= installed /\ reading <= installed /\ item <= installed
         /\ lines \in SUBSET Line /\ generation \in 1 .. MaxDraft
         /\ preview # NoPreview => /\ preview.under \in Revision /\ preview.read \in Revision
                                   /\ preview.under <= preview.read /\ preview.read <= installed
  BY InstallAssumption DEF InstallInv, TypesInv, BookTypes, DraftTypes, ClientTypes, NothingNewer,
     Revision, Preview

(* The draft changes, the window's other knowledge does not.               *)
LEMMA DraftKeepsInv ==
  ASSUME InstallInv, UNCHANGED <<gate, books, client, view>>,
         generation' \in 1 .. MaxDraft, lines' \in SUBSET Line,
         panel' \in BOOLEAN, known' \in Known, pending' \in BOOLEAN, changed' \in BOOLEAN,
         item' \in {0, item, installed}, preview' \in Preview \cup {NoPreview},
         preview' # NoPreview => preview'.under <= preview'.read /\ preview'.read <= installed,
         \A l \in lines' : (l \in lines /\ (changed' \/ ~changed)) \/ (ReadUnder(l) /\ l.stamp = view),
         up' = up \/ \E m \in Upward : m.kind # "complete" /\ up' = Append(up, m),
         down' = down \/ (down # <<>> /\ down' = Tail(down)), trouble' = trouble
  PROVE  InstallInv'
<1>1. DraftTypes'
  <2>1. item' \in 0 .. MaxRevision /\ view' \in 0 .. MaxRevision
    BY WindowNumbers, InstallAssumption DEF InstallInv, TypesInv, DraftTypes
  <2>. QED BY <2>1 DEF DraftTypes
<1>2. ClientTypes' BY DEF client, InstallInv, TypesInv, ClientTypes
<1>3. NothingNewer'
  <2>1. item' <= installed BY WindowNumbers
  <2>. QED BY <2>1, WindowNumbers DEF NothingNewer, client, books
<1>4. LinesAreRead'
  <2>. SUFFICES ASSUME NEW l \in lines' PROVE ReadUnder(l) /\ (~changed' => l.stamp = view)
    BY DEF LinesAreRead, ReadUnder, books
  <2>1. l \in lines => ReadUnder(l) /\ (~changed => l.stamp = view)
    BY DEF InstallInv, LinesAreRead
  <2>. QED BY <2>1
<1>. QED BY <1>1, <1>2, <1>3, <1>4, TalkKeepsInv

-----------------------------------------------------------------------------
(* The cashier.                                                            *)

LEMMA PreviewStands ==
  ASSUME InstallInv, preview' \in {NoPreview, preview}
  PROVE  /\ preview' \in Preview \cup {NoPreview}
         /\ preview' # NoPreview => preview'.under <= preview'.read /\ preview'.read <= installed
  BY WindowNumbers DEF InstallInv, TypesInv, DraftTypes

LEMMA DraftBooleans ==
  ASSUME InstallInv
  PROVE  panel \in BOOLEAN /\ known \in Known /\ pending \in BOOLEAN /\ changed \in BOOLEAN
  BY DEF InstallInv, TypesInv, DraftTypes

LEMMA ReadProductKeepsInv ==
  ASSUME InstallInv, ReadProduct
  PROVE  InstallInv'
<1>1. /\ UNCHANGED <<generation, lines, panel, known, pending, view, changed, preview, gate, books,
                     client, up, down, trouble>>
      /\ item' = installed
  BY DEF ReadProduct
<1>. QED BY <1>1, WindowNumbers, PreviewStands, DraftBooleans, DraftKeepsInv

LEMMA AddProductKeepsInv ==
  ASSUME InstallInv, AddProduct
  PROVE  InstallInv'
<1>1. /\ UNCHANGED <<pending, view, changed, preview, gate, books, client, down, trouble>>
      /\ item' = 0 /\ item # 0
  BY DEF AddProduct
<1>2. CASE Addable
  <2>. DEFINE l == [stamp |-> view, read |-> item]
  <2>1. Told(lines \cup {l}, panel, known) BY <1>2 DEF AddProduct
  <2>2. item = view BY <1>2 DEF Addable
  <2>3. l \in Line /\ l.stamp = view /\ ReadUnder(l)
    BY <1>1, <2>2, WindowNumbers, InstallAssumption DEF Line, Revision, ReadUnder
  <2>. HIDE DEF l
  <2>4. /\ \E m \in Upward : m.kind # "complete" /\ up' = Append(up, m)
        /\ generation' \in 1 .. MaxDraft /\ lines' = lines \cup {l}
        /\ panel' = panel /\ known' = known
    BY <2>1, <2>3, WindowNumbers, DraftBooleans, Reporting
  <2>. QED BY <1>1, <2>3, <2>4, WindowNumbers, PreviewStands, DraftBooleans, DraftKeepsInv
<1>3. CASE ~Addable
  <2>1. UNCHANGED <<generation, lines, panel, known, up>> BY <1>3 DEF AddProduct
  <2>. QED BY <1>1, <2>1, WindowNumbers, PreviewStands, DraftBooleans, DraftKeepsInv
<1>. QED BY <1>2, <1>3

LEMMA ClearDraftKeepsInv ==
  ASSUME InstallInv, ClearDraft
  PROVE  InstallInv'
<1>1. /\ UNCHANGED <<pending, view, item, preview, gate, books, client, down, trouble>>
      /\ Told({}, FALSE, known) /\ changed' = FALSE
  BY DEF ClearDraft
<1>2. /\ \E m \in Upward : m.kind # "complete" /\ up' = Append(up, m)
      /\ generation' \in 1 .. MaxDraft /\ lines' = {} /\ panel' = FALSE
      /\ known' = known
  BY <1>1, DraftBooleans, Reporting
<1>. QED BY <1>1, <1>2, PreviewStands, DraftBooleans, DraftKeepsInv

LEMMA PrepareRebuildKeepsInv ==
  ASSUME InstallInv, PrepareRebuild
  PROVE  InstallInv'
<1>1. /\ UNCHANGED <<generation, lines, panel, known, pending, view, changed, item, gate, books, client,
                     up, down, trouble>>
      /\ preview' = [under |-> view, read |-> installed, of |-> lines] /\ view # 0
  BY DEF PrepareRebuild
<1>2. /\ preview' \in Preview \cup {NoPreview}
      /\ preview'.under <= preview'.read /\ preview'.read <= installed
  BY <1>1, WindowNumbers, InstallAssumption DEF Preview, Revision
<1>. QED BY <1>1, <1>2, WindowNumbers, DraftBooleans, DraftKeepsInv

LEMMA ConfirmRebuildKeepsInv ==
  ASSUME InstallInv, ConfirmRebuild
  PROVE  InstallInv'
<1>1. /\ UNCHANGED <<pending, view, item, gate, books, client, down, trouble>>
      /\ preview # NoPreview /\ preview' = NoPreview
  BY DEF ConfirmRebuild
<1>2. CASE changed /\ ~Locked /\ preview.under = view /\ preview.of = lines
  <2>. DEFINE l == [stamp |-> view, read |-> preview.read]
  <2>1. Told({l}, panel, known) /\ changed' = FALSE BY <1>2 DEF ConfirmRebuild
  <2>2. l \in Line /\ l.stamp = view /\ ReadUnder(l)
    BY <1>1, <1>2, WindowNumbers DEF Line, ReadUnder
  <2>. HIDE DEF l
  <2>3. /\ \E m \in Upward : m.kind # "complete" /\ up' = Append(up, m)
        /\ generation' \in 1 .. MaxDraft /\ lines' = {l} /\ panel' = panel /\ known' = known
    BY <2>1, <2>2, DraftBooleans, Reporting
  <2>. QED BY <1>1, <2>1, <2>2, <2>3, PreviewStands, DraftBooleans, DraftKeepsInv
<1>3. CASE ~(changed /\ ~Locked /\ preview.under = view /\ preview.of = lines)
  <2>1. UNCHANGED <<generation, lines, panel, known, changed, up>> BY <1>3 DEF ConfirmRebuild
  <2>. QED BY <1>1, <2>1, WindowNumbers, PreviewStands, DraftBooleans, DraftKeepsInv
<1>. QED BY <1>2, <1>3

LEMMA PayKeepsInv ==
  ASSUME InstallInv, Pay \/ ClosePanel \/ DiscoverPending
  PROVE  InstallInv'
<1>1. UNCHANGED <<pending, view, changed, item, preview, gate, books, client, down, trouble>>
  BY DEF Pay, ClosePanel, DiscoverPending
<1>2. PICK p \in BOOLEAN, a \in Known : Told(lines, p, a)
  <2>1. CASE Pay BY <2>1, DraftBooleans DEF Pay
  <2>2. CASE ClosePanel
    <3>1. (IF known = "committed" THEN "none" ELSE known) \in Known BY DraftBooleans DEF Known
    <3>. QED BY <2>2, <3>1 DEF ClosePanel
  <2>3. CASE DiscoverPending
    <3>1. (IF claim # 0 THEN "blocking" ELSE "none") \in Known BY DEF Known
    <3>. QED BY <2>3, <3>1, DraftBooleans DEF DiscoverPending
  <2>. QED BY <2>1, <2>2, <2>3
<1>3. /\ \E m \in Upward : m.kind # "complete" /\ up' = Append(up, m)
      /\ generation' \in 1 .. MaxDraft /\ lines' = lines /\ panel' = p /\ known' = a
  BY <1>2, WindowNumbers, Reporting
<1>. QED BY <1>1, <1>3, WindowNumbers, PreviewStands, DraftBooleans, DraftKeepsInv

LEMMA ConclusionsAreTyped ==
  ASSUME NEW ruling \in Verdict
  PROVE  Concluded(ruling) \in Known
  BY DEF Concluded, Verdict, Known

LEMMA AnswerArrivesKeepsInv ==
  ASSUME InstallInv, AnswerArrives
  PROVE  InstallInv'
<1>. DEFINE ruling == Head(down).verdict
            sold    == known = "own" /\ ruling = "committed"
<1>1. /\ UNCHANGED <<view, item, preview, gate, books, client, trouble>>
      /\ pending' = FALSE /\ down # <<>> /\ down' = Tail(down)
      /\ Told(IF sold THEN {} ELSE lines, panel, Concluded(ruling))
      /\ changed' = (changed /\ ~sold)
  BY DEF AnswerArrives
<1>2. ruling \in Verdict
  <2>1. Head(down) \in Downward /\ Head(down).kind = "answer"
    BY Shorter DEF AnswerArrives, InstallInv, TypesInv, WireTypes
  <2>. QED BY <2>1, DownwardMessages
<1>3. Concluded(ruling) \in Known BY <1>2, ConclusionsAreTyped
<1>4. CASE sold
  <2>1. /\ \E m \in Upward : m.kind # "complete" /\ up' = Append(up, m)
        /\ generation' \in 1 .. MaxDraft /\ lines' = {}
        /\ panel' = panel /\ known' = Concluded(ruling)
    BY <1>1, <1>3, <1>4, DraftBooleans, Reporting
  <2>. QED BY <1>1, <1>3, <1>4, <2>1, PreviewStands, DraftBooleans, DraftKeepsInv
<1>5. CASE ~sold
  <2>1. /\ \E m \in Upward : m.kind # "complete" /\ up' = Append(up, m)
        /\ generation' \in 1 .. MaxDraft /\ lines' = lines
        /\ panel' = panel /\ known' = Concluded(ruling)
    BY <1>1, <1>3, <1>5, WindowNumbers, DraftBooleans, Reporting
  <2>. QED BY <1>1, <1>3, <1>5, <2>1, WindowNumbers, PreviewStands, DraftBooleans, DraftKeepsInv
<1>. QED BY <1>4, <1>5

(* An intent says whether its draft was flagged.                           *)
LEMMA CompleteKeepsInv ==
  ASSUME InstallInv, Complete
  PROVE  InstallInv'
<1>. DEFINE m == [kind |-> "complete", revision |-> view, lines |-> lines, flagged |-> changed]
<1>1. /\ UNCHANGED <<generation, lines, panel, view, changed, item, preview, client, gate, books,
                     down, trouble>>
      /\ known' = "own" /\ pending' = TRUE /\ view # 0 /\ up' = Append(up, m)
  BY DEF Complete
<1>2. \A l \in lines : l \in Line /\ ReadUnder(l) /\ (changed \/ l.stamp = view)
  BY <1>1, WindowNumbers DEF InstallInv, LinesAreRead
<1>3. view \in Revision BY <1>1, WindowNumbers, InstallAssumption DEF Revision
<1>4. m \in Upward BY <1>3, WindowNumbers, DraftBooleans DEF Upward
<1>. HIDE DEF m
<1>5. up \in Seq(Upward) BY DEF InstallInv, TypesInv, WireTypes
<1>6. WireTypes' BY <1>1, <1>4, <1>5, Longer DEF InstallInv, TypesInv, WireTypes
<1>7. SentIsRead'
  <2>. SUFFICES ASSUME NEW i \in 1 .. Len(up'), up'[i].kind = "complete", NEW l \in up'[i].lines
                PROVE  ReadUnder(l)' /\ (up'[i].flagged \/ l.stamp = up'[i].revision)
    BY DEF SentIsRead
  <2>1. ReadUnder(l)' <=> ReadUnder(l) BY <1>1 DEF ReadUnder, books
  <2>2. CASE i \in 1 .. Len(up) /\ up'[i] = up[i]
    BY <2>1, <2>2 DEF InstallInv, SentIsRead
  <2>3. CASE up'[i] = m
    BY <1>2, <2>1, <2>3 DEF m
  <2>. QED BY <1>1, <1>4, <1>5, <2>2, <2>3, Longer
<1>8. DraftTypes' BY <1>1 DEF InstallInv, TypesInv, DraftTypes, Known
<1>9. ClientTypes' BY <1>1 DEF client, InstallInv, TypesInv, ClientTypes
<1>10. NothingNewer' BY <1>1 DEF client, books, InstallInv, NothingNewer
<1>11. LinesAreRead' BY <1>1 DEF books, InstallInv, LinesAreRead, ReadUnder
<1>. QED BY <1>1, <1>6, <1>7, <1>8, <1>9, <1>10, <1>11, WindowKeepsInv

LEMMA RetryKeepsInv ==
  ASSUME InstallInv, Retry
  PROVE  InstallInv'
<1>. DEFINE m == [kind |-> "retry"]
<1>1. /\ UNCHANGED <<generation, lines, panel, known, view, changed, item, preview,
                     client, gate, books, down, trouble>>
      /\ pending' = TRUE /\ up' = Append(up, m)
  BY DEF Retry
<1>2. m \in Upward /\ m.kind # "complete" BY DEF Upward
<1>. HIDE DEF m
<1>. QED BY <1>1, <1>2, WindowNumbers, PreviewStands, DraftBooleans, DraftKeepsInv

(* The hold and the catalog reads: the draft stands.                       *)
LEMMA HoldKeepsInv ==
  ASSUME InstallInv, UNCHANGED <<gate, books, draft>>,
         armed' \in 0 .. MaxHolds, flag' \in BOOLEAN, applying' \in SUBSET (1 .. MaxHolds),
         reading' \in {0, reading, installed}, refreshing' \in BOOLEAN,
         up' = up \/ \E m \in Upward : m.kind # "complete" /\ up' = Append(up, m),
         down' = down \/ (down # <<>> /\ down' = Tail(down)),
         trouble' = trouble \/ (trouble < MaxTrouble /\ trouble' = trouble + 1)
  PROVE  InstallInv'
<1>1. DraftTypes' BY DEF draft, InstallInv, TypesInv, DraftTypes
<1>2. ClientTypes'
  <2>1. reading' \in 0 .. MaxRevision
    BY WindowNumbers, InstallAssumption DEF InstallInv, TypesInv, ClientTypes
  <2>. QED BY <2>1 DEF ClientTypes
<1>3. NothingNewer'
  <2>1. reading' <= installed BY WindowNumbers
  <2>. QED BY <2>1 DEF draft, books, InstallInv, NothingNewer
<1>4. LinesAreRead' BY DEF draft, books, InstallInv, LinesAreRead, ReadUnder
<1>. QED BY <1>1, <1>2, <1>3, <1>4, TalkKeepsInv

LEMMA ClientStands ==
  ASSUME InstallInv
  PROVE  /\ armed \in 0 .. MaxHolds /\ flag \in BOOLEAN /\ applying \in SUBSET (1 .. MaxHolds)
         /\ reading \in 0 .. MaxRevision /\ refreshing \in BOOLEAN
  BY DEF InstallInv, TypesInv, ClientTypes

LEMMA RequestRefreshKeepsInv ==
  ASSUME InstallInv, RequestRefresh
  PROVE  InstallInv'
<1>. DEFINE m == [kind |-> "refresh", consent |-> generation]
<1>1. /\ UNCHANGED <<draft, armed, flag, applying, reading, gate, books, down, trouble>>
      /\ refreshing' = TRUE /\ up' = Append(up, m)
  BY DEF RequestRefresh
<1>2. m \in Upward /\ m.kind # "complete" BY WindowNumbers DEF Upward
<1>. HIDE DEF m
<1>. QED BY <1>1, <1>2, ClientStands, HoldKeepsInv

LEMMA HoldArrivesKeepsInv ==
  ASSUME InstallInv, HoldArrives
  PROVE  InstallInv'
<1>. DEFINE id == Head(down).hold
            ok == Admitted(Head(down).ask)
            m  == [kind |-> "reply", hold |-> id, admitted |-> ok, generation |-> generation]
<1>1. /\ UNCHANGED <<applying, reading, refreshing, draft, gate, books, trouble>>
      /\ down # <<>> /\ down' = Tail(down) /\ up' = Append(up, m)
      /\ armed' = (IF ok THEN id ELSE armed) /\ flag' = (flag \/ ok)
  BY DEF HoldArrives
<1>2. Head(down) \in Downward /\ Head(down).kind = "hold"
  BY Shorter DEF HoldArrives, InstallInv, TypesInv, WireTypes
<1>3. id \in 1 .. MaxHolds BY <1>2, DownwardMessages
<1>4. ok \in BOOLEAN BY DEF Admitted
<1>5. generation \in 0 .. MaxDraft BY WindowNumbers, InstallAssumption
<1>6. m \in Upward /\ m.kind # "complete" BY <1>3, <1>4, <1>5 DEF Upward
<1>7. armed' \in 0 .. MaxHolds BY <1>1, <1>3, ClientStands, InstallAssumption
<1>8. flag' \in BOOLEAN BY <1>1
<1>. HIDE DEF m, ok, id
<1>. QED BY <1>1, <1>6, <1>7, <1>8, ClientStands, HoldKeepsInv

LEMMA ReleasesKeepInv ==
  ASSUME InstallInv, ReleaseArrives \/ Poll \/ LoseRelease
  PROVE  InstallInv'
<1>1. UNCHANGED <<armed, flag, reading, refreshing, draft, gate, books, up>>
  BY DEF ReleaseArrives, Poll, LoseRelease, client
<1>2. /\ down' = down \/ (down # <<>> /\ down' = Tail(down))
      /\ trouble' = trouble \/ (trouble < MaxTrouble /\ trouble' = trouble + 1)
  BY DEF ReleaseArrives, Poll, LoseRelease
<1>3. applying' \in SUBSET (1 .. MaxHolds)
  <2>1. CASE ReleaseArrives
    <3>1. Head(down).hold \in 1 .. MaxHolds
      BY <2>1, Shorter, DownwardMessages DEF ReleaseArrives, InstallInv, TypesInv, WireTypes
    <3>. QED BY <2>1, <3>1, ClientStands DEF ReleaseArrives, Finish
  <2>2. CASE Poll
    <3>1. armed \in 1 .. MaxHolds BY <2>2, ClientStands, InstallAssumption DEF Poll
    <3>. QED BY <2>2, <3>1, ClientStands DEF Poll, Finish
  <2>3. CASE LoseRelease BY <2>3, ClientStands DEF LoseRelease, client
  <2>. QED BY <2>1, <2>2, <2>3
<1>. QED BY <1>1, <1>2, <1>3, ClientStands, HoldKeepsInv

LEMMA ReadStatusKeepsInv ==
  ASSUME InstallInv, ReadStatus
  PROVE  InstallInv'
<1>1. /\ UNCHANGED <<armed, flag, applying, refreshing, draft, gate, books, up, down, trouble>>
      /\ reading' = installed
  BY DEF ReadStatus
<1>. QED BY <1>1, ClientStands, HoldKeepsInv

(* Releasing holds.                                                        *)
LEMMA ReleasedTypes ==
  ASSUME InstallInv, NEW ids, Released(ids)
  PROVE  /\ armed' \in 0 .. MaxHolds /\ flag' \in BOOLEAN /\ applying' \in SUBSET (1 .. MaxHolds)
<1>1. armed' \in 0 .. MaxHolds BY ClientStands, InstallAssumption DEF Released
<1>2. flag' \in BOOLEAN BY DEF Released
<1>3. applying' \in SUBSET (1 .. MaxHolds) BY ClientStands DEF Released
<1>. QED BY <1>1, <1>2, <1>3

LEMMA ReadFailsKeepsInv ==
  ASSUME InstallInv, ReadFails
  PROVE  InstallInv'
<1>1. /\ UNCHANGED <<refreshing, draft, gate, books, up, down>> /\ reading' = 0
      /\ trouble < MaxTrouble /\ trouble' = trouble + 1 /\ Released(Ending(0))
  BY DEF ReadFails
<1>. QED BY <1>1, ReleasedTypes, ClientStands, HoldKeepsInv

(* A catalog read reaches the draft: lines of another contract are flagged.*)
LEMMA ApplyStatusKeepsInv ==
  ASSUME InstallInv, ApplyStatus
  PROVE  InstallInv'
<1>1. /\ UNCHANGED <<refreshing, generation, lines, panel, known, pending, item, gate, books, up, down,
                     trouble>>
      /\ reading' = 0 /\ view' = reading /\ preview' \in {NoPreview, preview}
      /\ Released(Ending(reading))
      /\ changed' = (lines # {} /\ (view \notin {0, reading} \/ \E l \in lines : l.stamp # reading))
  BY DEF ApplyStatus, SetContract
<1>2. DraftTypes'
  <2>1. changed' \in BOOLEAN BY <1>1
  <2>2. view' \in 0 .. MaxRevision BY <1>1, ClientStands
  <2>3. preview' \in Preview \cup {NoPreview} BY <1>1, PreviewStands
  <2>. QED BY <1>1, <2>1, <2>2, <2>3 DEF InstallInv, TypesInv, DraftTypes
<1>3. ClientTypes'
  <2>1. reading' \in 0 .. MaxRevision BY <1>1, InstallAssumption
  <2>. QED BY <1>1, <2>1, ReleasedTypes, ClientStands DEF ClientTypes
<1>4. NothingNewer'
  <2>1. view' <= installed /\ reading' <= installed BY <1>1, WindowNumbers
  <2>2. preview' # NoPreview => preview'.under <= preview'.read /\ preview'.read <= installed
    BY <1>1, PreviewStands
  <2>. QED BY <1>1, <2>1, <2>2, WindowNumbers DEF NothingNewer, books
<1>5. LinesAreRead'
  <2>. SUFFICES ASSUME NEW l \in lines PROVE ReadUnder(l) /\ (~changed' => l.stamp = reading)
    BY <1>1 DEF LinesAreRead, ReadUnder, books
  <2>. QED BY <1>1 DEF InstallInv, LinesAreRead
<1>. QED BY <1>1, <1>2, <1>3, <1>4, <1>5, TalkKeepsInv

(* A page loaded anew knows nothing.                                       *)
LEMMA ReloadKeepsInv ==
  ASSUME InstallInv, Reload
  PROVE  InstallInv'
<1>. USE DEF InstallInv, TypesInv
<1>. DEFINE d == [NoReport EXCEPT !.generation = 1]
            m == [kind |-> "report", draft |-> d]
<1>1. /\ UNCHANGED <<context, calls, active, fetched, holds, books>>
      /\ registry' = NoReport /\ down' = <<>> /\ up' = Append(up, m)
      /\ trouble < MaxTrouble /\ trouble' = trouble + 1
  BY DEF Reload
<1>2. /\ 0 \in 0 .. MaxDraft /\ 1 \in 0 .. MaxDraft /\ 1 \in 1 .. MaxDraft
      /\ 0 \in 0 .. MaxRevision /\ 0 \in 0 .. MaxHolds
  BY InstallAssumption
<1>3. NoReport \in Report /\ d \in Report BY <1>2 DEF Report, NoReport
<1>4. m \in Upward /\ m.kind # "complete" BY <1>3 DEF Upward
<1>5. GateTypes' BY <1>1, <1>3 DEF GateTypes, Asking, Asked
<1>6. BookTypes' /\ PathIsTrue' /\ FetchedIsNew'
  BY <1>1 DEF books, BookTypes, PathIsTrue, FetchedIsNew, Asking
<1>7. DraftTypes' BY <1>2 DEF Reload, DraftTypes, Known
<1>8. ClientTypes' BY <1>2 DEF Reload, ClientTypes
<1>9. NothingNewer'
  BY <1>1, WindowNumbers DEF Reload, NothingNewer, books
<1>10. LinesAreRead' BY DEF Reload, LinesAreRead
<1>11. installed' = installed /\ installed <= installed BY <1>1, WindowNumbers DEF books
<1>. HIDE DEF m
<1>12. SentIsRead' /\ up' \in Seq(Upward) BY <1>1, <1>4, <1>11, WindowNumbers, SentStaysRead
<1>13. WireTypes' BY <1>1, <1>12, InstallAssumption DEF WireTypes
<1>. QED BY <1>5, <1>6, <1>7, <1>8, <1>9, <1>10, <1>12, <1>13

-----------------------------------------------------------------------------
(* The invariant of the specification, and what follows.                   *)

LEMMA InstallInvStep == InstallInv /\ [InstallNext]_installVars => InstallInv'
<1>. SUFFICES ASSUME InstallInv, [InstallNext]_installVars PROVE InstallInv' OBVIOUS
<1>1. CASE GateStep
  BY <1>1, SettlingKeepsInv, ReportArrivesKeepsInv, CompleteArrivesKeepsInv, RetryArrivesKeepsInv,
     CompletionEndsKeepsInv, RefreshArrivesKeepsInv, RefreshReturnsKeepsInv DEF GateStep
<1>2. CASE HoldStep
  BY <1>2, HoldArrivesKeepsInv, ReleasesKeepInv, AnswerArrivesKeepsInv, ReadStatusKeepsInv,
     ApplyStatusKeepsInv DEF HoldStep
<1>3. CASE CashierStep
  BY <1>3, ReadProductKeepsInv, AddProductKeepsInv, ClearDraftKeepsInv, PrepareRebuildKeepsInv,
     ConfirmRebuildKeepsInv, PayKeepsInv, CompleteKeepsInv, RetryKeepsInv, RequestRefreshKeepsInv
     DEF CashierStep
<1>4. CASE Acquire \/ Expires \/ LoseRelease \/ ReadFails \/ Reload
  BY <1>4, AcquireKeepsInv, ExpiresKeepsInv, ReleasesKeepInv, ReadFailsKeepsInv, ReloadKeepsInv
<1>5. CASE UNCHANGED installVars
  <2>1. UNCHANGED <<gate, books, draft, client, up, down, trouble>> BY <1>5 DEF installVars
  <2>. QED BY <2>1, ClientStands, HoldKeepsInv DEF client
<1>. QED BY <1>1, <1>2, <1>3, <1>4, <1>5 DEF InstallNext

(* The inductive invariant: types, what main is about to write, what the   *)
(* window has read, and what its lines and intents were read under.        *)
THEOREM InstallInvariant == InstallSpec => []InstallInv
  BY InstallInvInit, InstallInvStep, PTL DEF InstallSpec

(* Every variable of the handshake keeps its type, and a hold is open in   *)
(* the registry exactly as long as the gate waits for its answer.          *)
THEOREM InstallTypes == InstallSpec => []InstallTypeOK
<1>1. InstallInv => InstallTypeOK BY TypesInvIsType DEF InstallInv
<1>. QED BY <1>1, InstallInvariant, PTL

(* Who writes a catalog while the old one is valid has seen no payment.    *)
LEMMA WritingSeesPayments ==
  ASSUME InstallInv, Asking, Persist(Asked), ~expired, StillAdmissible(Head(up).generation)
  PROVE  ~completing /\ claim # installed
<1>1. active.path # "stale" BY DEF InstallInv, PathIsTrue
<1>2. ~PaymentActive BY <1>1 DEF StillAdmissible
<1>3. installed # 0 BY WindowNumbers
<1>. QED BY <1>2, <1>3 DEF PaymentActive

(* No catalog that is still valid is replaced under a payment, whatever    *)
(* replies are late or lost and however often the page is reloaded.        *)
THEOREM InstallsWaitForClaims == InstallSpec => ClaimStands
<1>. DEFINE Waits == holds' # holds /\ installed' # installed /\ ~expired
                       => ~completing /\ claim # installed
<1>1. InstallInv /\ [InstallNext]_installVars => [Waits]_installVars
  <2>. SUFFICES ASSUME InstallInv, InstallNext, holds' # holds, installed' # installed, ~expired
                PROVE  ~completing /\ claim # installed
    OBVIOUS
  <2>1. active.path # "stale" BY DEF InstallInv, PathIsTrue
  <2>2. ReplyArrives \/ ReplyLate \/ ReplyNeverComes
    BY DEF InstallNext, GateStep, HoldStep, CashierStep, ReportArrives, CompleteArrives,
       RetryArrives, CompletionEnds, RefreshArrives, RefreshReturns, HoldArrives, ReleaseArrives, AnswerArrives,
       Poll, ReadStatus, ApplyStatus, ReadProduct, AddProduct, ClearDraft, PrepareRebuild,
       ConfirmRebuild, Pay, ClosePanel, Complete, Retry, DiscoverPending, RequestRefresh, Acquire, Expires,
       LoseRelease, ReadFails, Reload, gate, books
  <2>3. CASE ReplyArrives
    <3>1. Asking /\ Decide(Asked, Head(up).admitted, Head(up).generation)
      BY <2>3 DEF ReplyArrives, books
    <3>2. StillAdmissible(Head(up).generation) /\ Persist(Asked)
      BY <3>1 DEF Decide, Abort, PersistFails, books
    <3>. QED BY <3>1, <3>2, WritingSeesPayments
  <2>4. CASE ReplyLate \/ ReplyNeverComes
    BY <2>1, <2>4 DEF ReplyLate, ReplyNeverComes, GiveUp, Abort, books
  <2>. QED BY <2>2, <2>3, <2>4
<1>. QED BY <1>1, InstallInvariant, PTL DEF InstallSpec, ClaimStands

(* What main accepts to sell was read from the catalog then installed;     *)
(* an intent whose draft was flagged says so.                              *)
THEOREM SoldLinesAreCurrent == InstallSpec => SoldAsRead
<1>. DEFINE Reads == claim = 0 /\ claim' # 0
                       => Head(up).flagged
                            \/ \A l \in Head(up).lines : l.read = installed /\ l.stamp = installed
<1>1. InstallInv /\ [InstallNext]_installVars => [Reads]_installVars
  <2>. SUFFICES ASSUME InstallInv, InstallNext, claim = 0, claim' # 0,
                       ~Head(up).flagged
                PROVE  \A l \in Head(up).lines : l.read = installed /\ l.stamp = installed
    OBVIOUS
  <2>1. CompleteArrives
    BY DEF InstallNext, GateStep, HoldStep, CashierStep, ReplyArrives, ReplyLate, ReplyNeverComes,
       Decide, GiveUp, Abort, Persist, PersistFails, SettleSuperseded, ReportArrives,
       RetryArrives, CompletionEnds, RefreshArrives, RefreshReturns, HoldArrives, ReleaseArrives, AnswerArrives,
       Poll, ReadStatus, ApplyStatus, ReadProduct, AddProduct, ClearDraft, PrepareRebuild,
       ConfirmRebuild, Pay, ClosePanel, Complete, Retry, DiscoverPending, RequestRefresh, Acquire, Expires,
       LoseRelease, ReadFails, Reload, books
  <2>2. up # <<>> /\ Head(up).kind = "complete" /\ Head(up).revision = installed
    BY <2>1 DEF CompleteArrives, NewClaim, RefuseClaim
  <2>3. up \in Seq(Upward) BY DEF InstallInv, TypesInv, WireTypes
  <2>4. Head(up) = up[1] /\ 1 \in 1 .. Len(up) /\ Head(up) \in Upward BY <2>2, <2>3, Shorter
  <2>. SUFFICES ASSUME NEW l \in Head(up).lines PROVE l.read = installed /\ l.stamp = installed
    OBVIOUS
  <2>5. l \in Line BY <2>2, <2>4, UpwardMessages
  <2>6. l.stamp <= l.read /\ l.read <= installed /\ l.stamp = installed
    BY <2>2, <2>4 DEF InstallInv, SentIsRead, ReadUnder
  <2>. QED BY <2>5, <2>6, LineNumbers, WindowNumbers
<1>. QED BY <1>1, InstallInvariant, PTL DEF InstallSpec, SoldAsRead
=============================================================================
