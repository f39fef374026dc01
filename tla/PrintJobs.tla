----------------------------- MODULE PrintJobs -----------------------------
(***************************************************************************)
(* The receipts of a till.  Previews and print jobs run one after the      *)
(* other on one hidden window; a job is a row of a journal that survives   *)
(* the process, and a sale carries an intent to print its receipt by       *)
(* itself, decided once.  A receipt printed again must say that it is a    *)
(* reprint, and the till learns only some of what the printer did.         *)
(***************************************************************************)
EXTENDS Integers, Sequences, FiniteSets

CONSTANTS
  MaxSold,    \* bound: sales
  MaxByHand,  \* bound: print requests of cashiers
  MaxLine,    \* bound: works waiting for the window
  MaxJams     \* bound: crashes, cancellations, failed preparations, changes of session

ASSUME PrintAssumption ==
  MaxSold \in Nat /\ MaxByHand \in Nat /\ MaxLine \in Nat \ {0} /\ MaxJams \in Nat

VARIABLES
  cashier,     \* the session: the user, 0 for none, and the epoch
  intents,     \* auto_print_intents and auto_print_admissions, by sale
  journal,     \* receipt_print_jobs, by request id
  line,        \* the promise chain: the works, the running one first
  workStage,   \* where the running work awaits
  onWindow,    \* the document on the shared render window
  printCalls,  \* print calls the operating system has not answered
  admission,   \* the admission run: whether, of what, for whom, once more, a trigger to come
  originals,   \* history: receipts not marked as reprints that may have come out
  jams

printVars == <<cashier, intents, journal, line, workStage, onWindow, printCalls, admission,
               originals, jams>>

Sold    == 1 .. MaxSold
PrintRequest == ({"auto"} \X Sold) \cup ({"manual"} \X (1 .. MaxByHand))
Caller  == [user : 0 .. 2, epoch : 0 .. MaxJams + 1]
Paper   == [sale : 0 .. MaxSold, reprint : BOOLEAN]
Work    == [do : {"auto", "manual", "preview"}, req : PrintRequest \cup {<<"preview", 0>>},
            doc : Paper, caller : Caller]
Empty   == [sale |-> 0, reprint |-> FALSE]
NoJob   == [status |-> "none", doc |-> Empty, epoch |-> 0]

Reserving == {"queued", "preparing", "dispatching"}
Final  == {"submitted", "cancelled", "failed_before_dispatch", "outcome_unknown"}

PrintTypeOK ==
  /\ cashier \in Caller
  /\ intents \in [Sold -> [by : 0 .. 2, outcome : {"none", "pending", "admitted", "declined"}]]
  /\ journal \in [PrintRequest -> [status : {"none"} \cup Reserving \cup Final, doc : Paper,
                              epoch : 0 .. MaxJams + 1]]
  /\ line \in Seq(Work) /\ Len(line) <= MaxLine + MaxSold
  /\ workStage \in {"next", "printers", "render", "qr", "fence", "print"}
  /\ onWindow \in Paper
  /\ printCalls \subseteq [req : PrintRequest, doc : Paper]
  /\ admission \in [on : BOOLEAN, took : SUBSET Sold, caller : Caller, again : BOOLEAN,
                    due : BOOLEAN]
  /\ originals \in [Sold -> Int] /\ jams \in 0 .. MaxJams

NoAdmission == [on |-> FALSE, took |-> {}, caller |-> [user |-> 0, epoch |-> 0], again |-> FALSE,
            due |-> TRUE]

PrintInit ==
  /\ cashier = [user |-> 1, epoch |-> 1]
  /\ intents = [s \in Sold |-> [by |-> 0, outcome |-> "none"]]
  /\ journal = [r \in PrintRequest |-> NoJob]
  /\ line = <<>> /\ workStage = "next" /\ onWindow = Empty /\ printCalls = {}
  /\ admission = NoAdmission /\ originals = [s \in Sold |-> 0] /\ jams = 0

Jam == jams < MaxJams /\ jams' = jams + 1

-----------------------------------------------------------------------------
(* The journal.  isReprint: another job of the sale was submitted, or may  *)
(* have been; the reservation index: one job of a sale is under way.       *)
JobsOf(s)  == {r \in PrintRequest : journal[r].doc.sale = s}

(* Mutant: a job whose outcome is unknown does not count as printed.       *)
PrintedBefore_Submitted(s) == \E r \in JobsOf(s) : journal[r].status = "submitted"

PrintedBefore(s) ==
  \E r \in JobsOf(s) : journal[r].status \in {"submitted", "outcome_unknown"}
Reserved(s) == \E r \in JobsOf(s) : journal[r].status \in Reserving

DocumentOf(s) == [sale |-> s, reprint |-> PrintedBefore(s)]

Claimable(r, s) == journal[r].status = "none" /\ ~Reserved(s)

Claim(r, s, epoch, status) == [status |-> status, doc |-> DocumentOf(s), epoch |-> epoch]

MarkJob(r, from, to) ==
  journal' = IF journal[r].status \in from THEN [journal EXCEPT ![r].status = to] ELSE journal

FailBeforeDispatch(r) == MarkJob(r, {"preparing"}, "failed_before_dispatch")

-----------------------------------------------------------------------------
(* captureForSale in the transaction of the sale; the trigger follows on   *)
(* the next tick.                                                          *)
CaptureForSale(s) ==
  /\ cashier.user # 0 /\ intents[s].outcome = "none" /\ \A t \in Sold : t < s => intents[t].by # 0
  /\ intents' = [intents EXCEPT ![s] = [by |-> cashier.user, outcome |-> "pending"]]
  /\ admission' = [admission EXCEPT !.due = TRUE]
  /\ UNCHANGED <<cashier, journal, line, workStage, onWindow, printCalls, originals, jams>>

SignInOrOut ==
  /\ Jam
  /\ \E u \in (0 .. 2) \ {cashier.user} : cashier' = [user |-> u, epoch |-> cashier.epoch + 1]
  /\ admission' = [admission EXCEPT !.due = TRUE]
  /\ UNCHANGED <<intents, journal, line, workStage, onWindow, printCalls, originals>>

PendingFor(u) == {s \in Sold : intents[s].outcome = "pending" /\ intents[s].by = u}

Started(a) ==
  IF cashier.user = 0 \/ PendingFor(cashier.user) = {}
    THEN [a EXCEPT !.on = FALSE, !.took = {}, !.again = FALSE]
    ELSE [a EXCEPT !.on = TRUE, !.took = PendingFor(cashier.user), !.caller = cashier,
                   !.again = FALSE]

(* admitPending: one run at a time, and once more for a call during it.    *)
AdmitPending ==
  /\ admission.due
  /\ admission' = [(IF admission.on THEN [admission EXCEPT !.again = TRUE] ELSE Started(admission))
                   EXCEPT !.due = FALSE]
  /\ UNCHANGED <<cashier, intents, journal, line, workStage, onWindow, printCalls, originals,
                 jams>>

(* An intent of the caller who is still there and not decided meanwhile.   *)
Decidable(s) == intents[s].outcome = "pending" /\ intents[s].by = cashier.user

AutoWork(s) == [do |-> "auto", req |-> <<"auto", s>>, doc |-> DocumentOf(s), caller |-> cashier]

OldestFirst(S) == CHOOSE q \in [1 .. Cardinality(S) -> S] : \A i, j \in DOMAIN q : i < j => q[i] < q[j]

AdmissionOver ==
  admission' = [admission EXCEPT !.on = FALSE, !.took = {}, !.again = FALSE,
                                 !.due = admission.due \/ admission.again]

(* decide, for all the intents the run took, after the printers were       *)
(* listed: some are declined (no printer, too old, other settings), the    *)
(* others get a job and an admission in one transaction, or neither when   *)
(* the journal has a job under way.                                        *)
DecideIntents ==
  \E declined \in SUBSET {s \in admission.took : Decidable(s)} :
    LET granted == {s \in admission.took \ declined :
                      Decidable(s) /\ Claimable(<<"auto", s>>, s)}
    IN  /\ admission.on
        /\ intents' = [s \in Sold |->
             IF s \in declined THEN [intents[s] EXCEPT !.outcome = "declined"]
             ELSE IF s \in granted THEN [intents[s] EXCEPT !.outcome = "admitted"]
             ELSE intents[s]]
        /\ journal' = [r \in PrintRequest |->
             IF r[1] = "auto" /\ r[2] \in granted THEN Claim(r, r[2], cashier.epoch, "queued")
             ELSE journal[r]]
        /\ line' = line \o [i \in 1 .. Cardinality(granted) |-> AutoWork(OldestFirst(granted)[i])]
        /\ AdmissionOver
        /\ UNCHANGED <<cashier, workStage, onWindow, printCalls, originals, jams>>

(* The list of printers cannot be read: what needs a printer is left.      *)
DecideLater ==
  /\ admission.on /\ AdmissionOver
  /\ \E declined \in SUBSET {s \in admission.took : Decidable(s)} :
       intents' = [s \in Sold |->
         IF s \in declined THEN [intents[s] EXCEPT !.outcome = "declined"] ELSE intents[s]]
  /\ UNCHANGED <<cashier, journal, line, workStage, onWindow, printCalls, originals, jams>>

-----------------------------------------------------------------------------
(* dispatch and preview join the chain with the caller of that moment; a   *)
(* dispatch names the preview it was made from.                            *)
JoinChain(work) ==
  /\ cashier.user # 0 /\ Len(line) < MaxLine /\ line' = Append(line, work)
  /\ UNCHANGED <<cashier, intents, journal, workStage, onWindow, printCalls, admission,
                 originals, jams>>

AskPrint(n, s, reprint) ==
  /\ intents[s].by # 0
  /\ JoinChain([do |-> "manual", req |-> <<"manual", n>>, doc |-> [sale |-> s, reprint |-> reprint],
          caller |-> cashier])

AskPreview(s) ==
  /\ intents[s].by # 0
  /\ JoinChain([do |-> "preview", req |-> <<"preview", 0>>, doc |-> [sale |-> s, reprint |-> FALSE],
          caller |-> cashier])

Work1 == line[1]
Req1  == line[1].req
Done  == workStage' = "next" /\ line' = Tail(line)

(* A preview is built, rendered and captured when its turn comes.          *)
ShowPreview ==
  /\ line # <<>> /\ workStage = "next" /\ Work1.do = "preview" /\ Done
  /\ onWindow' = DocumentOf(Work1.doc.sale)
  /\ UNCHANGED <<cashier, intents, journal, printCalls, admission, originals, jams>>

(* dispatchInternal: a known id is answered from the journal, a stale      *)
(* preview or a sale under way is refused, and a claim is prepared at      *)
(* once.  An automatic job was claimed before, and may be cancelled.       *)
Startable(w) ==
  IF w.do = "auto" THEN journal[w.req].status = "queued"
  ELSE Claimable(w.req, w.doc.sale) /\ w.doc.reprint = PrintedBefore(w.doc.sale)

BeginPreparing ==
  /\ line # <<>> /\ workStage = "next" /\ Work1.do # "preview" /\ Startable(Work1)
  /\ journal' = IF Work1.do = "auto" THEN [journal EXCEPT ![Req1].status = "preparing"]
                ELSE [journal EXCEPT ![Req1] = Claim(Req1, Work1.doc.sale, Work1.caller.epoch,
                                                     "preparing")]
  /\ workStage' = "printers"
  /\ UNCHANGED <<cashier, intents, line, onWindow, printCalls, admission, originals, jams>>

NothingToDo ==
  /\ line # <<>> /\ workStage = "next" /\ Work1.do # "preview" /\ ~Startable(Work1) /\ Done
  /\ UNCHANGED <<cashier, intents, journal, onWindow, printCalls, admission, originals, jams>>

(* The printers are listed and the document is loaded, then measured and   *)
(* laid out.                                                               *)
Load ==
  /\ workStage = "printers" /\ workStage' = "render" /\ onWindow' = journal[Req1].doc
  /\ UNCHANGED <<cashier, intents, journal, line, printCalls, admission, originals, jams>>

LayOut ==
  /\ workStage = "render" /\ workStage' = "qr"
  /\ UNCHANGED <<cashier, intents, journal, line, onWindow, printCalls, admission, originals,
                 jams>>

(* No printer, a load or a layout that fails.                              *)
PreparationFails ==
  /\ workStage \in {"printers", "render", "qr"} /\ Jam /\ FailBeforeDispatch(Req1) /\ Done
  /\ UNCHANGED <<cashier, intents, onWindow, printCalls, admission, originals>>

(* The code on the window is decoded: it names the sale of the job.        *)
VerifyQr ==
  /\ workStage = "qr"
  /\ IF onWindow.sale = journal[Req1].doc.sale
       THEN workStage' = "fence" /\ UNCHANGED <<journal, line>>
       ELSE FailBeforeDispatch(Req1) /\ Done
  /\ UNCHANGED <<cashier, intents, onWindow, printCalls, admission, originals, jams>>

(* finalGate: the caller is signed in, in the session of the claim.        *)
FinalGate(w) ==
  cashier.user # 0 /\ cashier.user = w.caller.user /\ cashier.epoch = journal[w.req].epoch

(* beginDispatching and the print call, with no await between them.        *)
DispatchJob ==
  /\ workStage = "fence" /\ FinalGate(Work1) /\ journal[Req1].status = "preparing"
  /\ journal' = [journal EXCEPT ![Req1].status = "dispatching"]
  /\ workStage' = "print" /\ printCalls' = printCalls \cup {[req |-> Req1, doc |-> onWindow]}
  /\ originals' = IF onWindow.reprint THEN originals
                  ELSE [originals EXCEPT ![onWindow.sale] = @ + 1]
  /\ UNCHANGED <<cashier, intents, line, onWindow, admission, jams>>

Fenced ==
  /\ workStage = "fence" /\ ~(FinalGate(Work1) /\ journal[Req1].status = "preparing")
  /\ (IF FinalGate(Work1) THEN UNCHANGED journal ELSE FailBeforeDispatch(Req1)) /\ Done
  /\ UNCHANGED <<cashier, intents, onWindow, printCalls, admission, originals, jams>>

-----------------------------------------------------------------------------
(* What the system says of a print call, and where it leaves the job.      *)
Verdicts == {"printed", "dialog_cancelled", "rejected", "failed"}
Nothing  == {"dialog_cancelled", "rejected"} \* the answers of calls that printed nothing

Classified(r, verdict) ==
  CASE verdict = "printed" -> MarkJob(r, {"dispatching", "outcome_unknown"}, "submitted")
    [] verdict = "dialog_cancelled" -> MarkJob(r, {"dispatching"}, "cancelled")
    [] verdict = "rejected" -> MarkJob(r, {"dispatching"}, "failed_before_dispatch")
    [] verdict = "failed" -> MarkJob(r, {"dispatching"}, "outcome_unknown")

(* Automatic jobs are silent: no dialog.  A late answer finds its job by   *)
(* the dispatch token, and only a success changes it.                      *)
Answered(c, verdict) ==
  /\ c \in printCalls /\ printCalls' = printCalls \ {c}
  /\ (c.req[1] = "auto" => verdict # "dialog_cancelled")
  /\ Classified(c.req, verdict)
  /\ originals' = IF verdict \in Nothing /\ ~c.doc.reprint
                    THEN [originals EXCEPT ![c.doc.sale] = @ - 1] ELSE originals
  /\ IF workStage = "print" /\ Req1 = c.req THEN Done ELSE UNCHANGED <<line, workStage>>
  /\ UNCHANGED <<cashier, intents, onWindow, admission, jams>>

(* 90 s without an answer.                                                 *)
TimesOut ==
  /\ workStage = "print" /\ MarkJob(Req1, {"dispatching"}, "outcome_unknown") /\ Done
  /\ UNCHANGED <<cashier, intents, onWindow, printCalls, admission, originals, jams>>

(* cancelJob: before the dispatch only.                                    *)
Cancel(r) ==
  /\ cashier.user # 0 /\ journal[r].status \in {"queued", "preparing"} /\ Jam
  /\ MarkJob(r, {"queued", "preparing"}, "cancelled")
  /\ UNCHANGED <<cashier, intents, line, workStage, onWindow, printCalls, admission, originals>>

(* reconcileStartup: no job of an earlier process is under way.            *)
Swept(status) ==
  CASE status \in {"queued", "preparing"} -> "failed_before_dispatch"
    [] status = "dispatching" -> "outcome_unknown"
    [] OTHER -> status

RestartTill ==
  /\ Jam /\ journal' = [r \in PrintRequest |-> [journal[r] EXCEPT !.status = Swept(@)]]
  /\ line' = <<>> /\ workStage' = "next" /\ onWindow' = Empty /\ printCalls' = {} /\ admission' = NoAdmission
  /\ UNCHANGED <<cashier, intents, originals>>

PrintNext ==
  \/ \E s \in Sold : CaptureForSale(s) \/ AskPreview(s)
  \/ \E n \in 1 .. MaxByHand, s \in Sold, reprint \in BOOLEAN : AskPrint(n, s, reprint)
  \/ SignInOrOut \/ AdmitPending \/ DecideIntents \/ DecideLater
  \/ ShowPreview \/ BeginPreparing \/ NothingToDo \/ Load \/ LayOut \/ PreparationFails
  \/ VerifyQr \/ DispatchJob \/ Fenced
  \/ \E c \in printCalls, v \in Verdicts : Answered(c, v)
  \/ TimesOut \/ RestartTill \/ \E r \in PrintRequest : Cancel(r)

PrintSpec == PrintInit /\ [][PrintNext]_printVars

(* Of the receipts of a sale that may have come out of the printer, over   *)
(* automatic prints, requests by hand, cancellations, timeouts and         *)
(* crashes, at most one is not marked as a reprint                         *)
(* (buildDocumentJson asks hasSubmittedOrUnknown at the claim).            *)
OneOriginal == \A s \in Sold : originals[s] <= 1
=============================================================================
