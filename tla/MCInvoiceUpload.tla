-------------------------- MODULE MCInvoiceUpload --------------------------
(***************************************************************************)
(* Small instances of InvoiceUpload for TLC: which owner each sale belongs  *)
(* to and which grants it consumes.                                        *)
(***************************************************************************)
EXTENDS InvoiceUpload

CONSTANTS o1, o2, c1, c2

\* Every sale belongs to o1, or odd sales to o1 and even ones to o2.
OneOwner == [i \in Invoice |-> o1]
TwoOwners == [i \in Invoice |-> IF i % 2 = 1 THEN o1 ELSE o2]

\* No grant, one grant for every sale, or two grants that meet in sale 2.
NoChain == [c \in Chain |-> [i \in Invoice |-> 0]]
OneChain == [c \in Chain |-> [i \in Invoice |-> i]]
Forked == [c \in Chain |-> [i \in Invoice |->
              IF c = c1 THEN (IF i <= 2 THEN i ELSE 0) ELSE i - 1]]

=============================================================================
