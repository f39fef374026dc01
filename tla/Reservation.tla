---------------------------- MODULE Reservation ----------------------------
(***************************************************************************)
(* What the exchange of reservation requests between a till and the server *)
(* promises, whatever messages, processes and timers do: a request is      *)
(* asked before the server reserves stock for it, the server reserves      *)
(* before the till believes it, and none of the three is ever taken back.  *)
(***************************************************************************)
CONSTANT Request
VARIABLES asked, reserved, known

vars == <<asked, reserved, known>>

Init == asked = {} /\ reserved = {} /\ known = {}

Ask ==
  /\ \E r \in Request \ asked : asked' = asked \cup {r}
  /\ UNCHANGED <<reserved, known>>

Reserve ==
  /\ \E r \in asked \ reserved : reserved' = reserved \cup {r}
  /\ UNCHANGED <<asked, known>>

Learn ==
  /\ \E r \in reserved \ known : known' = known \cup {r}
  /\ UNCHANGED <<asked, reserved>>

Next == Ask \/ Reserve \/ Learn

Spec == Init /\ [][Next]_vars

=============================================================================
