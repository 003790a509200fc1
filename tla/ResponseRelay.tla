---------------------------- MODULE ResponseRelay ----------------------------
(***************************************************************************)
(* What the HTTP adapter promises about one exchange: the client receives  *)
(* what the provider produced, in order and nothing else, and a response   *)
(* that looks complete is all of it, from a producer that ended well.      *)
(* Anything else ends as a failure the client can see.                     *)
(***************************************************************************)
EXTENDS Naturals, Sequences

VARIABLES
  produced,   \* number of pieces of content the producer handed on
  ended,      \* how the producer ended: "no", "ok" or "error"
  received,   \* the pieces the client has received
  response    \* "open", "complete" or "failed"

relayVars == <<produced, ended, received, response>>

FirstPieces(n) == [i \in 1..n |-> i]

Init ==
  /\ produced = 0
  /\ ended = "no"
  /\ received = <<>>
  /\ response = "open"

Produce ==
  /\ ended = "no"
  /\ produced' = produced + 1
  /\ UNCHANGED <<ended, received, response>>

End ==
  /\ ended = "no"
  /\ ended' \in {"ok", "error"}
  /\ UNCHANGED <<produced, received, response>>

\* Some of the pieces that are there, perhaps the last ones.
Relay ==
  /\ response = "open"
  /\ \E n \in Len(received)..produced :
       /\ received' = FirstPieces(n)
       /\ response' \in {"open"} \cup (IF ended = "ok" /\ n = produced THEN {"complete"} ELSE {})
  /\ UNCHANGED <<produced, ended>>

Fail ==
  /\ response = "open"
  /\ response' = "failed"
  /\ UNCHANGED <<produced, ended, received>>

Next == Produce \/ End \/ Relay \/ Fail

Spec == Init /\ [][Next]_relayVars
=============================================================================
