----------------------------- MODULE TurnOutput -----------------------------
(***************************************************************************)
(* What CodexRuntime promises to whoever asked for a model turn: text is   *)
(* handed over within the output ceiling of the request, nothing follows a *)
(* cut, and the verdict says whether there was one.  A turn that ends in a *)
(* tool call may be resumed, with a new ceiling.                           *)
(***************************************************************************)
EXTENDS Naturals

CONSTANT Limits      \* the output ceilings a request may carry

VARIABLES
  limit,             \* ceiling of the current request
  emitted,           \* tokens handed over under that ceiling
  cut,               \* has text been withheld at the ceiling?
  verdict            \* how the request ended

outputVars == <<limit, emitted, cut, verdict>>

Init ==
  /\ limit \in Limits
  /\ emitted = 0
  /\ cut = FALSE
  /\ verdict = "none"

\* Verdicts a request may end with.
Verdicts(isCut) == {"failed"} \cup (IF isCut THEN {"limit"} ELSE {"endTurn", "tool"})

\* Some more text, perhaps none, perhaps the last the ceiling allows, perhaps
\* together with the verdict.
Proceed ==
  /\ verdict = "none"
  /\ emitted' \in emitted..limit
  /\ cut' \in {cut, TRUE}
  /\ cut => emitted' = emitted
  /\ verdict' \in {"none"} \cup Verdicts(cut')
  /\ UNCHANGED limit

\* The tool result arrives with a request of its own.
Resume ==
  /\ verdict = "tool"
  /\ limit' \in Limits
  /\ emitted' = 0
  /\ cut' = FALSE
  /\ verdict' = "none"

\* The tool result cannot be passed on.
GiveUp ==
  /\ verdict = "tool"
  /\ verdict' = "failed"
  /\ UNCHANGED <<limit, emitted, cut>>

Next == Proceed \/ Resume \/ GiveUp

Spec == Init /\ [][Next]_outputVars
=============================================================================
