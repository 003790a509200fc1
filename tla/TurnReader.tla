----------------------------- MODULE TurnReader -----------------------------
(***************************************************************************)
(* How one model turn is read (adapters/outbound/codex/runtime.rs):        *)
(* read_turn_inner with its output limiter, its usage epoch, its upstream  *)
(* errors, the interrupt at the ceiling, and the tool call that suspends   *)
(* the turn until Claude's result starts a second read of it.              *)
(*                                                                         *)
(* Text is measured in units, the shortest piece a token can stand for:    *)
(* what o200k_base makes of a text is left open, but for a token covering  *)
(* at least one unit.  The App Server is external: it sends the events of  *)
(* the turn in order, and they wait in the thread's channel.               *)
(***************************************************************************)
EXTENDS Naturals, Sequences

CONSTANTS
  Limits,      \* output ceilings (max_tokens) a request may carry
  MaxUnits,    \* bound: units of text in one delta
  MaxContent,  \* bound: deltas and tool calls in the turn
  MaxStream    \* bound: unread events, beside the terminal one

ASSUME TurnAssumption ==
  /\ Limits \subseteq Nat \ {0}
  /\ MaxUnits \in Nat \ {0}
  /\ MaxContent \in Nat
  /\ MaxStream \in Nat \ {0}

VARIABLES
  pc,          \* "read", "interrupt" (waits for turn/interrupt), "returned"
  limit,       \* limiter.max_tokens
  emitted,     \* limiter.emitted_tokens
  pending,     \* units in limiter.pending_text
  reached,     \* limiter.state is Reached
  usage,       \* progress.usage: <<>>, or <<n>> for a report covering n contents
  epochOpen,   \* progress.usage_epoch is Open
  fatalError,  \* progress.fatal_upstream_error is set
  verdict,     \* what the read returned
  stream,      \* events of the turn on their way to the reader
  server,      \* App Server: "running", "waiting" for a tool, "stopping", "over"
  produced,    \* App Server: deltas and tool calls sent
  \* history of the current read, for the properties
  received,    \* units of text received
  written,     \* units of text handed to the client
  before,      \* contents that earlier reads of the turn received
  fatalSeen    \* has the turn had a non-retryable error: "no", in "thisRead", "earlier"

limiterVars == <<limit, emitted, pending, reached>>
historyVars == <<received, written, before, fatalSeen>>
serverVars  == <<server, produced>>
vars == <<pc, limiterVars, usage, epochOpen, fatalError, verdict, stream, serverVars,
          historyVars>>

Statuses == {"completed", "interrupted", "failed"}

Delta(n)     == [kind |-> "delta", units |-> n]
Usage(n)     == [kind |-> "usage", covers |-> n]
Tool         == [kind |-> "tool"]
Item         == [kind |-> "item"]
Fault(retry) == [kind |-> "error", willRetry |-> retry]
Ended(s)     == [kind |-> "completed", status |-> s]
Invalid      == [kind |-> "invalid"]

Events == {Delta(n) : n \in 1..MaxUnits} \cup {Usage(n) : n \in 0..MaxContent}
          \cup {Tool, Item, Invalid} \cup {Fault(r) : r \in BOOLEAN}
          \cup {Ended(s) : s \in Statuses}

-----------------------------------------------------------------------------
(* The App Server.                                                         *)

CanSend == verdict \in {"none", "tool"} /\ Len(stream) < MaxStream

Sends(event) == stream' = Append(stream, event)

readerVars == <<pc, limiterVars, usage, epochOpen, fatalError, verdict, historyVars>>

ServerContent ==
  /\ CanSend
  /\ server = "running"
  /\ produced < MaxContent
  /\ produced' = produced + 1
  /\ \/ \E n \in 1..MaxUnits : Sends(Delta(n)) /\ UNCHANGED server
     \/ Sends(Tool) /\ server' = "waiting"
  /\ UNCHANGED readerVars

\* A report covers what the turn has produced when it is sent.
ServerReports ==
  /\ CanSend
  /\ server # "over"
  /\ \/ Sends(Usage(produced))
     \/ Sends(Item)
     \/ \E retry \in BOOLEAN : Sends(Fault(retry))
  /\ UNCHANGED <<serverVars, readerVars>>

\* An event of another turn, one with a field missing, one of another kind.
ServerMisbehaves ==
  /\ CanSend
  /\ server # "over"
  /\ Sends(Invalid)
  /\ UNCHANGED <<serverVars, readerVars>>

ServerCompletes ==
  /\ verdict \in {"none", "tool"}
  /\ server # "over"
  /\ \E status \in Statuses : Sends(Ended(status))
  /\ server' = "over"
  /\ UNCHANGED <<produced, readerVars>>

-----------------------------------------------------------------------------
(* The output limiter.                                                     *)

Remaining == limit - emitted

\* Hands over `units` of the text, counted as `tokens`.
Emit(units, tokens) ==
  /\ written' = written + units
  /\ emitted' = emitted + tokens

\* The text is one token too long or more: a prefix of at most the remaining
\* tokens is handed over, fewer where they would split a character.
Truncate(units) ==
  /\ \E tokens \in 0..Remaining, part \in 0..(units - 1) :
       /\ tokens <= part /\ (tokens = 0) = (part = 0)
       /\ Emit(part, tokens)
  /\ pending' = 0
  /\ reached' = TRUE

\* emit_delta for `text` units of pending text: the part of it that later text
\* cannot re-tokenize is handed over, if any; at the ceiling the turn is interrupted.
EmitStable(text) ==
  \/ /\ pending' = text
     /\ UNCHANGED <<emitted, written, reached, pc>>
  \/ \E units \in 1..text : \E tokens \in 1..units :
       \/ /\ tokens <= Remaining
          /\ Emit(units, tokens)
          /\ pending' = text - units
          /\ UNCHANGED <<reached, pc>>
       \/ /\ tokens > Remaining
          /\ Truncate(units)
          /\ pc' = "interrupt"

\* Mutant: text that a later token could still change is dropped.
DropPending ==
  /\ pending' = 0
  /\ UNCHANGED <<emitted, written, reached>>

\* resolve_pending: the pending text is final and is handed over or truncated.
ResolvePending ==
  \/ pending = 0 /\ UNCHANGED <<emitted, written, pending, reached>>
  \/ \E tokens \in 1..pending :
       \/ /\ tokens <= Remaining
          /\ Emit(pending, tokens)
          /\ pending' = 0
          /\ UNCHANGED reached
       \/ /\ tokens > Remaining
          /\ Truncate(pending)

-----------------------------------------------------------------------------
(* read_turn_inner: one action per kind of event.                          *)

Reads(kind) ==
  /\ pc = "read"
  /\ stream # <<>>
  /\ Head(stream).kind = kind
  /\ stream' = Tail(stream)

Returns(v) ==
  /\ verdict' = v
  /\ pc' = "returned"

\* Mutant: text leaves an earlier report in place.
ReadDeltaKeepingUsage ==
  /\ Reads("delta")
  /\ received' = received + Head(stream).units
  /\ epochOpen' = TRUE
  /\ \/ reached /\ UNCHANGED <<limiterVars, written, pc, verdict>>
     \/ ~reached /\ EmitStable(pending + Head(stream).units) /\ UNCHANGED <<limit, verdict>>
  /\ UNCHANGED <<usage, fatalError, serverVars, before, fatalSeen>>

ReadDelta ==
  /\ Reads("delta")
  /\ received' = received + Head(stream).units
  /\ usage' = <<>>
  /\ epochOpen' = TRUE
  /\ \/ reached /\ UNCHANGED <<limiterVars, written, pc, verdict>>
     \/ ~reached /\ EmitStable(pending + Head(stream).units) /\ UNCHANGED <<limit, verdict>>
     \* The text does not decode, or the client is gone.
     \/ ~reached /\ Returns("failed") /\ UNCHANGED <<limiterVars, written>>
  /\ UNCHANGED <<fatalError, serverVars, before, fatalSeen>>

ReadUsage ==
  /\ Reads("usage")
  /\ usage' = IF epochOpen THEN <<Head(stream).covers>> ELSE usage
  /\ UNCHANGED <<pc, limiterVars, epochOpen, fatalError, verdict, serverVars, historyVars>>

\* Mutant: a tool call behind the ceiling is looked at and not consumed.
ReadToolUnread ==
  /\ pc = "read"
  /\ stream # <<>> /\ Head(stream).kind = "tool"
  /\ ~reached
  /\ stream' = Tail(stream)
  /\ usage' = <<>>
  /\ epochOpen' = TRUE
  /\ ResolvePending
  /\ IF reached' THEN pc' = "interrupt" /\ UNCHANGED verdict ELSE Returns("tool")
  /\ UNCHANGED <<limit, fatalError, serverVars, received, before, fatalSeen>>

\* Mutant: a tool call is surfaced although the text before it was cut.
ReadToolAnyway ==
  /\ Reads("tool")
  /\ usage' = <<>>
  /\ epochOpen' = TRUE
  /\ ResolvePending
  /\ Returns("tool")
  /\ UNCHANGED <<limit, fatalError, serverVars, received, before, fatalSeen>>

\* Once the ceiling is reached a tool call is not acted on: the turn is being
\* interrupted.  Otherwise the text before it is resolved, and it is surfaced
\* unless that text reached the ceiling.
ReadTool ==
  /\ Reads("tool")
  /\ usage' = <<>>
  /\ epochOpen' = TRUE
  /\ \/ reached /\ UNCHANGED <<limiterVars, written, pc, verdict>>
     \/ /\ ~reached
        /\ ResolvePending
        /\ UNCHANGED limit
        /\ IF reached' THEN pc' = "interrupt" /\ UNCHANGED verdict ELSE Returns("tool")
     \/ ~reached /\ pending # 0 /\ Returns("failed") /\ UNCHANGED <<limiterVars, written>>
  /\ UNCHANGED <<fatalError, serverVars, received, before, fatalSeen>>

ReadItem ==
  /\ Reads("item")
  /\ UNCHANGED <<pc, limiterVars, usage, epochOpen, fatalError, verdict, serverVars, historyVars>>

\* Mutant: every error is one the App Server retries after.
ReadErrorAsRetry ==
  /\ Reads("error")
  /\ fatalSeen' = IF Head(stream).willRetry THEN fatalSeen ELSE "thisRead"
  /\ UNCHANGED <<pc, limiterVars, usage, epochOpen, fatalError, verdict, serverVars, received,
                 written, before>>

ReadError ==
  /\ Reads("error")
  /\ fatalError' = (fatalError \/ ~Head(stream).willRetry)
  /\ fatalSeen' = IF Head(stream).willRetry THEN fatalSeen ELSE "thisRead"
  /\ UNCHANGED <<pc, limiterVars, usage, epochOpen, verdict, serverVars, received, written,
                 before>>

ReadInvalid ==
  /\ Reads("invalid")
  /\ Returns("failed")
  /\ UNCHANGED <<limiterVars, usage, epochOpen, fatalError, serverVars, historyVars>>

\* complete_turn: the fatal error first, then the rest of the text, then the
\* status, then the usage that must have been reported.
ReadCompleted ==
  /\ Reads("completed")
  /\ LET status == Head(stream).status
         atLimit == status = "interrupted" /\ reached
     IN
     \/ fatalError /\ Returns("failed") /\ UNCHANGED <<limiterVars, written>>
     \/ /\ ~fatalError /\ status = "completed"
        /\ ResolvePending
        /\ UNCHANGED limit
        /\ Returns(IF usage = <<>> /\ emitted' # 0 THEN "failed"
                   ELSE IF reached' THEN "limit" ELSE "endTurn")
     \* The rest of the text does not reach the client.
     \/ /\ ~fatalError /\ status = "completed" /\ pending # 0
        /\ Returns("failed")
        /\ UNCHANGED <<limiterVars, written>>
     \/ /\ ~fatalError /\ status # "completed"
        /\ Returns(IF atLimit THEN "limit" ELSE "failed")
        /\ UNCHANGED <<limiterVars, written>>
  /\ UNCHANGED <<usage, epochOpen, fatalError, serverVars, received, before, fatalSeen>>

\* The connection failed, or TURN_TIMEOUT passed without an event.
ReadFails ==
  /\ pc = "read"
  /\ Returns("failed")
  /\ UNCHANGED <<limiterVars, usage, epochOpen, fatalError, stream, serverVars, historyVars>>

-----------------------------------------------------------------------------
(* interrupt_turn.                                                         *)

InterruptAccepted ==
  /\ pc = "interrupt"
  /\ pc' = "read"
  /\ server' = IF server = "over" THEN "over" ELSE "stopping"
  /\ UNCHANGED <<limiterVars, usage, epochOpen, fatalError, verdict, stream, produced, historyVars>>

\* The App Server refuses (the turn may be over), or the request fails.
InterruptRefused ==
  /\ pc = "interrupt"
  /\ Returns("failed")
  /\ UNCHANGED <<limiterVars, usage, epochOpen, fatalError, stream, serverVars, historyVars>>

-----------------------------------------------------------------------------
(* continue_tool: the result is sent and the turn is read on.              *)

\* Mutant: the second read of a turn accepts usage from its start.
ContinueToolEpochOpen ==
  /\ pc = "returned" /\ verdict = "tool"
  /\ pc' = "read"
  /\ verdict' = "none"
  /\ limit' \in Limits
  /\ emitted' = 0 /\ pending' = 0 /\ reached' = FALSE
  /\ usage' = <<>>
  /\ epochOpen' = TRUE
  /\ fatalError' = FALSE
  /\ fatalSeen' = IF fatalSeen = "no" THEN "no" ELSE "earlier"
  /\ server' = IF server = "waiting" THEN "running" ELSE server
  /\ received' = 0 /\ written' = 0 /\ before' = produced
  /\ UNCHANGED <<stream, produced>>

ContinueTool ==
  /\ pc = "returned" /\ verdict = "tool"
  /\ pc' = "read"
  /\ verdict' = "none"
  /\ limit' \in Limits
  /\ emitted' = 0 /\ pending' = 0 /\ reached' = FALSE
  /\ usage' = <<>>
  /\ epochOpen' = FALSE
  /\ fatalError' = FALSE
  /\ fatalSeen' = IF fatalSeen = "no" THEN "no" ELSE "earlier"
  /\ server' = IF server = "waiting" THEN "running" ELSE server
  /\ received' = 0 /\ written' = 0 /\ before' = produced
  /\ UNCHANGED <<stream, produced>>

ContinueFails ==
  /\ pc = "returned" /\ verdict = "tool"
  /\ verdict' = "failed"
  /\ UNCHANGED <<pc, limiterVars, usage, epochOpen, fatalError, stream, serverVars,
                 historyVars>>

-----------------------------------------------------------------------------
Init ==
  /\ pc = "read"
  /\ limit \in Limits
  /\ emitted = 0 /\ pending = 0 /\ reached = FALSE
  /\ usage = <<>>
  /\ epochOpen = TRUE
  /\ fatalError = FALSE
  /\ verdict = "none"
  /\ stream = <<>>
  /\ server = "running"
  /\ produced = 0
  /\ received = 0 /\ written = 0 /\ before = 0 /\ fatalSeen = "no"

ServerStep == ServerContent \/ ServerReports \/ ServerMisbehaves \/ ServerCompletes

ReaderStep ==
  \/ ReadDelta \/ ReadUsage \/ ReadTool \/ ReadItem \/ ReadError \/ ReadInvalid
  \/ ReadCompleted \/ InterruptAccepted \/ InterruptRefused

\* The request has its final verdict.
Finished ==
  /\ verdict \in {"endTurn", "limit", "failed"}
  /\ UNCHANGED vars

Next ==
  \/ ServerStep \/ ReaderStep \/ ReadFails
  \/ ContinueTool \/ ContinueFails
  \/ Finished

Spec == Init /\ [][Next]_vars

\* The reader is polled, a request for an interrupt ends (AppServerConnection),
\* and the App Server ends the turns it has not been asked a tool result for.
FairSpec ==
  /\ Spec
  /\ WF_vars(ReaderStep)
  /\ WF_vars(ServerCompletes)

-----------------------------------------------------------------------------
(* Properties.                                                             *)

\* Every variable has its type (OutputLimiter and TurnProgress).
TypeOK ==
  /\ pc \in {"read", "interrupt", "returned"}
  /\ limit \in Limits
  /\ emitted \in 0..limit
  /\ pending \in Nat
  /\ reached \in BOOLEAN
  /\ usage \in {<<>>} \cup {<<n>> : n \in 0..MaxContent}
  /\ epochOpen \in BOOLEAN
  /\ fatalError \in BOOLEAN
  /\ verdict \in {"none", "tool", "endTurn", "limit", "failed"}
  /\ stream \in Seq(Events)
  /\ server \in {"running", "waiting", "stopping", "over"}
  /\ produced \in 0..MaxContent
  /\ received \in Nat /\ written \in Nat
  /\ before \in 0..MaxContent
  /\ fatalSeen \in {"no", "thisRead", "earlier"}

\* No text is lost silently: what a read returned as whole was handed over to
\* the last unit, the text held back for re-tokenization included, and the
\* verdict "limit" is returned only when text was withheld (REQ-007).
TextIsWholeOrCut ==
  /\ verdict \in {"tool", "endTurn"} => written = received
  /\ verdict = "limit" => written < received

\* Reported usage is final: it covers all the turn produced, and in the read
\* after a tool call it is no older than that read's first content; a turn that
\* ends by itself after producing text has one (REQ-006A).
UsageIsFinal ==
  verdict \in {"endTurn", "limit"} =>
    /\ usage # <<>> => usage = <<produced>> /\ (before > 0 => produced > before)
    /\ usage = <<>> /\ verdict = "endTurn" => written = 0

\* A read that has received a non-retryable error does not end its turn with a
\* success, whatever the terminal status, that of a deliberate interrupt and
\* "completed" after more text included.  It may still surface a tool call.
FatalWinsAtTheEnd == fatalSeen = "thisRead" => verdict \in {"none", "tool", "failed"}

\* REQ-008: a non-retryable provider error remains fatal, so no later read of
\* the turn ends it with a success either.  The code breaks this: read_turn_inner
\* surfaces a tool call with the error set, and the read after continue_tool
\* starts with a TurnProgress that knows nothing of it.
FatalErrorFailsTheTurn == fatalSeen # "no" => verdict \notin {"endTurn", "limit"}

Output == INSTANCE TurnOutput WITH cut <- reached

\* The reader keeps the promise of TurnOutput: nothing beyond the ceiling,
\* nothing after a cut, and no tool call or natural end for a cut turn.
KeepsOutputContract == Output!Spec

\* Every read of a turn returns, also when the turn was interrupted and calls
\* of tools it no longer acts on are still in the channel.
EveryReadReturns == verdict = "none" ~> verdict # "none"
=============================================================================
