---------------------------- MODULE HttpDispatch ----------------------------
(***************************************************************************)
(* One Messages or Models exchange in the HTTP adapter: `dispatch` and the *)
(* response bodies of adapters/inbound/http.rs, the SSE sequence and the   *)
(* accumulators of contracts/anthropic/response.rs, and the gateway's      *)
(* `exchange` (adapters/outbound/anthropic.rs).                            *)
(*                                                                         *)
(* The routed request runs in a task of its own.  It is connected to the   *)
(* handler by three channels: a oneshot for the response head, a bounded   *)
(* channel of chunks, and a oneshot for the outcome.  A chunk is one unit  *)
(* of content, named by its number.                                        *)
(***************************************************************************)
EXTENDS Naturals, Sequences

CONSTANTS
  Capacity,    \* MODEL_DELTA_CHANNEL_CAPACITY
  Limit,       \* MAX_NON_STREAM_RESPONSE_BYTES, in chunks
  MaxChunks    \* bound: chunks the provider produces

ASSUME HttpAssumption ==
  /\ Capacity \in Nat \ {0}
  /\ Limit \in Nat
  /\ MaxChunks \in Nat

VARIABLES
  kind,      \* "stream", "whole" (GPT), "proxyStream", "proxyWhole" (Anthropic)
  task,      \* where the routed request's task is
  fetched,   \* chunks an aggregating gateway has collected
  head,      \* the head channel: "open", "sent", or "dropped" without a value
  chunks,    \* the chunk channel
  txOpen,    \* does its sending half exist?
  rxOpen,    \* do the receiving halves exist?
  outcome,   \* how the routed request ended: "none", "text", "tool", "error"
  sent,      \* has the outcome been sent?
  handler,   \* where the handler or the response body is
  queue,     \* frames of ResponseSequence not yet handed to the client
  textOpen,  \* ResponseSequence.text_started
  text,      \* chunks a non-stream response has accumulated
  wire,      \* what the client received
  response,  \* "open", "complete", "failed"
  produced   \* history: chunks sent into the channel

taskVars    == <<task, fetched, outcome, produced>>
channelVars == <<head, chunks, txOpen, rxOpen, sent>>
bodyVars    == <<handler, queue, textOpen, text, wire, response>>
vars == <<kind, taskVars, channelVars, bodyVars>>

Kinds == {"stream", "whole", "proxyStream", "proxyWhole"}
Local == {"stream", "whole"}

Start             == [kind |-> "message_start", index |-> 0, chunk |-> 0]
BlockStart(i)     == [kind |-> "content_block_start", index |-> i, chunk |-> 0]
BlockDelta(i, n)  == [kind |-> "content_block_delta", index |-> i, chunk |-> n]
BlockStop(i)      == [kind |-> "content_block_stop", index |-> i, chunk |-> 0]
Delta             == [kind |-> "message_delta", index |-> 0, chunk |-> 0]
Stop              == [kind |-> "message_stop", index |-> 0, chunk |-> 0]
Error             == [kind |-> "error", index |-> 0, chunk |-> 0]

Frame == [kind : {"message_start", "content_block_start", "content_block_delta",
                  "content_block_stop", "message_delta", "message_stop", "error"},
          index : {0, 1}, chunk : 0..MaxChunks]

\* A delta of text; tool arguments are a delta of no chunk.
IsContent(f) == f.kind = "content_block_delta" /\ f.chunk # 0

\* The numbers of the chunks in a sequence of frames.
ChunksOf(frames) ==
  LET upTo[n \in 0..Len(frames)] ==
        IF n = 0 THEN <<>>
        ELSE IF IsContent(frames[n]) THEN Append(upTo[n - 1], frames[n].chunk)
        ELSE upTo[n - 1]
  IN  upTo[Len(frames)]

-----------------------------------------------------------------------------
(* The task: dispatch_request, and exchange for Anthropic.                 *)

Goto(label) == task' = label

\* The request is sent upstream; an error, or a redirect, is an outcome.
Connect ==
  /\ task = "connect"
  /\ \/ Goto(IF kind = "proxyWhole" THEN "fetch" ELSE "start") /\ UNCHANGED outcome
     \/ Goto("drop") /\ outcome' = "error"
  /\ UNCHANGED <<kind, fetched, produced, channelVars, bodyVars>>

\* A non-stream body is aggregated within the limit before the head is sent.
Fetch ==
  /\ task = "fetch"
  /\ \/ /\ fetched < MaxChunks
        /\ fetched' = fetched + 1
        /\ IF fetched' > Limit THEN Goto("drop") /\ outcome' = "error"
           ELSE UNCHANGED <<task, outcome>>
     \/ Goto("start") /\ UNCHANGED <<fetched, outcome>>
     \/ Goto("drop") /\ outcome' = "error" /\ UNCHANGED fetched
  /\ UNCHANGED <<kind, produced, channelVars, bodyVars>>

\* ChannelModelResponseSink::start.
SendHead ==
  /\ task = "start"
  /\ IF rxOpen
     THEN head' = "sent" /\ Goto("produce") /\ UNCHANGED outcome
     ELSE Goto("drop") /\ outcome' = "error" /\ UNCHANGED head
  /\ UNCHANGED <<kind, fetched, produced, chunks, txOpen, rxOpen, sent, bodyVars>>

\* Is there more to produce?  An aggregated body is one chunk, or none.
More == IF kind = "proxyWhole" THEN produced < 1 /\ fetched > 0 ELSE produced < MaxChunks

\* ChannelModelResponseSink::emit waits for room, and fails when the client is gone.
Emit ==
  /\ task = "produce"
  /\ More
  /\ \/ /\ rxOpen /\ Len(chunks) < Capacity
        /\ chunks' = Append(chunks, produced + 1)
        /\ produced' = produced + 1
        /\ UNCHANGED <<task, outcome>>
     \/ /\ ~rxOpen
        /\ Goto("drop") /\ outcome' = "error"
        /\ UNCHANGED <<chunks, produced>>
  /\ UNCHANGED <<kind, fetched, head, txOpen, rxOpen, sent, bodyVars>>

\* The provider is done, or fails in the middle of its content.
ProducerEnds ==
  /\ task = "produce"
  /\ outcome' \in (IF kind \in Local THEN {"text", "tool"}
                   ELSE IF kind = "proxyWhole" /\ More THEN {} ELSE {"text"})
                  \cup (IF kind = "proxyWhole" THEN {} ELSE {"error"})
  /\ Goto("drop")
  /\ UNCHANGED <<kind, fetched, produced, channelVars, bodyVars>>

\* Mutant: `dispatch` keeps its own reference to the sink.
DropSinkKept ==
  /\ task = "drop"
  /\ Goto("answer")
  /\ UNCHANGED <<kind, fetched, outcome, produced, head, chunks, txOpen, rxOpen, sent, bodyVars>>

\* The last reference to the sink goes before the outcome is sent.
DropSink ==
  /\ task = "drop"
  /\ txOpen' = FALSE
  /\ head' = IF head = "open" THEN "dropped" ELSE head
  /\ Goto("answer")
  /\ UNCHANGED <<kind, fetched, outcome, produced, chunks, rxOpen, sent, bodyVars>>

SendOutcome ==
  /\ task = "answer"
  /\ sent' = TRUE
  /\ Goto("done")
  /\ UNCHANGED <<kind, fetched, outcome, produced, head, chunks, txOpen, rxOpen, bodyVars>>

-----------------------------------------------------------------------------
(* The handler: select polls the head, then the outcome.                   *)

\* The receivers go with the handler or with the body.
Ends(result) ==
  /\ response' = result
  /\ handler' = "ended"
  /\ rxOpen' = FALSE

SelectHead ==
  /\ handler = "select"
  /\ \/ /\ head = "sent"
        /\ handler' = IF kind = "whole" THEN "collect" ELSE "deltas"
        /\ queue' = IF kind = "stream" THEN <<Start>> ELSE <<>>
        /\ UNCHANGED <<response, rxOpen>>
     \* The head's sender is gone, or a proxied head cannot be represented.
     \/ /\ \/ head = "dropped"
           \/ head = "sent" /\ kind \notin Local
        /\ Ends("failed")
        /\ UNCHANGED queue
     \/ /\ head = "open"
        /\ handler' = "selectOutcome"
        /\ UNCHANGED <<queue, response, rxOpen>>
  /\ UNCHANGED <<kind, taskVars, head, chunks, txOpen, sent, textOpen, text, wire>>

\* Whatever the outcome is, without a head it is an error.
SelectOutcome ==
  /\ handler = "selectOutcome"
  /\ IF sent THEN Ends("failed") ELSE handler' = "select" /\ UNCHANGED <<response, rxOpen>>
  /\ UNCHANGED <<kind, taskVars, head, chunks, txOpen, sent, queue, textOpen, text, wire>>

-----------------------------------------------------------------------------
(* model_stream_step and ResponseSequence.                                 *)

\* A queued frame goes out before anything else is looked at.
PopFrame ==
  /\ queue # <<>>
  /\ handler \in {"deltas", "outcome", "finished"}
  /\ wire' = Append(wire, Head(queue))
  /\ queue' = Tail(queue)
  /\ UNCHANGED <<kind, taskVars, channelVars, handler, textOpen, text, response>>

Receives ==
  /\ handler = "deltas" /\ queue = <<>>
  /\ chunks # <<>>
  /\ chunks' = Tail(chunks)

\* ResponseSequence::accept_delta.
AcceptDelta ==
  /\ kind = "stream"
  /\ Receives
  /\ queue' = (IF textOpen THEN <<>> ELSE <<BlockStart(0)>>) \o <<BlockDelta(0, Head(chunks))>>
  /\ textOpen' = TRUE
  /\ UNCHANGED <<kind, taskVars, head, txOpen, rxOpen, sent, handler, text, wire, response>>

\* Mutant: the outcome is waited for beside the chunks, not after them.
OutcomeBesideChunks ==
  /\ handler = "deltas" /\ queue = <<>>
  /\ sent
  /\ handler' = "outcome"
  /\ UNCHANGED <<kind, taskVars, channelVars, queue, textOpen, text, wire, response>>

\* recv returns None once the senders are gone and the channel is empty.
ChunksAreOver ==
  /\ handler = "deltas" /\ queue = <<>>
  /\ chunks = <<>> /\ ~txOpen
  /\ handler' = "outcome"
  /\ UNCHANGED <<kind, taskVars, channelVars, queue, textOpen, text, wire, response>>

ToolFrames(i) == <<BlockStart(i), BlockDelta(i, 0), BlockStop(i)>>

\* Mutant: a tool call is a block of its own, but always the first one.
FinishFramesFirstIndex ==
  (CASE outcome = "text" -> (IF textOpen THEN <<>> ELSE <<BlockStart(0)>>) \o <<BlockStop(0)>>
     [] outcome = "tool" -> (IF textOpen THEN <<BlockStop(0)>> ELSE <<>>) \o ToolFrames(0))
  \o <<Delta, Stop>>

\* ResponseSequence::finish.
FinishFrames ==
  (CASE outcome = "text" -> (IF textOpen THEN <<>> ELSE <<BlockStart(0)>>) \o <<BlockStop(0)>>
     [] outcome = "tool" -> IF textOpen THEN <<BlockStop(0)>> \o ToolFrames(1) ELSE ToolFrames(0))
  \o <<Delta, Stop>>

\* The outcome of a stream: the frames that finish it, or one error frame.
StreamOutcome ==
  /\ kind = "stream"
  /\ handler = "outcome" /\ queue = <<>>
  /\ sent
  /\ queue' = IF outcome = "error" THEN <<Error>> ELSE FinishFrames
  /\ handler' = "finished"
  /\ UNCHANGED <<kind, taskVars, channelVars, textOpen, text, wire, response>>

StreamEnds ==
  /\ kind = "stream"
  /\ handler = "finished" /\ queue = <<>>
  /\ Ends(IF wire[Len(wire)] = Stop THEN "complete" ELSE "failed")
  /\ UNCHANGED <<kind, taskVars, head, chunks, txOpen, sent, queue, textOpen, text, wire>>

-----------------------------------------------------------------------------
(* anthropic_body_step: chunks as they are, then the end or an error.      *)

RelayChunk ==
  /\ kind \notin Local
  /\ Receives
  /\ wire' = Append(wire, BlockDelta(0, Head(chunks)))
  /\ UNCHANGED <<kind, taskVars, head, txOpen, rxOpen, sent, handler, queue, textOpen, text,
                 response>>

RelayOutcome ==
  /\ kind \notin Local
  /\ handler = "outcome"
  /\ sent
  /\ Ends(IF outcome = "error" THEN "failed" ELSE "complete")
  /\ UNCHANGED <<kind, taskVars, head, chunks, txOpen, sent, queue, textOpen, text, wire>>

-----------------------------------------------------------------------------
(* non_stream_message and MessageAccumulator.                              *)

\* Mutant: the aggregate limit is not looked at.
CollectUnlimited ==
  /\ handler = "collect"
  /\ chunks # <<>>
  /\ chunks' = Tail(chunks)
  /\ text' = Append(text, Head(chunks))
  /\ UNCHANGED <<kind, taskVars, head, txOpen, rxOpen, sent, handler, queue, textOpen, wire,
                 response>>

Collect ==
  /\ handler = "collect"
  /\ chunks # <<>>
  /\ chunks' = Tail(chunks)
  /\ IF Len(text) + 1 > Limit
     THEN Ends("failed") /\ UNCHANGED text
     ELSE text' = Append(text, Head(chunks)) /\ UNCHANGED <<handler, response, rxOpen>>
  /\ UNCHANGED <<kind, taskVars, head, txOpen, sent, queue, textOpen, wire>>

\* The message is built from the accumulated text and the outcome; its encoding
\* may still pass the limit.
WholeOutcome ==
  /\ handler = "collect"
  /\ chunks = <<>> /\ ~txOpen
  /\ sent
  /\ \/ /\ outcome # "error"
        /\ wire' = [i \in DOMAIN text |-> BlockDelta(0, text[i])]
        /\ Ends("complete")
     \/ Ends("failed") /\ UNCHANGED wire
  /\ UNCHANGED <<kind, taskVars, head, chunks, txOpen, sent, queue, textOpen, text>>

-----------------------------------------------------------------------------
\* The client closes its connection: the handler or the body is dropped.
ClientLeaves ==
  /\ response = "open"
  /\ Ends("failed")
  /\ UNCHANGED <<kind, taskVars, head, chunks, txOpen, sent, queue, textOpen, text, wire>>

Init ==
  /\ kind \in Kinds
  /\ task = IF kind \in Local THEN "start" ELSE "connect"
  /\ fetched = 0
  /\ head = "open"
  /\ chunks = <<>>
  /\ txOpen = TRUE /\ rxOpen = TRUE
  /\ outcome = "none"
  /\ sent = FALSE
  /\ handler = "select"
  /\ queue = <<>> /\ textOpen = FALSE
  /\ text = <<>>
  /\ wire = <<>>
  /\ response = "open"
  /\ produced = 0

TaskStep == Connect \/ Fetch \/ SendHead \/ Emit \/ ProducerEnds \/ DropSink \/ SendOutcome

SelectStep == SelectHead \/ SelectOutcome

BodyStep ==
  \/ PopFrame \/ AcceptDelta \/ ChunksAreOver \/ StreamOutcome \/ StreamEnds
  \/ RelayChunk \/ RelayOutcome \/ Collect \/ WholeOutcome

Over == response # "open" /\ task = "done" /\ UNCHANGED vars

Next == TaskStep \/ SelectStep \/ BodyStep \/ ClientLeaves \/ Over

Spec == Init /\ [][Next]_vars

\* The task is polled and its provider answers (the timers of runtime.rs, or the
\* HTTP client); the handler is polled; the client reads its response.
FairSpec ==
  /\ Spec
  /\ WF_vars(TaskStep)
  /\ WF_vars(SelectStep)
  /\ WF_vars(BodyStep)

-----------------------------------------------------------------------------
(* Properties.                                                             *)

\* Every variable has its type; the chunk channel is within its capacity.
TaskTypes ==
  /\ kind \in Kinds
  /\ task \in {"connect", "fetch", "start", "produce", "drop", "answer", "done"}
  /\ fetched \in 0..MaxChunks
  /\ outcome \in {"none", "text", "tool", "error"}
  /\ produced \in 0..MaxChunks

ChannelTypes ==
  /\ head \in {"open", "sent", "dropped"}
  /\ chunks \in Seq(1..MaxChunks) /\ Len(chunks) <= Capacity
  /\ txOpen \in BOOLEAN /\ rxOpen \in BOOLEAN /\ sent \in BOOLEAN

BodyTypes ==
  /\ handler \in {"select", "selectOutcome", "deltas", "outcome", "finished", "collect", "ended"}
  /\ queue \in Seq(Frame)
  /\ textOpen \in BOOLEAN
  /\ text \in Seq(1..MaxChunks)
  /\ wire \in Seq(Frame)
  /\ response \in {"open", "complete", "failed"}

TypeOK == TaskTypes /\ ChannelTypes /\ BodyTypes

Starts(n, i) == \E j \in 1..n : wire[j] = BlockStart(i)
Stops(n, i)  == \E j \in 1..n : wire[j] = BlockStop(i)

\* A client that parses the stream frame by frame is never surprised: one block
\* is open at a time, indices count blocks, the message ends once, after its
\* blocks, and nothing follows its end or an error.
FramesAreWellFormed ==
  kind = "stream" => \A n \in DOMAIN wire :
    LET f == wire[n]
        before == n - 1
    IN
    /\ f.kind = "message_start" <=> n = 1
    /\ f.kind = "content_block_start" =>
         /\ ~Starts(before, f.index)
         /\ f.index = 1 => Stops(before, 0)
    /\ f.kind \in {"content_block_delta", "content_block_stop"} =>
         Starts(before, f.index) /\ ~Stops(before, f.index)
    /\ f.kind = "message_delta" =>
         Starts(before, 0) /\ \A i \in {0, 1} : Starts(before, i) => Stops(before, i)
    /\ f.kind = "message_stop" => wire[before] = Delta
    /\ f.kind \in {"message_stop", "error"} => n = Len(wire)

\* A non-stream response that completes was produced within the aggregate limit
\* (REQ-013), whichever side of the channels aggregates it.
AggregatesAreLimited ==
  response = "complete" =>
    /\ kind = "whole" => produced <= Limit
    /\ kind = "proxyWhole" => fetched <= Limit

Contract == INSTANCE ResponseRelay
              WITH ended <- CASE outcome = "none" -> "no"
                              [] outcome = "error" -> "error"
                              [] OTHER -> "ok",
                   received <- ChunksOf(wire)

\* The adapter relays what was produced, unchanged and in order, and reports
\* success only for all of it: no error is lost on the way, whichever of the
\* three channels is read first.
KeepsRelayContract == Contract!Spec

\* Every exchange ends, however little the channel holds: the task does not wait
\* for a body that is gone, nor the body for a sender nobody drops.
EveryExchangeEnds == <>(response # "open" /\ task = "done")

=============================================================================
