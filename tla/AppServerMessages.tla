-------------------------- MODULE AppServerMessages --------------------------
(***************************************************************************)
(* What the App Server writes, byte by byte, and what becomes of it:       *)
(* frames (runtime.rs: read_capped_line), JSON-RPC messages and their      *)
(* destination (dispatch), the validation of turn events                   *)
(* (contracts/codex/messages.rs), and dynamic tools under their aliases    *)
(* (contracts/codex/tool_names.rs).                                        *)
(*                                                                         *)
(* Several turns share the connection.  Each has the thread and the turn   *)
(* of its own name.  The interleavings inside dispatch, fail and the       *)
(* release of a thread are those of AppServerConnection; here each is one  *)
(* step, and the content of the messages is what matters.                  *)
(***************************************************************************)
EXTENDS FiniteSets, SequencesExt

CONSTANTS
  Turns,       \* turns, the names of their threads too
  ToolLists,   \* the names of the tools of a request
  ValidNames,  \* names valid_claude_tool_name accepts
  Messages,    \* lines the App Server may write
  MaxFrame,    \* MAX_APP_SERVER_FRAME_BYTES
  MaxPipe,     \* bound: bytes on their way when a line is written
  MaxLines     \* bound: lines the App Server writes

None == "none"
NoId == [form |-> "none", value |-> 0]
Ids  == [form : {"none", "number", "string"}, value : Nat]

ASSUME MessagesAssumption == MaxFrame \in Nat /\ MaxPipe \in Nat /\ MaxLines \in Nat

\* An empty line is no JSON.
ASSUME LinesAssumption ==
  \A message \in Messages :
    /\ message.size \in Nat /\ message.decodes \in BOOLEAN /\ message.whole \in BOOLEAN
    /\ message.decodes => message.size > 0
    /\ message.id \in Ids

VARIABLES
  wire,        \* bytes on their way, each of a line or the end of one
  output,      \* the child's stdout: "open" or "closed"
  frame,       \* bytes of the line that is being read
  connection,  \* "alive" or "failed"
  requested,   \* turns in the order of their turn/start; its id is the position
  awaited,     \* pending_requests
  turn,        \* where each turn is
  aliases,     \* dynamic_tool_names: Claude's names by the number in the alias
  inbox,       \* thread_events
  pendingTool, \* what AppServerContinuation keeps: the id of the tool request
  \* history, for the properties
  written,     \* lines the App Server has written
  read,        \* lines that were dispatched
  declared,    \* what thread/start told the App Server of the aliases
  handed,      \* tool calls Claude was given
  answered     \* results the App Server was given

serverVars == <<output, written>>
readerVars == <<frame, read>>
turnVars   == <<turn, aliases, inbox, pendingTool>>
toolVars   == <<declared, handed, answered>>
vars == <<wire, serverVars, readerVars, connection, requested, awaited, turnVars, toolVars>>

Byte(line) == [line |-> line, end |-> FALSE]
End(line)  == [line |-> line, end |-> TRUE]

\* The bytes of a line, without its delimiter.
Text(line) == [i \in 1..written[line].size |-> Byte(line)]

Init ==
  /\ wire = <<>> /\ output = "open" /\ frame = <<>> /\ connection = "alive"
  /\ requested = <<>> /\ awaited = {}
  /\ turn = [t \in Turns |-> "idle"]
  /\ aliases = [t \in Turns |-> <<>>]
  /\ inbox = [t \in Turns |-> <<>>]
  /\ pendingTool = [t \in Turns |-> NoId]
  /\ written = <<>> /\ read = 0
  /\ declared = [t \in Turns |-> <<>>] /\ handed = {} /\ answered = {}

-----------------------------------------------------------------------------
(* The App Server and its pipe.                                            *)

ServerWrites ==
  /\ output = "open" /\ Len(written) < MaxLines /\ Len(wire) <= MaxPipe
  /\ \E message \in Messages :
       LET line == Len(written) + 1 IN
       /\ written' = Append(written, message)
       /\ wire' = wire \o [i \in 1..message.size |-> Byte(line)] \o <<End(line)>>
  /\ UNCHANGED <<output, readerVars, connection, requested, awaited, turnVars, toolVars>>

\* The App Server ends, perhaps before its last line has left it.
ServerCloses ==
  /\ output = "open"
  /\ output' = "closed"
  /\ \/ UNCHANGED wire
     \/ wire # <<>> /\ wire' = Front(wire)
  /\ UNCHANGED <<written, readerVars, connection, requested, awaited, turnVars, toolVars>>

-----------------------------------------------------------------------------
(* Dynamic tools, and the start of a turn.                                 *)

\* DynamicToolNames::from_claude_tools; alias number i stands for tools[i].
Aliasable(tools) == Range(tools) \subseteq ValidNames /\ IsInjective(tools)

\* A thread is in thread_senders from its start to its release.
Registered == {t \in Turns : turn[t] \in {"starting", "reading", "held"}}

\* start_turn up to its turn/start; its thread has been started and registered.
StartTurn(t) ==
  /\ connection = "alive" /\ turn[t] = "idle"
  /\ \E tools \in ToolLists :
       IF Aliasable(tools)
       THEN /\ turn' = [turn EXCEPT ![t] = "starting"]
            /\ aliases' = [aliases EXCEPT ![t] = tools]
            /\ declared' = [declared EXCEPT ![t] = tools]
            /\ requested' = Append(requested, t)
            /\ awaited' = awaited \cup {Len(requested) + 1}
       ELSE /\ turn' = [turn EXCEPT ![t] = "refused"]
            /\ UNCHANGED <<aliases, declared, requested, awaited>>
  /\ UNCHANGED <<wire, serverVars, readerVars, connection, inbox, pendingTool, handed, answered>>

-----------------------------------------------------------------------------
(* Frames and their destination.                                           *)

\* Mutant: a line that fills the frame is refused.
TooLongAtCap(length) == length >= MaxFrame

TooLong(length) == length > MaxFrame

\* fail: requests and registered threads learn of it, events before it are kept.
Fail ==
  /\ connection' = "failed"
  /\ awaited' = {}
  /\ turn' = [t \in Turns |-> IF turn[t] = "starting" THEN "failed" ELSE turn[t]]
  /\ inbox' = [t \in Turns |-> IF turn[t] \in {"reading", "held"}
                               THEN Append(inbox[t], [method |-> "failure"]) ELSE <<>>]

\* A message without method is the answer to the request of its numeric id.
DispatchResponse(message) ==
  LET id == message.id.value IN
  IF message.id.form = "number" /\ id \in awaited
  THEN /\ awaited' = awaited \ {id}
       /\ turn' = [turn EXCEPT ![requested[id]] = IF message.whole THEN "reading" ELSE "failed"]
       /\ inbox' = IF message.whole THEN inbox ELSE [inbox EXCEPT ![requested[id]] = <<>>]
       /\ UNCHANGED connection
  ELSE Fail

\* An event goes to the thread it names; its content is the reader's concern.
DispatchEvent(message) ==
  IF message.thread \in Registered
  THEN /\ inbox' = [inbox EXCEPT ![message.thread] = Append(@, message)]
       /\ UNCHANGED <<connection, awaited, turn>>
  ELSE Fail

\* The one notification that is looked at and ignored.
IgnoreWarning(message) ==
  IF message.id = NoId /\ message.whole
  THEN UNCHANGED <<connection, awaited, turn, inbox>>
  ELSE Fail

Dispatch(message) ==
  CASE message.method = None            -> DispatchResponse(message)
    [] message.method = "configWarning" -> IgnoreWarning(message)
    [] OTHER                            -> DispatchEvent(message)

\* decode_message: is the frame the whole of a line that is UTF-8 and JSON-RPC?
Decoded(bytes) == {n \in DOMAIN written : written[n].decodes /\ bytes = Text(n)}

\* One turn of the loop of read_capped_line: any part of what was written may be
\* in the buffer.  A line that is over is decoded and dispatched.
ReadAvailable ==
  /\ connection = "alive" /\ wire # <<>>
  /\ \E available \in 1..Len(wire) :
       LET delimiters == {i \in 1..available : wire[i].end}
           over == delimiters # {}
           take == IF over THEN Min(delimiters) - 1 ELSE available
           bytes == frame \o SubSeq(wire, 1, take)
       IN
       IF TooLong(Len(bytes))
       THEN Fail /\ UNCHANGED <<wire, frame, read>>
       ELSE IF ~over
       THEN /\ frame' = bytes
            /\ wire' = SubSeq(wire, take + 1, Len(wire))
            /\ UNCHANGED <<read, connection, awaited, turn, inbox>>
       ELSE /\ frame' = <<>>
            /\ wire' = SubSeq(wire, take + 2, Len(wire))
            /\ read' = read + 1
            /\ IF Decoded(bytes) = {} THEN Fail
               ELSE \A n \in Decoded(bytes) : Dispatch(written[n])
  /\ UNCHANGED <<serverVars, requested, aliases, pendingTool, toolVars>>

\* The end of the file; a line without delimiter is lost with it.
ReadEnd ==
  /\ connection = "alive" /\ wire = <<>> /\ output = "closed"
  /\ Fail
  /\ UNCHANGED <<wire, serverVars, readerVars, requested, aliases, pendingTool, toolVars>>

-----------------------------------------------------------------------------
(* The events of a turn.                                                   *)

AllowedItems == {"agentMessage", "reasoning", "userMessage", "dynamicToolCall"}

\* The checks common to all events of a turn, on what they name and contain.
InScope(message, t) == message.thread = t /\ message.turn = t /\ message.whole

\* parse_tool_call.
ToolIsKnown(message, t) == message.id # NoId /\ message.tool \in DOMAIN aliases[t]

\* A usage report or an error is checked as a delta is, and "completed" stands for
\* an end with success: what becomes of the others is in TurnReader.
TurnEvents == {"delta", "tool", "item", "completed"}

\* Does the reader of the turn accept the event?
Accepts(message, t) ==
  /\ message.method \in TurnEvents
  /\ InScope(message, t)
  /\ message.method = "tool" => ToolIsKnown(message, t)
  /\ message.items \subseteq AllowedItems

\* read_turn returns, and the thread is released unless a tool call is held.
Returns(t, state) ==
  /\ turn' = [turn EXCEPT ![t] = state]
  /\ inbox' = [inbox EXCEPT ![t] = IF state = "held" THEN Tail(@) ELSE <<>>]

ReadEvent(t) ==
  /\ turn[t] = "reading" /\ inbox[t] # <<>>
  /\ LET message == Head(inbox[t]) IN
     IF ~Accepts(message, t) THEN Returns(t, "failed") /\ UNCHANGED <<pendingTool, handed>>
     ELSE IF message.method = "completed" THEN Returns(t, "done") /\ UNCHANGED <<pendingTool, handed>>
     ELSE IF message.method = "tool"
     THEN /\ Returns(t, "held")
          /\ pendingTool' = [pendingTool EXCEPT ![t] = message.id]
          /\ handed' = handed \cup {[turn |-> t, call |-> message.call,
                                     name |-> aliases[t][message.tool]]}
     ELSE /\ inbox' = [inbox EXCEPT ![t] = Tail(@)]
          /\ UNCHANGED <<turn, pendingTool, handed>>
  /\ UNCHANGED <<wire, serverVars, readerVars, connection, requested, awaited, aliases, declared,
                 answered>>

\* The result goes back under the id of the request, number or string as it was.
Answers(t) ==
  IF connection = "alive"
  THEN /\ turn' = [turn EXCEPT ![t] = "reading"]
       /\ answered' = answered \cup {[turn |-> t, id |-> pendingTool[t]]}
       /\ UNCHANGED inbox
  ELSE Returns(t, "failed") /\ UNCHANGED answered

\* Mutant: the tools of the request that brings the result replace the aliases.
ContinueToolRenamed(t) ==
  /\ turn[t] = "held"
  /\ Answers(t)
  /\ \E tools \in ToolLists : Aliasable(tools) /\ aliases' = [aliases EXCEPT ![t] = tools]
  /\ pendingTool' = [pendingTool EXCEPT ![t] = NoId]
  /\ UNCHANGED <<wire, serverVars, readerVars, connection, requested, awaited, declared, handed>>

\* continue_tool.
ContinueTool(t) ==
  /\ turn[t] = "held"
  /\ Answers(t)
  /\ pendingTool' = [pendingTool EXCEPT ![t] = NoId]
  /\ UNCHANGED <<wire, serverVars, readerVars, connection, requested, awaited, aliases, declared,
                 handed>>

\* The retained session is dropped.
ExpireTool(t) ==
  /\ turn[t] = "held"
  /\ Returns(t, "expired")
  /\ UNCHANGED <<wire, serverVars, readerVars, connection, requested, awaited, aliases,
                 pendingTool, toolVars>>

Next ==
  \/ ServerWrites \/ ServerCloses
  \/ ReadAvailable \/ ReadEnd
  \/ \E t \in Turns : StartTurn(t) \/ ReadEvent(t) \/ ContinueTool(t) \/ ExpireTool(t)

Spec == Init /\ [][Next]_vars

-----------------------------------------------------------------------------
(* Properties.                                                             *)

IsEvent(message) == message.method \notin {None, "configWarning"}

\* The lines of the turn's thread that were dispatched.
Own(t) == {n \in 1..read : IsEvent(written[n]) /\ written[n].thread = t}

\* What no turn can be blamed for: it cannot be read, or belongs to none of them.
Unscoped(n) ==
  LET message == written[n] IN
  \/ message.size > MaxFrame \/ ~message.decodes
  \/ message.method = "configWarning" /\ (message.id # NoId \/ ~message.whole)
  \/ message.method = None /\ message.id \notin [form : {"number"}, value : DOMAIN requested]
  \/ message.method = None /\ \E k \in 1..(n - 1) :
       written[k].method = None /\ written[k].id = message.id
  \/ IsEvent(message) /\ message.thread \notin Turns

Faulty(message, t) ==
  \/ message.method \notin TurnEvents \/ message.turn # t \/ ~message.whole
  \/ message.items \ AllowedItems # {}
  \/ message.method = "tool" /\ (message.id = NoId \/ message.tool \notin DOMAIN declared[t])

OfNoTurn(n) ==
  \/ Unscoped(n)
  \/ IsEvent(written[n]) /\ turn[written[n].thread] \notin {"reading", "held"}

\* A fault hits whom it concerns.  The connection, which all turns share, fails
\* only for a line that is of no turn, at its end or longer than a frame may be,
\* however the bytes are cut into reads, and for every such line; a turn fails
\* only with it or for an event of its own; and it succeeds only if all its
\* events up to its end are its own, complete, and show no built-in item.
FaultsHitTheirTurn ==
  /\ connection = "alive" => \A n \in 1..read : ~Unscoped(n)
  /\ connection = "failed" =>
       \/ output = "closed" /\ wire = <<>>
       \/ \E n \in {read, read + 1} \cap DOMAIN written : OfNoTurn(n)
  /\ \A t \in Turns :
       /\ turn[t] = "failed" =>
            \/ connection = "failed"
            \/ \E n \in Own(t) : Faulty(written[n], t)
            \/ \E n \in 1..read : /\ written[n].method = None /\ ~written[n].whole
                                  /\ requested[written[n].id.value] = t
       /\ turn[t] = "done" =>
            \E end \in Own(t) :
              /\ written[end].method = "completed"
              /\ \A n \in Own(t) : n <= end => ~Faulty(written[n], t)

\* A tool call means to Claude what it means to the App Server: it carries the
\* name that thread/start declared for its alias, also after a continuation that
\* brings other tools; and a result goes back under the id of a call of its own
\* turn.
ToolCallsKeepTheirMeaning ==
  LET Calls(t) == {written[n] : n \in {k \in Own(t) : written[k].method = "tool"}} IN
  /\ \A h \in handed : \E message \in Calls(h.turn) :
       /\ message.call = h.call
       /\ message.tool \in DOMAIN declared[h.turn] /\ h.name = declared[h.turn][message.tool]
  /\ \A a \in answered : \E message \in Calls(a.turn) : message.id = a.id
=============================================================================
