------------------------ MODULE AppServerConnection ------------------------
(***************************************************************************)
(* The JSON-RPC connection to one `codex app-server` child that every GPT  *)
(* turn of the bridge shares (adapters/outbound/codex/runtime.rs).         *)
(*                                                                         *)
(* A caller is one CodexRuntime session: it starts a thread, registers the *)
(* thread's event channel, starts a turn, reads the turn's events, and may *)
(* interrupt the turn or be retained while Claude runs a tool.  One reader *)
(* task dispatches what the child writes.  Whoever first observes a fault  *)
(* runs `fail`, step by step, while all the others keep running.           *)
(*                                                                         *)
(* A step of the model is the code between two points where another task   *)
(* can observe or change shared state: an await, a lock, an atomic.        *)
(***************************************************************************)
EXTENDS Naturals, Sequences

CONSTANTS
  Callers,     \* CodexRuntime sessions on this connection, one turn each
  Threads,     \* thread identifiers the App Server can hand out
  Reader,      \* the read_loop task
  NoCaller,    \* "no task" / "no registration"
  NoThread,    \* "no thread identifier received yet"
  MaxId,       \* the largest request id: u64::MAX in the code
  MaxEvents    \* bound: non-terminal events the App Server emits per turn

ASSUME ConnectionAssumption ==
  /\ Reader \notin Callers
  /\ NoCaller \notin Callers \cup {Reader}
  /\ NoThread \notin Threads
  /\ MaxId \in Nat /\ MaxId >= 2
  /\ MaxEvents \in Nat

VARIABLES
  pc,          \* where each caller is
  method,      \* the request a caller is making or made last
  reqId,       \* id of that request
  answer,      \* content of the oneshot receiver of that request
  thread,      \* the thread identifier the caller was given
  queue,       \* unread events in the caller's thread_events channel
  rxOpen,      \* is the receiving half of that channel held?
  outcome,     \* how the session ended
  nextId,      \* next_id
  lock,        \* holder of the pending_requests mutex across two steps
  pending,     \* pending_requests: a set of <<id, caller>>
  senders,     \* thread_senders
  alive,       \* alive
  failer,      \* the task that won the race to fail the connection
  failStep,    \* how far `fail` has come
  failure,     \* failure: the recorded cause
  drained,     \* the pending requests `fail` has taken out of the map
  readerPc,    \* where the reader is
  readerError, \* the error the reader is about to fail with
  held,        \* the message the reader is dispatching
  written,     \* App Server: requests read from its stdin, unanswered
  turn,        \* App Server: is a turn running on this thread?
  sent         \* App Server: non-terminal events emitted in that turn

callerVars == <<pc, method, reqId, answer, thread, queue, rxOpen, outcome>>
tableVars  == <<nextId, lock, pending, senders>>
failVars   == <<alive, failer, failStep, failure, drained>>
readerVars == <<readerPc, readerError, held>>
serverVars == <<written, turn, sent>>
vars == <<callerVars, tableVars, failVars, readerVars, serverVars>>

Labels == {"allocate", "lock", "insert", "send", "write", "await", "remove",
           "failWrite", "failTimeout", "register", "subscribe", "read", "retained",
           "release", "dropped", "unregister", "close", "done"}
Answers    == {"none", "ok", "rpcError", "failed"}
Outcomes   == {"none", "completed", "left", "cutOff"}
FailSteps  == {"none", "record", "pending", "notify", "threads", "done"}
ReaderLabels == {"read", "deliver", "forward", "fail", "stopped"}
Requests == {"threadStart", "turnStart", "interrupt"}
Methods  == Requests \cup {"resolution"}
Causes   == {"timeout", "write", "protocol", "unknownThread", "closedReceiver"}
EventKinds == {"event", "completed", "err"}
Nothing  == [id |-> 0]

Response == [id : 0..MaxId, method : Requests, caller : Callers,
             for : Callers, result : {"ok", "rpcError"}, thread : Threads \cup {NoThread}]
Entry    == (0..MaxId) \X Callers
Sent     == [id : 0..MaxId, method : Requests, caller : Callers]
Event    == [thread : Threads, caller : Callers, kind : {"event", "completed"}]

-----------------------------------------------------------------------------
(* Helpers.                                                                *)

Goto(c, label) == pc' = [pc EXCEPT ![c] = label]

Ids(requests) == {p[1] : p \in requests}
Without(requests, id) == {p \in requests : p[1] # id}

\* Hands one result to the oneshot receivers of a set of pending requests.
Deliver(requests, result) ==
  answer' = [c \in Callers |->
               IF <<reqId[c], c>> \in requests THEN result ELSE answer[c]]

\* Mutant: an error of turn/start or turn/interrupt returns without release_thread.
LeaveRequestUnreleased(c, how) ==
  /\ outcome' = [outcome EXCEPT ![c] = how]
  /\ Goto(c, IF method[c] = "resolution" THEN "dropped" ELSE "done")

\* A caller leaves after an error of its current request.  Only a request made
\* while a thread is registered has something to release.
LeaveRequest(c, how) ==
  /\ outcome' = [outcome EXCEPT ![c] = how]
  /\ Goto(c, IF method[c] = "threadStart" THEN "done"
             ELSE IF method[c] = "resolution" THEN "dropped" ELSE "release")

\* The read loop of a turn ends: release_thread runs.
LeaveRead(c, how) ==
  /\ outcome' = [outcome EXCEPT ![c] = how]
  /\ Goto(c, "release")

-----------------------------------------------------------------------------
(* request: an id, an entry in the pending map, the write, the answer.     *)

\* Mutant: the id is read and the counter is not advanced.
AllocateIdTwice(c) ==
  /\ pc[c] = "allocate"
  /\ reqId' = [reqId EXCEPT ![c] = nextId]
  /\ answer' = [answer EXCEPT ![c] = "none"]
  /\ Goto(c, "lock")
  /\ UNCHANGED <<outcome, method, thread, queue, rxOpen, tableVars, failVars, readerVars,
                 serverVars>>

\* fetch_update with checked_add: the id is taken or the counter is exhausted.
AllocateId(c) ==
  /\ pc[c] = "allocate"
  /\ IF nextId < MaxId
     THEN /\ reqId' = [reqId EXCEPT ![c] = nextId]
          /\ answer' = [answer EXCEPT ![c] = "none"]
          /\ nextId' = nextId + 1
          /\ Goto(c, "lock")
          /\ UNCHANGED outcome
     ELSE /\ LeaveRequest(c, "left")
          /\ UNCHANGED <<reqId, answer, nextId>>
  /\ UNCHANGED <<method, thread, queue, rxOpen, lock, pending, senders,
                 failVars, readerVars, serverVars>>

\* The alive flag is read while the map is locked.
LockPending(c) ==
  /\ pc[c] = "lock"
  /\ lock = NoCaller
  /\ IF alive
     THEN /\ lock' = c
          /\ Goto(c, "insert")
          /\ UNCHANGED outcome
     ELSE /\ LeaveRequest(c, "cutOff")
          /\ UNCHANGED lock
  /\ UNCHANGED <<method, reqId, answer, thread, queue, rxOpen, nextId, pending,
                 senders, failVars, readerVars, serverVars>>

\* Mutant: the guard of the map lives on across the write.
InsertPendingLocked(c) ==
  /\ pc[c] = "insert"
  /\ pending' = pending \cup {<<reqId[c], c>>}
  /\ Goto(c, "send")
  /\ UNCHANGED <<method, reqId, answer, thread, queue, rxOpen, outcome, nextId, lock,
                 senders, failVars, readerVars, serverVars>>

InsertPending(c) ==
  /\ pc[c] = "insert"
  /\ pending' = pending \cup {<<reqId[c], c>>}
  /\ lock' = NoCaller
  /\ Goto(c, "send")
  /\ UNCHANGED <<method, reqId, answer, thread, queue, rxOpen, outcome, nextId,
                 senders, failVars, readerVars, serverVars>>

\* send: the alive check; without the map lock, so `fail` can run after it.
SendCheck(c) ==
  /\ pc[c] = "send"
  /\ IF alive
     THEN Goto(c, "write") /\ UNCHANGED outcome
     ELSE IF method[c] \in Requests
     THEN Goto(c, "remove") /\ UNCHANGED outcome
     ELSE LeaveRequest(c, "cutOff")
  /\ UNCHANGED <<method, reqId, answer, thread, queue, rxOpen, tableVars,
                 failVars, readerVars, serverVars>>

\* send: write and flush under the stdin mutex.  A turn may emit events as
\* soon as its turn/start request is written.
WriteStdin(c) ==
  /\ pc[c] = "write"
  /\ Goto(c, IF method[c] = "resolution" THEN "read" ELSE "await")
  /\ written' = IF method[c] = "resolution" THEN written
                ELSE written \cup {[id |-> reqId[c], method |-> method[c], caller |-> c]}
  /\ IF method[c] = "turnStart"
     THEN /\ turn' = [turn EXCEPT ![thread[c]] = TRUE]
          /\ sent' = [sent EXCEPT ![thread[c]] = 0]
     ELSE UNCHANGED <<turn, sent>>
  /\ UNCHANGED <<method, reqId, answer, thread, queue, rxOpen, outcome,
                 tableVars, failVars, readerVars>>

WriteError(c) ==
  /\ pc[c] = "write"
  /\ Goto(c, "failWrite")
  /\ UNCHANGED <<method, reqId, answer, thread, queue, rxOpen, outcome,
                 tableVars, failVars, readerVars, serverVars>>

\* The write failed: the request takes its own entry back.
RemovePending(c) ==
  /\ pc[c] = "remove"
  /\ lock = NoCaller
  /\ pending' = Without(pending, reqId[c])
  /\ LeaveRequest(c, "cutOff")
  /\ UNCHANGED <<method, reqId, answer, thread, queue, rxOpen, nextId, lock,
                 senders, failVars, readerVars, serverVars>>

\* The answer arrived and is a result the caller can use.
ReceiveResult(c) ==
  /\ pc[c] = "await"
  /\ answer[c] = "ok"
  /\ Goto(c, IF method[c] = "threadStart" THEN "register" ELSE "read")
  /\ UNCHANGED <<method, reqId, answer, thread, queue, rxOpen, outcome,
                 tableVars, failVars, readerVars, serverVars>>

\* The answer is a JSON-RPC error, a result of another shape, or the
\* connection's failure.
ReceiveError(c) ==
  /\ pc[c] = "await"
  /\ answer[c] \in {"rpcError", "failed"}
  /\ LeaveRequest(c, IF answer[c] = "failed" THEN "cutOff" ELSE "left")
  /\ UNCHANGED <<method, reqId, answer, thread, queue, rxOpen, tableVars,
                 failVars, readerVars, serverVars>>

\* turn/start succeeded but its result names no turn: start_turn returns
\* without release_thread, and Drop unregisters.
ReceiveUnnamedTurn(c) ==
  /\ pc[c] = "await"
  /\ answer[c] = "ok"
  /\ method[c] = "turnStart"
  /\ outcome' = [outcome EXCEPT ![c] = "left"]
  /\ Goto(c, "dropped")
  /\ UNCHANGED <<method, reqId, answer, thread, queue, rxOpen, tableVars,
                 failVars, readerVars, serverVars>>

\* RPC_TIMEOUT.  tokio polls the receiver first, so an answer that is there wins.
RpcTimeout(c) ==
  /\ pc[c] = "await"
  /\ answer[c] = "none"
  /\ Goto(c, "failTimeout")
  /\ UNCHANGED <<method, reqId, answer, thread, queue, rxOpen, outcome,
                 tableVars, failVars, readerVars, serverVars>>

-----------------------------------------------------------------------------
(* register_thread, unregister_thread, release_thread and Drop.            *)

\* The alive flag is read before the table is locked.
RegisterCheck(c) ==
  /\ pc[c] = "register"
  /\ IF alive
     THEN Goto(c, "subscribe") /\ UNCHANGED outcome
     ELSE LeaveRequest(c, "cutOff")
  /\ UNCHANGED <<method, reqId, answer, thread, queue, rxOpen, tableVars,
                 failVars, readerVars, serverVars>>

\* An identifier that is registered is refused; otherwise turn/start follows.
RegisterThread(c) ==
  /\ pc[c] = "subscribe"
  /\ IF senders[thread[c]] = NoCaller
     THEN /\ senders' = [senders EXCEPT ![thread[c]] = c]
          /\ rxOpen' = [rxOpen EXCEPT ![c] = TRUE]
          /\ method' = [method EXCEPT ![c] = "turnStart"]
          /\ Goto(c, "allocate")
          /\ UNCHANGED outcome
     ELSE /\ LeaveRequest(c, "left")
          /\ UNCHANGED <<senders, rxOpen, method>>
  /\ UNCHANGED <<reqId, answer, thread, queue, nextId, lock, pending,
                 failVars, readerVars, serverVars>>

\* release_thread drops the receiver and then unregisters; Drop spawns the
\* task that unregisters, so there the two happen in either order.
CloseReceiver(c) ==
  /\ pc[c] \in {"release", "dropped", "close"}
  /\ rxOpen' = [rxOpen EXCEPT ![c] = FALSE]
  /\ queue' = [queue EXCEPT ![c] = <<>>]
  /\ Goto(c, IF pc[c] = "close" THEN "done" ELSE "unregister")
  /\ UNCHANGED <<method, reqId, answer, thread, outcome, tableVars, failVars,
                 readerVars, serverVars>>

UnregisterThread(c) ==
  /\ pc[c] \in {"unregister", "dropped"}
  /\ senders' = [senders EXCEPT ![thread[c]] = NoCaller]
  /\ Goto(c, IF pc[c] = "dropped" THEN "close" ELSE "done")
  /\ UNCHANGED <<method, reqId, answer, thread, queue, rxOpen, outcome, nextId,
                 lock, pending, failVars, readerVars, serverVars>>

-----------------------------------------------------------------------------
(* read_turn: what the owner of a thread does with its events.             *)

\* Mutant: any event is taken for the end of the turn.
ConsumeAnyEventAsLast(c) ==
  /\ pc[c] = "read"
  /\ queue[c] # <<>>
  /\ queue' = [queue EXCEPT ![c] = Tail(@)]
  /\ LeaveRead(c, IF Head(queue[c]) = "err" THEN "cutOff" ELSE "completed")
  /\ UNCHANGED <<method, reqId, answer, thread, rxOpen, tableVars, failVars,
                 readerVars, serverVars>>

\* An event that keeps the turn going, or the terminal one.
ConsumeEvent(c) ==
  /\ pc[c] = "read"
  /\ queue[c] # <<>>
  /\ queue' = [queue EXCEPT ![c] = Tail(@)]
  /\ \/ Head(queue[c]) = "event" /\ UNCHANGED <<pc, outcome>>
     \/ Head(queue[c]) = "completed" /\ LeaveRead(c, "completed")
     \/ Head(queue[c]) = "err" /\ LeaveRead(c, "cutOff")
  /\ UNCHANGED <<method, reqId, answer, thread, rxOpen, tableVars, failVars,
                 readerVars, serverVars>>

\* A delta or a tool call that crosses the output ceiling: turn/interrupt,
\* at most once between two reads of the turn.
InterruptTurn(c) ==
  /\ pc[c] = "read"
  /\ method[c] # "interrupt"
  /\ queue[c] # <<>> /\ Head(queue[c]) = "event"
  /\ queue' = [queue EXCEPT ![c] = Tail(@)]
  /\ method' = [method EXCEPT ![c] = "interrupt"]
  /\ Goto(c, "allocate")
  /\ UNCHANGED <<reqId, answer, thread, rxOpen, outcome, tableVars, failVars,
                 readerVars, serverVars>>

\* A tool call below the ceiling: the session is retained, nobody reads.
RetainTool(c) ==
  /\ pc[c] = "read"
  /\ method[c] # "interrupt"
  /\ queue[c] # <<>> /\ Head(queue[c]) = "event"
  /\ queue' = [queue EXCEPT ![c] = Tail(@)]
  /\ Goto(c, "retained")
  /\ UNCHANGED <<method, reqId, answer, thread, rxOpen, outcome, tableVars,
                 failVars, readerVars, serverVars>>

\* continue_tool: the tool result is sent; no request id, no answer.
ContinueTool(c) ==
  /\ pc[c] = "retained"
  /\ method' = [method EXCEPT ![c] = "resolution"]
  /\ Goto(c, "send")
  /\ UNCHANGED <<reqId, answer, thread, queue, rxOpen, outcome, tableVars,
                 failVars, readerVars, serverVars>>

\* The retained session is dropped (its time to live passed).
ExpireTool(c) ==
  /\ pc[c] = "retained"
  /\ outcome' = [outcome EXCEPT ![c] = "left"]
  /\ Goto(c, "dropped")
  /\ UNCHANGED <<method, reqId, answer, thread, queue, rxOpen, tableVars,
                 failVars, readerVars, serverVars>>

\* An event the caller cannot accept, or whose text it cannot emit because the
\* client is gone: the turn is left while it runs upstream.
AbandonTurn(c) ==
  /\ pc[c] = "read"
  /\ queue[c] # <<>> /\ Head(queue[c]) = "event"
  /\ queue' = [queue EXCEPT ![c] = Tail(@)]
  /\ LeaveRead(c, "left")
  /\ UNCHANGED <<method, reqId, answer, thread, rxOpen, tableVars, failVars,
                 readerVars, serverVars>>

\* TURN_TIMEOUT without an event.
TurnTimeout(c) ==
  /\ pc[c] = "read"
  /\ queue[c] = <<>>
  /\ LeaveRead(c, "left")
  /\ UNCHANGED <<method, reqId, answer, thread, queue, rxOpen, tableVars,
                 failVars, readerVars, serverVars>>

-----------------------------------------------------------------------------
(* read_loop and dispatch.                                                 *)

ReaderFails(cause) ==
  /\ readerPc' = "fail"
  /\ readerError' = cause
  /\ held' = Nothing

\* A response: its entry leaves the pending map, or no entry has its id.
ReadResponse(r, result, t) ==
  /\ readerPc = "read"
  /\ lock = NoCaller
  /\ t \in IF r.method = "threadStart" /\ result = "ok"
           THEN {x \in Threads : ~turn[x]} ELSE {NoThread}
  /\ result = "rpcError" /\ r.method = "turnStart" => sent[thread[r.caller]] = 0
  /\ written' = written \ {r}
  /\ turn' = IF result = "rpcError" /\ r.method = "turnStart"
             THEN [turn EXCEPT ![thread[r.caller]] = FALSE] ELSE turn
  /\ IF r.id \in Ids(pending)
     THEN /\ readerPc' = "deliver"
          /\ held' = [id |-> r.id, method |-> r.method, for |-> r.caller,
                      caller |-> CHOOSE c \in Callers : <<r.id, c>> \in pending,
                      result |-> result, thread |-> t]
          /\ UNCHANGED readerError
     ELSE ReaderFails("protocol")
  /\ pending' = Without(pending, r.id)
  /\ UNCHANGED <<callerVars, nextId, lock, senders, failVars, sent>>

DeliverResponse ==
  /\ readerPc = "deliver"
  /\ Deliver({<<held.id, held.caller>>}, held.result)
  /\ thread' = IF held.thread = NoThread \/ reqId[held.caller] # held.id THEN thread
               ELSE [thread EXCEPT ![held.caller] = held.thread]
  /\ readerPc' = "read"
  /\ held' = Nothing
  /\ UNCHANGED <<pc, method, reqId, queue, rxOpen, outcome, tableVars, failVars,
                 readerError, serverVars>>

\* An event of a running turn: its sender is cloned out of the table.
ReadEvent(t, kind) ==
  /\ readerPc = "read"
  /\ turn[t]
  /\ kind = "event" => sent[t] < MaxEvents
  /\ turn' = [turn EXCEPT ![t] = (kind = "event")]
  /\ sent' = [sent EXCEPT ![t] = IF kind = "event" THEN @ + 1 ELSE 0]
  /\ IF senders[t] # NoCaller
     THEN /\ readerPc' = "forward"
          /\ held' = [thread |-> t, caller |-> senders[t], kind |-> kind]
          /\ UNCHANGED readerError
     ELSE ReaderFails("unknownThread")
  /\ UNCHANGED <<callerVars, tableVars, failVars, written>>

\* The cloned sender is used after the table was unlocked.
ForwardEvent ==
  /\ readerPc = "forward"
  /\ IF rxOpen[held.caller]
     THEN /\ queue' = [queue EXCEPT ![held.caller] = Append(@, held.kind)]
          /\ readerPc' = "read"
          /\ held' = Nothing
          /\ UNCHANGED <<readerError, senders>>
     ELSE /\ senders' = [senders EXCEPT ![held.thread] = NoCaller]
          /\ ReaderFails("closedReceiver")
          /\ UNCHANGED queue
  /\ UNCHANGED <<pc, method, reqId, answer, thread, rxOpen, outcome, nextId, lock,
                 pending, failVars, serverVars>>

\* End of file, a frame that is too long or does not decode, a message
\* without a usable id, an unsupported method, an event without a thread.
ReadFault ==
  /\ readerPc = "read"
  /\ ReaderFails("protocol")
  /\ UNCHANGED <<callerVars, tableVars, failVars, serverVars>>

-----------------------------------------------------------------------------
(* fail: one task swaps the flag; it alone records the cause, kills the    *)
(* child and notifies the waiting requests and then the threads.           *)

FailSwap(task) ==
  /\ alive
  /\ alive' = FALSE
  /\ failer' = task
  /\ failStep' = "record"
  /\ UNCHANGED <<failure, drained>>

CallerFails(c) ==
  /\ pc[c] \in {"failWrite", "failTimeout"}
  /\ FailSwap(c)
  /\ UNCHANGED <<callerVars, tableVars, readerVars, serverVars>>

\* `fail` returned: at once for a loser of the swap, at the end for the winner.
CallerFailed(c) ==
  /\ pc[c] \in {"failWrite", "failTimeout"}
  /\ ~alive
  /\ failer = c => failStep = "done"
  /\ IF pc[c] = "failWrite" /\ method[c] \in Requests
     THEN Goto(c, "remove") /\ UNCHANGED outcome
     ELSE LeaveRequest(c, "cutOff")
  /\ UNCHANGED <<method, reqId, answer, thread, queue, rxOpen, tableVars,
                 failVars, readerVars, serverVars>>

ReaderFailsConnection ==
  /\ readerPc = "fail"
  /\ FailSwap(Reader)
  /\ UNCHANGED <<callerVars, tableVars, readerVars, serverVars>>

ReaderStops ==
  /\ readerPc = "fail"
  /\ ~alive
  /\ failer = Reader => failStep = "done"
  /\ readerPc' = "stopped"
  /\ UNCHANGED <<callerVars, tableVars, failVars, readerError, held, serverVars>>

RecordFailure ==
  /\ failStep = "record"
  /\ failure' = IF failer = Reader THEN readerError
                ELSE IF pc[failer] = "failWrite" THEN "write" ELSE "timeout"
  /\ failStep' = "pending"
  /\ UNCHANGED <<callerVars, tableVars, alive, failer, drained, readerVars, serverVars>>

\* Mutant: the pending requests stay in the map and are not notified.
TakeNothing ==
  /\ failStep = "pending"
  /\ lock = NoCaller
  /\ failStep' = "notify"
  /\ UNCHANGED <<callerVars, tableVars, alive, failer, failure, drained, readerVars, serverVars>>

TakePending ==
  /\ failStep = "pending"
  /\ lock = NoCaller
  /\ drained' = pending
  /\ pending' = {}
  /\ failStep' = "notify"
  /\ UNCHANGED <<callerVars, nextId, lock, senders, alive, failer, failure,
                 readerVars, serverVars>>

NotifyPending ==
  /\ failStep = "notify"
  /\ Deliver(drained, "failed")
  /\ drained' = {}
  /\ failStep' = "threads"
  /\ UNCHANGED <<pc, method, reqId, thread, queue, rxOpen, outcome, tableVars,
                 alive, failer, failure, readerVars, serverVars>>

\* Mutant: the registered threads are not notified.
NotifyNoThread ==
  /\ failStep = "threads"
  /\ failStep' = "done"
  /\ UNCHANGED <<callerVars, tableVars, alive, failer, failure, drained, readerVars, serverVars>>

\* The table is taken and its senders notified; the sends wait for nothing, and
\* no task can tell a moment between the two from the moment after.
NotifyThreads ==
  /\ failStep = "threads"
  /\ queue' = [c \in Callers |->
                 IF rxOpen[c] /\ \E t \in Threads : senders[t] = c
                 THEN Append(queue[c], "err") ELSE queue[c]]
  /\ senders' = [t \in Threads |-> NoCaller]
  /\ failStep' = "done"
  /\ UNCHANGED <<pc, method, reqId, answer, thread, rxOpen, outcome, nextId, lock,
                 pending, alive, failer, failure, drained, readerVars, serverVars>>

-----------------------------------------------------------------------------
\* launch has returned: `initialize` took the first id (INITIAL_RPC_REQUEST_ID)
\* before any session could share the connection.
Init ==
  /\ pc = [c \in Callers |-> "allocate"]
  /\ method = [c \in Callers |-> "threadStart"]
  /\ reqId = [c \in Callers |-> 0]
  /\ answer = [c \in Callers |-> "none"]
  /\ thread = [c \in Callers |-> NoThread]
  /\ queue = [c \in Callers |-> <<>>]
  /\ rxOpen = [c \in Callers |-> FALSE]
  /\ outcome = [c \in Callers |-> "none"]
  /\ nextId = 2
  /\ lock = NoCaller
  /\ pending = {}
  /\ senders = [t \in Threads |-> NoCaller]
  /\ alive = TRUE
  /\ failer = NoCaller
  /\ failStep = "none"
  /\ failure = "none"
  /\ drained = {}
  /\ readerPc = "read"
  /\ readerError = "none"
  /\ held = Nothing
  /\ written = {}
  /\ turn = [t \in Threads |-> FALSE]
  /\ sent = [t \in Threads |-> 0]

RequestStep(c) ==
  \/ AllocateId(c) \/ LockPending(c) \/ InsertPending(c) \/ SendCheck(c)
  \/ WriteStdin(c) \/ WriteError(c) \/ RemovePending(c)
  \/ ReceiveResult(c) \/ ReceiveError(c) \/ ReceiveUnnamedTurn(c)
  \/ CallerFails(c) \/ CallerFailed(c)

SessionStep(c) ==
  \/ RegisterCheck(c) \/ RegisterThread(c) \/ CloseReceiver(c) \/ UnregisterThread(c)
  \/ ConsumeEvent(c) \/ InterruptTurn(c) \/ RetainTool(c) \/ AbandonTurn(c)

\* Steps that wait for Claude Code or for a timer of twenty seconds or more.
WaitingStep(c) == RpcTimeout(c) \/ TurnTimeout(c) \/ ContinueTool(c) \/ ExpireTool(c)

ReadStep ==
  \/ \E r \in written, result \in {"ok", "rpcError"}, t \in Threads \cup {NoThread} :
       ReadResponse(r, result, t)
  \/ \E t \in Threads, kind \in {"event", "completed"} : ReadEvent(t, kind)
  \/ ReadFault

DispatchStep == DeliverResponse \/ ForwardEvent \/ ReaderFailsConnection \/ ReaderStops

FailStep == RecordFailure \/ TakePending \/ NotifyPending \/ NotifyThreads

\* Every session has ended and so has the reader.
Terminated ==
  /\ \A c \in Callers : pc[c] = "done"
  /\ readerPc = "stopped"
  /\ UNCHANGED vars

Next ==
  \/ \E c \in Callers : RequestStep(c) \/ SessionStep(c) \/ WaitingStep(c)
  \/ ReadStep
  \/ DispatchStep
  \/ FailStep
  \/ Terminated

Spec == Init /\ [][Next]_vars

\* tokio polls every task that can make progress.  A write to the child's stdin
\* completes or fails: the pipe has room or the child is gone.  Nothing obliges
\* the child to answer, so reading its output is not fair.
PromptFairness ==
  /\ \A c \in Callers : WF_vars(RequestStep(c) \/ SessionStep(c))
  /\ WF_vars(DispatchStep)
  /\ WF_vars(FailStep)

PromptSpec == Spec /\ PromptFairness

\* Timers fire as well: RPC_TIMEOUT, TURN_TIMEOUT, TOOL_SESSION_TTL.
TimersFire == \A c \in Callers : WF_vars(WaitingStep(c))

-----------------------------------------------------------------------------
(* Properties.                                                             *)

\* Every variable has its type (fields and locals of runtime.rs).
TypeOK ==
  /\ pc \in [Callers -> Labels]
  /\ method \in [Callers -> Methods]
  /\ reqId \in [Callers -> 0..MaxId]
  /\ answer \in [Callers -> Answers]
  /\ thread \in [Callers -> Threads \cup {NoThread}]
  /\ queue \in [Callers -> Seq(EventKinds)]
  /\ rxOpen \in [Callers -> BOOLEAN]
  /\ outcome \in [Callers -> Outcomes]
  /\ nextId \in 1..MaxId
  /\ lock \in Callers \cup {NoCaller}
  /\ pending \in SUBSET Entry
  /\ senders \in [Threads -> Callers \cup {NoCaller}]
  /\ alive \in BOOLEAN
  /\ failer \in Callers \cup {Reader, NoCaller}
  /\ failStep \in FailSteps
  /\ failure \in Causes \cup {"none"}
  /\ drained \in SUBSET Entry
  /\ readerPc \in ReaderLabels
  /\ readerError \in Causes \cup {"none"}
  /\ readerPc = "deliver" => held \in Response
  /\ readerPc = "forward" => held \in Event
  /\ written \in SUBSET Sent
  /\ turn \in [Threads -> BOOLEAN]
  /\ sent \in [Threads -> 0..MaxEvents]

\* Someone still owes caller c the answer of its request: the map entry will
\* be answered or drained, the reader is about to deliver, or `fail` has taken
\* the entry and is about to notify it.
Owed(c) ==
  \/ <<reqId[c], c>> \in pending /\ failStep \in {"none", "record", "pending"}
  \/ readerPc = "deliver" /\ held.id = reqId[c] /\ held.caller = c
  \/ <<reqId[c], c>> \in drained /\ failStep = "notify"

\* No request is stranded: whatever the interleaving of request, dispatch and
\* fail, a caller that waits for an answer has it or is still owed one.  The
\* alive check under the map lock and the drain under the same lock carry it.
RequestNeverStranded ==
  \A c \in Callers : pc[c] = "await" /\ answer[c] = "none" => Owed(c)

\* An id names one request: an insertion never replaces an entry, and the
\* response being delivered was written for the request it will complete.
AnswerReachesItsRequest ==
  /\ \A c \in Callers : pc[c] = "insert" => reqId[c] \notin Ids(pending)
  /\ readerPc = "deliver" /\ held.id = reqId[held.caller] =>
       held.for = held.caller /\ held.method = method[held.caller]

\* No reader is stranded: as long as a session reads or is retained its thread
\* is registered, and once `fail` is over the failure is in its channel.  The
\* alive check of register_thread is outside the table lock, so this rests on the
\* later check made by turn/start; and it makes the error for a channel whose
\* senders are gone (next_turn_event, line 647) one that is never returned.
ReaderNeverStranded ==
  \A c \in Callers : pc[c] \in {"read", "retained"} =>
    IF failStep = "done" THEN \E i \in DOMAIN queue[c] : queue[c][i] = "err"
    ELSE senders[thread[c]] = c

\* No registration outlives its session: release_thread or Drop has removed it
\* on every path out of a turn.
NoLeakedRegistration ==
  \A c \in Callers : pc[c] = "done" => \A t \in Threads : senders[t] # c

\* Turns on a connection cut each other off only when one of them left its turn
\* before the terminal event; turns that run to their end never make an event
\* unroutable (the limitation the README names, and nothing beyond it).
OnlyLeaversCutOthersOff ==
  failure \in {"unknownThread", "closedReceiver"} =>
    \E c \in Callers : outcome[c] = "left"

\* Once `fail` has drained the map, it stays closed: entries only leave it.  A
\* caller that saw the connection alive before the drain has inserted before it.
DrainedMapStaysClosed ==
  [][(failStep \in {"notify", "threads", "done"}) => pending' \subseteq pending]_vars

\* A failure reaches every session without the help of a timer: whoever waits
\* for an answer or for an event is notified.  (A retained session waits for
\* Claude and finds out when it is continued.)
FailureReachesEverySession ==
  ~alive ~> \A c \in Callers : pc[c] \in {"done", "retained"}

\* With timers every session ends, even if the child never answers: no task
\* waits for a lock, a failure or a task that is gone.
EverySessionEnds == TimersFire => \A c \in Callers : <>(pc[c] = "done")
=============================================================================
