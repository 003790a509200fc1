--------------------- MODULE AppServerConnection_proofs ---------------------
(***************************************************************************)
(* For any number of callers and threads and any bound on ids and events:  *)
(* variables keep their types, no request on the connection is stranded,   *)
(* an answer reaches the request it was written for, nobody who reads its  *)
(* turn is stranded, registrations end with their sessions, and sessions   *)
(* are cut off by an event without a reader only if one has left.          *)
(*                                                                         *)
(* The safety properties are not inductive.  IInv says where the sending   *)
(* half of a request's oneshot channel is at every step (in the map, in    *)
(* the reader's hand, in what `fail` has drained) and that the request it  *)
(* belongs to is the current one of its caller.  RegInv says who is        *)
(* registered, and why not; CutInv that each running turn has a session    *)
(* waiting for its events.                                                 *)
(***************************************************************************)
EXTENDS AppServerConnection, TLAPS

-----------------------------------------------------------------------------
(* Type correctness.                                                       *)

\* Moving a caller keeps its control label and its outcome in their types.
LEMMA GotoType ==
  ASSUME TypeOK, NEW c \in Callers, NEW label \in Labels, Goto(c, label)
  PROVE  pc' \in [Callers -> Labels]
  BY DEF TypeOK, Goto

LEMMA LeaveRequestType ==
  ASSUME TypeOK, NEW c \in Callers, NEW how \in Outcomes, LeaveRequest(c, how)
  PROVE  pc' \in [Callers -> Labels] /\ outcome' \in [Callers -> Outcomes]
<1>1. pc' \in [Callers -> Labels]
  BY GotoType DEF LeaveRequest, Labels
<1>2. outcome' \in [Callers -> Outcomes]
  BY DEF TypeOK, LeaveRequest
<1> QED
  BY <1>1, <1>2

\* One step, whoever takes it, keeps every variable in its type.
LEMMA TypeStep ==
  ASSUME TypeOK, [Next]_vars
  PROVE  TypeOK'
<1> USE ConnectionAssumption
<1>1. ASSUME NEW c \in Callers, RequestStep(c)
     PROVE  TypeOK'
  <2>1. CASE AllocateId(c)
    <3>1. pc' \in [Callers -> Labels]
      BY <2>1, GotoType, LeaveRequestType DEF AllocateId, Labels, Outcomes
    <3>2. reqId' \in [Callers -> 0..MaxId]
      <4>1. nextId \in 0..MaxId
        BY DEF TypeOK
      <4>2. CASE nextId < MaxId
        BY <2>1, <4>1, <4>2 DEF TypeOK, AllocateId
      <4>3. CASE ~(nextId < MaxId)
        BY <2>1, <4>3 DEF TypeOK, AllocateId
      <4> QED
        BY <4>2, <4>3
    <3>3. answer' \in [Callers -> Answers]
      BY <2>1 DEF TypeOK, AllocateId, Answers
    <3>4. nextId' \in 1..MaxId
      BY <2>1 DEF TypeOK, AllocateId
    <3>5. outcome' \in [Callers -> Outcomes]
      BY <2>1 DEF TypeOK, AllocateId, Outcomes, LeaveRequest
    <3> QED
      BY <2>1, <3>1, <3>2, <3>3, <3>4, <3>5
      DEF TypeOK, AllocateId, callerVars, tableVars, failVars, readerVars,
        serverVars
  <2>2. CASE LockPending(c)
    <3>1. pc' \in [Callers -> Labels]
      BY <2>2, GotoType, LeaveRequestType DEF LockPending, Labels, Outcomes
    <3>2. lock' \in Callers \cup {NoCaller}
      BY <2>2 DEF TypeOK, LockPending
    <3>3. outcome' \in [Callers -> Outcomes]
      BY <2>2 DEF TypeOK, LockPending, Outcomes, LeaveRequest
    <3> QED
      BY <2>2, <3>1, <3>2, <3>3
      DEF TypeOK, LockPending, callerVars, tableVars, failVars, readerVars,
        serverVars
  <2>3. CASE InsertPending(c)
    <3>1. pc' \in [Callers -> Labels]
      BY <2>3 DEF TypeOK, InsertPending, Goto, Labels
    <3>2. pending' \in SUBSET Entry
      BY <2>3 DEF TypeOK, InsertPending, Entry
    <3>3. lock' \in Callers \cup {NoCaller}
      BY <2>3 DEF TypeOK, InsertPending
    <3> QED
      BY <2>3, <3>1, <3>2, <3>3
      DEF TypeOK, InsertPending, callerVars, tableVars, failVars,
        readerVars, serverVars
  <2>4. CASE SendCheck(c)
    <3>1. pc' \in [Callers -> Labels]
      BY <2>4, GotoType, LeaveRequestType DEF SendCheck, Labels, Outcomes
    <3>2. outcome' \in [Callers -> Outcomes]
      BY <2>4 DEF TypeOK, SendCheck, Outcomes, LeaveRequest
    <3> QED
      BY <2>4, <3>1, <3>2
      DEF TypeOK, SendCheck, callerVars, tableVars, failVars, readerVars,
        serverVars
  <2>5. CASE WriteStdin(c)
    <3>1. pc' \in [Callers -> Labels]
      BY <2>5 DEF TypeOK, WriteStdin, Goto, Labels, Methods
    <3>2. written' \in SUBSET Sent
      BY <2>5 DEF TypeOK, WriteStdin, Sent, Requests, Methods
    <3>3. turn' \in [Threads -> BOOLEAN]
      BY <2>5 DEF TypeOK, WriteStdin, Methods
    <3>4. sent' \in [Threads -> 0..MaxEvents]
      <4>1. CASE method[c] = "turnStart"
        <5>1. 0 \in 0..MaxEvents
          OBVIOUS
        <5> QED
          BY <2>5, <4>1, <5>1 DEF TypeOK, WriteStdin
      <4>2. CASE method[c] # "turnStart"
        BY <2>5, <4>2 DEF TypeOK, WriteStdin
      <4> QED
        BY <4>1, <4>2
    <3> QED
      BY <2>5, <3>1, <3>2, <3>3, <3>4
      DEF TypeOK, WriteStdin, callerVars, tableVars, failVars, readerVars,
        serverVars
  <2>6. CASE WriteError(c)
    <3>1. pc' \in [Callers -> Labels]
      BY <2>6 DEF TypeOK, WriteError, Goto, Labels
    <3> QED
      BY <2>6, <3>1
      DEF TypeOK, WriteError, callerVars, tableVars, failVars, readerVars,
        serverVars
  <2>7. CASE RemovePending(c)
    <3>1. pc' \in [Callers -> Labels]
      BY <2>7 DEF TypeOK, RemovePending, Goto, Labels, LeaveRequest, Without
    <3>2. pending' \in SUBSET Entry
      BY <2>7 DEF TypeOK, RemovePending, Entry, Without
    <3>3. outcome' \in [Callers -> Outcomes]
      BY <2>7 DEF TypeOK, RemovePending, Outcomes, LeaveRequest, Without
    <3> QED
      BY <2>7, <3>1, <3>2, <3>3
      DEF TypeOK, RemovePending, callerVars, tableVars, failVars,
        readerVars, serverVars
  <2>8. CASE ReceiveResult(c)
    <3>1. pc' \in [Callers -> Labels]
      BY <2>8 DEF TypeOK, ReceiveResult, Goto, Labels
    <3> QED
      BY <2>8, <3>1
      DEF TypeOK, ReceiveResult, callerVars, tableVars, failVars,
        readerVars, serverVars
  <2>9. CASE ReceiveError(c)
    <3>1. pc' \in [Callers -> Labels]
      BY <2>9 DEF TypeOK, ReceiveError, Goto, Labels, LeaveRequest
    <3>2. outcome' \in [Callers -> Outcomes]
      BY <2>9 DEF TypeOK, ReceiveError, Outcomes, LeaveRequest
    <3> QED
      BY <2>9, <3>1, <3>2
      DEF TypeOK, ReceiveError, callerVars, tableVars, failVars, readerVars,
        serverVars
  <2>10. CASE ReceiveUnnamedTurn(c)
    <3>1. pc' \in [Callers -> Labels]
      BY <2>10 DEF TypeOK, ReceiveUnnamedTurn, Goto, Labels
    <3>2. outcome' \in [Callers -> Outcomes]
      BY <2>10 DEF TypeOK, ReceiveUnnamedTurn, Outcomes
    <3> QED
      BY <2>10, <3>1, <3>2
      DEF TypeOK, ReceiveUnnamedTurn, callerVars, tableVars, failVars,
        readerVars, serverVars
  <2>11. CASE CallerFails(c)
    <3>1. alive' \in BOOLEAN
      BY <2>11 DEF TypeOK, CallerFails, FailSwap
    <3>2. failer' \in Callers \cup {Reader, NoCaller}
      BY <2>11 DEF TypeOK, CallerFails, FailSwap
    <3>3. failStep' \in FailSteps
      BY <2>11 DEF TypeOK, CallerFails, FailSteps, FailSwap
    <3> QED
      BY <2>11, <3>1, <3>2, <3>3
      DEF TypeOK, CallerFails, FailSwap, callerVars, tableVars, failVars,
        readerVars, serverVars
  <2>12. CASE CallerFailed(c)
    <3>1. pc' \in [Callers -> Labels]
      BY <2>12, GotoType, LeaveRequestType DEF CallerFailed, Labels, Outcomes
    <3>2. outcome' \in [Callers -> Outcomes]
      BY <2>12 DEF TypeOK, CallerFailed, Outcomes, LeaveRequest
    <3> QED
      BY <2>12, <3>1, <3>2
      DEF TypeOK, CallerFailed, callerVars, tableVars, failVars, readerVars,
        serverVars
  <2> QED
    BY <1>1, <2>1, <2>2, <2>3, <2>4, <2>5, <2>6, <2>7, <2>8, <2>9, <2>10,
       <2>11, <2>12 DEF RequestStep
<1>2. ASSUME NEW c \in Callers, SessionStep(c)
     PROVE  TypeOK'
  <2>1. CASE RegisterCheck(c)
    <3>1. pc' \in [Callers -> Labels]
      BY <2>1, GotoType, LeaveRequestType DEF RegisterCheck, Labels, Outcomes
    <3>2. outcome' \in [Callers -> Outcomes]
      BY <2>1 DEF TypeOK, RegisterCheck, Outcomes, LeaveRequest
    <3> QED
      BY <2>1, <3>1, <3>2
      DEF TypeOK, RegisterCheck, callerVars, tableVars, failVars,
        readerVars, serverVars
  <2>2. CASE RegisterThread(c)
    <3>1. pc' \in [Callers -> Labels]
      BY <2>2, GotoType, LeaveRequestType DEF RegisterThread, Labels, Outcomes
    <3>2. senders' \in [Threads -> Callers \cup {NoCaller}]
      <4>1. CASE senders[thread[c]] = NoCaller
        <5>1. senders' = [senders EXCEPT ![thread[c]] = c]
          BY <2>2, <4>1 DEF RegisterThread
        <5> QED
          BY <1>2, <5>1 DEF TypeOK
      <4>2. CASE senders[thread[c]] # NoCaller
        BY <2>2, <4>2 DEF TypeOK, RegisterThread
      <4> QED
        BY <4>1, <4>2
    <3>3. rxOpen' \in [Callers -> BOOLEAN]
      BY <2>2 DEF TypeOK, RegisterThread
    <3>4. method' \in [Callers -> Methods]
      BY <2>2 DEF TypeOK, RegisterThread, Methods, Requests
    <3>5. outcome' \in [Callers -> Outcomes]
      BY <2>2 DEF TypeOK, RegisterThread, Outcomes, LeaveRequest
    <3> QED
      BY <2>2, <3>1, <3>2, <3>3, <3>4, <3>5
      DEF TypeOK, RegisterThread, callerVars, tableVars, failVars,
        readerVars, serverVars
  <2>3. CASE CloseReceiver(c)
    <3>1. pc' \in [Callers -> Labels]
      BY <2>3 DEF TypeOK, CloseReceiver, Goto, Labels
    <3>2. rxOpen' \in [Callers -> BOOLEAN]
      BY <2>3 DEF TypeOK, CloseReceiver
    <3>3. queue' \in [Callers -> Seq(EventKinds)]
      BY <2>3 DEF TypeOK, CloseReceiver, EventKinds
    <3> QED
      BY <2>3, <3>1, <3>2, <3>3
      DEF TypeOK, CloseReceiver, callerVars, tableVars, failVars,
        readerVars, serverVars
  <2>4. CASE UnregisterThread(c)
    <3>1. pc' \in [Callers -> Labels]
      BY <2>4 DEF TypeOK, UnregisterThread, Goto, Labels
    <3>2. senders' \in [Threads -> Callers \cup {NoCaller}]
      BY <2>4 DEF TypeOK, UnregisterThread
    <3> QED
      BY <2>4, <3>1, <3>2
      DEF TypeOK, UnregisterThread, callerVars, tableVars, failVars,
        readerVars, serverVars
  <2>5. CASE ConsumeEvent(c)
    <3>1. pc' \in [Callers -> Labels]
      BY <2>5 DEF TypeOK, ConsumeEvent, Goto, Labels, LeaveRead
    <3>2. queue' \in [Callers -> Seq(EventKinds)]
      BY <2>5 DEF TypeOK, ConsumeEvent, EventKinds
    <3>3. outcome' \in [Callers -> Outcomes]
      BY <2>5 DEF TypeOK, ConsumeEvent, Outcomes, LeaveRead
    <3> QED
      BY <2>5, <3>1, <3>2, <3>3
      DEF TypeOK, ConsumeEvent, callerVars, tableVars, failVars, readerVars,
        serverVars
  <2>6. CASE InterruptTurn(c)
    <3>1. pc' \in [Callers -> Labels]
      BY <2>6 DEF TypeOK, InterruptTurn, Goto, Labels
    <3>2. queue' \in [Callers -> Seq(EventKinds)]
      BY <2>6 DEF TypeOK, InterruptTurn, EventKinds
    <3>3. method' \in [Callers -> Methods]
      BY <2>6 DEF TypeOK, InterruptTurn, Methods, Requests
    <3> QED
      BY <2>6, <3>1, <3>2, <3>3
      DEF TypeOK, InterruptTurn, callerVars, tableVars, failVars,
        readerVars, serverVars
  <2>7. CASE RetainTool(c)
    <3>1. pc' \in [Callers -> Labels]
      BY <2>7 DEF TypeOK, RetainTool, Goto, Labels
    <3>2. queue' \in [Callers -> Seq(EventKinds)]
      BY <2>7 DEF TypeOK, RetainTool, EventKinds
    <3> QED
      BY <2>7, <3>1, <3>2
      DEF TypeOK, RetainTool, callerVars, tableVars, failVars, readerVars,
        serverVars
  <2>8. CASE AbandonTurn(c)
    <3>1. pc' \in [Callers -> Labels]
      BY <2>8 DEF TypeOK, AbandonTurn, Goto, Labels, LeaveRead
    <3>2. queue' \in [Callers -> Seq(EventKinds)]
      BY <2>8 DEF TypeOK, AbandonTurn, EventKinds
    <3>3. outcome' \in [Callers -> Outcomes]
      BY <2>8 DEF TypeOK, AbandonTurn, Outcomes, LeaveRead
    <3> QED
      BY <2>8, <3>1, <3>2, <3>3
      DEF TypeOK, AbandonTurn, callerVars, tableVars, failVars, readerVars,
        serverVars
  <2> QED
    BY <1>2, <2>1, <2>2, <2>3, <2>4, <2>5, <2>6, <2>7, <2>8 DEF SessionStep
<1>3. ASSUME NEW c \in Callers, WaitingStep(c)
     PROVE  TypeOK'
  <2>1. CASE RpcTimeout(c)
    <3>1. pc' \in [Callers -> Labels]
      BY <2>1 DEF TypeOK, RpcTimeout, Goto, Labels
    <3> QED
      BY <2>1, <3>1
      DEF TypeOK, RpcTimeout, callerVars, tableVars, failVars, readerVars,
        serverVars
  <2>2. CASE TurnTimeout(c)
    <3>1. pc' \in [Callers -> Labels]
      BY <2>2 DEF TypeOK, TurnTimeout, Goto, Labels, LeaveRead
    <3>2. outcome' \in [Callers -> Outcomes]
      BY <2>2 DEF TypeOK, TurnTimeout, Outcomes, LeaveRead
    <3> QED
      BY <2>2, <3>1, <3>2
      DEF TypeOK, TurnTimeout, callerVars, tableVars, failVars, readerVars,
        serverVars
  <2>3. CASE ContinueTool(c)
    <3>1. pc' \in [Callers -> Labels]
      BY <2>3 DEF TypeOK, ContinueTool, Goto, Labels
    <3>2. method' \in [Callers -> Methods]
      BY <2>3 DEF TypeOK, ContinueTool, Methods, Requests
    <3> QED
      BY <2>3, <3>1, <3>2
      DEF TypeOK, ContinueTool, callerVars, tableVars, failVars, readerVars,
        serverVars
  <2>4. CASE ExpireTool(c)
    <3>1. pc' \in [Callers -> Labels]
      BY <2>4 DEF TypeOK, ExpireTool, Goto, Labels
    <3>2. outcome' \in [Callers -> Outcomes]
      BY <2>4 DEF TypeOK, ExpireTool, Outcomes
    <3> QED
      BY <2>4, <3>1, <3>2
      DEF TypeOK, ExpireTool, callerVars, tableVars, failVars, readerVars,
        serverVars
  <2> QED
    BY <1>3, <2>1, <2>2, <2>3, <2>4 DEF WaitingStep
<1>4. ASSUME NEW r \in written, NEW result \in {"ok", "rpcError"},
             NEW t \in Threads \cup {NoThread}, ReadResponse(r, result, t)
      PROVE  TypeOK'
  <2>1. r \in Sent
    BY <1>4 DEF TypeOK
  <2>2. pending' \in SUBSET Entry /\ written' \in SUBSET Sent
    BY <1>4 DEF TypeOK, ReadResponse, Without
  <2>3. turn' \in [Threads -> BOOLEAN]
    <3>1. CASE result = "rpcError" /\ r.method = "turnStart"
      BY <1>4, <3>1 DEF TypeOK, ReadResponse
    <3>2. CASE ~(result = "rpcError" /\ r.method = "turnStart")
      BY <1>4, <3>2 DEF TypeOK, ReadResponse
    <3> QED
      BY <3>1, <3>2
  <2>4. CASE r.id \in Ids(pending)
    <3> DEFINE d == CHOOSE c \in Callers : <<r.id, c>> \in pending
    <3>1. PICK p \in pending : p[1] = r.id
      BY <2>4 DEF Ids
    <3>2. p \in (0..MaxId) \X Callers
      BY DEF TypeOK, Entry
    <3>3. p[2] \in Callers /\ <<r.id, p[2]>> \in pending
      BY <3>1, <3>2
    <3>4. d \in Callers
      BY <3>3
    <3>5. held' = [id |-> r.id, method |-> r.method, for |-> r.caller, caller |-> d,
                   result |-> result, thread |-> t]
      BY <1>4, <2>4 DEF ReadResponse
    <3>6. held' \in Response
      BY <2>1, <3>4, <3>5 DEF Response, Sent
    <3>7. readerPc' = "deliver" /\ readerError' = readerError
      BY <1>4, <2>4 DEF ReadResponse
    <3> QED
      BY <1>4, <2>2, <2>3, <3>6, <3>7
      DEF TypeOK, ReadResponse, ReaderLabels, callerVars, failVars
  <2>5. CASE r.id \notin Ids(pending)
    <3>1. readerPc' = "fail" /\ readerError' = "protocol"
      BY <1>4, <2>5 DEF ReadResponse, ReaderFails
    <3> QED
      BY <1>4, <2>2, <2>3, <3>1
      DEF TypeOK, ReadResponse, ReaderLabels, Causes, callerVars, failVars
  <2> QED
    BY <2>4, <2>5
<1>5. ASSUME NEW t \in Threads, NEW kind \in {"event", "completed"}, ReadEvent(t, kind)
      PROVE  TypeOK'
  <2>1. turn' \in [Threads -> BOOLEAN]
    BY <1>5 DEF TypeOK, ReadEvent
  <2>2. sent' \in [Threads -> 0..MaxEvents]
    <3>1. sent[t] \in 0..MaxEvents /\ 0 \in 0..MaxEvents
      BY DEF TypeOK
    <3>2. (IF kind = "event" THEN sent[t] + 1 ELSE 0) \in 0..MaxEvents
      BY <1>5, <3>1 DEF ReadEvent
    <3> QED
      BY <1>5, <3>2 DEF TypeOK, ReadEvent
  <2>3. CASE senders[t] # NoCaller
    <3>1. held' \in Event /\ readerPc' = "forward" /\ readerError' = readerError
      BY <1>5, <2>3 DEF TypeOK, ReadEvent, Event
    <3> QED
      BY <1>5, <2>1, <2>2, <3>1
      DEF TypeOK, ReadEvent, ReaderLabels, callerVars, tableVars, failVars
  <2>4. CASE senders[t] = NoCaller
    <3>1. readerPc' = "fail" /\ readerError' = "unknownThread"
      BY <1>5, <2>4 DEF ReadEvent, ReaderFails
    <3> QED
      BY <1>5, <2>1, <2>2, <3>1
      DEF TypeOK, ReadEvent, ReaderLabels, Causes, callerVars, tableVars, failVars
  <2> QED
    BY <2>3, <2>4
<1>6. CASE ReadFault
  BY <1>6 DEF TypeOK, ReadFault, ReaderFails, ReaderLabels, Causes, callerVars,
     tableVars, failVars, serverVars
<1>7. CASE DispatchStep
  <2>1. CASE DeliverResponse
    <3>1. answer' \in [Callers -> Answers]
      BY <2>1 DEF TypeOK, DeliverResponse, Answers, Deliver, Response
    <3>2. thread' \in [Callers -> Threads \cup {NoThread}]
      BY <2>1 DEF TypeOK, DeliverResponse, Deliver, Response
    <3>3. readerPc' \in ReaderLabels
      BY <2>1 DEF TypeOK, DeliverResponse, ReaderLabels, Deliver, Response
    <3> QED
      BY <2>1, <3>1, <3>2, <3>3
      DEF TypeOK, DeliverResponse, callerVars, tableVars, failVars,
        readerVars, serverVars
  <2>2. CASE ForwardEvent
    <3>1. held \in Event
      BY <2>2 DEF TypeOK, ForwardEvent
    <3>2. CASE rxOpen[held.caller]
      <4>1. queue' = [queue EXCEPT ![held.caller] = Append(@, held.kind)]
        BY <2>2, <3>2 DEF ForwardEvent
      <4>2. queue' \in [Callers -> Seq(EventKinds)]
        BY <3>1, <4>1 DEF TypeOK, Event, EventKinds
      <4>3. readerPc' = "read" /\ readerError' = readerError /\ senders' = senders
        BY <2>2, <3>2 DEF ForwardEvent
      <4> QED
        BY <2>2, <4>2, <4>3
        DEF TypeOK, ForwardEvent, ReaderLabels, failVars, serverVars
    <3>3. CASE ~rxOpen[held.caller]
      <4>1. senders' = [senders EXCEPT ![held.thread] = NoCaller] /\ queue' = queue
        BY <2>2, <3>3 DEF ForwardEvent
      <4>2. senders' \in [Threads -> Callers \cup {NoCaller}]
        BY <4>1 DEF TypeOK
      <4>3. readerPc' = "fail" /\ readerError' = "closedReceiver"
        BY <2>2, <3>3 DEF ForwardEvent, ReaderFails
      <4> QED
        BY <2>2, <4>1, <4>2, <4>3
        DEF TypeOK, ForwardEvent, ReaderLabels, Causes, failVars, serverVars
    <3> QED
      BY <3>2, <3>3
  <2>3. CASE ReaderFailsConnection
    <3>1. alive' \in BOOLEAN
      BY <2>3 DEF TypeOK, ReaderFailsConnection, FailSwap
    <3>2. failer' \in Callers \cup {Reader, NoCaller}
      BY <2>3 DEF TypeOK, ReaderFailsConnection, FailSwap
    <3>3. failStep' \in FailSteps
      BY <2>3 DEF TypeOK, ReaderFailsConnection, FailSteps, FailSwap
    <3> QED
      BY <2>3, <3>1, <3>2, <3>3
      DEF TypeOK, ReaderFailsConnection, FailSwap, callerVars, tableVars,
        failVars, readerVars, serverVars
  <2>4. CASE ReaderStops
    <3>1. readerPc' \in ReaderLabels
      BY <2>4 DEF TypeOK, ReaderStops, ReaderLabels
    <3> QED
      BY <2>4, <3>1
      DEF TypeOK, ReaderStops, callerVars, tableVars, failVars, readerVars,
        serverVars
  <2> QED
    BY <1>7, <2>1, <2>2, <2>3, <2>4 DEF DispatchStep
<1>8. CASE FailStep
  <2>1. CASE RecordFailure
    <3>1. failure' \in Causes \cup {"none"}
      BY <2>1 DEF TypeOK, RecordFailure, Causes
    <3>2. failStep' \in FailSteps
      BY <2>1 DEF TypeOK, RecordFailure, FailSteps
    <3> QED
      BY <2>1, <3>1, <3>2
      DEF TypeOK, RecordFailure, callerVars, tableVars, failVars,
        readerVars, serverVars
  <2>2. CASE TakePending
    <3>1. drained' \in SUBSET Entry
      BY <2>2 DEF TypeOK, TakePending, Entry
    <3>2. pending' \in SUBSET Entry
      BY <2>2 DEF TypeOK, TakePending, Entry
    <3>3. failStep' \in FailSteps
      BY <2>2 DEF TypeOK, TakePending, FailSteps
    <3> QED
      BY <2>2, <3>1, <3>2, <3>3
      DEF TypeOK, TakePending, callerVars, tableVars, failVars, readerVars,
        serverVars
  <2>3. CASE NotifyPending
    <3>1. answer' \in [Callers -> Answers]
      BY <2>3 DEF TypeOK, NotifyPending, Answers, Deliver, Entry
    <3>2. drained' \in SUBSET Entry
      BY <2>3 DEF TypeOK, NotifyPending, Entry, Deliver
    <3>3. failStep' \in FailSteps
      BY <2>3 DEF TypeOK, NotifyPending, FailSteps, Deliver, Entry
    <3> QED
      BY <2>3, <3>1, <3>2, <3>3
      DEF TypeOK, NotifyPending, callerVars, tableVars, failVars,
        readerVars, serverVars
  <2>4. CASE NotifyThreads
    <3>1. queue' \in [Callers -> Seq(EventKinds)]
      BY <2>4 DEF TypeOK, NotifyThreads, EventKinds
    <3>2. senders' \in [Threads -> Callers \cup {NoCaller}]
      BY <2>4 DEF TypeOK, NotifyThreads
    <3>3. failStep' \in FailSteps
      BY <2>4 DEF TypeOK, NotifyThreads, FailSteps
    <3> QED
      BY <2>4, <3>1, <3>2, <3>3
      DEF TypeOK, NotifyThreads, callerVars, tableVars, failVars,
        readerVars, serverVars
  <2> QED
    BY <1>8, <2>1, <2>2, <2>3, <2>4 DEF FailStep
<1>9. CASE UNCHANGED vars
  BY <1>9 DEF TypeOK, vars, callerVars, tableVars, failVars, readerVars, serverVars
<1> QED
  BY <1>1, <1>2, <1>3, <1>4, <1>5, <1>6, <1>7, <1>8, <1>9
  DEF Next, Terminated, ReadStep
\* Every variable keeps its type in every behaviour of the connection.
THEOREM TypeCorrect == Spec => []TypeOK
<1>1. Init => TypeOK
  BY ConnectionAssumption
  DEF Init, TypeOK, Labels, Methods, Requests, Answers, Outcomes, FailSteps, Causes,
      ReaderLabels, Entry
<1>2. TypeOK /\ [Next]_vars => TypeOK'
  BY TypeStep
<1> QED
  BY <1>1, <1>2, PTL DEF Spec

-----------------------------------------------------------------------------
(* The inductive invariant and the safety properties.                       *)

Ended == {"release", "dropped", "unregister", "close", "done"}

InHand(c) == readerPc = "deliver" /\ held.caller = c

\* Ids are handed out once: a caller's current id is below the counter and no
\* other caller's.
IdsInv ==
  /\ \A c \in Callers : reqId[c] < nextId
  /\ \A c, d \in Callers : c # d /\ reqId[c] = reqId[d] => reqId[c] = 0

\* The map lock is held across exactly one step, and `fail` can neither have
\* drained the map before it nor drain it during it.
LockInv ==
  /\ alive <=> failStep = "none"
  /\ \A c \in Callers : pc[c] = "insert" =>
       lock = c /\ failStep \in {"none", "record", "pending"}

\* A sender is in one place at a time, it is the sender of the caller's current
\* request, and that request has no answer yet.
SenderInv ==
  /\ \A p \in pending \cup drained :
       /\ p[1] = reqId[p[2]] /\ p[1] # 0
       /\ answer[p[2]] = "none"
       /\ pc[p[2]] \in {"send", "write", "await", "failWrite", "failTimeout",
                         "remove"} \cup Ended
       /\ pc[p[2]] \in {"send", "write"} => method[p[2]] \in Requests
       /\ ~InHand(p[2])
  /\ pending \cap drained = {}

\* What the reader has in hand answers the current request of the caller whose
\* sender it took.
HandInv ==
  readerPc = "deliver" =>
    /\ held.id = reqId[held.caller]
    /\ held.for = held.caller
    /\ held.method = method[held.caller]
    /\ answer[held.caller] = "none"
    /\ pc[held.caller] \in {"await", "failTimeout"} \cup Ended

\* A request the child has not answered is the last one of its caller.
WrittenInv ==
  \A r \in written :
    /\ r.id = reqId[r.caller] /\ r.id # 0
    /\ r.method = method[r.caller]
    /\ answer[r.caller] \in {"none", "failed"}
    /\ pc[r.caller] \in {"await", "failTimeout"} \cup Ended
    /\ ~InHand(r.caller)

\* From the insertion on, an unanswered request is owed its answer.
OwedInv ==
  \A c \in Callers :
    pc[c] \in {"send", "write", "await"} /\ method[c] \in Requests
      /\ answer[c] = "none" => Owed(c)

\* Where a caller is tells what it is doing there: a request in progress has an
\* id, and a tool resolution never waits for an answer.
RequestInv ==
  \A c \in Callers :
    /\ pc[c] \in {"allocate", "lock", "insert", "await", "remove"} => method[c] \in Requests
    /\ pc[c] \in {"lock", "insert"} => answer[c] = "none" /\ reqId[c] # 0
    /\ pc[c] \in {"send", "write", "await"} /\ method[c] \in Requests => reqId[c] # 0
    /\ pc[c] \in {"send", "write"} /\ method[c] \in Requests => answer[c] \in {"none", "failed"}

IInv == /\ IdsInv /\ LockInv /\ SenderInv /\ HandInv /\ WrittenInv
        /\ OwedInv /\ RequestInv
-----------------------------------------------------------------------------
(* Moves that concern no request of anybody.                               *)

\* What a step leaves alone when it does not touch the requests themselves.
RequestState == <<reqId, answer, nextId, pending, drained, failStep, alive, written>>

\* Nobody holds a sender of caller c or an unanswered request of it.
Idle(c) ==
  /\ \A p \in pending \cup drained : p[2] # c
  /\ \A r \in written : r.caller # c
  /\ ~InHand(c)

\* A caller that is not in a request is idle.
LEMMA IdleCaller ==
  ASSUME TypeOK, IInv, NEW c \in Callers,
         \/ pc[c] \in {"allocate", "lock", "insert", "register", "subscribe", "read", "retained"}
         \/ pc[c] = "await" /\ answer[c] \in {"ok", "rpcError"}
         \/ pc[c] \in {"send", "write"} /\ method[c] = "resolution"
  PROVE  Idle(c)
<1>1. ASSUME NEW p \in pending \cup drained, p[2] = c
      PROVE  FALSE
  BY <1>1 DEF IInv, SenderInv, Ended, Requests
<1>2. ASSUME NEW r \in written, r.caller = c
      PROVE  FALSE
  BY <1>2 DEF IInv, WrittenInv, Ended
<1>3. ~InHand(c)
  BY DEF IInv, HandInv, InHand, Ended
<1> QED
  BY <1>1, <1>2, <1>3 DEF Idle

\* A caller may leave at any time: what is under way for it is answered in vain.
LEMMA Leaving ==
  ASSUME TypeOK, IInv, NEW c \in Callers, NEW label \in Ended, Goto(c, label),
         UNCHANGED <<RequestState, method, lock, readerPc, held>>
  PROVE  IInv'
<1>1. IdsInv' /\ LockInv'
  BY DEF TypeOK, IInv, IdsInv, LockInv, Goto, RequestState, Ended
<1>2. SenderInv'
  BY DEF TypeOK, IInv, SenderInv, InHand, Goto, RequestState, Ended, Entry
<1>3. HandInv' /\ WrittenInv'
  BY DEF TypeOK, IInv, HandInv, WrittenInv, InHand, Goto, RequestState, Ended, Sent, Response
<1>4. OwedInv'
  BY DEF TypeOK, IInv, OwedInv, Owed, Goto, RequestState, Ended
<1>5. RequestInv'
  BY DEF TypeOK, IInv, RequestInv, Goto, RequestState, Ended
<1> QED
  BY <1>1, <1>2, <1>3, <1>4, <1>5 DEF IInv

\* An idle caller may move between requests.
LEMMA IdleMove ==
  ASSUME TypeOK, IInv, NEW c \in Callers, Idle(c),
         NEW label \in {"register", "subscribe", "read", "retained", "allocate", "send"},
         NEW m \in Methods, method' = [method EXCEPT ![c] = m],
         label = "allocate" => m \in Requests,
         label = "send" => m = "resolution",
         Goto(c, label), UNCHANGED <<RequestState, lock, readerPc, held>>
  PROVE  IInv'
<1>1. IdsInv' /\ LockInv'
  BY DEF TypeOK, IInv, IdsInv, LockInv, Goto, RequestState
<1>2. SenderInv'
  BY DEF TypeOK, IInv, SenderInv, InHand, Idle, Goto, RequestState, Entry
<1>3. HandInv' /\ WrittenInv'
  BY DEF TypeOK, IInv, HandInv, WrittenInv, InHand, Idle, Goto, RequestState, Sent, Response
<1>4. OwedInv'
  BY DEF TypeOK, IInv, OwedInv, Owed, Goto, RequestState, Requests
<1>5. RequestInv'
  BY DEF TypeOK, IInv, RequestInv, Goto, RequestState, Requests
<1> QED
  BY <1>1, <1>2, <1>3, <1>4, <1>5 DEF IInv

\* The reader may take or drop anything but a response.
LEMMA ReaderMove ==
  ASSUME TypeOK, IInv, readerPc # "deliver", readerPc' # "deliver",
         UNCHANGED <<RequestState, pc, method, lock>>
  PROVE  IInv'
<1>1. IdsInv' /\ LockInv' /\ RequestInv'
  BY DEF IInv, IdsInv, LockInv, RequestInv, RequestState
<1>2. SenderInv' /\ HandInv' /\ WrittenInv'
  BY DEF IInv, SenderInv, HandInv, WrittenInv, InHand, RequestState
<1>3. OwedInv'
  BY DEF IInv, OwedInv, Owed, RequestState
<1> QED
  BY <1>1, <1>2, <1>3 DEF IInv

\* A request may go on from its check to its write, or take back what it
\* inserted, or give up waiting; its sender stays where it is.
LEMMA RequestMove ==
  ASSUME TypeOK, IInv, NEW c \in Callers,
         NEW label \in {"write", "remove", "failWrite", "failTimeout"},
         \/ pc[c] = "send" /\ label = "write"
         \/ pc[c] = "send" /\ method[c] \in Requests /\ label = "remove"
         \/ pc[c] = "write" /\ label = "failWrite"
         \/ pc[c] = "await" /\ label = "failTimeout"
         \/ pc[c] = "failWrite" /\ method[c] \in Requests /\ label = "remove",
         Goto(c, label), UNCHANGED <<RequestState, method, lock, readerPc, held>>
  PROVE  IInv'
<1>1. IdsInv' /\ LockInv'
  BY DEF TypeOK, IInv, IdsInv, LockInv, Goto, RequestState
<1>2. SenderInv'
  BY DEF TypeOK, IInv, SenderInv, InHand, Goto, RequestState, Entry
<1>3. HandInv' /\ WrittenInv'
  BY DEF TypeOK, IInv, HandInv, WrittenInv, InHand, Goto, RequestState, Sent, Response, Ended
<1>4. OwedInv'
  BY DEF TypeOK, IInv, OwedInv, Owed, Goto, RequestState
<1>5. RequestInv'
  BY DEF TypeOK, IInv, RequestInv, Goto, RequestState
<1> QED
  BY <1>1, <1>2, <1>3, <1>4, <1>5 DEF IInv

-----------------------------------------------------------------------------
(* The steps of a request.                                                 *)

\* The id that is taken is new, and its caller has nothing under way.
LEMMA AllocateIdStep ==
  ASSUME TypeOK, IInv, NEW c \in Callers, AllocateId(c)
  PROVE  IInv'
<1>1. CASE nextId < MaxId
  <2>1. Idle(c)
    BY IdleCaller DEF AllocateId
  <2>2. /\ reqId' = [reqId EXCEPT ![c] = nextId]
        /\ answer' = [answer EXCEPT ![c] = "none"]
        /\ nextId' = nextId + 1
        /\ pc' = [pc EXCEPT ![c] = "lock"]
        /\ method[c] \in Requests
        /\ UNCHANGED <<method, lock, pending, drained, alive, failStep, readerPc, held, written>>
    BY <1>1 DEF AllocateId, Goto, failVars, readerVars, serverVars, IInv, RequestInv
  <2>3. nextId \in Nat \ {0} /\ reqId \in [Callers -> Nat]
    BY DEF TypeOK
  <2>4. IdsInv'
    BY <2>2, <2>3 DEF IInv, IdsInv
  <2>5. LockInv'
    BY <2>2 DEF TypeOK, IInv, LockInv
  <2>6. SenderInv'
    BY <2>1, <2>2 DEF TypeOK, IInv, SenderInv, InHand, Idle, Entry
  <2>7. HandInv' /\ WrittenInv'
    BY <2>1, <2>2 DEF TypeOK, IInv, HandInv, WrittenInv, InHand, Idle, Sent, Response
  <2>8. OwedInv'
    BY <2>2 DEF TypeOK, IInv, OwedInv, Owed
  <2>9. RequestInv'
    BY <2>2, <2>3 DEF TypeOK, IInv, RequestInv
  <2> QED
    BY <2>4, <2>5, <2>6, <2>7, <2>8, <2>9 DEF IInv
<1>2. CASE ~(nextId < MaxId)
  BY <1>2, Leaving DEF AllocateId, LeaveRequest, Ended, RequestState, failVars, readerVars,
     serverVars
<1> QED
  BY <1>1, <1>2

\* Who sees the flag up while holding the lock comes before the drain.
LEMMA LockPendingStep ==
  ASSUME TypeOK, IInv, NEW c \in Callers, LockPending(c)
  PROVE  IInv'
<1> USE ConnectionAssumption
<1>1. CASE alive
  <2>1. Idle(c)
    BY IdleCaller DEF LockPending
  <2>2. /\ pc' = [pc EXCEPT ![c] = "insert"] /\ lock = NoCaller /\ lock' = c
        /\ pc[c] = "lock"
        /\ UNCHANGED <<RequestState, method, readerPc, held>>
    BY <1>1 DEF LockPending, Goto, failVars, readerVars, serverVars, RequestState
  <2>3. IdsInv'
    BY <2>2 DEF IInv, IdsInv, RequestState
  <2>4. LockInv'
    BY <1>1, <2>2 DEF TypeOK, IInv, LockInv, RequestState
  <2>5. SenderInv'
    BY <2>1, <2>2 DEF TypeOK, IInv, SenderInv, InHand, Idle, Entry, RequestState
  <2>6. HandInv' /\ WrittenInv'
    BY <2>1, <2>2 DEF TypeOK, IInv, HandInv, WrittenInv, InHand, Idle, Sent, Response,
                      RequestState
  <2>7. OwedInv' /\ RequestInv'
    BY <2>2 DEF TypeOK, IInv, OwedInv, Owed, RequestInv, RequestState
  <2> QED
    BY <2>3, <2>4, <2>5, <2>6, <2>7 DEF IInv
<1>2. CASE ~alive
  BY <1>2, Leaving DEF LockPending, LeaveRequest, Ended, RequestState, failVars, readerVars,
     serverVars
<1> QED
  BY <1>1, <1>2

\* The map gets an entry that `fail` will still drain.
LEMMA InsertPendingStep ==
  ASSUME TypeOK, IInv, NEW c \in Callers, InsertPending(c)
  PROVE  IInv'
<1> USE ConnectionAssumption
<1>1. Idle(c)
  BY IdleCaller DEF InsertPending
<1>2. /\ pc' = [pc EXCEPT ![c] = "send"] /\ lock' = NoCaller /\ pc[c] = "insert"
      /\ pending' = pending \cup {<<reqId[c], c>>}
      /\ UNCHANGED <<reqId, answer, nextId, drained, failStep, alive, written, method,
                     readerPc, held>>
  BY DEF InsertPending, Goto, failVars, readerVars, serverVars
<1>3. method[c] \in Requests /\ answer[c] = "none" /\ reqId[c] # 0 /\ lock = c
      /\ failStep \in {"none", "record", "pending"}
  BY <1>2 DEF IInv, RequestInv, LockInv
<1>4. IdsInv'
  BY <1>2 DEF IInv, IdsInv
<1>5. LockInv'
  BY <1>2, <1>3 DEF TypeOK, IInv, LockInv
<1>6. SenderInv'
  BY <1>1, <1>2, <1>3 DEF TypeOK, IInv, SenderInv, InHand, Idle, Entry
<1>7. HandInv' /\ WrittenInv'
  BY <1>1, <1>2 DEF TypeOK, IInv, HandInv, WrittenInv, InHand, Idle, Sent, Response
<1>8. OwedInv'
  BY <1>2, <1>3 DEF TypeOK, IInv, OwedInv, Owed
<1>9. RequestInv'
  BY <1>2, <1>3 DEF TypeOK, IInv, RequestInv
<1> QED
  BY <1>4, <1>5, <1>6, <1>7, <1>8, <1>9 DEF IInv

\* A request that is written is the one its caller is making.
LEMMA WriteStdinStep ==
  ASSUME TypeOK, IInv, NEW c \in Callers, WriteStdin(c)
  PROVE  IInv'
<1>1. CASE method[c] = "resolution"
  <2>1. Idle(c)
    BY <1>1, IdleCaller DEF WriteStdin
  <2>2. method' = [method EXCEPT ![c] = "resolution"]
    BY <1>1 DEF TypeOK, WriteStdin
  <2> QED
    BY <1>1, <2>1, <2>2, IdleMove
    DEF WriteStdin, Goto, Methods, RequestState, tableVars, failVars, readerVars
<1>2. CASE method[c] # "resolution"
  <2> DEFINE new == [id |-> reqId[c], method |-> method[c], caller |-> c]
  <2>1. /\ pc' = [pc EXCEPT ![c] = "await"] /\ pc[c] = "write"
        /\ written' = written \cup {new}
        /\ UNCHANGED <<reqId, answer, nextId, pending, drained, failStep, alive, method,
                       lock, readerPc, held>>
    BY <1>2 DEF WriteStdin, Goto, tableVars, failVars, readerVars
  <2>2. method[c] \in Requests
    BY <1>2 DEF TypeOK, Methods
  <2>3. IdsInv' /\ LockInv'
    BY <2>1 DEF TypeOK, IInv, IdsInv, LockInv
  <2>4. SenderInv'
    BY <2>1 DEF TypeOK, IInv, SenderInv, InHand, Entry
  <2>5. HandInv'
    BY <2>1 DEF TypeOK, IInv, HandInv, Response
  <2>6. WrittenInv'
    <3>1. ASSUME NEW r \in written
          PROVE  r.caller # c /\ r.caller \in Callers
      BY <2>1 DEF TypeOK, IInv, WrittenInv, Ended, Sent
    <3>2. reqId[c] # 0 /\ answer[c] \in {"none", "failed"}
      BY <2>1, <2>2 DEF IInv, RequestInv
    <3>3. ~InHand(c)
      BY <2>1 DEF IInv, HandInv, InHand, Ended
    <3> QED
      BY <2>1, <3>1, <3>2, <3>3 DEF TypeOK, IInv, WrittenInv, InHand, Ended
  <2>7. OwedInv'
    BY <2>1 DEF TypeOK, IInv, OwedInv, Owed
  <2>8. RequestInv'
    BY <2>1, <2>2 DEF TypeOK, IInv, RequestInv
  <2> QED
    BY <2>3, <2>4, <2>5, <2>6, <2>7, <2>8 DEF IInv
<1> QED
  BY <1>1, <1>2

\* A request takes back its own entry and no other.
LEMMA RemovePendingStep ==
  ASSUME TypeOK, IInv, NEW c \in Callers, RemovePending(c)
  PROVE  IInv'
<1>1. PICK label \in Ended : pc' = [pc EXCEPT ![c] = label]
  BY DEF RemovePending, LeaveRequest, Goto, Ended
<1>2. /\ pending' = {p \in pending : p[1] # reqId[c]} /\ pc[c] = "remove"
      /\ UNCHANGED <<reqId, answer, nextId, drained, failStep, alive, written, method, lock,
                     readerPc, held>>
  BY DEF RemovePending, Without, failVars, readerVars, serverVars
<1>3. IdsInv' /\ LockInv'
  BY <1>1, <1>2 DEF TypeOK, IInv, IdsInv, LockInv, Ended
<1>4. SenderInv'
  BY <1>1, <1>2 DEF TypeOK, IInv, SenderInv, InHand, Entry, Ended
<1>5. HandInv' /\ WrittenInv'
  BY <1>1, <1>2 DEF TypeOK, IInv, HandInv, WrittenInv, InHand, Sent, Response, Ended
<1>6. OwedInv'
  <2>1. ASSUME NEW d \in Callers, d # c, <<reqId[d], d>> \in pending
        PROVE  <<reqId[d], d>> \in pending'
    BY <1>2, <2>1 DEF IInv, IdsInv, SenderInv
  <2> QED
    BY <1>1, <1>2, <2>1 DEF TypeOK, IInv, OwedInv, Owed, Ended
<1>7. RequestInv'
  BY <1>1, <1>2 DEF TypeOK, IInv, RequestInv, Ended
<1> QED
  BY <1>3, <1>4, <1>5, <1>6, <1>7 DEF IInv

-----------------------------------------------------------------------------
(* The steps of the reader.                                                *)

\* The sender the reader takes out of the map belongs to the caller that made
\* the request.
LEMMA ReadResponseStep ==
  ASSUME TypeOK, IInv, NEW r \in written, NEW result \in {"ok", "rpcError"},
         NEW t \in Threads \cup {NoThread}, ReadResponse(r, result, t)
  PROVE  IInv'
<1>1. /\ readerPc = "read"
      /\ written' = written \ {r}
      /\ pending' = {p \in pending : p[1] # r.id}
      /\ UNCHANGED <<pc, method, reqId, answer, nextId, lock, drained, alive, failStep>>
  BY DEF ReadResponse, Without, callerVars, failVars
<1>2. r \in Sent /\ r.caller \in Callers /\ r.id = reqId[r.caller] /\ r.id # 0
      /\ r.method = method[r.caller]
      /\ pc[r.caller] \in {"await", "failTimeout"} \cup Ended
  BY DEF TypeOK, Sent, IInv, WrittenInv
<1>3. IdsInv' /\ LockInv' /\ RequestInv'
  BY <1>1 DEF IInv, IdsInv, LockInv, RequestInv
<1>4. CASE r.id \in Ids(pending)
  <2> DEFINE d == CHOOSE c \in Callers : <<r.id, c>> \in pending
  <2>1. d \in Callers /\ <<r.id, d>> \in pending
    <3>1. PICK p \in pending : p[1] = r.id
      BY <1>4 DEF Ids
    <3>2. p \in (0..MaxId) \X Callers
      BY DEF TypeOK, Entry
    <3>3. p[2] \in Callers /\ <<r.id, p[2]>> \in pending
      BY <3>1, <3>2
    <3> QED
      BY <3>3
  <2>2. readerPc' = "deliver"
        /\ held' = [id |-> r.id, method |-> r.method, for |-> r.caller, caller |-> d,
                    result |-> result, thread |-> t]
    BY <1>4 DEF ReadResponse
  <2> HIDE DEF d
  <2>3. r.id = reqId[d] /\ answer[d] = "none" /\ <<r.id, d>> \notin drained
    BY <2>1 DEF IInv, SenderInv
  <2>4. d = r.caller
    BY <1>2, <2>1, <2>3 DEF IInv, IdsInv
  <2>5. held'.id = r.id /\ held'.caller = d /\ held'.for = d /\ held'.method = method[d]
    BY <1>2, <2>4, <2>2
  <2>6. SenderInv'
    <3>1. ASSUME NEW p \in pending' \cup drained
          PROVE  p[2] # d
      <4>1. p \in (0..MaxId) \X Callers /\ p \in pending \cup drained
        BY <1>1 DEF TypeOK, Entry
      <4>2. p[1] = reqId[p[2]]
        BY <4>1 DEF IInv, SenderInv
      <4>3. CASE p \in pending'
        BY <1>1, <2>3, <4>2, <4>3
      <4>4. CASE p \in drained
        BY <2>3, <4>1, <4>2, <4>4
      <4> QED
        BY <4>3, <4>4
    <3> QED
      BY <1>1, <2>5, <3>1 DEF IInv, SenderInv, InHand
  <2>7. HandInv'
    BY <1>1, <1>2, <2>1, <2>3, <2>4, <2>5 DEF HandInv
  <2>8. WrittenInv'
    <3>1. ASSUME NEW w \in written', w.caller = d
          PROVE  FALSE
      <4>1. w \in Sent /\ w # r /\ w.id = r.id /\ w.method = r.method /\ w.caller = r.caller
        BY <1>1, <1>2, <2>4, <3>1 DEF TypeOK, IInv, WrittenInv
      <4> QED
        BY <1>2, <4>1 DEF Sent
    <3> QED
      BY <1>1, <2>5, <3>1 DEF IInv, WrittenInv, InHand
  <2>9. OwedInv'
    <3>1. ASSUME NEW c \in Callers, c # d, <<reqId[c], c>> \in pending
          PROVE  <<reqId[c], c>> \in pending'
      BY <1>1, <1>2, <2>1, <2>3, <3>1 DEF IInv, IdsInv
    <3> QED
      BY <1>1, <2>1, <2>3, <2>2, <2>5, <3>1 DEF IInv, OwedInv, Owed
  <2> QED
    BY <1>3, <2>6, <2>7, <2>8, <2>9 DEF IInv
<1>5. CASE r.id \notin Ids(pending)
  <2>1. readerPc' = "fail" /\ pending' = pending
    BY <1>1, <1>5 DEF ReadResponse, ReaderFails, Ids
  <2>2. SenderInv' /\ HandInv' /\ WrittenInv'
    BY <1>1, <2>1 DEF IInv, SenderInv, HandInv, WrittenInv, InHand
  <2>3. OwedInv'
    BY <1>1, <2>1 DEF IInv, OwedInv, Owed
  <2> QED
    BY <1>3, <2>2, <2>3 DEF IInv
<1> QED
  BY <1>4, <1>5

\* The answer goes to the caller in whose name the sender was taken.
LEMMA DeliverResponseStep ==
  ASSUME TypeOK, IInv, DeliverResponse
  PROVE  IInv'
<1> DEFINE d == held.caller
<1>1. readerPc = "deliver" /\ readerPc' = "read" /\ d \in Callers
      /\ held.result \in {"ok", "rpcError"}
  BY DEF DeliverResponse, TypeOK, Response
<1>2. held.id = reqId[d] /\ pc[d] \in {"await", "failTimeout"} \cup Ended
  BY <1>1 DEF IInv, HandInv
<1>3. \A c \in Callers : answer'[c] = IF c = d THEN held.result ELSE answer[c]
  BY <1>1, <1>2 DEF DeliverResponse, Deliver
<1>4. UNCHANGED <<pc, method, reqId, nextId, lock, pending, drained, alive, failStep, written>>
  BY DEF DeliverResponse, tableVars, failVars, serverVars
<1>5. IdsInv' /\ LockInv'
  BY <1>4 DEF IInv, IdsInv, LockInv
<1>6. SenderInv'
  BY <1>1, <1>3, <1>4 DEF TypeOK, IInv, SenderInv, InHand, Entry
<1>7. HandInv' /\ WrittenInv'
  BY <1>1, <1>3, <1>4 DEF TypeOK, IInv, HandInv, WrittenInv, InHand, Sent
<1>8. OwedInv'
  BY <1>1, <1>3, <1>4 DEF IInv, OwedInv, Owed
<1>9. RequestInv'
  BY <1>2, <1>3, <1>4 DEF IInv, RequestInv, Ended
<1> QED
  BY <1>5, <1>6, <1>7, <1>8, <1>9 DEF IInv

-----------------------------------------------------------------------------
(* The steps of fail.                                                      *)

LEMMA FailSwapStep ==
  ASSUME TypeOK, IInv, NEW task, FailSwap(task),
         UNCHANGED <<callerVars, tableVars, readerVars, serverVars>>
  PROVE  IInv'
<1>1. /\ alive /\ ~alive' /\ failStep' = "record" /\ failStep = "none"
      /\ UNCHANGED <<pc, method, reqId, answer, nextId, lock, pending, drained, readerPc, held,
                     written>>
  BY DEF FailSwap, IInv, LockInv, callerVars, tableVars, readerVars, serverVars
<1>2. IdsInv' /\ LockInv' /\ RequestInv'
  BY <1>1 DEF IInv, IdsInv, LockInv, RequestInv
<1>3. SenderInv' /\ HandInv' /\ WrittenInv'
  BY <1>1 DEF IInv, SenderInv, HandInv, WrittenInv, InHand
<1>4. OwedInv'
  BY <1>1 DEF IInv, OwedInv, Owed
<1> QED
  BY <1>2, <1>3, <1>4 DEF IInv

\* Taking the map needs its lock, so no insertion is half done.
LEMMA TakePendingStep ==
  ASSUME TypeOK, IInv, TakePending
  PROVE  IInv'
<1> USE ConnectionAssumption
<1>1. /\ failStep = "pending" /\ failStep' = "notify" /\ lock = NoCaller
      /\ drained' = pending /\ pending' = {}
      /\ UNCHANGED <<pc, method, reqId, answer, nextId, lock, alive, readerPc, held, written>>
  BY DEF TakePending, callerVars, readerVars, serverVars
<1>2. IdsInv' /\ LockInv' /\ RequestInv'
  BY <1>1 DEF IInv, IdsInv, LockInv, RequestInv
<1>3. SenderInv' /\ HandInv' /\ WrittenInv'
  BY <1>1 DEF IInv, SenderInv, HandInv, WrittenInv, InHand
<1>4. OwedInv'
  BY <1>1 DEF IInv, OwedInv, Owed
<1> QED
  BY <1>2, <1>3, <1>4 DEF IInv

LEMMA NotifyPendingStep ==
  ASSUME TypeOK, IInv, NotifyPending
  PROVE  IInv'
<1>1. /\ failStep = "notify" /\ failStep' = "threads" /\ drained' = {}
      /\ UNCHANGED <<pc, method, reqId, nextId, lock, pending, alive, readerPc, held, written>>
  BY DEF NotifyPending, tableVars, readerVars, serverVars
<1>2. \A c \in Callers :
        answer'[c] = IF <<reqId[c], c>> \in drained THEN "failed" ELSE answer[c]
  BY DEF NotifyPending, Deliver
<1>3. IdsInv' /\ LockInv'
  BY <1>1 DEF IInv, IdsInv, LockInv
<1>4. SenderInv'
  <2>1. ASSUME NEW p \in pending
        PROVE  p[2] \in Callers /\ answer'[p[2]] = answer[p[2]]
    BY <1>2, <2>1 DEF TypeOK, Entry, IInv, SenderInv
  <2> QED
    BY <1>1, <2>1 DEF IInv, SenderInv, InHand
<1>5. HandInv'
  <2>1. CASE readerPc = "deliver"
    <3>1. held.caller \in Callers /\ InHand(held.caller)
      BY <2>1 DEF TypeOK, Response, InHand
    <3>2. <<reqId[held.caller], held.caller>> \notin drained
      BY <3>1 DEF IInv, SenderInv
    <3> QED
      BY <1>1, <1>2, <3>1, <3>2 DEF IInv, HandInv
  <2> QED
    BY <1>1, <2>1 DEF HandInv
<1>6. WrittenInv'
  BY <1>1, <1>2 DEF TypeOK, Sent, IInv, WrittenInv, InHand
<1>7. OwedInv'
  BY <1>1, <1>2 DEF IInv, OwedInv, Owed
<1>8. RequestInv'
  <2>1. ASSUME NEW c \in Callers, pc[c] \in {"lock", "insert"}
        PROVE  <<reqId[c], c>> \notin drained
    BY <2>1 DEF IInv, SenderInv, Ended
  <2> QED
    BY <1>1, <1>2, <2>1 DEF IInv, RequestInv
<1> QED
  BY <1>3, <1>4, <1>5, <1>6, <1>7, <1>8 DEF IInv

\* Recording the cause and notifying the threads concern no request.
LEMMA FailMove ==
  ASSUME TypeOK, IInv,
         \/ failStep = "record" /\ failStep' = "pending"
         \/ failStep = "threads" /\ failStep' = "done",
         UNCHANGED <<pc, method, reqId, answer, nextId, lock, pending, drained, alive, readerPc,
                     held, written>>
  PROVE  IInv'
<1>1. IdsInv' /\ LockInv' /\ RequestInv'
  BY DEF IInv, IdsInv, LockInv, RequestInv
<1>2. SenderInv' /\ HandInv' /\ WrittenInv'
  BY DEF IInv, SenderInv, HandInv, WrittenInv, InHand
<1>3. OwedInv'
  BY DEF IInv, OwedInv, Owed
<1> QED
  BY <1>1, <1>2, <1>3 DEF IInv

-----------------------------------------------------------------------------
(* The invariant and what follows from it.                                 *)

LEMMA RequestStepKeeps ==
  ASSUME TypeOK, IInv, NEW c \in Callers, RequestStep(c)
  PROVE  IInv'
<1> USE DEF RequestState, callerVars, tableVars, failVars, readerVars, serverVars
<1>1. CASE AllocateId(c)
  BY <1>1, AllocateIdStep
<1>2. CASE LockPending(c)
  BY <1>2, LockPendingStep
<1>3. CASE InsertPending(c)
  BY <1>3, InsertPendingStep
<1>4. CASE SendCheck(c)
  <2>1. CASE alive
    BY <1>4, <2>1, RequestMove DEF SendCheck
  <2>2. CASE ~alive /\ method[c] \in Requests
    BY <1>4, <2>2, RequestMove DEF SendCheck
  <2>3. CASE ~alive /\ method[c] \notin Requests
    BY <1>4, <2>3, Leaving DEF SendCheck, LeaveRequest, Ended
  <2> QED
    BY <2>1, <2>2, <2>3
<1>5. CASE WriteStdin(c)
  BY <1>5, WriteStdinStep
<1>6. CASE WriteError(c)
  BY <1>6, RequestMove DEF WriteError
<1>7. CASE RemovePending(c)
  BY <1>7, RemovePendingStep
<1>8. CASE ReceiveResult(c)
  <2>1. Idle(c)
    BY <1>8, IdleCaller DEF ReceiveResult
  <2>2. method' = [method EXCEPT ![c] = method[c]] /\ method[c] \in Methods
    BY <1>8 DEF ReceiveResult, TypeOK
  <2> QED
    BY <1>8, <2>1, <2>2, IdleMove DEF ReceiveResult
<1>9. CASE ReceiveError(c)
  BY <1>9, Leaving DEF ReceiveError, LeaveRequest, Ended
<1>10. CASE ReceiveUnnamedTurn(c)
  BY <1>10, Leaving DEF ReceiveUnnamedTurn, Ended
<1>11. CASE CallerFails(c)
  BY <1>11, FailSwapStep DEF CallerFails
<1>12. CASE CallerFailed(c)
  <2>1. CASE pc[c] = "failWrite" /\ method[c] \in Requests
    BY <1>12, <2>1, RequestMove DEF CallerFailed
  <2>2. CASE ~(pc[c] = "failWrite" /\ method[c] \in Requests)
    BY <1>12, <2>2, Leaving DEF CallerFailed, LeaveRequest, Ended
  <2> QED
    BY <2>1, <2>2
<1> QED
  BY <1>1, <1>2, <1>3, <1>4, <1>5, <1>6, <1>7, <1>8, <1>9, <1>10, <1>11, <1>12
  DEF RequestStep

LEMMA SessionStepKeeps ==
  ASSUME TypeOK, IInv, NEW c \in Callers, SessionStep(c)
  PROVE  IInv'
<1> USE DEF RequestState, callerVars, tableVars, failVars, readerVars, serverVars
<1>0. method' = method => method' = [method EXCEPT ![c] = method[c]] /\ method[c] \in Methods
  BY DEF TypeOK
<1>1. CASE RegisterCheck(c)
  <2>1. CASE alive
    BY <1>0, <1>1, <2>1, IdleCaller, IdleMove DEF RegisterCheck
  <2>2. CASE ~alive
    BY <1>1, <2>2, Leaving DEF RegisterCheck, LeaveRequest, Ended
  <2> QED
    BY <2>1, <2>2
<1>2. CASE RegisterThread(c)
  <2>1. CASE senders[thread[c]] = NoCaller
    BY <1>2, <2>1, IdleCaller, IdleMove DEF RegisterThread, Requests, Methods
  <2>2. CASE senders[thread[c]] # NoCaller
    BY <1>2, <2>2, Leaving DEF RegisterThread, LeaveRequest, Ended
  <2> QED
    BY <2>1, <2>2
<1>3. CASE CloseReceiver(c)
  BY <1>3, Leaving DEF CloseReceiver, Ended
<1>4. CASE UnregisterThread(c)
  BY <1>4, Leaving DEF UnregisterThread, Ended
<1>5. CASE ConsumeEvent(c)
  <2>1. CASE pc' = pc
    <3>1. Goto(c, "read")
      BY <1>5, <2>1 DEF ConsumeEvent, Goto, TypeOK
    <3> QED
      BY <1>0, <1>5, <3>1, IdleCaller, IdleMove DEF ConsumeEvent
  <2>2. CASE Goto(c, "release")
    BY <1>5, <2>2, Leaving DEF ConsumeEvent, Ended
  <2> QED
    BY <1>5, <2>1, <2>2 DEF ConsumeEvent, LeaveRead
<1>6. CASE InterruptTurn(c)
  BY <1>6, IdleCaller, IdleMove DEF InterruptTurn, Requests, Methods
<1>7. CASE RetainTool(c)
  BY <1>0, <1>7, IdleCaller, IdleMove DEF RetainTool
<1>8. CASE AbandonTurn(c)
  BY <1>8, Leaving DEF AbandonTurn, LeaveRead, Ended
<1> QED
  BY <1>1, <1>2, <1>3, <1>4, <1>5, <1>6, <1>7, <1>8 DEF SessionStep

LEMMA WaitingStepKeeps ==
  ASSUME TypeOK, IInv, NEW c \in Callers, WaitingStep(c)
  PROVE  IInv'
<1> USE DEF RequestState, callerVars, tableVars, failVars, readerVars, serverVars
<1>1. CASE RpcTimeout(c)
  BY <1>1, RequestMove DEF RpcTimeout
<1>2. CASE TurnTimeout(c)
  BY <1>2, Leaving DEF TurnTimeout, LeaveRead, Ended
<1>3. CASE ContinueTool(c)
  BY <1>3, IdleCaller, IdleMove DEF ContinueTool, Methods
<1>4. CASE ExpireTool(c)
  BY <1>4, Leaving DEF ExpireTool, Ended
<1> QED
  BY <1>1, <1>2, <1>3, <1>4 DEF WaitingStep

LEMMA ReaderStepKeeps ==
  ASSUME TypeOK, IInv, ReadStep \/ DispatchStep
  PROVE  IInv'
<1> USE DEF RequestState, callerVars, tableVars, failVars, readerVars, serverVars
<1>1. ASSUME NEW r \in written, NEW result \in {"ok", "rpcError"},
             NEW t \in Threads \cup {NoThread}, ReadResponse(r, result, t)
      PROVE  IInv'
  BY <1>1, ReadResponseStep
<1>2. ASSUME NEW t \in Threads, NEW kind \in {"event", "completed"}, ReadEvent(t, kind)
      PROVE  IInv'
  BY <1>2, ReaderMove DEF ReadEvent, ReaderFails
<1>3. CASE ReadFault
  BY <1>3, ReaderMove DEF ReadFault, ReaderFails
<1>4. CASE DeliverResponse
  BY <1>4, DeliverResponseStep
<1>5. CASE ForwardEvent
  BY <1>5, ReaderMove DEF ForwardEvent, ReaderFails
<1>6. CASE ReaderFailsConnection
  BY <1>6, FailSwapStep DEF ReaderFailsConnection
<1>7. CASE ReaderStops
  BY <1>7, ReaderMove DEF ReaderStops
<1> QED
  BY <1>1, <1>2, <1>3, <1>4, <1>5, <1>6, <1>7 DEF ReadStep, DispatchStep

LEMMA FailStepKeeps ==
  ASSUME TypeOK, IInv, FailStep
  PROVE  IInv'
<1> USE DEF callerVars, tableVars, failVars, readerVars, serverVars
<1>1. CASE RecordFailure
  BY <1>1, FailMove DEF RecordFailure
<1>2. CASE TakePending
  BY <1>2, TakePendingStep
<1>3. CASE NotifyPending
  BY <1>3, NotifyPendingStep
<1>4. CASE NotifyThreads
  BY <1>4, FailMove DEF NotifyThreads
<1> QED
  BY <1>1, <1>2, <1>3, <1>4 DEF FailStep

LEMMA IInvStep ==
  ASSUME TypeOK, IInv, [Next]_vars
  PROVE  IInv'
<1>1. CASE UNCHANGED vars
  BY <1>1 DEF IInv, IdsInv, LockInv, SenderInv, HandInv, WrittenInv, OwedInv, RequestInv,
     Owed, InHand, vars, callerVars, tableVars, failVars, readerVars, serverVars
<1> QED
  BY <1>1, RequestStepKeeps, SessionStepKeeps, WaitingStepKeeps, ReaderStepKeeps, FailStepKeeps
  DEF Next, Terminated

\* The invariant the two properties follow from.
THEOREM Invariant == Spec => []IInv
<1>1. Init => IInv
  BY ConnectionAssumption
  DEF Init, IInv, IdsInv, LockInv, SenderInv, HandInv, WrittenInv, OwedInv, RequestInv, Requests
<1>2. TypeOK /\ IInv /\ [Next]_vars => IInv'
  BY IInvStep
<1> QED
  BY <1>1, <1>2, TypeCorrect, PTL DEF Spec

\* In every behaviour, whatever the interleaving of request, dispatch and
\* fail, a caller that waits without an answer is owed one.
THEOREM NoRequestIsStranded == Spec => []RequestNeverStranded
<1>1. IInv => RequestNeverStranded
  BY DEF IInv, OwedInv, RequestInv, RequestNeverStranded
<1> QED
  BY <1>1, Invariant, PTL

\* In every behaviour, ids in use are distinct and a response completes the
\* request it was written for.
THEOREM AnswersAreNotMixedUp == Spec => []AnswerReachesItsRequest
<1>1. TypeOK /\ IInv => AnswerReachesItsRequest
  <2> SUFFICES ASSUME TypeOK, IInv
               PROVE  AnswerReachesItsRequest
    OBVIOUS
  <2>1. ASSUME NEW c \in Callers, pc[c] = "insert", NEW p \in pending, p[1] = reqId[c]
        PROVE  FALSE
    <3>1. p[2] \in Callers
      BY DEF TypeOK, Entry
    <3>2. p[2] = c
      BY <2>1, <3>1 DEF IInv, SenderInv, IdsInv
    <3> QED
      BY <2>1, <3>2 DEF IInv, SenderInv, Ended
  <2>2. readerPc = "deliver" => held.for = held.caller /\ held.method = method[held.caller]
    BY DEF IInv, HandInv
  <2> QED
    BY <2>1, <2>2 DEF AnswerReachesItsRequest, Ids
<1> QED
  BY <1>1, Invariant, TypeCorrect, PTL

\* In every behaviour, no entry is added to the map after `fail` has drained it.
THEOREM DrainIsFinal == Spec => DrainedMapStaysClosed
<1>1. TypeOK /\ IInv /\ [Next]_vars =>
        ((failStep \in {"notify", "threads", "done"}) => pending' \subseteq pending)
  <2> SUFFICES ASSUME TypeOK, IInv, [Next]_vars, failStep \in {"notify", "threads", "done"}
               PROVE  pending' \subseteq pending
    OBVIOUS
  <2>1. ASSUME NEW c \in Callers, InsertPending(c)
        PROVE  FALSE
    BY <2>1 DEF InsertPending, IInv, LockInv
  <2>2. ASSUME NEW c \in Callers, RequestStep(c)
        PROVE  pending' \subseteq pending
    BY <2>1, <2>2
    DEF RequestStep, AllocateId, LockPending, SendCheck, WriteStdin, WriteError, RemovePending,
        ReceiveResult, ReceiveError, ReceiveUnnamedTurn, CallerFails, CallerFailed, Without,
        tableVars
  <2>3. ASSUME NEW c \in Callers, SessionStep(c) \/ WaitingStep(c)
        PROVE  pending' \subseteq pending
    BY <2>3
    DEF SessionStep, WaitingStep, RegisterCheck, RegisterThread, CloseReceiver, UnregisterThread,
        ConsumeEvent, InterruptTurn, RetainTool, AbandonTurn, RpcTimeout,
        TurnTimeout, ContinueTool, ExpireTool, tableVars
  <2>4. CASE ReadStep
    BY <2>4 DEF ReadStep, ReadResponse, ReadEvent, ReadFault, Without, tableVars
  <2>5. CASE DispatchStep
    BY <2>5 DEF DispatchStep, DeliverResponse, ForwardEvent, ReaderFailsConnection, ReaderStops,
                tableVars
  <2>6. CASE FailStep
    BY <2>6 DEF FailStep, RecordFailure, TakePending, NotifyPending, NotifyThreads, tableVars
  <2>7. CASE UNCHANGED vars
    BY <2>7 DEF vars, tableVars
  <2> QED
    BY <2>2, <2>3, <2>4, <2>5, <2>6, <2>7 DEF Next, Terminated
<1>2. TypeOK /\ IInv /\ [Next]_vars =>
        [(failStep \in {"notify", "threads", "done"}) => pending' \subseteq pending]_vars
  BY <1>1
<1> QED
  BY <1>2, Invariant, TypeCorrect, PTL DEF Spec, DrainedMapStaysClosed
-----------------------------------------------------------------------------
(* Registrations.  A session at work is registered until `fail` has taken    *)
(* the table, and has the error from then on.  Two sessions may have got the *)
(* same thread from the App Server, and then one may undo the registration   *)
(* of the other; that only happens after a fault of the reader, which has    *)
(* not answered the turn/start of the other by then and will not.            *)

Calling == {"allocate", "lock", "insert", "send", "write", "await", "remove", "failWrite",
            "failTimeout"}

\* A session that is at work on its registered thread, and one on its way out.
AtWork(c)  == method[c] # "threadStart" /\ pc[c] \in Calling \cup {"read", "retained"}
Going(c)   == pc[c] \in {"release", "dropped", "unregister"}
Present(c) == AtWork(c) \/ Going(c)

\* A session that has not seen the answer to turn/start.
Early(c) ==
  /\ method[c] = "turnStart" /\ pc[c] \in Calling
  /\ pc[c] = "allocate" \/ answer[c] # "ok"

ReaderDown == readerPc \in {"fail", "stopped"}
HasError(c) == \E i \in DOMAIN queue[c] : queue[c][i] = "err"

\* What a session is doing, and what it knows, at each place.
Placed(c) ==
  /\ AtWork(c) => rxOpen[c]
  /\ Present(c) => thread[c] \in Threads
  /\ Going(c) \/ pc[c] \in {"read", "retained"} => method[c] # "threadStart"
  /\ pc[c] \in {"register", "subscribe"} => method[c] = "threadStart" /\ thread[c] \in Threads
  /\ method[c] = "threadStart" /\ pc[c] = "await" /\ answer[c] = "ok" => thread[c] \in Threads

PlaceInv == \A c \in Callers : Placed(c)

\* The answer to thread/start names a thread, and no other does.
AnswerInv ==
  readerPc = "deliver" =>
    (held.thread \in Threads <=> held.method = "threadStart" /\ held.result = "ok")

\* A registration is that of a session at work or going.
OwnerInv ==
  \A t \in Threads, c \in Callers : senders[t] = c => thread[c] = t /\ Present(c)

\* Until `fail` has taken the table, who is present is registered, unless the
\* reader has met a fault before the session saw the answer to turn/start.
RegisteredInv ==
  failStep # "done" => \A c \in Callers :
    Present(c) /\ senders[thread[c]] # c =>
      /\ ReaderDown
      /\ AtWork(c) => Early(c)
      /\ \A d \in Callers : senders[thread[c]] = d /\ AtWork(d) => Early(d)

\* A sender other than the one the reader has cloned belongs to a new session.
ClonedInv ==
  failStep # "done" /\ readerPc = "forward" =>
    \A d \in Callers : senders[held.thread] = d /\ d # held.caller /\ AtWork(d) => Early(d)

\* After `fail`, a session at work has the error, or will not get an answer.
Notified(c) == HasError(c) \/ (Early(c) /\ (ReaderDown \/ pc[c] \in {"allocate", "lock"}))
NotifiedInv == failStep = "done" => \A c \in Callers : AtWork(c) => Notified(c)

RegInv == PlaceInv /\ AnswerInv /\ OwnerInv /\ RegisteredInv /\ ClonedInv /\ NotifiedInv

\* Who is where it was is what it was.
LEMMA SameSession ==
  ASSUME NEW d \in Callers, pc'[d] = pc[d], method'[d] = method[d]
  PROVE  /\ AtWork(d)' <=> AtWork(d)
         /\ Going(d)' <=> Going(d)
         /\ Present(d)' <=> Present(d)
         /\ answer'[d] = answer[d] \/ answer'[d] = "failed" => (Early(d) => Early(d)')
         /\ queue'[d] = queue[d] => (HasError(d)' <=> HasError(d))
         /\ answer'[d] = answer[d] /\ thread'[d] = thread[d] /\ rxOpen'[d] = rxOpen[d] =>
              (Placed(d)' <=> Placed(d))
<1>1. /\ AtWork(d)' <=> AtWork(d)
      /\ Going(d)' <=> Going(d)
  BY DEF AtWork, Going
<1>2. Present(d)' <=> Present(d)
  BY <1>1 DEF Present
<1>3. answer'[d] = answer[d] \/ answer'[d] = "failed" => (Early(d) => Early(d)')
  BY DEF Early
<1>4. queue'[d] = queue[d] => (HasError(d)' <=> HasError(d))
  BY DEF HasError
<1>5. answer'[d] = answer[d] /\ thread'[d] = thread[d] /\ rxOpen'[d] = rxOpen[d] =>
        (Placed(d)' <=> Placed(d))
  BY <1>1, <1>2 DEF Placed
<1> QED  BY <1>1, <1>2, <1>3, <1>4, <1>5

\* A session moves, and the table and the reader stay.
LEMMA SessionMove ==
  ASSUME TypeOK, RegInv, NEW c \in Callers,
         \A d \in Callers \ {c} : /\ pc'[d] = pc[d] /\ method'[d] = method[d]
                                  /\ answer'[d] = answer[d] /\ queue'[d] = queue[d],
         UNCHANGED <<thread, rxOpen, senders, readerPc, held>>,
         failStep' = "done" <=> failStep = "done",
         AtWork(c)' => AtWork(c) /\ (Early(c) => Early(c)'),
         Present(c)' <=> Present(c),
         Placed(c)',
         failStep = "done" /\ AtWork(c)' => Notified(c)'
  PROVE  RegInv'
<1>1. \A d \in Callers \ {c} :
        /\ AtWork(d)' <=> AtWork(d)
        /\ Present(d)' <=> Present(d)
        /\ Early(d) => Early(d)'
        /\ HasError(d)' <=> HasError(d)
        /\ Placed(d)' <=> Placed(d)
  BY SameSession
<1>2. PlaceInv'
  BY <1>1 DEF RegInv, PlaceInv
<1>3. AnswerInv'
  BY DEF RegInv, AnswerInv
<1>4. OwnerInv'
  BY <1>1 DEF RegInv, OwnerInv
<1>5. RegisteredInv'
  BY <1>1 DEF RegInv, RegisteredInv, ReaderDown
<1>6. ClonedInv'
  BY <1>1 DEF RegInv, ClonedInv
<1>7. NotifiedInv'
  <2>1. ASSUME NEW d \in Callers \ {c}, Notified(d)
        PROVE  Notified(d)'
    BY <1>1, <2>1 DEF Notified, ReaderDown
  <2> QED  BY <1>1, <2>1 DEF RegInv, NotifiedInv
<1> QED  BY <1>2, <1>3, <1>4, <1>5, <1>6, <1>7 DEF RegInv

\* The reader or `fail` moves, and the sessions and the table stay.
LEMMA OtherMove ==
  ASSUME TypeOK, RegInv,
         UNCHANGED <<pc, method, answer, queue, thread, rxOpen, senders>>,
         failStep' = "done" <=> failStep = "done",
         ReaderDown => ReaderDown',
         AnswerInv', ClonedInv'
  PROVE  RegInv'
<1>1. \A d \in Callers :
        /\ AtWork(d)' <=> AtWork(d)
        /\ Present(d)' <=> Present(d)
        /\ Early(d) => Early(d)'
        /\ HasError(d)' <=> HasError(d)
        /\ Placed(d)' <=> Placed(d)
  BY SameSession
<1>2. PlaceInv' /\ OwnerInv' /\ RegisteredInv'
  BY <1>1 DEF RegInv, PlaceInv, OwnerInv, RegisteredInv
<1>3. NotifiedInv'
  <2>1. ASSUME NEW d \in Callers, Notified(d)
        PROVE  Notified(d)'
    BY <1>1, <2>1 DEF Notified
  <2> QED  BY <1>1, <2>1 DEF RegInv, NotifiedInv
<1> QED  BY <1>2, <1>3 DEF RegInv

-----------------------------------------------------------------------------
(* The steps that change the table, an answer or a channel.                *)

\* A thread that is free is registered by a session that has nothing yet.
LEMMA RegisterThreadStep ==
  ASSUME TypeOK, RegInv, NEW c \in Callers, RegisterThread(c)
  PROVE  RegInv'
<1> USE ConnectionAssumption
<1>1. CASE senders[thread[c]] = NoCaller
  <2>1. /\ pc[c] = "subscribe" /\ method[c] = "threadStart" /\ thread[c] \in Threads
        /\ ~Present(c)
    BY DEF RegisterThread, RegInv, PlaceInv, Placed, Present, AtWork, Going
  <2>2. /\ senders' = [senders EXCEPT ![thread[c]] = c]
        /\ rxOpen' = [rxOpen EXCEPT ![c] = TRUE]
        /\ method' = [method EXCEPT ![c] = "turnStart"]
        /\ pc' = [pc EXCEPT ![c] = "allocate"]
        /\ UNCHANGED <<answer, thread, queue, failStep, readerPc, held>>
    BY <1>1 DEF RegisterThread, Goto, failVars, readerVars
  <2>3. /\ pc'[c] = "allocate" /\ method'[c] = "turnStart" /\ rxOpen'[c]
        /\ \A d \in Callers \ {c} :
             pc'[d] = pc[d] /\ method'[d] = method[d] /\ rxOpen'[d] = rxOpen[d]
        /\ \A t \in Threads : senders'[t] = IF t = thread[c] THEN c ELSE senders[t]
    BY <2>2 DEF TypeOK
  <2>4. \A d \in Callers \ {c} :
          /\ AtWork(d)' <=> AtWork(d)
          /\ Present(d)' <=> Present(d)
          /\ Early(d) => Early(d)'
          /\ HasError(d)' <=> HasError(d)
          /\ Placed(d)' <=> Placed(d)
    BY <2>2, <2>3, SameSession
  <2>5. AtWork(c)' /\ Present(c)' /\ Early(c)' /\ Placed(c)' /\ Notified(c)'
    BY <2>1, <2>2, <2>3 DEF AtWork, Present, Going, Early, Placed, Calling, Notified
  <2>6. PlaceInv' /\ AnswerInv'
    BY <2>2, <2>4, <2>5 DEF RegInv, PlaceInv, AnswerInv
  <2>7. OwnerInv'
    BY <2>1, <2>2, <2>3, <2>4, <2>5 DEF RegInv, OwnerInv
  <2>8. RegisteredInv'
    <3> SUFFICES ASSUME failStep # "done", NEW d \in Callers, Present(d)',
                        senders'[thread[d]] # d
                 PROVE  /\ ReaderDown
                        /\ AtWork(d)' => Early(d)'
                        /\ \A e \in Callers : senders'[thread[d]] = e /\ AtWork(e)' => Early(e)'
      BY <2>2 DEF RegisteredInv, ReaderDown
    <3>1. d # c /\ Present(d) /\ thread[d] \in Threads
      BY <2>1, <2>3, <2>4 DEF RegInv, PlaceInv, Placed
    <3>2. senders[thread[d]] # d
      BY <1>1, <2>1, <2>3, <3>1
    <3>3. /\ ReaderDown
          /\ AtWork(d) => Early(d)
          /\ \A e \in Callers : senders[thread[d]] = e /\ AtWork(e) => Early(e)
      BY <3>1, <3>2 DEF RegInv, RegisteredInv
    <3> QED  BY <2>3, <2>4, <2>5, <3>1, <3>3
  <2>9. ClonedInv'
    BY <2>2, <2>3, <2>4, <2>5 DEF RegInv, ClonedInv, TypeOK, Event
  <2>10. NotifiedInv'
    <3>1. ASSUME NEW d \in Callers \ {c}, Notified(d)
          PROVE  Notified(d)'
      BY <2>2, <2>3, <2>4, <3>1 DEF Notified, ReaderDown
    <3> QED  BY <2>2, <2>4, <2>5, <3>1 DEF RegInv, NotifiedInv
  <2> QED  BY <2>6, <2>7, <2>8, <2>9, <2>10 DEF RegInv
<1>2. CASE senders[thread[c]] # NoCaller
  <2>1. pc' = [pc EXCEPT ![c] = "done"] /\ pc[c] = "subscribe" /\ method[c] = "threadStart"
        /\ UNCHANGED <<method, answer, queue, thread, rxOpen, senders, readerPc, held, failStep>>
    BY <1>2 DEF RegisterThread, LeaveRequest, Goto, RegInv, PlaceInv, Placed, failVars, readerVars
  <2>2. pc'[c] = "done" /\ \A d \in Callers \ {c} : pc'[d] = pc[d]
    BY <2>1 DEF TypeOK
  <2>3. ~AtWork(c) /\ ~Going(c) /\ ~AtWork(c)' /\ ~Going(c)'
    BY <2>1, <2>2 DEF AtWork, Going, Calling
  <2>4. (Present(c)' <=> Present(c)) /\ Placed(c)'
    BY <2>1, <2>2, <2>3 DEF Present, Placed
  <2> QED  BY <2>1, <2>2, <2>3, <2>4, SessionMove
<1> QED  BY <1>1, <1>2

\* A receiver is closed by a session on its way out.
LEMMA CloseReceiverStep ==
  ASSUME TypeOK, RegInv, NEW c \in Callers, CloseReceiver(c)
  PROVE  RegInv'
<1>1. /\ rxOpen' = [rxOpen EXCEPT ![c] = FALSE]
      /\ queue' = [queue EXCEPT ![c] = <<>>]
      /\ pc' = [pc EXCEPT ![c] = IF pc[c] = "close" THEN "done" ELSE "unregister"]
      /\ pc[c] \in {"release", "dropped", "close"}
      /\ UNCHANGED <<method, answer, thread, senders, failStep, readerPc, held>>
  BY DEF CloseReceiver, Goto, tableVars, failVars, readerVars
<1>2. /\ pc'[c] = IF pc[c] = "close" THEN "done" ELSE "unregister"
      /\ \A d \in Callers \ {c} : pc'[d] = pc[d] /\ rxOpen'[d] = rxOpen[d] /\ queue'[d] = queue[d]
  BY <1>1 DEF TypeOK
<1>3. \A d \in Callers \ {c} :
        /\ AtWork(d)' <=> AtWork(d)
        /\ Present(d)' <=> Present(d)
        /\ Early(d) => Early(d)'
        /\ HasError(d)' <=> HasError(d)
        /\ Placed(d)' <=> Placed(d)
  BY <1>1, <1>2, SameSession
<1>4. ~AtWork(c) /\ ~AtWork(c)' /\ (Going(c)' <=> Going(c))
  BY <1>1, <1>2 DEF AtWork, Going, Calling
<1>5. Present(c)' <=> Present(c)
  BY <1>4 DEF Present
<1>6. Placed(c)'
  BY <1>1, <1>2, <1>4, <1>5 DEF RegInv, PlaceInv, Placed
<1>7. PlaceInv' /\ AnswerInv'
  BY <1>1, <1>3, <1>6 DEF RegInv, PlaceInv, AnswerInv
<1>8. OwnerInv'
  BY <1>1, <1>3, <1>5 DEF RegInv, OwnerInv
<1>9. RegisteredInv'
  BY <1>1, <1>3, <1>4, <1>5 DEF RegInv, RegisteredInv, ReaderDown
<1>10. ClonedInv'
  BY <1>1, <1>3, <1>4 DEF RegInv, ClonedInv
<1>11. NotifiedInv'
  <2>1. ASSUME NEW d \in Callers \ {c}, Notified(d)
        PROVE  Notified(d)'
    BY <1>1, <1>2, <1>3, <2>1 DEF Notified, ReaderDown
  <2> QED  BY <1>1, <1>3, <1>4, <2>1 DEF RegInv, NotifiedInv
<1> QED  BY <1>7, <1>8, <1>9, <1>10, <1>11 DEF RegInv

\* Whose registration is undone with a session's own has been registered after
\* a fault of the reader.
LEMMA UnregisterThreadStep ==
  ASSUME TypeOK, RegInv, NEW c \in Callers, UnregisterThread(c)
  PROVE  RegInv'
<1> USE ConnectionAssumption
<1>1. /\ senders' = [senders EXCEPT ![thread[c]] = NoCaller]
      /\ pc' = [pc EXCEPT ![c] = IF pc[c] = "dropped" THEN "close" ELSE "done"]
      /\ pc[c] \in {"unregister", "dropped"}
      /\ UNCHANGED <<method, answer, thread, queue, rxOpen, failStep, readerPc, held>>
  BY DEF UnregisterThread, Goto, failVars, readerVars
<1>2. /\ pc'[c] = IF pc[c] = "dropped" THEN "close" ELSE "done"
      /\ \A d \in Callers \ {c} : pc'[d] = pc[d]
      /\ \A t \in Threads : senders'[t] = IF t = thread[c] THEN NoCaller ELSE senders[t]
  BY <1>1 DEF TypeOK
<1>3. \A d \in Callers \ {c} :
        /\ AtWork(d)' <=> AtWork(d)
        /\ Present(d)' <=> Present(d)
        /\ Early(d) => Early(d)'
        /\ HasError(d)' <=> HasError(d)
        /\ Placed(d)' <=> Placed(d)
  BY <1>1, <1>2, SameSession
<1>4. Going(c) /\ ~AtWork(c)' /\ ~Going(c)'
  BY <1>1, <1>2 DEF AtWork, Going, Calling
<1>5. Present(c) /\ ~Present(c)' /\ thread[c] \in Threads
  BY <1>4 DEF Present, RegInv, PlaceInv, Placed
<1>6. Placed(c)'
  BY <1>1, <1>2, <1>4, <1>5 DEF Placed
<1>7. PlaceInv' /\ AnswerInv'
  BY <1>1, <1>3, <1>6 DEF RegInv, PlaceInv, AnswerInv
<1>8. OwnerInv'
  <2> SUFFICES ASSUME NEW t \in Threads, NEW d \in Callers, senders'[t] = d
               PROVE  thread[d] = t /\ Present(d)'
    BY <1>1 DEF OwnerInv
  <2>1. t # thread[c] /\ senders[t] = d
    BY <1>2
  <2>2. thread[d] = t /\ Present(d)
    BY <2>1 DEF RegInv, OwnerInv
  <2> QED  BY <1>3, <2>1, <2>2
<1>9. RegisteredInv'
  <2> SUFFICES ASSUME failStep # "done", NEW d \in Callers, Present(d)',
                      senders'[thread[d]] # d
               PROVE  /\ ReaderDown
                      /\ AtWork(d)' => Early(d)'
                      /\ \A e \in Callers : senders'[thread[d]] = e /\ AtWork(e)' => Early(e)'
    BY <1>1 DEF RegisteredInv, ReaderDown
  <2>1. d # c /\ Present(d) /\ thread[d] \in Threads
    BY <1>3, <1>5 DEF RegInv, PlaceInv, Placed
  <2>2. CASE senders[thread[d]] # d
    <3>1. /\ ReaderDown
          /\ AtWork(d) => Early(d)
          /\ \A e \in Callers : senders[thread[d]] = e /\ AtWork(e) => Early(e)
      BY <2>1, <2>2 DEF RegInv, RegisteredInv
    <3> QED  BY <1>2, <1>3, <1>4, <2>1, <3>1
  <2>3. CASE senders[thread[d]] = d
    <3>1. thread[d] = thread[c]
      BY <1>2, <2>1, <2>3
    <3>2. ReaderDown /\ (AtWork(d) => Early(d))
      BY <1>5, <2>1, <2>3, <3>1 DEF RegInv, RegisteredInv
    <3> QED  BY <1>2, <1>3, <2>1, <3>1, <3>2
  <2> QED  BY <2>2, <2>3
<1>10. ClonedInv'
  BY <1>1, <1>2, <1>3, <1>4 DEF RegInv, ClonedInv, TypeOK, Event
<1>11. NotifiedInv'
  <2>1. ASSUME NEW d \in Callers \ {c}, Notified(d)
        PROVE  Notified(d)'
    BY <1>1, <1>2, <1>3, <2>1 DEF Notified, ReaderDown
  <2> QED  BY <1>1, <1>3, <1>4, <2>1 DEF RegInv, NotifiedInv
<1> QED  BY <1>7, <1>8, <1>9, <1>10, <1>11 DEF RegInv

\* The answer that a session waits for; it may be the thread it asked for.
LEMMA DeliverResponseRegStep ==
  ASSUME TypeOK, IInv, RegInv, DeliverResponse
  PROVE  RegInv'
<1> USE ConnectionAssumption
<1>0. PICK c \in Callers : c = held.caller
  BY DEF DeliverResponse, TypeOK, Response
<1>1. /\ readerPc = "deliver" /\ readerPc' = "read" /\ held \in Response
      /\ held.id = reqId[c] /\ held.method = method[c]
      /\ pc[c] \in {"await", "failTimeout"} \cup Ended
  BY <1>0 DEF DeliverResponse, TypeOK, IInv, HandInv
<1>2. /\ thread' = IF held.thread = NoThread THEN thread ELSE [thread EXCEPT ![c] = held.thread]
      /\ UNCHANGED <<pc, method, queue, rxOpen, senders, failStep>>
      /\ \A d \in Callers : answer'[d] = IF d = c THEN held.result ELSE answer[d]
  BY <1>0, <1>1 DEF DeliverResponse, Deliver, tableVars, failVars
<1>3. \A d \in Callers \ {c} : thread'[d] = thread[d] /\ answer'[d] = answer[d]
  BY <1>1, <1>2 DEF TypeOK
<1>4. \A d \in Callers \ {c} : Placed(d)' <=> Placed(d)
  BY <1>2, <1>3, SameSession
<1>5. \A d \in Callers :
        /\ AtWork(d)' <=> AtWork(d)
        /\ Present(d)' <=> Present(d)
        /\ HasError(d)' <=> HasError(d)
  BY <1>2, SameSession
<1>6. held.thread # NoThread <=> method[c] = "threadStart" /\ held.result = "ok"
  BY <1>1 DEF RegInv, AnswerInv, Response
<1>7. Placed(c)' /\ (Present(c) => thread'[c] = thread[c])
  <2>1. CASE method[c] = "threadStart"
    <3>1. ~AtWork(c) /\ ~Going(c)
      BY <1>1, <2>1 DEF AtWork, RegInv, PlaceInv, Placed
    <3>2. pc[c] \notin {"read", "retained", "register", "subscribe"}
      BY <1>1 DEF Ended
    <3>3. held.result = "ok" => thread'[c] \in Threads
      BY <1>1, <1>2, <1>6, <2>1 DEF TypeOK, Response
    <3>4. ~AtWork(c)' /\ ~Going(c)'
      BY <1>2, <3>1 DEF AtWork, Going
    <3> QED  BY <1>1, <1>2, <3>1, <3>2, <3>3, <3>4 DEF Placed, Present
  <2>2. CASE method[c] # "threadStart"
    <3>1. thread' = thread
      BY <1>2, <1>6, <2>2
    <3>2. Going(c)' <=> Going(c)
      BY <1>2 DEF Going
    <3> QED  BY <1>1, <1>2, <1>5, <2>2, <3>1, <3>2 DEF RegInv, PlaceInv, Placed
  <2> QED  BY <2>1, <2>2
<1>8. PlaceInv' /\ AnswerInv' /\ ClonedInv'
  BY <1>1, <1>4, <1>7 DEF RegInv, PlaceInv, AnswerInv, ClonedInv
<1>9. OwnerInv'
  BY <1>2, <1>3, <1>5, <1>7 DEF RegInv, OwnerInv
<1>10. RegisteredInv'
  <2>1. ASSUME failStep # "done", NEW d \in Callers, Present(d)
        PROVE  senders[thread[d]] = d
    BY <1>1, <2>1 DEF RegInv, RegisteredInv, ReaderDown
  <2>2. ASSUME NEW d \in Callers, Present(d)
        PROVE  thread'[d] = thread[d]
    BY <1>3, <1>7, <2>2
  <2> QED  BY <1>2, <1>5, <2>1, <2>2 DEF RegisteredInv
<1>11. NotifiedInv'
  <2> SUFFICES ASSUME failStep = "done", NEW d \in Callers, AtWork(d)
               PROVE  Notified(d)'
    BY <1>2, <1>5 DEF NotifiedInv
  <2>1. HasError(d) \/ (Early(d) /\ pc[d] \in {"allocate", "lock"})
    BY <1>1 DEF RegInv, NotifiedInv, Notified, ReaderDown
  <2>2. CASE HasError(d)
    BY <1>5, <2>2 DEF Notified
  <2>3. CASE Early(d) /\ pc[d] \in {"allocate", "lock"}
    <3>1. d # c
      BY <1>1, <2>3 DEF Ended
    <3>2. Early(d)' /\ pc'[d] \in {"allocate", "lock"}
      BY <1>2, <1>3, <2>3, <3>1 DEF Early
    <3> QED  BY <3>2 DEF Notified
  <2> QED  BY <2>1, <2>2, <2>3
<1> QED  BY <1>8, <1>9, <1>10, <1>11 DEF RegInv

\* A channel gets an event, or a closed one loses its registration.
LEMMA ForwardEventStep ==
  ASSUME TypeOK, RegInv, ForwardEvent
  PROVE  RegInv'
<1> USE ConnectionAssumption
<1> DEFINE t == held.thread
           c == held.caller
<1>1. /\ readerPc = "forward" /\ t \in Threads /\ c \in Callers
      /\ held.kind \in {"event", "completed"}
      /\ UNCHANGED <<pc, method, answer, thread, rxOpen, failStep>>
  BY DEF ForwardEvent, TypeOK, Event, failVars
<1>2. \A d \in Callers :
        /\ AtWork(d)' <=> AtWork(d)
        /\ Present(d)' <=> Present(d)
        /\ Early(d) => Early(d)'
        /\ Placed(d)' <=> Placed(d)
  BY <1>1, SameSession
<1>3. PlaceInv'
  BY <1>2 DEF RegInv, PlaceInv
<1>4. CASE rxOpen[c]
  <2>1. /\ readerPc' = "read" /\ senders' = senders
        /\ queue' = [queue EXCEPT ![c] = Append(@, held.kind)]
    BY <1>4 DEF ForwardEvent
  <2>2. AnswerInv' /\ ClonedInv'
    BY <2>1 DEF AnswerInv, ClonedInv
  <2>3. OwnerInv' /\ RegisteredInv'
    BY <1>1, <1>2, <2>1 DEF RegInv, OwnerInv, RegisteredInv, ReaderDown
  <2>4. ASSUME NEW d \in Callers, HasError(d)
        PROVE  HasError(d)'
    <3>1. CASE d = c
      <4>1. queue[c] \in Seq(EventKinds) /\ queue'[c] = Append(queue[c], held.kind)
        BY <1>1, <2>1 DEF TypeOK
      <4>2. PICK i \in DOMAIN queue[c] : queue[c][i] = "err"
        BY <2>4, <3>1 DEF HasError
      <4>3. i \in DOMAIN queue'[c] /\ queue'[c][i] = "err"
        BY <4>1, <4>2
      <4> QED  BY <3>1, <4>3 DEF HasError
    <3>2. CASE d # c
      BY <1>1, <2>1, <2>4, <3>2, SameSession DEF TypeOK
    <3> QED  BY <3>1, <3>2
  <2>5. NotifiedInv'
    BY <1>1, <1>2, <2>1, <2>4 DEF RegInv, NotifiedInv, Notified, ReaderDown
  <2> QED  BY <1>3, <2>2, <2>3, <2>5 DEF RegInv
<1>5. CASE ~rxOpen[c]
  <2>1. /\ readerPc' = "fail" /\ queue' = queue
        /\ \A x \in Threads : senders'[x] = IF x = t THEN NoCaller ELSE senders[x]
    BY <1>1, <1>5 DEF ForwardEvent, ReaderFails, TypeOK
  <2>2. AnswerInv' /\ ClonedInv' /\ ReaderDown'
    BY <2>1 DEF AnswerInv, ClonedInv, ReaderDown
  <2>3. OwnerInv'
    BY <1>1, <1>2, <2>1 DEF RegInv, OwnerInv
  <2>4. RegisteredInv'
    <3> SUFFICES ASSUME failStep # "done", NEW d \in Callers, Present(d),
                        senders'[thread[d]] # d
                 PROVE  /\ AtWork(d) => Early(d)
                        /\ \A e \in Callers : senders'[thread[d]] = e /\ AtWork(e) => Early(e)
      BY <1>1, <1>2, <2>2 DEF RegisteredInv
    <3>1. thread[d] \in Threads /\ (AtWork(d) => rxOpen[d])
      BY DEF RegInv, PlaceInv, Placed
    <3>2. CASE senders[thread[d]] # d
      <4>1. /\ AtWork(d) => Early(d)
            /\ \A e \in Callers : senders[thread[d]] = e /\ AtWork(e) => Early(e)
        BY <3>2 DEF RegInv, RegisteredInv
      <4> QED  BY <2>1, <3>1, <4>1
    <3>3. CASE senders[thread[d]] = d
      <4>1. thread[d] = t
        BY <2>1, <3>1, <3>3
      <4>2. AtWork(d) => Early(d)
        BY <1>1, <1>5, <3>1, <3>3, <4>1 DEF RegInv, ClonedInv
      <4> QED  BY <2>1, <3>1, <4>1, <4>2
    <3> QED  BY <3>2, <3>3
  <2>5. NotifiedInv'
    BY <1>1, <1>2, <2>1, <2>2 DEF RegInv, NotifiedInv, Notified, ReaderDown, HasError
  <2> QED  BY <1>3, <2>2, <2>3, <2>4, <2>5 DEF RegInv
<1> QED  BY <1>4, <1>5

\* Who was drained is told so; nobody gets an answer it can use.
LEMMA NotifyPendingRegStep ==
  ASSUME TypeOK, RegInv, NotifyPending
  PROVE  RegInv'
<1>1. /\ failStep = "notify" /\ failStep' = "threads"
      /\ UNCHANGED <<pc, method, thread, queue, rxOpen, senders, readerPc, held>>
      /\ \A d \in Callers : answer'[d] = answer[d] \/ answer'[d] = "failed"
  BY DEF NotifyPending, Deliver, tableVars, readerVars
<1>2. \A d \in Callers :
        /\ AtWork(d)' <=> AtWork(d)
        /\ Going(d)' <=> Going(d)
        /\ Present(d)' <=> Present(d)
        /\ Early(d) => Early(d)'
  BY <1>1, SameSession
<1>3. PlaceInv'
  BY <1>1, <1>2 DEF RegInv, PlaceInv, Placed
<1>4. AnswerInv' /\ NotifiedInv'
  BY <1>1 DEF RegInv, AnswerInv, NotifiedInv
<1>5. OwnerInv' /\ RegisteredInv' /\ ClonedInv'
  BY <1>1, <1>2 DEF RegInv, OwnerInv, RegisteredInv, ClonedInv, ReaderDown
<1> QED  BY <1>3, <1>4, <1>5 DEF RegInv

\* Whoever is registered gets the error, and the table is empty.
LEMMA NotifyThreadsStep ==
  ASSUME TypeOK, RegInv, NotifyThreads
  PROVE  RegInv'
<1> USE ConnectionAssumption
<1>1. /\ failStep = "threads" /\ failStep' = "done"
      /\ UNCHANGED <<pc, method, answer, thread, rxOpen, readerPc, held>>
      /\ \A t \in Threads : senders'[t] = NoCaller
      /\ \A d \in Callers : rxOpen[d] /\ (\E t \in Threads : senders[t] = d) =>
           queue'[d] = Append(queue[d], "err")
  BY DEF NotifyThreads, readerVars
<1>2. \A d \in Callers :
        /\ AtWork(d)' <=> AtWork(d)
        /\ Early(d) => Early(d)'
        /\ Placed(d)' <=> Placed(d)
  BY <1>1, SameSession
<1>3. PlaceInv' /\ AnswerInv'
  BY <1>1, <1>2 DEF RegInv, PlaceInv, AnswerInv
<1>4. OwnerInv' /\ RegisteredInv' /\ ClonedInv'
  BY <1>1 DEF OwnerInv, RegisteredInv, ClonedInv
<1>5. NotifiedInv'
  <2> SUFFICES ASSUME NEW d \in Callers, AtWork(d)
               PROVE  Notified(d)'
    BY <1>2 DEF NotifiedInv
  <2>1. thread[d] \in Threads /\ rxOpen[d] /\ Present(d)
    BY DEF RegInv, PlaceInv, Placed, Present
  <2>2. CASE senders[thread[d]] = d
    <3>1. queue'[d] = Append(queue[d], "err") /\ queue[d] \in Seq(EventKinds)
      BY <1>1, <2>1, <2>2 DEF TypeOK
    <3>2. Len(queue[d]) + 1 \in DOMAIN queue'[d] /\ queue'[d][Len(queue[d]) + 1] = "err"
      BY <3>1
    <3> QED  BY <3>2 DEF Notified, HasError
  <2>3. CASE senders[thread[d]] # d
    <3>1. ReaderDown /\ Early(d)
      BY <1>1, <2>1, <2>3 DEF RegInv, RegisteredInv
    <3> QED  BY <1>1, <1>2, <3>1 DEF Notified, ReaderDown
  <2> QED  BY <2>2, <2>3
<1> QED  BY <1>3, <1>4, <1>5 DEF RegInv

-----------------------------------------------------------------------------
(* All the steps.                                                          *)

\* A session that is present leaves through release_thread or Drop.
LEMMA PresentLeaves ==
  ASSUME TypeOK, RegInv, NEW c \in Callers, NEW label \in {"release", "dropped", "done"},
         Goto(c, label), label = "done" <=> ~Present(c),
         pc[c] \notin {"release", "dropped", "unregister", "close", "done"},
         \A d \in Callers \ {c} : queue'[d] = queue[d],
         UNCHANGED <<method, answer, thread, rxOpen, senders, readerPc, held, failStep>>
  PROVE  RegInv'
<1>1. pc'[c] = label /\ \A d \in Callers \ {c} : pc'[d] = pc[d]
  BY DEF Goto, TypeOK
<1>2. ~AtWork(c)' /\ (Going(c)' <=> Present(c))
  BY <1>1 DEF AtWork, Going, Calling
<1>3. Present(c)' <=> Present(c)
  BY <1>2 DEF Present
<1>4. Placed(c)'
  BY <1>1, <1>2, <1>3 DEF Placed, RegInv, PlaceInv, Present, Going, AtWork
<1> QED  BY <1>1, <1>2, <1>3, <1>4, SessionMove

\* An error of a request ends it.
LEMMA RequestLeaves ==
  ASSUME TypeOK, RegInv, NEW c \in Callers, NEW how, LeaveRequest(c, how),
         pc[c] \in Calling \cup {"register", "subscribe"},
         UNCHANGED <<method, answer, thread, queue, rxOpen, senders, readerPc, held, failStep>>
  PROVE  RegInv'
<1>1. Present(c) <=> method[c] # "threadStart"
  BY DEF Present, AtWork, Going, Calling, RegInv, PlaceInv, Placed
<1>2. PICK label \in {"release", "dropped", "done"} :
        Goto(c, label) /\ (label = "done" <=> method[c] = "threadStart")
  BY DEF LeaveRequest
<1> QED  BY <1>1, <1>2, PresentLeaves DEF Calling

\* A request goes on; its session stays at work, if it is.
LEMMA RequestGoesOn ==
  ASSUME TypeOK, RegInv, NEW c \in Callers, NEW label \in Calling \cup {"read"}, Goto(c, label),
         pc[c] \in Calling,
         label = "read" => method[c] # "threadStart" /\ ~Early(c),
         label = "await" => answer[c] # "ok" \/ method[c] = "resolution",
         Early(c) => answer'[c] # "ok",
         pc[c] \in {"allocate", "lock"} /\ label # "lock" => failStep # "done",
         \A d \in Callers \ {c} : answer'[d] = answer[d],
         label # "lock" => answer' = answer,
         UNCHANGED <<method, queue, thread, rxOpen, senders, readerPc, held, failStep>>
  PROVE  RegInv'
<1>1. pc'[c] = label /\ \A d \in Callers \ {c} : pc'[d] = pc[d]
  BY DEF Goto, TypeOK
<1>2. (AtWork(c)' <=> AtWork(c)) /\ ~Going(c) /\ ~Going(c)'
  BY <1>1 DEF AtWork, Going, Calling
<1>3. Present(c)' <=> Present(c)
  BY <1>2 DEF Present
<1>4. Early(c) => Early(c)'
  BY <1>1 DEF Early, Calling
<1>5. Placed(c)'
  BY <1>1, <1>2, <1>3 DEF Placed, RegInv, PlaceInv, Calling
<1>6. failStep = "done" /\ AtWork(c)' => Notified(c)'
  BY <1>1, <1>2, <1>4 DEF RegInv, NotifiedInv, Notified, HasError, ReaderDown, Calling, Early
<1> QED  BY <1>1, <1>2, <1>3, <1>4, <1>5, <1>6, SessionMove

LEMMA RequestStepRegisters ==
  ASSUME TypeOK, IInv, RegInv, NEW c \in Callers, RequestStep(c)
  PROVE  RegInv'
<1> USE DEF callerVars, tableVars, failVars, readerVars, serverVars
<1>0. /\ alive <=> failStep = "none"
      /\ pc[c] = "await" => method[c] \in Requests
      /\ pc[c] \in {"send", "write"} /\ method[c] \in Requests => answer[c] \in {"none", "failed"}
      /\ pc[c] = "write" => method[c] \in Requests \cup {"resolution"}
  BY DEF IInv, LockInv, RequestInv, TypeOK, Methods
<1>1. CASE AllocateId(c)
  <2>1. CASE nextId < MaxId
    BY <1>1, <2>1, RequestGoesOn DEF AllocateId, Calling, TypeOK
  <2>2. CASE ~(nextId < MaxId)
    BY <1>1, <2>2, RequestLeaves DEF AllocateId, Calling
  <2> QED  BY <2>1, <2>2
<1>2. CASE LockPending(c)
  <2>1. CASE alive
    BY <1>0, <1>2, <2>1, RequestGoesOn DEF LockPending, Calling, Early
  <2>2. CASE ~alive
    BY <1>2, <2>2, RequestLeaves DEF LockPending, Calling
  <2> QED  BY <2>1, <2>2
<1>3. CASE InsertPending(c)
  BY <1>3, RequestGoesOn DEF InsertPending, Calling, Early
<1>4. CASE SendCheck(c)
  <2>1. CASE alive \/ method[c] \in Requests
    BY <1>4, <2>1, RequestGoesOn DEF SendCheck, Calling, Early
  <2>2. CASE ~alive /\ method[c] \notin Requests
    BY <1>4, <2>2, RequestLeaves DEF SendCheck, Calling
  <2> QED  BY <2>1, <2>2
<1>5. CASE WriteStdin(c)
  <2>1. CASE method[c] = "resolution"
    BY <1>5, <2>1, RequestGoesOn DEF WriteStdin, Calling, Early
  <2>2. CASE method[c] # "resolution"
    BY <1>0, <1>5, <2>2, RequestGoesOn DEF WriteStdin, Calling, Early
  <2> QED  BY <2>1, <2>2
<1>6. CASE WriteError(c)
  BY <1>6, RequestGoesOn DEF WriteError, Calling, Early
<1>7. CASE RemovePending(c)
  BY <1>7, RequestLeaves DEF RemovePending, Calling
<1>8. CASE ReceiveResult(c)
  <2>1. CASE method[c] = "threadStart"
    <3>1. /\ pc' = [pc EXCEPT ![c] = "register"] /\ pc[c] = "await" /\ answer[c] = "ok"
          /\ UNCHANGED <<method, answer, queue, thread, rxOpen, senders, readerPc, held, failStep>>
      BY <1>8, <2>1 DEF ReceiveResult, Goto
    <3>2. pc'[c] = "register" /\ \A d \in Callers \ {c} : pc'[d] = pc[d]
      BY <3>1 DEF TypeOK
    <3>3. ~AtWork(c) /\ ~Going(c) /\ ~AtWork(c)' /\ ~Going(c)'
      BY <2>1, <3>1, <3>2 DEF AtWork, Going, Calling
    <3>4. thread[c] \in Threads
      BY <2>1, <3>1 DEF RegInv, PlaceInv, Placed
    <3>5. (Present(c)' <=> Present(c)) /\ Placed(c)'
      BY <2>1, <3>1, <3>2, <3>3, <3>4 DEF Present, Placed
    <3> QED  BY <3>1, <3>2, <3>3, <3>5, SessionMove
  <2>2. CASE method[c] # "threadStart"
    BY <1>8, <2>2, RequestGoesOn DEF ReceiveResult, Calling, Early
  <2> QED  BY <2>1, <2>2
<1>9. CASE ReceiveError(c)
  BY <1>9, RequestLeaves DEF ReceiveError, Calling
<1>10. CASE ReceiveUnnamedTurn(c)
  <2>1. Present(c)
    BY <1>10 DEF ReceiveUnnamedTurn, Present, AtWork, Calling
  <2> QED  BY <1>10, <2>1, PresentLeaves DEF ReceiveUnnamedTurn
<1>11. CASE CallerFails(c)
  <2>1. failStep # "done" /\ failStep' # "done"
    BY <1>0, <1>11 DEF CallerFails, FailSwap
  <2>2. AnswerInv' /\ ClonedInv'
    BY <1>11, <2>1, SameSession
    DEF CallerFails, RegInv, AnswerInv, ClonedInv, AtWork, Early
  <2> QED  BY <1>11, <2>1, <2>2, OtherMove DEF CallerFails, ReaderDown
<1>12. CASE CallerFailed(c)
  <2>1. CASE pc[c] = "failWrite" /\ method[c] \in Requests
    BY <1>12, <2>1, RequestGoesOn DEF CallerFailed, Calling, Early
  <2>2. CASE ~(pc[c] = "failWrite" /\ method[c] \in Requests)
    BY <1>12, <2>2, RequestLeaves DEF CallerFailed, Calling
  <2> QED  BY <2>1, <2>2
<1> QED
  BY <1>1, <1>2, <1>3, <1>4, <1>5, <1>6, <1>7, <1>8, <1>9, <1>10, <1>11, <1>12
  DEF RequestStep

\* Whoever reads its turn is at work, and has seen the answer to turn/start.
LEMMA Reading ==
  ASSUME RegInv, NEW c \in Callers, pc[c] \in {"read", "retained"}
  PROVE  AtWork(c) /\ ~Early(c) /\ Present(c) /\ ~Going(c)
BY DEF RegInv, PlaceInv, Placed, AtWork, Early, Present, Going, Calling

\* An event that is not the error is taken off the channel.
LEMMA EventTaken ==
  ASSUME TypeOK, NEW c \in Callers, queue[c] # <<>>, Head(queue[c]) # "err",
         queue' = [queue EXCEPT ![c] = Tail(@)], HasError(c)
  PROVE  HasError(c)'
<1>1. queue[c] \in Seq(EventKinds) /\ queue'[c] = Tail(queue[c])
  BY DEF TypeOK
<1>2. PICK i \in DOMAIN queue[c] : queue[c][i] = "err"
  BY DEF HasError
<1>3. i # 1 /\ i \in 1..Len(queue[c])
  BY <1>1, <1>2
<1>4. i - 1 \in DOMAIN queue'[c] /\ queue'[c][i - 1] = "err"
  <2> DEFINE q == queue[c]
  <2>1. q \in Seq(EventKinds) /\ q # <<>> /\ i \in 2..Len(q) /\ q[i] = "err"
    BY <1>1, <1>2, <1>3
  <2> HIDE DEF q
  <2>2. i - 1 \in DOMAIN Tail(q) /\ Tail(q)[i - 1] = "err"
    BY <2>1
  <2> QED  BY <1>1, <2>2 DEF q
<1> QED  BY <1>4 DEF HasError

\* A turn that is read goes on, with the next request of its session or without.
LEMMA TurnGoesOn ==
  ASSUME TypeOK, RegInv, NEW c \in Callers, pc[c] \in {"read", "retained"},
         NEW label \in {"read", "retained", "allocate", "send"}, Goto(c, label),
         NEW m \in Methods \ {"threadStart"}, method' = [method EXCEPT ![c] = m],
         \A d \in Callers \ {c} : queue'[d] = queue[d],
         HasError(c) => HasError(c)',
         UNCHANGED <<answer, thread, rxOpen, senders, readerPc, held, failStep>>
  PROVE  RegInv'
<1>1. /\ pc'[c] = label /\ method'[c] = m
      /\ \A d \in Callers \ {c} : pc'[d] = pc[d] /\ method'[d] = method[d]
  BY DEF Goto, TypeOK
<1>2. AtWork(c) /\ ~Early(c) /\ Present(c)
  BY Reading
<1>3. AtWork(c)' /\ Present(c)' /\ ~Going(c)'
  BY <1>1 DEF AtWork, Going, Present, Calling
<1>4. Placed(c)'
  BY <1>1, <1>2, <1>3 DEF Placed, RegInv, PlaceInv
<1>5. failStep = "done" => Notified(c)'
  BY <1>2 DEF RegInv, NotifiedInv, Notified
<1> QED  BY <1>1, <1>2, <1>3, <1>4, <1>5, SessionMove

LEMMA SessionStepRegisters ==
  ASSUME TypeOK, RegInv, NEW c \in Callers, SessionStep(c) \/ WaitingStep(c)
  PROVE  RegInv'
<1> USE DEF callerVars, tableVars, failVars, readerVars, serverVars
<1>0. pc[c] \in {"read", "retained"} =>
        method[c] \in Methods \ {"threadStart"} /\ [method EXCEPT ![c] = method[c]] = method
  BY Reading DEF TypeOK, AtWork
<1>1. CASE RegisterCheck(c)
  <2>1. CASE alive
    <3>1. /\ pc' = [pc EXCEPT ![c] = "subscribe"] /\ pc[c] = "register"
          /\ UNCHANGED <<method, answer, queue, thread, rxOpen, senders, readerPc, held, failStep>>
      BY <1>1, <2>1 DEF RegisterCheck, Goto
    <3>2. pc'[c] = "subscribe" /\ \A d \in Callers \ {c} : pc'[d] = pc[d]
      BY <3>1 DEF TypeOK
    <3>3. ~AtWork(c) /\ ~Going(c) /\ ~AtWork(c)' /\ ~Going(c)'
      BY <3>1, <3>2 DEF AtWork, Going, Calling
    <3>4. (Present(c)' <=> Present(c)) /\ Placed(c)'
      BY <3>1, <3>2, <3>3 DEF Present, Placed, RegInv, PlaceInv
    <3> QED  BY <3>1, <3>2, <3>3, <3>4, SessionMove
  <2>2. CASE ~alive
    BY <1>1, <2>2, RequestLeaves DEF RegisterCheck
  <2> QED  BY <2>1, <2>2
<1>2. CASE RegisterThread(c)
  BY <1>2, RegisterThreadStep
<1>3. CASE CloseReceiver(c)
  BY <1>3, CloseReceiverStep
<1>4. CASE UnregisterThread(c)
  BY <1>4, UnregisterThreadStep
<1>5. CASE ConsumeEvent(c)
  <2>1. Present(c) /\ pc[c] = "read" /\ \A d \in Callers \ {c} : queue'[d] = queue[d]
    BY <1>5, Reading DEF ConsumeEvent, TypeOK
  <2>2. CASE Head(queue[c]) = "event"
    <3>1. Goto(c, "read")
      BY <1>5, <2>2 DEF ConsumeEvent, Goto, TypeOK
    <3>2. HasError(c) => HasError(c)'
      BY <1>5, <2>2, EventTaken DEF ConsumeEvent
    <3> QED  BY <1>0, <1>5, <2>1, <3>1, <3>2, TurnGoesOn DEF ConsumeEvent
  <2>3. CASE Head(queue[c]) # "event"
    <3>1. Goto(c, "release")
      BY <1>5, <2>3 DEF ConsumeEvent, LeaveRead
    <3> QED  BY <1>5, <2>1, <3>1, PresentLeaves DEF ConsumeEvent
  <2> QED  BY <2>2, <2>3
<1>6. CASE InterruptTurn(c)
  <2>1. /\ HasError(c) => HasError(c)'
        /\ \A d \in Callers \ {c} : queue'[d] = queue[d]
    BY <1>6, EventTaken DEF InterruptTurn, TypeOK
  <2> QED  BY <1>6, <2>1, TurnGoesOn DEF InterruptTurn, Methods, Requests
<1>7. CASE RetainTool(c)
  <2>1. /\ HasError(c) => HasError(c)'
        /\ \A d \in Callers \ {c} : queue'[d] = queue[d]
    BY <1>7, EventTaken DEF RetainTool, TypeOK
  <2> QED  BY <1>0, <1>7, <2>1, TurnGoesOn DEF RetainTool
<1>8. CASE AbandonTurn(c)
  BY <1>8, Reading, PresentLeaves DEF AbandonTurn, LeaveRead, TypeOK
<1>9. CASE RpcTimeout(c)
  BY <1>9, RequestGoesOn DEF RpcTimeout, Calling, Early
<1>10. CASE TurnTimeout(c)
  BY <1>10, Reading, PresentLeaves DEF TurnTimeout, LeaveRead
<1>11. CASE ContinueTool(c)
  BY <1>11, TurnGoesOn DEF ContinueTool, Methods, HasError
<1>12. CASE ExpireTool(c)
  BY <1>12, Reading, PresentLeaves DEF ExpireTool
<1> QED
  BY <1>1, <1>2, <1>3, <1>4, <1>5, <1>6, <1>7, <1>8, <1>9, <1>10, <1>11, <1>12
  DEF SessionStep, WaitingStep

LEMMA ReaderStepRegisters ==
  ASSUME TypeOK, IInv, RegInv, ReadStep \/ DispatchStep
  PROVE  RegInv'
<1> USE ConnectionAssumption DEF callerVars, tableVars, failVars, readerVars, serverVars
<1>1. ASSUME NEW r \in written, NEW result \in {"ok", "rpcError"},
             NEW t \in Threads \cup {NoThread}, ReadResponse(r, result, t)
      PROVE  RegInv'
  <2>1. readerPc = "read" /\ readerPc' \in {"deliver", "fail"}
    BY <1>1 DEF ReadResponse, ReaderFails
  <2>2. AnswerInv' /\ ClonedInv'
    BY <1>1, <2>1 DEF ReadResponse, ReaderFails, AnswerInv, ClonedInv
  <2> QED  BY <1>1, <2>1, <2>2, OtherMove DEF ReadResponse, ReaderDown
<1>2. ASSUME NEW t \in Threads, NEW kind \in {"event", "completed"}, ReadEvent(t, kind)
      PROVE  RegInv'
  <2>1. readerPc = "read" /\ readerPc' \in {"forward", "fail"}
        /\ (readerPc' = "forward" => senders'[held'.thread] = held'.caller)
    BY <1>2 DEF ReadEvent, ReaderFails
  <2>2. AnswerInv' /\ ClonedInv'
    BY <2>1 DEF AnswerInv, ClonedInv
  <2> QED  BY <1>2, <2>1, <2>2, OtherMove DEF ReadEvent, ReaderDown
<1>3. CASE ReadFault
  BY <1>3, OtherMove DEF ReadFault, ReaderFails, ReaderDown, AnswerInv, ClonedInv
<1>4. CASE DeliverResponse
  BY <1>4, DeliverResponseRegStep
<1>5. CASE ForwardEvent
  BY <1>5, ForwardEventStep
<1>6. CASE ReaderFailsConnection
  <2>1. failStep # "done" /\ failStep' # "done"
    BY <1>6 DEF ReaderFailsConnection, FailSwap, IInv, LockInv
  <2> QED
    BY <1>6, <2>1, OtherMove DEF ReaderFailsConnection, ReaderDown, AnswerInv, ClonedInv
<1>7. CASE ReaderStops
  BY <1>7, OtherMove DEF ReaderStops, ReaderDown, AnswerInv, ClonedInv
<1> QED
  BY <1>1, <1>2, <1>3, <1>4, <1>5, <1>6, <1>7 DEF ReadStep, DispatchStep

LEMMA FailStepRegisters ==
  ASSUME TypeOK, RegInv, FailStep
  PROVE  RegInv'
<1> USE DEF callerVars, tableVars, readerVars, serverVars
<1>1. CASE RecordFailure \/ TakePending
  <2>1. /\ failStep # "done" /\ failStep' # "done"
        /\ UNCHANGED <<pc, method, answer, queue, thread, rxOpen, senders, readerPc, held>>
    BY <1>1 DEF RecordFailure, TakePending
  <2>2. \A d \in Callers : (AtWork(d)' <=> AtWork(d)) /\ (Early(d) => Early(d)')
    BY <2>1, SameSession
  <2>3. AnswerInv' /\ ClonedInv'
    BY <2>1, <2>2 DEF RegInv, AnswerInv, ClonedInv
  <2> QED  BY <2>1, <2>3, OtherMove DEF ReaderDown
<1>2. CASE NotifyPending
  BY <1>2, NotifyPendingRegStep
<1>3. CASE NotifyThreads
  BY <1>3, NotifyThreadsStep
<1> QED  BY <1>1, <1>2, <1>3 DEF FailStep

LEMMA Registrations == Spec => []RegInv
<1>1. Init => RegInv
  BY ConnectionAssumption
  DEF Init, RegInv, PlaceInv, Placed, AnswerInv, OwnerInv, RegisteredInv, ClonedInv, NotifiedInv,
      AtWork, Going, Present, Calling
<1>2. TypeOK /\ IInv /\ RegInv /\ [Next]_vars => RegInv'
  <2> SUFFICES ASSUME TypeOK, IInv, RegInv, [Next]_vars
               PROVE  RegInv'
    OBVIOUS
  <2>1. CASE UNCHANGED vars
    <3>1. UNCHANGED <<pc, method, answer, queue, thread, rxOpen, senders, readerPc, held, failStep>>
      BY <2>1 DEF vars, callerVars, tableVars, failVars, readerVars
    <3>2. \A d \in Callers : (AtWork(d)' <=> AtWork(d)) /\ (Early(d) => Early(d)')
      BY <3>1, SameSession
    <3>3. AnswerInv' /\ ClonedInv'
      BY <3>1, <3>2 DEF RegInv, AnswerInv, ClonedInv
    <3> QED  BY <3>1, <3>3, OtherMove DEF ReaderDown
  <2> QED
    BY <2>1, RequestStepRegisters, SessionStepRegisters, ReaderStepRegisters, FailStepRegisters
    DEF Next, Terminated
<1> QED
  BY <1>1, <1>2, Invariant, TypeCorrect, PTL DEF Spec

\* In every behaviour, whoever reads or is retained is registered, or has the
\* failure in its channel once `fail` is over.
THEOREM ReadersAreNotStranded == Spec => []ReaderNeverStranded
<1>1. RegInv => ReaderNeverStranded
  <2> SUFFICES ASSUME RegInv, NEW c \in Callers, pc[c] \in {"read", "retained"}
               PROVE  IF failStep = "done" THEN HasError(c) ELSE senders[thread[c]] = c
    BY DEF ReaderNeverStranded, HasError
  <2>1. AtWork(c) /\ ~Early(c) /\ Present(c)
    BY Reading
  <2> QED
    BY <2>1 DEF RegInv, NotifiedInv, Notified, RegisteredInv
<1> QED
  BY <1>1, Registrations, PTL

\* In every behaviour, a session that is over has no registration left.
THEOREM RegistrationsEnd == Spec => []NoLeakedRegistration
<1>1. RegInv => NoLeakedRegistration
  BY DEF RegInv, OwnerInv, NoLeakedRegistration, Present, AtWork, Going, Calling
<1> QED
  BY <1>1, Registrations, PTL

-----------------------------------------------------------------------------
(* Who is cut off.  As long as nobody has left its turn and the connection   *)
(* is up, each running turn has a session that waits for its next event, and *)
(* so has the event the reader holds; an unroutable event tells of a session *)
(* that left.                                                                *)

SomeoneLeft == \E c \in Callers : outcome[c] = "left"
Unroutable  == {"unknownThread", "closedReceiver"}

\* The turn/start of the session has been written.
Started(c) ==
  \/ method[c] \in {"interrupt", "resolution"}
  \/ method[c] = "turnStart" /\ pc[c] \in {"await", "failTimeout", "read", "retained"}

\* The session waits for more events of its turn: none it has not read ends it.
Busy(c) ==
  /\ AtWork(c) /\ Started(c)
  /\ \A i \in DOMAIN queue[c] : queue[c][i] = "event"

\* Who has left is on its way out for good, and only a failed connection
\* answers with a failure or makes a request take itself back.
LeftInv ==
  /\ \A c \in Callers :
       /\ outcome[c] = "left" => pc[c] \in Ended
       /\ answer[c] = "failed" \/ pc[c] = "remove" => ~alive
  /\ failer = Reader => ReaderDown

Last(c) == readerPc = "forward" /\ held.caller = c /\ held.kind = "completed"

TurnInv ==
  alive /\ ~SomeoneLeft =>
    /\ ~ReaderDown => \A t \in Threads : turn[t] =>
         \E c \in Callers : senders[t] = c /\ Busy(c) /\ ~Last(c)
    /\ readerPc = "forward" => Busy(held.caller)
    /\ \A c \in Callers :
         (AtWork(c) /\ ~Started(c)) \/ method[c] = "threadStart" => queue[c] = <<>>

\* An unroutable event is the fault of one who left, or comes too late to be
\* the cause of the failure.
CauseInv ==
  /\ readerError \in Unroutable => SomeoneLeft \/ (~alive /\ failer # Reader)
  /\ failure \in Unroutable => SomeoneLeft

CutInv == LeftInv /\ TurnInv /\ CauseInv

\* A session moves; no other loses its turn or its registration by it.
LEMMA CutMove ==
  ASSUME TypeOK, CutInv, NEW c \in Callers,
         \A d \in Callers \ {c} :
           /\ pc'[d] = pc[d] /\ method'[d] = method[d] /\ queue'[d] = queue[d]
           /\ outcome'[d] = outcome[d],
         UNCHANGED <<answer, alive, failer, readerPc, held, readerError, failure>>,
         outcome[c] = "left" => outcome'[c] = "left",
         outcome'[c] = "left" => pc'[c] \in Ended,
         pc'[c] = "remove" => ~alive,
         alive /\ outcome'[c] # "left" /\ Busy(c) => Busy(c)',
         alive /\ ~SomeoneLeft =>
           /\ (AtWork(c)' /\ ~Started(c)') \/ method'[c] = "threadStart" => queue'[c] = <<>>
           /\ ~ReaderDown => \A t \in Threads :
                /\ turn'[t] => turn[t] \/ (senders'[t] = c /\ Busy(c)' /\ ~Last(c))
                /\ senders'[t] = senders[t] \/ \A d \in Callers : senders[t] = d => ~Busy(d)
  PROVE  CutInv'
<1>1. \A d \in Callers \ {c} :
        (AtWork(d)' <=> AtWork(d)) /\ (Started(d)' <=> Started(d)) /\ (Busy(d)' <=> Busy(d))
  BY DEF AtWork, Started, Busy
<1>2. (SomeoneLeft => SomeoneLeft') /\ (outcome'[c] = "left" => SomeoneLeft')
  BY DEF SomeoneLeft
<1>3. LeftInv'
  BY DEF CutInv, LeftInv, ReaderDown
<1>4. TurnInv'
  <2> SUFFICES ASSUME alive, ~SomeoneLeft'
               PROVE  /\ ~ReaderDown => \A t \in Threads : turn'[t] =>
                           \E d \in Callers : senders'[t] = d /\ Busy(d)' /\ ~Last(d)
                      /\ readerPc = "forward" => Busy(held.caller)'
                      /\ \A d \in Callers :
                           (AtWork(d)' /\ ~Started(d)') \/ method'[d] = "threadStart" =>
                             queue'[d] = <<>>
    BY DEF TurnInv, ReaderDown, Last
  <2>1. ~SomeoneLeft /\ outcome'[c] # "left"
    BY <1>2
  <2>2. \A d \in Callers : Busy(d) => Busy(d)'
    BY <1>1, <2>1
  <2>3. ASSUME ~ReaderDown, NEW t \in Threads, turn'[t]
        PROVE  \E d \in Callers : senders'[t] = d /\ Busy(d)' /\ ~Last(d)
    <3>1. CASE turn[t]
      <4>1. PICK d \in Callers : senders[t] = d /\ Busy(d) /\ ~Last(d)
        BY <2>1, <2>3, <3>1 DEF CutInv, TurnInv
      <4>2. senders'[t] = d
        BY <2>1, <2>3, <4>1
      <4> QED  BY <2>2, <4>1, <4>2
    <3>2. CASE ~turn[t]
      BY <2>1, <2>3, <3>2
    <3> QED  BY <3>1, <3>2
  <2>4. readerPc = "forward" => Busy(held.caller)'
    BY <2>1, <2>2 DEF CutInv, TurnInv, TypeOK, Event
  <2>5. \A d \in Callers :
          (AtWork(d)' /\ ~Started(d)') \/ method'[d] = "threadStart" => queue'[d] = <<>>
    BY <1>1, <2>1 DEF CutInv, TurnInv
  <2> QED  BY <2>3, <2>4, <2>5
<1>5. CauseInv'
  BY <1>2 DEF CutInv, CauseInv
<1> QED  BY <1>3, <1>4, <1>5 DEF CutInv

\* A session leaves: as the one who left, or because the connection is down.
LEMMA CutLeaves ==
  ASSUME TypeOK, RegInv, CutInv, NEW c \in Callers, NEW label \in {"release", "dropped", "done"},
         NEW how, Goto(c, label), outcome' = [outcome EXCEPT ![c] = how], pc[c] \notin Ended,
         alive => how = "left" \/ ~Busy(c),
         \A d \in Callers \ {c} : queue'[d] = queue[d],
         method[c] = "threadStart" => queue'[c] = queue[c],
         UNCHANGED <<method, answer, senders, alive, failer, readerPc, held, readerError, failure,
                     turn>>
  PROVE  CutInv'
<1>1. /\ pc'[c] = label /\ outcome'[c] = how
      /\ \A d \in Callers \ {c} : pc'[d] = pc[d] /\ outcome'[d] = outcome[d]
  BY DEF Goto, TypeOK
<1>2. outcome[c] # "left"
  BY DEF CutInv, LeftInv
<1>3. ~AtWork(c)'
  BY <1>1 DEF AtWork, Calling
<1>4. alive /\ ~SomeoneLeft /\ method[c] = "threadStart" => queue'[c] = <<>>
  BY DEF CutInv, TurnInv
<1> QED  BY <1>1, <1>2, <1>3, <1>4, CutMove DEF Ended

\* The same for an error of a request.
LEMMA CutRequestLeaves ==
  ASSUME TypeOK, RegInv, CutInv, NEW c \in Callers, NEW how, LeaveRequest(c, how),
         pc[c] \notin Ended, alive => how = "left" \/ ~Busy(c),
         UNCHANGED <<method, answer, queue, senders, alive, failer, readerPc, held, readerError,
                     failure, turn>>
  PROVE  CutInv'
<1>1. PICK label \in {"release", "dropped", "done"} : Goto(c, label)
  BY DEF LeaveRequest
<1> QED  BY <1>1, CutLeaves DEF LeaveRequest

\* A session goes on, with its request or with the turn it reads.
LEMMA CutGoesOn ==
  ASSUME TypeOK, RegInv, CutInv, NEW c \in Callers, NEW m \in Methods,
         NEW label \in Calling \cup {"read", "retained", "register", "subscribe"},
         Goto(c, label), method' = [method EXCEPT ![c] = m],
         pc[c] \in Calling \cup {"read", "retained", "register", "subscribe"},
         m = "threadStart" <=> method[c] = "threadStart",
         m # "threadStart" => label \notin {"register", "subscribe"},
         Started(c) => Started(c)',
         label = "remove" => ~alive,
         \/ queue' = queue
         \/ Started(c) /\ queue[c] # <<>> /\ queue' = [queue EXCEPT ![c] = Tail(@)],
         \A t \in Threads : turn'[t] =>
           turn[t] \/ (alive /\ ~SomeoneLeft /\ ~ReaderDown =>
                         senders[t] = c /\ Busy(c)' /\ ~Last(c)),
         UNCHANGED <<outcome, answer, senders, alive, failer, readerPc, held, readerError, failure>>
  PROVE  CutInv'
<1>1. /\ pc'[c] = label /\ method'[c] = m
      /\ \A d \in Callers \ {c} :
           pc'[d] = pc[d] /\ method'[d] = method[d] /\ queue'[d] = queue[d]
  BY DEF Goto, TypeOK
<1>2. AtWork(c)' <=> m # "threadStart"
  BY <1>1 DEF AtWork
<1>3. outcome[c] # "left"
  BY DEF CutInv, LeftInv, Ended, Calling
<1>4. Busy(c) => Busy(c)'
  <2> SUFFICES ASSUME Busy(c)
               PROVE  \A i \in DOMAIN queue'[c] : queue'[c][i] = "event"
    BY <1>1, <1>2 DEF Busy, AtWork
  <2>1. CASE queue' = queue
    BY <2>1 DEF Busy
  <2>2. CASE queue[c] # <<>> /\ queue' = [queue EXCEPT ![c] = Tail(@)]
    <3> DEFINE q == queue[c]
    <3>1. q \in Seq(EventKinds) /\ q # <<>> /\ \A i \in DOMAIN q : q[i] = "event"
      BY <2>2 DEF TypeOK, Busy
    <3>2. queue'[c] = Tail(q)
      BY <2>2 DEF TypeOK
    <3> HIDE DEF q
    <3>3. \A i \in DOMAIN Tail(q) : Tail(q)[i] = "event"
      BY <3>1
    <3> QED  BY <3>2, <3>3
  <2> QED  BY <2>1, <2>2
<1>5. alive /\ ~SomeoneLeft =>
        ((AtWork(c)' /\ ~Started(c)') \/ m = "threadStart" => queue'[c] = <<>>)
  <2> SUFFICES ASSUME alive, ~SomeoneLeft, (AtWork(c)' /\ ~Started(c)') \/ m = "threadStart"
               PROVE  queue'[c] = <<>>
    OBVIOUS
  <2>1. ~Started(c)
    BY DEF Started
  <2>2. m # "threadStart" => AtWork(c) \/ pc[c] \in {"register", "subscribe"}
    BY DEF AtWork
  <2>3. m # "threadStart" => AtWork(c)
    BY <2>2 DEF RegInv, PlaceInv, Placed
  <2> QED  BY <2>1, <2>3 DEF CutInv, TurnInv
<1> QED  BY <1>1, <1>3, <1>4, <1>5, CutMove, SMT

LEMMA RequestStepCuts ==
  ASSUME TypeOK, IInv, RegInv, CutInv, NEW c \in Callers, RequestStep(c)
  PROVE  CutInv'
<1> USE ConnectionAssumption DEF callerVars, tableVars, failVars, readerVars, serverVars
<1>0. /\ method' = method =>
           method' = [method EXCEPT ![c] = method[c]] /\ method[c] \in Methods
      /\ alive <=> failStep = "none"
      /\ pc[c] \in {"allocate", "await"} => method[c] \in Requests
      /\ \A d \in Callers : answer[d] = "failed" \/ pc[d] = "remove" => ~alive
  BY DEF TypeOK, IInv, LockInv, RequestInv, CutInv, LeftInv
<1>1. CASE AllocateId(c)
  <2>1. CASE nextId < MaxId
    <3>1. /\ pc' = [pc EXCEPT ![c] = "lock"] /\ pc[c] = "allocate" /\ outcome[c] # "left"
          /\ answer' = [answer EXCEPT ![c] = "none"]
          /\ UNCHANGED <<method, queue, outcome, senders, alive, failer, readerPc, held,
                         readerError, failure, turn>>
      BY <1>1, <2>1 DEF AllocateId, Goto, CutInv, LeftInv, Ended
    <3>2. /\ pc'[c] = "lock" /\ answer'[c] = "none"
          /\ \A d \in Callers \ {c} : pc'[d] = pc[d] /\ answer'[d] = answer[d]
      BY <3>1 DEF TypeOK
    <3>3. \A d \in Callers : /\ AtWork(d)' <=> AtWork(d)
                             /\ Started(d)' <=> Started(d)
                             /\ Busy(d)' <=> Busy(d)
      BY <3>1, <3>2 DEF AtWork, Started, Busy, Calling
    <3>4. SomeoneLeft' <=> SomeoneLeft
      BY <3>1 DEF SomeoneLeft
    <3>5. LeftInv'
      BY <3>1, <3>2 DEF CutInv, LeftInv, ReaderDown
    <3>6. TurnInv'
      BY <3>1, <3>3, <3>4 DEF CutInv, TurnInv, ReaderDown, Last, TypeOK, Event
    <3>7. CauseInv'
      BY <3>1, <3>4 DEF CutInv, CauseInv
    <3> QED  BY <3>5, <3>6, <3>7 DEF CutInv
  <2>2. CASE ~(nextId < MaxId)
    BY <1>1, <2>2, CutRequestLeaves DEF AllocateId, Ended
  <2> QED  BY <2>1, <2>2
<1>2. CASE LockPending(c)
  <2>1. CASE alive
    BY <1>0, <1>2, <2>1, CutGoesOn DEF LockPending, Calling, Started, Goto, TypeOK
  <2>2. CASE ~alive
    BY <1>2, <2>2, CutRequestLeaves DEF LockPending, Ended
  <2> QED  BY <2>1, <2>2
<1>3. CASE InsertPending(c)
  BY <1>0, <1>3, CutGoesOn DEF InsertPending, Calling, Started, Goto, TypeOK
<1>4. CASE SendCheck(c)
  <2>1. CASE alive \/ method[c] \in Requests
    <3>1. PICK label \in {"write", "remove"} : Goto(c, label) /\ (label = "remove" => ~alive)
      BY <1>4, <2>1 DEF SendCheck
    <3>2. Started(c) => Started(c)'
      BY <1>4 DEF SendCheck, Started
    <3> QED  BY <1>0, <1>4, <2>1, <3>1, <3>2, CutGoesOn DEF SendCheck, Calling
  <2>2. CASE ~alive /\ method[c] \notin Requests
    BY <1>4, <2>2, CutRequestLeaves DEF SendCheck, Ended
  <2> QED  BY <2>1, <2>2
<1>5. CASE WriteStdin(c)
  <2>1. PICK label \in {"read", "await"} :
          Goto(c, label) /\ (label = "await" <=> method[c] # "resolution")
    BY <1>5 DEF WriteStdin
  <2>2. pc'[c] = label /\ pc[c] = "write"
    BY <1>5, <2>1 DEF WriteStdin, Goto, TypeOK
  <2>3. Started(c) => Started(c)'
    BY <1>5, <2>2 DEF WriteStdin, Started
  <2>4. ASSUME NEW t \in Threads, turn'[t], ~turn[t], alive, ~SomeoneLeft, ~ReaderDown
        PROVE  senders[t] = c /\ Busy(c)' /\ ~Last(c)
    <3>1. method[c] = "turnStart" /\ turn' = [turn EXCEPT ![thread[c]] = TRUE]
      BY <1>5, <2>4 DEF WriteStdin
    <3>2. t = thread[c]
      BY <2>4, <3>1 DEF TypeOK
    <3>3. AtWork(c) /\ ~Started(c)
      BY <2>2, <3>1 DEF AtWork, Started, Calling
    <3>4. senders[t] = c
      BY <1>0, <2>4, <3>2, <3>3 DEF RegInv, RegisteredInv, Present
    <3>5. queue'[c] = <<>>
      BY <1>5, <2>4, <3>3 DEF WriteStdin, CutInv, TurnInv
    <3>6. Busy(c)'
      BY <1>5, <2>1, <2>2, <3>1, <3>5 DEF WriteStdin, Busy, AtWork, Started, Calling
    <3>7. ~Last(c)
      BY <2>4, <3>3 DEF CutInv, TurnInv, Last, Busy
    <3> QED  BY <3>4, <3>6, <3>7
  <2> QED  BY <1>0, <1>5, <2>1, <2>2, <2>3, <2>4, CutGoesOn DEF WriteStdin, Calling
<1>6. CASE WriteError(c)
  BY <1>0, <1>6, CutGoesOn DEF WriteError, Calling, Started, Goto, TypeOK
<1>7. CASE RemovePending(c)
  BY <1>0, <1>7, CutRequestLeaves DEF RemovePending, Ended
<1>8. CASE ReceiveResult(c)
  <2>1. PICK label \in {"read", "register"} :
          Goto(c, label) /\ (label = "register" <=> method[c] = "threadStart")
    BY <1>8 DEF ReceiveResult
  <2>2. Started(c) => Started(c)'
    BY <1>8, <2>1 DEF ReceiveResult, Started, Goto, TypeOK
  <2> QED  BY <1>0, <1>8, <2>1, <2>2, CutGoesOn DEF ReceiveResult, Calling
<1>9. CASE ReceiveError(c)
  BY <1>0, <1>9, CutRequestLeaves DEF ReceiveError, Ended
<1>10. CASE ReceiveUnnamedTurn(c)
  BY <1>10, CutLeaves DEF ReceiveUnnamedTurn, Ended
<1>11. CASE CallerFails(c)
  <2>1. /\ alive /\ ~alive' /\ failer' = c
        /\ UNCHANGED <<pc, method, answer, queue, outcome, readerPc, readerError, failure>>
    BY <1>11 DEF CallerFails, FailSwap
  <2>2. SomeoneLeft' <=> SomeoneLeft
    BY <2>1 DEF SomeoneLeft
  <2> QED  BY <2>1, <2>2 DEF CutInv, LeftInv, TurnInv, CauseInv
<1>12. CASE CallerFailed(c)
  <2>1. CASE pc[c] = "failWrite" /\ method[c] \in Requests
    <3>1. Started(c) => Started(c)'
      BY <1>12, <2>1 DEF CallerFailed, Started
    <3> QED  BY <1>0, <1>12, <2>1, <3>1, CutGoesOn DEF CallerFailed, Calling
  <2>2. CASE ~(pc[c] = "failWrite" /\ method[c] \in Requests)
    BY <1>12, <2>2, CutRequestLeaves DEF CallerFailed, Ended
  <2> QED  BY <2>1, <2>2
<1> QED
  BY <1>1, <1>2, <1>3, <1>4, <1>5, <1>6, <1>7, <1>8, <1>9, <1>10, <1>11, <1>12
  DEF RequestStep

LEMMA SessionStepCuts ==
  ASSUME TypeOK, IInv, RegInv, CutInv, NEW c \in Callers, SessionStep(c) \/ WaitingStep(c)
  PROVE  CutInv'
<1> USE ConnectionAssumption DEF callerVars, tableVars, failVars, readerVars, serverVars
<1>0. /\ method' = method =>
           method' = [method EXCEPT ![c] = method[c]] /\ method[c] \in Methods
      /\ alive <=> failStep = "none"
      /\ pc[c] \in {"read", "retained"} => method[c] \in Methods \ {"threadStart"} /\ Started(c)
      /\ pc[c] \in Ended => ~AtWork(c)
  BY Reading DEF TypeOK, IInv, LockInv, Methods, Requests, Started, AtWork, Ended, Calling
<1>1. CASE RegisterCheck(c)
  <2>1. CASE alive
    BY <1>0, <1>1, <2>1, CutGoesOn
    DEF RegisterCheck, Started, Goto, TypeOK, RegInv, PlaceInv, Placed
  <2>2. CASE ~alive
    BY <1>1, <2>2, CutRequestLeaves DEF RegisterCheck, Ended
  <2> QED  BY <2>1, <2>2
<1>2. CASE RegisterThread(c)
  <2>1. CASE senders[thread[c]] = NoCaller
    <3>1. /\ pc[c] = "subscribe" /\ method[c] = "threadStart" /\ pc'[c] = "allocate"
          /\ senders' = [senders EXCEPT ![thread[c]] = c]
          /\ \A d \in Callers \ {c} : pc'[d] = pc[d] /\ method'[d] = method[d]
          /\ UNCHANGED <<answer, queue, outcome, alive, failer, readerPc, held, readerError, failure,
                         turn>>
      BY <1>2, <2>1 DEF RegisterThread, Goto, TypeOK, RegInv, PlaceInv, Placed
    <3>2. ~Busy(c) /\ outcome[c] # "left"
      BY <3>1 DEF Busy, AtWork, CutInv, LeftInv, Ended
    <3>3. alive /\ ~SomeoneLeft => queue'[c] = <<>>
      BY <3>1 DEF CutInv, TurnInv
    <3>4. \A t \in Threads :
            senders'[t] = senders[t] \/ \A d \in Callers : senders[t] = d => ~Busy(d)
      BY <2>1, <3>1 DEF TypeOK
    <3> QED  BY <3>1, <3>2, <3>3, <3>4, CutMove
  <2>2. CASE senders[thread[c]] # NoCaller
    BY <1>2, <2>2, CutRequestLeaves DEF RegisterThread, Ended
  <2> QED  BY <2>1, <2>2
<1>3. CASE CloseReceiver(c)
  <2>1. /\ pc[c] \in {"release", "dropped", "close"} /\ pc'[c] \in {"done", "unregister"}
        /\ queue'[c] = <<>>
        /\ \A d \in Callers \ {c} : pc'[d] = pc[d] /\ queue'[d] = queue[d]
        /\ UNCHANGED <<method, answer, outcome, senders, alive, failer, readerPc, held, readerError,
                       failure, turn>>
    BY <1>3 DEF CloseReceiver, Goto, TypeOK
  <2>2. ~Busy(c)
    BY <1>0, <2>1 DEF Busy, Ended
  <2> QED  BY <2>1, <2>2, CutMove DEF Ended
<1>4. CASE UnregisterThread(c)
  <2>1. /\ pc[c] \in {"unregister", "dropped"} /\ pc'[c] \in {"close", "done"}
        /\ senders' = [senders EXCEPT ![thread[c]] = NoCaller]
        /\ \A d \in Callers \ {c} : pc'[d] = pc[d]
        /\ UNCHANGED <<method, answer, queue, outcome, alive, failer, readerPc, held, readerError,
                       failure, turn>>
    BY <1>4 DEF UnregisterThread, Goto, TypeOK
  <2>2. ~Busy(c) /\ ~AtWork(c)'
    BY <1>0, <2>1 DEF Busy, Ended, AtWork, Calling
  <2>3. alive /\ ~ReaderDown => senders[thread[c]] = c
    BY <1>0, <2>1 DEF RegInv, RegisteredInv, Present, Going
  <2>4. alive /\ ~ReaderDown => \A t \in Threads :
          senders'[t] = senders[t] \/ \A d \in Callers : senders[t] = d => ~Busy(d)
    BY <2>1, <2>2, <2>3 DEF TypeOK
  <2>5. alive /\ ~SomeoneLeft => (method[c] = "threadStart" => queue[c] = <<>>)
    BY DEF CutInv, TurnInv
  <2> QED  BY <2>1, <2>2, <2>4, <2>5, CutMove DEF Ended
<1>5. CASE ConsumeEvent(c)
  <2>1. pc[c] = "read" /\ queue[c] # <<>> /\ \A d \in Callers \ {c} : queue'[d] = queue[d]
    BY <1>5 DEF ConsumeEvent, TypeOK
  <2>2. CASE Head(queue[c]) = "event"
    <3>1. Goto(c, "read") /\ outcome' = outcome
      BY <1>5, <2>2 DEF ConsumeEvent, Goto, TypeOK
    <3>2. Started(c) => Started(c)'
      BY <1>5, <3>1 DEF ConsumeEvent, Started, Goto, TypeOK
    <3> QED  BY <1>0, <1>5, <2>1, <3>1, <3>2, CutGoesOn DEF ConsumeEvent
  <2>3. CASE Head(queue[c]) # "event"
    <3>1. ~Busy(c)
      <4>1. queue[c] \in Seq(EventKinds)
        BY DEF TypeOK
      <4>2. 1 \in DOMAIN queue[c] /\ queue[c][1] # "event"
        BY <2>1, <2>3, <4>1
      <4> QED  BY <4>2 DEF Busy
    <3>2. PICK how : LeaveRead(c, how)
      BY <1>5, <2>3 DEF ConsumeEvent
    <3> QED  BY <1>0, <1>5, <2>1, <3>1, <3>2, CutLeaves DEF ConsumeEvent, LeaveRead, Ended
  <2> QED  BY <2>2, <2>3
<1>6. CASE InterruptTurn(c)
  <2>1. Started(c)'
    BY <1>6 DEF InterruptTurn, Started, TypeOK
  <2> QED  BY <1>0, <1>6, <2>1, CutGoesOn DEF InterruptTurn, Methods, Requests, Calling
<1>7. CASE RetainTool(c)
  <2>1. Started(c) => Started(c)'
    BY <1>7 DEF RetainTool, Started, Goto, TypeOK
  <2> QED  BY <1>0, <1>7, <2>1, CutGoesOn DEF RetainTool
<1>8. CASE AbandonTurn(c)
  BY <1>0, <1>8, CutLeaves DEF AbandonTurn, LeaveRead, Ended, TypeOK
<1>9. CASE RpcTimeout(c)
  BY <1>0, <1>9, CutGoesOn DEF RpcTimeout, Calling, Started, Goto, TypeOK
<1>10. CASE TurnTimeout(c)
  BY <1>0, <1>10, CutLeaves DEF TurnTimeout, LeaveRead, Ended
<1>11. CASE ContinueTool(c)
  <2>1. Started(c)'
    BY <1>11 DEF ContinueTool, Started, TypeOK
  <2> QED  BY <1>0, <1>11, <2>1, CutGoesOn DEF ContinueTool, Methods, Calling
<1>12. CASE ExpireTool(c)
  BY <1>0, <1>12, CutLeaves DEF ExpireTool, Ended
<1> QED
  BY <1>1, <1>2, <1>3, <1>4, <1>5, <1>6, <1>7, <1>8, <1>9, <1>10, <1>11, <1>12
  DEF SessionStep, WaitingStep

\* The reader or `fail` moves; the sessions and the table stay, and no turn begins.
LEMMA CutOtherMove ==
  ASSUME TypeOK, CutInv,
         UNCHANGED <<pc, method, outcome, queue, senders>>,
         \A t \in Threads : turn'[t] => turn[t],
         alive' => alive, ReaderDown => ReaderDown',
         LeftInv', CauseInv',
         alive' /\ ~SomeoneLeft =>
           /\ readerPc' = "forward" => Busy(held'.caller)
           /\ \A t \in Threads, c \in Callers :
                ~ReaderDown' /\ turn'[t] /\ senders[t] = c /\ Last(c)' => Last(c)
  PROVE  CutInv'
<1>1. \A d \in Callers : /\ AtWork(d)' <=> AtWork(d)
                         /\ Started(d)' <=> Started(d)
                         /\ Busy(d)' <=> Busy(d)
  BY DEF AtWork, Started, Busy
<1>2. SomeoneLeft' <=> SomeoneLeft
  BY DEF SomeoneLeft
<1>3. TurnInv'
  <2> SUFFICES ASSUME alive', alive, ~SomeoneLeft
               PROVE  /\ ~ReaderDown' => \A t \in Threads : turn'[t] =>
                           \E c \in Callers : senders[t] = c /\ Busy(c) /\ ~Last(c)'
                      /\ readerPc' = "forward" => Busy(held.caller)'
                      /\ \A c \in Callers :
                           (AtWork(c) /\ ~Started(c)) \/ method[c] = "threadStart" =>
                             queue[c] = <<>>
    BY <1>1, <1>2 DEF TurnInv
  <2>1. ASSUME ~ReaderDown', NEW t \in Threads, turn'[t]
        PROVE  \E c \in Callers : senders[t] = c /\ Busy(c) /\ ~Last(c)'
    BY <2>1 DEF CutInv, TurnInv
  <2>2. readerPc' = "forward" => Busy(held.caller)'
    BY DEF Busy, AtWork, Started
  <2>3. \A c \in Callers :
          (AtWork(c) /\ ~Started(c)) \/ method[c] = "threadStart" => queue[c] = <<>>
    BY DEF CutInv, TurnInv
  <2> QED  BY <2>1, <2>2, <2>3
<1> QED  BY <1>3 DEF CutInv

LEMMA ReaderStepCuts ==
  ASSUME TypeOK, IInv, RegInv, CutInv, ReadStep \/ DispatchStep
  PROVE  CutInv'
<1> USE ConnectionAssumption DEF callerVars, tableVars, failVars, readerVars, serverVars
<1>1. ASSUME NEW r \in written, NEW result \in {"ok", "rpcError"},
             NEW t \in Threads \cup {NoThread}, ReadResponse(r, result, t)
      PROVE  CutInv'
  <2>1. /\ readerPc = "read" /\ readerPc' \in {"deliver", "fail"}
        /\ readerError' \in {readerError, "protocol"}
        /\ UNCHANGED <<pc, method, answer, outcome, queue, senders, alive, failer, failure>>
        /\ \A x \in Threads : turn'[x] => turn[x]
    BY <1>1 DEF ReadResponse, ReaderFails, TypeOK
  <2>2. (SomeoneLeft' <=> SomeoneLeft) /\ ~ReaderDown
    BY <2>1 DEF SomeoneLeft, ReaderDown
  <2>3. LeftInv' /\ CauseInv'
    BY <2>1, <2>2 DEF CutInv, LeftInv, CauseInv, Unroutable
  <2> QED  BY <2>1, <2>2, <2>3, CutOtherMove DEF Last
<1>2. ASSUME NEW t \in Threads, NEW kind \in {"event", "completed"}, ReadEvent(t, kind)
      PROVE  CutInv'
  <2>1. /\ readerPc = "read" /\ turn[t] /\ turn' = [turn EXCEPT ![t] = (kind = "event")]
        /\ UNCHANGED <<pc, method, answer, outcome, queue, senders, alive, failer, failure, thread>>
        /\ IF senders[t] # NoCaller
           THEN /\ readerPc' = "forward"
                /\ held' = [thread |-> t, caller |-> senders[t], kind |-> kind]
                /\ readerError' = readerError
           ELSE readerPc' = "fail" /\ readerError' = "unknownThread"
    BY <1>2 DEF ReadEvent, ReaderFails
  <2>2. (SomeoneLeft' <=> SomeoneLeft) /\ ~ReaderDown /\ failer # Reader
    BY <2>1 DEF SomeoneLeft, ReaderDown, CutInv, LeftInv
  <2>3. alive /\ ~SomeoneLeft => \E c \in Callers : senders[t] = c /\ Busy(c)
    BY <2>1, <2>2 DEF CutInv, TurnInv
  <2>4. LeftInv' /\ CauseInv'
    BY <2>1, <2>2, <2>3 DEF CutInv, LeftInv, CauseInv
  <2>5. \A x \in Threads : turn'[x] => turn[x] /\ (kind = "completed" => x # t)
    BY <2>1 DEF TypeOK
  <2>6. ASSUME NEW x \in Threads, NEW c \in Callers, turn'[x], senders[x] = c, Last(c)'
        PROVE  FALSE
    <3>1. senders[t] = c /\ kind = "completed"
      BY <2>1, <2>6 DEF Last
    <3>2. x = t
      BY <2>6, <3>1 DEF RegInv, OwnerInv
    <3> QED  BY <2>5, <2>6, <3>1, <3>2
  <2>7. alive /\ ~SomeoneLeft /\ readerPc' = "forward" => Busy(held'.caller)
    BY <2>1, <2>3
  <2> QED  BY <2>1, <2>2, <2>4, <2>5, <2>6, <2>7, CutOtherMove
<1>3. CASE ReadFault
  <2>1. /\ readerPc = "read" /\ readerPc' = "fail" /\ readerError' = "protocol"
        /\ UNCHANGED <<pc, method, answer, outcome, queue, senders, alive, failer, failure, turn>>
    BY <1>3 DEF ReadFault, ReaderFails
  <2>2. (SomeoneLeft' <=> SomeoneLeft) /\ ~ReaderDown
    BY <2>1 DEF SomeoneLeft, ReaderDown
  <2>3. LeftInv' /\ CauseInv'
    BY <2>1, <2>2 DEF CutInv, LeftInv, CauseInv, Unroutable, ReaderDown
  <2> QED  BY <2>1, <2>2, <2>3, CutOtherMove DEF Last
<1>4. CASE DeliverResponse
  <2>1. /\ readerPc = "deliver" /\ readerPc' = "read"
        /\ UNCHANGED <<pc, method, outcome, queue, senders, alive, failer, failure, readerError, turn>>
        /\ \A d \in Callers : answer'[d] = answer[d] \/ answer'[d] = held.result
        /\ held.result # "failed"
    BY <1>4 DEF DeliverResponse, Deliver, TypeOK, Response
  <2>2. (SomeoneLeft' <=> SomeoneLeft) /\ ~ReaderDown
    BY <2>1 DEF SomeoneLeft, ReaderDown
  <2>3. LeftInv' /\ CauseInv'
    BY <2>1, <2>2 DEF CutInv, LeftInv, CauseInv
  <2> QED  BY <2>1, <2>2, <2>3, CutOtherMove DEF Last
<1>5. CASE ForwardEvent
  <2>1. /\ readerPc = "forward" /\ held.caller \in Callers /\ held.kind \in {"event", "completed"}
        /\ UNCHANGED <<pc, method, answer, outcome, alive, failer, failure, turn>>
    BY <1>5 DEF ForwardEvent, TypeOK, Event
  <2>2. (SomeoneLeft' <=> SomeoneLeft) /\ ~ReaderDown /\ failer # Reader
    BY <2>1 DEF SomeoneLeft, ReaderDown, CutInv, LeftInv
  <2>3. LeftInv'
    BY <2>1, <2>2 DEF CutInv, LeftInv
  <2>4. CASE rxOpen[held.caller]
    <3>1. /\ readerPc' = "read" /\ senders' = senders /\ readerError' = readerError
          /\ queue' = [queue EXCEPT ![held.caller] = Append(@, held.kind)]
      BY <1>5, <2>4 DEF ForwardEvent
    <3>2. \A d \in Callers : (AtWork(d)' <=> AtWork(d)) /\ (Started(d)' <=> Started(d))
      BY <2>1 DEF AtWork, Started
    <3>3. ASSUME NEW d \in Callers, Busy(d), ~Last(d)
          PROVE  Busy(d)'
      <4>1. CASE d = held.caller
        <5> DEFINE q == queue[d]
        <5>1. q \in Seq(EventKinds) /\ queue'[d] = Append(q, "event")
          BY <2>1, <3>1, <3>3, <4>1 DEF TypeOK, Last
        <5>2. \A i \in DOMAIN q : q[i] = "event"
          BY <3>3 DEF Busy
        <5> HIDE DEF q
        <5>3. \A i \in DOMAIN Append(q, "event") : Append(q, "event")[i] = "event"
          BY <5>1, <5>2
        <5> QED  BY <3>2, <3>3, <5>1, <5>3 DEF Busy
      <4>2. CASE d # held.caller
        <5>1. queue'[d] = queue[d]
          BY <2>1, <3>1, <4>2 DEF TypeOK
        <5> QED  BY <3>2, <3>3, <5>1 DEF Busy
      <4> QED  BY <4>1, <4>2
    <3>4. TurnInv'
      <4> SUFFICES ASSUME alive, ~SomeoneLeft
                   PROVE  /\ \A t \in Threads : turn[t] =>
                               \E c \in Callers : senders[t] = c /\ Busy(c)' /\ ~Last(c)'
                          /\ \A c \in Callers :
                               (AtWork(c)' /\ ~Started(c)') \/ method[c] = "threadStart" =>
                                 queue'[c] = <<>>
        BY <2>1, <2>2, <3>1 DEF TurnInv
      <4>1. \A c \in Callers : ~Last(c)'
        BY <3>1 DEF Last
      <4>2. \A t \in Threads : turn[t] =>
              \E c \in Callers : senders[t] = c /\ Busy(c)' /\ ~Last(c)'
        BY <2>2, <3>3, <4>1 DEF CutInv, TurnInv
      <4>3. Busy(held.caller)
        BY <2>1 DEF CutInv, TurnInv
      <4>4. \A c \in Callers : c # held.caller => queue'[c] = queue[c]
        BY <2>1, <3>1 DEF TypeOK
      <4> QED  BY <2>1, <3>2, <4>2, <4>3, <4>4 DEF CutInv, TurnInv, Busy, AtWork
    <3> QED  BY <2>1, <2>2, <2>3, <3>1, <3>4 DEF CutInv, CauseInv
  <2>5. CASE ~rxOpen[held.caller]
    <3>1. readerPc' = "fail" /\ readerError' = "closedReceiver" /\ queue' = queue
      BY <1>5, <2>5 DEF ForwardEvent, ReaderFails
    <3>2. alive => SomeoneLeft
      BY <2>1, <2>5 DEF CutInv, TurnInv, Busy, RegInv, PlaceInv, Placed
    <3> QED  BY <2>1, <2>2, <2>3, <3>1, <3>2 DEF CutInv, TurnInv, CauseInv
  <2> QED  BY <2>4, <2>5
<1>6. CASE ReaderFailsConnection
  <2>1. /\ alive /\ ~alive' /\ failer' = Reader /\ readerPc = "fail"
        /\ UNCHANGED <<pc, method, answer, queue, outcome, readerPc, readerError, failure>>
    BY <1>6 DEF ReaderFailsConnection, FailSwap
  <2>2. SomeoneLeft' <=> SomeoneLeft
    BY <2>1 DEF SomeoneLeft
  <2> QED  BY <2>1, <2>2 DEF CutInv, LeftInv, TurnInv, CauseInv, ReaderDown
<1>7. CASE ReaderStops
  <2>1. /\ ~alive /\ readerPc' = "stopped"
        /\ UNCHANGED <<pc, method, answer, outcome, queue, senders, alive, failer, failure, readerError,
                       held, turn>>
    BY <1>7 DEF ReaderStops
  <2>2. SomeoneLeft' <=> SomeoneLeft
    BY <2>1 DEF SomeoneLeft
  <2> QED  BY <2>1, <2>2 DEF CutInv, LeftInv, TurnInv, CauseInv, ReaderDown
<1> QED
  BY <1>1, <1>2, <1>3, <1>4, <1>5, <1>6, <1>7 DEF ReadStep, DispatchStep

LEMMA FailStepCuts ==
  ASSUME TypeOK, IInv, CutInv, FailStep
  PROVE  CutInv'
<1>1. /\ ~alive /\ UNCHANGED <<pc, outcome, alive, failer, readerPc, readerError>>
      /\ \/ failure' = failure
         \/ failure' \in {"write", "timeout"}
         \/ failer = Reader /\ failure' = readerError
  BY DEF FailStep, RecordFailure, TakePending, NotifyPending, NotifyThreads, IInv, LockInv,
         callerVars, tableVars, readerVars
<1>2. SomeoneLeft' <=> SomeoneLeft
  BY <1>1 DEF SomeoneLeft
<1> QED
  BY <1>1, <1>2 DEF CutInv, LeftInv, TurnInv, CauseInv, ReaderDown, Unroutable

\* In every behaviour, an unroutable event has failed the connection only if a
\* session has left its turn before its end.
THEOREM OnlyLeaversCut == Spec => []OnlyLeaversCutOthersOff
<1>1. Init => CutInv
  BY ConnectionAssumption
  DEF Init, CutInv, LeftInv, TurnInv, CauseInv, Unroutable, SomeoneLeft, AtWork
<1>2. TypeOK /\ IInv /\ RegInv /\ CutInv /\ [Next]_vars => CutInv'
  <2> SUFFICES ASSUME TypeOK, IInv, RegInv, CutInv, [Next]_vars
               PROVE  CutInv'
    OBVIOUS
  <2>1. CASE UNCHANGED vars
    <3>1. UNCHANGED <<pc, method, answer, outcome, queue, senders, alive, failer, failure,
                      readerPc, readerError, held, turn>>
      BY <2>1 DEF vars, callerVars, tableVars, failVars, readerVars, serverVars
    <3>2. SomeoneLeft' <=> SomeoneLeft
      BY <3>1 DEF SomeoneLeft
    <3>3. LeftInv' /\ CauseInv'
      BY <3>1, <3>2 DEF CutInv, LeftInv, CauseInv, ReaderDown
    <3> QED  BY <3>1, <3>3, CutOtherMove DEF ReaderDown, Last, CutInv, TurnInv
  <2> QED
    BY <2>1, RequestStepCuts, SessionStepCuts, ReaderStepCuts, FailStepCuts
    DEF Next, Terminated
<1>3. CutInv => OnlyLeaversCutOthersOff
  BY DEF CutInv, CauseInv, Unroutable, SomeoneLeft, OnlyLeaversCutOthersOff
<1> QED
  BY <1>1, <1>2, <1>3, Registrations, Invariant, TypeCorrect, PTL DEF Spec
=============================================================================
