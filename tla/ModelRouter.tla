----------------------------- MODULE ModelRouter -----------------------------
(***************************************************************************)
(* The model router (application/model_router.rs): GPT requests are        *)
(* admitted by a FIFO semaphore, run on a model session, and when the turn *)
(* ends in a tool call the session is retained until Claude's tool result  *)
(* claims it or its time to live is over.                                  *)
(*                                                                         *)
(* A request is one task spawned by the HTTP adapter; it is not cancelled  *)
(* when its client leaves.  A session is named by the request it was       *)
(* launched for.  What a session does during a turn is TurnReader's; here  *)
(* a turn ends in text, in a tool call or in an error.                     *)
(*                                                                         *)
(* A step is the code between two awaits; the sections under the write     *)
(* lock of pending_calls await nothing, so each is one step.               *)
(***************************************************************************)
EXTENDS Naturals, Sequences, FiniteSets

CONSTANTS
  Requests,        \* Messages requests for a GPT route
  ClaudeSessions,  \* Claude Code session identifiers
  Routes,          \* configured GPT routes
  ToolIds,         \* tool-use identifiers the App Server may choose
  NoTool,          \* the request carries no tool result
  NoSession,       \* the request holds no model session
  Permits          \* MAX_CONCURRENT_GPT_TURNS

ASSUME RouterAssumption ==
  /\ IsFiniteSet(Requests)
  /\ NoTool \notin ToolIds
  /\ NoSession \notin Requests
  /\ Permits \in Nat \ {0}

VARIABLES
  pc,        \* where the request's task is
  request,   \* what it asked for; <<>> before it arrives
  held,      \* the model session the task owns
  answer,    \* how handle() ended
  calls,     \* pending_calls
  timers,    \* TTL tasks spawned by retain_pending_session
  waiting,   \* tasks queued at the admission semaphore
  permits,   \* available permits of the admission semaphore
  lastCall,  \* the tool call the session's turn stopped at
  \* history, for the properties
  expiries,  \* expiry identifiers drawn so far
  retention, \* the expiry identifier this request's tool call was retained under
  claimed,   \* expiry identifiers of retained calls that were claimed
  expired    \* expiry identifiers whose timer has fired

vars == <<pc, request, held, answer, calls, timers, waiting, permits, lastCall,
          expiries, retention, claimed, expired>>

Keys == ClaudeSessions \X ToolIds
Content == [claude : ClaudeSessions, route : Routes, tool : ToolIds \cup {NoTool}]
Call  == [key : Keys, session : Requests, route : Routes, expiry : Nat]
Timer == [key : Keys, expiry : Nat]

Labels  == {"idle", "lookup", "queued", "launch", "run", "retain", "return", "finished"}
Answers == {"none", "text", "toolCall", "error"}

\* Tasks that hold a permit.
Admitted == {r \in Requests : pc[r] \in {"launch", "run", "retain", "return"}}

-----------------------------------------------------------------------------
(* Helpers.                                                                *)

Goto(r, label) == pc' = [pc EXCEPT ![r] = label]

\* The key a tool result names.
Key(r) == <<request[r].claude, request[r].tool>>

\* The key under which the session held by r is to be retained.
CallKey(r) == <<request[r].claude, lastCall[held[r]]>>

Named(key) == {c \in calls : c.key = key}

\* handle() has its result; the session, if it is still held, is dropped and
\* then the permit.
Leave(r, result) ==
  /\ Goto(r, "return")
  /\ answer' = [answer EXCEPT ![r] = result]
  /\ held' = [held EXCEPT ![r] = NoSession]

-----------------------------------------------------------------------------
(* handle.                                                                 *)

\* A tool result is looked up before it queues; another request queues at once.
Arrive(r) ==
  /\ pc[r] = "idle"
  /\ \E content \in Content :
       /\ request' = [request EXCEPT ![r] = content]
       /\ IF content.tool = NoTool
          THEN Goto(r, "queued") /\ waiting' = Append(waiting, r)
          ELSE Goto(r, "lookup") /\ UNCHANGED waiting
  /\ UNCHANGED <<held, answer, calls, timers, permits, lastCall, expiries, retention,
                 claimed, expired>>

\* Mutant: the route of the tool result is not compared.
ClaimAnyRoute(r) ==
  /\ pc[r] = "lookup"
  /\ \E call \in Named(Key(r)) :
       /\ calls' = calls \ {call}
       /\ held' = [held EXCEPT ![r] = call.session]
       /\ claimed' = claimed \cup {call.expiry}
  /\ waiting' = Append(waiting, r)
  /\ Goto(r, "queued")
  /\ UNCHANGED <<request, answer, timers, permits, lastCall, expiries, retention, expired>>

\* Mutant: the claimed session stays in the map until its turn is over.
ClaimKeepingEntry(r) ==
  /\ pc[r] = "lookup"
  /\ \E call \in Named(Key(r)) :
       /\ call.route = request[r].route
       /\ held' = [held EXCEPT ![r] = call.session]
       /\ claimed' = claimed \cup {call.expiry}
  /\ waiting' = Append(waiting, r)
  /\ Goto(r, "queued")
  /\ UNCHANGED <<request, answer, calls, timers, permits, lastCall, expiries, retention,
                 expired>>

\* The call is removed under the lock it was found under, before admission.
Claim(r) ==
  /\ pc[r] = "lookup"
  /\ \E call \in Named(Key(r)) :
       /\ call.route = request[r].route
       /\ calls' = calls \ {call}
       /\ held' = [held EXCEPT ![r] = call.session]
       /\ claimed' = claimed \cup {call.expiry}
  /\ waiting' = Append(waiting, r)
  /\ Goto(r, "queued")
  /\ UNCHANGED <<request, answer, timers, permits, lastCall, expiries, retention, expired>>

\* No such call, or a call made on another route, which stays retained.
RefuseClaim(r) ==
  /\ pc[r] = "lookup"
  /\ \A call \in Named(Key(r)) : call.route # request[r].route
  /\ answer' = [answer EXCEPT ![r] = "error"]
  /\ Goto(r, "finished")
  /\ UNCHANGED <<request, held, calls, timers, waiting, permits, lastCall, expiries,
                 retention, claimed, expired>>

\* Mutant: the permit is not bound to a variable and so is dropped at once.
AdmitWithoutPermit(r) ==
  /\ pc[r] = "queued" /\ waiting # <<>> /\ Head(waiting) = r
  /\ permits > 0
  /\ waiting' = Tail(waiting)
  /\ Goto(r, IF request[r].tool = NoTool THEN "launch" ELSE "run")
  /\ UNCHANGED <<request, held, answer, calls, timers, permits, lastCall, expiries,
                 retention, claimed, expired>>

\* The semaphore serves its queue in order.
Admit(r) ==
  /\ pc[r] = "queued" /\ waiting # <<>> /\ Head(waiting) = r
  /\ permits > 0
  /\ permits' = permits - 1
  /\ waiting' = Tail(waiting)
  /\ Goto(r, IF request[r].tool = NoTool THEN "launch" ELSE "run")
  /\ UNCHANGED <<request, held, answer, calls, timers, lastCall, expiries, retention,
                 claimed, expired>>

Launch(r) ==
  /\ pc[r] = "launch"
  /\ \/ held' = [held EXCEPT ![r] = r] /\ Goto(r, "run") /\ UNCHANGED answer
     \/ Leave(r, "error")
  /\ UNCHANGED <<request, calls, timers, waiting, permits, lastCall, expiries, retention,
                 claimed, expired>>

\* start_turn or continue_tool returns.
TurnEnds(r) ==
  /\ pc[r] = "run"
  /\ \/ \E result \in {"text", "error"} : Leave(r, result) /\ UNCHANGED lastCall
     \/ \E tool \in ToolIds :
          /\ lastCall' = [lastCall EXCEPT ![held[r]] = tool]
          /\ Goto(r, "retain")
          /\ UNCHANGED <<held, answer>>
  /\ UNCHANGED <<request, calls, timers, waiting, permits, expiries, retention, claimed,
                 expired>>

-----------------------------------------------------------------------------
(* finish_outcome and retain_pending_session.                              *)

\* The call of the session that r held, under a new expiry identifier.  The
\* route is the one the session was launched for, handed on from claim to claim.
NewCall(r) ==
  [key |-> CallKey(r), session |-> held[r], route |-> request[held[r]].route,
   expiry |-> expiries + 1]

Retained(r) ==
  /\ expiries' = expiries + 1
  /\ retention' = [retention EXCEPT ![r] = expiries + 1]
  /\ timers' = timers \cup {[key |-> CallKey(r), expiry |-> expiries + 1]}
  /\ Leave(r, "toolCall")

\* Mutant: the timer draws an identifier of its own.
RetainWithOtherExpiry(r) ==
  /\ pc[r] = "retain"
  /\ Named(CallKey(r)) = {}
  /\ calls' = calls \cup {NewCall(r)}
  /\ expiries' = expiries + 2
  /\ retention' = [retention EXCEPT ![r] = expiries + 1]
  /\ timers' = timers \cup {[key |-> CallKey(r), expiry |-> expiries + 2]}
  /\ Leave(r, "toolCall")
  /\ UNCHANGED <<request, waiting, permits, lastCall, claimed, expired>>

\* The session is retained before the tool call is returned to Claude; if the
\* key is taken the call is an error, and the session is dropped.
Retain(r) ==
  /\ pc[r] = "retain"
  /\ \/ /\ Named(CallKey(r)) = {}
        /\ calls' = calls \cup {NewCall(r)}
        /\ Retained(r)
     \/ /\ Named(CallKey(r)) # {}
        /\ Leave(r, "error")
        /\ UNCHANGED <<calls, timers, expiries, retention>>
  /\ UNCHANGED <<request, waiting, permits, lastCall, claimed, expired>>

\* Mutant: the permit stays with the retained session.
ReturnKeepingPermit(r) ==
  /\ pc[r] = "return"
  /\ permits' = IF answer[r] = "toolCall" THEN permits ELSE permits + 1
  /\ Goto(r, "finished")
  /\ UNCHANGED <<request, held, answer, calls, timers, waiting, lastCall, expiries,
                 retention, claimed, expired>>

\* The permit is dropped as handle() returns.
Return(r) ==
  /\ pc[r] = "return"
  /\ permits' = permits + 1
  /\ Goto(r, "finished")
  /\ UNCHANGED <<request, held, answer, calls, timers, waiting, lastCall, expiries,
                 retention, claimed, expired>>

\* Mutant: the timer removes whatever is retained under its key.
TimerFiresOnKey(timer) ==
  /\ timers' = timers \ {timer}
  /\ calls' = calls \ Named(timer.key)
  /\ expired' = expired \cup {timer.expiry}
  /\ UNCHANGED <<pc, request, held, answer, waiting, permits, lastCall, expiries, retention,
                 claimed>>

\* TOOL_SESSION_TTL after a retention: that retention, if it still lasts, ends.
TimerFires(timer) ==
  /\ timers' = timers \ {timer}
  /\ calls' = {c \in calls : c.key # timer.key \/ c.expiry # timer.expiry}
  /\ expired' = expired \cup {timer.expiry}
  /\ UNCHANGED <<pc, request, held, answer, waiting, permits, lastCall, expiries, retention,
                 claimed>>

-----------------------------------------------------------------------------
Init ==
  /\ pc = [r \in Requests |-> "idle"]
  /\ request = [r \in Requests |-> <<>>]
  /\ held = [r \in Requests |-> NoSession]
  /\ answer = [r \in Requests |-> "none"]
  /\ calls = {}
  /\ timers = {}
  /\ waiting = <<>>
  /\ permits = Permits
  /\ lastCall = [r \in Requests |-> NoTool]
  /\ expiries = 0
  /\ retention = [r \in Requests |-> 0]
  /\ claimed = {}
  /\ expired = {}

RequestStep(r) ==
  \/ Claim(r) \/ RefuseClaim(r) \/ Admit(r) \/ Launch(r) \/ TurnEnds(r)
  \/ Retain(r) \/ Return(r)

TimerStep == \E timer \in timers : TimerFires(timer)

\* Nothing is under way.
Quiet ==
  /\ \A r \in Requests : pc[r] \in {"idle", "finished"}
  /\ timers = {}
  /\ UNCHANGED vars

Next ==
  \/ \E r \in Requests : Arrive(r) \/ RequestStep(r)
  \/ TimerStep
  \/ Quiet

Spec == Init /\ [][Next]_vars

\* Tasks are polled, the semaphore serves its queue, a turn ends (a timer bounds
\* every wait of it, see AppServerConnection), and TTL timers fire.
FairSpec ==
  /\ Spec
  /\ \A r \in Requests : WF_vars(RequestStep(r))
  /\ WF_vars(TimerStep)

-----------------------------------------------------------------------------
(* Properties.                                                             *)

\* Every variable has its type (ModelRouterService, Session, locals of handle).
TypeOK ==
  /\ pc \in [Requests -> Labels]
  /\ request \in [Requests -> Content \cup {<<>>}]
  /\ \A r \in Requests : pc[r] # "idle" => request[r] \in Content
  /\ held \in [Requests -> Requests \cup {NoSession}]
  /\ answer \in [Requests -> Answers]
  /\ calls \in SUBSET Call
  /\ timers \in SUBSET Timer
  /\ waiting \in Seq(Requests)
  /\ permits \in 0..Permits
  /\ lastCall \in [Requests -> ToolIds \cup {NoTool}]
  /\ expiries \in Nat
  /\ retention \in [Requests -> Nat]
  /\ claimed \in SUBSET Nat /\ expired \in SUBSET Nat

\* Every permit is available or held by a task that runs a turn: at most Permits
\* turns run, and a retained tool call takes no capacity (REQ-014).
PermitsAreAccountedFor == permits + Cardinality(Admitted) = Permits

\* A model session is in one place: two requests never share it, nor do a
\* request and the map, and a key names one call.
SessionInOnePlace ==
  /\ \A r, s \in Requests : held[r] = held[s] /\ held[r] # NoSession => r = s
  /\ \A call \in calls : \A r \in Requests : held[r] # call.session
  /\ \A c, d \in calls : c.key = d.key \/ c.session = d.session => c = d

\* A request runs its own conversation: the session it holds was launched for
\* the same Claude session and route, and it answers the tool call that session
\* stopped at (REQ-010).
ContinuesItsOwnTurn ==
  \A r \in Requests : held[r] # NoSession =>
    /\ request[held[r]].claude = request[r].claude
    /\ request[held[r]].route = request[r].route
    /\ pc[r] \in {"queued", "run"} => lastCall[held[r]] = request[r].tool

\* A tool call that was returned to Claude can be answered until it was answered
\* or its own time to live was over; no other call and no older timer ends it.
ToolCallStaysOpen ==
  \A r \in Requests : answer[r] = "toolCall" =>
    \/ retention[r] \in claimed \cup expired
    \/ \E call \in calls : call.expiry = retention[r] /\ call.key[1] = request[r].claude

\* Requests that are past the point where they begin or take up a conversation:
\* the launch, or the claim.
Served == {r \in Requests :
  \/ pc[r] \in {"run", "retain", "return", "finished"}
  \/ pc[r] = "queued" /\ request[r].tool # NoTool}

InHand == {<<r, held[r]>> : r \in {q \in Requests : held[q] # NoSession}}

Open == {<<call.session, call.key[2]>> : call \in calls}

Conversation == INSTANCE ToolConversation
                WITH asked <- request, served <- Served, inHand <- InHand, open <- Open

\* The router keeps its promise of a conversation: no interleaving of claims,
\* turns, retentions and timers gives one to two requests or to the wrong one,
\* loses one to another's call, or brings one back (REQ-010).
KeepsConversations == Conversation!Spec

\* Every request is answered, in particular the tool results that the admission
\* of later turns may depend on.
EveryRequestIsAnswered ==
  \A r \in Requests : pc[r] # "idle" ~> pc[r] = "finished"

\* Retained state does not stay for ever: an unanswered call expires (REQ-010).
RetentionEnds == \A n \in 1..Cardinality(Requests) :
  (\E call \in calls : call.expiry = n) ~> ~(\E call \in calls : call.expiry = n)
=============================================================================
