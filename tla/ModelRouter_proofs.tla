------------------------- MODULE ModelRouter_proofs -------------------------
(***************************************************************************)
(* Theorems about ModelRouter, for any number of requests, Claude          *)
(* sessions, routes, tool identifiers and permits.                         *)
(***************************************************************************)
EXTENDS ModelRouter, FiniteSetTheorems, TLAPS

\* A request past its launch or its admission as a continuation.
Started == {"run", "retain", "return", "finished"}

\* A retained call is under the key of the session it keeps, and bound to the
\* route of that session.
CallsInv ==
  \A call \in calls :
    /\ pc[call.session] \in Started
    /\ call.key = <<request[call.session].claude, lastCall[call.session]>>
    /\ call.route = request[call.session].route

\* Where a task holds a session, and what it may rely on there.
HoldInv ==
  \A r \in Requests :
    /\ pc[r] = "idle" => request[r] = <<>>
    /\ pc[r] = "lookup" => request[r].tool # NoTool
    /\ pc[r] = "queued" => (held[r] = NoSession <=> request[r].tool = NoTool)
    /\ pc[r] = "launch" => request[r].tool = NoTool
    /\ pc[r] \in {"run", "retain"} => held[r] # NoSession
    /\ held[r] # NoSession => pc[r] \in {"queued", "run", "retain"} /\ pc[held[r]] \in Started
    /\ pc[r] = "retain" => lastCall[held[r]] \in ToolIds
    /\ pc[r] \notin Started => lastCall[r] = NoTool
    /\ answer[r] # "none" => pc[r] \in {"return", "finished"}

IInv ==
  /\ TypeOK /\ PermitsAreAccountedFor
  /\ SessionInOnePlace /\ ContinuesItsOwnTurn /\ ToolCallStaysOpen
  /\ CallsInv /\ HoldInv

-----------------------------------------------------------------------------
(* The count of permits.  Admitted is the set of tasks that hold one, and a  *)
(* step adds or removes at most one of them.                                 *)

LEMMA AdmittedGrows ==
  ASSUME TypeOK, PermitsAreAccountedFor, NEW r \in Requests,
         r \notin Admitted, Admitted' = Admitted \cup {r}, permits > 0, permits' = permits - 1
  PROVE  PermitsAreAccountedFor' /\ permits' \in 0..Permits
<1>1. IsFiniteSet(Admitted)
  BY RouterAssumption, FS_Subset DEF Admitted
<1>2. Cardinality(Admitted') = Cardinality(Admitted) + 1
  BY <1>1, FS_AddElement
<1>3. Cardinality(Admitted) \in Nat
  BY <1>1, FS_CardinalityType
<1> QED
  BY <1>2, <1>3, RouterAssumption DEF TypeOK, PermitsAreAccountedFor

LEMMA AdmittedShrinks ==
  ASSUME TypeOK, PermitsAreAccountedFor, NEW r \in Requests,
         r \in Admitted, Admitted' = Admitted \ {r}, permits' = permits + 1
  PROVE  PermitsAreAccountedFor' /\ permits' \in 0..Permits
<1>1. IsFiniteSet(Admitted)
  BY RouterAssumption, FS_Subset DEF Admitted
<1>2. Cardinality(Admitted') = Cardinality(Admitted) - 1
  BY <1>1, FS_RemoveElement
<1>3. Cardinality(Admitted) \in Nat /\ Cardinality(Admitted') \in Nat
  BY <1>1, FS_CardinalityType, FS_RemoveElement
<1> QED
  BY <1>2, <1>3, RouterAssumption DEF TypeOK, PermitsAreAccountedFor

LEMMA AdmittedStays ==
  ASSUME TypeOK, PermitsAreAccountedFor, Admitted' = Admitted, permits' = permits
  PROVE  PermitsAreAccountedFor' /\ permits' \in 0..Permits
BY DEF TypeOK, PermitsAreAccountedFor

-----------------------------------------------------------------------------
(* One lemma for each action.                                                *)

LEMMA ArriveKeeps ==
  ASSUME IInv, NEW r \in Requests, Arrive(r)
  PROVE  IInv'
<1>1. PICK content \in Content :
        /\ request' = [request EXCEPT ![r] = content]
        /\ IF content.tool = NoTool
           THEN Goto(r, "queued") /\ waiting' = Append(waiting, r)
           ELSE Goto(r, "lookup") /\ UNCHANGED waiting
  BY DEF Arrive
<1>2. /\ pc[r] = "idle" /\ held[r] = NoSession /\ answer[r] = "none"
      /\ UNCHANGED <<held, answer, calls, timers, permits, lastCall, expiries, retention,
                     claimed, expired>>
  BY DEF Arrive, IInv, HoldInv, Started
<1>3. /\ pc' = [pc EXCEPT ![r] = pc'[r]] /\ pc'[r] \in {"queued", "lookup"}
      /\ pc'[r] = "queued" <=> content.tool = NoTool
  BY <1>1 DEF Goto, IInv, TypeOK
<1>4. TypeOK'
  <2>1. waiting' \in Seq(Requests)
    <3>1. waiting' = waiting \/ waiting' = Append(waiting, r)
      BY <1>1
    <3>2. waiting \in Seq(Requests)
      BY DEF IInv, TypeOK
    <3> QED
      BY <3>1, <3>2
  <2> QED
    BY <1>1, <1>2, <1>3, <2>1 DEF IInv, TypeOK, Labels
<1>5. PermitsAreAccountedFor'
  <2>1. Admitted' = Admitted
    BY <1>2, <1>3 DEF Admitted, IInv, TypeOK
  <2> QED
    BY <1>2, <2>1, AdmittedStays DEF IInv
<1>6. \A q \in Requests : held[q] # NoSession => q # r /\ held[q] # r
  BY <1>2 DEF IInv, HoldInv, Started
<1>7. \A call \in calls : call.session # r /\ call.session \in Requests
  BY <1>2 DEF IInv, CallsInv, Started, TypeOK, Call
<1>8. SessionInOnePlace'
  BY <1>2 DEF IInv, SessionInOnePlace
<1>9. ContinuesItsOwnTurn'
  BY <1>1, <1>2, <1>3, <1>6 DEF IInv, ContinuesItsOwnTurn, TypeOK
<1>10. ToolCallStaysOpen'
  BY <1>1, <1>2 DEF IInv, ToolCallStaysOpen, TypeOK
<1>11. CallsInv'
  BY <1>1, <1>2, <1>3, <1>7 DEF IInv, CallsInv, TypeOK
<1>12. HoldInv'
  BY <1>1, <1>2, <1>3, <1>6 DEF IInv, HoldInv, TypeOK, Started
<1> QED
  BY <1>4, <1>5, <1>8, <1>9, <1>10, <1>11, <1>12 DEF IInv

LEMMA ClaimKeeps ==
  ASSUME IInv, NEW r \in Requests, Claim(r)
  PROVE  IInv'
<1>1. PICK call \in Named(Key(r)) :
        /\ call.route = request[r].route
        /\ calls' = calls \ {call}
        /\ held' = [held EXCEPT ![r] = call.session]
        /\ claimed' = claimed \cup {call.expiry}
  BY DEF Claim
<1>2. /\ pc[r] = "lookup" /\ pc' = [pc EXCEPT ![r] = "queued"]
      /\ waiting' = Append(waiting, r)
      /\ UNCHANGED <<request, answer, timers, permits, lastCall, expiries, retention, expired>>
  BY DEF Claim, Goto
<1>3. /\ call \in calls /\ call.key = <<request[r].claude, request[r].tool>>
      /\ call.session \in Requests /\ call.expiry \in Nat
      /\ request[r].tool # NoTool /\ request[r] \in Content
  BY <1>1, <1>2 DEF Named, Key, IInv, TypeOK, Call, HoldInv
<1>4. TypeOK'
  <2>1. waiting' \in Seq(Requests)
    BY <1>2 DEF IInv, TypeOK
  <2> QED
    BY <1>1, <1>2, <1>3, <2>1 DEF IInv, TypeOK, Labels
<1>5. PermitsAreAccountedFor'
  <2>1. Admitted' = Admitted
    BY <1>2 DEF Admitted, IInv, TypeOK
  <2> QED
    BY <1>2, <2>1, AdmittedStays DEF IInv
<1>6. SessionInOnePlace'
  BY <1>1, <1>3, RouterAssumption DEF IInv, SessionInOnePlace, TypeOK
<1>7. ContinuesItsOwnTurn'
  <2>1. /\ request[call.session].claude = request[r].claude
        /\ lastCall[call.session] = request[r].tool
        /\ request[call.session].route = request[r].route
    BY <1>1, <1>3 DEF IInv, CallsInv
  <2> QED
    BY <1>1, <1>2, <2>1 DEF IInv, ContinuesItsOwnTurn, TypeOK
<1>8. ToolCallStaysOpen'
  BY <1>1, <1>2 DEF IInv, ToolCallStaysOpen
<1>9. CallsInv'
  BY <1>1, <1>2 DEF IInv, CallsInv, TypeOK, Call, Started
<1>10. HoldInv'
  <2>1. pc[call.session] \in Started
    BY <1>3 DEF IInv, CallsInv
  <2> QED
    BY <1>1, <1>2, <1>3, <2>1, RouterAssumption DEF IInv, HoldInv, TypeOK, Started
<1> QED
  BY <1>4, <1>5, <1>6, <1>7, <1>8, <1>9, <1>10 DEF IInv

LEMMA RefuseClaimKeeps ==
  ASSUME IInv, NEW r \in Requests, RefuseClaim(r)
  PROVE  IInv'
<1>1. /\ pc[r] = "lookup" /\ pc' = [pc EXCEPT ![r] = "finished"]
      /\ answer' = [answer EXCEPT ![r] = "error"]
      /\ UNCHANGED <<request, held, calls, timers, waiting, permits, lastCall, expiries,
                     retention, claimed, expired>>
  BY DEF RefuseClaim, Goto
<1>2. held[r] = NoSession
  BY <1>1 DEF IInv, HoldInv
<1>3. TypeOK'
  BY <1>1 DEF IInv, TypeOK, Labels, Answers
<1>4. PermitsAreAccountedFor'
  <2>1. Admitted' = Admitted
    BY <1>1 DEF Admitted, IInv, TypeOK
  <2> QED
    BY <1>1, <2>1, AdmittedStays DEF IInv
<1>5. SessionInOnePlace' /\ ContinuesItsOwnTurn'
  BY <1>1, <1>2 DEF IInv, SessionInOnePlace, ContinuesItsOwnTurn, TypeOK
<1>6. ToolCallStaysOpen'
  BY <1>1 DEF IInv, ToolCallStaysOpen, TypeOK
<1>7. CallsInv' /\ HoldInv'
  BY <1>1, <1>2 DEF IInv, CallsInv, HoldInv, TypeOK, Call, Started
<1> QED
  BY <1>3, <1>4, <1>5, <1>6, <1>7 DEF IInv

LEMMA AdmitKeeps ==
  ASSUME IInv, NEW r \in Requests, Admit(r)
  PROVE  IInv'
<1> DEFINE label == IF request[r].tool = NoTool THEN "launch" ELSE "run"
<1>1. /\ pc[r] = "queued" /\ pc' = [pc EXCEPT ![r] = label]
      /\ permits > 0 /\ permits' = permits - 1
      /\ waiting # <<>> /\ waiting' = Tail(waiting)
      /\ UNCHANGED <<request, held, answer, calls, timers, lastCall, expiries, retention,
                     claimed, expired>>
  BY DEF Admit, Goto
<1>2. label \in {"launch", "run"}
  OBVIOUS
<1>3. PermitsAreAccountedFor' /\ permits' \in 0..Permits
  <2>1. r \notin Admitted /\ Admitted' = Admitted \cup {r}
    BY <1>1, <1>2 DEF Admitted, IInv, TypeOK
  <2> QED
    BY <1>1, <2>1, AdmittedGrows DEF IInv
<1>4. TypeOK'
  <2>1. waiting' \in Seq(Requests)
    BY <1>1 DEF IInv, TypeOK
  <2> QED
    BY <1>1, <1>2, <1>3, <2>1 DEF IInv, TypeOK, Labels
<1>5. SessionInOnePlace'
  BY <1>1 DEF IInv, SessionInOnePlace
<1>6. ContinuesItsOwnTurn'
  BY <1>1, <1>2 DEF IInv, ContinuesItsOwnTurn, TypeOK
<1>7. ToolCallStaysOpen'
  BY <1>1 DEF IInv, ToolCallStaysOpen
<1>8. CallsInv'
  BY <1>1, <1>2 DEF IInv, CallsInv, TypeOK, Call, Started
<1>9. HoldInv'
  <2>1. held[r] = NoSession <=> request[r].tool = NoTool
    BY <1>1 DEF IInv, HoldInv
  <2>2. lastCall[r] = NoTool /\ answer[r] = "none"
    BY <1>1 DEF IInv, HoldInv, Started, TypeOK
  <2>3. CASE request[r].tool = NoTool
    BY <1>1, <2>1, <2>2, <2>3 DEF IInv, HoldInv, TypeOK, Started
  <2>4. CASE request[r].tool # NoTool
    BY <1>1, <2>1, <2>2, <2>4 DEF IInv, HoldInv, TypeOK, Started
  <2> QED
    BY <2>3, <2>4
<1> QED
  BY <1>3, <1>4, <1>5, <1>6, <1>7, <1>8, <1>9 DEF IInv

\* A task whose turn is over gives up its session and still holds its permit.
LEMMA LeaveKeeps ==
  ASSUME IInv, NEW r \in Requests, pc[r] \in {"launch", "run", "retain"},
         NEW result \in {"text", "error"}, Leave(r, result),
         UNCHANGED <<request, calls, timers, waiting, permits, lastCall, expiries, retention,
                     claimed, expired>>
  PROVE  IInv'
<1>1. /\ pc' = [pc EXCEPT ![r] = "return"]
      /\ answer' = [answer EXCEPT ![r] = result]
      /\ held' = [held EXCEPT ![r] = NoSession]
  BY DEF Leave, Goto
<1>2. TypeOK'
  BY <1>1 DEF IInv, TypeOK, Labels, Answers
<1>3. PermitsAreAccountedFor'
  <2>1. Admitted' = Admitted
    BY <1>1 DEF Admitted, IInv, TypeOK
  <2> QED
    BY <2>1, AdmittedStays DEF IInv
<1>4. SessionInOnePlace' /\ ContinuesItsOwnTurn'
  BY <1>1, RouterAssumption DEF IInv, SessionInOnePlace, ContinuesItsOwnTurn, TypeOK, Call
<1>5. ToolCallStaysOpen'
  BY <1>1 DEF IInv, ToolCallStaysOpen, TypeOK
<1>6. CallsInv'
  BY <1>1 DEF IInv, CallsInv, TypeOK, Call, Started
<1>7. HoldInv'
  BY <1>1 DEF IInv, HoldInv, TypeOK, Started
<1> QED
  BY <1>2, <1>3, <1>4, <1>5, <1>6, <1>7 DEF IInv

LEMMA LaunchKeeps ==
  ASSUME IInv, NEW r \in Requests, Launch(r)
  PROVE  IInv'
<1>1. /\ pc[r] = "launch" /\ held[r] = NoSession
      /\ request[r] \in Content /\ request[r].tool = NoTool
      /\ lastCall[r] = NoTool /\ answer[r] = "none"
      /\ UNCHANGED <<request, calls, timers, waiting, permits, lastCall, expiries, retention,
                     claimed, expired>>
  BY DEF Launch, IInv, HoldInv, TypeOK, Started
<1>2. CASE Leave(r, "error")
  BY <1>1, <1>2, LeaveKeeps
<1>3. CASE held' = [held EXCEPT ![r] = r] /\ Goto(r, "run") /\ UNCHANGED answer
  <2>1. pc' = [pc EXCEPT ![r] = "run"]
    BY <1>3 DEF Goto
  <2>2. \A q \in Requests : held[q] # r
    BY <1>1, RouterAssumption DEF IInv, HoldInv, Started
  <2>3. \A call \in calls : call.session # r
    BY <1>1 DEF IInv, CallsInv, Started
  <2>4. TypeOK'
    BY <1>1, <1>3, <2>1 DEF IInv, TypeOK, Labels
  <2>5. PermitsAreAccountedFor'
    <3>1. Admitted' = Admitted
      BY <1>1, <2>1 DEF Admitted, IInv, TypeOK
    <3> QED
      BY <1>1, <3>1, AdmittedStays DEF IInv
  <2>6. SessionInOnePlace'
    BY <1>1, <1>3, <2>2, <2>3 DEF IInv, SessionInOnePlace, TypeOK
  <2>7. ContinuesItsOwnTurn'
    BY <1>1, <1>3, <2>1 DEF IInv, ContinuesItsOwnTurn, TypeOK
  <2>8. ToolCallStaysOpen'
    BY <1>1, <1>3 DEF IInv, ToolCallStaysOpen
  <2>9. CallsInv'
    BY <1>1, <2>1 DEF IInv, CallsInv, TypeOK, Call, Started
  <2>10. HoldInv'
    BY <1>1, <1>3, <2>1, RouterAssumption DEF IInv, HoldInv, TypeOK, Started
  <2> QED
    BY <2>4, <2>5, <2>6, <2>7, <2>8, <2>9, <2>10 DEF IInv
<1> QED
  BY <1>2, <1>3 DEF Launch

LEMMA TurnEndsKeeps ==
  ASSUME IInv, NEW r \in Requests, TurnEnds(r)
  PROVE  IInv'
<1>1. /\ pc[r] = "run" /\ held[r] \in Requests /\ pc[held[r]] \in Started
      /\ UNCHANGED <<request, calls, timers, waiting, permits, expiries, retention, claimed,
                     expired>>
  BY DEF TurnEnds, IInv, HoldInv, TypeOK
<1>2. CASE \E result \in {"text", "error"} : Leave(r, result) /\ UNCHANGED lastCall
  BY <1>1, <1>2, LeaveKeeps
<1>3. ASSUME NEW tool \in ToolIds,
             lastCall' = [lastCall EXCEPT ![held[r]] = tool],
             Goto(r, "retain"), UNCHANGED <<held, answer>>
      PROVE  IInv'
  <2>1. pc' = [pc EXCEPT ![r] = "retain"]
    BY <1>3 DEF Goto
  <2>2. \A q \in Requests \ {r} : held[q] # held[r]
    BY <1>1, RouterAssumption DEF IInv, SessionInOnePlace
  <2>3. \A call \in calls : call.session # held[r]
    BY <1>1 DEF IInv, SessionInOnePlace
  <2>4. TypeOK'
    BY <1>1, <1>3, <2>1 DEF IInv, TypeOK, Labels
  <2>5. PermitsAreAccountedFor'
    <3>1. Admitted' = Admitted
      BY <1>1, <2>1 DEF Admitted, IInv, TypeOK
    <3> QED
      BY <1>1, <3>1, AdmittedStays DEF IInv
  <2>6. SessionInOnePlace'
    BY <1>1, <1>3 DEF IInv, SessionInOnePlace
  <2>7. ContinuesItsOwnTurn'
    BY <1>1, <1>3, <2>1, <2>2 DEF IInv, ContinuesItsOwnTurn, TypeOK
  <2>8. ToolCallStaysOpen'
    BY <1>1, <1>3 DEF IInv, ToolCallStaysOpen
  <2>9. CallsInv'
    BY <1>1, <1>3, <2>1, <2>3 DEF IInv, CallsInv, TypeOK, Call, Started
  <2>10. HoldInv'
    BY <1>1, <1>3, <2>1, <2>2, RouterAssumption DEF IInv, HoldInv, TypeOK, Started
  <2> QED
    BY <2>4, <2>5, <2>6, <2>7, <2>8, <2>9, <2>10 DEF IInv
<1> QED
  BY <1>2, <1>3 DEF TurnEnds

LEMMA RetainKeeps ==
  ASSUME IInv, NEW r \in Requests, Retain(r)
  PROVE  IInv'
<1>1. /\ pc[r] = "retain" /\ held[r] \in Requests /\ pc[held[r]] \in Started
      /\ lastCall[held[r]] \in ToolIds
      /\ request[r] \in Content /\ request[held[r]] \in Content
      /\ UNCHANGED <<request, waiting, permits, lastCall, claimed, expired>>
  BY DEF Retain, IInv, HoldInv, TypeOK, Started
<1>2. CASE Leave(r, "error") /\ UNCHANGED <<calls, timers, expiries, retention>>
  BY <1>1, <1>2, LeaveKeeps
<1>3. CASE /\ Named(CallKey(r)) = {}
           /\ calls' = calls \cup {NewCall(r)}
           /\ Retained(r)
  <2>1. /\ pc' = [pc EXCEPT ![r] = "return"]
        /\ answer' = [answer EXCEPT ![r] = "toolCall"]
        /\ held' = [held EXCEPT ![r] = NoSession]
        /\ expiries' = expiries + 1 /\ retention' = [retention EXCEPT ![r] = expiries + 1]
        /\ timers' = timers \cup {[key |-> CallKey(r), expiry |-> expiries + 1]}
    BY <1>3 DEF Retained, Leave, Goto
  <2>2. /\ NewCall(r).key = CallKey(r) /\ NewCall(r).session = held[r]
        /\ NewCall(r).route = request[held[r]].route /\ NewCall(r).expiry = expiries + 1
    BY DEF NewCall
  <2>3. CallKey(r) \in Keys /\ CallKey(r)[1] = request[r].claude
    BY <1>1 DEF CallKey, Keys, Content
  <2>4. NewCall(r) \in Call
    BY <1>1, <2>3 DEF NewCall, Call, Content, IInv, TypeOK
  <2>5. TypeOK'
    <3>1. [key |-> CallKey(r), expiry |-> expiries + 1] \in Timer
      BY <2>3 DEF Timer, IInv, TypeOK
    <3> QED
      BY <1>1, <1>3, <2>1, <2>4, <3>1 DEF IInv, TypeOK, Labels, Answers
  <2>6. PermitsAreAccountedFor'
    <3>1. Admitted' = Admitted
      BY <1>1, <2>1 DEF Admitted, IInv, TypeOK
    <3> QED
      BY <1>1, <3>1, AdmittedStays DEF IInv
  <2>7. \A call \in calls : call.key # CallKey(r) /\ call.session # held[r]
    BY <1>1, <1>3 DEF Named, IInv, SessionInOnePlace
  <2>8. SessionInOnePlace'
    <3>1. \A q, s \in Requests : held'[q] = held'[s] /\ held'[q] # NoSession => q = s
      BY <2>1 DEF IInv, SessionInOnePlace, TypeOK
    <3>2. ASSUME NEW call \in calls', NEW q \in Requests
          PROVE  held'[q] # call.session
      <4>1. CASE call = NewCall(r)
        BY <1>1, <2>1, <2>2, <4>1, RouterAssumption DEF IInv, SessionInOnePlace, TypeOK
      <4>2. CASE call \in calls
        BY <2>1, <4>2, RouterAssumption DEF IInv, SessionInOnePlace, TypeOK, Call
      <4> QED
        BY <1>3, <4>1, <4>2
    <3>3. \A c, d \in calls' : c.key = d.key \/ c.session = d.session => c = d
      BY <1>3, <2>2, <2>7 DEF IInv, SessionInOnePlace
    <3> QED
      BY <3>1, <3>2, <3>3 DEF SessionInOnePlace
  <2>9. ContinuesItsOwnTurn'
    BY <1>1, <2>1 DEF IInv, ContinuesItsOwnTurn, TypeOK
  <2>10. ToolCallStaysOpen'
    <3>1. NewCall(r) \in calls' /\ calls \subseteq calls'
      BY <1>3
    <3>2. ASSUME NEW q \in Requests, answer'[q] = "toolCall"
          PROVE  \/ retention'[q] \in (claimed \cup expired)'
                 \/ \E call \in calls' :
                      call.expiry = retention'[q] /\ call.key[1] = request'[q].claude
      <4>1. CASE q = r
        BY <1>1, <2>1, <2>2, <2>3, <3>1, <4>1 DEF IInv, TypeOK
      <4>2. CASE q # r
        BY <1>1, <2>1, <3>1, <3>2, <4>2 DEF IInv, ToolCallStaysOpen, TypeOK
      <4> QED
        BY <4>1, <4>2
    <3> QED
      BY <3>2 DEF ToolCallStaysOpen
  <2>11. CallsInv'
    <3>1. \A s \in Requests : pc[s] \in Started => pc'[s] \in Started
      BY <2>1 DEF IInv, TypeOK, Started
    <3>2. CallKey(r) = <<request[held[r]].claude, lastCall[held[r]]>>
      BY <1>1, RouterAssumption DEF CallKey, IInv, ContinuesItsOwnTurn
    <3>3. ASSUME NEW call \in calls'
          PROVE  /\ pc'[call.session] \in Started
                 /\ call.key = <<request'[call.session].claude, lastCall'[call.session]>>
                 /\ call.route = request'[call.session].route
      <4>1. CASE call = NewCall(r)
        BY <1>1, <2>2, <3>1, <3>2, <4>1
      <4>2. CASE call \in calls
        BY <1>1, <3>1, <4>2 DEF IInv, CallsInv, TypeOK, Call
      <4> QED
        BY <1>3, <4>1, <4>2
    <3> QED
      BY <3>3 DEF CallsInv
  <2>12. HoldInv'
    BY <1>1, <2>1, RouterAssumption DEF IInv, HoldInv, TypeOK, Started
  <2> QED
    BY <2>5, <2>6, <2>8, <2>9, <2>10, <2>11, <2>12 DEF IInv
<1> QED
  BY <1>2, <1>3 DEF Retain

LEMMA ReturnKeeps ==
  ASSUME IInv, NEW r \in Requests, Return(r)
  PROVE  IInv'
<1>1. /\ pc[r] = "return" /\ held[r] = NoSession
      /\ pc' = [pc EXCEPT ![r] = "finished"] /\ permits' = permits + 1
      /\ UNCHANGED <<request, held, answer, calls, timers, waiting, lastCall, expiries,
                     retention, claimed, expired>>
  BY DEF Return, Goto, IInv, HoldInv
<1>2. PermitsAreAccountedFor' /\ permits' \in 0..Permits
  <2>1. r \in Admitted /\ Admitted' = Admitted \ {r}
    BY <1>1 DEF Admitted, IInv, TypeOK
  <2> QED
    BY <1>1, <2>1, AdmittedShrinks DEF IInv
<1>3. TypeOK'
  BY <1>1, <1>2 DEF IInv, TypeOK, Labels
<1>4. SessionInOnePlace' /\ ContinuesItsOwnTurn' /\ ToolCallStaysOpen'
  BY <1>1 DEF IInv, SessionInOnePlace, ContinuesItsOwnTurn, ToolCallStaysOpen, TypeOK
<1>5. CallsInv' /\ HoldInv'
  BY <1>1 DEF IInv, CallsInv, HoldInv, TypeOK, Call, Started
<1> QED
  BY <1>2, <1>3, <1>4, <1>5 DEF IInv

LEMMA TimerKeeps ==
  ASSUME IInv, NEW timer \in timers, TimerFires(timer)
  PROVE  IInv'
<1>1. /\ timer \in Timer
      /\ timers' = timers \ {timer}
      /\ calls' = {c \in calls : c.key # timer.key \/ c.expiry # timer.expiry}
      /\ expired' = expired \cup {timer.expiry}
      /\ UNCHANGED <<pc, request, held, answer, waiting, permits, lastCall, expiries, retention,
                     claimed>>
  BY DEF TimerFires, IInv, TypeOK
<1>2. TypeOK'
  BY <1>1 DEF IInv, TypeOK, Timer
<1>3. PermitsAreAccountedFor'
  <2>1. Admitted' = Admitted
    BY <1>1 DEF Admitted
  <2> QED
    BY <1>1, <2>1, AdmittedStays DEF IInv
<1>4. SessionInOnePlace' /\ ContinuesItsOwnTurn'
  BY <1>1 DEF IInv, SessionInOnePlace, ContinuesItsOwnTurn
<1>5. ToolCallStaysOpen'
  BY <1>1 DEF IInv, ToolCallStaysOpen
<1>6. CallsInv' /\ HoldInv'
  BY <1>1 DEF IInv, CallsInv, HoldInv
<1> QED
  BY <1>2, <1>3, <1>4, <1>5, <1>6 DEF IInv

-----------------------------------------------------------------------------
(* The theorems.                                                             *)

LEMMA InitInv == Init => IInv
<1> SUFFICES ASSUME Init
             PROVE  IInv
  OBVIOUS
<1>1. TypeOK
  BY RouterAssumption DEF Init, TypeOK, Labels, Answers
<1>2. PermitsAreAccountedFor
  <2>1. Admitted = {}
    BY DEF Init, Admitted
  <2> QED
    BY <2>1, FS_EmptySet, RouterAssumption DEF Init, PermitsAreAccountedFor
<1>3. SessionInOnePlace /\ ContinuesItsOwnTurn /\ ToolCallStaysOpen /\ CallsInv /\ HoldInv
  BY DEF Init, SessionInOnePlace, ContinuesItsOwnTurn, ToolCallStaysOpen, CallsInv, HoldInv,
     Started
<1> QED
  BY <1>1, <1>2, <1>3 DEF IInv

LEMMA StepKeeps == IInv /\ [Next]_vars => IInv'
<1> SUFFICES ASSUME IInv, [Next]_vars
             PROVE  IInv'
  OBVIOUS
<1>1. ASSUME NEW r \in Requests, Arrive(r) \/ RequestStep(r)
      PROVE  IInv'
  BY <1>1, ArriveKeeps, ClaimKeeps, RefuseClaimKeeps, AdmitKeeps, LaunchKeeps, TurnEndsKeeps,
     RetainKeeps, ReturnKeeps DEF RequestStep
<1>2. CASE TimerStep
  BY <1>2, TimerKeeps DEF TimerStep
<1>3. CASE UNCHANGED vars
  <2>1. Admitted' = Admitted
    BY <1>3 DEF vars, Admitted
  <2>2. PermitsAreAccountedFor'
    BY <1>3, <2>1, AdmittedStays DEF vars, IInv
  <2> QED
    BY <1>3, <2>2 DEF vars, IInv, TypeOK, SessionInOnePlace, ContinuesItsOwnTurn,
       ToolCallStaysOpen, CallsInv, HoldInv
<1> QED
  BY <1>1, <1>2, <1>3 DEF Next, Quiet

\* The inductive invariant.
THEOREM Invariant == Spec => []IInv
BY InitInv, StepKeeps, PTL DEF Spec

\* The router's state keeps its types.
THEOREM TypeCorrect == Spec => []TypeOK
<1>1. IInv => TypeOK
  BY DEF IInv
<1> QED
  BY <1>1, Invariant, PTL

\* For any number of permits and requests, no more turns run than there are
\* permits, and a retained tool call takes none of them.
THEOREM CapacityIsKept == Spec => []PermitsAreAccountedFor
<1>1. IInv => PermitsAreAccountedFor
  BY DEF IInv
<1> QED
  BY <1>1, Invariant, PTL

\* A model session never has two users, whatever requests race for it.
THEOREM SessionsAreNotShared == Spec => []SessionInOnePlace
<1>1. IInv => SessionInOnePlace
  BY DEF IInv
<1> QED
  BY <1>1, Invariant, PTL

\* A tool result only ever continues the turn that asked for it.
THEOREM ContinuationsAreBound == Spec => []ContinuesItsOwnTurn
<1>1. IInv => ContinuesItsOwnTurn
  BY DEF IInv
<1> QED
  BY <1>1, Invariant, PTL

\* A tool call that Claude was given is open until it is answered or expires.
THEOREM ToolCallsAreKept == Spec => []ToolCallStaysOpen
<1>1. IInv => ToolCallStaysOpen
  BY DEF IInv
<1> QED
  BY <1>1, Invariant, PTL

-----------------------------------------------------------------------------
(* The promise of a conversation.  Each lemma names the step of              *)
(* ToolConversation that a step of the router is.                            *)

\* A request that begins or takes up a conversation does so once.
LEMMA ServedGrows ==
  ASSUME TypeOK, NEW r \in Requests, r \notin Served,
         NEW label \in {"queued", "run", "return", "finished"},
         label = "queued" => request[r].tool # NoTool,
         pc' = [pc EXCEPT ![r] = label], request' = request
  PROVE  Served' = Served \cup {r}
BY DEF TypeOK, Served

LEMMA ServedStays ==
  ASSUME TypeOK, NEW r \in Requests, r \in Served,
         NEW label \in {"run", "retain", "return", "finished"},
         pc' = [pc EXCEPT ![r] = label], request' = request
  PROVE  Served' = Served
BY DEF TypeOK, Served

LEMMA HandTaken ==
  ASSUME TypeOK, NEW r \in Requests, NEW s \in Requests, held[r] = NoSession,
         held' = [held EXCEPT ![r] = s]
  PROVE  InHand' = InHand \cup {<<r, s>>}
BY RouterAssumption DEF TypeOK, InHand

LEMMA HandLeft ==
  ASSUME TypeOK, NEW r \in Requests, held[r] # NoSession,
         held' = [held EXCEPT ![r] = NoSession]
  PROVE  <<r, held[r]>> \in InHand /\ InHand' = InHand \ {<<r, held[r]>>}
BY DEF TypeOK, InHand

\* A call that leaves the map leaves the set of open calls: no other call of its
\* session is there.
LEMMA OpenClosed ==
  ASSUME SessionInOnePlace, NEW call \in calls, calls' = calls \ {call}
  PROVE  /\ <<call.session, call.key[2]>> \in Open
         /\ Open' = Open \ {<<call.session, call.key[2]>>}
BY DEF SessionInOnePlace, Open

LEMMA ArriveAsks ==
  ASSUME IInv, NEW r \in Requests, Arrive(r)
  PROVE  Conversation!Ask(r)
<1>1. PICK content \in Content :
        /\ request' = [request EXCEPT ![r] = content]
        /\ IF content.tool = NoTool THEN Goto(r, "queued") ELSE Goto(r, "lookup")
  BY DEF Arrive
<1>2. pc[r] = "idle" /\ request[r] = <<>> /\ held' = held /\ calls' = calls
  BY DEF Arrive, IInv, HoldInv
<1>3. pc' = [pc EXCEPT ![r] = IF content.tool = NoTool THEN "queued" ELSE "lookup"]
  BY <1>1 DEF Goto
<1>4. Served' = Served
  BY <1>1, <1>2, <1>3 DEF Served, IInv, TypeOK
<1>5. InHand' = InHand /\ Open' = Open
  BY <1>2 DEF InHand, Open
<1> QED
  BY <1>1, <1>2, <1>4, <1>5 DEF Conversation!Ask

LEMMA ClaimAnswers ==
  ASSUME IInv, NEW r \in Requests, Claim(r)
  PROVE  \E call \in Open : Conversation!Answer(r, call)
<1>1. PICK call \in Named(Key(r)) :
        /\ call.route = request[r].route
        /\ calls' = calls \ {call}
        /\ held' = [held EXCEPT ![r] = call.session]
  BY DEF Claim
<1>2. /\ pc[r] = "lookup" /\ pc' = [pc EXCEPT ![r] = "queued"] /\ request' = request
      /\ held[r] = NoSession /\ request[r] \in Content /\ request[r].tool # NoTool
      /\ r \notin Served
  BY DEF Claim, Goto, IInv, HoldInv, TypeOK, Served
<1>3. /\ call \in calls /\ call.session \in Requests
      /\ call.key = <<request[r].claude, request[r].tool>>
      /\ request[call.session].claude = request[r].claude
      /\ request[call.session].route = request[r].route
  BY <1>1 DEF Named, Key, IInv, CallsInv, TypeOK, Call
<1>4. call.key[2] = request[r].tool
  BY <1>3
<1>5. Served' = Served \cup {r}
  BY <1>2, ServedGrows DEF IInv
<1>6. InHand' = InHand \cup {<<r, call.session>>}
  BY <1>1, <1>2, <1>3, HandTaken DEF IInv
<1>7. /\ <<call.session, request[r].tool>> \in Open
      /\ Open' = Open \ {<<call.session, request[r].tool>>}
  BY <1>1, <1>3, <1>4, OpenClosed DEF IInv
<1>8. Conversation!Waits(r)
  BY <1>2 DEF Conversation!Waits
<1>9. Conversation!Answer(r, <<call.session, request[r].tool>>)
  BY <1>2, <1>3, <1>5, <1>6, <1>7, <1>8 DEF Conversation!Answer
<1> QED
  BY <1>7, <1>9

LEMMA RefuseClaimRefuses ==
  ASSUME IInv, NEW r \in Requests, RefuseClaim(r)
  PROVE  Conversation!Refuse(r)
<1>1. /\ pc[r] = "lookup" /\ pc' = [pc EXCEPT ![r] = "finished"]
      /\ UNCHANGED <<request, held, calls>>
      /\ request[r] \in Content /\ r \notin Served
  BY DEF RefuseClaim, Goto, IInv, TypeOK, Served
<1>2. Served' = Served \cup {r}
  BY <1>1, ServedGrows DEF IInv
<1>3. InHand' = InHand /\ Open' = Open
  BY <1>1 DEF InHand, Open
<1> QED
  BY <1>1, <1>2, <1>3 DEF Conversation!Refuse, Conversation!Waits

LEMMA LaunchBegins ==
  ASSUME IInv, NEW r \in Requests, Launch(r)
  PROVE  Conversation!Begin(r) \/ Conversation!Refuse(r)
<1>1. /\ pc[r] = "launch" /\ held[r] = NoSession /\ UNCHANGED <<request, calls>>
      /\ request[r] \in Content /\ request[r].tool = NoTool /\ r \notin Served
  BY DEF Launch, IInv, HoldInv, TypeOK, Served
<1>2. Conversation!Waits(r)
  BY <1>1 DEF Conversation!Waits
<1>3. Open' = Open
  BY <1>1 DEF Open
<1>4. CASE held' = [held EXCEPT ![r] = r] /\ Goto(r, "run")
  <2>1. pc' = [pc EXCEPT ![r] = "run"]
    BY <1>4 DEF Goto
  <2>2. Served' = Served \cup {r}
    BY <1>1, <2>1, ServedGrows DEF IInv
  <2>3. InHand' = InHand \cup {<<r, r>>}
    BY <1>1, <1>4, HandTaken DEF IInv
  <2> QED
    BY <1>1, <1>2, <1>3, <2>2, <2>3 DEF Conversation!Begin
<1>5. CASE Leave(r, "error")
  <2>1. pc' = [pc EXCEPT ![r] = "return"] /\ held' = [held EXCEPT ![r] = NoSession]
    BY <1>5 DEF Leave, Goto
  <2>2. Served' = Served \cup {r}
    BY <1>1, <2>1, ServedGrows DEF IInv
  <2>3. InHand' = InHand
    BY <1>1, <2>1 DEF IInv, TypeOK, InHand
  <2> QED
    BY <1>1, <1>2, <1>3, <2>2, <2>3 DEF Conversation!Refuse
<1> QED
  BY <1>4, <1>5 DEF Launch

\* A turn that ends without a retained call gives up the conversation.
LEMMA LeaveEnds ==
  ASSUME IInv, NEW r \in Requests, pc[r] \in {"run", "retain"}, NEW result, Leave(r, result),
         UNCHANGED <<request, calls>>
  PROVE  \E hand \in InHand : Conversation!End(hand)
<1>1. /\ pc' = [pc EXCEPT ![r] = "return"] /\ held' = [held EXCEPT ![r] = NoSession]
      /\ held[r] \in Requests /\ held[r] # NoSession /\ r \in Served
  BY RouterAssumption DEF Leave, Goto, IInv, HoldInv, TypeOK, Served
<1>2. Served' = Served
  BY <1>1, ServedStays DEF IInv
<1>3. <<r, held[r]>> \in InHand /\ InHand' = InHand \ {<<r, held[r]>>}
  BY <1>1, HandLeft DEF IInv
<1>4. Open' = Open
  BY DEF Open
<1> QED
  BY <1>1, <1>2, <1>3, <1>4 DEF Conversation!End

LEMMA RetainStops ==
  ASSUME IInv, NEW r \in Requests, Retain(r)
  PROVE  \E hand \in InHand : Conversation!Stop(hand) \/ Conversation!End(hand)
<1>1. /\ pc[r] = "retain" /\ request' = request /\ held[r] \in Requests
      /\ held[r] # NoSession /\ r \in Served /\ lastCall[held[r]] \in ToolIds
      /\ request[held[r]].claude = request[r].claude
  BY RouterAssumption DEF Retain, IInv, HoldInv, TypeOK, ContinuesItsOwnTurn, Served
<1>2. CASE Leave(r, "error") /\ UNCHANGED calls
  BY <1>1, <1>2, LeaveEnds
<1>3. CASE Named(CallKey(r)) = {} /\ calls' = calls \cup {NewCall(r)} /\ Retained(r)
  <2>1. pc' = [pc EXCEPT ![r] = "return"] /\ held' = [held EXCEPT ![r] = NoSession]
    BY <1>3 DEF Retained, Leave, Goto
  <2>2. Served' = Served
    BY <1>1, <2>1, ServedStays DEF IInv
  <2>3. <<r, held[r]>> \in InHand /\ InHand' = InHand \ {<<r, held[r]>>}
    BY <1>1, <2>1, HandLeft DEF IInv
  <2>4. NewCall(r).session = held[r] /\ NewCall(r).key[2] = lastCall[held[r]]
    BY DEF NewCall, CallKey
  <2>5. Open' = Open \cup {<<held[r], lastCall[held[r]]>>}
    BY <1>3, <2>4 DEF Open
  <2>6. ASSUME NEW pair \in Open, pair[2] = lastCall[held[r]]
        PROVE  request[pair[1]].claude # request[held[r]].claude
    <3>1. PICK call \in calls : pair = <<call.session, call.key[2]>>
      BY DEF Open
    <3>2. call.key = <<request[call.session].claude, call.key[2]>>
      BY DEF IInv, CallsInv
    <3>3. call.key # <<request[r].claude, lastCall[held[r]]>>
      BY <1>3 DEF Named, CallKey
    <3> QED
      BY <1>1, <2>6, <3>1, <3>2, <3>3
  <2>7. Conversation!Stop(<<r, held[r]>>)
    BY <1>1, <2>2, <2>3, <2>5, <2>6 DEF Conversation!Stop
  <2> QED
    BY <2>3, <2>7
<1> QED
  BY <1>2, <1>3 DEF Retain

\* A timer ends one call or, when its call is gone, none.
LEMMA TimerForgets ==
  ASSUME IInv, NEW timer \in timers, TimerFires(timer)
  PROVE  \/ \E pair \in Open : Conversation!Forget(pair)
         \/ UNCHANGED Conversation!conversationVars
<1>1. /\ calls' = {c \in calls : c.key # timer.key \/ c.expiry # timer.expiry}
      /\ UNCHANGED <<pc, request, held>>
  BY DEF TimerFires
<1>2. Served' = Served /\ InHand' = InHand
  BY <1>1 DEF Served, InHand
<1>3. CASE calls' = calls
  BY <1>1, <1>2, <1>3 DEF Open, Conversation!conversationVars
<1>4. ASSUME NEW call \in calls, call \notin calls'
      PROVE  \E pair \in Open : Conversation!Forget(pair)
  <2>1. call.key = timer.key /\ call.expiry = timer.expiry
    BY <1>1, <1>4
  <2>2. calls' = calls \ {call}
    BY <1>1, <2>1 DEF IInv, SessionInOnePlace
  <2>3. /\ <<call.session, call.key[2]>> \in Open
        /\ Open' = Open \ {<<call.session, call.key[2]>>}
    BY <2>2, OpenClosed DEF IInv
  <2> QED
    BY <1>1, <1>2, <2>3 DEF Conversation!Forget
<1>5. calls' \subseteq calls
  BY <1>1
<1> QED
  BY <1>3, <1>4, <1>5

\* Admission changes who runs, and the end of a turn what it stopped at.
LEMMA AdmitIsSilent ==
  ASSUME IInv, NEW r \in Requests, Admit(r)
  PROVE  UNCHANGED Conversation!conversationVars
<1>1. /\ pc[r] = "queued" /\ UNCHANGED <<request, held, calls>>
      /\ pc' = [pc EXCEPT ![r] = IF request[r].tool = NoTool THEN "launch" ELSE "run"]
  BY DEF Admit, Goto
<1>2. Served' = Served
  BY <1>1 DEF Served, IInv, TypeOK
<1> QED
  BY <1>1, <1>2 DEF InHand, Open, Conversation!conversationVars

LEMMA StepConverses ==
  ASSUME IInv, [Next]_vars
  PROVE  [Conversation!Next]_(Conversation!conversationVars)
<1>1. ASSUME NEW r \in Requests, TurnEnds(r)
      PROVE  [Conversation!Next]_(Conversation!conversationVars)
  <2>1. pc[r] = "run" /\ UNCHANGED <<request, calls>> /\ r \in Served
    BY <1>1 DEF TurnEnds, Served
  <2>2. CASE \E result \in {"text", "error"} : Leave(r, result)
    BY <2>1, <2>2, LeaveEnds DEF Conversation!Next
  <2>3. CASE Goto(r, "retain") /\ UNCHANGED held
    <3>1. Served' = Served
      BY <2>1, <2>3, ServedStays DEF Goto, IInv
    <3> QED
      BY <2>1, <2>3, <3>1 DEF InHand, Open, Conversation!conversationVars
  <2> QED
    BY <1>1, <2>2, <2>3 DEF TurnEnds
<1>2. ASSUME NEW r \in Requests, Return(r)
      PROVE  UNCHANGED Conversation!conversationVars
  <2>1. /\ pc[r] = "return" /\ UNCHANGED <<request, held, calls>> /\ r \in Served
        /\ pc' = [pc EXCEPT ![r] = "finished"]
    BY <1>2 DEF Return, Goto, Served
  <2>2. Served' = Served
    BY <2>1, ServedStays DEF IInv
  <2> QED
    BY <2>1, <2>2 DEF InHand, Open, Conversation!conversationVars
<1>3. ASSUME NEW r \in Requests, Arrive(r) \/ RefuseClaim(r) \/ Launch(r)
      PROVE  Conversation!Next
  BY <1>3, ArriveAsks, RefuseClaimRefuses, LaunchBegins DEF Conversation!Next
<1>4. ASSUME NEW r \in Requests, Claim(r) \/ Retain(r)
      PROVE  Conversation!Next
  BY <1>4, ClaimAnswers, RetainStops DEF Conversation!Next
<1>5. CASE TimerStep
  BY <1>5, TimerForgets DEF TimerStep, Conversation!Next
<1>6. CASE UNCHANGED vars
  BY <1>6 DEF vars, Served, InHand, Open, Conversation!conversationVars
<1> QED
  BY <1>1, <1>2, <1>3, <1>4, <1>5, <1>6, AdmitIsSilent DEF Next, RequestStep, Quiet

LEMMA InitConverses == Init => Conversation!Init
BY DEF Init, Conversation!Init, Served, InHand, Open

\* ModelRouter implements ToolConversation: for any number of requests, names and
\* permits, every step of a request or of a timer is a step of the conversations
\* or leaves them alone, so one is never shared, crossed, lost to another's tool
\* call or brought back.
THEOREM ConversationsAreKept == Spec => KeepsConversations
<1>1. IInv /\ [Next]_vars => [Conversation!Next]_(Conversation!conversationVars)
  BY StepConverses
<1> QED
  BY <1>1, InitConverses, Invariant, PTL DEF Spec, KeepsConversations, Conversation!Spec
=============================================================================
