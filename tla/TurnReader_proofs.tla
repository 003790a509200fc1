------------------------- MODULE TurnReader_proofs -------------------------
(***************************************************************************)
(* For all ceilings and texts: the reader of a turn implements TurnOutput, *)
(* text is either handed over whole or known to be cut, errors are not     *)
(* forgotten, and the usage that is reported is final.                     *)
(*                                                                         *)
(* The invariant is the account of the text: what was received is what was *)
(* written and what is still pending, until a cut, after which nothing is  *)
(* pending and something was withheld.                                     *)
(***************************************************************************)
EXTENDS TurnReader, TLAPS

\* A failed read keeps no account: its text was refused or was not decoded.
Account ==
  verdict # "failed" =>
    IF reached THEN pending = 0 /\ written < received
    ELSE received = written + pending

\* The verdict is given exactly when the read returns, and fits the account.
VerdictInv ==
  /\ verdict = "none" <=> pc # "returned"
  /\ pc = "interrupt" => reached
  /\ verdict \in {"tool", "endTurn"} => ~reached /\ pending = 0
  /\ verdict = "limit" => reached

TextInv == TypeOK /\ Account /\ VerdictInv

-----------------------------------------------------------------------------
(* The limiter.                                                            *)

\* A truncation stays within the ceiling and withholds something.
LEMMA TruncateFact ==
  ASSUME TypeOK, NEW units \in Nat, Truncate(units)
  PROVE  /\ emitted' \in emitted..limit
         /\ written' \in Nat /\ written' < written + units
         /\ pending' = 0 /\ reached' = TRUE
<1>1. limit \in Nat /\ emitted \in Nat /\ emitted <= limit /\ written \in Nat
  BY TurnAssumption DEF TypeOK
<1>2. PICK tokens \in 0..(limit - emitted), part \in 0..(units - 1) :
        written' = written + part /\ emitted' = emitted + tokens
  BY DEF Truncate, Emit, Remaining
<1> QED
  BY <1>1, <1>2 DEF Truncate

\* What emit_delta does with the text in hand.
LEMMA EmitStableFact ==
  ASSUME TypeOK, ~reached, NEW text \in Nat, EmitStable(text)
  PROVE  /\ emitted' \in emitted..limit
         /\ written' \in Nat /\ pending' \in Nat
         /\ \/ reached' = FALSE /\ pc' = pc /\ written' + pending' = written + text
            \/ reached' = TRUE /\ pc' = "interrupt" /\ pending' = 0
               /\ written' < written + text
<1>1. limit \in Nat /\ emitted \in Nat /\ emitted <= limit /\ written \in Nat
  BY TurnAssumption DEF TypeOK
<1>2. CASE pending' = text /\ UNCHANGED <<emitted, written, reached, pc>>
  BY <1>1, <1>2 DEF TypeOK
<1>3. ASSUME NEW units \in 1..text, NEW tokens \in 1..units, tokens <= Remaining,
             Emit(units, tokens), pending' = text - units, UNCHANGED <<reached, pc>>
      PROVE  /\ emitted' \in emitted..limit
             /\ written' \in Nat /\ pending' \in Nat
             /\ reached' = FALSE /\ pc' = pc /\ written' + pending' = written + text
  BY <1>1, <1>3 DEF Emit, Remaining, TypeOK
<1>4. ASSUME NEW units \in 1..text, Truncate(units), pc' = "interrupt"
      PROVE  /\ emitted' \in emitted..limit
             /\ written' \in Nat /\ pending' \in Nat
             /\ reached' = TRUE /\ pc' = "interrupt" /\ pending' = 0
             /\ written' < written + text
  <2>1. units \in Nat /\ units <= text
    OBVIOUS
  <2>2. /\ emitted' \in emitted..limit /\ pending' = 0 /\ reached' = TRUE
        /\ written' \in Nat /\ written' < written + units
    BY <1>4, <2>1, TruncateFact
  <2> QED
    BY <1>1, <1>4, <2>1, <2>2
<1> QED
  BY <1>2, <1>3, <1>4 DEF EmitStable

\* What resolve_pending does with the text held back.
LEMMA ResolvePendingFact ==
  ASSUME TypeOK, ResolvePending
  PROVE  /\ emitted' \in emitted..limit
         /\ written' \in Nat /\ pending' = 0
         /\ \/ reached' = reached /\ written' = written + pending
            \/ reached' = TRUE /\ pending # 0 /\ written' < written + pending
<1>1. limit \in Nat /\ emitted \in Nat /\ emitted <= limit /\ written \in Nat /\ pending \in Nat
  BY TurnAssumption DEF TypeOK
<1>2. CASE pending = 0 /\ UNCHANGED <<emitted, written, pending, reached>>
  BY <1>1, <1>2
<1>3. ASSUME NEW tokens \in 1..pending, tokens <= Remaining, Emit(pending, tokens),
             pending' = 0, UNCHANGED reached
      PROVE  /\ emitted' \in emitted..limit
             /\ written' \in Nat /\ pending' = 0
             /\ reached' = reached /\ written' = written + pending
  BY <1>1, <1>3 DEF Emit, Remaining
<1>4. ASSUME NEW tokens \in 1..pending, Truncate(pending)
      PROVE  /\ emitted' \in emitted..limit
             /\ written' \in Nat /\ pending' = 0
             /\ reached' = TRUE /\ pending # 0 /\ written' < written + pending
  <2>1. /\ emitted' \in emitted..limit /\ pending' = 0 /\ reached' = TRUE
        /\ written' \in Nat /\ written' < written + pending
    BY <1>1, <1>4, TruncateFact
  <2> QED
    BY <1>1, <1>4, <2>1
<1> QED
  BY <1>2, <1>3, <1>4 DEF ResolvePending

-----------------------------------------------------------------------------
(* The invariant.                                                          *)

\* What an event of each kind carries.
LEMMA EventFacts ==
  ASSUME TypeOK, NEW kind \in {"delta", "usage", "tool", "item", "error", "invalid", "completed"},
         Reads(kind)
  PROVE  /\ stream' \in Seq(Events)
         /\ kind = "delta" => Head(stream).units \in Nat \ {0}
         /\ kind = "usage" => Head(stream).covers \in 0..MaxContent
         /\ kind = "error" => Head(stream).willRetry \in BOOLEAN
<1>1. Head(stream) \in Events /\ stream' \in Seq(Events)
  BY DEF TypeOK, Reads
<1>2. Head(stream).kind = kind
  BY DEF Reads
<1> QED
  BY <1>1, <1>2, TurnAssumption DEF Events, Delta, Usage, Tool, Item, Invalid, Fault, Ended

LEMMA ServerKeeps ==
  ASSUME TextInv, ServerStep
  PROVE  TextInv' /\ UNCHANGED Output!outputVars
<1>1. UNCHANGED readerVars
  BY DEF ServerStep, ServerContent, ServerReports, ServerMisbehaves, ServerCompletes
<1>2. /\ stream' \in Seq(Events) /\ produced' \in 0..MaxContent
      /\ server' \in {"running", "waiting", "stopping", "over"}
  <2>1. ASSUME NEW e \in Events, Sends(e)
        PROVE  stream' \in Seq(Events)
    BY <2>1 DEF TextInv, TypeOK, Sends
  <2>2. CASE ServerContent
    <3>1. Tool \in Events /\ \A n \in 1..MaxUnits : Delta(n) \in Events
      BY DEF Events
    <3> QED
      BY <2>1, <2>2, <3>1, TurnAssumption DEF ServerContent, TextInv, TypeOK
  <2>3. CASE ServerReports
    <3>1. Usage(produced) \in Events /\ Item \in Events /\ \A r \in BOOLEAN : Fault(r) \in Events
      BY DEF Events, TextInv, TypeOK
    <3> QED
      BY <2>1, <2>3, <3>1 DEF ServerReports, TextInv, TypeOK, serverVars
  <2>4. CASE ServerMisbehaves
    <3>1. Invalid \in Events
      BY DEF Events
    <3> QED
      BY <2>1, <2>4, <3>1 DEF ServerMisbehaves, TextInv, TypeOK, serverVars
  <2>5. CASE ServerCompletes
    <3>1. \A s \in Statuses : Ended(s) \in Events
      BY DEF Events
    <3> QED
      BY <2>1, <2>5, <3>1 DEF ServerCompletes, TextInv, TypeOK
  <2> QED
    BY <2>2, <2>3, <2>4, <2>5 DEF ServerStep
<1> QED
  BY <1>1, <1>2 DEF TextInv, TypeOK, Account, VerdictInv, readerVars, limiterVars, historyVars,
     Output!outputVars

\* Turning an unsuccessful read into a verdict needs no account.
LEMMA FailureKeeps ==
  ASSUME TextInv, pc \in {"read", "interrupt"}, Returns("failed"), TypeOK',
         UNCHANGED limiterVars
  PROVE  TextInv' /\ Output!Next
<1>1. TextInv'
  BY DEF TextInv, Account, VerdictInv, Returns
<1>2. Output!Proceed
  BY TurnAssumption DEF TextInv, TypeOK, VerdictInv, Returns, limiterVars, Output!Proceed,
     Output!Verdicts
<1> QED
  BY <1>1, <1>2 DEF Output!Next

\* Steps that give no verdict and hand over nothing.
LEMMA QuietKeeps ==
  ASSUME TextInv, TypeOK', UNCHANGED <<limiterVars, verdict, received, written>>,
         pc' = pc \/ (pc = "interrupt" /\ pc' = "read")
  PROVE  TextInv' /\ UNCHANGED Output!outputVars
BY DEF TextInv, Account, VerdictInv, limiterVars, Output!outputVars

LEMMA ReadDeltaKeeps ==
  ASSUME TextInv, ReadDelta
  PROVE  TextInv' /\ [Output!Next]_Output!outputVars
<1> DEFINE n == Head(stream).units
<1>1. n \in Nat \ {0} /\ stream' \in Seq(Events)
  BY EventFacts DEF ReadDelta, TextInv
<1>2. /\ pc = "read" /\ verdict = "none"
      /\ received' = received + n /\ received \in Nat /\ written \in Nat /\ pending \in Nat
      /\ UNCHANGED <<limit, fatalError, serverVars, before, fatalSeen>>
      /\ usage' = <<>> /\ epochOpen' = TRUE
  BY DEF ReadDelta, Reads, TextInv, TypeOK, VerdictInv, EmitStable, limiterVars
<1>3. CASE reached /\ UNCHANGED <<limiterVars, written, pc, verdict>>
  <2>1. TypeOK'
    BY <1>1, <1>2, <1>3 DEF TextInv, TypeOK, limiterVars, serverVars
  <2>2. Account' /\ VerdictInv'
    BY <1>1, <1>2, <1>3 DEF TextInv, Account, VerdictInv, limiterVars
  <2> QED
    BY <1>3, <2>1, <2>2 DEF TextInv, Output!outputVars, limiterVars
<1>4. CASE ~reached /\ EmitStable(pending + n) /\ UNCHANGED <<limit, verdict>>
  <2>0. pending + n \in Nat /\ reached = FALSE
    BY <1>1, <1>2, <1>4 DEF TextInv, TypeOK
  <2>1. /\ emitted' \in emitted..limit /\ written' \in Nat /\ pending' \in Nat
        /\ \/ reached' = FALSE /\ pc' = pc /\ written' + pending' = written + (pending + n)
           \/ reached' = TRUE /\ pc' = "interrupt" /\ pending' = 0
              /\ written' < written + (pending + n)
    BY <1>4, <2>0, EmitStableFact DEF TextInv
  <2>2. limit \in Nat /\ emitted \in Nat /\ emitted <= limit /\ limit' = limit
    BY <1>4, TurnAssumption DEF TextInv, TypeOK
  <2>3. TypeOK'
    <3>1. emitted' \in 0..limit'
      BY <2>1, <2>2
    <3>2. received' \in Nat
      BY <1>1, <1>2
    <3> QED
      BY <1>1, <1>2, <1>4, <2>1, <3>1, <3>2 DEF TextInv, TypeOK, serverVars
  <2>4. Account' /\ VerdictInv'
    BY <1>1, <1>2, <1>4, <2>1 DEF TextInv, Account, VerdictInv
  <2>5. Output!Proceed
    <3>1. emitted' \in emitted..limit /\ reached' \in {reached, TRUE} /\ verdict' = "none"
      BY <1>2, <1>4, <2>0, <2>1
    <3> QED
      BY <1>2, <2>0, <2>2, <3>1 DEF Output!Proceed
  <2> QED
    BY <2>3, <2>4, <2>5 DEF TextInv, Output!Next
<1>5. CASE ~reached /\ Returns("failed") /\ UNCHANGED <<limiterVars, written>>
  <2>1. TypeOK'
    BY <1>1, <1>2, <1>5 DEF TextInv, TypeOK, Returns, limiterVars, serverVars
  <2> QED
    BY <1>2, <1>5, <2>1, FailureKeeps
<1> QED
  BY <1>3, <1>4, <1>5 DEF ReadDelta

LEMMA ReadToolKeeps ==
  ASSUME TextInv, ReadTool
  PROVE  TextInv' /\ [Output!Next]_Output!outputVars
<1>1. stream' \in Seq(Events)
  BY EventFacts DEF ReadTool, TextInv
<1>2. /\ pc = "read" /\ verdict = "none"
      /\ received \in Nat /\ written \in Nat /\ pending \in Nat
      /\ UNCHANGED <<limit, received, fatalError, serverVars, before, fatalSeen>>
      /\ usage' = <<>> /\ epochOpen' = TRUE
  BY DEF ReadTool, Reads, TextInv, TypeOK, VerdictInv, limiterVars
<1>3. CASE reached /\ UNCHANGED <<limiterVars, written, pc, verdict>>
  <2>1. TypeOK'
    BY <1>1, <1>2, <1>3 DEF TextInv, TypeOK, limiterVars, serverVars
  <2> QED
    BY <1>2, <1>3, <2>1, QuietKeeps
<1>4. CASE /\ ~reached /\ ResolvePending
           /\ IF reached' THEN pc' = "interrupt" /\ UNCHANGED verdict ELSE Returns("tool")
  <2>1. /\ emitted' \in emitted..limit /\ written' \in Nat /\ pending' = 0
        /\ \/ reached' = reached /\ written' = written + pending
           \/ reached' = TRUE /\ written' < written + pending
    BY <1>4, ResolvePendingFact DEF TextInv
  <2>2. limit \in Nat /\ emitted \in Nat /\ emitted <= limit
    BY TurnAssumption DEF TextInv, TypeOK
  <2>3. /\ reached = FALSE
        /\ \/ reached' = TRUE /\ pc' = "interrupt" /\ verdict' = "none"
              /\ written' < written + pending
           \/ reached' = FALSE /\ pc' = "returned" /\ verdict' = "tool"
              /\ written' = written + pending
    BY <1>2, <1>4, <2>1 DEF Returns, TextInv, TypeOK
  <2>4. TypeOK'
    <3>1. emitted' \in 0..limit' /\ pending' \in Nat
      BY <1>2, <2>1, <2>2
    <3> QED
      BY <1>1, <1>2, <2>1, <2>3, <3>1 DEF TextInv, TypeOK, serverVars
  <2>5. Account' /\ VerdictInv'
    <3>1. received = written + pending
      BY <1>2, <2>3 DEF TextInv, Account
    <3>2. received' = received
      BY <1>2
    <3>3. CASE reached' = TRUE /\ verdict' = "none" /\ written' < written + pending
      <4>1. written' < received'
        BY <3>1, <3>2, <3>3
      <4>2. Account'
        BY <2>1, <3>3, <4>1 DEF Account
      <4>3. VerdictInv'
        BY <2>1, <2>3, <3>3 DEF VerdictInv
      <4> QED
        BY <4>2, <4>3
    <3>4. CASE reached' = FALSE /\ verdict' = "tool" /\ written' = written + pending
      <4>1. received' = written' + pending'
        BY <1>2, <2>1, <3>1, <3>2, <3>4
      <4>2. Account'
        BY <2>1, <3>4, <4>1 DEF Account
      <4>3. VerdictInv'
        BY <2>1, <2>3, <3>4 DEF VerdictInv
      <4> QED
        BY <4>2, <4>3
    <3> QED
      BY <2>3, <3>3, <3>4
  <2>6. Output!Proceed
    BY <1>2, <1>4, <2>1, <2>2, <2>3 DEF Output!Proceed, Output!Verdicts
  <2> QED
    BY <2>4, <2>5, <2>6 DEF TextInv, Output!Next
<1>5. CASE ~reached /\ pending # 0 /\ Returns("failed") /\ UNCHANGED <<limiterVars, written>>
  <2>1. TypeOK'
    BY <1>1, <1>2, <1>5 DEF TextInv, TypeOK, Returns, limiterVars, serverVars
  <2> QED
    BY <1>2, <1>5, <2>1, FailureKeeps
<1> QED
  BY <1>3, <1>4, <1>5 DEF ReadTool

LEMMA ReadCompletedKeeps ==
  ASSUME TextInv, ReadCompleted
  PROVE  TextInv' /\ [Output!Next]_Output!outputVars
<1> DEFINE status == Head(stream).status
<1>1. stream' \in Seq(Events)
  BY EventFacts DEF ReadCompleted, TextInv
<1>2. /\ pc = "read" /\ verdict = "none"
      /\ received \in Nat /\ written \in Nat /\ pending \in Nat
      /\ UNCHANGED <<received, usage, epochOpen, fatalError, serverVars, before, fatalSeen>>
  BY DEF ReadCompleted, Reads, TextInv, TypeOK, VerdictInv
<1>3. CASE Returns("failed") /\ UNCHANGED <<limiterVars, written>>
  <2>1. TypeOK'
    BY <1>1, <1>2, <1>3 DEF TextInv, TypeOK, Returns, limiterVars, serverVars
  <2> QED
    BY <1>2, <1>3, <2>1, FailureKeeps
<1>4. CASE /\ ResolvePending /\ UNCHANGED limit
           /\ Returns(IF usage = <<>> /\ emitted' # 0 THEN "failed"
                      ELSE IF reached' THEN "limit" ELSE "endTurn")
  <2>1. /\ emitted' \in emitted..limit /\ written' \in Nat /\ pending' = 0
        /\ \/ reached' = reached /\ written' = written + pending
           \/ reached' = TRUE /\ pending # 0 /\ written' < written + pending
    BY <1>4, ResolvePendingFact DEF TextInv
  <2>2. limit \in Nat /\ emitted \in Nat /\ emitted <= limit
    BY TurnAssumption DEF TextInv, TypeOK
  <2>3. /\ pc' = "returned" /\ reached' \in BOOLEAN
        /\ verdict' \in {"failed", "limit", "endTurn"}
        /\ verdict' = "limit" => reached'
        /\ verdict' = "endTurn" => ~reached'
    BY <1>4, <2>1 DEF Returns, TextInv, TypeOK
  <2>4. TypeOK'
    BY <1>1, <1>2, <1>4, <2>1, <2>2, <2>3 DEF TextInv, TypeOK, serverVars
  <2>5. Account'
    <3>1. CASE reached
      <4>1. pending = 0 /\ written < received
        BY <1>2, <3>1 DEF TextInv, Account
      <4>2. written' = written /\ reached'
        BY <1>2, <2>1, <3>1, <4>1
      <4> QED
        BY <1>2, <2>1, <4>1, <4>2 DEF Account
    <3>2. CASE ~reached
      <4>1. received = written + pending
        BY <1>2, <3>2 DEF TextInv, Account
      <4>2. received' = received
        BY <1>2
      <4>3. CASE reached' = reached /\ written' = written + pending
        <5>1. received' = written' + pending'
          BY <1>2, <2>1, <4>1, <4>2, <4>3
        <5> QED
          BY <2>1, <3>2, <4>3, <5>1 DEF Account
      <4>4. CASE reached' = TRUE /\ written' < written + pending
        <5>1. written' < received'
          BY <4>1, <4>2, <4>4
        <5> QED
          BY <2>1, <4>4, <5>1 DEF Account
      <4> QED
        BY <2>1, <4>3, <4>4
    <3> QED
      BY <3>1, <3>2
  <2>6. VerdictInv'
    BY <2>1, <2>3 DEF VerdictInv
  <2>7. reached => emitted' = emitted /\ reached'
    BY <1>2, <1>4, <2>1 DEF ResolvePending, TextInv, Account
  <2>8. Output!Proceed
    <3>1. verdict' \in Output!Verdicts(reached')
      BY <2>3 DEF Output!Verdicts
    <3>2. reached' \in {reached, TRUE}
      BY <2>1
    <3> QED
      BY <1>2, <1>4, <2>1, <2>2, <2>7, <3>1, <3>2 DEF Output!Proceed
  <2> QED
    BY <2>4, <2>5, <2>6, <2>8 DEF TextInv, Output!Next
<1>5. CASE /\ UNCHANGED <<limiterVars, written>>
           /\ Returns(IF status = "interrupted" /\ reached THEN "limit" ELSE "failed")
  <2>1. TypeOK'
    BY <1>1, <1>2, <1>5 DEF TextInv, TypeOK, Returns, limiterVars, serverVars
  <2>2. CASE status = "interrupted" /\ reached
    <3>1. pc' = "returned" /\ verdict' = "limit"
      BY <1>5, <2>2 DEF Returns
    <3>2. Account' /\ VerdictInv'
      BY <1>2, <1>5, <2>2, <3>1 DEF TextInv, Account, VerdictInv, limiterVars
    <3>3. Output!Proceed
      BY <1>2, <1>5, <2>2, <3>1, TurnAssumption
      DEF TextInv, TypeOK, limiterVars, Output!Proceed, Output!Verdicts
    <3> QED
      BY <2>1, <3>2, <3>3 DEF TextInv, Output!Next
  <2>3. CASE ~(status = "interrupted" /\ reached)
    BY <1>2, <1>5, <2>1, <2>3, FailureKeeps
  <2> QED
    BY <2>2, <2>3
<1> QED
  BY <1>3, <1>4, <1>5 DEF ReadCompleted

LEMMA ContinueKeeps ==
  ASSUME TextInv, ContinueTool \/ ContinueFails
  PROVE  TextInv' /\ [Output!Next]_Output!outputVars
<1>1. CASE ContinueTool
  <2>1. TypeOK'
    <3>1. limit' \in Nat /\ 0 \in 0..limit'
      BY <1>1, TurnAssumption DEF ContinueTool
    <3>2. server' \in {"running", "waiting", "stopping", "over"}
      BY <1>1 DEF TextInv, TypeOK, ContinueTool
    <3> QED
      BY <1>1, <3>1, <3>2 DEF TextInv, TypeOK, ContinueTool
  <2>2. Account' /\ VerdictInv'
    BY <1>1 DEF ContinueTool, Account, VerdictInv
  <2>3. Output!Resume
    BY <1>1 DEF ContinueTool, Output!Resume
  <2> QED
    BY <2>1, <2>2, <2>3 DEF TextInv, Output!Next
<1>2. CASE ContinueFails
  BY <1>2 DEF ContinueFails, TextInv, TypeOK, Account, VerdictInv, limiterVars, serverVars,
     historyVars, Output!GiveUp, Output!Next
<1> QED
  BY <1>1, <1>2

LEMMA StepKeeps ==
  ASSUME TextInv, [Next]_vars
  PROVE  TextInv' /\ [Output!Next]_Output!outputVars
<1>1. CASE ReadUsage
  <2>1. TypeOK'
    <3>1. Head(stream).covers \in 0..MaxContent /\ stream' \in Seq(Events)
      BY <1>1, EventFacts DEF ReadUsage, TextInv
    <3>2. usage' \in {<<>>} \cup {<<n>> : n \in 0..MaxContent}
      BY <1>1, <3>1 DEF ReadUsage, TextInv, TypeOK
    <3> QED
      BY <1>1, <3>1, <3>2
      DEF ReadUsage, TextInv, TypeOK, limiterVars, serverVars, historyVars
  <2> QED
    BY <1>1, <2>1, QuietKeeps DEF ReadUsage, historyVars
<1>2. CASE ReadItem
  <2>1. TypeOK'
    BY <1>2, EventFacts DEF ReadItem, TextInv, TypeOK, limiterVars, serverVars, historyVars
  <2> QED
    BY <1>2, <2>1, QuietKeeps DEF ReadItem, historyVars
<1>3. CASE ReadError
  <2>1. TypeOK'
    <3>1. stream' \in Seq(Events) /\ fatalError' \in BOOLEAN /\ fatalSeen' \in {"no", "thisRead", "earlier"}
      BY <1>3, EventFacts DEF ReadError, TextInv, TypeOK
    <3> QED
      BY <1>3, <3>1 DEF ReadError, TextInv, TypeOK, limiterVars, serverVars
  <2> QED
    BY <1>3, <2>1, QuietKeeps DEF ReadError
<1>4. CASE ReadInvalid
  <2>1. TypeOK'
    BY <1>4, EventFacts
    DEF ReadInvalid, Returns, TextInv, TypeOK, limiterVars, serverVars, historyVars
  <2> QED
    BY <1>4, <2>1, FailureKeeps DEF ReadInvalid, Reads
<1>5. CASE InterruptAccepted
  <2>1. TypeOK'
    BY <1>5 DEF InterruptAccepted, TextInv, TypeOK, limiterVars, historyVars
  <2> QED
    BY <1>5, <2>1, QuietKeeps DEF InterruptAccepted, historyVars
<1>6. CASE InterruptRefused
  <2>1. TypeOK'
    BY <1>6 DEF InterruptRefused, Returns, TextInv, TypeOK, limiterVars, serverVars, historyVars
  <2> QED
    BY <1>6, <2>1, FailureKeeps DEF InterruptRefused
<1>7. CASE ReadFails
  <2>1. TypeOK'
    BY <1>7 DEF ReadFails, Returns, TextInv, TypeOK, limiterVars, serverVars, historyVars
  <2> QED
    BY <1>7, <2>1, FailureKeeps DEF ReadFails
<1>8. CASE UNCHANGED vars
  BY <1>8 DEF vars, limiterVars, serverVars, historyVars, TextInv, TypeOK, Account, VerdictInv,
     Output!outputVars
<1> QED
  BY <1>1, <1>2, <1>3, <1>4, <1>5, <1>6, <1>7, <1>8, ServerKeeps, ReadDeltaKeeps,
     ReadToolKeeps, ReadCompletedKeeps, ContinueKeeps
  DEF Next, ReaderStep, Finished

LEMMA InitInv == Init => TextInv /\ Output!Init
<1> SUFFICES ASSUME Init
             PROVE  TextInv /\ Output!Init
  OBVIOUS
<1>1. limit \in Nat /\ 0 \in 0..limit /\ 0 \in 0..MaxContent
  BY TurnAssumption DEF Init
<1>2. stream \in Seq(Events) /\ usage \in {<<>>}
  BY DEF Init
<1>3. TypeOK
  BY <1>1, <1>2 DEF Init, TypeOK
<1> QED
  BY <1>3 DEF Init, TextInv, Account, VerdictInv, Output!Init

-----------------------------------------------------------------------------
(* Errors.  The flag the code keeps agrees with what was read, and it is     *)
(* looked at before the status of the turn.                                  *)

FatalInv == fatalError = (fatalSeen = "thisRead") /\ FatalWinsAtTheEnd

LEMMA StepKeepsFatal ==
  ASSUME TextInv, FatalInv, [Next]_vars
  PROVE  FatalInv'
<1>1. verdict = "none" <=> pc # "returned"
  BY DEF TextInv, VerdictInv
<1>2. CASE ReadError
  BY <1>1, <1>2 DEF ReadError, Reads, FatalInv, FatalWinsAtTheEnd
<1>3. CASE ReadCompleted
  <2>1. fatalError' = fatalError /\ fatalSeen' = fatalSeen
    BY <1>3 DEF ReadCompleted
  <2>2. fatalError => verdict' = "failed"
    BY <1>3 DEF ReadCompleted, Returns
  <2> QED
    BY <2>1, <2>2 DEF FatalInv, FatalWinsAtTheEnd
<1>4. CASE ContinueTool
  BY <1>4 DEF ContinueTool, FatalInv, FatalWinsAtTheEnd
<1>5. CASE ServerStep
  BY <1>5 DEF ServerStep, ServerContent, ServerReports, ServerMisbehaves, ServerCompletes,
     readerVars, historyVars, FatalInv, FatalWinsAtTheEnd
<1>6. CASE ReadDelta \/ ReadTool
  <2>1. fatalError' = fatalError /\ fatalSeen' = fatalSeen
    BY <1>6 DEF ReadDelta, ReadTool
  <2>2. verdict' \in {verdict, "failed", "tool"}
    BY <1>6 DEF ReadDelta, ReadTool, Returns
  <2> QED
    BY <2>1, <2>2 DEF FatalInv, FatalWinsAtTheEnd
<1>7. CASE \/ ReadUsage \/ ReadItem \/ ReadInvalid \/ InterruptAccepted \/ InterruptRefused
           \/ ReadFails \/ ContinueFails \/ UNCHANGED vars
  BY <1>7 DEF ReadUsage, ReadItem, ReadInvalid, InterruptAccepted, InterruptRefused, ReadFails,
     ContinueFails, Returns, vars, historyVars, FatalInv, FatalWinsAtTheEnd
<1> QED
  BY <1>2, <1>3, <1>4, <1>5, <1>6, <1>7 DEF Next, ReaderStep, Finished

-----------------------------------------------------------------------------
(* Usage.  What a report covers can only be told apart from what the turn    *)
(* has produced while something produced is behind it in the channel, and    *)
(* nothing is when the turn's end is read.                                   *)

IsContent(event) == event.kind \in {"delta", "tool"}
NothingAfter(i) == \A j \in DOMAIN stream : j > i => ~IsContent(stream[j])
NoContent == \A i \in DOMAIN stream : ~IsContent(stream[i])

\* The channel holds nothing that was produced before this read.
EpochInv ==
  /\ before <= produced
  /\ epochOpen /\ before > 0 => produced > before
  /\ ~NoContent => produced > before

\* A tool call is the last that is produced before its result.
ToolInv ==
  /\ \A i \in DOMAIN stream : stream[i].kind = "tool" => server # "running" /\ NothingAfter(i)
  /\ verdict = "tool" => server # "running" /\ NoContent

EndInv ==
  \A i \in DOMAIN stream : stream[i].kind = "completed" => server = "over" /\ i = Len(stream)

\* A report behind which nothing was produced covers everything.
ReportInv ==
  /\ \A i \in DOMAIN stream :
       stream[i].kind = "usage" /\ NothingAfter(i) => stream[i].covers = produced
  /\ usage # <<>> => epochOpen
  /\ usage # <<>> /\ NoContent => usage = <<produced>>

CountInv == emitted = 0 => written = 0

UsageInv == EpochInv /\ ToolInv /\ EndInv /\ ReportInv /\ CountInv /\ UsageIsFinal

LEMMA AppendedEvent ==
  ASSUME TypeOK, NEW e \in Events, Sends(e)
  PROVE  /\ DOMAIN stream \subseteq DOMAIN stream'
         /\ \A i \in DOMAIN stream' \ DOMAIN stream :
              stream'[i] = e /\ i = Len(stream') /\ NothingAfter(i)'
         /\ NoContent' <=> NoContent /\ ~IsContent(e)
         /\ \A i \in DOMAIN stream :
              stream'[i] = stream[i] /\ (NothingAfter(i)' <=> NothingAfter(i) /\ ~IsContent(e))
<1>1. stream \in Seq(Events) /\ Len(stream) \in Nat /\ DOMAIN stream = 1..Len(stream)
  BY DEF TypeOK
<1>2. stream' = Append(stream, e)
  BY DEF Sends
<1>3. /\ Len(stream') = Len(stream) + 1 /\ DOMAIN stream' = 1..(Len(stream) + 1)
      /\ stream'[Len(stream) + 1] = e /\ \A i \in 1..Len(stream) : stream'[i] = stream[i]
  BY <1>1, <1>2
<1>4. DOMAIN stream' = DOMAIN stream \cup {Len(stream) + 1}
  BY <1>1, <1>3
<1>5. ASSUME NEW i \in DOMAIN stream', i \notin DOMAIN stream
      PROVE  stream'[i] = e /\ i = Len(stream') /\ NothingAfter(i)'
  <2>1. i = Len(stream) + 1
    BY <1>1, <1>3, <1>5
  <2> QED  BY <1>1, <1>3, <2>1 DEF NothingAfter
<1>6. \A i \in DOMAIN stream : NothingAfter(i)' <=> NothingAfter(i) /\ ~IsContent(e)
  BY <1>1, <1>3, <1>4 DEF NothingAfter
<1>7. NoContent' <=> NoContent /\ ~IsContent(e)
  BY <1>1, <1>3, <1>4 DEF NoContent
<1> QED
  BY <1>1, <1>3, <1>4, <1>5, <1>6, <1>7

LEMMA TakenEvent ==
  ASSUME TypeOK, NEW kind, Reads(kind)
  PROVE  /\ 1 \in DOMAIN stream /\ stream[1].kind = kind /\ Head(stream) = stream[1]
         /\ Len(stream') = Len(stream) - 1 /\ Len(stream) \in Nat /\ DOMAIN stream' = 1..Len(stream')
         /\ NoContent' <=> NothingAfter(1)
         /\ NoContent => NoContent'
         /\ NoContent' /\ kind \notin {"delta", "tool"} => NoContent
         /\ \A i \in DOMAIN stream' :
              /\ i \in Nat /\ i + 1 \in DOMAIN stream /\ stream'[i] = stream[i + 1]
              /\ NothingAfter(i)' <=> NothingAfter(i + 1)
<1>1. /\ stream \in Seq(Events) /\ Len(stream) \in Nat /\ DOMAIN stream = 1..Len(stream)
      /\ stream # <<>> /\ Len(stream) > 0
  BY DEF TypeOK, Reads
<1>2. /\ Len(stream') = Len(stream) - 1 /\ DOMAIN stream' = 1..(Len(stream) - 1)
      /\ \A i \in 1..(Len(stream) - 1) : stream'[i] = stream[i + 1]
  BY <1>1 DEF Reads
<1>3. 1 \in DOMAIN stream /\ stream[1].kind = kind /\ Head(stream) = stream[1]
  BY <1>1 DEF Reads
<1>4. \A j \in DOMAIN stream : j > 1 => j - 1 \in DOMAIN stream' /\ stream'[j - 1] = stream[j]
  BY <1>1, <1>2
<1>5. NoContent' <=> NothingAfter(1)
  <2>1. NoContent' => NothingAfter(1)
    BY <1>4 DEF NoContent, NothingAfter
  <2>2. NothingAfter(1) => NoContent'
    BY <1>1, <1>2 DEF NoContent, NothingAfter
  <2> QED  BY <2>1, <2>2
<1>6. NoContent <=> NothingAfter(1) /\ ~IsContent(stream[1])
  BY <1>1, <1>3 DEF NoContent, NothingAfter
<1>7. ASSUME NEW i \in DOMAIN stream'
      PROVE  NothingAfter(i)' <=> NothingAfter(i + 1)
  <2>1. NothingAfter(i + 1) => NothingAfter(i)'
    BY <1>1, <1>2 DEF NothingAfter
  <2>2. NothingAfter(i)' => NothingAfter(i + 1)
    BY <1>1, <1>2, <1>4 DEF NothingAfter
  <2> QED  BY <2>1, <2>2
<1> QED
  BY <1>1, <1>2, <1>3, <1>5, <1>6, <1>7 DEF IsContent

\* Text handed over is counted.
LEMMA TruncateCounts ==
  ASSUME TypeOK, CountInv, NEW units \in Nat, Truncate(units)
  PROVE  CountInv'
BY TurnAssumption DEF TypeOK, CountInv, Truncate, Emit, Remaining

LEMMA StableCounts ==
  ASSUME TypeOK, CountInv, NEW text \in Nat, EmitStable(text)
  PROVE  CountInv'
<1>1. CASE UNCHANGED <<emitted, written>>
  BY <1>1 DEF CountInv
<1>2. ASSUME NEW units \in 1..text, NEW tokens \in 1..units, Emit(units, tokens)
      PROVE  CountInv'
  BY <1>2, TurnAssumption DEF TypeOK, CountInv, Emit
<1>3. ASSUME NEW units \in 1..text, Truncate(units)
      PROVE  CountInv'
  BY <1>3, TruncateCounts
<1> QED
  BY <1>1, <1>2, <1>3 DEF EmitStable

LEMMA ResolvedCounts ==
  ASSUME TypeOK, CountInv, ResolvePending
  PROVE  CountInv'
<1>1. CASE UNCHANGED <<emitted, written>>
  BY <1>1 DEF CountInv
<1>2. ASSUME NEW tokens \in 1..pending, Emit(pending, tokens)
      PROVE  CountInv'
  BY <1>2, TurnAssumption DEF TypeOK, CountInv, Emit
<1>3. CASE Truncate(pending)
  BY <1>3, TruncateCounts DEF TypeOK
<1> QED
  BY <1>1, <1>2, <1>3 DEF ResolvePending

LEMMA SendingKeepsUsage ==
  ASSUME TypeOK, UsageInv, ServerStep
  PROVE  UsageInv'
<1>1. UNCHANGED readerVars /\ verdict \in {"none", "tool"} /\ server # "over"
  BY DEF ServerStep, ServerContent, ServerReports, ServerMisbehaves, ServerCompletes, CanSend
<1>2. CountInv' /\ UsageIsFinal'
  BY <1>1 DEF UsageInv, CountInv, UsageIsFinal, readerVars, limiterVars, historyVars
<1>3. UNCHANGED <<before, epochOpen, usage, verdict>> /\ before \in Nat /\ produced \in Nat
  BY <1>1 DEF readerVars, historyVars, TypeOK
<1>4. ASSUME NEW e \in Events, Sends(e), ~IsContent(e), UNCHANGED produced,
             server' \in {server, "over"},
             e.kind = "usage" => e.covers = produced,
             e.kind = "completed" => server' = "over"
      PROVE  EpochInv' /\ ToolInv' /\ EndInv' /\ ReportInv'
  <2>1. EpochInv'
    BY <1>3, <1>4, AppendedEvent DEF UsageInv, EpochInv
  <2>2. ToolInv'
    BY <1>3, <1>4, AppendedEvent DEF UsageInv, ToolInv, IsContent
  <2>3. EndInv'
    BY <1>1, <1>4, AppendedEvent DEF UsageInv, EndInv
  <2>4. ReportInv'
    BY <1>3, <1>4, AppendedEvent DEF UsageInv, ReportInv
  <2> QED  BY <2>1, <2>2, <2>3, <2>4
<1>5. ASSUME NEW e \in Events, Sends(e), IsContent(e), e.kind \notin {"usage", "completed"},
             produced' = produced + 1, server = "running",
             e.kind = "tool" => server' = "waiting", e.kind # "tool" => server' = server
      PROVE  EpochInv' /\ ToolInv' /\ EndInv' /\ ReportInv'
  <2>1. EpochInv'
    BY <1>3, <1>5, AppendedEvent DEF UsageInv, EpochInv
  <2>2. ToolInv'
    <3>1. \A i \in DOMAIN stream : stream[i].kind # "tool"
      BY <1>5 DEF UsageInv, ToolInv
    <3>2. verdict' # "tool"
      BY <1>3, <1>5 DEF UsageInv, ToolInv
    <3>3. ASSUME NEW i \in DOMAIN stream', stream'[i].kind = "tool"
          PROVE  server' # "running" /\ NothingAfter(i)'
      <4>1. i \notin DOMAIN stream
        BY <1>5, <3>1, <3>3, AppendedEvent
      <4>2. e.kind = "tool" /\ NothingAfter(i)'
        BY <1>5, <3>3, <4>1, AppendedEvent
      <4> QED  BY <1>5, <4>2
    <3> QED  BY <3>2, <3>3 DEF ToolInv
  <2>3. EndInv'
    BY <1>1, <1>5, AppendedEvent DEF UsageInv, EndInv
  <2>4. ReportInv'
    BY <1>3, <1>5, AppendedEvent DEF UsageInv, ReportInv
  <2> QED  BY <2>1, <2>2, <2>3, <2>4
<1>6. CASE ServerContent
  <2>1. Tool \in Events /\ \A n \in 1..MaxUnits : Delta(n) \in Events
    BY DEF Events
  <2> QED
    BY <1>2, <1>5, <1>6, <2>1 DEF ServerContent, UsageInv, IsContent, Tool, Delta
<1>7. CASE ServerReports
  <2>1. Usage(produced) \in Events /\ Item \in Events /\ \A r \in BOOLEAN : Fault(r) \in Events
    BY DEF Events, TypeOK
  <2>2. /\ ~IsContent(Usage(produced)) /\ ~IsContent(Item) /\ \A r \in BOOLEAN : ~IsContent(Fault(r))
        /\ Usage(produced).covers = produced
    BY DEF IsContent, Usage, Item, Fault
  <2> QED
    BY <1>2, <1>4, <1>7, <2>1, <2>2 DEF ServerReports, serverVars, UsageInv, Usage, Item, Fault
<1>8. CASE ServerMisbehaves
  <2>1. Invalid \in Events /\ ~IsContent(Invalid)
    BY DEF Events, IsContent, Invalid
  <2> QED
    BY <1>2, <1>4, <1>8, <2>1 DEF ServerMisbehaves, serverVars, UsageInv, Invalid
<1>9. CASE ServerCompletes
  <2>1. \A s \in Statuses : Ended(s) \in Events /\ ~IsContent(Ended(s))
    BY DEF Events, IsContent, Ended
  <2> QED
    BY <1>2, <1>4, <1>9, <2>1 DEF ServerCompletes, UsageInv, Ended
<1> QED
  BY <1>6, <1>7, <1>8, <1>9 DEF ServerStep

\* What any event leaves behind it in the channel.
LEMMA TakingKeepsQueue ==
  ASSUME TypeOK, UsageInv, NEW kind, Reads(kind), UNCHANGED <<serverVars, before>>,
         verdict' # "tool" \/ kind = "tool"
  PROVE  /\ EndInv' /\ ToolInv'
         /\ before' <= produced' /\ (~NoContent' => produced' > before')
         /\ kind \in {"delta", "tool"} => produced > before
         /\ \A i \in DOMAIN stream' :
              stream'[i].kind = "usage" /\ NothingAfter(i)' => stream'[i].covers = produced'
<1> USE TakenEvent DEF serverVars, UsageInv
<1>1. EndInv'
  BY DEF EndInv
<1>2. ToolInv'
  BY DEF ToolInv
<1>3. before' <= produced' /\ (~NoContent' => produced' > before')
  BY DEF EpochInv
<1>4. kind \in {"delta", "tool"} => produced > before
  BY DEF EpochInv, NoContent, IsContent
<1>5. \A i \in DOMAIN stream' :
        stream'[i].kind = "usage" /\ NothingAfter(i)' => stream'[i].covers = produced'
  BY DEF ReportInv
<1> QED  BY <1>1, <1>2, <1>3, <1>4, <1>5

\* Text and tool calls open the epoch and void the reports before them.
LEMMA ContentKeepsUsage ==
  ASSUME TextInv, UsageInv, ReadDelta \/ ReadTool
  PROVE  UsageInv'
<1> USE DEF TextInv
<1>1. ASSUME NEW kind \in {"delta", "tool"}, Reads(kind), UNCHANGED <<serverVars, before>>,
             usage' = <<>>, epochOpen' = TRUE, CountInv', verdict' \notin {"endTurn", "limit"},
             verdict' # "tool" \/ kind = "tool"
      PROVE  UsageInv'
  <2>1. /\ EndInv' /\ ToolInv' /\ before' <= produced' /\ (~NoContent' => produced' > before')
        /\ produced > before
        /\ \A i \in DOMAIN stream' :
             stream'[i].kind = "usage" /\ NothingAfter(i)' => stream'[i].covers = produced'
    BY <1>1, TakingKeepsQueue
  <2>2. EpochInv' /\ ReportInv' /\ UsageIsFinal'
    BY <1>1, <2>1 DEF EpochInv, ReportInv, UsageIsFinal, serverVars
  <2> QED  BY <1>1, <2>1, <2>2 DEF UsageInv
<1>2. CASE ReadDelta
  <2>1. /\ Reads("delta") /\ UNCHANGED <<serverVars, before>> /\ usage' = <<>> /\ epochOpen' = TRUE
        /\ verdict' \in {verdict, "failed"}
    BY <1>2 DEF ReadDelta, Returns
  <2>2. CountInv'
    <3>1. Head(stream).units \in Nat /\ pending \in Nat
      BY <2>1, EventFacts DEF TypeOK
    <3>2. pending + Head(stream).units \in Nat
      BY <3>1
    <3>3. EmitStable(pending + Head(stream).units) => CountInv'
      BY <3>2, StableCounts DEF UsageInv
    <3> QED
      BY <1>2, <3>3 DEF ReadDelta, UsageInv, CountInv, limiterVars
  <2>3. verdict' \in {"none", "failed"}
    BY <2>1 DEF VerdictInv, Reads
  <2> QED  BY <1>1, <2>1, <2>2, <2>3
<1>3. CASE ReadTool
  <2>1. /\ Reads("tool") /\ UNCHANGED <<serverVars, before>> /\ usage' = <<>> /\ epochOpen' = TRUE
        /\ verdict' \in {verdict, "failed", "tool"}
    BY <1>3 DEF ReadTool, Returns
  <2>2. CountInv'
    BY <1>3, ResolvedCounts DEF ReadTool, UsageInv, CountInv, limiterVars
  <2>3. verdict' \in {"none", "failed", "tool"}
    BY <2>1 DEF VerdictInv, Reads
  <2> QED  BY <1>1, <2>1, <2>2, <2>3
<1> QED  BY <1>2, <1>3

\* The events between are read past; only a report in an open epoch counts.
LEMMA OtherEventKeepsUsage ==
  ASSUME TextInv, UsageInv, ReadUsage \/ ReadItem \/ ReadError \/ ReadInvalid
  PROVE  UsageInv'
<1> USE DEF TextInv
<1>1. ASSUME NEW kind \in {"usage", "item", "error", "invalid"}, Reads(kind),
             UNCHANGED <<serverVars, epochOpen, emitted, written, before>>,
             verdict' \in {verdict, "failed"},
             \/ usage' = usage
             \/ kind = "usage" /\ epochOpen /\ usage' = <<stream[1].covers>>
      PROVE  UsageInv'
  <2>1. verdict' \in {"none", "failed"}
    BY <1>1 DEF VerdictInv, Reads
  <2>2. /\ EndInv' /\ ToolInv' /\ before' <= produced' /\ (~NoContent' => produced' > before')
        /\ \A i \in DOMAIN stream' :
             stream'[i].kind = "usage" /\ NothingAfter(i)' => stream'[i].covers = produced'
    BY <1>1, <2>1, TakingKeepsQueue
  <2>3. EpochInv' /\ CountInv' /\ UsageIsFinal'
    BY <1>1, <2>1, <2>2 DEF UsageInv, EpochInv, CountInv, UsageIsFinal, serverVars
  <2>4. /\ NoContent' => NoContent /\ NothingAfter(1)
        /\ 1 \in DOMAIN stream /\ stream[1].kind = kind
    BY <1>1, TakenEvent
  <2>5. ReportInv'
    BY <1>1, <2>2, <2>4 DEF UsageInv, ReportInv, serverVars
  <2> QED  BY <2>2, <2>3, <2>5 DEF UsageInv
<1>2. CASE ReadUsage
  <2>1. Reads("usage") /\ Head(stream) = stream[1]
    BY <1>2, TakenEvent DEF ReadUsage
  <2> QED  BY <1>1, <1>2, <2>1 DEF ReadUsage, limiterVars, historyVars
<1>3. CASE ReadItem \/ ReadError \/ ReadInvalid
  BY <1>1, <1>3 DEF ReadItem, ReadError, ReadInvalid, Returns, limiterVars, historyVars
<1> QED  BY <1>2, <1>3

\* The end of the turn is the last event, so what was reported last is final.
LEMMA EndKeepsUsage ==
  ASSUME TextInv, UsageInv, ReadCompleted
  PROVE  UsageInv'
<1> USE DEF TextInv
<1>1. /\ Reads("completed") /\ UNCHANGED <<usage, epochOpen, serverVars, before>>
      /\ verdict' \in {"failed", "endTurn", "limit"}
  BY DEF ReadCompleted, Returns
<1>2. /\ EndInv' /\ ToolInv' /\ before' <= produced' /\ (~NoContent' => produced' > before')
      /\ \A i \in DOMAIN stream' :
           stream'[i].kind = "usage" /\ NothingAfter(i)' => stream'[i].covers = produced'
  BY <1>1, TakingKeepsQueue
<1>3. NoContent /\ NoContent'
  <2>1. 1 \in DOMAIN stream /\ Len(stream') = 0 /\ DOMAIN stream' = {}
    BY <1>1, TakenEvent DEF UsageInv, EndInv
  <2>2. NoContent'
    BY <2>1 DEF NoContent
  <2> QED  BY <1>1, <2>2, TakenEvent
<1>4. CountInv'
  BY ResolvedCounts DEF ReadCompleted, UsageInv, CountInv, limiterVars
<1>5. EpochInv' /\ ReportInv'
  BY <1>1, <1>2, <1>3 DEF UsageInv, EpochInv, ReportInv, serverVars
<1>6. verdict' = "endTurn" /\ usage = <<>> => emitted' = 0
  BY DEF ReadCompleted, Returns
<1>7. UsageIsFinal'
  <2>1. usage' # <<>> => usage' = <<produced'>> /\ (before' > 0 => produced' > before')
    BY <1>3, <1>5 DEF ReportInv, EpochInv
  <2>2. usage' = <<>> /\ verdict' = "endTurn" => written' = 0
    BY <1>1, <1>4, <1>6 DEF CountInv
  <2> QED  BY <2>1, <2>2 DEF UsageIsFinal
<1> QED  BY <1>2, <1>4, <1>5, <1>7 DEF UsageInv

LEMMA StepKeepsUsage ==
  ASSUME TextInv, UsageInv, [Next]_vars
  PROVE  UsageInv'
<1>1. ASSUME UNCHANGED <<usage, epochOpen, emitted, written, before, produced, stream>>,
             server' \in {server, "over", "stopping"}, server = "over" => server' = "over",
             verdict' \in {verdict, "failed"}
      PROVE  UsageInv'
  <2>1. NoContent' = NoContent /\ \A i : NothingAfter(i)' = NothingAfter(i)
    BY <1>1 DEF NoContent, NothingAfter
  <2>2. EpochInv' /\ ReportInv' /\ CountInv' /\ UsageIsFinal'
    BY <1>1, <2>1 DEF UsageInv, EpochInv, ReportInv, CountInv, UsageIsFinal
  <2>3. ToolInv' /\ EndInv'
    BY <1>1, <2>1 DEF UsageInv, ToolInv, EndInv
  <2> QED  BY <2>2, <2>3 DEF UsageInv
<1>2. CASE ContinueTool
  <2>1. NoContent /\ NoContent' /\ \A i : NothingAfter(i)' = NothingAfter(i)
    BY <1>2 DEF ContinueTool, UsageInv, ToolInv, NoContent, NothingAfter
  <2>2. EpochInv' /\ CountInv' /\ UsageIsFinal'
    BY <1>2, <2>1 DEF ContinueTool, TextInv, TypeOK, EpochInv, CountInv, UsageIsFinal
  <2>3. ReportInv'
    BY <1>2, <2>1 DEF ContinueTool, UsageInv, ReportInv
  <2>4. ToolInv' /\ EndInv'
    BY <1>2, <2>1 DEF ContinueTool, UsageInv, ToolInv, EndInv, NoContent, IsContent
  <2> QED  BY <2>2, <2>3, <2>4 DEF UsageInv
<1>3. CASE \/ InterruptAccepted \/ InterruptRefused \/ ReadFails \/ ContinueFails \/ UNCHANGED vars
  BY <1>1, <1>3 DEF InterruptAccepted, InterruptRefused, ReadFails, ContinueFails, Returns, vars,
     limiterVars, serverVars, historyVars
<1> QED
  BY <1>2, <1>3, SendingKeepsUsage, ContentKeepsUsage, OtherEventKeepsUsage, EndKeepsUsage
  DEF Next, ReaderStep, Finished, TextInv

LEMMA InitUsage == Init => UsageInv
BY DEF Init, UsageInv, EpochInv, ToolInv, EndInv, ReportInv, CountInv, UsageIsFinal, NoContent

-----------------------------------------------------------------------------
(* What follows.                                                           *)

\* Every variable of a turn's read keeps its type; in particular no more tokens
\* are handed over than the ceiling allows.
THEOREM TypeCorrect == Spec => []TypeOK
<1>1. TextInv => TypeOK
  BY DEF TextInv
<1> QED
  BY <1>1, InitInv, StepKeeps, PTL DEF Spec

\* For all ceilings and texts, a read that returns a tool call or a natural end
\* has handed over all its text, and one that returns "limit" has not.
THEOREM TextIsAccountedFor == Spec => []TextIsWholeOrCut
<1>1. TextInv => TextIsWholeOrCut
  BY DEF TextInv, TypeOK, Account, VerdictInv, TextIsWholeOrCut
<1> QED
  BY <1>1, InitInv, StepKeeps, PTL DEF Spec

\* Whatever a read receives after a non-retryable error, a deliberate interrupt
\* and more text included, it does not return that the turn ended with success:
\* it fails, or it surfaces a tool call.  Of the reads after that call nothing is
\* claimed (the run turn_reader_fatal shows one that succeeds).
THEOREM FatalDecidesTheEnd == Spec => []FatalWinsAtTheEnd
<1>1. Init => FatalInv
  BY DEF Init, FatalInv, FatalWinsAtTheEnd
<1>2. FatalInv => FatalWinsAtTheEnd
  BY DEF FatalInv
<1> QED
  BY <1>1, <1>2, InitInv, StepKeeps, StepKeepsFatal, PTL DEF Spec

\* For any order of reports, contents and results of tools: what a read reports
\* with a success covers all the turn produced, and is of the read's own epoch.
THEOREM UsageIsReportedLast == Spec => []UsageIsFinal
<1>1. UsageInv => UsageIsFinal
  BY DEF UsageInv
<1> QED
  BY <1>1, InitInv, InitUsage, StepKeeps, StepKeepsUsage, PTL DEF Spec

\* The reader implements the promise of TurnOutput for all ceilings and texts.
THEOREM ReaderImplementsOutput == Spec => KeepsOutputContract
<1> QED
  BY InitInv, StepKeeps, PTL DEF Spec, KeepsOutputContract, Output!Spec
=============================================================================
