------------------------ MODULE HttpDispatch_proofs ------------------------
(***************************************************************************)
(* HttpDispatch, for any capacity, limit and number of chunks: its types,  *)
(* the aggregate limit, the shape of a stream, and that it implements      *)
(* ResponseRelay.                                                          *)
(***************************************************************************)
EXTENDS HttpDispatch, FiniteSetTheorems, TLAPS

\* The outcome is known from the moment the sink is dropped, and sent last.
OutcomeInv ==
  /\ task \in {"drop", "answer", "done"} => outcome # "none"
  /\ sent => task = "done"

\* The receivers live as long as the response is open; each kind has its body.
HandlerInv ==
  /\ rxOpen => response = "open"
  /\ response # "open" <=> handler = "ended"
  /\ handler = "collect" => kind = "whole"
  /\ handler \in {"deltas", "outcome", "finished"} => kind # "whole"

\* Every chunk of a GPT message is in the channel or in the text.
CollectInv ==
  kind = "whole" =>
    /\ Len(text) <= Limit
    /\ response = "open" => produced = Len(text) + Len(chunks)
    /\ response = "complete" => produced <= Limit

\* An aggregate over the limit is an error, and nothing is fetched after it.
FetchInv ==
  /\ fetched > Limit => outcome = "error" /\ task \in {"drop", "answer", "done"}
  /\ kind = "proxyWhole" /\ response = "complete" => task = "done" /\ fetched <= Limit

-----------------------------------------------------------------------------
(* Induction.  The natural numbers are well ordered because the finite     *)
(* subsets of a set are, under strict inclusion; a set that holds zero and *)
(* the successor of each of its members holds every number, and a set that *)
(* holds the empty sequence and is closed under Append every sequence.     *)

\* A set of numbers that is not empty has a least one.
LEMMA LeastNumber ==
  ASSUME NEW T, T \subseteq Nat, T # {}
  PROVE  \E x \in T : \A y \in T : x <= y
<1> DEFINE Below == {1..n : n \in T}
<1>1. Below \subseteq FiniteSubsetsOf(Nat) /\ Below # {}
  <2>1. \A n \in Nat : IsFiniteSet(1..n) /\ 1..n \in SUBSET Nat
    BY FS_Interval
  <2> QED  BY <2>1 DEF FiniteSubsetsOf
<1>2. PICK s \in Below : \A r \in Below : ~(<<r, s>> \in StrictSubsetOrdering(Nat))
  <2> HIDE DEF Below
  <2> QED  BY <1>1, WFMin, FS_StrictSubsetOrderingWellFounded
<1>3. PICK x \in T : s = 1..x
  OBVIOUS
<1>4. ASSUME NEW y \in T, y < x
      PROVE  FALSE
  <2>1. x \in 1..x /\ x \notin 1..y /\ 1..y \subseteq 1..x
    BY <1>4
  <2>2. <<1..y, 1..x>> \in StrictSubsetOrdering(Nat)
    BY <2>1 DEF StrictSubsetOrdering
  <2> QED  BY <2>2, <1>2, <1>3
<1> QED  BY <1>4

LEMMA Induction ==
  ASSUME NEW T, 0 \in T, \A n \in Nat : n \in T => n + 1 \in T
  PROVE  \A n \in Nat : n \in T
<1> SUFFICES ASSUME NEW n \in Nat, n \notin T PROVE FALSE
  OBVIOUS
<1>1. PICK m \in {k \in Nat : k \notin T} : \A y \in {k \in Nat : k \notin T} : m <= y
  BY LeastNumber
<1>2. m - 1 \in Nat /\ m - 1 \in T
  BY <1>1
<1> QED  BY <1>1, <1>2

\* Sequences are built from the empty one by Append.
LEMMA SequenceInduction ==
  ASSUME NEW S, NEW T, <<>> \in T,
         \A s \in Seq(S), e \in S : s \in T => Append(s, e) \in T
  PROVE  \A s \in Seq(S) : s \in T
<1> DEFINE L == {n \in Nat : \A s \in Seq(S) : Len(s) = n => s \in T}
<1>1. 0 \in L
  <2>1. \A s \in Seq(S) : Len(s) = 0 => s = <<>>
    OBVIOUS
  <2> QED  BY <2>1
<1>2. ASSUME NEW n \in Nat, n \in L
      PROVE  n + 1 \in L
  <2> SUFFICES ASSUME NEW s \in Seq(S), Len(s) = n + 1 PROVE s \in T
    OBVIOUS
  <2> DEFINE front == SubSeq(s, 1, n)
  <2>1. front \in Seq(S) /\ Len(front) = n /\ s[n + 1] \in S
    OBVIOUS
  <2>2. s = Append(front, s[n + 1])
    OBVIOUS
  <2>3. front \in T
    <3> HIDE DEF front
    <3> QED  BY <1>2, <2>1
  <2> QED  BY <2>1, <2>2, <2>3
<1> HIDE DEF L
<1>3. \A n \in Nat : n \in L
  BY <1>1, <1>2, Induction
<1> QED  BY <1>3 DEF L

-----------------------------------------------------------------------------
LEMMA AppendTyped ==
  ASSUME NEW S, NEW s \in Seq(S), NEW e \in S
  PROVE  Append(s, e) \in Seq(S) /\ Len(Append(s, e)) = Len(s) + 1 /\ Len(s) \in Nat
OBVIOUS

LEMMA TailTyped ==
  ASSUME NEW S, NEW s \in Seq(S), s # <<>>
  PROVE  /\ Tail(s) \in Seq(S) /\ Len(Tail(s)) = Len(s) - 1 /\ Len(s) \in Nat /\ Len(s) > 0
         /\ Head(s) \in S
OBVIOUS

\* What a sender needs: there is room, and the number of the chunk is in range.
LEMMA EmitTyped ==
  ASSUME TaskTypes, ChannelTypes, Emit, chunks' # chunks
  PROVE  /\ chunks' \in Seq(1..MaxChunks) /\ Len(chunks') <= Capacity
         /\ Len(chunks') = Len(chunks) + 1 /\ produced' = produced + 1 /\ rxOpen
<1>1. /\ chunks' = Append(chunks, produced + 1) /\ Len(chunks) < Capacity
      /\ produced' = produced + 1 /\ rxOpen
  BY DEF Emit
<1>2. produced + 1 \in 1..MaxChunks
  BY HttpAssumption DEF Emit, More, TaskTypes
<1>3. chunks \in Seq(1..MaxChunks)
  BY DEF ChannelTypes
<1> QED  BY <1>1, <1>2, <1>3, AppendTyped, HttpAssumption

\* What a receiver finds: the rest of the chunks, and a chunk.
LEMMA ReceiveTyped ==
  ASSUME ChannelTypes, chunks # <<>>, chunks' = Tail(chunks)
  PROVE  /\ chunks' \in Seq(1..MaxChunks) /\ Len(chunks') <= Capacity
         /\ Len(chunks') = Len(chunks) - 1 /\ Len(chunks) \in Nat
         /\ Head(chunks) \in 1..MaxChunks
<1>1. chunks \in Seq(1..MaxChunks) /\ Len(chunks) <= Capacity
  BY DEF ChannelTypes
<1> QED  BY <1>1, TailTyped, HttpAssumption

LEMMA TaskTypesKept ==
  ASSUME TaskTypes, [Next]_vars
  PROVE  TaskTypes'
<1> USE HttpAssumption DEF TaskTypes, Goto, taskVars, channelVars, bodyVars, Ends
<1>1. CASE Connect \/ SendHead \/ DropSink \/ SendOutcome
  BY <1>1 DEF Connect, SendHead, DropSink, SendOutcome
<1>2. CASE Fetch
  BY <1>2 DEF Fetch
<1>3. CASE Emit
  BY <1>3 DEF Emit, More
<1>4. CASE ProducerEnds
  BY <1>4 DEF ProducerEnds
<1>5. CASE SelectStep
  BY <1>5 DEF SelectStep, SelectHead, SelectOutcome
<1>6. CASE BodyStep
  BY <1>6 DEF BodyStep, PopFrame, AcceptDelta, ChunksAreOver, StreamOutcome, StreamEnds,
     RelayChunk, RelayOutcome, Collect, WholeOutcome
<1>7. CASE ClientLeaves \/ Over \/ UNCHANGED vars
  BY <1>7 DEF ClientLeaves, Over, vars
<1> QED
  BY <1>1, <1>2, <1>3, <1>4, <1>5, <1>6, <1>7 DEF Next, TaskStep

LEMMA ChannelTypesKept ==
  ASSUME TaskTypes, ChannelTypes, [Next]_vars
  PROVE  ChannelTypes'
<1> USE HttpAssumption DEF ChannelTypes, Goto, taskVars, channelVars, bodyVars, Ends
<1>1. CASE Connect \/ Fetch \/ SendHead \/ ProducerEnds \/ DropSink \/ SendOutcome
  BY <1>1 DEF Connect, Fetch, SendHead, ProducerEnds, DropSink, SendOutcome
<1>2. CASE Emit
  BY <1>2, EmitTyped DEF Emit
<1>3. CASE SelectStep
  BY <1>3 DEF SelectStep, SelectHead, SelectOutcome
<1>4. CASE PopFrame \/ ChunksAreOver \/ StreamOutcome \/ StreamEnds \/ RelayOutcome \/ WholeOutcome
  BY <1>4 DEF PopFrame, ChunksAreOver, StreamOutcome, StreamEnds, RelayOutcome, WholeOutcome
<1>5. CASE AcceptDelta \/ RelayChunk \/ Collect
  <2>1. chunks # <<>> /\ chunks' = Tail(chunks)
    BY <1>5 DEF AcceptDelta, RelayChunk, Receives, Collect
  <2> QED  BY <1>5, <2>1, ReceiveTyped DEF AcceptDelta, RelayChunk, Collect
<1>6. CASE ClientLeaves \/ Over \/ UNCHANGED vars
  BY <1>6 DEF ClientLeaves, Over, vars
<1> QED
  BY <1>1, <1>2, <1>3, <1>4, <1>5, <1>6 DEF Next, TaskStep, BodyStep

-----------------------------------------------------------------------------
(* Frames.                                                                 *)

LEMMA FramesTyped ==
  /\ {Start, Delta, Stop, Error} \subseteq Frame
  /\ \A i \in {0, 1} : BlockStart(i) \in Frame /\ BlockStop(i) \in Frame
  /\ \A i \in {0, 1}, n \in 0..MaxChunks : BlockDelta(i, n) \in Frame
BY HttpAssumption DEF Start, Delta, Stop, Error, BlockStart, BlockStop, BlockDelta, Frame

\* What finishes a stream is a sequence of frames.
LEMMA FinishTyped ==
  ASSUME outcome \in {"text", "tool"}
  PROVE  FinishFrames \in Seq(Frame)
<1>1. /\ Delta \in Frame /\ Stop \in Frame /\ BlockStart(0) \in Frame /\ BlockStart(1) \in Frame
      /\ BlockStop(0) \in Frame /\ BlockStop(1) \in Frame
      /\ BlockDelta(0, 0) \in Frame /\ BlockDelta(1, 0) \in Frame
  BY FramesTyped, HttpAssumption
<1>2. ToolFrames(0) \in Seq(Frame) /\ ToolFrames(1) \in Seq(Frame)
  BY <1>1 DEF ToolFrames
<1>3. <<Delta, Stop>> \in Seq(Frame) /\ <<BlockStart(0)>> \in Seq(Frame)
      /\ <<BlockStop(0)>> \in Seq(Frame) /\ <<>> \in Seq(Frame)
  BY <1>1
<1>4. CASE outcome = "text"
  BY <1>3, <1>4 DEF FinishFrames
<1>5. CASE outcome = "tool"
  BY <1>2, <1>3, <1>5 DEF FinishFrames
<1> QED  BY <1>4, <1>5

LEMMA BodyTypesKept ==
  ASSUME TaskTypes, ChannelTypes, BodyTypes, OutcomeInv, [Next]_vars
  PROVE  BodyTypes'
<1> USE HttpAssumption DEF BodyTypes, taskVars, channelVars, bodyVars, Ends
<1>1. CASE TaskStep
  BY <1>1 DEF TaskStep, Connect, Fetch, SendHead, Emit, ProducerEnds, DropSink, SendOutcome
<1>2. CASE SelectStep
  <2>1. <<Start>> \in Seq(Frame) /\ <<>> \in Seq(Frame)
    BY FramesTyped
  <2>2. queue' \in {queue, <<Start>>, <<>>}
    BY <1>2 DEF SelectStep, SelectHead, SelectOutcome
  <2>3. queue' \in Seq(Frame)
    BY <2>1, <2>2
  <2> QED  BY <1>2, <2>3 DEF SelectStep, SelectHead, SelectOutcome
<1>3. CASE PopFrame
  <2>1. wire' \in Seq(Frame) /\ queue' \in Seq(Frame)
    BY <1>3, TailTyped, AppendTyped DEF PopFrame
  <2> QED  BY <1>3, <2>1 DEF PopFrame
<1>4. CASE AcceptDelta
  <2>1. Head(chunks) \in 0..MaxChunks
    BY <1>4, ReceiveTyped DEF AcceptDelta, Receives
  <2>2. BlockDelta(0, Head(chunks)) \in Frame /\ BlockStart(0) \in Frame
    BY <2>1, FramesTyped
  <2>3. queue' \in Seq(Frame)
    BY <1>4, <2>2 DEF AcceptDelta
  <2> QED  BY <1>4, <2>3 DEF AcceptDelta, Receives
<1>5. CASE ChunksAreOver
  BY <1>5 DEF ChunksAreOver
<1>6. CASE StreamOutcome
  <2>1. outcome = "error" \/ FinishFrames \in Seq(Frame)
    BY <1>6, FinishTyped DEF StreamOutcome, OutcomeInv, TaskTypes
  <2>2. queue' \in Seq(Frame)
    BY <1>6, <2>1, FramesTyped DEF StreamOutcome
  <2> QED  BY <1>6, <2>2 DEF StreamOutcome
<1>7. CASE StreamEnds \/ RelayOutcome
  BY <1>7 DEF StreamEnds, RelayOutcome
<1>8. CASE RelayChunk
  <2>1. Head(chunks) \in 0..MaxChunks
    BY <1>8, ReceiveTyped DEF RelayChunk, Receives
  <2>2. wire' \in Seq(Frame)
    BY <1>8, <2>1, FramesTyped, AppendTyped DEF RelayChunk
  <2> QED  BY <1>8, <2>2 DEF RelayChunk, Receives
<1>9. CASE Collect
  <2>1. Head(chunks) \in 1..MaxChunks
    BY <1>9, ReceiveTyped DEF Collect
  <2>2. text' \in Seq(1..MaxChunks)
    BY <1>9, <2>1, AppendTyped DEF Collect
  <2> QED  BY <1>9, <2>2 DEF Collect
<1>10. CASE WholeOutcome
  <2>1. \A i \in DOMAIN text : BlockDelta(0, text[i]) \in Frame
    BY FramesTyped
  <2>2. wire' \in Seq(Frame)
    BY <1>10, <2>1 DEF WholeOutcome
  <2> QED  BY <1>10, <2>2 DEF WholeOutcome
<1>11. CASE ClientLeaves \/ Over \/ UNCHANGED vars
  BY <1>11 DEF ClientLeaves, Over, vars
<1> QED
  BY <1>1, <1>2, <1>3, <1>4, <1>5, <1>6, <1>7, <1>8, <1>9, <1>10, <1>11 DEF Next, BodyStep

-----------------------------------------------------------------------------
LEMMA OutcomeKept ==
  ASSUME TaskTypes, OutcomeInv, [Next]_vars
  PROVE  OutcomeInv'
<1> USE DEF TaskTypes, OutcomeInv, Goto, taskVars, channelVars, bodyVars, Ends
<1>1. CASE Connect \/ Fetch \/ SendHead \/ Emit \/ ProducerEnds
  BY <1>1 DEF Connect, Fetch, SendHead, Emit, ProducerEnds
<1>2. CASE DropSink \/ SendOutcome
  BY <1>2 DEF DropSink, SendOutcome
<1>3. CASE SelectStep
  BY <1>3 DEF SelectStep, SelectHead, SelectOutcome
<1>4. CASE BodyStep
  BY <1>4 DEF BodyStep, PopFrame, AcceptDelta, ChunksAreOver, StreamOutcome, StreamEnds,
     RelayChunk, RelayOutcome, Collect, WholeOutcome
<1>5. CASE ClientLeaves \/ Over \/ UNCHANGED vars
  BY <1>5 DEF ClientLeaves, Over, vars
<1> QED
  BY <1>1, <1>2, <1>3, <1>4, <1>5 DEF Next, TaskStep

LEMMA HandlerKept ==
  ASSUME BodyTypes, HandlerInv, [Next]_vars
  PROVE  HandlerInv'
<1> USE DEF BodyTypes, HandlerInv, Goto, taskVars, channelVars, bodyVars, Ends
<1>1. CASE TaskStep
  BY <1>1 DEF TaskStep, Connect, Fetch, SendHead, Emit, ProducerEnds, DropSink, SendOutcome
<1>2. CASE SelectStep
  BY <1>2 DEF SelectStep, SelectHead, SelectOutcome
<1>3. CASE PopFrame \/ AcceptDelta \/ ChunksAreOver \/ StreamOutcome
  BY <1>3 DEF PopFrame, AcceptDelta, Receives, ChunksAreOver, StreamOutcome
<1>4. CASE StreamEnds \/ RelayChunk \/ RelayOutcome
  BY <1>4 DEF StreamEnds, RelayChunk, Receives, RelayOutcome
<1>5. CASE Collect \/ WholeOutcome
  BY <1>5 DEF Collect, WholeOutcome
<1>6. CASE ClientLeaves \/ Over \/ UNCHANGED vars
  BY <1>6 DEF ClientLeaves, Over, vars
<1> QED
  BY <1>1, <1>2, <1>3, <1>4, <1>5, <1>6 DEF Next, BodyStep

-----------------------------------------------------------------------------
LEMMA CollectKept ==
  ASSUME TypeOK, HandlerInv, CollectInv, [Next]_vars
  PROVE  CollectInv'
<1> USE DEF CollectInv, Goto, taskVars, channelVars, bodyVars, Ends
<1>1. /\ Len(text) \in Nat /\ Len(chunks) \in Nat /\ produced \in Nat
      /\ response \in {"open", "complete", "failed"}
      /\ Limit \in Nat
  BY HttpAssumption DEF TypeOK, TaskTypes, ChannelTypes, BodyTypes
<1>2. CASE Connect \/ Fetch \/ SendHead \/ ProducerEnds \/ DropSink \/ SendOutcome
  BY <1>2 DEF Connect, Fetch, SendHead, ProducerEnds, DropSink, SendOutcome
<1>3. CASE Emit
  <2>1. CASE chunks' = chunks
    <3>1. produced' = produced
      <4>1. chunks # Append(chunks, produced + 1)
        BY <1>1, AppendTyped, EmitTyped, <1>3 DEF TypeOK, ChannelTypes
      <4> QED  BY <1>3, <2>1, <4>1 DEF Emit
    <3> QED  BY <1>3, <2>1, <3>1 DEF Emit
  <2>2. CASE chunks' # chunks
    BY <1>1, <1>3, <2>2, EmitTyped DEF Emit, TypeOK, HandlerInv
  <2> QED  BY <2>1, <2>2
<1>4. CASE SelectStep
  BY <1>4 DEF SelectStep, SelectHead, SelectOutcome
<1>5. CASE PopFrame \/ ChunksAreOver \/ StreamOutcome \/ StreamEnds \/ RelayOutcome
  BY <1>5 DEF PopFrame, ChunksAreOver, StreamOutcome, StreamEnds, RelayOutcome, Local
<1>6. CASE AcceptDelta \/ RelayChunk
  BY <1>6 DEF AcceptDelta, RelayChunk, Local
<1>7. CASE Collect
  <2>1. Len(chunks') = Len(chunks) - 1 /\ Head(chunks) \in 1..MaxChunks
    BY <1>7, ReceiveTyped DEF Collect, TypeOK
  <2>2. response = "open"
    BY <1>7 DEF Collect, HandlerInv, TypeOK, BodyTypes
  <2>3. CASE Len(text) + 1 > Limit
    BY <1>7, <2>3 DEF Collect
  <2>4. CASE ~(Len(text) + 1 > Limit)
    <3>1. Len(text') = Len(text) + 1
      BY <1>7, <2>1, <2>4, AppendTyped DEF Collect, TypeOK, BodyTypes
    <3> QED  BY <1>1, <1>7, <2>1, <2>2, <2>4, <3>1 DEF Collect
  <2> QED  BY <2>3, <2>4
<1>8. CASE WholeOutcome
  <2>1. response = "open" /\ Len(chunks) = 0
    BY <1>8 DEF WholeOutcome, HandlerInv, TypeOK, BodyTypes
  <2> QED  BY <1>1, <1>8, <2>1 DEF WholeOutcome
<1>9. CASE ClientLeaves \/ Over \/ UNCHANGED vars
  BY <1>9 DEF ClientLeaves, Over, vars
<1> QED
  BY <1>2, <1>3, <1>4, <1>5, <1>6, <1>7, <1>8, <1>9 DEF Next, TaskStep, BodyStep

LEMMA FetchKept ==
  ASSUME TypeOK, OutcomeInv, HandlerInv, FetchInv, [Next]_vars
  PROVE  FetchInv'
<1> USE DEF FetchInv, Goto, taskVars, channelVars, bodyVars, Ends
<1>1. fetched \in Nat /\ Limit \in Nat /\ fetched + 1 \in Nat
  BY HttpAssumption DEF TypeOK, TaskTypes
<1>2. CASE Connect \/ SendHead \/ Emit \/ ProducerEnds
  BY <1>2 DEF Connect, SendHead, Emit, ProducerEnds
<1>3. CASE Fetch
  BY <1>1, <1>3 DEF Fetch
<1>4. CASE DropSink \/ SendOutcome
  BY <1>4 DEF DropSink, SendOutcome
<1>5. CASE SelectStep
  BY <1>5 DEF SelectStep, SelectHead, SelectOutcome
<1>6. CASE PopFrame \/ AcceptDelta \/ ChunksAreOver \/ StreamOutcome \/ RelayChunk
  BY <1>6 DEF PopFrame, AcceptDelta, ChunksAreOver, StreamOutcome, RelayChunk
<1>7. CASE RelayOutcome
  BY <1>1, <1>7 DEF RelayOutcome, OutcomeInv
<1>8. CASE StreamEnds \/ Collect \/ WholeOutcome
  BY <1>8 DEF StreamEnds, Collect, WholeOutcome, HandlerInv
<1>9. CASE ClientLeaves \/ Over \/ UNCHANGED vars
  BY <1>9 DEF ClientLeaves, Over, vars
<1> QED
  BY <1>2, <1>3, <1>4, <1>5, <1>6, <1>7, <1>8, <1>9 DEF Next, TaskStep, BodyStep

-----------------------------------------------------------------------------
(* The stream, frame by frame.                                             *)

Before(s, n, f) == \E j \in 1..n : s[j] = f
Has(s, f) == Before(s, Len(s), f)
Final(s) == \E j \in 1..Len(s) : s[j].kind \in {"message_stop", "error"}

\* What FramesAreWellFormed says of the frame in place n, but for the end.
Fits(s, n) ==
  LET f == s[n]
  IN
  /\ f.kind = "message_start" <=> n = 1
  /\ f.kind = "content_block_start" =>
       /\ ~Before(s, n - 1, BlockStart(f.index))
       /\ f.index = 1 => Before(s, n - 1, BlockStop(0))
  /\ f.kind \in {"content_block_delta", "content_block_stop"} =>
       Before(s, n - 1, BlockStart(f.index)) /\ ~Before(s, n - 1, BlockStop(f.index))
  /\ f.kind = "message_delta" =>
       /\ Before(s, n - 1, BlockStart(0))
       /\ \A i \in {0, 1} : Before(s, n - 1, BlockStart(i)) => Before(s, n - 1, BlockStop(i))
  /\ f.kind = "message_stop" => n > 1 /\ s[n - 1] = Delta

WellFormed(s) ==
  \A n \in 1..Len(s) : Fits(s, n) /\ (s[n].kind \in {"message_stop", "error"} => n = Len(s))

\* A stream whose content goes on: at most its text block is open.
Unfinished(s) ==
  /\ s # <<>> /\ WellFormed(s) /\ ~Final(s)
  /\ ~Has(s, BlockStart(1)) /\ ~Has(s, BlockStop(0)) /\ ~Has(s, BlockStop(1))

\* Whether a frame fits depends on the frames up to it.
LEMMA FitsPrefix ==
  ASSUME NEW s \in Seq(Frame), NEW t \in Seq(Frame), NEW n \in 1..Len(s), n <= Len(t),
         \A j \in 1..n : s[j] = t[j]
  PROVE  Fits(s, n) <=> Fits(t, n)
<1>1. /\ n \in Nat /\ n >= 1 /\ 1..(n - 1) \subseteq 1..n /\ n \in 1..n
      /\ n > 1 => n - 1 \in 1..n
  OBVIOUS
<1>2. s[n] = t[n] /\ (n > 1 => s[n - 1] = t[n - 1])
  BY <1>1
<1>3. \A f : Before(s, n - 1, f) <=> Before(t, n - 1, f)
  BY <1>1 DEF Before
<1> QED  BY <1>2, <1>3 DEF Fits

\* A well-formed stream is so frame by frame.
LEMMA WellFormedPrefix ==
  ASSUME NEW s \in Seq(Frame), NEW t \in Seq(Frame), Len(s) <= Len(t),
         \A j \in 1..Len(s) : s[j] = t[j], WellFormed(t)
  PROVE  WellFormed(s)
<1> SUFFICES ASSUME NEW n \in 1..Len(s)
             PROVE  Fits(s, n) /\ (s[n].kind \in {"message_stop", "error"} => n = Len(s))
  BY DEF WellFormed
<1>1. n \in 1..Len(t) /\ Len(s) \in Nat /\ Len(t) \in Nat
  OBVIOUS
<1>2. Fits(s, n)
  BY <1>1, FitsPrefix DEF WellFormed
<1>3. s[n].kind \in {"message_stop", "error"} => n = Len(s)
  BY <1>1 DEF WellFormed
<1> QED  BY <1>2, <1>3

\* What the frames before it demand of the next one.
Follows(s, f) ==
  /\ f.kind = "message_start" <=> s = <<>>
  /\ f.kind = "content_block_start" =>
       ~Has(s, BlockStart(f.index)) /\ (f.index = 1 => Has(s, BlockStop(0)))
  /\ f.kind \in {"content_block_delta", "content_block_stop"} =>
       Has(s, BlockStart(f.index)) /\ ~Has(s, BlockStop(f.index))
  /\ f.kind = "message_delta" =>
       /\ Has(s, BlockStart(0))
       /\ \A i \in {0, 1} : Has(s, BlockStart(i)) => Has(s, BlockStop(i))
  /\ f.kind = "message_stop" => s # <<>> /\ s[Len(s)] = Delta

LEMMA Extend ==
  ASSUME NEW s \in Seq(Frame), NEW f \in Frame
  PROVE  LET t == Append(s, f)
         IN  /\ t \in Seq(Frame) /\ t # <<>> /\ t[Len(t)] = f
             /\ \A g : Has(t, g) <=> Has(s, g) \/ g = f
             /\ Final(t) <=> Final(s) \/ f.kind \in {"message_stop", "error"}
             /\ WellFormed(s) /\ ~Final(s) /\ Follows(s, f) => WellFormed(t)
<1> DEFINE t == Append(s, f)
<1>1. /\ t \in Seq(Frame) /\ Len(t) = Len(s) + 1 /\ Len(s) \in Nat
      /\ t[Len(t)] = f /\ \A j \in 1..Len(s) : t[j] = s[j]
      /\ 1..Len(t) = 1..Len(s) \cup {Len(t)} /\ t # <<>>
      /\ s = <<>> <=> Len(s) = 0
  OBVIOUS
<1>2. \A g : Has(t, g) <=> Has(s, g) \/ g = f
  BY <1>1 DEF Has, Before
<1>3. Final(t) <=> Final(s) \/ f.kind \in {"message_stop", "error"}
  BY <1>1 DEF Final
<1>4. ASSUME WellFormed(s), ~Final(s), Follows(s, f)
      PROVE  WellFormed(t)
  <2> SUFFICES ASSUME NEW n \in 1..Len(t)
               PROVE  Fits(t, n) /\ (t[n].kind \in {"message_stop", "error"} => n = Len(t))
    BY DEF WellFormed
  <2>1. CASE n \in 1..Len(s)
    <3>1. Fits(t, n)
      <4>1. \A j \in 1..n : s[j] = t[j]
        BY <1>1, <2>1
      <4>2. Fits(s, n)
        BY <1>4, <2>1 DEF WellFormed
      <4>3. n <= Len(t) /\ n \in 1..Len(s) /\ t \in Seq(Frame)
        BY <1>1, <2>1
      <4>4. Fits(s, n) <=> Fits(t, n)
        BY <4>1, <4>3, FitsPrefix
      <4> QED  BY <4>2, <4>4
    <3>2. t[n].kind \notin {"message_stop", "error"}
      BY <1>1, <1>4, <2>1 DEF Final
    <3> QED  BY <3>1, <3>2
  <2>2. CASE n = Len(t)
    <3>1. n - 1 = Len(s) /\ t[n] = f /\ (n = 1 <=> s = <<>>) /\ (s # <<>> => n > 1)
      BY <1>1, <2>2
    <3>2. \A g : Before(t, n - 1, g) <=> Has(s, g)
      BY <1>1, <3>1 DEF Before, Has
    <3>3. s # <<>> => t[n - 1] = s[Len(s)]
      BY <1>1, <3>1
    <3>4. Fits(t, n)
      BY <1>4, <3>1, <3>2, <3>3 DEF Fits, Follows
    <3> QED  BY <2>2, <3>4
  <2> QED  BY <1>1, <2>1, <2>2
<1> QED  BY <1>1, <1>2, <1>3, <1>4

\* Frames that are appended one after the other.
LEMMA Concatenations ==
  ASSUME NEW s \in Seq(Frame), NEW a \in Frame
  PROVE  /\ s \o <<>> = s /\ <<>> \o s = s
         /\ s \o <<a>> = Append(s, a)
         /\ \A t \in Seq(Frame) : s \o (t \o <<a>>) = Append(s \o t, a)
         /\ \A t \in Seq(Frame) : s \o t \in Seq(Frame)
OBVIOUS

LEMMA ConcatTwo ==
  ASSUME NEW s \in Seq(Frame), NEW a \in Frame, NEW b \in Frame
  PROVE  s \o <<a, b>> = Append(Append(s, a), b)
OBVIOUS

LEMMA ConcatThree ==
  ASSUME NEW s \in Seq(Frame), NEW a \in Frame, NEW b \in Frame, NEW c \in Frame
  PROVE  s \o <<a, b, c>> = Append(Append(Append(s, a), b), c)
OBVIOUS

LEMMA ConcatAssoc ==
  ASSUME NEW s \in Seq(Frame), NEW t \in Seq(Frame), NEW u \in Seq(Frame)
  PROVE  (s \o t) \o u = s \o (t \o u)
OBVIOUS

\* A frame that is handed out leaves the stream what it is.
LEMMA PopKeeps ==
  ASSUME NEW s \in Seq(Frame), NEW q \in Seq(Frame), q # <<>>
  PROVE  Append(s, Head(q)) \o Tail(q) = s \o q
OBVIOUS

-----------------------------------------------------------------------------
\* The stream begins with message_start.
LEMMA FirstFrame ==
  ASSUME NEW s \in Seq(Frame), s = <<>>
  PROVE  Unfinished(Append(s, Start)) /\ ~Has(Append(s, Start), BlockStart(0))
<1>1. Start \in Frame
  BY FramesTyped
<1>2. WellFormed(s) /\ ~Final(s) /\ \A g : ~Has(s, g)
  BY DEF WellFormed, Final, Has, Before
<1>3. Follows(s, Start)
  BY DEF Follows, Start
<1>4. Start.kind \notin {"message_stop", "error"}
      /\ Start \notin {BlockStart(0), BlockStart(1), BlockStop(0), BlockStop(1)}
  BY DEF Start, BlockStart, BlockStop
<1>5. /\ Append(s, Start) # <<>> /\ WellFormed(Append(s, Start)) /\ ~Final(Append(s, Start))
      /\ \A g : Has(Append(s, Start), g) <=> Has(s, g) \/ g = Start
  BY <1>1, <1>2, <1>3, <1>4, Extend
<1> QED  BY <1>2, <1>4, <1>5 DEF Unfinished

LEMMA OpensText ==
  ASSUME NEW s \in Seq(Frame), Unfinished(s), ~Has(s, BlockStart(0))
  PROVE  LET t == Append(s, BlockStart(0))
         IN  t \in Seq(Frame) /\ Unfinished(t) /\ Has(t, BlockStart(0))
<1>1. BlockStart(0) \in Frame
  BY FramesTyped
<1>2. Follows(s, BlockStart(0))
  BY DEF Follows, Unfinished, BlockStart
<1> QED  BY <1>1, <1>2, Extend DEF Unfinished, BlockStart, BlockStop

LEMMA AddsText ==
  ASSUME NEW s \in Seq(Frame), Unfinished(s), Has(s, BlockStart(0)), NEW n \in 0..MaxChunks
  PROVE  LET t == Append(s, BlockDelta(0, n))
         IN  t \in Seq(Frame) /\ Unfinished(t) /\ Has(t, BlockStart(0))
<1>1. BlockDelta(0, n) \in Frame
  BY FramesTyped
<1>2. Follows(s, BlockDelta(0, n))
  BY DEF Follows, Unfinished, BlockDelta
<1> QED  BY <1>1, <1>2, Extend DEF Unfinished, BlockDelta, BlockStart, BlockStop

LEMMA AddsError ==
  ASSUME NEW s \in Seq(Frame), Unfinished(s)
  PROVE  WellFormed(Append(s, Error))
<1>1. Error \in Frame
  BY FramesTyped
<1>2. Follows(s, Error)
  BY DEF Follows, Unfinished, Error
<1> QED  BY <1>1, <1>2, Extend DEF Unfinished

\* Every block is closed, the first one at least was there.
Closed(s) ==
  /\ s # <<>> /\ WellFormed(s) /\ ~Final(s)
  /\ Has(s, BlockStart(0))
  /\ \A i \in {0, 1} : Has(s, BlockStart(i)) => Has(s, BlockStop(i))

LEMMA ClosesText ==
  ASSUME NEW s \in Seq(Frame), Unfinished(s), Has(s, BlockStart(0))
  PROVE  LET t == Append(s, BlockStop(0))
         IN  /\ t \in Seq(Frame) /\ Closed(t)
             /\ ~Has(t, BlockStart(1)) /\ ~Has(t, BlockStop(1)) /\ Has(t, BlockStop(0))
<1>1. BlockStop(0) \in Frame
  BY FramesTyped
<1>2. Follows(s, BlockStop(0))
  BY DEF Follows, Unfinished, BlockStop
<1> QED  BY <1>1, <1>2, Extend DEF Unfinished, Closed, BlockStart, BlockStop

\* A tool call is a block of its own: the first, or the second after a text.
LEMMA AddsTool ==
  ASSUME NEW s \in Seq(Frame), s # <<>>, WellFormed(s), ~Final(s), NEW i \in {0, 1},
         ~Has(s, BlockStart(i)), ~Has(s, BlockStop(i)),
         i = 0 => ~Has(s, BlockStart(1)),
         i = 1 => Has(s, BlockStart(0)) /\ Has(s, BlockStop(0))
  PROVE  s \o ToolFrames(i) \in Seq(Frame) /\ Closed(s \o ToolFrames(i))
<1> DEFINE a == Append(s, BlockStart(i))
           b == Append(a, BlockDelta(i, 0))
           c == Append(b, BlockStop(i))
<1>1. BlockStart(i) \in Frame /\ BlockDelta(i, 0) \in Frame /\ BlockStop(i) \in Frame
  BY FramesTyped, HttpAssumption
<1>2. Follows(s, BlockStart(i))
  BY DEF Follows, BlockStart
<1>3. /\ a \in Seq(Frame) /\ a # <<>> /\ WellFormed(a) /\ ~Final(a)
      /\ \A g : Has(a, g) <=> Has(s, g) \/ g = BlockStart(i)
  BY <1>1, <1>2, Extend DEF BlockStart
<1>4. Follows(a, BlockDelta(i, 0))
  BY <1>3 DEF Follows, BlockDelta, BlockStart, BlockStop
<1>5. /\ b \in Seq(Frame) /\ b # <<>> /\ WellFormed(b) /\ ~Final(b)
      /\ \A g : Has(b, g) <=> Has(a, g) \/ g = BlockDelta(i, 0)
  <2>1. BlockDelta(i, 0).kind \notin {"message_stop", "error"}
    BY DEF BlockDelta
  <2> HIDE DEF a
  <2> QED  BY <1>1, <1>3, <1>4, <2>1, Extend
<1>6. Follows(b, BlockStop(i))
  BY <1>3, <1>5 DEF Follows, BlockDelta, BlockStart, BlockStop
<1>7. /\ c \in Seq(Frame) /\ c # <<>> /\ WellFormed(c) /\ ~Final(c)
      /\ \A g : Has(c, g) <=> Has(b, g) \/ g = BlockStop(i)
  <2>1. BlockStop(i).kind \notin {"message_stop", "error"}
    BY DEF BlockStop
  <2> HIDE DEF b
  <2> QED  BY <1>1, <1>5, <1>6, <2>1, Extend
<1>8. Closed(c)
  BY <1>3, <1>5, <1>7 DEF Closed, BlockDelta, BlockStart, BlockStop
<1>9. s \o ToolFrames(i) = c
  BY <1>1, ConcatThree DEF ToolFrames
<1> QED  BY <1>7, <1>8, <1>9

\* The end of the message fits when its blocks are closed.
LEMMA MessageEnds ==
  ASSUME NEW s \in Seq(Frame), Closed(s)
  PROVE  WellFormed(s \o <<Delta, Stop>>)
<1> DEFINE a == Append(s, Delta)
<1>1. Delta \in Frame /\ Stop \in Frame
  BY FramesTyped
<1>2. Follows(s, Delta)
  BY DEF Follows, Closed, Delta
<1>3. a \in Seq(Frame) /\ a # <<>> /\ a[Len(a)] = Delta /\ WellFormed(a) /\ ~Final(a)
  BY <1>1, <1>2, Extend DEF Closed, Delta
<1>4. Follows(a, Stop)
  BY <1>3 DEF Follows, Stop
<1>5. WellFormed(Append(a, Stop))
  BY <1>1, <1>3, <1>4, Extend
<1> QED  BY <1>1, <1>5, ConcatTwo

\* ResponseSequence::finish ends the message as its blocks demand.
LEMMA FinishFits ==
  ASSUME NEW s \in Seq(Frame), Unfinished(s), textOpen <=> Has(s, BlockStart(0)),
         outcome \in {"text", "tool"}
  PROVE  WellFormed(s \o FinishFrames)
<1> DEFINE end == <<Delta, Stop>>
<1>1. /\ BlockStart(0) \in Frame /\ BlockStop(0) \in Frame
      /\ end \in Seq(Frame) /\ ToolFrames(0) \in Seq(Frame) /\ ToolFrames(1) \in Seq(Frame)
  <2>1. Delta \in Frame /\ Stop \in Frame
    BY FramesTyped
  <2>2. \A i \in {0, 1} : BlockStart(i) \in Frame /\ BlockDelta(i, 0) \in Frame /\ BlockStop(i) \in Frame
    BY FramesTyped, HttpAssumption
  <2> QED  BY <2>1, <2>2 DEF ToolFrames
<1>2. SUFFICES \E blocks \in Seq(Frame) :
                 FinishFrames = blocks \o end /\ Closed(s \o blocks) /\ s \o blocks \in Seq(Frame)
  <2>1. PICK blocks \in Seq(Frame) :
          FinishFrames = blocks \o end /\ Closed(s \o blocks) /\ s \o blocks \in Seq(Frame)
    BY <1>2
  <2>2. WellFormed((s \o blocks) \o end)
    BY <2>1, MessageEnds
  <2>3. (s \o blocks) \o end = s \o FinishFrames
    BY <1>1, <2>1, ConcatAssoc
  <2> QED  BY <2>2, <2>3
<1>3. CASE outcome = "text" /\ textOpen
  <2>1. FinishFrames = <<BlockStop(0)>> \o end
    BY <1>1, <1>3 DEF FinishFrames
  <2>2. s \o <<BlockStop(0)>> = Append(s, BlockStop(0))
    BY <1>1, Concatenations
  <2>3. Closed(Append(s, BlockStop(0))) /\ Append(s, BlockStop(0)) \in Seq(Frame)
    BY <1>3, ClosesText
  <2>4. <<BlockStop(0)>> \in Seq(Frame)
    BY <1>1
  <2> QED  BY <2>1, <2>2, <2>3, <2>4
<1>4. CASE outcome = "text" /\ ~textOpen
  <2>1. FinishFrames = <<BlockStart(0), BlockStop(0)>> \o end
    BY <1>1, <1>4 DEF FinishFrames
  <2>2. s \o <<BlockStart(0), BlockStop(0)>> = Append(Append(s, BlockStart(0)), BlockStop(0))
    BY <1>1, ConcatTwo
  <2>3. /\ Append(s, BlockStart(0)) \in Seq(Frame)
        /\ Unfinished(Append(s, BlockStart(0))) /\ Has(Append(s, BlockStart(0)), BlockStart(0))
    BY <1>4, OpensText
  <2>4. /\ Append(Append(s, BlockStart(0)), BlockStop(0)) \in Seq(Frame)
        /\ Closed(Append(Append(s, BlockStart(0)), BlockStop(0)))
    BY <2>3, ClosesText
  <2>5. <<BlockStart(0), BlockStop(0)>> \in Seq(Frame)
    BY <1>1
  <2> QED  BY <2>1, <2>2, <2>4, <2>5
<1>5. CASE outcome = "tool" /\ textOpen
  <2> DEFINE a == Append(s, BlockStop(0))
             blocks == <<BlockStop(0)>> \o ToolFrames(1)
  <2>1. FinishFrames = blocks \o end
    BY <1>5 DEF FinishFrames
  <2>2. a = s \o <<BlockStop(0)>> /\ <<BlockStop(0)>> \in Seq(Frame)
    BY <1>1, Concatenations
  <2>3. s \o blocks = a \o ToolFrames(1) /\ blocks \in Seq(Frame)
    BY <1>1, <2>2, ConcatAssoc, Concatenations
  <2>4. /\ a \in Seq(Frame) /\ Closed(a)
        /\ ~Has(a, BlockStart(1)) /\ ~Has(a, BlockStop(1)) /\ Has(a, BlockStop(0))
    BY <1>5, ClosesText
  <2>5. a \o ToolFrames(1) \in Seq(Frame) /\ Closed(a \o ToolFrames(1))
    <3> HIDE DEF a
    <3> QED  BY <2>4, AddsTool DEF Closed
  <2> QED  BY <2>1, <2>3, <2>5
<1>6. CASE outcome = "tool" /\ ~textOpen
  <2>1. FinishFrames = ToolFrames(0) \o end
    BY <1>6 DEF FinishFrames
  <2>2. s \o ToolFrames(0) \in Seq(Frame) /\ Closed(s \o ToolFrames(0))
    BY <1>6, AddsTool DEF Unfinished
  <2> QED  BY <1>1, <2>1, <2>2
<1> QED  BY <1>3, <1>4, <1>5, <1>6

\* A stream is well formed whatever part of it the client has; while content
\* may follow, text_started says whether its text block is open.
StreamInv ==
  kind = "stream" =>
    /\ handler \in {"select", "selectOutcome"} => wire = <<>> /\ queue = <<>> /\ ~textOpen
    /\ handler \in {"deltas", "outcome"} =>
         Unfinished(wire \o queue) /\ (textOpen <=> Has(wire \o queue, BlockStart(0)))
    /\ WellFormed(wire \o queue)

LEMMA StreamKept ==
  ASSUME TypeOK, OutcomeInv, HandlerInv, StreamInv, [Next]_vars
  PROVE  StreamInv'
<1> SUFFICES ASSUME kind' = "stream" PROVE StreamInv'
  BY DEF StreamInv
<1>1. /\ kind = "stream" /\ wire \in Seq(Frame) /\ queue \in Seq(Frame)
      /\ outcome \in {"none", "text", "tool", "error"}
      /\ handler \in {"select", "selectOutcome", "deltas", "outcome", "finished", "collect", "ended"}
  <2>1. kind' = kind
    BY DEF Next, TaskStep, SelectStep, BodyStep, Connect, Fetch, SendHead, Emit, ProducerEnds,
       DropSink, SendOutcome, SelectHead, SelectOutcome, PopFrame, AcceptDelta, ChunksAreOver,
       StreamOutcome, StreamEnds, RelayChunk, RelayOutcome, Collect, WholeOutcome, ClientLeaves,
       Over, vars
  <2> QED  BY <2>1 DEF TypeOK, TaskTypes, BodyTypes
<1>2. CASE TaskStep \/ Over \/ UNCHANGED vars
  <2>1. UNCHANGED <<kind, handler, wire, queue, textOpen>>
    BY <1>2 DEF TaskStep, Connect, Fetch, SendHead, Emit, ProducerEnds, DropSink, SendOutcome,
       Over, vars, bodyVars
  <2> QED  BY <2>1 DEF StreamInv
<1>3. CASE ClientLeaves \/ SelectOutcome \/ StreamEnds \/ ChunksAreOver
  <2>1. UNCHANGED <<kind, wire, queue, textOpen>>
    BY <1>3 DEF ClientLeaves, SelectOutcome, StreamEnds, ChunksAreOver
  <2>2. \/ handler' = "ended"
        \/ handler = "selectOutcome" /\ handler' = "select"
        \/ handler = "deltas" /\ handler' = "outcome"
    BY <1>3 DEF ClientLeaves, SelectOutcome, StreamEnds, ChunksAreOver, Ends
  <2> QED  BY <2>1, <2>2 DEF StreamInv
<1>4. CASE SelectHead
  <2>1. handler = "select" /\ wire = <<>> /\ wire' = wire /\ ~textOpen /\ textOpen' = textOpen
    BY <1>1, <1>4 DEF SelectHead, StreamInv
  <2>2. CASE handler' = "deltas"
    <3>1. queue' = <<Start>> /\ wire' = <<>> /\ Start \in Frame
      BY <1>1, <1>4, <2>1, <2>2, FramesTyped DEF SelectHead, Ends
    <3>2. wire' \o queue' = Append(wire, Start)
      BY <1>1, <2>1, <3>1
    <3>3. Unfinished(wire' \o queue') /\ ~Has(wire' \o queue', BlockStart(0))
      BY <1>1, <2>1, <3>2, FirstFrame
    <3> QED  BY <2>1, <2>2, <3>3 DEF StreamInv, Unfinished
  <2>3. CASE handler' # "deltas"
    <3>1. queue' = queue /\ handler' \in {"ended", "selectOutcome"} /\ kind' = kind
      BY <1>1, <1>4, <2>3 DEF SelectHead, Ends
    <3> QED  BY <1>1, <2>1, <3>1 DEF StreamInv
  <2> QED  BY <2>2, <2>3
<1>5. CASE PopFrame
  <2>1. /\ UNCHANGED <<kind, handler, textOpen>> /\ queue # <<>>
        /\ wire' = Append(wire, Head(queue)) /\ queue' = Tail(queue)
        /\ handler \in {"deltas", "outcome", "finished"}
    BY <1>5 DEF PopFrame
  <2>2. wire' \o queue' = wire \o queue
    BY <1>1, <2>1, PopKeeps
  <2> QED  BY <2>1, <2>2 DEF StreamInv
<1>6. CASE AcceptDelta
  <2> DEFINE n == Head(chunks)
  <2>1. /\ handler = "deltas" /\ handler' = "deltas" /\ queue = <<>> /\ wire' = wire /\ textOpen' = TRUE
        /\ queue' = (IF textOpen THEN <<>> ELSE <<BlockStart(0)>>) \o <<BlockDelta(0, n)>>
    BY <1>6 DEF AcceptDelta, Receives
  <2>2. n \in 0..MaxChunks
    BY <1>6, ReceiveTyped DEF AcceptDelta, Receives, TypeOK
  <2>3. BlockStart(0) \in Frame /\ BlockDelta(0, n) \in Frame
    BY <2>2, FramesTyped
  <2>4. wire \o queue = wire
    BY <1>1, <2>1, Concatenations
  <2>5. Unfinished(wire) /\ (textOpen <=> Has(wire, BlockStart(0)))
    BY <1>1, <2>1, <2>4 DEF StreamInv
  <2> HIDE DEF n
  <2>6. CASE textOpen
    <3>1. wire' \o queue' = Append(wire, BlockDelta(0, n))
      BY <1>1, <2>1, <2>3, <2>6
    <3>2. Unfinished(wire' \o queue') /\ Has(wire' \o queue', BlockStart(0))
      BY <1>1, <2>2, <2>5, <2>6, <3>1, AddsText
    <3> QED  BY <2>1, <3>2 DEF StreamInv, Unfinished
  <2>7. CASE ~textOpen
    <3> DEFINE a == <<BlockStart(0)>>
               b == <<BlockDelta(0, n)>>
    <3>1. queue' = a \o b /\ a \in Seq(Frame) /\ b \in Seq(Frame)
      BY <2>1, <2>3, <2>7
    <3>2. wire' \o queue' = Append(Append(wire, BlockStart(0)), BlockDelta(0, n))
      <4>1. wire \o a = Append(wire, BlockStart(0)) /\ wire \o a \in Seq(Frame)
        BY <1>1, <2>3, <3>1, Concatenations
      <4>2. (wire \o a) \o b = Append(wire \o a, BlockDelta(0, n))
        BY <2>3, <4>1, Concatenations
      <4>3. wire' \o queue' = (wire \o a) \o b
        <5> HIDE DEF a, b
        <5>1. (wire \o a) \o b = wire \o (a \o b)
          BY <1>1, <3>1, ConcatAssoc
        <5>2. wire' = wire /\ queue' = a \o b
          BY <2>1, <3>1
        <5> QED  BY <5>1, <5>2
      <4> QED  BY <4>1, <4>2, <4>3
    <3>3. /\ Append(wire, BlockStart(0)) \in Seq(Frame) /\ Unfinished(Append(wire, BlockStart(0)))
          /\ Has(Append(wire, BlockStart(0)), BlockStart(0))
      BY <1>1, <2>5, <2>7, OpensText
    <3>4. Unfinished(wire' \o queue') /\ Has(wire' \o queue', BlockStart(0))
      BY <2>2, <3>2, <3>3, AddsText
    <3> QED  BY <2>1, <3>4 DEF StreamInv, Unfinished
  <2> QED  BY <2>6, <2>7
<1>7. CASE StreamOutcome
  <2>1. /\ handler = "outcome" /\ handler' = "finished" /\ queue = <<>> /\ wire' = wire
        /\ queue' = IF outcome = "error" THEN <<Error>> ELSE FinishFrames
        /\ outcome # "none"
    BY <1>7 DEF StreamOutcome, OutcomeInv
  <2>2. wire \o queue = wire
    BY <1>1, <2>1, Concatenations
  <2>3. Unfinished(wire) /\ (textOpen <=> Has(wire, BlockStart(0)))
    BY <1>1, <2>1, <2>2 DEF StreamInv
  <2>4. WellFormed(wire' \o queue')
    <3>1. CASE outcome = "error"
      <4>1. wire' \o queue' = Append(wire, Error)
        BY <1>1, <2>1, <3>1, FramesTyped, Concatenations
      <4> QED  BY <1>1, <2>3, <4>1, AddsError
    <3>2. CASE outcome \in {"text", "tool"}
      BY <1>1, <2>1, <2>3, <3>2, FinishFits
    <3> QED  BY <1>1, <2>1, <3>1, <3>2
  <2> QED  BY <2>1, <2>4 DEF StreamInv
<1>8. CASE RelayChunk \/ RelayOutcome \/ Collect \/ WholeOutcome
  BY <1>1, <1>8 DEF RelayChunk, RelayOutcome, Collect, WholeOutcome, Local, HandlerInv
<1> QED
  BY <1>2, <1>3, <1>4, <1>5, <1>6, <1>7, <1>8 DEF Next, SelectStep, BodyStep

\* What the client has received of a well-formed stream is well formed.
LEMMA WireIsWellFormed ==
  ASSUME TypeOK, StreamInv
  PROVE  FramesAreWellFormed
<1> SUFFICES ASSUME kind = "stream", NEW n \in DOMAIN wire
             PROVE  Fits(wire, n) /\ (wire[n].kind \in {"message_stop", "error"} => n = Len(wire))
  BY DEF FramesAreWellFormed, Fits, Before, Starts, Stops
<1>1. wire \in Seq(Frame) /\ queue \in Seq(Frame)
  BY DEF TypeOK, BodyTypes
<1>2. /\ wire \o queue \in Seq(Frame) /\ Len(wire) <= Len(wire \o queue)
      /\ \A j \in 1..Len(wire) : wire[j] = (wire \o queue)[j]
  BY <1>1
<1>3. WellFormed(wire)
  BY <1>1, <1>2, WellFormedPrefix DEF StreamInv
<1> QED  BY <1>1, <1>3 DEF WellFormed

-----------------------------------------------------------------------------
(* The chunks in a sequence of frames.                                     *)

\* One step of the scan, and the scan of the first k frames.
Scanned(frames, sofar, n) ==
  IF IsContent(frames[n]) THEN Append(sofar, frames[n].chunk) ELSE sofar
IsScan(frames, k, g) ==
  g = [n \in 0..k |-> IF n = 0 THEN <<>> ELSE Scanned(frames, g[n - 1], n)]

\* The scan is defined by recursion; there is one, of any number of frames.
LEMMA ScanExists ==
  ASSUME NEW frames
  PROVE  \A k \in Nat : \E g : IsScan(frames, k, g)
<1> DEFINE T == {k \in Nat : \E g : IsScan(frames, k, g)}
<1>1. 0 \in T
  <2>1. IsScan(frames, 0, [n \in 0..0 |-> <<>>])
    BY DEF IsScan
  <2> QED  BY <2>1
<1>2. ASSUME NEW k \in Nat, k \in T
      PROVE  k + 1 \in T
  <2>1. PICK g : IsScan(frames, k, g)
    BY <1>2
  <2> DEFINE h == [n \in 0..(k + 1) |-> IF n <= k THEN g[n] ELSE Scanned(frames, g[k], k + 1)]
  <2>2. ASSUME NEW n \in 0..(k + 1)
        PROVE  h[n] = IF n = 0 THEN <<>> ELSE Scanned(frames, h[n - 1], n)
    <3>1. CASE n = 0
      BY <2>1, <3>1 DEF IsScan
    <3>2. CASE n \in 1..k
      <4>1. n \in 0..k /\ n - 1 \in 0..k /\ n - 1 \in 0..(k + 1) /\ n - 1 <= k /\ n <= k
        BY <3>2
      <4>2. h[n - 1] = g[n - 1] /\ h[n] = g[n]
        BY <4>1
      <4>3. g[n] = Scanned(frames, g[n - 1], n)
        BY <2>1, <3>2, <4>1 DEF IsScan
      <4> QED  BY <3>2, <4>2, <4>3
    <3>3. CASE n = k + 1
      <4>1. h[k] = g[k] /\ n # 0 /\ n - 1 = k
        BY <3>3
      <4> QED  BY <3>3, <4>1
    <3> QED  BY <3>1, <3>2, <3>3
  <2>3. IsScan(frames, k + 1, h)
    <3>1. h = [n \in 0..(k + 1) |-> h[n]]
      OBVIOUS
    <3> HIDE DEF h
    <3> QED  BY <2>2, <3>1 DEF IsScan
  <2> QED  BY <2>3
<1> HIDE DEF T
<1>3. \A k \in Nat : k \in T
  BY <1>1, <1>2, Induction
<1> QED  BY <1>3 DEF T

\* ChunksOf is where the scan of all frames ends.
LEMMA ScanOf ==
  ASSUME NEW frames, Len(frames) \in Nat
  PROVE  \E g : IsScan(frames, Len(frames), g) /\ ChunksOf(frames) = g[Len(frames)]
<1> DEFINE c == CHOOSE g : IsScan(frames, Len(frames), g)
<1>1. IsScan(frames, Len(frames), c)
  BY ScanExists, Zenon
<1>2. ChunksOf(frames) = c[Len(frames)]
  BY DEF ChunksOf, IsScan, Scanned
<1> QED  BY <1>1, <1>2

LEMMA ElementsTyped ==
  ASSUME NEW S, NEW s \in Seq(S)
  PROVE  \A i \in 1..Len(s) : s[i] \in S
OBVIOUS

LEMMA ChunksOfNone == ChunksOf(<<>>) = <<>>
<1>1. PICK g : IsScan(<<>>, 0, g) /\ ChunksOf(<<>>) = g[0]
  BY ScanOf
<1> QED  BY <1>1 DEF IsScan

\* One more frame brings its chunk, if it has one.
LEMMA ChunksOfMore ==
  ASSUME NEW s \in Seq(Frame), NEW f \in Frame
  PROVE  ChunksOf(Append(s, f)) =
           IF IsContent(f) THEN Append(ChunksOf(s), f.chunk) ELSE ChunksOf(s)
<1>1. PICK t : t = Append(s, f)
  OBVIOUS
<1>2. /\ t \in Seq(Frame) /\ Len(t) = Len(s) + 1 /\ Len(s) \in Nat /\ t[Len(s) + 1] = f
      /\ \A j \in 1..Len(s) : t[j] = s[j]
  BY <1>1
<1>3. PICK g : IsScan(t, Len(t), g) /\ ChunksOf(t) = g[Len(t)]
  BY <1>2, ScanOf
<1>4. PICK h : IsScan(s, Len(s), h) /\ ChunksOf(s) = h[Len(s)]
  BY <1>2, ScanOf
<1> DEFINE T == {n \in Nat : n <= Len(s) => g[n] = h[n]}
<1>5. 0 \in T
  BY <1>2, <1>3, <1>4 DEF IsScan
<1>6. ASSUME NEW n \in Nat, n \in T
      PROVE  n + 1 \in T
  <2> SUFFICES ASSUME n + 1 <= Len(s) PROVE g[n + 1] = h[n + 1]
    OBVIOUS
  <2>1. g[n] = h[n] /\ t[n + 1] = s[n + 1]
    BY <1>2, <1>6
  <2>2. g[n + 1] = Scanned(t, g[n], n + 1) /\ h[n + 1] = Scanned(s, h[n], n + 1)
    <3>1. n + 1 \in 0..Len(t) /\ n + 1 \in 0..Len(s) /\ n + 1 # 0 /\ (n + 1) - 1 = n
      BY <1>2
    <3> QED  BY <1>3, <1>4, <3>1 DEF IsScan
  <2> QED  BY <2>1, <2>2 DEF Scanned
<1> HIDE DEF T
<1>7. Len(s) \in T
  BY <1>2, <1>5, <1>6, Induction
<1>8. g[Len(s)] = h[Len(s)]
  BY <1>2, <1>7 DEF T
<1>9. g[Len(t)] = Scanned(t, g[Len(s)], Len(t))
  <2>1. Len(t) \in 0..Len(t) /\ Len(t) # 0 /\ Len(t) - 1 = Len(s)
    BY <1>2
  <2> QED  BY <1>3, <2>1 DEF IsScan
<1> QED  BY <1>1, <1>2, <1>3, <1>4, <1>8, <1>9 DEF Scanned

LEMMA ChunksOfTyped == \A s \in Seq(Frame) : ChunksOf(s) \in Seq(Nat)
<1> DEFINE T == {s \in Seq(Frame) : ChunksOf(s) \in Seq(Nat)}
<1>1. <<>> \in T
  <2>1. <<>> \in Seq(Frame) /\ <<>> \in Seq(Nat)
    OBVIOUS
  <2> QED  BY <2>1, ChunksOfNone, Zenon
<1>2. ASSUME NEW s \in Seq(Frame), NEW f \in Frame, s \in T
      PROVE  Append(s, f) \in T
  <2>1. f.chunk \in Nat /\ Append(s, f) \in Seq(Frame)
    BY HttpAssumption DEF Frame
  <2>2. ChunksOf(s) \in Seq(Nat) /\ Append(ChunksOf(s), f.chunk) \in Seq(Nat)
    BY <1>2, <2>1
  <2>3. ChunksOf(Append(s, f)) \in Seq(Nat)
    BY <2>2, ChunksOfMore
  <2> QED  BY <2>1, <2>3
<1> HIDE DEF T
<1>3. \A s \in Seq(Frame) : s \in T
  BY <1>1, <1>2, SequenceInduction
<1> QED  BY <1>3 DEF T

\* Frames without a chunk bring none.
LEMMA ChunksOfEnd ==
  ASSUME NEW s \in Seq(Frame)
  PROVE  \A t \in Seq(Frame) : (\A j \in 1..Len(t) : ~IsContent(t[j])) => ChunksOf(s \o t) = ChunksOf(s)
<1> DEFINE T == {t \in Seq(Frame) : (\A j \in 1..Len(t) : ~IsContent(t[j])) => ChunksOf(s \o t) = ChunksOf(s)}
<1>1. <<>> \in T
  OBVIOUS
<1>2. ASSUME NEW t \in Seq(Frame), NEW f \in Frame, t \in T
      PROVE  Append(t, f) \in T
  <2>1. Append(t, f) \in Seq(Frame) /\ s \o t \in Seq(Frame) /\ s \o Append(t, f) = Append(s \o t, f)
    OBVIOUS
  <2>2. /\ Len(Append(t, f)) = Len(t) + 1 /\ Len(t) \in Nat /\ Append(t, f)[Len(t) + 1] = f
        /\ \A j \in 1..Len(t) : Append(t, f)[j] = t[j]
    OBVIOUS
  <2>3. ASSUME \A j \in 1..Len(Append(t, f)) : ~IsContent(Append(t, f)[j])
        PROVE  ChunksOf(s \o Append(t, f)) = ChunksOf(s)
    <3>1. ~IsContent(f) /\ \A j \in 1..Len(t) : ~IsContent(t[j])
      BY <2>2, <2>3
    <3>2. ChunksOf(s \o t) = ChunksOf(s)
      BY <1>2, <3>1
    <3> QED  BY <2>1, <3>1, <3>2, ChunksOfMore
  <2> QED  BY <2>1, <2>3
<1> HIDE DEF T
<1>3. \A t \in Seq(Frame) : t \in T
  BY <1>1, <1>2, SequenceInduction
<1> QED  BY <1>3 DEF T

\* The first n pieces, as ResponseRelay numbers them.
Pieces(n) == [i \in 1..n |-> i]

LEMMA PiecesTyped ==
  ASSUME NEW n \in Nat
  PROVE  /\ Pieces(n) \in Seq(Nat) /\ Len(Pieces(n)) = n
         /\ Append(Pieces(n), n + 1) = Pieces(n + 1)
BY DEF Pieces

\* Pieces that end with a piece begin with the ones before it.
LEMMA PiecesBefore ==
  ASSUME NEW s \in Seq(Nat), NEW c, NEW n \in Nat, Append(s, c) = Pieces(n)
  PROVE  n > 0 /\ s = Pieces(n - 1) /\ c = n
<1>1. Len(s) \in Nat /\ Len(Append(s, c)) = Len(s) + 1
  OBVIOUS
<1>2. n = Len(s) + 1
  BY <1>1, PiecesTyped
<1>3. \A i \in 1..Len(s) : s[i] = i
  <2>1. \A i \in 1..Len(s) : Append(s, c)[i] = s[i]
    OBVIOUS
  <2>2. \A i \in 1..n : Pieces(n)[i] = i
    BY DEF Pieces
  <2> QED  BY <1>1, <1>2, <2>1, <2>2
<1>4. c = n
  <2>1. Append(s, c)[Len(s) + 1] = c
    OBVIOUS
  <2> QED  BY <1>1, <1>2, <2>1 DEF Pieces
<1>5. s = Pieces(Len(s))
  BY <1>1, <1>3 DEF Pieces
<1> QED  BY <1>1, <1>2, <1>4, <1>5

\* Frames whose chunks are the first pieces begin with frames whose chunks are.
LEMMA PiecesPrefix ==
  ASSUME NEW s \in Seq(Frame)
  PROVE  \A t \in Seq(Frame) : \A n \in Nat :
           ChunksOf(s \o t) = Pieces(n) => \E m \in 0..n : ChunksOf(s) = Pieces(m)
<1> DEFINE T == {t \in Seq(Frame) : \A n \in Nat :
                   ChunksOf(s \o t) = Pieces(n) => \E m \in 0..n : ChunksOf(s) = Pieces(m)}
<1>1. <<>> \in T
  OBVIOUS
<1>2. ASSUME NEW t \in Seq(Frame), NEW f \in Frame, t \in T
      PROVE  Append(t, f) \in T
  <2>1. Append(t, f) \in Seq(Frame) /\ s \o t \in Seq(Frame) /\ s \o Append(t, f) = Append(s \o t, f)
    OBVIOUS
  <2>2. ASSUME NEW n \in Nat, ChunksOf(s \o Append(t, f)) = Pieces(n)
        PROVE  \E m \in 0..n : ChunksOf(s) = Pieces(m)
    <3>1. ChunksOf(s \o t) \in Seq(Nat)
      BY <2>1, ChunksOfTyped
    <3>2. CASE IsContent(f)
      <4>1. Append(ChunksOf(s \o t), f.chunk) = Pieces(n)
        BY <2>1, <2>2, <3>2, ChunksOfMore
      <4>2. n > 0 /\ ChunksOf(s \o t) = Pieces(n - 1)
        BY <3>1, <4>1, PiecesBefore
      <4>3. PICK m \in 0..(n - 1) : ChunksOf(s) = Pieces(m)
        BY <1>2, <4>2
      <4> QED  BY <4>3
    <3>3. CASE ~IsContent(f)
      <4>1. ChunksOf(s \o t) = Pieces(n)
        BY <2>1, <2>2, <3>3, ChunksOfMore
      <4> QED  BY <1>2, <4>1
    <3> QED  BY <3>2, <3>3
  <2> QED  BY <2>1, <2>2
<1> HIDE DEF T
<1>3. \A t \in Seq(Frame) : t \in T
  BY <1>1, <1>2, SequenceInduction
<1> QED  BY <1>3 DEF T

\* The frames a whole message is built from have its text as their chunks.
LEMMA ChunksOfText ==
  \A s \in Seq(1..MaxChunks) : ChunksOf([i \in DOMAIN s |-> BlockDelta(0, s[i])]) = s
<1> DEFINE Deltas(s) == [i \in DOMAIN s |-> BlockDelta(0, s[i])]
           T == {s \in Seq(1..MaxChunks) : ChunksOf(Deltas(s)) = s}
<1>1. <<>> \in T
  <2>1. Deltas(<<>>) = <<>>
    OBVIOUS
  <2> QED  BY <2>1, ChunksOfNone
<1>2. ASSUME NEW s \in Seq(1..MaxChunks), NEW c \in 1..MaxChunks, s \in T
      PROVE  Append(s, c) \in T
  <2>1. \A n \in 0..MaxChunks : BlockDelta(0, n) \in Frame
    BY FramesTyped
  <2>2. Deltas(s) \in Seq(Frame) /\ BlockDelta(0, c) \in Frame
    <3>1. \A i \in 1..Len(s) : s[i] \in 0..MaxChunks
      <4>1. \A n \in 1..MaxChunks : n \in 0..MaxChunks
        BY HttpAssumption
      <4>2. \A i \in 1..Len(s) : s[i] \in 1..MaxChunks
        BY ElementsTyped
      <4> QED  BY <4>1, <4>2
    <3>2. \A i \in 1..Len(s) : BlockDelta(0, s[i]) \in Frame
      BY <2>1, <3>1
    <3>3. c \in 0..MaxChunks /\ DOMAIN s = 1..Len(s) /\ Len(s) \in Nat
      OBVIOUS
    <3> QED  BY <2>1, <3>2, <3>3
  <2>3. Deltas(Append(s, c)) = Append(Deltas(s), BlockDelta(0, c))
    OBVIOUS
  <2>4. IsContent(BlockDelta(0, c)) /\ BlockDelta(0, c).chunk = c
    BY HttpAssumption DEF IsContent, BlockDelta
  <2>5. ChunksOf(Append(Deltas(s), BlockDelta(0, c))) = Append(ChunksOf(Deltas(s)), c)
    <3> HIDE DEF Deltas
    <3> QED  BY <2>2, <2>4, ChunksOfMore
  <2>6. ChunksOf(Deltas(Append(s, c))) = Append(s, c)
    BY <1>2, <2>3, <2>5
  <2>7. Append(s, c) \in Seq(1..MaxChunks)
    OBVIOUS
  <2> QED  BY <2>6, <2>7, Zenon
<1> HIDE DEF T
<1>3. \A s \in Seq(1..MaxChunks) : s \in T
  BY <1>1, <1>2, SequenceInduction
<1> QED  BY <1>3 DEF T

-----------------------------------------------------------------------------
(* The contract of the adapter.                                            *)

\* The task and the body agree on what is over: the outcome is the last thing
\* the task learns, the sink goes with it, and a body that looks for the outcome
\* has taken every chunk.
EndInv ==
  /\ task \in {"connect", "fetch", "start", "produce"} => outcome = "none"
  /\ txOpen <=> task \notin {"answer", "done"}
  /\ handler \in {"outcome", "finished"} => chunks = <<>> /\ ~txOpen
  /\ handler = "finished" => sent /\ wire # <<>>
  /\ kind = "stream" /\ outcome \in {"none", "error"} => ~Has(wire \o queue, Stop)

\* Every piece is in one place: with the client, in a queued frame, in the text
\* of the message, or in the channel, in the order of their production.
PlacesInv ==
  response = "open" =>
    /\ \A i \in 1..Len(chunks) : chunks[i] = produced - Len(chunks) + i
    /\ kind = "whole" => wire = <<>> /\ queue = <<>> /\ text = Pieces(Len(text))
    /\ kind \notin Local => queue = <<>>
    /\ kind # "whole" => ChunksOf(wire \o queue) = Pieces(produced - Len(chunks))

\* What the client has is the first of what was produced.
ReceivedInv == \E n \in 0..produced : ChunksOf(wire) = Pieces(n)

\* Frames without a chunk.
Silent(s) == s \in Seq(Frame) /\ \A j \in 1..Len(s) : ~IsContent(s[j])

LEMMA SilentTogether ==
  ASSUME NEW s, NEW t, Silent(s), Silent(t)
  PROVE  Silent(s \o t)
BY DEF Silent

\* No frame that finishes a message brings a chunk.
LEMMA FinishIsSilent ==
  ASSUME outcome \in {"text", "tool"}
  PROVE  Silent(FinishFrames)
<1>1. /\ ~IsContent(Delta) /\ ~IsContent(Stop)
      /\ \A i \in {0, 1} : ~IsContent(BlockStart(i)) /\ ~IsContent(BlockStop(i)) /\ ~IsContent(BlockDelta(i, 0))
  BY DEF IsContent, BlockStart, BlockStop, BlockDelta, Delta, Stop
<1>2. /\ Delta \in Frame /\ Stop \in Frame
      /\ \A i \in {0, 1} : BlockStart(i) \in Frame /\ BlockStop(i) \in Frame /\ BlockDelta(i, 0) \in Frame
  BY FramesTyped, HttpAssumption
<1>3. Silent(<<>>) /\ Silent(<<Delta, Stop>>) /\ Silent(<<BlockStart(0)>>) /\ Silent(<<BlockStop(0)>>)
  BY <1>1, <1>2 DEF Silent
<1>4. Silent(ToolFrames(0)) /\ Silent(ToolFrames(1))
  BY <1>1, <1>2 DEF Silent, ToolFrames
<1>5. CASE outcome = "text"
  <2>1. FinishFrames = ((IF textOpen THEN <<>> ELSE <<BlockStart(0)>>) \o <<BlockStop(0)>>) \o <<Delta, Stop>>
    BY <1>5 DEF FinishFrames
  <2>2. Silent(IF textOpen THEN <<>> ELSE <<BlockStart(0)>>)
    BY <1>3
  <2> QED  BY <1>3, <2>1, <2>2, SilentTogether
<1>6. CASE outcome = "tool"
  <2>1. FinishFrames = (IF textOpen THEN <<BlockStop(0)>> \o ToolFrames(1) ELSE ToolFrames(0)) \o <<Delta, Stop>>
    BY <1>6 DEF FinishFrames
  <2>2. Silent(<<BlockStop(0)>> \o ToolFrames(1))
    BY <1>3, <1>4, SilentTogether
  <2> QED  BY <1>3, <1>4, <2>1, <2>2, SilentTogether
<1> QED  BY <1>5, <1>6

\* A step keeps the task and the body in agreement.
LEMMA EndKept ==
  ASSUME TypeOK, OutcomeInv, HandlerInv, StreamInv, EndInv, [Next]_vars
  PROVE  EndInv'
<1> USE DEF Goto, taskVars, channelVars, bodyVars, Ends
<1>1. /\ wire \in Seq(Frame) /\ queue \in Seq(Frame)
      /\ task \in {"connect", "fetch", "start", "produce", "drop", "answer", "done"}
      /\ handler \in {"select", "selectOutcome", "deltas", "outcome", "finished", "collect", "ended"}
      /\ outcome \in {"none", "text", "tool", "error"}
      /\ txOpen \in BOOLEAN /\ sent \in BOOLEAN
  BY DEF TypeOK, TaskTypes, ChannelTypes, BodyTypes
<1>2. CASE Connect \/ Fetch \/ SendHead \/ ProducerEnds \/ DropSink \/ SendOutcome
  <2>1. UNCHANGED <<kind, wire, queue, handler, chunks>>
    BY <1>2 DEF Connect, Fetch, SendHead, ProducerEnds, DropSink, SendOutcome
  <2>2. outcome' \in {"none", "error"} => outcome \in {"none", "error"}
    BY <1>2 DEF Connect, Fetch, SendHead, ProducerEnds, DropSink, SendOutcome, EndInv
  <2>3. /\ task' \in {"connect", "fetch", "start", "produce"} => outcome' = "none"
        /\ txOpen' <=> task' \notin {"answer", "done"}
        /\ handler' \in {"outcome", "finished"} => chunks' = <<>> /\ ~txOpen'
        /\ handler' = "finished" => sent' /\ wire' # <<>>
    BY <1>1, <1>2 DEF Connect, Fetch, SendHead, ProducerEnds, DropSink, SendOutcome, EndInv
  <2> QED  BY <2>1, <2>2, <2>3 DEF EndInv
<1>3. CASE Emit
  <2>1. UNCHANGED <<kind, wire, queue, handler, sent, txOpen>>
    BY <1>3 DEF Emit
  <2>2. txOpen /\ outcome = "none"
    BY <1>3 DEF Emit, EndInv
  <2>3. handler \notin {"outcome", "finished"}
    BY <2>2 DEF EndInv
  <2>4. task' \in {"produce", "drop"} /\ (task' = "produce" => outcome' = outcome)
    BY <1>3 DEF Emit
  <2>5. outcome' \in {"none", "error"}
    BY <1>3, <2>2 DEF Emit
  <2> QED  BY <2>1, <2>2, <2>3, <2>4, <2>5 DEF EndInv
<1>4. CASE SelectStep \/ ChunksAreOver \/ StreamEnds \/ RelayOutcome \/ ClientLeaves \/ Over \/ UNCHANGED vars
  <2>1. UNCHANGED <<kind, task, outcome, txOpen, sent, wire, chunks>>
    BY <1>4 DEF SelectStep, SelectHead, SelectOutcome, ChunksAreOver, StreamEnds, RelayOutcome,
       ClientLeaves, Over, vars
  <2>2. \/ queue' = queue
        \/ SelectHead /\ queue' \in {<<>>, <<Start>>}
    BY <1>4 DEF SelectStep, SelectHead, SelectOutcome, ChunksAreOver, StreamEnds, RelayOutcome,
       ClientLeaves, Over, vars
  <2>3. kind = "stream" => queue' = queue \/ ~Has(wire' \o queue', Stop)
    <3>1. SUFFICES ASSUME kind = "stream", SelectHead, queue' \in {<<>>, <<Start>>}
                   PROVE  ~Has(wire' \o queue', Stop)
      BY <2>2
    <3>2. wire' = <<>>
      BY <2>1, <3>1 DEF SelectHead, StreamInv
    <3>3. <<>> \o <<Start>> = <<Start>> /\ <<>> \o <<>> = <<>>
      BY FramesTyped, Concatenations
    <3>4. ~Has(<<>>, Stop) /\ ~Has(<<Start>>, Stop)
      BY DEF Has, Before, Start, Stop
    <3> QED  BY <3>1, <3>2, <3>3, <3>4
  <2>4. handler' = handler \/ handler' \notin {"outcome", "finished"} \/ ChunksAreOver
    BY <1>4 DEF SelectStep, SelectHead, SelectOutcome, ChunksAreOver, StreamEnds, RelayOutcome,
       ClientLeaves, Over, vars
  <2>5. ChunksAreOver => chunks = <<>> /\ ~txOpen /\ handler' = "outcome"
    BY DEF ChunksAreOver
  <2> QED  BY <2>1, <2>3, <2>4, <2>5 DEF EndInv
<1>5. CASE PopFrame
  <2>1. UNCHANGED <<kind, task, outcome, txOpen, sent, handler, chunks>> /\ wire' \o queue' = wire \o queue
    BY <1>1, <1>5, PopKeeps DEF PopFrame
  <2>2. wire' # <<>>
    BY <1>1, <1>5 DEF PopFrame
  <2> QED  BY <2>1, <2>2 DEF EndInv
<1>6. CASE AcceptDelta
  <2>1. /\ UNCHANGED <<kind, task, outcome, txOpen, sent, handler, wire>> /\ handler = "deltas"
        /\ kind = "stream"
    BY <1>6 DEF AcceptDelta, Receives
  <2>2. StreamInv'
    BY StreamKept
  <2>3. ~Has(wire' \o queue', Stop)
    BY <2>1, <2>2 DEF StreamInv, Unfinished, Final, Has, Before, Stop
  <2> QED  BY <2>1, <2>3 DEF EndInv
<1>7. CASE StreamOutcome
  <2>1. /\ UNCHANGED <<kind, task, outcome, txOpen, sent, chunks, wire>>
        /\ handler = "outcome" /\ handler' = "finished" /\ sent /\ queue = <<>> /\ outcome # "none"
        /\ queue' = IF outcome = "error" THEN <<Error>> ELSE FinishFrames
    BY <1>7 DEF StreamOutcome, OutcomeInv
  <2>2. outcome = "error" => wire' \o queue' = Append(wire \o queue, Error)
    BY <1>1, <2>1, FramesTyped, Concatenations
  <2>3. kind = "stream" /\ outcome = "error" => ~Has(wire' \o queue', Stop)
    <3> SUFFICES ASSUME kind = "stream", outcome = "error"
                 PROVE  ~Has(wire' \o queue', Stop)
      OBVIOUS
    <3>1. wire \o queue \in Seq(Frame) /\ Error \in Frame
      BY <1>1, FramesTyped, Concatenations
    <3>2. Has(Append(wire \o queue, Error), Stop) <=> Has(wire \o queue, Stop) \/ Stop = Error
      BY <3>1, Extend
    <3>3. Stop # Error
      BY DEF Stop, Error
    <3> QED  BY <2>2, <3>2, <3>3 DEF EndInv
  <2>4. wire # <<>>
    BY <1>1, <1>7, <2>1, Concatenations DEF StreamOutcome, StreamInv, Unfinished
  <2> QED  BY <2>1, <2>3, <2>4 DEF EndInv
<1>8. CASE RelayChunk \/ Collect \/ WholeOutcome
  <2>1. UNCHANGED <<kind, task, outcome, txOpen, sent>> /\ kind # "stream"
    BY <1>8 DEF RelayChunk, Collect, WholeOutcome, Local, HandlerInv
  <2>2. handler' \notin {"outcome", "finished"}
    BY <1>8 DEF RelayChunk, Receives, Collect, WholeOutcome
  <2> QED  BY <2>1, <2>2 DEF EndInv
<1> QED
  BY <1>2, <1>3, <1>4, <1>5, <1>6, <1>7, <1>8 DEF Next, TaskStep, BodyStep

\* A chunk that is received is the next piece.
LEMMA ReceivesNext ==
  ASSUME TypeOK, chunks # <<>>, chunks' = Tail(chunks), produced' = produced,
         \A i \in 1..Len(chunks) : chunks[i] = produced - Len(chunks) + i
  PROVE  /\ Head(chunks) = (produced - Len(chunks)) + 1
         /\ produced' - Len(chunks') = (produced - Len(chunks)) + 1
         /\ \A i \in 1..Len(chunks') : chunks'[i] = produced' - Len(chunks') + i
<1>1. chunks \in Seq(1..MaxChunks) /\ produced \in Nat
  BY DEF TypeOK, TaskTypes, ChannelTypes
<1>2. /\ Head(chunks) = chunks[1] /\ Len(chunks) \in Nat /\ Len(chunks) > 0
      /\ Len(chunks') = Len(chunks) - 1
      /\ \A i \in 1..Len(chunks') : chunks'[i] = chunks[i + 1]
  BY <1>1
<1> QED  BY <1>1, <1>2

\* The channel never holds more than was produced.
LEMMA ChannelHoldsPieces ==
  ASSUME TypeOK, \A i \in 1..Len(chunks) : chunks[i] = produced - Len(chunks) + i
  PROVE  produced - Len(chunks) \in Nat
<1>1. chunks \in Seq(1..MaxChunks) /\ produced \in Nat /\ Len(chunks) \in Nat
  BY DEF TypeOK, TaskTypes, ChannelTypes
<1>2. CASE Len(chunks) = 0
  BY <1>1, <1>2
<1>3. CASE Len(chunks) > 0
  <2>0. 1 \in 1..Len(chunks)
    BY <1>1, <1>3
  <2>1. chunks[1] \in 1..MaxChunks
    BY <1>1, <2>0, ElementsTyped
  <2>2. chunks[1] = produced - Len(chunks) + 1 /\ chunks[1] >= 1
    BY <2>0, <2>1, HttpAssumption
  <2> QED  BY <1>1, <2>2
<1> QED  BY <1>1, <1>2, <1>3

\* A step moves a piece from one place to the next, and loses none.
LEMMA PlacesKept ==
  ASSUME TypeOK, OutcomeInv, HandlerInv, CollectInv, EndInv, PlacesInv, StreamInv, [Next]_vars
  PROVE  PlacesInv'
<1> USE DEF Goto, taskVars, channelVars, bodyVars, Ends
<1> SUFFICES ASSUME response' = "open" PROVE PlacesInv'
  BY DEF PlacesInv
<1>1. /\ wire \in Seq(Frame) /\ queue \in Seq(Frame) /\ text \in Seq(1..MaxChunks)
      /\ chunks \in Seq(1..MaxChunks) /\ produced \in Nat /\ Len(chunks) \in Nat /\ kind \in Kinds
      /\ outcome \in {"none", "text", "tool", "error"}
  BY DEF TypeOK, TaskTypes, ChannelTypes, BodyTypes
<1>2. response = "open" /\ kind' = kind
  BY DEF Next, TaskStep, SelectStep, BodyStep, Connect, Fetch, SendHead, Emit, ProducerEnds,
     DropSink, SendOutcome, SelectHead, SelectOutcome, PopFrame, AcceptDelta, ChunksAreOver,
     StreamOutcome, StreamEnds, RelayChunk, RelayOutcome, Collect, WholeOutcome, ClientLeaves,
     Over, vars, HandlerInv
<1>3. /\ \A i \in 1..Len(chunks) : chunks[i] = produced - Len(chunks) + i
      /\ kind = "whole" => wire = <<>> /\ queue = <<>> /\ text = Pieces(Len(text))
      /\ kind \notin Local => queue = <<>>
      /\ kind # "whole" => ChunksOf(wire \o queue) = Pieces(produced - Len(chunks))
  BY <1>2 DEF PlacesInv
<1>4. produced - Len(chunks) \in Nat
  BY <1>3, ChannelHoldsPieces
<1>5. CASE UNCHANGED <<wire, queue, text, chunks, produced>>
  BY <1>2, <1>3, <1>5 DEF PlacesInv
<1>6. CASE Connect \/ Fetch \/ SendHead \/ ProducerEnds \/ DropSink \/ SendOutcome \/ SelectOutcome
           \/ ChunksAreOver \/ StreamEnds \/ RelayOutcome \/ ClientLeaves \/ Over \/ UNCHANGED vars
  <2>1. UNCHANGED <<wire, queue, text, chunks, produced>>
    BY <1>6 DEF Connect, Fetch, SendHead, ProducerEnds, DropSink, SendOutcome, SelectOutcome,
       ChunksAreOver, StreamEnds, RelayOutcome, ClientLeaves, Over, vars
  <2> QED  BY <1>5, <2>1
<1>7. CASE Emit
  <2>1. UNCHANGED <<wire, queue, text>>
    BY <1>7 DEF Emit
  <2>2. CASE chunks' = Append(chunks, produced + 1) /\ produced' = produced + 1
    <3>1. /\ Len(chunks') = Len(chunks) + 1 /\ chunks'[Len(chunks) + 1] = produced + 1
          /\ \A i \in 1..Len(chunks) : chunks'[i] = chunks[i]
      BY <1>1, <2>2
    <3>2. \A i \in 1..Len(chunks') : chunks'[i] = produced' - Len(chunks') + i
      BY <1>1, <1>3, <2>2, <3>1
    <3>3. produced' - Len(chunks') = produced - Len(chunks)
      BY <1>1, <2>2, <3>1
    <3> QED  BY <1>2, <1>3, <2>1, <3>2, <3>3 DEF PlacesInv
  <2>3. CASE UNCHANGED <<chunks, produced>>
    BY <1>5, <2>1, <2>3
  <2> QED  BY <1>7, <2>2, <2>3 DEF Emit
<1>8. CASE SelectHead
  <2>1. UNCHANGED <<wire, text, chunks, produced>>
        /\ (queue' = queue \/ queue' = IF kind = "stream" THEN <<Start>> ELSE <<>>)
        /\ handler = "select"
    BY <1>8 DEF SelectHead
  <2>2. CASE queue' = queue
    BY <1>5, <2>1, <2>2
  <2>3. CASE kind = "stream" /\ queue' = <<Start>>
    <3>1. wire = <<>> /\ queue = <<>>
      BY <2>1, <2>3 DEF StreamInv
    <3>2. wire' \o queue' = Append(wire \o queue, Start) /\ wire \o queue \in Seq(Frame) /\ Start \in Frame
      BY <1>1, <2>1, <2>3, <3>1, FramesTyped
    <3>3. ~IsContent(Start)
      BY DEF IsContent, Start
    <3>4. ChunksOf(wire' \o queue') = ChunksOf(wire \o queue)
      BY <3>2, <3>3, ChunksOfMore
    <3> QED  BY <1>2, <1>3, <2>1, <2>3, <3>4 DEF PlacesInv, Local
  <2>4. CASE kind # "stream" /\ queue' = <<>>
    <3>1. queue = <<>>
      BY <1>3, <2>4 DEF Local
    <3> QED  BY <1>5, <2>1, <2>4, <3>1
  <2> QED  BY <2>1, <2>2, <2>3, <2>4
<1>9. CASE PopFrame
  <2>1. /\ UNCHANGED <<text, chunks, produced>> /\ wire' \o queue' = wire \o queue
        /\ queue # <<>>
    BY <1>1, <1>9, PopKeeps DEF PopFrame
  <2> QED  BY <1>2, <1>3, <2>1 DEF PlacesInv
<1>10. CASE AcceptDelta
  <2> DEFINE n == Head(chunks)
  <2>1. /\ kind = "stream" /\ queue = <<>> /\ chunks # <<>> /\ chunks' = Tail(chunks)
        /\ UNCHANGED <<wire, text, produced>>
        /\ queue' = (IF textOpen THEN <<>> ELSE <<BlockStart(0)>>) \o <<BlockDelta(0, n)>>
    BY <1>10 DEF AcceptDelta, Receives
  <2>2. /\ n = (produced - Len(chunks)) + 1
        /\ produced' - Len(chunks') = (produced - Len(chunks)) + 1
        /\ \A i \in 1..Len(chunks') : chunks'[i] = produced' - Len(chunks') + i
    BY <1>3, <2>1, ReceivesNext
  <2>3. n \in 1..MaxChunks
    BY <2>1, ReceiveTyped DEF TypeOK
  <2>4. BlockStart(0) \in Frame /\ BlockDelta(0, n) \in Frame
    BY <2>3, FramesTyped, HttpAssumption
  <2>5. ~IsContent(BlockStart(0)) /\ IsContent(BlockDelta(0, n)) /\ BlockDelta(0, n).chunk = n
    BY <2>3, HttpAssumption DEF IsContent, BlockStart, BlockDelta
  <2> HIDE DEF n
  <2>6. PICK s \in Seq(Frame) : wire' \o queue' = Append(s, BlockDelta(0, n)) /\ ChunksOf(s) = ChunksOf(wire \o queue)
    <3>1. wire \o queue = wire
      BY <1>1, <2>1, Concatenations
    <3>2. CASE textOpen
      <4>1. wire' \o queue' = Append(wire, BlockDelta(0, n))
        BY <1>1, <2>1, <2>4, <3>2
      <4> QED  BY <1>1, <3>1, <4>1
    <3>3. CASE ~textOpen
      <4>1. Append(wire, BlockStart(0)) \in Seq(Frame)
        BY <1>1, <2>4
      <4>2. queue' = <<BlockStart(0)>> \o <<BlockDelta(0, n)>> /\ <<BlockStart(0)>> \in Seq(Frame)
        BY <2>1, <2>4, <3>3
      <4>3. wire \o (<<BlockStart(0)>> \o <<BlockDelta(0, n)>>) = Append(wire \o <<BlockStart(0)>>, BlockDelta(0, n))
        BY <1>1, <2>4, <4>2, Concatenations
      <4>4. wire \o <<BlockStart(0)>> = Append(wire, BlockStart(0))
        BY <1>1, <2>4, Concatenations
      <4>5. ChunksOf(Append(wire, BlockStart(0))) = ChunksOf(wire)
        BY <1>1, <2>4, <2>5, ChunksOfMore
      <4> QED  BY <2>1, <3>1, <4>1, <4>2, <4>3, <4>4, <4>5
    <3> QED  BY <3>2, <3>3
  <2>7. ChunksOf(wire' \o queue') = Append(Pieces(produced - Len(chunks)), n)
    <3>1. ChunksOf(Append(s, BlockDelta(0, n))) = Append(ChunksOf(s), n)
      BY <2>4, <2>5, <2>6, ChunksOfMore
    <3> QED  BY <1>3, <2>1, <2>6, <3>1
  <2>8. ChunksOf(wire' \o queue') = Pieces(produced' - Len(chunks'))
    BY <1>4, <2>2, <2>7, PiecesTyped
  <2> QED  BY <1>2, <2>1, <2>2, <2>8 DEF PlacesInv, Local
<1>11. CASE StreamOutcome
  <2>1. /\ UNCHANGED <<wire, text, chunks, produced>> /\ kind = "stream" /\ queue = <<>>
        /\ queue' = (IF outcome = "error" THEN <<Error>> ELSE FinishFrames) /\ outcome # "none"
    BY <1>11 DEF StreamOutcome, OutcomeInv
  <2>2. Silent(queue')
    <3>1. Silent(<<Error>>)
      BY FramesTyped DEF Silent, IsContent, Error
    <3> QED  BY <1>1, <2>1, <3>1, FinishIsSilent
  <2>3. ChunksOf(wire \o queue') = ChunksOf(wire)
    BY <1>1, <2>2, ChunksOfEnd DEF Silent
  <2>4. wire \o queue = wire
    BY <1>1, <2>1, Concatenations
  <2> QED  BY <1>2, <1>3, <2>1, <2>3, <2>4 DEF PlacesInv, Local
<1>12. CASE RelayChunk
  <2> DEFINE n == Head(chunks)
  <2>1. /\ kind \notin Local /\ queue = <<>> /\ chunks # <<>> /\ chunks' = Tail(chunks)
        /\ UNCHANGED <<queue, text, produced>>
        /\ wire' = Append(wire, BlockDelta(0, n))
    BY <1>12 DEF RelayChunk, Receives
  <2>2. /\ n = (produced - Len(chunks)) + 1
        /\ produced' - Len(chunks') = (produced - Len(chunks)) + 1
        /\ \A i \in 1..Len(chunks') : chunks'[i] = produced' - Len(chunks') + i
    BY <1>3, <2>1, ReceivesNext
  <2>3. n \in 1..MaxChunks
    BY <2>1, ReceiveTyped DEF TypeOK
  <2>4. BlockDelta(0, n) \in Frame
    BY <2>3, FramesTyped, HttpAssumption
  <2>5. IsContent(BlockDelta(0, n)) /\ BlockDelta(0, n).chunk = n
    BY <2>3, HttpAssumption DEF IsContent, BlockDelta
  <2> HIDE DEF n
  <2>6. wire \o queue = wire /\ wire' \o queue' = wire'
    <3>1. wire' \in Seq(Frame)
      BY <1>1, <2>1, <2>4
    <3> QED  BY <1>1, <2>1, <3>1, Concatenations
  <2>7. ChunksOf(wire' \o queue') = Append(Pieces(produced - Len(chunks)), n)
    BY <1>1, <1>3, <2>1, <2>4, <2>5, <2>6, ChunksOfMore DEF Local
  <2>8. ChunksOf(wire' \o queue') = Pieces(produced' - Len(chunks'))
    BY <1>4, <2>2, <2>7, PiecesTyped
  <2> QED  BY <1>2, <2>1, <2>2, <2>8 DEF PlacesInv, Local
<1>13. CASE Collect
  <2>1. /\ kind = "whole" /\ chunks # <<>> /\ chunks' = Tail(chunks)
        /\ UNCHANGED <<wire, queue, produced>>
        /\ text' = Append(text, Head(chunks))
    BY <1>2, <1>13 DEF Collect, HandlerInv
  <2>2. /\ Head(chunks) = (produced - Len(chunks)) + 1
        /\ \A i \in 1..Len(chunks') : chunks'[i] = produced' - Len(chunks') + i
    BY <1>3, <2>1, ReceivesNext
  <2>3. Len(text) \in Nat /\ Head(chunks) = Len(text) + 1
    BY <1>1, <1>2, <2>1, <2>2 DEF CollectInv
  <2>4. text' = Pieces(Len(text) + 1) /\ Len(text') = Len(text) + 1
    <3>1. text' = Append(Pieces(Len(text)), Len(text) + 1)
      BY <1>3, <2>1, <2>3
    <3>2. text' = Pieces(Len(text) + 1)
      BY <2>3, <3>1, PiecesTyped
    <3>3. Len(Pieces(Len(text) + 1)) = Len(text) + 1
      BY <2>3, PiecesTyped
    <3> QED  BY <3>2, <3>3
  <2> QED  BY <1>2, <1>3, <2>1, <2>2, <2>4 DEF PlacesInv, Local
<1>14. CASE WholeOutcome
  BY <1>14 DEF WholeOutcome
<1> QED
  BY <1>6, <1>7, <1>8, <1>9, <1>10, <1>11, <1>12, <1>13, <1>14 DEF Next, TaskStep, SelectStep, BodyStep

\* While the response is open, the client has the first pieces.
LEMMA OpenReceived == TypeOK /\ PlacesInv /\ response = "open" => ReceivedInv
<1> SUFFICES ASSUME TypeOK, PlacesInv, response = "open" PROVE ReceivedInv
  OBVIOUS
<1>1. /\ wire \in Seq(Frame) /\ queue \in Seq(Frame) /\ produced \in Nat
      /\ chunks \in Seq(1..MaxChunks) /\ Len(chunks) \in Nat
  BY DEF TypeOK, TaskTypes, ChannelTypes, BodyTypes
<1>2. CASE kind = "whole"
  <2>1. ChunksOf(wire) = <<>> /\ Pieces(0) = <<>>
    BY <1>2, ChunksOfNone DEF PlacesInv, Pieces
  <2> QED  BY <1>1, <2>1 DEF ReceivedInv
<1>3. CASE kind # "whole"
  <2>1. ChunksOf(wire \o queue) = Pieces(produced - Len(chunks)) /\ produced - Len(chunks) \in Nat
    BY <1>3, ChannelHoldsPieces DEF PlacesInv
  <2>2. PICK m \in 0..(produced - Len(chunks)) : ChunksOf(wire) = Pieces(m)
    BY <1>1, <2>1, PiecesPrefix
  <2> QED  BY <1>1, <2>2 DEF ReceivedInv
<1> QED  BY <1>2, <1>3

\* A message that completes is its whole text.
LEMMA WholeReceived ==
  ASSUME TypeOK, HandlerInv, CollectInv, PlacesInv, WholeOutcome, response' = "complete"
  PROVE  ChunksOf(wire') = Pieces(produced)
<1>1. /\ handler = "collect" /\ chunks = <<>>
      /\ wire' = [i \in DOMAIN text |-> BlockDelta(0, text[i])]
  BY DEF WholeOutcome, Ends
<1>2. kind = "whole" /\ response = "open"
  BY <1>1 DEF HandlerInv, TypeOK, BodyTypes
<1>3. text \in Seq(1..MaxChunks) /\ Len(chunks) = 0 /\ Len(text) \in Nat
  BY <1>1 DEF TypeOK, BodyTypes
<1>4. text = Pieces(Len(text)) /\ produced = Len(text)
  BY <1>2, <1>3 DEF PlacesInv, CollectInv
<1> QED  BY <1>1, <1>3, <1>4, ChunksOfText

\* What the client has stays the first of what was produced.
LEMMA ReceivedKept ==
  ASSUME TypeOK, TypeOK', HandlerInv, CollectInv, PlacesInv, PlacesInv', ReceivedInv, [Next]_vars
  PROVE  ReceivedInv'
<1>1. produced \in Nat /\ produced' \in Nat
  BY DEF TypeOK, TaskTypes
<1>2. CASE response' = "open"
  <2>1. (TypeOK /\ PlacesInv /\ response = "open" => ReceivedInv)'
    BY OpenReceived, PTL
  <2> QED  BY <1>2, <2>1
<1>3. CASE wire' = wire /\ produced' \in {produced, produced + 1}
  BY <1>1, <1>3 DEF ReceivedInv
<1>4. CASE WholeOutcome /\ response' # "open" /\ wire' # wire
  <2>1. response' = "complete" /\ produced' = produced
    BY <1>4 DEF WholeOutcome, Ends, taskVars
  <2>2. ChunksOf(wire') = Pieces(produced)
    BY <1>4, <2>1, WholeReceived
  <2> QED  BY <1>1, <2>1, <2>2 DEF ReceivedInv
<1>5. CASE PopFrame \/ RelayChunk
  <2>1. response' = response /\ handler # "ended"
    BY <1>5 DEF PopFrame, RelayChunk, Receives
  <2> QED  BY <1>2, <2>1 DEF HandlerInv
<1>6. \/ wire' = wire /\ produced' \in {produced, produced + 1}
      \/ WholeOutcome \/ PopFrame \/ RelayChunk
  BY DEF Next, TaskStep, SelectStep, BodyStep, Connect, Fetch, SendHead, Emit, ProducerEnds,
     DropSink, SendOutcome, SelectHead, SelectOutcome, PopFrame, AcceptDelta, ChunksAreOver,
     StreamOutcome, StreamEnds, RelayChunk, RelayOutcome, Collect, WholeOutcome, ClientLeaves,
     Over, vars, taskVars, bodyVars
<1>7. WholeOutcome => produced' = produced
  BY DEF WholeOutcome, taskVars
<1> QED  BY <1>2, <1>3, <1>4, <1>5, <1>6, <1>7

-----------------------------------------------------------------------------
(* HttpDispatch implements ResponseRelay.                                  *)

\* A frame reaches the client, and the response stays open.
LEMMA FrameRelayed ==
  ASSUME TypeOK, ReceivedInv, ReceivedInv', response = "open", response' = "open",
         UNCHANGED <<outcome, produced>>,
         NEW f \in Frame, wire' = Append(wire, f)
  PROVE  Contract!Relay
<1>1. wire \in Seq(Frame) /\ produced \in Nat
  BY DEF TypeOK, TaskTypes, BodyTypes
<1>2. PICK m \in 0..produced : ChunksOf(wire) = Pieces(m)
  BY DEF ReceivedInv
<1>3. PICK n \in 0..produced : ChunksOf(wire') = Pieces(n)
  BY DEF ReceivedInv
<1>4. m <= n
  <2>1. CASE IsContent(f)
    <3>1. Append(Pieces(m), f.chunk) = Pieces(n)
      BY <1>1, <1>2, <1>3, <2>1, ChunksOfMore
    <3>2. m \in Nat /\ n \in Nat /\ Pieces(m) \in Seq(Nat)
      BY <1>1, PiecesTyped
    <3>3. Pieces(m) = Pieces(n - 1) /\ n > 0
      BY <3>1, <3>2, PiecesBefore
    <3>4. n - 1 \in Nat
      BY <3>2, <3>3
    <3>5. Len(Pieces(m)) = m /\ Len(Pieces(n - 1)) = n - 1
      BY <3>2, <3>4, PiecesTyped
    <3> QED  BY <3>2, <3>3, <3>5
  <2>2. CASE ~IsContent(f)
    <3>1. Pieces(m) = Pieces(n)
      BY <1>1, <1>2, <1>3, <2>2, ChunksOfMore
    <3>2. Len(Pieces(m)) = m /\ Len(Pieces(n)) = n
      BY PiecesTyped
    <3> QED  BY <3>1, <3>2
  <2> QED  BY <2>1, <2>2
<1>5. Len(ChunksOf(wire)) = m
  BY <1>2, PiecesTyped
<1>6. n \in Len(ChunksOf(wire))..produced
  BY <1>1, <1>4, <1>5
<1> QED  BY <1>3, <1>6 DEF Contract!Relay, Contract!FirstPieces, Pieces

\* Every piece is with the client: the response completes.
LEMMA ResponseCompletes ==
  ASSUME TypeOK, ReceivedInv, response = "open", response' = "complete",
         outcome \in {"text", "tool"}, UNCHANGED <<outcome, produced>>,
         ChunksOf(wire') = Pieces(produced)
  PROVE  Contract!Relay
<1>1. produced \in Nat
  BY DEF TypeOK, TaskTypes
<1>2. PICK m \in 0..produced : ChunksOf(wire) = Pieces(m)
  BY DEF ReceivedInv
<1>3. Len(ChunksOf(wire)) = m
  BY <1>2, PiecesTyped
<1>4. produced \in Len(ChunksOf(wire))..produced
  BY <1>1, <1>3
<1> QED  BY <1>4 DEF Contract!Relay, Contract!FirstPieces, Pieces

LEMMA RelayInit == Init => Contract!Init
  BY ChunksOfNone DEF Init, Contract!Init

\* Every step is a step of the contract, or leaves its state alone.
LEMMA RelayStep ==
  ASSUME TypeOK, OutcomeInv, HandlerInv, CollectInv, EndInv, PlacesInv, StreamInv, ReceivedInv,
         ReceivedInv', [Next]_vars
  PROVE  [Contract!Next]_(Contract!relayVars)
<1> USE DEF Goto, taskVars, channelVars, bodyVars, Ends
<1>1. /\ wire \in Seq(Frame) /\ queue \in Seq(Frame) /\ produced \in Nat
      /\ response \in {"open", "complete", "failed"}
      /\ outcome \in {"none", "text", "tool", "error"}
  BY DEF TypeOK, TaskTypes, BodyTypes
<1>2. CASE UNCHANGED <<wire, produced, outcome, response>>
  BY <1>2 DEF Contract!relayVars
<1>3. ASSUME UNCHANGED <<wire, produced, response>>, outcome = "none", outcome' \in {"text", "tool", "error"}
      PROVE  Contract!End
  BY <1>3 DEF Contract!End
<1>4. ASSUME UNCHANGED <<wire, produced, outcome>>, response = "open", response' = "failed"
      PROVE  Contract!Fail
  BY <1>4 DEF Contract!Fail
<1>5. CASE Connect \/ Fetch \/ SendHead \/ ProducerEnds \/ DropSink \/ SendOutcome
  <2>1. UNCHANGED <<wire, produced, response>>
    BY <1>5 DEF Connect, Fetch, SendHead, ProducerEnds, DropSink, SendOutcome
  <2>2. outcome' = outcome \/ (outcome = "none" /\ outcome' \in {"text", "tool", "error"})
    BY <1>5 DEF Connect, Fetch, SendHead, ProducerEnds, DropSink, SendOutcome, EndInv
  <2> QED  BY <1>2, <1>3, <2>1, <2>2 DEF Contract!Next
<1>6. CASE Emit
  <2>1. UNCHANGED <<wire, response>> /\ outcome = "none"
    BY <1>6 DEF Emit, EndInv
  <2>2. CASE produced' = produced + 1 /\ outcome' = outcome
    <3>1. Contract!Produce
      BY <2>1, <2>2 DEF Contract!Produce
    <3> QED  BY <3>1 DEF Contract!Next
  <2>3. CASE produced' = produced /\ outcome' = "error"
    BY <1>3, <2>1, <2>3 DEF Contract!Next
  <2> QED  BY <1>6, <2>2, <2>3 DEF Emit
<1>7. CASE SelectHead \/ SelectOutcome \/ ClientLeaves \/ Collect
  <2>1. UNCHANGED <<wire, produced, outcome>>
    BY <1>7 DEF SelectHead, SelectOutcome, ClientLeaves, Collect
  <2>2. response' = response \/ (response = "open" /\ response' = "failed")
    BY <1>7 DEF SelectHead, SelectOutcome, ClientLeaves, Collect, HandlerInv
  <2> QED  BY <1>2, <1>4, <2>1, <2>2 DEF Contract!Next
<1>8. CASE AcceptDelta \/ ChunksAreOver \/ StreamOutcome \/ Over \/ UNCHANGED vars
  BY <1>2, <1>8 DEF AcceptDelta, ChunksAreOver, StreamOutcome, Over, vars
<1>9. CASE PopFrame
  <2>1. /\ UNCHANGED <<produced, outcome, response>> /\ queue # <<>> /\ handler # "ended"
        /\ wire' = Append(wire, Head(queue))
    BY <1>9 DEF PopFrame
  <2>2. Head(queue) \in Frame /\ response = "open" /\ response' = "open"
    BY <1>1, <2>1 DEF HandlerInv
  <2>3. Contract!Relay
    BY <2>1, <2>2, FrameRelayed
  <2> QED  BY <2>3 DEF Contract!Next
<1>10. CASE RelayChunk
  <2>1. /\ UNCHANGED <<produced, outcome, response>> /\ handler # "ended" /\ chunks # <<>>
        /\ chunks' = Tail(chunks) /\ wire' = Append(wire, BlockDelta(0, Head(chunks)))
    BY <1>10 DEF RelayChunk, Receives
  <2>2. response = "open" /\ response' = "open"
    BY <2>1 DEF HandlerInv
  <2>3. Head(chunks) \in 0..MaxChunks
    BY <2>1, ReceiveTyped, HttpAssumption DEF TypeOK
  <2>4. BlockDelta(0, Head(chunks)) \in Frame
    BY <2>3, FramesTyped
  <2>5. Contract!Relay
    BY <2>1, <2>2, <2>4, FrameRelayed
  <2> QED  BY <2>5 DEF Contract!Next
<1>11. CASE StreamEnds \/ RelayOutcome
  <2>1. /\ UNCHANGED <<wire, produced, outcome>> /\ handler \in {"outcome", "finished"}
        /\ response' \in {"complete", "failed"}
    BY <1>11 DEF StreamEnds, RelayOutcome
  <2>2. response = "open" /\ chunks = <<>> /\ kind # "whole"
    BY <2>1 DEF EndInv, HandlerInv
  <2>3. queue = <<>>
    BY <1>11, <2>2 DEF StreamEnds, RelayOutcome, PlacesInv
  <2>4. ChunksOf(wire) = Pieces(produced)
    <3>1. wire \o queue = wire /\ Len(chunks) = 0
      BY <1>1, <2>2, <2>3, Concatenations
    <3> QED  BY <1>1, <2>2, <3>1 DEF PlacesInv
  <2>5. outcome # "none"
    BY <1>11 DEF StreamEnds, RelayOutcome, EndInv, OutcomeInv
  <2>6. response' = "complete" => outcome # "error"
    <3>1. CASE RelayOutcome
      BY <3>1 DEF RelayOutcome
    <3>2. CASE StreamEnds
      <4> SUFFICES ASSUME response' = "complete", outcome = "error" PROVE FALSE
        OBVIOUS
      <4>1. kind = "stream" /\ wire[Len(wire)] = Stop
        BY <3>2 DEF StreamEnds
      <4>2. WellFormed(wire) /\ wire \o queue = wire
        BY <1>1, <2>3, <4>1, Concatenations DEF StreamInv
      <4>3. Has(wire, Stop)
        <5>1. wire # <<>>
          BY <3>2, <4>1 DEF StreamEnds, EndInv
        <5> QED  BY <1>1, <4>1, <5>1 DEF Has, Before
      <4> QED  BY <4>1, <4>2, <4>3 DEF EndInv
    <3> QED  BY <1>11, <3>1, <3>2
  <2>7. CASE response' = "failed"
    BY <1>4, <2>1, <2>2, <2>7 DEF Contract!Next
  <2>8. CASE response' = "complete"
    <3>1. ChunksOf(wire') = Pieces(produced)
      BY <2>1, <2>4
    <3>2. Contract!Relay
      BY <1>1, <2>1, <2>2, <2>5, <2>6, <2>8, <3>1, ResponseCompletes
    <3> QED  BY <3>2 DEF Contract!Next
  <2> QED  BY <2>1, <2>7, <2>8
<1>12. CASE WholeOutcome
  <2>1. response = "open" /\ UNCHANGED <<produced, outcome>> /\ sent
    BY <1>12 DEF WholeOutcome, HandlerInv
  <2>2. CASE response' = "complete" /\ outcome # "error"
    <3>1. outcome # "none"
      BY <2>1 DEF OutcomeInv
    <3>2. Contract!Relay
      BY <1>1, <1>12, <2>1, <2>2, <3>1, WholeReceived, ResponseCompletes
    <3> QED  BY <3>2 DEF Contract!Next
  <2>3. CASE response' = "failed" /\ wire' = wire
    BY <1>4, <2>1, <2>3 DEF Contract!Next
  <2> QED  BY <1>12, <2>2, <2>3 DEF WholeOutcome
<1> QED
  BY <1>5, <1>6, <1>7, <1>8, <1>9, <1>10, <1>11, <1>12 DEF Next, TaskStep, SelectStep, BodyStep

-----------------------------------------------------------------------------
IInv ==
  /\ TypeOK /\ OutcomeInv /\ HandlerInv /\ CollectInv /\ FetchInv /\ StreamInv
  /\ EndInv /\ PlacesInv /\ ReceivedInv

LEMMA InitHolds == Init => IInv
<1> SUFFICES ASSUME Init PROVE IInv
  OBVIOUS
<1> USE HttpAssumption DEF Init
<1>1. TaskTypes
  BY DEF TaskTypes
<1>2. ChannelTypes
  <2>1. <<>> \in Seq(1..MaxChunks) /\ Len(<<>>) <= Capacity
    OBVIOUS
  <2> QED  BY <2>1 DEF ChannelTypes
<1>3. BodyTypes
  <2>1. <<>> \in Seq(Frame) /\ <<>> \in Seq(1..MaxChunks)
    OBVIOUS
  <2> QED  BY <2>1 DEF BodyTypes
<1>4. OutcomeInv /\ HandlerInv
  BY DEF OutcomeInv, HandlerInv
<1>5. CollectInv /\ FetchInv
  BY DEF CollectInv, FetchInv
<1>6. StreamInv
  <2>1. wire \o queue = <<>> /\ WellFormed(<<>>)
    BY DEF WellFormed
  <2> QED  BY <2>1 DEF StreamInv
<1>7. EndInv
  <2>1. ~Has(wire \o queue, Stop)
    <3>1. wire \o queue = <<>>
      OBVIOUS
    <3> QED  BY <3>1 DEF Has, Before
  <2> QED  BY <2>1 DEF EndInv, Local
<1>8. PlacesInv /\ ReceivedInv
  <2>1. wire \o queue = <<>> /\ Len(chunks) = 0 /\ Len(text) = 0 /\ Pieces(0) = <<>>
    BY DEF Pieces
  <2>2. ChunksOf(wire) = Pieces(0) /\ ChunksOf(wire \o queue) = Pieces(0)
    BY <2>1, ChunksOfNone
  <2> QED  BY <2>1, <2>2 DEF PlacesInv, ReceivedInv
<1> QED  BY <1>1, <1>2, <1>3, <1>4, <1>5, <1>6, <1>7, <1>8 DEF IInv, TypeOK

\* HttpDispatch keeps its inductive invariant, for any constants.
THEOREM Invariant == Spec => []IInv
<1>1. IInv /\ [Next]_vars => IInv'
  <2> SUFFICES ASSUME IInv, [Next]_vars PROVE IInv'
    OBVIOUS
  <2>1. TypeOK'
    BY TaskTypesKept, ChannelTypesKept, BodyTypesKept DEF IInv, TypeOK
  <2>2. OutcomeInv' /\ HandlerInv' /\ CollectInv' /\ FetchInv' /\ StreamInv'
    BY OutcomeKept, HandlerKept, CollectKept, FetchKept, StreamKept DEF IInv, TypeOK
  <2>3. EndInv' /\ PlacesInv'
    BY EndKept, PlacesKept DEF IInv
  <2>4. ReceivedInv'
    BY <2>1, <2>3, ReceivedKept DEF IInv
  <2> QED  BY <2>1, <2>2, <2>3, <2>4 DEF IInv
<1> QED  BY <1>1, InitHolds, PTL DEF Spec

\* The state has its types; in particular the channel keeps to its capacity.
THEOREM TypeCorrect == Spec => []TypeOK
<1>1. IInv => TypeOK
  BY DEF IInv
<1> QED  BY <1>1, Invariant, PTL

\* No message over the limit completes, whoever aggregates it (http.rs, anthropic.rs).
THEOREM LimitIsKept == Spec => []AggregatesAreLimited
<1>1. IInv => AggregatesAreLimited
  BY DEF IInv, CollectInv, FetchInv, AggregatesAreLimited
<1> QED  BY <1>1, Invariant, PTL

\* A client that parses the stream frame by frame is never surprised (response.rs).
THEOREM StreamIsWellFormed == Spec => []FramesAreWellFormed
<1>1. IInv => FramesAreWellFormed
  BY WireIsWellFormed DEF IInv
<1> QED  BY <1>1, Invariant, PTL

\* HttpDispatch implements ResponseRelay: every step of the task, of the handler
\* and of the body is a step of the contract or a stutter, so the client receives
\* what was produced, in order, and a response completes only with all of it.
THEOREM ContractIsKept == Spec => KeepsRelayContract
<1>1. Init => Contract!Init
  BY RelayInit
<1>2. IInv /\ IInv' /\ [Next]_vars => [Contract!Next]_(Contract!relayVars)
  BY RelayStep DEF IInv
<1> QED  BY <1>1, <1>2, Invariant, PTL DEF Spec, KeepsRelayContract, Contract!Spec
=============================================================================
