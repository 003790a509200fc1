----------------------- MODULE AppServerMessages_proofs -----------------------
(***************************************************************************)
(* For any turns, tools, messages and frame limit, and however the bytes   *)
(* are cut into reads: a fault hits the turn or the connection it          *)
(* concerns, and a tool call keeps its meaning.                            *)
(*                                                                         *)
(* Neither is inductive.  BytesInv says what is under way: the lines after *)
(* those that were read, byte by byte.  From it follows what a read does   *)
(* (ReadOutcome): it collects bytes, or takes exactly the next line, or    *)
(* stops at one that is longer than a frame.  ScopeInv and RequestInv say  *)
(* which answers are owed, QueueInv which of its lines a turn has still to *)
(* read and that those before them were right.                             *)
(***************************************************************************)
EXTENDS AppServerMessages, FiniteSetTheorems, TLAPS

TurnStates == {"idle", "starting", "reading", "held", "refused", "failed", "done", "expired"}
Bytes == [line : Nat, end : BOOLEAN]
Failure == [method |-> "failure"]

TypeOK ==
  /\ wire \in Seq(Bytes) /\ frame \in Seq(Bytes)
  /\ output \in {"open", "closed"} /\ connection \in {"alive", "failed"}
  /\ requested \in Seq(Turns) /\ awaited \subseteq DOMAIN requested
  /\ turn \in [Turns -> TurnStates]
  /\ aliases = declared /\ DOMAIN declared = Turns
  /\ inbox \in [Turns -> Seq(Messages \cup {Failure})]
  /\ pendingTool \in [Turns -> Ids]
  /\ written \in Seq(Messages) /\ read \in 0..Len(written)
  /\ \A h \in handed : h.turn \in Turns
  /\ \A r \in answered : r.turn \in Turns

\* What follows position p of the bytes is line n, so far as it is there.
Starts(lines, bytes, p, n) ==
  p < Len(bytes) =>
    /\ n \in DOMAIN lines
    /\ \A i \in 1..lines[n].size : p + i <= Len(bytes) => bytes[p + i] = Byte(n)
    /\ p + lines[n].size + 1 <= Len(bytes) => bytes[p + lines[n].size + 1] = End(n)

\* The bytes are of these lines, in their order, from line `first` on.
Carries(lines, bytes, first) ==
  /\ Starts(lines, bytes, 0, first)
  /\ \A p \in DOMAIN bytes : bytes[p].end => Starts(lines, bytes, p, bytes[p].line + 1)

\* They end with the end of the last line, unless there is none after `first`.
Complete(lines, bytes, first) ==
  IF bytes = <<>> THEN first = Len(lines) + 1 ELSE bytes[Len(bytes)] = End(Len(lines))

\* Nothing is lost or reordered between the App Server and the reader, however the
\* bytes are cut; only what it had not written when it closed is missing.
BytesInv ==
  LET bytes == frame \o wire IN
  /\ \A i \in DOMAIN frame : ~frame[i].end
  /\ Carries(written, bytes, read + 1)
  /\ output = "open" => Complete(written, bytes, read + 1)

\* A turn requests its start once, and awaits the answer until it is there.
RequestInv ==
  /\ \A i \in DOMAIN requested : turn[requested[i]] \notin {"idle", "refused"}
  /\ \A i, j \in DOMAIN requested : requested[i] = requested[j] => i = j
  /\ \A id \in awaited : turn[requested[id]] = "starting"

IsAnswer(n, id) == written[n].method = None /\ written[n].id = [form |-> "number", value |-> id]

\* While the connection lives every line that was read was of a turn, and the
\* answers among them are to the requests that are no longer awaited.
ScopeInv ==
  connection = "alive" =>
    /\ \A n \in 1..read : ~Unscoped(n)
    /\ \A id \in DOMAIN requested : id \in awaited <=> ~ \E n \in 1..read : IsAnswer(n, id)

FailureInv ==
  connection = "failed" =>
    \/ output = "closed" /\ wire = <<>>
    \/ \E n \in {read, read + 1} \cap DOMAIN written : OfNoTurn(n)

Running == {"starting", "reading", "held"}

\* `at` gives the lines the channel of the turn holds, in their order; the events
\* before them were the turn's own and complete, and after them the channel holds
\* at most the connection's failure.
Holds(t, at) ==
  /\ \A i \in DOMAIN at : at[i] \in Own(t)
  /\ \A i, j \in DOMAIN at : i < j => at[i] < at[j]
  /\ Len(at) <= Len(inbox[t])
  /\ \A i \in DOMAIN at : inbox[t][i] = written[at[i]]
  /\ \A i \in DOMAIN inbox[t] : i > Len(at) => inbox[t][i] = Failure /\ connection = "failed"
  /\ \A n \in Own(t) :
       \/ \E i \in DOMAIN at : n = at[i]
       \/ ~Faulty(written[n], t) /\ \A i \in DOMAIN at : n < at[i]
       \/ connection = "failed" /\ \A i \in DOMAIN at : at[i] < n

QueueInv ==
  \A t \in Turns :
    /\ turn[t] \in Running => \E at \in Seq(Nat) : Holds(t, at)
    /\ turn[t] = "idle" => inbox[t] = <<>> /\ (connection = "alive" => Own(t) = {})

\* A turn fails and succeeds for its own reasons.
Fails(t) ==
  \/ connection = "failed"
  \/ \E n \in Own(t) : Faulty(written[n], t)
  \/ \E n \in 1..read : /\ written[n].method = None /\ ~written[n].whole
                        /\ requested[written[n].id.value] = t
Succeeds(t) ==
  \E end \in Own(t) :
    /\ written[end].method = "completed"
    /\ \A n \in Own(t) : n <= end => ~Faulty(written[n], t)

OutcomeInv ==
  \A t \in Turns : (turn[t] = "failed" => Fails(t)) /\ (turn[t] = "done" => Succeeds(t))

IsCall(n, t) == n \in Own(t) /\ written[n].method = "tool"

ToolInv ==
  /\ \A h \in handed :
       /\ turn[h.turn] # "idle"
       /\ \E n \in 1..read : /\ IsCall(n, h.turn) /\ written[n].call = h.call
                             /\ written[n].tool \in DOMAIN declared[h.turn]
                             /\ h.name = declared[h.turn][written[n].tool]
  /\ \A r \in answered : \E n \in 1..read : IsCall(n, r.turn) /\ written[n].id = r.id
  /\ \A t \in Turns : turn[t] = "held" =>
       \E n \in 1..read : IsCall(n, t) /\ written[n].id = pendingTool[t]

IInv == TypeOK /\ BytesInv /\ RequestInv /\ ScopeInv /\ FailureInv /\ QueueInv /\ OutcomeInv /\ ToolInv

-----------------------------------------------------------------------------
(* Numbers, sequences, and the bytes of lines.                             *)

\* A set of numbers that is not empty has a least one.
LEMMA LeastNumber ==
  ASSUME NEW T, T \subseteq Nat, T # {}
  PROVE  \E x \in T : \A y \in T : x <= y
<1> DEFINE Below == {1..n : n \in T}
<1>1. Below \subseteq FiniteSubsetsOf(Nat) /\ Below # {}
  <2>1. \A n \in Nat : IsFiniteSet(1..n) /\ 1..n \in SUBSET Nat
    BY FS_Interval
  <2> QED  BY <2>1 DEF FiniteSubsetsOf
<1>2. PICK s \in Below : \A r \in Below : ~(<<r, s>> \in StrictSubsetOrdering(Nat))
  <2> HIDE DEF Below
  <2> QED  BY <1>1, WFMin, FS_StrictSubsetOrderingWellFounded
<1>3. PICK x \in T : s = 1..x
  OBVIOUS
<1>4. ASSUME NEW y \in T, y < x
      PROVE  FALSE
  <2>1. x \in 1..x /\ x \notin 1..y /\ 1..y \subseteq 1..x
    BY <1>4
  <2>2. <<1..y, 1..x>> \in StrictSubsetOrdering(Nat)
    BY <2>1 DEF StrictSubsetOrdering
  <2> QED  BY <2>2, <1>2, <1>3
<1> QED  BY <1>4

LEMMA MinIsLeast ==
  ASSUME NEW T, T \subseteq Nat, T # {}
  PROVE  Min(T) \in T /\ \A y \in T : Min(T) <= y
BY LeastNumber DEF Min

\* The end of a line is no byte of it, and each names its line.
LEMMA BytesTyped ==
  ASSUME NEW n \in Nat
  PROVE  /\ Byte(n) \in Bytes /\ ~Byte(n).end /\ Byte(n).line = n
         /\ End(n) \in Bytes /\ End(n).end /\ End(n).line = n
BY DEF Byte, End, Bytes

\* What SMT knows of sequences, in the form the steps below need it.
LEMMA Joined ==
  ASSUME NEW S, NEW s \in Seq(S), NEW u \in Seq(S)
  PROVE  /\ s \o u \in Seq(S) /\ Len(s \o u) = Len(s) + Len(u)
         /\ \A i \in 1..Len(s) : (s \o u)[i] = s[i]
         /\ \A i \in 1..Len(u) : (s \o u)[Len(s) + i] = u[i]
OBVIOUS

LEMMA Dropped ==
  ASSUME NEW S, NEW s \in Seq(S), NEW k \in Nat, k <= Len(s)
  PROVE  /\ SubSeq(s, k + 1, Len(s)) \in Seq(S) /\ Len(SubSeq(s, k + 1, Len(s))) = Len(s) - k
         /\ \A i \in 1..(Len(s) - k) : SubSeq(s, k + 1, Len(s))[i] = s[k + i]
OBVIOUS

LEMMA SameSequence ==
  ASSUME NEW S, NEW s \in Seq(S), NEW u \in Seq(S), Len(s) = Len(u),
         \A i \in 1..Len(s) : s[i] = u[i]
  PROVE  s = u
OBVIOUS

\* A line that is written whole goes behind those that are on their way.
LEMMA CarriesOneMore ==
  ASSUME NEW lines \in Seq(Messages), NEW bytes \in Seq(Bytes), NEW first \in Nat,
         Carries(lines, bytes, first), Complete(lines, bytes, first), NEW m \in Messages
  PROVE  LET n == Len(lines) + 1
             more == bytes \o ([i \in 1..m.size |-> Byte(n)] \o <<End(n)>>)
         IN  /\ more \in Seq(Bytes)
             /\ Carries(Append(lines, m), more, first) /\ Complete(Append(lines, m), more, first)
<1> DEFINE n == Len(lines) + 1
           text == [i \in 1..m.size |-> Byte(n)]
           new == text \o <<End(n)>>
           more == bytes \o new
           all == Append(lines, m)
<1>1. n \in Nat /\ m.size \in Nat /\ Len(bytes) \in Nat
  BY LinesAssumption
<1>2. text \in Seq(Bytes) /\ Len(text) = m.size
  BY <1>1, BytesTyped
<1>3. /\ new \in Seq(Bytes) /\ Len(new) = m.size + 1
      /\ \A i \in 1..m.size : new[i] = Byte(n)
      /\ new[m.size + 1] = End(n)
  <2> HIDE DEF text
  <2>1. new \in Seq(Bytes) /\ Len(new) = m.size + 1 /\ new[m.size + 1] = End(n)
    BY <1>1, <1>2, BytesTyped
  <2>2. \A i \in 1..m.size : new[i] = text[i]
    BY <1>1, <1>2, BytesTyped
  <2> QED  BY <2>1, <2>2 DEF text
<1> HIDE DEF new
<1>4. /\ more \in Seq(Bytes) /\ Len(more) = Len(bytes) + m.size + 1
      /\ \A i \in 1..Len(bytes) : more[i] = bytes[i]
      /\ \A i \in 1..m.size : more[Len(bytes) + i] = Byte(n)
      /\ more[Len(bytes) + m.size + 1] = End(n)
  <2>1. /\ more \in Seq(Bytes) /\ Len(more) = Len(bytes) + Len(new)
        /\ \A i \in 1..Len(bytes) : more[i] = bytes[i]
        /\ \A i \in 1..Len(new) : more[Len(bytes) + i] = new[i]
    BY <1>3, Joined
  <2>2. Len(bytes) + (m.size + 1) = Len(bytes) + m.size + 1
    BY <1>1
  <2>3. m.size + 1 \in 1..Len(new)
    BY <1>1, <1>3
  <2>4. more[Len(bytes) + (m.size + 1)] = End(n)
    BY <1>3, <2>1, <2>3
  <2>5. \A i \in 1..m.size : i \in 1..Len(new)
    BY <1>1, <1>3
  <2> QED  BY <1>3, <2>1, <2>2, <2>4, <2>5
<1> HIDE DEF more
<1>5. /\ all \in Seq(Messages) /\ Len(all) = n /\ DOMAIN all = 1..n /\ all[n] = m
      /\ \A k \in DOMAIN lines : all[k] = lines[k]
  BY <1>1
<1> HIDE DEF all
<1>6. Complete(all, more, first)
  BY <1>1, <1>4, <1>5 DEF Complete
<1>7. Starts(all, more, Len(bytes), n)
  BY <1>1, <1>4, <1>5, BytesTyped DEF Starts
<1>8. ASSUME NEW p \in 0..(Len(bytes) - 1), NEW k \in Nat, Starts(lines, bytes, p, k)
      PROVE  Starts(all, more, p, k)
  <2>1. k \in DOMAIN lines /\ all[k] = lines[k] /\ lines[k].size \in Nat
    <3>1. k \in DOMAIN lines
      BY <1>8, <1>1 DEF Starts
    <3>2. lines[k] \in Messages
      BY <3>1
    <3> QED  BY <3>1, <3>2, <1>5, LinesAssumption
  <2>2. PICK size \in Nat : size = lines[k].size
    BY <2>1
  <2>3. /\ \A i \in 1..size : p + i <= Len(bytes) => bytes[p + i] = Byte(k)
        /\ p + size + 1 <= Len(bytes) => bytes[p + size + 1] = End(k)
    BY <1>1, <1>8, <2>2 DEF Starts
  <2>4. p + size + 1 <= Len(bytes)
    <3> SUFFICES ASSUME Len(bytes) <= p + size PROVE FALSE
      BY <1>1
    <3>1. bytes[p + (Len(bytes) - p)] = Byte(k)
      <4>1. Len(bytes) - p \in 1..size /\ p + (Len(bytes) - p) <= Len(bytes)
        BY <1>1
      <4> QED  BY <4>1, <2>3
    <3>2. bytes[Len(bytes)] = End(Len(lines))
      BY <1>1 DEF Complete
    <3>3. p + (Len(bytes) - p) = Len(bytes)
      BY <1>1
    <3> QED  BY <1>1, <3>1, <3>2, <3>3, BytesTyped
  <2>5. /\ \A i \in 1..size : more[p + i] = Byte(k)
        /\ more[p + size + 1] = End(k)
    <3>1. p + size + 1 \in 1..Len(bytes) /\ \A i \in 1..size : p + i \in 1..Len(bytes)
      BY <1>1, <2>4
    <3>2. more[p + size + 1] = End(k)
      BY <3>1, <2>3, <2>4, <1>4
    <3>3. ASSUME NEW i \in 1..size
          PROVE  more[p + i] = Byte(k)
      <4>1. p + i \in 1..Len(bytes) /\ p + i <= Len(bytes)
        BY <3>1, <1>1
      <4> QED  BY <4>1, <2>3, <1>4
    <3> QED  BY <3>2, <3>3
  <2> QED  BY <1>1, <1>5, <2>1, <2>2, <2>5 DEF Starts
<1>9. Starts(all, more, 0, first)
  <2>1. CASE Len(bytes) = 0
    <3>1. first = n
      BY <2>1 DEF Complete
    <3> QED  BY <3>1, <2>1, <1>7
  <2>2. CASE Len(bytes) # 0
    BY <2>2, <1>1, <1>8 DEF Carries
  <2> QED  BY <2>1, <2>2
<1>10. ASSUME NEW p \in DOMAIN more, more[p].end
       PROVE  Starts(all, more, p, more[p].line + 1)
  <2>1. CASE p < Len(bytes)
    <3>1. bytes[p] = more[p] /\ bytes[p] \in Bytes
      BY <2>1, <1>4
    <3>2. bytes[p].line + 1 \in Nat /\ p \in 0..(Len(bytes) - 1) /\ p \in DOMAIN bytes
      <4>1. p \in 0..(Len(bytes) - 1) /\ p \in DOMAIN bytes
        BY <2>1, <1>1, <1>4
      <4> QED  BY <4>1, <3>1 DEF Bytes
    <3>3. Starts(lines, bytes, p, bytes[p].line + 1)
      BY <3>1, <3>2, <1>10 DEF Carries
    <3> QED  BY <3>1, <3>2, <3>3, <1>8
  <2>2. CASE p = Len(bytes)
    <3>1. more[p] = End(Len(lines))
      BY <2>2, <1>1, <1>4, <1>10 DEF Complete
    <3> QED  BY <3>1, <2>2, <1>7, <1>1, BytesTyped
  <2>3. CASE p > Len(bytes)
    <3>1. p = Len(more)
      <4>1. p - Len(bytes) \notin 1..m.size
        BY <1>10, <1>1, <1>4, <2>3, BytesTyped
      <4> QED  BY <4>1, <2>3, <1>1, <1>4
    <3> QED  BY <3>1 DEF Starts
  <2> QED  BY <2>1, <2>2, <2>3, <1>1, <1>4
<1> QED  BY <1>4, <1>6, <1>9, <1>10 DEF Carries, more, all, new, text

\* What the App Server did not get out when it closed is missing at the end.
LEMMA CarriesPrefix ==
  ASSUME NEW lines \in Seq(Messages), NEW bytes \in Seq(Bytes), NEW first \in Nat,
         Carries(lines, bytes, first), NEW part \in Seq(Bytes), Len(part) <= Len(bytes),
         \A i \in DOMAIN part : part[i] = bytes[i]
  PROVE  Carries(lines, part, first)
<1>1. ASSUME NEW p \in 0..Len(part), NEW n \in Nat, Starts(lines, bytes, p, n)
      PROVE  Starts(lines, part, p, n)
  <2> SUFFICES ASSUME p < Len(part) PROVE Starts(lines, part, p, n)
    BY DEF Starts
  <2>1. n \in DOMAIN lines /\ lines[n].size \in Nat
    <3>1. n \in DOMAIN lines
      BY <1>1 DEF Starts
    <3>2. lines[n] \in Messages
      BY <3>1
    <3> QED  BY <3>1, <3>2, LinesAssumption
  <2>2. PICK size \in Nat : size = lines[n].size
    BY <2>1
  <2>3. /\ \A i \in 1..size : p + i <= Len(bytes) => bytes[p + i] = Byte(n)
        /\ p + size + 1 <= Len(bytes) => bytes[p + size + 1] = End(n)
    BY <1>1, <2>2 DEF Starts
  <2>4. /\ \A i \in 1..size : p + i <= Len(part) => part[p + i] = Byte(n)
        /\ p + size + 1 <= Len(part) => part[p + size + 1] = End(n)
    BY <2>3
  <2> QED  BY <2>1, <2>2, <2>4 DEF Starts
<1>2. ASSUME NEW p \in DOMAIN part
      PROVE  part[p] = bytes[p] /\ part[p].line + 1 \in Nat /\ p \in DOMAIN bytes
  <2>1. part[p] \in Bytes /\ part[p] = bytes[p] /\ p \in DOMAIN bytes
    OBVIOUS
  <2> QED  BY <2>1 DEF Bytes
<1> QED  BY <1>1, <1>2 DEF Carries

\* After the end of a line comes the next one.
LEMMA CarriesRest ==
  ASSUME NEW lines \in Seq(Messages), NEW bytes \in Seq(Bytes), NEW first \in Nat,
         Carries(lines, bytes, first), NEW q \in DOMAIN bytes, bytes[q] = End(first),
         NEW rest \in Seq(Bytes), Len(rest) = Len(bytes) - q,
         \A i \in DOMAIN rest : rest[i] = bytes[q + i]
  PROVE  /\ Carries(lines, rest, first + 1)
         /\ Complete(lines, bytes, first) => Complete(lines, rest, first + 1)
<1>1. ASSUME NEW p \in 0..Len(rest), NEW n \in Nat, Starts(lines, bytes, q + p, n)
      PROVE  Starts(lines, rest, p, n)
  <2> SUFFICES ASSUME p < Len(rest) PROVE Starts(lines, rest, p, n)
    BY DEF Starts
  <2>1. n \in DOMAIN lines /\ lines[n].size \in Nat
    <3>1. n \in DOMAIN lines
      BY <1>1 DEF Starts
    <3>2. lines[n] \in Messages
      BY <3>1
    <3> QED  BY <3>1, <3>2, LinesAssumption
  <2>2. PICK size \in Nat : size = lines[n].size
    BY <2>1
  <2>3. /\ \A i \in 1..size : (q + p) + i <= Len(bytes) => bytes[(q + p) + i] = Byte(n)
        /\ (q + p) + size + 1 <= Len(bytes) => bytes[(q + p) + size + 1] = End(n)
    BY <1>1, <2>2 DEF Starts
  <2>4. ASSUME NEW k \in Nat, k > 0, p + k <= Len(rest)
        PROVE  rest[p + k] = bytes[(q + p) + k] /\ (q + p) + k <= Len(bytes)
    <3>1. q + (p + k) = (q + p) + k /\ p + k \in DOMAIN rest
      BY <2>4
    <3>2. rest[p + k] = bytes[q + (p + k)]
      BY <3>1
    <3> QED  BY <3>1, <3>2
  <2>5. /\ \A i \in 1..size : p + i <= Len(rest) => rest[p + i] = Byte(n)
        /\ p + size + 1 <= Len(rest) => rest[p + size + 1] = End(n)
    <3>1. p \in Nat /\ q \in Nat
      OBVIOUS
    <3>2. p + size + 1 = p + (size + 1) /\ (q + p) + size + 1 = (q + p) + (size + 1)
      BY <3>1
    <3>3. ASSUME NEW i \in 1..size, p + i <= Len(rest)
          PROVE  rest[p + i] = Byte(n)
      <4>1. rest[p + i] = bytes[(q + p) + i] /\ (q + p) + i <= Len(bytes)
        BY <2>4, <3>3
      <4> QED  BY <4>1, <2>3
    <3>4. p + (size + 1) <= Len(rest) => rest[p + (size + 1)] = End(n)
      BY <2>3, <2>4, <3>2
    <3> QED  BY <3>2, <3>3, <3>4
  <2> QED  BY <2>1, <2>2, <2>5 DEF Starts
<1>2. Starts(lines, rest, 0, first + 1)
  <2>1. Starts(lines, bytes, q, first + 1)
    BY BytesTyped DEF Carries
  <2> QED  BY <2>1, <1>1
<1>3. ASSUME NEW p \in DOMAIN rest, rest[p].end
      PROVE  Starts(lines, rest, p, rest[p].line + 1)
  <2>1. rest[p] = bytes[q + p] /\ q + p \in DOMAIN bytes /\ rest[p] \in Bytes
    OBVIOUS
  <2>2. rest[p].line + 1 \in Nat /\ Starts(lines, bytes, q + p, rest[p].line + 1)
    BY <2>1, <1>3 DEF Carries, Bytes
  <2> QED  BY <2>2, <1>1
<1>4. ASSUME Complete(lines, bytes, first)
      PROVE  Complete(lines, rest, first + 1)
  <2>1. CASE rest = <<>>
    <3>1. bytes[Len(bytes)] = End(first) /\ bytes # <<>>
      BY <2>1
    <3> QED  BY <3>1, <2>1, <1>4, BytesTyped DEF Complete
  <2>2. CASE rest # <<>>
    <3>1. q + Len(rest) = Len(bytes) /\ Len(rest) \in DOMAIN rest
      <4>1. Len(rest) \in Nat /\ Len(rest) # 0 /\ q \in Nat /\ Len(bytes) \in Nat
        BY <2>2
      <4>2. Len(rest) = Len(bytes) - q
        OBVIOUS
      <4>3. q + Len(rest) = Len(bytes)
        BY <4>1, <4>2
      <4> QED  BY <4>1, <4>3
    <3>2. rest[Len(rest)] = bytes[Len(bytes)] /\ bytes # <<>>
      BY <3>1
    <3> QED  BY <3>2, <2>2, <1>4 DEF Complete
  <2> QED  BY <2>1, <2>2
<1> QED  BY <1>2, <1>3, <1>4 DEF Carries

\* The first end of a line is that of line `first`, behind its bytes.
LEMMA FirstEnd ==
  ASSUME NEW lines \in Seq(Messages), NEW bytes \in Seq(Bytes), NEW first \in Nat,
         Carries(lines, bytes, first), NEW q \in DOMAIN bytes, bytes[q].end,
         \A i \in 1..(q - 1) : ~bytes[i].end
  PROVE  /\ first \in DOMAIN lines /\ q = lines[first].size + 1 /\ bytes[q] = End(first)
         /\ \A i \in 1..(q - 1) : bytes[i] = Byte(first)
<1>1. first \in DOMAIN lines /\ lines[first] \in Messages
  BY DEF Carries, Starts
<1>2. PICK size \in Nat : size = lines[first].size
  BY <1>1, LinesAssumption
<1>3. /\ \A i \in 1..size : i <= Len(bytes) => bytes[i] = Byte(first)
      /\ size + 1 <= Len(bytes) => bytes[size + 1] = End(first)
  BY <1>2 DEF Carries, Starts
<1>4. q > size
  BY <1>3, BytesTyped
<1>5. q <= size + 1
  BY <1>3, <1>4, BytesTyped
<1>6. q = size + 1
  BY <1>4, <1>5
<1> QED  BY <1>1, <1>2, <1>3, <1>6

\* Without an end, the bytes are of line `first` alone.
LEMMA NoEnd ==
  ASSUME NEW lines \in Seq(Messages), NEW bytes \in Seq(Bytes), NEW first \in Nat,
         Carries(lines, bytes, first), NEW k \in DOMAIN bytes, \A i \in 1..k : ~bytes[i].end
  PROVE  first \in DOMAIN lines /\ k <= lines[first].size
<1>1. first \in DOMAIN lines /\ lines[first] \in Messages
  BY DEF Carries, Starts
<1>2. PICK size \in Nat : size = lines[first].size
  BY <1>1, LinesAssumption
<1>3. size + 1 <= Len(bytes) => bytes[size + 1] = End(first)
  BY <1>2 DEF Carries, Starts
<1>4. k <= size
  BY <1>3, BytesTyped
<1> QED  BY <1>1, <1>2, <1>4

\* decode_message sees the line that was written, and no other one.
LEMMA DecodedLine ==
  ASSUME TypeOK, NEW n \in DOMAIN written
  PROVE  Decoded(Text(n)) = IF written[n].decodes THEN {n} ELSE {}
<1>1. \A k \in DOMAIN written :
        written[k].size \in Nat /\ (written[k].decodes => written[k].size > 0)
  BY LinesAssumption DEF TypeOK
<1>2. \A k \in DOMAIN written : DOMAIN Text(k) = 1..written[k].size
  BY DEF Text
<1>3. ASSUME NEW k \in DOMAIN written, written[k].decodes, Text(n) = Text(k)
      PROVE  k = n
  <2>1. 1 \in 1..written[k].size
    BY <1>1, <1>3
  <2>2. 1 \in 1..written[n].size
    BY <2>1, <1>2, <1>3
  <2>3. Text(k)[1] = Byte(k) /\ Text(n)[1] = Byte(n)
    BY <2>1, <2>2 DEF Text
  <2>4. k \in Nat /\ n \in Nat
    BY DEF TypeOK
  <2> QED  BY <2>3, <2>4, <1>3, BytesTyped
<1> QED  BY <1>3 DEF Decoded

\* What one turn of the loop of read_capped_line does.
Overlong ==
  /\ Fail /\ UNCHANGED <<wire, frame, read>>
  /\ read + 1 \in DOMAIN written /\ written[read + 1].size > MaxFrame

Collects ==
  /\ UNCHANGED <<read, connection, awaited, turn, inbox>>
  /\ frame' \in Seq(Bytes) /\ wire' \in Seq(Bytes) /\ frame' \o wire' = frame \o wire
  /\ \A i \in DOMAIN frame' : ~frame'[i].end

TakesLine ==
  /\ read + 1 \in DOMAIN written /\ written[read + 1].size <= MaxFrame
  /\ read' = read + 1 /\ frame' = <<>> /\ wire' \in Seq(Bytes)
  /\ \E q \in DOMAIN (frame \o wire) :
       /\ (frame \o wire)[q] = End(read + 1)
       /\ Len(wire') = Len(frame \o wire) - q
       /\ \A i \in DOMAIN wire' : wire'[i] = (frame \o wire)[q + i]
  /\ IF written[read + 1].decodes THEN Dispatch(written[read + 1]) ELSE Fail

LEMMA ReadOutcome ==
  ASSUME TypeOK, BytesInv, ReadAvailable
  PROVE  Overlong \/ Collects \/ TakesLine
<1> DEFINE bytes == frame \o wire
<1>1. /\ frame \in Seq(Bytes) /\ wire \in Seq(Bytes) /\ bytes \in Seq(Bytes)
      /\ Len(bytes) = Len(frame) + Len(wire) /\ Len(frame) \in Nat /\ Len(wire) \in Nat
      /\ \A i \in 1..Len(frame) : bytes[i] = frame[i] /\ ~bytes[i].end
      /\ \A i \in 1..Len(wire) : bytes[Len(frame) + i] = wire[i]
      /\ read + 1 \in Nat /\ written \in Seq(Messages)
      /\ Carries(written, bytes, read + 1)
  <2>1. frame \in Seq(Bytes) /\ wire \in Seq(Bytes) /\ read + 1 \in Nat /\ written \in Seq(Messages)
    BY DEF TypeOK
  <2> QED  BY <2>1, Joined DEF BytesInv
<1> HIDE DEF bytes
<1>2. PICK available \in 1..Len(wire) :
        LET delimiters == {i \in 1..available : wire[i].end}
            over == delimiters # {}
            take == IF over THEN Min(delimiters) - 1 ELSE available
            part == frame \o SubSeq(wire, 1, take)
        IN  IF TooLong(Len(part))
            THEN Fail /\ UNCHANGED <<wire, frame, read>>
            ELSE IF ~over
            THEN /\ frame' = part
                 /\ wire' = SubSeq(wire, take + 1, Len(wire))
                 /\ UNCHANGED <<read, connection, awaited, turn, inbox>>
            ELSE /\ frame' = <<>>
                 /\ wire' = SubSeq(wire, take + 2, Len(wire))
                 /\ read' = read + 1
                 /\ IF Decoded(part) = {} THEN Fail
                    ELSE \A n \in Decoded(part) : Dispatch(written[n])
  BY DEF ReadAvailable
<1> DEFINE delimiters == {i \in 1..available : wire[i].end}
<1>3. CASE delimiters = {}
  <2> DEFINE part == frame \o SubSeq(wire, 1, available)
  <2>1. /\ SubSeq(wire, 1, available) \in Seq(Bytes) /\ Len(SubSeq(wire, 1, available)) = available
        /\ \A i \in 1..available : SubSeq(wire, 1, available)[i] = wire[i]
    BY <1>1
  <2>2. /\ part \in Seq(Bytes) /\ Len(part) = Len(frame) + available
        /\ \A i \in 1..Len(frame) : part[i] = frame[i]
        /\ \A i \in 1..available : part[Len(frame) + i] = wire[i]
    BY <1>1, <2>1, Joined
  <2> HIDE DEF part
  <2>8. Len(part) \in Nat /\ Len(part) > 0 /\ DOMAIN part = 1..Len(part) /\ DOMAIN bytes = 1..Len(bytes)
    BY <1>1, <2>2
  <2>3. \A i \in DOMAIN part : part[i] = bytes[i] /\ ~part[i].end
    <3> SUFFICES ASSUME NEW i \in DOMAIN part PROVE part[i] = bytes[i] /\ ~part[i].end
      OBVIOUS
    <3>1. CASE i <= Len(frame)
      BY <3>1, <1>1, <2>2
    <3>2. CASE i > Len(frame)
      <4>1. i - Len(frame) \in 1..available /\ i - Len(frame) \in 1..Len(wire)
            /\ Len(frame) + (i - Len(frame)) = i
        BY <3>2, <1>1, <2>2
      <4>2. part[i] = wire[i - Len(frame)] /\ bytes[i] = wire[i - Len(frame)]
        BY <4>1, <1>1, <2>2
      <4> QED  BY <4>1, <4>2, <1>3
    <3> QED  BY <3>1, <3>2, <1>1, <2>8
  <2>4. /\ read + 1 \in DOMAIN written /\ Len(part) <= written[read + 1].size
    <3>1. Len(part) \in DOMAIN bytes /\ \A i \in 1..Len(part) : ~bytes[i].end
      <4>1. Len(part) <= Len(bytes)
        BY <1>1, <2>2
      <4>2. Len(part) \in DOMAIN bytes
        BY <4>1, <2>8, <1>1
      <4>3. ASSUME NEW i \in 1..Len(part)
            PROVE  ~bytes[i].end
        <5>1. part[i] = bytes[i] /\ ~part[i].end
          BY <2>3, <2>8
        <5> QED  BY <5>1
      <4> QED  BY <4>2, <4>3
    <3> QED  BY <3>1, <1>1, NoEnd
  <2>5. CASE TooLong(Len(part))
    <3>1. Fail /\ UNCHANGED <<wire, frame, read>>
      BY <1>2, <1>3, <2>5 DEF part
    <3>2. written[read + 1].size > MaxFrame
      <4>1. written[read + 1].size \in Nat
        BY <2>4, <1>1, LinesAssumption
      <4> QED  BY <4>1, <2>2, <2>4, <2>5, <1>1, MessagesAssumption DEF TooLong
    <3> QED  BY <3>1, <3>2, <2>4 DEF Overlong
  <2>6. CASE ~TooLong(Len(part))
    <3>1. /\ frame' = part /\ wire' = SubSeq(wire, available + 1, Len(wire))
          /\ UNCHANGED <<read, connection, awaited, turn, inbox>>
      BY <1>2, <1>3, <2>6 DEF part
    <3>2. /\ wire' \in Seq(Bytes) /\ Len(wire') = Len(wire) - available
          /\ \A i \in 1..Len(wire') : wire'[i] = wire[available + i]
      BY <3>1, <1>1, Dropped
    <3>3. /\ frame' \o wire' \in Seq(Bytes)
          /\ Len(frame' \o wire') = Len(bytes)
          /\ \A i \in 1..Len(part) : (frame' \o wire')[i] = part[i]
          /\ \A i \in 1..Len(wire') : (frame' \o wire')[Len(part) + i] = wire'[i]
      <4>1. /\ frame' \o wire' \in Seq(Bytes)
            /\ Len(frame' \o wire') = Len(part) + Len(wire')
            /\ \A i \in 1..Len(part) : (frame' \o wire')[i] = part[i]
            /\ \A i \in 1..Len(wire') : (frame' \o wire')[Len(part) + i] = wire'[i]
        <5>1. part \in Seq(Bytes) /\ wire' \in Seq(Bytes)
          BY <3>2, <2>2
        <5> QED  BY <5>1, <3>1, Joined
      <4>2. Len(part) + Len(wire') = Len(bytes)
        BY <3>2, <2>2, <1>1
      <4> QED  BY <4>1, <4>2
    <3>4. \A i \in 1..Len(bytes) : (frame' \o wire')[i] = bytes[i]
      <4> SUFFICES ASSUME NEW i \in 1..Len(bytes) PROVE (frame' \o wire')[i] = bytes[i]
        OBVIOUS
      <4>1. CASE i <= Len(part)
        BY <4>1, <3>3, <2>2, <2>3
      <4>2. CASE i > Len(part)
        <5>1. /\ i - Len(part) \in 1..Len(wire') /\ Len(part) + (i - Len(part)) = i
              /\ available + (i - Len(part)) = i - Len(frame)
              /\ i - Len(frame) \in 1..Len(wire) /\ Len(frame) + (i - Len(frame)) = i
          BY <4>2, <3>2, <2>2, <1>1
        <5>2. (frame' \o wire')[i] = wire[i - Len(frame)]
          BY <5>1, <3>2, <3>3
        <5> QED  BY <5>1, <5>2, <1>1
      <4>3. i \in Nat
        BY <1>1
      <4>4. i <= Len(part) \/ i > Len(part)
        BY <4>3, <2>8
      <4> QED  BY <4>1, <4>2, <4>4
    <3>5. frame' \o wire' = bytes
      BY <3>3, <3>4, <1>1, SameSequence
    <3> QED  BY <3>1, <3>2, <3>5, <2>2, <2>3 DEF Collects, bytes
  <2> QED  BY <2>5, <2>6
<1>4. CASE delimiters # {}
  <2> DEFINE first == Min(delimiters)
             q == Len(frame) + first
             part == frame \o SubSeq(wire, 1, first - 1)
  <2>1. first \in 1..available /\ wire[first].end /\ \A i \in 1..(first - 1) : ~wire[i].end
    <3>1. delimiters \subseteq Nat
      OBVIOUS
    <3>2. first \in delimiters /\ \A y \in delimiters : first <= y
      <4> HIDE DEF delimiters
      <4> QED  BY <3>1, <1>4, MinIsLeast
    <3> HIDE DEF first
    <3> QED  BY <3>2
  <2> HIDE DEF first
  <2>2. q \in DOMAIN bytes /\ bytes[q] = wire[first] /\ q \in Nat
    BY <2>1, <1>1
  <2>3. \A i \in 1..(q - 1) : ~bytes[i].end
    <3> SUFFICES ASSUME NEW i \in 1..(q - 1) PROVE ~bytes[i].end
      OBVIOUS
    <3>1. CASE i <= Len(frame)
      BY <3>1, <1>1
    <3>2. CASE i > Len(frame)
      <4>1. /\ i - Len(frame) \in 1..(first - 1) /\ i - Len(frame) \in 1..Len(wire)
            /\ Len(frame) + (i - Len(frame)) = i
        BY <3>2, <2>1, <1>1
      <4> QED  BY <4>1, <2>1, <1>1
    <3> QED  BY <3>1, <3>2, <1>1
  <2>4. /\ read + 1 \in DOMAIN written /\ q = written[read + 1].size + 1
        /\ bytes[q] = End(read + 1)
        /\ \A i \in 1..(q - 1) : bytes[i] = Byte(read + 1)
    <3>1. bytes[q].end
      BY <2>1, <2>2
    <3> HIDE DEF q
    <3>2. /\ written \in Seq(Messages) /\ bytes \in Seq(Bytes) /\ read + 1 \in Nat
          /\ Carries(written, bytes, read + 1)
      BY <1>1
    <3>3. /\ q = written[read + 1].size + 1 /\ read + 1 \in DOMAIN written
          /\ bytes[q] = End(read + 1)
      BY <3>1, <3>2, <2>2, <2>3, FirstEnd
    <3>4. \A i \in 1..(q - 1) : bytes[i] = Byte(read + 1)
      BY <3>1, <3>2, <2>2, <2>3, FirstEnd
    <3> QED  BY <3>3, <3>4
  <2>5. part = Text(read + 1) /\ Len(part) = written[read + 1].size
    <3>1. /\ SubSeq(wire, 1, first - 1) \in Seq(Bytes)
          /\ Len(SubSeq(wire, 1, first - 1)) = first - 1
          /\ \A i \in 1..(first - 1) : SubSeq(wire, 1, first - 1)[i] = wire[i]
      BY <1>1, <2>1
    <3>2. /\ part \in Seq(Bytes) /\ Len(part) = Len(frame) + (first - 1)
          /\ \A i \in 1..Len(frame) : part[i] = frame[i]
          /\ \A i \in 1..(first - 1) : part[Len(frame) + i] = wire[i]
      BY <1>1, <3>1, Joined
    <3> HIDE DEF part
    <3>3. Len(part) = q - 1
      BY <3>2, <2>1, <1>1
    <3>4. written[read + 1].size \in Nat
      BY <2>4, <1>1, LinesAssumption
    <3>5. ASSUME NEW i \in 1..(q - 1)
          PROVE  part[i] = Byte(read + 1)
      <4>1. CASE i <= Len(frame)
        BY <4>1, <1>1, <2>4, <3>2
      <4>2. CASE i > Len(frame)
        <5>1. /\ i - Len(frame) \in 1..(first - 1) /\ i - Len(frame) \in 1..Len(wire)
              /\ Len(frame) + (i - Len(frame)) = i
          BY <4>2, <2>1, <1>1
        <5>2. part[i] = wire[i - Len(frame)] /\ bytes[i] = wire[i - Len(frame)]
          BY <5>1, <3>2, <1>1
        <5> QED  BY <5>2, <2>4
      <4> QED  BY <4>1, <4>2, <1>1, <2>2
    <3>6. Len(part) = written[read + 1].size
      BY <3>3, <3>4, <2>4, <2>2
    <3>7. part = [i \in 1..written[read + 1].size |-> Byte(read + 1)]
      <4> HIDE DEF q
      <4>1. DOMAIN part = 1..written[read + 1].size
        BY <3>2, <3>6
      <4>2. 1..written[read + 1].size = 1..(q - 1)
        BY <3>3, <3>6
      <4>3. part = [i \in DOMAIN part |-> part[i]]
        BY <3>2
      <4> QED  BY <4>1, <4>2, <4>3, <3>5
    <3> QED  BY <3>6, <3>7 DEF Text
  <2>6. CASE TooLong(Len(part))
    <3>1. Fail /\ UNCHANGED <<wire, frame, read>>
      BY <1>2, <1>4, <2>6 DEF first, part
    <3>2. written[read + 1].size > MaxFrame
      BY <2>5, <2>6 DEF TooLong
    <3> QED  BY <3>1, <3>2, <2>4 DEF Overlong
  <2>7. CASE ~TooLong(Len(part))
    <3>1. /\ frame' = <<>> /\ wire' = SubSeq(wire, (first - 1) + 2, Len(wire))
          /\ read' = read + 1
          /\ IF Decoded(part) = {} THEN Fail
             ELSE \A n \in Decoded(part) : Dispatch(written[n])
      BY <1>2, <1>4, <2>7 DEF first, part
    <3>2. IF written[read + 1].decodes THEN Dispatch(written[read + 1]) ELSE Fail
      <4>1. Decoded(part) = IF written[read + 1].decodes THEN {read + 1} ELSE {}
        BY <2>4, <2>5, DecodedLine
      <4> HIDE DEF part
      <4> QED  BY <4>1, <3>1
    <3>3. written[read + 1].size <= MaxFrame
      <4>1. written[read + 1].size \in Nat
        BY <2>4, <1>1, LinesAssumption
      <4> HIDE DEF part
      <4>2. ~(written[read + 1].size > MaxFrame)
        BY <2>5, <2>7 DEF TooLong
      <4> QED  BY <4>1, <4>2, MessagesAssumption
    <3>4. /\ wire' \in Seq(Bytes) /\ Len(wire') = Len(wire) - first
          /\ \A i \in 1..Len(wire') : wire'[i] = wire[first + i]
      <4>1. wire' = SubSeq(wire, first + 1, Len(wire))
        <5>1. (first - 1) + 2 = first + 1
          BY <2>1
        <5> QED  BY <3>1, <5>1
      <4> QED  BY <4>1, <2>1, <1>1
    <3>5. Len(wire') = Len(bytes) - q
      BY <3>4, <2>1, <1>1
    <3>6. ASSUME NEW i \in DOMAIN wire'
          PROVE  wire'[i] = bytes[q + i]
      <4>1. i \in 1..Len(wire') /\ first + i \in 1..Len(wire) /\ Len(frame) + (first + i) = q + i
        BY <3>4, <2>1, <1>1
      <4>2. wire'[i] = wire[first + i] /\ bytes[Len(frame) + (first + i)] = wire[first + i]
        BY <4>1, <3>4, <1>1
      <4> QED  BY <4>1, <4>2
    <3> HIDE DEF q
    <3>7. /\ q \in DOMAIN bytes /\ bytes[q] = End(read + 1)
          /\ Len(wire') = Len(bytes) - q
          /\ \A i \in DOMAIN wire' : wire'[i] = bytes[q + i]
      BY <3>5, <3>6, <2>2, <2>4
    <3> QED  BY <3>1, <3>2, <3>3, <3>4, <3>7, <2>4 DEF TakesLine, bytes
  <2> QED  BY <2>6, <2>7
<1> QED  BY <1>3, <1>4

-----------------------------------------------------------------------------
(* Types.                                                                  *)

LEMMA FailType ==
  ASSUME TypeOK, Fail
  PROVE  /\ connection' \in {"alive", "failed"} /\ awaited' \subseteq DOMAIN requested
         /\ turn' \in [Turns -> TurnStates] /\ inbox' \in [Turns -> Seq(Messages \cup {Failure})]
<1>1. \A t \in Turns : inbox[t] \in Seq(Messages \cup {Failure})
                       /\ turn[t] \in TurnStates
  BY DEF TypeOK
<1>2. \A t \in Turns : Append(inbox[t], [method |-> "failure"]) \in Seq(Messages \cup {Failure})
  BY <1>1 DEF Failure
<1>3. inbox' \in [Turns -> Seq(Messages \cup {Failure})]
  BY <1>2 DEF Fail
<1>4. turn' \in [Turns -> TurnStates]
  BY <1>1 DEF Fail, TurnStates
<1> QED  BY <1>3, <1>4 DEF Fail

LEMMA DispatchType ==
  ASSUME TypeOK, NEW m \in Messages, Dispatch(m)
  PROVE  /\ connection' \in {"alive", "failed"} /\ awaited' \subseteq DOMAIN requested
         /\ turn' \in [Turns -> TurnStates] /\ inbox' \in [Turns -> Seq(Messages \cup {Failure})]
<1>1. CASE Fail
  BY <1>1, FailType
<1>2. ASSUME ~Fail, DispatchResponse(m)
      PROVE  /\ connection' = connection /\ awaited' \subseteq DOMAIN requested
             /\ turn' \in [Turns -> TurnStates] /\ inbox' \in [Turns -> Seq(Messages \cup {Failure})]
  <2>1. m.id.value \in awaited
    BY <1>2 DEF DispatchResponse
  <2>2. requested[m.id.value] \in Turns
    BY <2>1 DEF TypeOK
  <2>3. <<>> \in Seq(Messages \cup {Failure}) /\ "reading" \in TurnStates /\ "failed" \in TurnStates
    BY DEF TurnStates
  <2>4. turn' \in [Turns -> TurnStates]
    BY <1>2, <2>2, <2>3 DEF DispatchResponse, TypeOK
  <2>5. inbox' \in [Turns -> Seq(Messages \cup {Failure})]
    BY <1>2, <2>2, <2>3 DEF DispatchResponse, TypeOK
  <2> QED  BY <1>2, <2>4, <2>5 DEF DispatchResponse, TypeOK
<1>3. ASSUME ~Fail, DispatchEvent(m)
      PROVE  /\ UNCHANGED <<connection, awaited, turn>>
             /\ inbox' \in [Turns -> Seq(Messages \cup {Failure})]
  <2>1. m.thread \in Turns
    BY <1>3 DEF DispatchEvent, Registered
  <2>2. Append(inbox[m.thread], m) \in Seq(Messages \cup {Failure})
    BY <2>1 DEF TypeOK
  <2> QED  BY <1>3, <2>1, <2>2 DEF DispatchEvent, TypeOK
<1>4. ASSUME ~Fail, IgnoreWarning(m)
      PROVE  UNCHANGED <<connection, awaited, turn, inbox>>
  BY <1>4 DEF IgnoreWarning
<1> QED  BY <1>1, <1>2, <1>3, <1>4 DEF Dispatch, TypeOK

LEMMA ReturnsType ==
  ASSUME TypeOK, NEW t \in Turns, NEW state \in TurnStates, Returns(t, state),
         state = "held" => inbox[t] # <<>>
  PROVE  turn' \in [Turns -> TurnStates] /\ inbox' \in [Turns -> Seq(Messages \cup {Failure})]
<1>1. <<>> \in Seq(Messages \cup {Failure})
  OBVIOUS
<1>2. inbox[t] \in Seq(Messages \cup {Failure})
  BY DEF TypeOK
<1>3. state = "held" => Tail(inbox[t]) \in Seq(Messages \cup {Failure})
  BY <1>2
<1> QED  BY <1>1, <1>3 DEF TypeOK, Returns

LEMMA TypeStep ==
  ASSUME TypeOK, BytesInv, [Next]_vars
  PROVE  TypeOK'
<1> USE DEF serverVars, readerVars, turnVars, toolVars
<1>0. written \in Seq(Messages) /\ read \in Nat /\ Len(written) \in Nat /\ read <= Len(written)
  BY DEF TypeOK
<1>1. CASE ServerWrites
  <2>1. PICK m \in Messages :
          /\ written' = Append(written, m)
          /\ wire' = wire \o [i \in 1..m.size |-> Byte(Len(written) + 1)] \o <<End(Len(written) + 1)>>
    BY <1>1 DEF ServerWrites
  <2>2. [i \in 1..m.size |-> Byte(Len(written) + 1)] \in Seq(Bytes)
    <3>1. m.size \in Nat /\ Len(written) + 1 \in Nat
      BY <1>0, LinesAssumption
    <3> QED  BY <3>1, BytesTyped
  <2>3. <<End(Len(written) + 1)>> \in Seq(Bytes)
    BY <1>0, BytesTyped
  <2>4. wire \o [i \in 1..m.size |-> Byte(Len(written) + 1)] \in Seq(Bytes)
    BY <2>2, Joined DEF TypeOK
  <2>5. wire' \in Seq(Bytes)
    BY <2>1, <2>3, <2>4, Joined
  <2>6. written' \in Seq(Messages) /\ read \in 0..Len(written')
    BY <2>1, <1>0
  <2> QED  BY <1>1, <2>5, <2>6 DEF ServerWrites, TypeOK
<1>2. CASE ServerCloses
  <2>1. wire' \in Seq(Bytes)
    <3>1. CASE wire' = wire
      BY <3>1 DEF TypeOK
    <3>2. CASE wire # <<>> /\ wire' = Front(wire)
      BY <3>2 DEF TypeOK, Front
    <3> QED  BY <1>2, <3>1, <3>2 DEF ServerCloses
  <2> QED  BY <1>2, <2>1 DEF ServerCloses, TypeOK
<1>3. CASE ReadAvailable
  <2>0. UNCHANGED <<output, written, requested, aliases, pendingTool, declared, handed, answered>>
    BY <1>3 DEF ReadAvailable
  <2>1. CASE Overlong
    BY <2>0, <2>1, FailType DEF Overlong, TypeOK
  <2>2. CASE Collects
    BY <2>0, <2>2 DEF Collects, TypeOK
  <2>3. CASE TakesLine
    <3>1. written[read + 1] \in Messages /\ read + 1 \in 0..Len(written)
      BY <2>3, <1>0 DEF TakesLine
    <3>2. /\ connection' \in {"alive", "failed"} /\ awaited' \subseteq DOMAIN requested
          /\ turn' \in [Turns -> TurnStates] /\ inbox' \in [Turns -> Seq(Messages \cup {Failure})]
      BY <2>3, <3>1, FailType, DispatchType DEF TakesLine
    <3>3. frame' \in Seq(Bytes)
      BY <2>3 DEF TakesLine
    <3> QED  BY <2>0, <2>3, <3>1, <3>2, <3>3 DEF TakesLine, TypeOK
  <2> QED  BY <2>1, <2>2, <2>3, <1>3, ReadOutcome
<1>4. CASE ReadEnd
  BY <1>4, FailType DEF ReadEnd, TypeOK
<1>5. ASSUME NEW t \in Turns, StartTurn(t)
      PROVE  TypeOK'
  <2>1. requested' \in Seq(Turns) /\ awaited' \subseteq DOMAIN requested'
    <3>1. CASE requested' = Append(requested, t) /\ awaited' = awaited \cup {Len(requested) + 1}
      BY <3>1 DEF TypeOK
    <3>2. CASE UNCHANGED <<requested, awaited>>
      BY <3>2 DEF TypeOK
    <3> QED  BY <1>5, <3>1, <3>2 DEF StartTurn
  <2>2. turn' \in [Turns -> TurnStates]
    BY <1>5 DEF StartTurn, TypeOK, TurnStates
  <2>3. aliases' = declared' /\ DOMAIN declared' = Turns
    BY <1>5 DEF StartTurn, TypeOK
  <2> QED  BY <1>5, <2>1, <2>2, <2>3 DEF StartTurn, TypeOK
<1>6. ASSUME NEW t \in Turns, ReadEvent(t)
      PROVE  TypeOK'
  <2> DEFINE message == Head(inbox[t])
  <2>1. /\ inbox[t] \in Seq(Messages \cup {Failure}) /\ inbox[t] # <<>>
        /\ message \in Messages \cup {Failure}
    BY <1>6 DEF ReadEvent, TypeOK
  <2>2. {"failed", "done", "held"} \subseteq TurnStates
    BY DEF TurnStates
  <2>3. CASE ~Accepts(message, t)
    <3>1. Returns(t, "failed") /\ UNCHANGED <<pendingTool, handed>>
      BY <1>6, <2>3 DEF ReadEvent
    <3> QED  BY <1>6, <2>2, <3>1, ReturnsType DEF ReadEvent, TypeOK
  <2>4. CASE Accepts(message, t) /\ message.method = "completed"
    <3>1. Returns(t, "done") /\ UNCHANGED <<pendingTool, handed>>
      BY <1>6, <2>4 DEF ReadEvent
    <3> QED  BY <1>6, <2>2, <3>1, ReturnsType DEF ReadEvent, TypeOK
  <2>5. CASE Accepts(message, t) /\ message.method = "tool"
    <3>1. /\ Returns(t, "held") /\ pendingTool' = [pendingTool EXCEPT ![t] = message.id]
          /\ handed' = handed \cup {[turn |-> t, call |-> message.call,
                                     name |-> aliases[t][message.tool]]}
      BY <1>6, <2>5 DEF ReadEvent
    <3>2. message.id \in Ids
      <4>1. message # Failure
        BY <2>5 DEF Failure
      <4> QED  BY <4>1, <2>1, LinesAssumption
    <3>3. turn' \in [Turns -> TurnStates] /\ inbox' \in [Turns -> Seq(Messages \cup {Failure})]
      BY <3>1, <2>1, <2>2, ReturnsType
    <3> HIDE DEF message
    <3>4. pendingTool' \in [Turns -> Ids]
      BY <3>1, <3>2 DEF TypeOK
    <3>5. \A h \in handed' : h.turn \in Turns
      BY <3>1 DEF TypeOK
    <3> QED  BY <1>6, <3>3, <3>4, <3>5 DEF ReadEvent, TypeOK
  <2>6. CASE Accepts(message, t) /\ message.method \notin {"completed", "tool"}
    <3>1. inbox' = [inbox EXCEPT ![t] = Tail(inbox[t])] /\ UNCHANGED <<turn, pendingTool, handed>>
      BY <1>6, <2>6 DEF ReadEvent
    <3>2. Tail(inbox[t]) \in Seq(Messages \cup {Failure})
      BY <2>1
    <3> HIDE DEF message
    <3>3. inbox' \in [Turns -> Seq(Messages \cup {Failure})]
      BY <3>1, <3>2 DEF TypeOK
    <3> QED  BY <1>6, <3>1, <3>3 DEF ReadEvent, TypeOK
  <2> QED  BY <2>3, <2>4, <2>5, <2>6
<1>7. ASSUME NEW t \in Turns, ContinueTool(t)
      PROVE  TypeOK'
  <2>1. turn' \in [Turns -> TurnStates] /\ inbox' \in [Turns -> Seq(Messages \cup {Failure})]
    <3>1. CASE connection = "alive"
      BY <1>7, <3>1 DEF ContinueTool, Answers, TypeOK, TurnStates
    <3>2. CASE connection # "alive"
      <4>1. Returns(t, "failed") /\ "failed" \in TurnStates
        BY <1>7, <3>2 DEF ContinueTool, Answers, TurnStates
      <4> QED  BY <4>1, ReturnsType
    <3> QED  BY <3>1, <3>2
  <2>2. NoId \in Ids
    BY DEF NoId, Ids
  <2>3. pendingTool' \in [Turns -> Ids]
    BY <1>7, <2>2 DEF ContinueTool, TypeOK
  <2>4. \A r \in answered' : r.turn \in Turns
    BY <1>7 DEF ContinueTool, Answers, TypeOK
  <2> QED  BY <1>7, <2>1, <2>3, <2>4 DEF ContinueTool, TypeOK
<1>8. ASSUME NEW t \in Turns, ExpireTool(t)
      PROVE  TypeOK'
  <2>1. Returns(t, "expired") /\ "expired" \in TurnStates
    BY <1>8 DEF ExpireTool, TurnStates
  <2>2. turn' \in [Turns -> TurnStates] /\ inbox' \in [Turns -> Seq(Messages \cup {Failure})]
    BY <2>1, ReturnsType
  <2> QED  BY <1>8, <2>2 DEF ExpireTool, TypeOK
<1>9. CASE UNCHANGED vars
  BY <1>9 DEF vars, TypeOK
<1> QED  BY <1>1, <1>2, <1>3, <1>4, <1>5, <1>6, <1>7, <1>8, <1>9 DEF Next

\* The bytes under way stay the lines after those that were read.
LEMMA BytesStep ==
  ASSUME TypeOK, BytesInv, [Next]_vars, TypeOK'
  PROVE  BytesInv'
<1> USE DEF serverVars, readerVars, turnVars, toolVars
<1> DEFINE bytes == frame \o wire
<1>0. /\ written \in Seq(Messages) /\ read + 1 \in Nat /\ bytes \in Seq(Bytes)
      /\ frame \in Seq(Bytes) /\ wire \in Seq(Bytes) /\ Len(bytes) = Len(frame) + Len(wire)
      /\ Len(frame) \in Nat /\ Len(wire) \in Nat
      /\ Carries(written, bytes, read + 1)
  BY Joined DEF TypeOK, BytesInv
<1>1. CASE ServerWrites
  <2>1. PICK m \in Messages :
          /\ written' = Append(written, m)
          /\ wire' = wire \o [i \in 1..m.size |-> Byte(Len(written) + 1)] \o <<End(Len(written) + 1)>>
    BY <1>1 DEF ServerWrites
  <2> DEFINE text == [i \in 1..m.size |-> Byte(Len(written) + 1)]
             delimiter == <<End(Len(written) + 1)>>
  <2>2. text \in Seq(Bytes) /\ delimiter \in Seq(Bytes)
    <3>1. m.size \in Nat /\ Len(written) + 1 \in Nat
      BY <1>0, LinesAssumption
    <3> QED  BY <3>1, BytesTyped
  <2>3. /\ Carries(Append(written, m), bytes \o (text \o delimiter), read + 1)
        /\ Complete(Append(written, m), bytes \o (text \o delimiter), read + 1)
    <3>1. Complete(written, bytes, read + 1)
      BY <1>1 DEF ServerWrites, BytesInv
    <3> HIDE DEF bytes
    <3> QED  BY <3>1, <1>0, CarriesOneMore
  <2>4. wire' = (wire \o text) \o delimiter
    BY <2>1
  <2> HIDE DEF text, delimiter
  <2>5. frame \o ((wire \o text) \o delimiter) = (frame \o wire) \o (text \o delimiter)
    <3>1. /\ frame \in Seq(Bytes) /\ wire \in Seq(Bytes)
          /\ text \in Seq(Bytes) /\ delimiter \in Seq(Bytes)
      BY <1>0, <2>2
    <3> HIDE DEF bytes
    <3> QED  BY <3>1
  <2>6. frame' = frame /\ read' = read
    BY <1>1 DEF ServerWrites
  <2> QED  BY <2>1, <2>3, <2>4, <2>5, <2>6 DEF BytesInv
<1>2. CASE ServerCloses
  <2>1. wire' \in Seq(Bytes) /\ UNCHANGED <<frame, read, written>> /\ output' # "open"
    BY <1>2 DEF ServerCloses, TypeOK
  <2>2. Len(wire') <= Len(wire) /\ \A i \in 1..Len(wire') : wire'[i] = wire[i]
    BY <1>0, <1>2 DEF ServerCloses, Front
  <2>3. /\ frame \o wire' \in Seq(Bytes) /\ Len(frame \o wire') = Len(frame) + Len(wire')
        /\ \A i \in 1..Len(frame) : (frame \o wire')[i] = frame[i]
        /\ \A i \in 1..Len(wire') : (frame \o wire')[Len(frame) + i] = wire'[i]
    BY <2>1, <1>0, Joined
  <2>4. /\ \A i \in 1..Len(frame) : bytes[i] = frame[i]
        /\ \A i \in 1..Len(wire) : bytes[Len(frame) + i] = wire[i]
    BY <1>0, Joined
  <2>5. Len(frame \o wire') <= Len(bytes) /\ Len(wire') \in Nat
    BY <1>0, <2>1, <2>2, <2>3
  <2> HIDE DEF bytes
  <2>6. ASSUME NEW i \in DOMAIN (frame \o wire')
        PROVE  (frame \o wire')[i] = bytes[i]
    <3>0. i \in Nat /\ i > 0 /\ i <= Len(frame) + Len(wire')
      BY <2>3, <2>5, <1>0
    <3>1. CASE i <= Len(frame)
      BY <3>0, <3>1, <2>3, <2>4, <1>0
    <3>2. CASE i > Len(frame)
      <4>1. /\ i - Len(frame) \in 1..Len(wire') /\ i - Len(frame) \in 1..Len(wire)
            /\ Len(frame) + (i - Len(frame)) = i
        BY <3>0, <3>2, <1>0, <2>2, <2>5
      <4> QED  BY <4>1, <2>2, <2>3, <2>4
    <3>3. i <= Len(frame) \/ i > Len(frame)
      BY <3>0, <1>0
    <3> QED  BY <3>1, <3>2, <3>3
  <2>7. Carries(written, frame \o wire', read + 1)
    BY <1>0, <2>3, <2>5, <2>6, CarriesPrefix
  <2> QED  BY <2>1, <2>7 DEF BytesInv
<1>3. CASE ReadAvailable
  <2>0. UNCHANGED <<output, written>>
    BY <1>3 DEF ReadAvailable
  <2>1. CASE Overlong
    BY <2>0, <2>1 DEF Overlong, BytesInv
  <2>2. CASE Collects
    BY <2>0, <2>2 DEF Collects, BytesInv
  <2>3. CASE TakesLine
    <3>1. PICK q \in DOMAIN bytes :
            /\ bytes[q] = End(read + 1) /\ Len(wire') = Len(bytes) - q
            /\ \A i \in DOMAIN wire' : wire'[i] = bytes[q + i]
      BY <2>3 DEF TakesLine
    <3>2. wire' \in Seq(Bytes) /\ frame' = <<>> /\ read' = read + 1
      BY <2>3 DEF TakesLine
    <3>3. frame' \o wire' = wire'
      BY <3>2
    <3>4. output' = "open" => Complete(written, bytes, read + 1)
      BY <2>0 DEF BytesInv
    <3> HIDE DEF bytes
    <3>5. /\ Carries(written, wire', read + 2)
          /\ output' = "open" => Complete(written, wire', read + 2)
      <4>1. (read + 1) + 1 = read + 2
        BY <1>0 DEF TypeOK
      <4>2. /\ Carries(written, wire', (read + 1) + 1)
            /\ Complete(written, bytes, read + 1) => Complete(written, wire', (read + 1) + 1)
        BY <3>1, <3>2, <1>0, CarriesRest
      <4> QED  BY <4>1, <4>2, <3>4
    <3>6. read' + 1 = read + 2
      BY <3>2 DEF TypeOK
    <3>7. \A i \in DOMAIN frame' : ~frame'[i].end
      BY <3>2
    <3> QED  BY <2>0, <3>3, <3>5, <3>6, <3>7 DEF BytesInv
  <2> QED  BY <2>1, <2>2, <2>3, <1>3, ReadOutcome
<1>4. ASSUME UNCHANGED <<wire, frame, read, output, written>>
      PROVE  BytesInv'
  BY <1>4 DEF BytesInv
<1> QED  BY <1>1, <1>2, <1>3, <1>4
         DEF Next, vars, ReadEnd, StartTurn, ReadEvent, ContinueTool, ExpireTool

-----------------------------------------------------------------------------
(* What the steps of the connection do to the turns.                       *)

\* Nothing that a turn knows of.
Quiet ==
  /\ UNCHANGED <<read, connection, requested, awaited, turnVars, toolVars>>
  /\ \A n \in DOMAIN written : n \in DOMAIN written' /\ written'[n] = written[n]
  /\ connection = "failed" /\ output = "closed" /\ wire = <<>> => output' = "closed" /\ wire' = <<>>

\* The connection fails, at its end or for a line of no turn.
Breaks ==
  /\ connection = "alive" /\ Fail
  /\ UNCHANGED <<written, requested, aliases, pendingTool, toolVars>>
  /\ read' \in {read, read + 1}
  /\ \/ output' = "closed" /\ wire' = <<>>
     \/ \E n \in {read', read' + 1} \cap DOMAIN written :
          Unscoped(n) \/ (IsEvent(written[n]) /\ written[n].thread \in Turns \ Registered)

\* A line is taken for what it is.
Takes(m) ==
  /\ connection = "alive" /\ read + 1 \in DOMAIN written /\ m = written[read + 1]
  /\ m \in Messages /\ m.decodes /\ m.size <= MaxFrame
  /\ read' = read + 1
  /\ UNCHANGED <<written, connection, requested, aliases, pendingTool, toolVars>>

TakesAnswer(m) ==
  /\ Takes(m) /\ m.method = None /\ m.id.value \in awaited
  /\ m.id = [form |-> "number", value |-> m.id.value]
  /\ awaited' = awaited \ {m.id.value}
  /\ LET t == requested[m.id.value] IN
     /\ turn' = [turn EXCEPT ![t] = IF m.whole THEN "reading" ELSE "failed"]
     /\ inbox' = IF m.whole THEN inbox ELSE [inbox EXCEPT ![t] = <<>>]

TakesEvent(m) ==
  /\ Takes(m) /\ IsEvent(m) /\ m.thread \in Registered
  /\ inbox' = [inbox EXCEPT ![m.thread] = Append(inbox[m.thread], m)]
  /\ UNCHANGED <<awaited, turn>>

TakesWarning(m) ==
  /\ Takes(m) /\ m.method = "configWarning" /\ m.id = NoId /\ m.whole
  /\ UNCHANGED <<awaited, turn, inbox>>

\* An id of the numeric form is told by its value.
LEMMA NumberId ==
  ASSUME NEW id \in Ids, id.form = "number"
  PROVE  id = [form |-> "number", value |-> id.value]
BY DEF Ids

\* A line whose destination is not found breaks the connection.
LEMMA LineEffect ==
  ASSUME TypeOK, ScopeInv, ReadAvailable, TakesLine
  PROVE  \/ Breaks
         \/ \E m \in Messages : TakesAnswer(m) \/ TakesEvent(m) \/ TakesWarning(m)
<1> DEFINE n == read + 1
           m == written[read + 1]
<1>1. /\ connection = "alive" /\ UNCHANGED <<written, requested, aliases, pendingTool, toolVars>>
      /\ n \in DOMAIN written /\ n \in Nat /\ read' = n /\ m \in Messages /\ m.size <= MaxFrame
      /\ IF m.decodes THEN Dispatch(m) ELSE Fail
      /\ m.size \in Nat /\ m.id \in Ids
  <2>1. written \in Seq(Messages) /\ read \in Nat
    BY DEF TypeOK
  <2>2. n \in DOMAIN written /\ m \in Messages
    BY <2>1 DEF TakesLine
  <2> QED  BY <2>1, <2>2, LinesAssumption DEF TakesLine, ReadAvailable, serverVars, toolVars
<1> HIDE DEF n
<1>2. ASSUME Fail, Unscoped(n) \/ (IsEvent(m) /\ m.thread \in Turns \ Registered)
      PROVE  Breaks
  <2>1. n \in {read', read' + 1} \cap DOMAIN written
    BY <1>1
  <2> QED  BY <1>1, <1>2, <2>1 DEF Breaks, n
<1>3. CASE ~m.decodes
  <2>1. Unscoped(n)
    BY <1>3 DEF Unscoped, n
  <2> QED  BY <1>1, <1>2, <1>3, <2>1
<1>4. CASE m.decodes /\ m.method = None
  <2>1. DispatchResponse(m)
    BY <1>1, <1>4 DEF Dispatch, None
  <2>2. CASE m.id.form = "number" /\ m.id.value \in awaited
    <3>1. TakesAnswer(m)
      BY <1>1, <1>4, <2>1, <2>2, NumberId DEF TakesAnswer, Takes, DispatchResponse, n
    <3> QED  BY <3>1, <1>1
  <2>3. CASE ~(m.id.form = "number" /\ m.id.value \in awaited)
    <3>1. Unscoped(n)
      <4>1. CASE m.id \notin [form : {"number"}, value : DOMAIN requested]
        BY <4>1, <1>4 DEF Unscoped, n
      <4>2. CASE m.id \in [form : {"number"}, value : DOMAIN requested]
        <5>1. /\ m.id.value \in DOMAIN requested /\ m.id.value \notin awaited
              /\ m.id = [form |-> "number", value |-> m.id.value]
          BY <4>2, <2>3
        <5>2. PICK k \in 1..read : IsAnswer(k, m.id.value)
          BY <5>1, <1>1 DEF ScopeInv
        <5>3. k \in 1..(n - 1) /\ written[k].method = None /\ written[k].id = m.id
          BY <5>1, <5>2 DEF IsAnswer, n, TypeOK
        <5> QED  BY <5>3, <1>4 DEF Unscoped, n
      <4> QED  BY <4>1, <4>2
    <3> QED  BY <3>1, <2>1, <2>3, <1>2 DEF DispatchResponse
  <2> QED  BY <2>2, <2>3
<1>5. CASE m.decodes /\ m.method = "configWarning"
  <2>1. IgnoreWarning(m)
    BY <1>1, <1>5 DEF Dispatch, None
  <2>2. CASE m.id = NoId /\ m.whole
    <3>1. TakesWarning(m)
      BY <1>1, <1>5, <2>1, <2>2 DEF TakesWarning, Takes, IgnoreWarning, n
    <3> QED  BY <3>1, <1>1
  <2>3. CASE ~(m.id = NoId /\ m.whole)
    <3>1. Unscoped(n)
      BY <2>3, <1>5 DEF Unscoped, n
    <3> QED  BY <3>1, <2>1, <2>3, <1>2 DEF IgnoreWarning
  <2> QED  BY <2>2, <2>3
<1>6. CASE m.decodes /\ m.method \notin {None, "configWarning"}
  <2>1. DispatchEvent(m) /\ IsEvent(m)
    BY <1>1, <1>6 DEF Dispatch, IsEvent
  <2>2. CASE m.thread \in Registered
    <3>1. TakesEvent(m)
      BY <1>1, <1>6, <2>1, <2>2 DEF TakesEvent, Takes, DispatchEvent, n
    <3> QED  BY <3>1, <1>1
  <2>3. CASE m.thread \notin Registered
    <3>1. Unscoped(n) \/ m.thread \in Turns \ Registered
      BY <2>1, <2>3 DEF Unscoped, n
    <3> QED  BY <3>1, <2>1, <2>3, <1>2 DEF DispatchEvent
  <2> QED  BY <2>2, <2>3
<1> QED  BY <1>3, <1>4, <1>5, <1>6

\* Every step is one of these.
LEMMA Effects ==
  ASSUME TypeOK, BytesInv, ScopeInv, [Next]_vars
  PROVE  \/ Quiet \/ Breaks
         \/ \E m \in Messages : TakesAnswer(m) \/ TakesEvent(m) \/ TakesWarning(m)
         \/ \E t \in Turns : StartTurn(t) \/ ReadEvent(t) \/ ContinueTool(t) \/ ExpireTool(t)
<1> USE DEF serverVars, readerVars, turnVars, toolVars
<1>0. written \in Seq(Messages) /\ read \in Nat
  BY DEF TypeOK
<1>1. CASE ServerWrites
  <2>1. PICK m \in Messages : written' = Append(written, m)
    BY <1>1 DEF ServerWrites
  <2>2. \A n \in DOMAIN written : n \in DOMAIN written' /\ written'[n] = written[n]
    BY <2>1, <1>0
  <2> QED  BY <1>1, <2>2 DEF ServerWrites, Quiet
<1>2. CASE ServerCloses
  BY <1>2 DEF ServerCloses, Quiet
<1>3. CASE ReadAvailable
  <2>1. connection = "alive" /\ UNCHANGED <<output, written, requested, aliases, pendingTool, toolVars>>
    BY <1>3 DEF ReadAvailable
  <2>2. CASE Overlong
    <3>1. /\ Fail /\ read' = read /\ read + 1 \in DOMAIN written
          /\ Unscoped(read + 1)
      BY <2>2 DEF Overlong, Unscoped
    <3> QED  BY <2>1, <3>1 DEF Breaks
  <2>3. CASE Collects
    BY <2>1, <2>3 DEF Collects, Quiet
  <2>4. CASE TakesLine
    BY <1>3, <2>4, LineEffect
  <2> QED  BY <1>3, <2>2, <2>3, <2>4, ReadOutcome
<1>4. CASE ReadEnd
  BY <1>4 DEF ReadEnd, Breaks
<1>5. CASE UNCHANGED vars
  BY <1>5 DEF vars, Quiet
<1> QED  BY <1>1, <1>2, <1>3, <1>4, <1>5 DEF Next

\* What a step of the turn itself leaves alone.
LEMMA TurnEffect ==
  ASSUME TypeOK, NEW t \in Turns, ReadEvent(t) \/ ContinueTool(t) \/ ExpireTool(t)
  PROVE  /\ UNCHANGED <<wire, output, written, frame, read, connection, requested, awaited,
                        aliases, declared>>
         /\ turn[t] \in {"reading", "held"}
         /\ turn'[t] \in {"reading", "held", "failed", "done", "expired"}
         /\ \A u \in Turns : u # t => turn'[u] = turn[u] /\ inbox'[u] = inbox[u]
                                      /\ pendingTool'[u] = pendingTool[u]
<1> USE DEF serverVars, readerVars, turnVars, toolVars, TypeOK
<1>1. CASE ReadEvent(t)
  <2>1. UNCHANGED <<wire, output, written, frame, read, connection, requested, awaited,
                    aliases, declared>> /\ turn[t] = "reading"
    BY <1>1 DEF ReadEvent
  <2>2. \/ Returns(t, "failed") /\ UNCHANGED pendingTool
        \/ Returns(t, "done") /\ UNCHANGED pendingTool
        \/ Returns(t, "held") /\ pendingTool' = [pendingTool EXCEPT ![t] = Head(inbox[t]).id]
        \/ inbox' = [inbox EXCEPT ![t] = Tail(inbox[t])] /\ UNCHANGED <<turn, pendingTool>>
    BY <1>1 DEF ReadEvent
  <2> QED  BY <2>1, <2>2 DEF Returns
<1>2. CASE ContinueTool(t)
  BY <1>2 DEF ContinueTool, Answers, Returns
<1>3. CASE ExpireTool(t)
  BY <1>3 DEF ExpireTool, Returns
<1> QED  BY <1>1, <1>2, <1>3

\* The lines of a turn's thread only grow, by the line that is read.
LEMMA OwnStays ==
  ASSUME TypeOK, NEW t, read' = read,
         \A n \in DOMAIN written : n \in DOMAIN written' /\ written'[n] = written[n]
  PROVE  Own(t)' = Own(t) /\ \A n \in 1..read : written'[n] = written[n]
<1>1. 1..read \subseteq DOMAIN written
  BY DEF TypeOK
<1> QED  BY <1>1 DEF Own, IsEvent

LEMMA OwnGrows ==
  ASSUME TypeOK, NEW t, read' = read + 1, written' = written
  PROVE  Own(t)' = Own(t) \cup (IF IsEvent(written[read + 1]) /\ written[read + 1].thread = t
                                THEN {read + 1} ELSE {})
<1>1. read \in Nat /\ 1..(read + 1) = (1..read) \cup {read + 1}
  BY DEF TypeOK
<1> QED  BY <1>1 DEF Own, IsEvent

-----------------------------------------------------------------------------
(* Requests, and whom a fault is of.                                       *)

LEMMA RequestStep ==
  ASSUME IInv, [Next]_vars, TypeOK'
  PROVE  RequestInv'
<1> USE DEF IInv
<1>1. CASE Quiet
  BY <1>1 DEF Quiet, RequestInv, turnVars
<1>2. CASE Breaks
  <2>1. /\ requested' = requested /\ awaited' = {}
        /\ \A t \in Turns : turn'[t] \in {turn[t], "failed"}
    BY <1>2 DEF Breaks, Fail, TypeOK
  <2>2. \A i \in DOMAIN requested : requested[i] \in Turns
    BY DEF TypeOK
  <2> QED  BY <2>1, <2>2 DEF RequestInv
<1>3. ASSUME NEW m \in Messages, TakesAnswer(m)
      PROVE  RequestInv'
  <2> DEFINE id == m.id.value
  <2>1. /\ requested' = requested /\ id \in awaited /\ awaited' = awaited \ {id}
        /\ requested[id] \in Turns /\ awaited \subseteq DOMAIN requested
        /\ turn'[requested[id]] \in {"reading", "failed"}
        /\ \A t \in Turns : t # requested[id] => turn'[t] = turn[t]
    BY <1>3 DEF TakesAnswer, Takes, TypeOK
  <2>2. \A i \in DOMAIN requested : requested[i] \in Turns
    BY DEF TypeOK
  <2> HIDE DEF id
  <2>3. \A i \in DOMAIN requested' : turn'[requested'[i]] \notin {"idle", "refused"}
    BY <2>1, <2>2 DEF RequestInv
  <2>4. \A i \in awaited' : turn'[requested'[i]] = "starting"
    BY <2>1, <2>2 DEF RequestInv
  <2> QED  BY <2>1, <2>3, <2>4 DEF RequestInv
<1>4. ASSUME NEW m \in Messages, TakesEvent(m) \/ TakesWarning(m)
      PROVE  RequestInv'
  BY <1>4 DEF TakesEvent, TakesWarning, Takes, RequestInv
<1>5. ASSUME NEW t \in Turns, StartTurn(t)
      PROVE  RequestInv'
  <2>1. CASE /\ turn' = [turn EXCEPT ![t] = "starting"]
             /\ requested' = Append(requested, t) /\ awaited' = awaited \cup {Len(requested) + 1}
    <3>0. turn[t] = "idle"
      BY <1>5 DEF StartTurn
    <3>1. /\ DOMAIN requested' = (DOMAIN requested) \cup {Len(requested) + 1}
          /\ requested'[Len(requested) + 1] = t
          /\ \A i \in DOMAIN requested : requested'[i] = requested[i]
                                         /\ requested[i] \in Turns /\ i # Len(requested) + 1
      <4>1. /\ requested \in Seq(Turns) /\ Len(requested) \in Nat
            /\ DOMAIN requested = 1..Len(requested)
        BY DEF TypeOK
      <4>2. DOMAIN requested' = 1..(Len(requested) + 1)
        BY <2>1, <4>1
      <4>3. \A i \in DOMAIN requested : requested'[i] = requested[i] /\ requested[i] \in Turns
        BY <2>1, <4>1
      <4>4. requested'[Len(requested) + 1] = t
        BY <2>1, <4>1
      <4> QED  BY <4>1, <4>2, <4>3, <4>4
    <3>2. \A i \in DOMAIN requested : requested[i] # t
      BY <3>0 DEF RequestInv
    <3>3. turn'[t] = "starting" /\ \A u \in Turns : u # t => turn'[u] = turn[u]
      BY <2>1 DEF TypeOK
    <3>4. \A i \in awaited' : turn'[requested'[i]] = "starting"
      BY <2>1, <3>1, <3>2, <3>3 DEF RequestInv, TypeOK
    <3>5. \A i \in DOMAIN requested' : turn'[requested'[i]] \notin {"idle", "refused"}
      BY <3>1, <3>2, <3>3 DEF RequestInv
    <3>6. \A i, j \in DOMAIN requested' : requested'[i] = requested'[j] => i = j
      BY <3>1, <3>2 DEF RequestInv
    <3> QED  BY <3>4, <3>5, <3>6 DEF RequestInv
  <2>2. CASE turn' = [turn EXCEPT ![t] = "refused"] /\ UNCHANGED <<requested, awaited>>
    <3>1. turn[t] = "idle"
      BY <1>5 DEF StartTurn
    <3>2. \A i \in DOMAIN requested : requested[i] # t /\ requested[i] \in Turns
      BY <3>1 DEF RequestInv, TypeOK
    <3>3. \A i \in DOMAIN requested : turn'[requested[i]] = turn[requested[i]]
      BY <2>2, <3>2 DEF TypeOK
    <3> QED  BY <2>2, <3>3 DEF RequestInv, TypeOK
  <2> QED  BY <1>5, <2>1, <2>2 DEF StartTurn
<1>6. ASSUME NEW t \in Turns, ReadEvent(t) \/ ContinueTool(t) \/ ExpireTool(t)
      PROVE  RequestInv'
  <2>1. /\ UNCHANGED <<requested, awaited>>
        /\ turn[t] \in {"reading", "held"}
        /\ turn'[t] \in {"reading", "held", "failed", "done", "expired"}
        /\ \A u \in Turns : u # t => turn'[u] = turn[u]
    BY <1>6, TurnEffect
  <2>2. \A i \in DOMAIN requested : requested[i] \in Turns
    BY DEF TypeOK
  <2>3. \A i \in awaited : requested[i] \in Turns /\ requested[i] # t
    BY <2>1 DEF RequestInv, TypeOK
  <2> QED  BY <2>1, <2>2, <2>3 DEF RequestInv
<1> QED  BY <1>1, <1>2, <1>3, <1>4, <1>5, <1>6, Effects

\* A line that could be blamed on nobody keeps being so only as long as the
\* request it answers has not been made.
LEMMA UnscopedBefore ==
  ASSUME TypeOK, NEW n \in DOMAIN written, Unscoped(n)',
         \A k \in DOMAIN written : written'[k] = written[k],
         DOMAIN requested \subseteq DOMAIN requested'
  PROVE  Unscoped(n)
<1>1. n \in Nat /\ \A k \in 1..(n - 1) : k \in DOMAIN written
  BY DEF TypeOK
<1> QED  BY <1>1 DEF Unscoped, IsEvent

LEMMA UnscopedAfter ==
  ASSUME TypeOK, NEW n \in DOMAIN written, Unscoped(n),
         \A k \in DOMAIN written : written'[k] = written[k], requested' = requested
  PROVE  Unscoped(n)'
<1>1. n \in Nat /\ \A k \in 1..(n - 1) : k \in DOMAIN written
  BY DEF TypeOK
<1> QED  BY <1>1 DEF Unscoped, IsEvent

LEMMA ScopeStep ==
  ASSUME IInv, [Next]_vars, TypeOK'
  PROVE  ScopeInv'
<1> USE DEF IInv
<1> SUFFICES ASSUME connection' = "alive"
             PROVE  /\ \A n \in 1..read' : ~Unscoped(n)'
                    /\ \A id \in DOMAIN requested' :
                         id \in awaited' <=> ~ \E n \in 1..read' : IsAnswer(n, id)'
  BY DEF ScopeInv
<1>0. /\ read \in Nat /\ 1..read \subseteq DOMAIN written /\ awaited \subseteq DOMAIN requested
      /\ 1..(read + 1) = (1..read) \cup {read + 1}
  BY DEF TypeOK
<1>1. CASE Quiet
  <2>1. /\ connection = "alive" /\ UNCHANGED <<read, requested, awaited>>
        /\ \A n \in DOMAIN written : written'[n] = written[n]
    BY <1>1 DEF Quiet
  <2>2. \A n \in 1..read : ~Unscoped(n)'
    BY <2>1, <1>0, UnscopedBefore DEF ScopeInv
  <2>3. \A n \in 1..read, id \in DOMAIN requested : IsAnswer(n, id)' <=> IsAnswer(n, id)
    BY <2>1, <1>0 DEF IsAnswer
  <2> QED  BY <2>1, <2>2, <2>3 DEF ScopeInv
<1>2. CASE Breaks
  BY <1>2 DEF Breaks, Fail
<1>3. ASSUME NEW m \in Messages, TakesAnswer(m) \/ TakesEvent(m) \/ TakesWarning(m)
      PROVE  /\ \A n \in 1..read' : ~Unscoped(n)'
             /\ \A id \in DOMAIN requested' :
                  id \in awaited' <=> ~ \E n \in 1..read' : IsAnswer(n, id)'
  <2>1. Takes(m)
    BY <1>3 DEF TakesAnswer, TakesEvent, TakesWarning
  <2>2. /\ connection = "alive" /\ read' = read + 1 /\ written' = written /\ requested' = requested
        /\ read + 1 \in DOMAIN written /\ m = written[read + 1] /\ m.decodes /\ m.size <= MaxFrame
        /\ m.size \in Nat
    BY <2>1, LinesAssumption DEF Takes
  <2>3. \A n \in 1..read : ~Unscoped(n)
    BY <2>2 DEF ScopeInv
  <2>4. ~Unscoped(read + 1)
    <3>1. CASE TakesAnswer(m)
      <4>1. /\ m.method = None /\ m.id.value \in DOMAIN requested /\ m.id.value \in awaited
            /\ m.id = [form |-> "number", value |-> m.id.value]
        BY <3>1, <1>0 DEF TakesAnswer
      <4>2. m.id \in [form : {"number"}, value : DOMAIN requested]
        BY <4>1
      <4>3. \A k \in 1..read : ~(written[k].method = None /\ written[k].id = m.id)
        BY <4>1, <2>2 DEF ScopeInv, IsAnswer
      <4>4. m.method # "configWarning" /\ ~IsEvent(m)
        BY <4>1 DEF None, IsEvent
      <4>5. (read + 1) - 1 = read
        BY <1>0
      <4> QED  BY <4>2, <4>3, <4>4, <4>5, <2>2, MessagesAssumption DEF Unscoped
    <3>2. CASE TakesEvent(m)
      <4>1. m.method \notin {None, "configWarning"} /\ m.thread \in Turns
        BY <3>2 DEF TakesEvent, IsEvent, Registered
      <4> QED  BY <4>1, <2>2, MessagesAssumption DEF Unscoped
    <3>3. CASE TakesWarning(m)
      <4>1. m.method # None /\ m.method = "configWarning" /\ m.id = NoId /\ m.whole
        BY <3>3 DEF TakesWarning, None
      <4> QED  BY <4>1, <2>2, MessagesAssumption DEF Unscoped, IsEvent
    <3> QED  BY <3>1, <3>2, <3>3, <1>3
  <2>5. \A n \in 1..(read + 1) : ~Unscoped(n)'
    <3>1. \A n \in DOMAIN written : Unscoped(n)' => Unscoped(n)
      BY <2>2, UnscopedBefore
    <3> QED  BY <3>1, <2>2, <2>3, <2>4, <1>0
  <2>6. ASSUME NEW id \in DOMAIN requested
        PROVE  id \in awaited' <=> ~ \E n \in 1..(read + 1) : IsAnswer(n, id)'
    <3>1. \A n \in 1..(read + 1) : IsAnswer(n, id)' <=> IsAnswer(n, id)
      BY <2>2 DEF IsAnswer
    <3>2. id \in awaited <=> ~ \E n \in 1..read : IsAnswer(n, id)
      BY <2>2 DEF ScopeInv
    <3>3. id \in awaited' <=> id \in awaited /\ ~IsAnswer(read + 1, id)
      <4>1. CASE TakesAnswer(m)
        <5>1. /\ m.method = None /\ m.id = [form |-> "number", value |-> m.id.value]
              /\ awaited' = awaited \ {m.id.value}
          BY <4>1 DEF TakesAnswer
        <5>2. IsAnswer(read + 1, id) <=> id = m.id.value
          BY <5>1, <2>2 DEF IsAnswer
        <5> QED  BY <5>1, <5>2
      <4>2. CASE TakesEvent(m) \/ TakesWarning(m)
        <5>1. m.method # None /\ awaited' = awaited
          BY <4>2 DEF TakesEvent, TakesWarning, IsEvent, None
        <5> QED  BY <5>1, <2>2 DEF IsAnswer
      <4> QED  BY <4>1, <4>2, <1>3
    <3> QED  BY <3>1, <3>2, <3>3, <1>0
  <2> QED  BY <2>2, <2>5, <2>6
<1>4. ASSUME NEW t \in Turns, StartTurn(t)
      PROVE  /\ \A n \in 1..read' : ~Unscoped(n)'
             /\ \A id \in DOMAIN requested' :
                  id \in awaited' <=> ~ \E n \in 1..read' : IsAnswer(n, id)'
  <2>1. /\ connection = "alive" /\ read' = read /\ written' = written
        /\ \/ requested' = Append(requested, t) /\ awaited' = awaited \cup {Len(requested) + 1}
           \/ UNCHANGED <<requested, awaited>>
    BY <1>4 DEF StartTurn, readerVars, serverVars
  <2>2. /\ DOMAIN requested \subseteq DOMAIN requested'
        /\ \A id \in DOMAIN requested' : id \in awaited' <=> id \in awaited \/ id \notin DOMAIN requested
    <3>1. /\ requested \in Seq(Turns) /\ Len(requested) \in Nat /\ awaited \subseteq DOMAIN requested
          /\ DOMAIN requested = 1..Len(requested)
      BY DEF TypeOK
    <3>2. CASE requested' = Append(requested, t) /\ awaited' = awaited \cup {Len(requested) + 1}
      <4>1. DOMAIN requested' = 1..(Len(requested) + 1)
        BY <3>1, <3>2
      <4> QED  BY <4>1, <3>1, <3>2
    <3>3. CASE UNCHANGED <<requested, awaited>>
      BY <3>1, <3>3
    <3> QED  BY <2>1, <3>2, <3>3
  <2>3. \A n \in 1..read : ~Unscoped(n)'
    BY <2>1, <2>2, <1>0, UnscopedBefore DEF ScopeInv
  <2>4. \A n \in 1..read, id \in DOMAIN requested' : IsAnswer(n, id)' <=> IsAnswer(n, id)
    BY <2>1 DEF IsAnswer
  <2>5. ASSUME NEW n \in 1..read, NEW id, IsAnswer(n, id)
        PROVE  id \in DOMAIN requested
    <3>1. ~Unscoped(n) /\ written[n].method = None /\ written[n].id = [form |-> "number", value |-> id]
      BY <2>1, <2>5 DEF ScopeInv, IsAnswer
    <3>2. written[n].id \in [form : {"number"}, value : DOMAIN requested]
      BY <3>1 DEF Unscoped
    <3>3. written[n].id.value \in DOMAIN requested
      BY <3>2
    <3> QED  BY <3>1, <3>3
  <2> QED  BY <2>1, <2>2, <2>3, <2>4, <2>5 DEF ScopeInv
<1>5. ASSUME NEW t \in Turns, ReadEvent(t) \/ ContinueTool(t) \/ ExpireTool(t)
      PROVE  /\ \A n \in 1..read' : ~Unscoped(n)'
             /\ \A id \in DOMAIN requested' :
                  id \in awaited' <=> ~ \E n \in 1..read' : IsAnswer(n, id)'
  <2>1. UNCHANGED <<written, read, connection, requested, awaited>>
    BY <1>5, TurnEffect
  <2>2. \A n \in 1..read : ~Unscoped(n)'
    BY <2>1, <1>0, UnscopedBefore DEF ScopeInv
  <2>3. \A n \in 1..read, id \in DOMAIN requested : IsAnswer(n, id)' <=> IsAnswer(n, id)
    BY <2>1 DEF IsAnswer
  <2> QED  BY <2>1, <2>2, <2>3 DEF ScopeInv
<1> QED  BY <1>1, <1>2, <1>3, <1>4, <1>5, Effects

\* Once the connection has failed, what it failed for stays where it is.
LEMMA FailureStep ==
  ASSUME IInv, [Next]_vars, TypeOK'
  PROVE  FailureInv'
<1> USE DEF IInv
<1> SUFFICES ASSUME connection' = "failed"
             PROVE  \/ output' = "closed" /\ wire' = <<>>
                    \/ \E n \in {read', read' + 1} \cap DOMAIN written' : OfNoTurn(n)'
  BY DEF FailureInv
<1>1. CASE Breaks
  <2>1. /\ written' = written /\ requested' = requested
        /\ \A t \in Turns : turn[t] \notin {"starting", "reading", "held"}
                            => turn'[t] \notin {"reading", "held"}
    BY <1>1 DEF Breaks, Fail, TypeOK
  <2>2. \/ output' = "closed" /\ wire' = <<>>
        \/ \E n \in {read', read' + 1} \cap DOMAIN written :
             Unscoped(n) \/ (IsEvent(written[n]) /\ written[n].thread \in Turns \ Registered)
    BY <1>1 DEF Breaks
  <2>3. ASSUME NEW n \in DOMAIN written,
               Unscoped(n) \/ (IsEvent(written[n]) /\ written[n].thread \in Turns \ Registered)
        PROVE  OfNoTurn(n)'
    <3>1. CASE Unscoped(n)
      <4>1. Unscoped(n)'
        BY <2>1, <3>1, UnscopedAfter
      <4> QED  BY <4>1 DEF OfNoTurn
    <3>2. CASE IsEvent(written[n]) /\ written[n].thread \in Turns \ Registered
      <4>1. turn'[written[n].thread] \notin {"reading", "held"}
        BY <2>1, <3>2 DEF Registered
      <4> QED  BY <2>1, <3>2, <4>1 DEF OfNoTurn, IsEvent
    <3> QED  BY <2>3, <3>1, <3>2
  <2> QED  BY <2>1, <2>2, <2>3
<1>2. ASSUME ~Breaks
      PROVE  /\ connection = "failed" /\ read' = read /\ requested' = requested
             /\ \A n \in DOMAIN written : n \in DOMAIN written' /\ written'[n] = written[n]
             /\ output = "closed" /\ wire = <<>> => output' = "closed" /\ wire' = <<>>
             /\ \A t \in Turns : turn'[t] \in {"reading", "held"} => turn[t] \in {"reading", "held"}
  <2>1. CASE Quiet
    BY <2>1 DEF Quiet, turnVars
  <2>2. ASSUME NEW m \in Messages, TakesAnswer(m) \/ TakesEvent(m) \/ TakesWarning(m)
        PROVE  FALSE
    BY <2>2 DEF TakesAnswer, TakesEvent, TakesWarning, Takes
  <2>3. ASSUME NEW t \in Turns, StartTurn(t)
        PROVE  FALSE
    BY <2>3 DEF StartTurn
  <2>4. ASSUME NEW t \in Turns, ReadEvent(t) \/ ContinueTool(t) \/ ExpireTool(t)
        PROVE  /\ UNCHANGED <<wire, output, written, read, connection, requested>>
               /\ \A u \in Turns : turn'[u] \in {"reading", "held"} => turn[u] \in {"reading", "held"}
    BY <2>4, TurnEffect
  <2> QED  BY <1>2, <2>1, <2>2, <2>3, <2>4, Effects
<1>3. CASE ~Breaks
  <2>1. CASE output = "closed" /\ wire = <<>>
    BY <1>2, <1>3, <2>1
  <2>2. ASSUME NEW n \in {read, read + 1} \cap DOMAIN written, OfNoTurn(n)
        PROVE  OfNoTurn(n)' /\ n \in {read', read' + 1} \cap DOMAIN written'
    <3>1. CASE Unscoped(n)
      <4>1. Unscoped(n)'
        BY <1>2, <1>3, <3>1, UnscopedAfter
      <4> QED  BY <4>1, <1>2, <1>3 DEF OfNoTurn
    <3>2. CASE ~Unscoped(n)
      <4>1. /\ IsEvent(written[n]) /\ turn[written[n].thread] \notin {"reading", "held"}
            /\ written[n].thread \in Turns
        BY <2>2, <3>2 DEF OfNoTurn, Unscoped
      <4>2. IsEvent(written'[n]) /\ turn'[written'[n].thread] \notin {"reading", "held"}
        BY <4>1, <1>2, <1>3
      <4> QED  BY <4>2, <1>2, <1>3 DEF OfNoTurn, IsEvent
    <3> QED  BY <3>1, <3>2
  <2> QED  BY <2>1, <2>2, <1>2, <1>3 DEF FailureInv
<1> QED  BY <1>1, <1>3

-----------------------------------------------------------------------------
(* The channels of the turns.                                              *)

\* What has been read, requested and declared stays.
LEMMA Monotone ==
  ASSUME IInv, [Next]_vars, TypeOK'
  PROVE  /\ connection = "failed" => connection' = "failed"
         /\ read' \in {read, read + 1}
         /\ \A n \in 1..read : n \in 1..read' /\ n \in DOMAIN written /\ written'[n] = written[n]
         /\ \A i \in DOMAIN requested : requested'[i] = requested[i]
         /\ \A t \in Turns : turn[t] # "idle" => turn'[t] # "idle" /\ declared'[t] = declared[t]
<1> USE DEF IInv
<1>0. /\ read \in Nat /\ 1..read \subseteq DOMAIN written /\ 1..read \subseteq 1..(read + 1)
      /\ \A i \in DOMAIN requested : requested[i] \in Turns
  BY DEF TypeOK
<1>1. CASE Quiet
  BY <1>0, <1>1 DEF Quiet, turnVars, toolVars
<1>2. CASE Breaks
  <2>1. \A t \in Turns : turn'[t] \in {turn[t], "failed"}
    BY <1>2 DEF Breaks, Fail, TypeOK
  <2> QED  BY <1>0, <1>2, <2>1 DEF Breaks, toolVars
<1>3. ASSUME NEW m \in Messages, TakesAnswer(m) \/ TakesEvent(m) \/ TakesWarning(m)
      PROVE  /\ connection' = connection /\ read' = read + 1 /\ written' = written
             /\ requested' = requested /\ declared' = declared
             /\ \A t \in Turns : turn[t] # "idle" => turn'[t] # "idle"
  <2>1. Takes(m)
    BY <1>3 DEF TakesAnswer, TakesEvent, TakesWarning
  <2>2. CASE TakesAnswer(m)
    <3>1. requested[m.id.value] \in Turns
      BY <2>2, <1>0 DEF TakesAnswer, TypeOK
    <3>2. \A t \in Turns : turn'[t] \in {turn[t], "reading", "failed"}
      BY <2>2, <3>1 DEF TakesAnswer, TypeOK
    <3> QED  BY <2>1, <3>2 DEF Takes, toolVars
  <2>3. CASE TakesEvent(m) \/ TakesWarning(m)
    BY <2>1, <2>3 DEF Takes, TakesEvent, TakesWarning, toolVars
  <2> QED  BY <1>3, <2>2, <2>3
<1>4. ASSUME NEW t \in Turns, StartTurn(t)
      PROVE  /\ UNCHANGED <<connection, read, written>>
             /\ \A i \in DOMAIN requested : requested'[i] = requested[i]
             /\ \A u \in Turns : turn[u] # "idle" => turn'[u] # "idle" /\ declared'[u] = declared[u]
  <2>1. /\ UNCHANGED <<connection, read, written>> /\ turn[t] = "idle"
        /\ requested' = Append(requested, t) \/ requested' = requested
        /\ \A u \in Turns : u # t => turn'[u] = turn[u] /\ declared'[u] = declared[u]
    BY <1>4 DEF StartTurn, readerVars, serverVars, TypeOK
  <2>2. \A i \in DOMAIN requested : requested'[i] = requested[i]
    <3>1. requested \in Seq(Turns)
      BY DEF TypeOK
    <3> QED  BY <2>1, <3>1
  <2> QED  BY <2>1, <2>2
<1>5. ASSUME NEW t \in Turns, ReadEvent(t) \/ ContinueTool(t) \/ ExpireTool(t)
      PROVE  /\ UNCHANGED <<connection, read, written, requested, declared>>
             /\ \A u \in Turns : turn[u] # "idle" => turn'[u] # "idle"
  BY <1>5, TurnEffect
<1> QED  BY <1>0, <1>1, <1>2, <1>3, <1>4, <1>5, Effects

\* The lines of a turn that had been read are those that still are.
LEMMA OwnMonotone ==
  ASSUME IInv, [Next]_vars, TypeOK', NEW t
  PROVE  /\ \A n \in Own(t) : n \in Own(t)' /\ written'[n] = written[n]
         /\ \A n \in Own(t)' : n <= read => n \in Own(t)
         /\ Own(t) \subseteq 1..read
<1>1. read \in Nat /\ read' \in {read, read + 1}
  BY Monotone DEF IInv, TypeOK
<1>2. \A n \in 1..read : n \in 1..read' /\ written'[n] = written[n]
  BY Monotone
<1> QED  BY <1>1, <1>2 DEF Own, IsEvent

LEMMA HoldsStays ==
  ASSUME NEW t \in Turns, NEW at \in Seq(Nat), Holds(t, at), inbox'[t] = inbox[t],
         Own(t)' = Own(t), \A n \in Own(t) : written'[n] = written[n],
         declared'[t] = declared[t], connection = "failed" => connection' = "failed"
  PROVE  Holds(t, at)'
<1>1. \A n \in Own(t) : Faulty(written[n], t)' <=> Faulty(written[n], t)
  BY DEF Faulty
<1> QED  BY <1>1 DEF Holds

\* An event the reader accepts is a line of its turn, and everything that was
\* read of the turn up to it was right.
LEMMA HeadIsOwn ==
  ASSUME TypeOK, NEW t \in Turns, NEW at \in Seq(Nat), Holds(t, at), inbox[t] # <<>>,
         Accepts(Head(inbox[t]), t)
  PROVE  /\ Len(at) > 0 /\ at[1] \in Own(t) /\ Head(inbox[t]) = written[at[1]]
         /\ \A n \in Own(t) : n <= at[1] => ~Faulty(written[n], t)
<1>1. /\ inbox[t] \in Seq(Messages \cup {Failure}) /\ 1 \in DOMAIN inbox[t]
      /\ Head(inbox[t]) = inbox[t][1]
  BY DEF TypeOK
<1>2. inbox[t][1] # Failure
  BY <1>1 DEF Accepts, TurnEvents, Failure
<1>3. 1 \in DOMAIN at
  BY <1>1, <1>2 DEF Holds
<1>4. at[1] \in Own(t) /\ inbox[t][1] = written[at[1]]
  BY <1>3 DEF Holds
<1>5. ~Faulty(written[at[1]], t)
  BY <1>1, <1>4 DEF Accepts, Faulty, InScope, ToolIsKnown, TypeOK
<1>6. ASSUME NEW n \in Own(t), n <= at[1]
      PROVE  ~Faulty(written[n], t)
  <2>1. n \in Nat /\ at[1] \in Nat /\ \A i \in DOMAIN at : at[i] \in Nat
    BY <1>3, <1>4 DEF Own, TypeOK
  <2>2. CASE \E i \in DOMAIN at : n = at[i]
    <3>1. PICK i \in DOMAIN at : n = at[i]
      BY <2>2
    <3>2. ~(1 < i)
      BY <3>1, <2>1, <1>3, <1>6 DEF Holds
    <3>3. i = 1
      BY <3>2
    <3> QED  BY <3>1, <3>3, <1>5
  <2>3. CASE \A i \in DOMAIN at : at[i] < n
    BY <2>1, <2>3, <1>3, <1>6
  <2> QED  BY <2>2, <2>3 DEF Holds
<1> QED  BY <1>1, <1>3, <1>4, <1>6

\* An event it refuses is a fault of the turn, or the failure of the connection.
LEMMA HeadIsFaulty ==
  ASSUME TypeOK, NEW t \in Turns, NEW at \in Seq(Nat), Holds(t, at), inbox[t] # <<>>,
         ~Accepts(Head(inbox[t]), t)
  PROVE  connection = "failed" \/ \E n \in Own(t) : Faulty(written[n], t)
<1>1. /\ inbox[t] \in Seq(Messages \cup {Failure}) /\ 1 \in DOMAIN inbox[t]
      /\ Head(inbox[t]) = inbox[t][1]
  BY DEF TypeOK
<1>2. CASE Len(at) = 0
  BY <1>1, <1>2 DEF Holds
<1>3. CASE Len(at) # 0
  <2>1. 1 \in DOMAIN at
    BY <1>3
  <2>2. at[1] \in Own(t) /\ inbox[t][1] = written[at[1]]
    BY <2>1 DEF Holds
  <2>3. written[at[1]].thread = t
    BY <2>2 DEF Own
  <2> QED  BY <1>1, <2>2, <2>3 DEF Accepts, Faulty, InScope, ToolIsKnown, TypeOK
<1> QED  BY <1>2, <1>3

LEMMA QueueStep ==
  ASSUME IInv, [Next]_vars, TypeOK'
  PROVE  QueueInv'
<1> USE DEF IInv
<1>0. read \in Nat
  BY DEF TypeOK
<1>1. CASE Quiet
  <2>1. /\ read' = read
        /\ UNCHANGED <<turn, inbox, declared, connection>>
        /\ \A n \in DOMAIN written : n \in DOMAIN written' /\ written'[n] = written[n]
    BY <1>1 DEF Quiet, turnVars, toolVars
  <2> SUFFICES ASSUME NEW t \in Turns
               PROVE  /\ turn'[t] \in Running => \E at \in Seq(Nat) : Holds(t, at)'
                      /\ turn'[t] = "idle" => inbox'[t] = <<>> /\ (connection' = "alive" => Own(t)' = {})
    BY DEF QueueInv
  <2>2. Own(t)' = Own(t) /\ \A n \in Own(t) : written'[n] = written[n]
    BY <2>1, OwnStays DEF Own
  <2>3. ASSUME NEW at \in Seq(Nat), Holds(t, at)
        PROVE  Holds(t, at)'
    BY <2>1, <2>2, <2>3, HoldsStays
  <2> QED  BY <2>1, <2>2, <2>3 DEF QueueInv
<1>2. CASE Breaks
  <2>1. /\ connection = "alive" /\ connection' = "failed" /\ written' = written /\ declared' = declared
        /\ read' \in {read, read + 1}
        /\ \A t \in Turns : turn'[t] = IF turn[t] = "starting" THEN "failed" ELSE turn[t]
        /\ \A t \in Turns : inbox'[t] = IF turn[t] \in {"reading", "held"}
                                        THEN Append(inbox[t], Failure) ELSE <<>>
    BY <1>2 DEF Breaks, Fail, toolVars, Failure
  <2> SUFFICES ASSUME NEW t \in Turns
               PROVE  /\ turn'[t] \in Running => \E at \in Seq(Nat) : Holds(t, at)'
                      /\ turn'[t] = "idle" => inbox'[t] = <<>>
    BY <2>1 DEF QueueInv
  <2>2. ASSUME turn'[t] \in Running
        PROVE  \E at \in Seq(Nat) : Holds(t, at)'
    <3>1. turn[t] \in {"reading", "held"} /\ inbox'[t] = Append(inbox[t], Failure)
      BY <2>1, <2>2 DEF Running
    <3>2. PICK at \in Seq(Nat) : Holds(t, at)
      BY <3>1 DEF QueueInv, Running
    <3>3. /\ Len(inbox'[t]) = Len(inbox[t]) + 1 /\ Len(inbox[t]) \in Nat /\ Len(at) \in Nat
          /\ \A i \in 1..Len(inbox[t]) : inbox'[t][i] = inbox[t][i]
          /\ inbox'[t][Len(inbox[t]) + 1] = Failure
          /\ DOMAIN inbox'[t] = 1..(Len(inbox[t]) + 1) /\ DOMAIN inbox[t] = 1..Len(inbox[t])
          /\ DOMAIN at = 1..Len(at)
      BY <3>1 DEF TypeOK
    <3>4. /\ \A n \in Own(t) : n \in Own(t)'
          /\ \A n \in Own(t)' : n \in Own(t) \/ n > read
          /\ \A n \in Own(t)' : n \in Nat
          /\ Own(t) \subseteq 1..read
      BY OwnMonotone, <1>0, <2>1 DEF Own
    <3>5. \A n \in Own(t) : Faulty(written[n], t)' <=> Faulty(written[n], t)
      BY <2>1 DEF Faulty
    <3>6. ASSUME NEW n \in Own(t)'
          PROVE  \/ \E i \in DOMAIN at : n = at[i]
                 \/ ~Faulty(written[n], t)' /\ \A i \in DOMAIN at : n < at[i]
                 \/ \A i \in DOMAIN at : at[i] < n
      <4>1. CASE n \in Own(t)
        <5>1. Faulty(written[n], t)' <=> Faulty(written[n], t)
          BY <4>1, <3>5
        <5>2. \/ \E i \in DOMAIN at : n = at[i]
              \/ ~Faulty(written[n], t) /\ \A i \in DOMAIN at : n < at[i]
              \/ \A i \in DOMAIN at : at[i] < n
          BY <4>1, <3>2 DEF Holds
        <5> QED  BY <5>1, <5>2
      <4>2. CASE n > read
        <5>1. \A i \in DOMAIN at : at[i] \in 1..read
          BY <3>2, <3>4 DEF Holds
        <5> QED  BY <5>1, <4>2, <3>4, <1>0
      <4> QED  BY <4>1, <4>2, <3>4
    <3>7. /\ Len(at) <= Len(inbox'[t])
          /\ \A i \in DOMAIN at : inbox'[t][i] = written[at[i]]
          /\ \A i \in DOMAIN inbox'[t] : i > Len(at) => inbox'[t][i] = Failure
      <4>1. /\ Len(at) <= Len(inbox[t])
            /\ \A i \in DOMAIN at : inbox[t][i] = written[at[i]]
            /\ \A i \in DOMAIN inbox[t] : i > Len(at) => inbox[t][i] = Failure
        BY <3>2 DEF Holds
      <4>2. \A i \in DOMAIN at : i \in 1..Len(inbox[t])
        BY <3>3, <4>1
      <4>3. \A i \in DOMAIN at : inbox'[t][i] = written[at[i]]
        BY <3>3, <4>1, <4>2
      <4>4. ASSUME NEW i \in DOMAIN inbox'[t], i > Len(at)
            PROVE  inbox'[t][i] = Failure
        <5>1. i \in 1..Len(inbox[t]) \/ i = Len(inbox[t]) + 1
          BY <3>3
        <5> QED  BY <5>1, <3>3, <4>1, <4>4
      <4> QED  BY <3>3, <4>1, <4>3, <4>4
    <3>8. Holds(t, at)'
      <4>1. /\ \A i \in DOMAIN at : at[i] \in Own(t)'
            /\ \A i, j \in DOMAIN at : i < j => at[i] < at[j]
        BY <3>2, <3>4 DEF Holds
      <4> QED  BY <4>1, <3>6, <3>7, <2>1 DEF Holds
    <3> QED  BY <3>8
  <2>3. turn'[t] = "idle" => inbox'[t] = <<>>
    BY <2>1
  <2> QED  BY <2>2, <2>3
<1>3. ASSUME NEW m \in Messages, TakesAnswer(m) \/ TakesEvent(m) \/ TakesWarning(m)
      PROVE  QueueInv'
  <2>1. /\ connection = "alive" /\ connection' = "alive" /\ written' = written /\ declared' = declared
        /\ read' = read + 1 /\ m = written[read + 1] /\ read + 1 \in DOMAIN written
    BY <1>3 DEF TakesAnswer, TakesEvent, TakesWarning, Takes, toolVars
  <2>2. SUFFICES ASSUME NEW t \in Turns
               PROVE  /\ turn'[t] \in Running => \E at \in Seq(Nat) : Holds(t, at)'
                      /\ turn'[t] = "idle" => inbox'[t] = <<>> /\ Own(t)' = {}
    BY DEF QueueInv
  <2>3. Own(t)' = Own(t) \cup (IF IsEvent(m) /\ m.thread = t THEN {read + 1} ELSE {})
    BY <2>1, OwnGrows
  <2>4. ASSUME inbox'[t] = inbox[t], ~(IsEvent(m) /\ m.thread = t),
               turn'[t] \in Running => turn[t] \in Running, turn'[t] = "idle" => turn[t] = "idle"
        PROVE  /\ turn'[t] \in Running => \E at \in Seq(Nat) : Holds(t, at)'
               /\ turn'[t] = "idle" => inbox'[t] = <<>> /\ Own(t)' = {}
    <3>1. Own(t)' = Own(t)
      BY <2>3, <2>4
    <3>2. ASSUME NEW at \in Seq(Nat), Holds(t, at)
          PROVE  Holds(t, at)'
      BY <2>1, <2>4, <3>1, <3>2, HoldsStays
    <3> QED  BY <2>1, <2>4, <3>1, <3>2 DEF QueueInv
  <2>5. CASE TakesAnswer(m)
    <3>1. ~IsEvent(m) /\ requested[m.id.value] \in Turns /\ turn[requested[m.id.value]] = "starting"
      BY <2>5 DEF TakesAnswer, IsEvent, RequestInv, TypeOK
    <3>2. CASE t = requested[m.id.value]
      <4>1. /\ turn'[t] = IF m.whole THEN "reading" ELSE "failed"
            /\ m.whole => inbox' = inbox
        BY <2>5, <3>1, <3>2 DEF TakesAnswer, TypeOK
      <4>2. CASE m.whole
        BY <4>1, <4>2, <3>1, <3>2, <2>4 DEF Running
      <4>3. CASE ~m.whole
        BY <4>1, <4>3 DEF Running
      <4> QED  BY <4>2, <4>3
    <3>3. CASE t # requested[m.id.value]
      <4>1. turn'[t] = turn[t] /\ inbox'[t] = inbox[t]
        BY <2>5, <3>1, <3>3 DEF TakesAnswer, TypeOK
      <4> QED  BY <4>1, <3>1, <2>4
    <3> QED  BY <3>2, <3>3
  <2>6. CASE TakesWarning(m)
    <3>1. ~IsEvent(m) /\ UNCHANGED <<turn, inbox>>
      BY <2>6 DEF TakesWarning, IsEvent
    <3> QED  BY <3>1, <2>4
  <2>7. CASE TakesEvent(m) /\ m.thread # t
    <3>1. turn' = turn /\ inbox'[t] = inbox[t]
      BY <2>7 DEF TakesEvent, TypeOK
    <3> QED  BY <3>1, <2>4, <2>7
  <2>8. CASE TakesEvent(m) /\ m.thread = t
    <3>1. /\ IsEvent(m) /\ turn' = turn /\ turn[t] \in Running
          /\ inbox'[t] = Append(inbox[t], m)
      BY <2>8 DEF TakesEvent, Registered, Running, TypeOK
    <3>2. PICK at \in Seq(Nat) : Holds(t, at)
      BY <3>1 DEF QueueInv
    <3>3. Len(at) = Len(inbox[t])
      <4>1. inbox[t] \in Seq(Messages \cup {Failure})
        BY DEF TypeOK
      <4>2. Len(inbox[t]) \notin DOMAIN inbox[t] \/ Len(inbox[t]) <= Len(at)
        BY <2>1, <3>2, <4>1 DEF Holds
      <4>3. Len(at) <= Len(inbox[t])
        BY <3>2 DEF Holds
      <4> QED  BY <4>1, <4>2, <4>3
    <3>13. PICK more \in Seq(Nat) : more = Append(at, read + 1)
      <4>1. Append(at, read + 1) \in Seq(Nat)
        BY <1>0
      <4> QED  BY <4>1
    <3>4. /\ more \in Seq(Nat) /\ Len(more) = Len(at) + 1 /\ Len(at) \in Nat
          /\ DOMAIN more = 1..(Len(at) + 1) /\ DOMAIN at = 1..Len(at)
          /\ more[Len(at) + 1] = read + 1 /\ \A i \in 1..Len(at) : more[i] = at[i]
      BY <1>0, <3>13
    <3>5. /\ Len(inbox'[t]) = Len(at) + 1 /\ DOMAIN inbox'[t] = 1..(Len(at) + 1)
          /\ inbox'[t][Len(at) + 1] = m /\ \A i \in 1..Len(at) : inbox'[t][i] = inbox[t][i]
      <4>1. inbox[t] \in Seq(Messages \cup {Failure})
        BY DEF TypeOK
      <4> QED  BY <4>1, <3>1, <3>3
    <3>6. /\ Own(t)' = Own(t) \cup {read + 1} /\ Own(t) \subseteq 1..read
      BY <2>3, <2>8, <3>1 DEF Own
    <3>7. /\ \A i \in DOMAIN at : at[i] \in Own(t) /\ at[i] <= read
          /\ \A i, j \in DOMAIN at : i < j => at[i] < at[j]
          /\ \A i \in DOMAIN at : inbox[t][i] = written[at[i]]
      BY <3>2, <3>6, <1>0 DEF Holds
    <3>8. \A i \in DOMAIN more : more[i] \in Own(t)' /\ inbox'[t][i] = written[more[i]]
      BY <3>4, <3>5, <3>6, <3>7, <2>1
    <3>9. ASSUME NEW i \in DOMAIN more, NEW j \in DOMAIN more, i < j
          PROVE  more[i] < more[j]
      <4>1. i \in 1..Len(at) /\ at[i] \in 1..read
        BY <3>4, <3>6, <3>7, <3>9
      <4>2. CASE j = Len(at) + 1
        BY <4>1, <4>2, <3>4, <1>0
      <4>3. CASE j \in 1..Len(at)
        BY <4>1, <4>3, <3>4, <3>7, <3>9
      <4> QED  BY <4>2, <4>3, <3>4
    <3>10. ASSUME NEW n \in Own(t)'
           PROVE  \/ \E i \in DOMAIN more : n = more[i]
                  \/ ~Faulty(written[n], t)' /\ \A i \in DOMAIN more : n < more[i]
      <4>1. CASE n = read + 1
        BY <4>1, <3>4
      <4>2. CASE n \in Own(t)
        <5>1. n \in 1..read
          BY <4>2, <3>6
        <5>2. Faulty(written[n], t)' <=> Faulty(written[n], t)
          BY <2>1 DEF Faulty
        <5>3. CASE \E i \in DOMAIN at : n = at[i]
          BY <5>3, <3>4
        <5>4. CASE ~Faulty(written[n], t) /\ \A i \in DOMAIN at : n < at[i]
          <6>1. ASSUME NEW i \in DOMAIN more PROVE n < more[i]
            BY <5>1, <5>4, <3>4, <1>0
          <6> QED  BY <6>1, <5>2, <5>4
        <5> QED  BY <5>3, <5>4, <4>2, <3>2, <2>1 DEF Holds
      <4> QED  BY <4>1, <4>2, <3>6
    <3>11. Holds(t, more)'
      <4>1. \A i \in DOMAIN inbox'[t] : ~(i > Len(more))
        BY <3>4, <3>5
      <4>2. Len(more) <= Len(inbox'[t])
        BY <3>4, <3>5
      <4>3. \A i, j \in DOMAIN more : i < j => more[i] < more[j]
        BY <3>9
      <4> QED  BY <4>1, <4>2, <4>3, <2>1, <3>8, <3>10 DEF Holds
    <3>12. turn'[t] # "idle" /\ more \in Seq(Nat)
      BY <3>1, <3>4 DEF Running
    <3> QED  BY <3>11, <3>12
  <2> QED  BY <1>3, <2>5, <2>6, <2>7, <2>8
<1>4. ASSUME NEW u \in Turns, StartTurn(u)
      PROVE  QueueInv'
  <2>1. /\ connection = "alive" /\ connection' = connection /\ UNCHANGED <<read, written, inbox>>
        /\ turn[u] = "idle" /\ turn'[u] \in {"starting", "refused"}
        /\ \A t \in Turns : t # u => turn'[t] = turn[t] /\ declared'[t] = declared[t]
    BY <1>4 DEF StartTurn, readerVars, serverVars, TypeOK
  <2>2. SUFFICES ASSUME NEW t \in Turns
               PROVE  /\ turn'[t] \in Running => \E at \in Seq(Nat) : Holds(t, at)'
                      /\ turn'[t] = "idle" => inbox'[t] = <<>> /\ (connection' = "alive" => Own(t)' = {})
    BY DEF QueueInv
  <2>3. Own(t)' = Own(t) /\ \A n \in Own(t) : written'[n] = written[n]
    BY <2>1 DEF Own, IsEvent
  <2>4. CASE t = u
    <3>1. inbox[t] = <<>> /\ Own(t) = {}
      BY <2>1, <2>4 DEF QueueInv
    <3>2. Holds(t, <<>>)'
      BY <3>1, <2>1, <2>3 DEF Holds
    <3>3. <<>> \in Seq(Nat)
      OBVIOUS
    <3> QED  BY <3>2, <3>3, <2>1, <2>4
  <2>5. CASE t # u
    <3>1. ASSUME NEW at \in Seq(Nat), Holds(t, at)
          PROVE  Holds(t, at)'
      BY <2>1, <2>3, <2>5, <3>1, HoldsStays
    <3> QED  BY <3>1, <2>1, <2>3, <2>5 DEF QueueInv
  <2> QED  BY <2>4, <2>5
<1>5. ASSUME NEW u \in Turns, ReadEvent(u) \/ ContinueTool(u) \/ ExpireTool(u)
      PROVE  QueueInv'
  <2>1. /\ UNCHANGED <<written, read, connection, declared>>
        /\ turn[u] \in {"reading", "held"} /\ turn'[u] # "idle"
        /\ \A t \in Turns : t # u => turn'[t] = turn[t] /\ inbox'[t] = inbox[t]
    BY <1>5, TurnEffect
  <2>2. SUFFICES ASSUME NEW t \in Turns
               PROVE  /\ turn'[t] \in Running => \E at \in Seq(Nat) : Holds(t, at)'
                      /\ turn'[t] = "idle" => inbox'[t] = <<>> /\ (connection' = "alive" => Own(t)' = {})
    BY DEF QueueInv
  <2>3. Own(t)' = Own(t) /\ \A n \in Own(t) : written'[n] = written[n]
    BY <2>1 DEF Own, IsEvent
  <2>4. ASSUME inbox'[t] = inbox[t], NEW at \in Seq(Nat), Holds(t, at)
        PROVE  Holds(t, at)'
    BY <2>1, <2>3, <2>4, HoldsStays, Monotone
  <2>5. CASE t # u
    BY <2>1, <2>3, <2>4, <2>5 DEF QueueInv
  <2>6. CASE t = u /\ inbox'[t] = inbox[t]
    BY <2>1, <2>4, <2>6 DEF QueueInv, Running
  <2>7. CASE t = u /\ ReadEvent(t) /\ turn'[t] \in Running
    <3>1. PICK at \in Seq(Nat) : Holds(t, at)
      BY <2>1, <2>7 DEF QueueInv, Running
    <3>2. /\ inbox[t] # <<>> /\ inbox[t] \in Seq(Messages \cup {Failure})
          /\ Accepts(Head(inbox[t]), t) /\ inbox'[t] = Tail(inbox[t])
      <4>1. inbox[t] # <<>> /\ inbox[t] \in Seq(Messages \cup {Failure})
        BY <2>7 DEF ReadEvent, TypeOK
      <4>2. Accepts(Head(inbox[t]), t) /\ Head(inbox[t]).method # "completed"
        BY <2>7 DEF ReadEvent, Returns, Running, TypeOK
      <4>3. inbox'[t] = Tail(inbox[t])
        BY <2>7, <4>2 DEF ReadEvent, Returns, TypeOK
      <4> QED  BY <4>1, <4>2, <4>3
    <3>3. /\ Len(at) > 0 /\ at[1] \in Own(t)
          /\ \A n \in Own(t) : n <= at[1] => ~Faulty(written[n], t)
      BY <3>1, <3>2, HeadIsOwn
    <3> DEFINE rest == Tail(at)
    <3>4. /\ rest \in Seq(Nat) /\ Len(rest) = Len(at) - 1 /\ Len(at) \in Nat
          /\ DOMAIN rest = 1..(Len(at) - 1) /\ DOMAIN at = 1..Len(at)
          /\ \A i \in 1..(Len(at) - 1) : rest[i] = at[i + 1]
      BY <3>3
    <3>5. /\ Len(inbox'[t]) = Len(inbox[t]) - 1 /\ DOMAIN inbox'[t] = 1..(Len(inbox[t]) - 1)
          /\ DOMAIN inbox[t] = 1..Len(inbox[t]) /\ Len(inbox[t]) \in Nat
          /\ \A i \in 1..(Len(inbox[t]) - 1) : inbox'[t][i] = inbox[t][i + 1]
      BY <3>2
    <3> HIDE DEF rest
    <3>6. \A i \in DOMAIN rest : /\ i + 1 \in DOMAIN at /\ i + 1 > 1 /\ i \in 1..(Len(inbox[t]) - 1)
                                 /\ rest[i] = at[i + 1]
      <4>1. Len(at) <= Len(inbox[t])
        BY <3>1 DEF Holds
      <4>2. ASSUME NEW i \in DOMAIN rest
            PROVE  i + 1 \in DOMAIN at /\ i + 1 > 1 /\ i \in 1..(Len(inbox[t]) - 1)
        <5>1. i \in 1..(Len(at) - 1)
          BY <3>4
        <5>2. Len(at) \in Nat /\ Len(inbox[t]) \in Nat /\ DOMAIN at = 1..Len(at)
          BY <3>4, <3>5
        <5> QED  BY <5>1, <5>2, <4>1
      <4> QED  BY <4>2, <3>4
    <3>7. /\ \A i \in DOMAIN rest : rest[i] \in Own(t)' /\ inbox'[t][i] = written'[rest[i]]
          /\ \A i, j \in DOMAIN rest : i < j => rest[i] < rest[j]
      <4>1. ASSUME NEW i \in DOMAIN rest
            PROVE  rest[i] \in Own(t)' /\ inbox'[t][i] = written'[rest[i]]
        BY <3>1, <3>5, <3>6, <2>1, <2>3 DEF Holds
      <4>2. ASSUME NEW i \in DOMAIN rest, NEW j \in DOMAIN rest, i < j
            PROVE  rest[i] < rest[j]
        <5>1. i + 1 < j + 1
          BY <4>2, <3>4
        <5> QED  BY <5>1, <3>1, <3>6 DEF Holds
      <4> QED  BY <4>1, <4>2
    <3>8. /\ Len(rest) <= Len(inbox'[t])
          /\ \A i \in DOMAIN inbox'[t] :
               i > Len(rest) => inbox'[t][i] = Failure /\ connection' = "failed"
      <4>1. Len(at) <= Len(inbox[t])
        BY <3>1 DEF Holds
      <4>2. ASSUME NEW i \in DOMAIN inbox'[t], i > Len(rest)
            PROVE  inbox'[t][i] = Failure /\ connection' = "failed"
        <5>1. i + 1 \in DOMAIN inbox[t] /\ i + 1 > Len(at) /\ inbox'[t][i] = inbox[t][i + 1]
          BY <4>2, <3>4, <3>5
        <5> QED  BY <5>1, <3>1, <2>1 DEF Holds
      <4> QED  BY <4>1, <4>2, <3>4, <3>5
    <3>9. ASSUME NEW n \in Own(t)
          PROVE  \/ \E i \in DOMAIN rest : n = rest[i]
                 \/ ~Faulty(written[n], t) /\ \A i \in DOMAIN rest : n < rest[i]
                 \/ connection = "failed" /\ \A i \in DOMAIN rest : rest[i] < n
      <4>0. /\ n \in Nat /\ 1 \in DOMAIN at /\ \A i \in DOMAIN at : at[i] \in Nat
            /\ \A i \in DOMAIN rest : at[1] < rest[i]
        <5>1. \A k \in Own(t) : k \in Nat
          BY <1>0 DEF Own
        <5>2. \A i \in DOMAIN at : at[i] \in Nat
          OBVIOUS
        <5>3. 1 \in DOMAIN at
          BY <3>3, <3>4
        <5>4. \A i, j \in DOMAIN at : i < j => at[i] < at[j]
          BY <3>1 DEF Holds
        <5>5. \A i \in DOMAIN rest : at[1] < rest[i]
          BY <5>3, <5>4, <3>6
        <5> QED  BY <5>1, <5>2, <5>3, <5>5
      <4>1. CASE \E i \in DOMAIN at : n = at[i]
        <5>1. PICK i \in DOMAIN at : n = at[i]
          BY <4>1
        <5>2. CASE i = 1
          BY <5>1, <5>2, <4>0, <3>3
        <5>3. CASE i # 1
          <6>1. i - 1 \in DOMAIN rest /\ (i - 1) + 1 = i
            BY <5>3, <3>4
          <6>2. rest[i - 1] = at[i]
            BY <6>1, <3>6
          <6> QED  BY <6>1, <6>2, <5>1
        <5> QED  BY <5>2, <5>3
      <4>2. CASE ~Faulty(written[n], t) /\ \A i \in DOMAIN at : n < at[i]
        BY <4>2, <3>6
      <4>3. CASE connection = "failed" /\ \A i \in DOMAIN at : at[i] < n
        BY <4>3, <3>6
      <4> QED  BY <4>1, <4>2, <4>3, <3>1 DEF Holds
    <3>10. \A n \in Own(t) : Faulty(written[n], t)' <=> Faulty(written[n], t)
      BY <2>1 DEF Faulty
    <3>11. Holds(t, rest)'
      <4>1. \A n \in Own(t)' :
              \/ \E i \in DOMAIN rest : n = rest[i]
              \/ ~Faulty(written[n], t)' /\ \A i \in DOMAIN rest : n < rest[i]
              \/ connection' = "failed" /\ \A i \in DOMAIN rest : rest[i] < n
        BY <3>9, <3>10, <2>1, <2>3
      <4> QED  BY <4>1, <3>7, <3>8 DEF Holds
    <3> QED  BY <3>11, <3>4, <2>1, <2>7
  <2>8. CASE t = u /\ turn'[t] \notin Running
    BY <2>1, <2>8
  <2>9. CASE t = u /\ turn'[t] \in Running /\ inbox'[t] # inbox[t] /\ ~ReadEvent(t)
    <3>1. ~ContinueTool(t)
      BY <2>9 DEF ContinueTool, Answers, Returns, Running, TypeOK
    <3>2. ~ExpireTool(t)
      BY <2>9 DEF ExpireTool, Returns, Running, TypeOK
    <3> QED  BY <3>1, <3>2, <2>9, <1>5
  <2> QED  BY <2>5, <2>6, <2>7, <2>8, <2>9
<1> QED  BY <1>1, <1>2, <1>3, <1>4, <1>5, Effects

-----------------------------------------------------------------------------
(* Outcomes and tools.                                                     *)

LEMMA ReasonsStay ==
  ASSUME IInv, [Next]_vars, TypeOK', NEW t \in Turns, turn[t] # "idle"
  PROVE  (Fails(t) => Fails(t)') /\ (Succeeds(t) => Succeeds(t)')
<1> USE DEF IInv
<1>1. /\ connection = "failed" => connection' = "failed"
      /\ \A n \in 1..read : n \in 1..read' /\ n \in DOMAIN written /\ written'[n] = written[n]
      /\ \A i \in DOMAIN requested : requested'[i] = requested[i]
      /\ declared'[t] = declared[t] /\ read \in Nat
  <2>1. read \in Nat
    BY DEF TypeOK
  <2> QED  BY <2>1, Monotone
<1>2. /\ \A n \in Own(t) : n \in Own(t)' /\ written'[n] = written[n]
      /\ \A n \in Own(t)' : n <= read => n \in Own(t)
      /\ Own(t) \subseteq 1..read
  BY OwnMonotone
<1>3. \A n \in Own(t) : Faulty(written[n], t)' <=> Faulty(written[n], t)
  BY <1>1, <1>2 DEF Faulty
<1>4. ASSUME Fails(t)
      PROVE  Fails(t)'
  <2>1. CASE connection = "failed"
    BY <1>1, <2>1 DEF Fails
  <2>2. ASSUME NEW n \in Own(t), Faulty(written[n], t)
        PROVE  Fails(t)'
    BY <1>2, <1>3, <2>2 DEF Fails
  <2>3. ASSUME connection # "failed", NEW n \in 1..read, written[n].method = None,
               ~written[n].whole, requested[written[n].id.value] = t
        PROVE  Fails(t)'
    <3>1. ~Unscoped(n)
      BY <2>3 DEF ScopeInv, TypeOK
    <3>2. written[n].id \in [form : {"number"}, value : DOMAIN requested]
      BY <2>3, <3>1 DEF Unscoped
    <3>3. requested'[written[n].id.value] = t
      BY <2>3, <3>2, <1>1
    <3> QED  BY <2>3, <3>3, <1>1 DEF Fails
  <2> QED  BY <1>4, <2>1, <2>2, <2>3 DEF Fails
<1>5. ASSUME Succeeds(t)
      PROVE  Succeeds(t)'
  <2>1. PICK end \in Own(t) :
          /\ written[end].method = "completed"
          /\ \A n \in Own(t) : n <= end => ~Faulty(written[n], t)
    BY <1>5 DEF Succeeds
  <2>2. end \in Own(t)' /\ written'[end].method = "completed"
    BY <1>2, <2>1
  <2>3. ASSUME NEW n \in Own(t)', n <= end
        PROVE  ~Faulty(written[n], t)'
    <3>1. n \in Nat /\ end \in 1..read /\ n <= read
      BY <1>1, <1>2, <2>3, Monotone DEF Own
    <3>2. n \in Own(t)
      BY <3>1, <1>2
    <3> QED  BY <3>2, <2>1, <2>3, <1>3
  <2> QED  BY <2>2, <2>3 DEF Succeeds
<1> QED  BY <1>4, <1>5

LEMMA OutcomeStep ==
  ASSUME IInv, [Next]_vars, TypeOK'
  PROVE  OutcomeInv'
<1> USE DEF IInv
<1> SUFFICES ASSUME NEW t \in Turns
             PROVE  (turn'[t] = "failed" => Fails(t)') /\ (turn'[t] = "done" => Succeeds(t)')
  BY DEF OutcomeInv
<1>1. ASSUME turn'[t] = turn[t]
      PROVE  (turn'[t] = "failed" => Fails(t)') /\ (turn'[t] = "done" => Succeeds(t)')
  BY <1>1, ReasonsStay DEF OutcomeInv
<1>2. CASE Quiet
  BY <1>2, <1>1 DEF Quiet, turnVars
<1>3. CASE Breaks
  <2>1. connection' = "failed" /\ turn'[t] \in {turn[t], "failed"}
    BY <1>3 DEF Breaks, Fail
  <2> QED  BY <1>1, <2>1 DEF Fails
<1>4. ASSUME NEW m \in Messages, TakesAnswer(m)
      PROVE  (turn'[t] = "failed" => Fails(t)') /\ (turn'[t] = "done" => Succeeds(t)')
  <2>1. CASE t # requested[m.id.value]
    <3>1. requested[m.id.value] \in Turns
      BY <1>4 DEF TakesAnswer, TypeOK
    <3>2. turn'[t] = turn[t]
      BY <1>4, <2>1, <3>1 DEF TakesAnswer, TypeOK
    <3> QED  BY <1>1, <3>2
  <2>2. CASE t = requested[m.id.value]
    <3>1. /\ turn'[t] = IF m.whole THEN "reading" ELSE "failed"
          /\ read' = read + 1 /\ read + 1 \in 1..read' /\ requested' = requested
          /\ written'[read + 1] = m /\ m.method = None
      BY <1>4, <2>2 DEF TakesAnswer, Takes, TypeOK
    <3> QED  BY <3>1, <2>2 DEF Fails
  <2> QED  BY <2>1, <2>2
<1>5. ASSUME NEW m \in Messages, TakesEvent(m) \/ TakesWarning(m)
      PROVE  (turn'[t] = "failed" => Fails(t)') /\ (turn'[t] = "done" => Succeeds(t)')
  BY <1>5, <1>1 DEF TakesEvent, TakesWarning
<1>6. ASSUME NEW u \in Turns, StartTurn(u)
      PROVE  (turn'[t] = "failed" => Fails(t)') /\ (turn'[t] = "done" => Succeeds(t)')
  <2>1. turn'[t] \in {turn[t], "starting", "refused"}
    BY <1>6 DEF StartTurn, TypeOK
  <2> QED  BY <1>1, <2>1
<1>7. ASSUME NEW u \in Turns, ReadEvent(u) \/ ContinueTool(u) \/ ExpireTool(u)
      PROVE  (turn'[t] = "failed" => Fails(t)') /\ (turn'[t] = "done" => Succeeds(t)')
  <2>1. /\ UNCHANGED <<connection, written, read, declared>>
        /\ turn[u] \in {"reading", "held"}
        /\ t # u => turn'[t] = turn[t]
    BY <1>7, TurnEffect
  <2>2. CASE t # u \/ turn'[t] = turn[t]
    BY <1>1, <2>1, <2>2
  <2>3. ASSUME t = u, turn'[t] # turn[t], ReadEvent(t)
        PROVE  (turn'[t] = "failed" => Fails(t)') /\ (turn'[t] = "done" => Succeeds(t)')
    <3>1. PICK at \in Seq(Nat) : Holds(t, at)
      BY <2>1, <2>3 DEF QueueInv, Running
    <3>2. inbox[t] # <<>>
      BY <2>3 DEF ReadEvent
    <3>3. CASE ~Accepts(Head(inbox[t]), t)
      <4>1. turn'[t] = "failed"
        BY <2>3, <3>3 DEF ReadEvent, Returns, TypeOK
      <4>2. Fails(t)
        BY <3>1, <3>2, <3>3, HeadIsFaulty DEF Fails
      <4> QED  BY <4>1, <4>2, <2>1, <2>3, ReasonsStay
    <3>4. CASE Accepts(Head(inbox[t]), t)
      <4>1. CASE Head(inbox[t]).method = "completed"
        <5>1. turn'[t] = "done"
          BY <2>3, <3>4, <4>1 DEF ReadEvent, Returns, TypeOK
        <5>2. Succeeds(t)
          <6>1. /\ at[1] \in Own(t) /\ Head(inbox[t]) = written[at[1]]
                /\ \A n \in Own(t) : n <= at[1] => ~Faulty(written[n], t)
            BY <3>1, <3>2, <3>4, HeadIsOwn
          <6> QED  BY <6>1, <4>1 DEF Succeeds
        <5> QED  BY <5>1, <5>2, <2>1, <2>3, ReasonsStay
      <4>2. CASE Head(inbox[t]).method # "completed"
        BY <2>3, <3>4, <4>2 DEF ReadEvent, Returns, TypeOK
      <4> QED  BY <4>1, <4>2
    <3> QED  BY <3>3, <3>4
  <2>4. ASSUME t = u, turn'[t] # turn[t], ContinueTool(t)
        PROVE  (turn'[t] = "failed" => Fails(t)') /\ (turn'[t] = "done" => Succeeds(t)')
    <3>1. CASE connection = "alive"
      BY <2>4, <3>1 DEF ContinueTool, Answers, TypeOK
    <3>2. CASE connection # "alive"
      <4>1. connection' = "failed"
        BY <3>2, <2>1 DEF TypeOK
      <4> QED  BY <4>1, <2>4, <3>2 DEF ContinueTool, Answers, Returns, TypeOK, Fails
    <3> QED  BY <3>1, <3>2
  <2>5. ASSUME t = u, turn'[t] # turn[t], ExpireTool(t)
        PROVE  turn'[t] = "expired"
    BY <2>5 DEF ExpireTool, Returns, TypeOK
  <2> QED  BY <1>7, <2>2, <2>3, <2>4, <2>5
<1> QED  BY <1>2, <1>3, <1>4, <1>5, <1>6, <1>7, Effects

LEMMA ToolStep ==
  ASSUME IInv, [Next]_vars, TypeOK'
  PROVE  ToolInv'
<1> USE DEF IInv
<1>1. ASSUME NEW t \in Turns, NEW n \in 1..read, IsCall(n, t)
      PROVE  n \in 1..read' /\ written'[n] = written[n] /\ IsCall(n, t)'
  <2>1. n \in Own(t)' /\ written'[n] = written[n] /\ n \in 1..read'
    BY <1>1, OwnMonotone, Monotone DEF IsCall
  <2> QED  BY <2>1, <1>1 DEF IsCall
<1>2. ASSUME NEW h \in handed
      PROVE  /\ turn'[h.turn] # "idle"
             /\ \E n \in 1..read' : /\ IsCall(n, h.turn)' /\ written'[n].call = h.call
                                    /\ written'[n].tool \in DOMAIN declared'[h.turn]
                                    /\ h.name = declared'[h.turn][written'[n].tool]
  <2>1. h.turn \in Turns /\ turn[h.turn] # "idle"
    BY DEF ToolInv, TypeOK
  <2>2. turn'[h.turn] # "idle" /\ declared'[h.turn] = declared[h.turn]
    BY <2>1, Monotone
  <2>3. PICK n \in 1..read : /\ IsCall(n, h.turn) /\ written[n].call = h.call
                             /\ written[n].tool \in DOMAIN declared[h.turn]
                             /\ h.name = declared[h.turn][written[n].tool]
    BY DEF ToolInv
  <2>4. n \in 1..read' /\ written'[n] = written[n] /\ IsCall(n, h.turn)'
    BY <2>1, <2>3, <1>1
  <2> QED  BY <2>2, <2>3, <2>4
<1>3. ASSUME NEW r \in answered
      PROVE  \E n \in 1..read' : IsCall(n, r.turn)' /\ written'[n].id = r.id
  <2>1. r.turn \in Turns
    BY DEF TypeOK
  <2>2. PICK n \in 1..read : IsCall(n, r.turn) /\ written[n].id = r.id
    BY DEF ToolInv
  <2>3. n \in 1..read' /\ written'[n] = written[n] /\ IsCall(n, r.turn)'
    BY <2>1, <2>2, <1>1
  <2> QED  BY <2>2, <2>3
<1>4. ASSUME NEW t \in Turns, turn[t] = "held"
      PROVE  \E n \in 1..read' : IsCall(n, t)' /\ written'[n].id = pendingTool[t]
  <2>1. PICK n \in 1..read : IsCall(n, t) /\ written[n].id = pendingTool[t]
    BY <1>4 DEF ToolInv
  <2>2. n \in 1..read' /\ written'[n] = written[n] /\ IsCall(n, t)'
    BY <2>1, <1>1
  <2> QED  BY <2>1, <2>2
<1>5. ASSUME UNCHANGED <<handed, answered>>,
             \A t \in Turns : turn'[t] = "held" => turn[t] = "held" /\ pendingTool'[t] = pendingTool[t]
      PROVE  ToolInv'
  BY <1>2, <1>3, <1>4, <1>5 DEF ToolInv
<1>6. CASE Quiet
  BY <1>5, <1>6 DEF Quiet, turnVars, toolVars
<1>7. CASE Breaks
  <2>1. /\ UNCHANGED <<handed, answered, pendingTool>>
        /\ \A t \in Turns : turn'[t] \in {turn[t], "failed"}
    BY <1>7 DEF Breaks, Fail, toolVars
  <2> QED  BY <1>5, <2>1
<1>8. ASSUME NEW m \in Messages, TakesAnswer(m) \/ TakesEvent(m) \/ TakesWarning(m)
      PROVE  ToolInv'
  <2>1. UNCHANGED <<handed, answered, pendingTool>>
    BY <1>8 DEF TakesAnswer, TakesEvent, TakesWarning, Takes, toolVars
  <2>2. CASE TakesAnswer(m)
    <3>1. requested[m.id.value] \in Turns
      BY <2>2 DEF TakesAnswer, TypeOK
    <3>2. \A t \in Turns : turn'[t] \in {turn[t], "reading", "failed"}
      BY <2>2, <3>1 DEF TakesAnswer, TypeOK
    <3> QED  BY <1>5, <2>1, <3>2
  <2>3. CASE TakesEvent(m) \/ TakesWarning(m)
    BY <1>5, <2>1, <2>3 DEF TakesEvent, TakesWarning
  <2> QED  BY <1>8, <2>2, <2>3
<1>9. ASSUME NEW t \in Turns, StartTurn(t)
      PROVE  ToolInv'
  <2>1. /\ UNCHANGED <<handed, answered, pendingTool>>
        /\ \A u \in Turns : turn'[u] \in {turn[u], "starting", "refused"}
    BY <1>9 DEF StartTurn, TypeOK
  <2> QED  BY <1>5, <2>1
<1>10. ASSUME NEW t \in Turns, ReadEvent(t)
       PROVE  ToolInv'
  <2> DEFINE message == Head(inbox[t])
  <2>1. /\ UNCHANGED <<connection, written, read, declared, aliases, answered>>
        /\ \A u \in Turns : u # t => turn'[u] = turn[u] /\ pendingTool'[u] = pendingTool[u]
        /\ turn[t] = "reading" /\ inbox[t] # <<>> /\ aliases = declared
    BY <1>10, TurnEffect DEF ReadEvent, TypeOK
  <2>2. CASE Accepts(message, t) /\ message.method = "tool"
    <3>1. PICK at \in Seq(Nat) : Holds(t, at)
      BY <2>1 DEF QueueInv, Running
    <3>2. at[1] \in Own(t) /\ message = written[at[1]] /\ at[1] \in 1..read
      BY <3>1, <2>1, <2>2, HeadIsOwn DEF Own
    <3>3. /\ pendingTool' = [pendingTool EXCEPT ![t] = message.id]
          /\ handed' = handed \cup {[turn |-> t, call |-> message.call,
                                     name |-> aliases[t][message.tool]]}
          /\ turn'[t] = "held"
      BY <1>10, <2>2 DEF ReadEvent, Returns, TypeOK
    <3>4. message.tool \in DOMAIN declared[t]
      BY <2>1, <2>2 DEF Accepts, ToolIsKnown
    <3> HIDE DEF message
    <3>5. IsCall(at[1], t)
      BY <3>2, <2>2 DEF IsCall
    <3>6. at[1] \in 1..read' /\ written'[at[1]] = message /\ IsCall(at[1], t)'
      BY <3>2, <3>5, <1>1
    <3>7. pendingTool'[t] = message.id
      BY <3>3 DEF TypeOK
    <3>8. ASSUME NEW h \in handed'
          PROVE  /\ turn'[h.turn] # "idle"
                 /\ \E n \in 1..read' : /\ IsCall(n, h.turn)' /\ written'[n].call = h.call
                                        /\ written'[n].tool \in DOMAIN declared'[h.turn]
                                        /\ h.name = declared'[h.turn][written'[n].tool]
      <4>1. CASE h \in handed
        BY <4>1, <1>2
      <4>2. CASE h = [turn |-> t, call |-> message.call, name |-> aliases[t][message.tool]]
        <5>1. h.turn = t /\ h.call = message.call /\ h.name = declared[t][message.tool]
          BY <4>2, <2>1
        <5>2. declared' = declared
          BY <2>1
        <5> QED  BY <5>1, <5>2, <3>3, <3>4, <3>6
      <4> QED  BY <4>1, <4>2, <3>3
    <3>9. ASSUME NEW u \in Turns, turn'[u] = "held"
          PROVE  \E n \in 1..read' : IsCall(n, u)' /\ written'[n].id = pendingTool'[u]
      <4>1. CASE u = t
        BY <4>1, <3>6, <3>7
      <4>2. CASE u # t
        BY <4>2, <3>9, <2>1, <1>4
      <4> QED  BY <4>1, <4>2
    <3>10. \A r \in answered' : \E n \in 1..read' : IsCall(n, r.turn)' /\ written'[n].id = r.id
      BY <2>1, <1>3
    <3> QED  BY <3>8, <3>9, <3>10 DEF ToolInv
  <2>3. CASE ~(Accepts(message, t) /\ message.method = "tool")
    <3>1. /\ turn'[t] \in {"reading", "failed", "done"} /\ UNCHANGED <<handed, pendingTool>>
      BY <1>10, <2>1, <2>3 DEF ReadEvent, Returns, TypeOK
    <3> QED  BY <1>5, <2>1, <3>1
  <2> QED  BY <2>2, <2>3
<1>11. ASSUME NEW t \in Turns, ContinueTool(t)
       PROVE  ToolInv'
  <2>1. /\ \A u \in Turns : u # t => turn'[u] = turn[u] /\ pendingTool'[u] = pendingTool[u]
        /\ turn[t] = "held" /\ turn'[t] # "held" /\ handed' = handed
        /\ answered' = answered \/ answered' = answered \cup {[turn |-> t, id |-> pendingTool[t]]}
    BY <1>11, TurnEffect DEF ContinueTool, Answers, Returns, TypeOK
  <2>2. ASSUME NEW r \in answered'
        PROVE  \E n \in 1..read' : IsCall(n, r.turn)' /\ written'[n].id = r.id
    <3>1. CASE r \in answered
      BY <3>1, <1>3
    <3>2. CASE r = [turn |-> t, id |-> pendingTool[t]]
      <4>1. r.turn = t /\ r.id = pendingTool[t]
        BY <3>2
      <4> QED  BY <4>1, <2>1, <1>4
    <3> QED  BY <3>1, <3>2, <2>1
  <2> QED  BY <1>2, <1>4, <2>1, <2>2 DEF ToolInv
<1>12. ASSUME NEW t \in Turns, ExpireTool(t)
       PROVE  ToolInv'
  <2>1. /\ \A u \in Turns : u # t => turn'[u] = turn[u] /\ pendingTool'[u] = pendingTool[u]
        /\ turn'[t] = "expired" /\ UNCHANGED <<handed, answered>>
    BY <1>12, TurnEffect DEF ExpireTool, Returns, TypeOK, toolVars
  <2> QED  BY <1>5, <2>1
<1> QED  BY <1>6, <1>7, <1>8, <1>9, <1>10, <1>11, <1>12, Effects

-----------------------------------------------------------------------------
(* The theorems.                                                           *)

LEMMA InitInv == Init => IInv
<1> SUFFICES ASSUME Init PROVE IInv
  OBVIOUS
<1> USE DEF Init
<1>1. TypeOK
  <2>1. NoId \in Ids
    BY DEF NoId, Ids
  <2>2. <<>> \in Seq(Messages \cup {Failure}) /\ <<>> \in Seq(Bytes) /\ <<>> \in Seq(Turns)
        /\ <<>> \in Seq(Messages) /\ Len(<<>>) = 0
    OBVIOUS
  <2> QED  BY <2>1, <2>2 DEF TypeOK, TurnStates
<1>2. BytesInv
  <2>1. <<>> \o <<>> = <<>> /\ Len(<<>>) = 0
    OBVIOUS
  <2> QED  BY <2>1 DEF BytesInv, Carries, Starts, Complete
<1>3. RequestInv /\ ScopeInv /\ FailureInv /\ OutcomeInv /\ ToolInv
  BY DEF RequestInv, ScopeInv, FailureInv, OutcomeInv, ToolInv
<1>4. QueueInv
  BY DEF QueueInv, Running, Own
<1> QED  BY <1>1, <1>2, <1>3, <1>4 DEF IInv

LEMMA StepInv == IInv /\ [Next]_vars => IInv'
<1> SUFFICES ASSUME IInv, [Next]_vars PROVE IInv'
  OBVIOUS
<1>1. TypeOK'
  BY TypeStep DEF IInv
<1>2. BytesInv'
  BY <1>1, BytesStep DEF IInv
<1>3. RequestInv' /\ ScopeInv' /\ FailureInv' /\ QueueInv' /\ OutcomeInv' /\ ToolInv'
  BY <1>1, RequestStep, ScopeStep, FailureStep, QueueStep, OutcomeStep, ToolStep
<1> QED  BY <1>1, <1>2, <1>3 DEF IInv

\* The inductive invariant of the connection's content.
THEOREM Invariant == Spec => []IInv
  BY InitInv, StepInv, PTL DEF Spec

\* Every variable keeps its type, for any messages and any bounds.
THEOREM TypeCorrect == Spec => []TypeOK
<1>1. IInv => TypeOK
  BY DEF IInv
<1> QED  BY <1>1, Invariant, PTL

\* A fault hits whom it concerns, for any turns, messages, frame limit and cuts.
THEOREM FaultsAreAttributed == Spec => []FaultsHitTheirTurn
<1>1. IInv => FaultsHitTheirTurn
  BY DEF IInv, ScopeInv, FailureInv, OutcomeInv, Fails, Succeeds, FaultsHitTheirTurn
<1> QED  BY <1>1, Invariant, PTL

\* A tool call keeps its meaning and a result its call, for any tools and names.
THEOREM ToolCallsAreKept == Spec => []ToolCallsKeepTheirMeaning
<1>1. ASSUME IInv
      PROVE  ToolCallsKeepTheirMeaning
  <2> DEFINE Calls(t) == {written[n] : n \in {k \in Own(t) : written[k].method = "tool"}}
  <2>1. \A t, n : IsCall(n, t) => written[n] \in Calls(t)
    BY DEF IsCall
  <2>2. ASSUME NEW h \in handed
        PROVE  \E message \in Calls(h.turn) :
                 /\ message.call = h.call
                 /\ message.tool \in DOMAIN declared[h.turn]
                 /\ h.name = declared[h.turn][message.tool]
    <3> HIDE DEF Calls
    <3> QED  BY <2>1, <1>1 DEF IInv, ToolInv
  <2>3. ASSUME NEW r \in answered
        PROVE  \E message \in Calls(r.turn) : message.id = r.id
    <3> HIDE DEF Calls
    <3> QED  BY <2>1, <1>1 DEF IInv, ToolInv
  <2> QED  BY <2>2, <2>3 DEF ToolCallsKeepTheirMeaning
<1> QED  BY <1>1, Invariant, PTL
=============================================================================
