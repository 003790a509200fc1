-------------------------- MODULE RequestPath_proofs --------------------------
(***************************************************************************)
(* Theorems about the two ends of a request's path: its admission, for any *)
(* catalogue files, request bodies and header maps (RequestAdmission), and *)
(* the connection it is served on, for any set of requests                 *)
(* (SharedConnection).  The two share nothing.                             *)
(***************************************************************************)
EXTENDS RequestAdmission, SharedConnection, FiniteSetTheorems, TLAPS

-----------------------------------------------------------------------------
(* Searching sequences.                                                    *)

\* A nonempty set of numbers has a least one.
LEMMA LeastNumber ==
  ASSUME NEW T, T \subseteq Nat, T # {}
  PROVE  \E x \in T : \A y \in T : x <= y
<1> DEFINE Below == {1..n : n \in T}
<1>1. Below \subseteq FiniteSubsetsOf(Nat) /\ Below # {}
  <2>1. \A n \in Nat : IsFiniteSet(1..n) /\ 1..n \in SUBSET Nat
    BY FS_Interval
  <2> QED  BY <2>1 DEF FiniteSubsetsOf
<1>2. PICK s \in Below : \A r \in Below : ~(<<r, s>> \in StrictSubsetOrdering(Nat))
  <2> HIDE DEF Below
  <2> QED  BY <1>1, WFMin, FS_StrictSubsetOrderingWellFounded
<1>3. PICK x \in T : s = 1..x
  OBVIOUS
<1>4. ASSUME NEW y \in T, y < x
      PROVE  FALSE
  <2>1. x \in 1..x /\ x \notin 1..y /\ 1..y \subseteq 1..x
    BY <1>4
  <2>2. <<1..y, 1..x>> \in StrictSubsetOrdering(Nat)
    BY <2>1 DEF StrictSubsetOrdering
  <2> QED  BY <2>2, <1>2, <1>3
<1> QED  BY <1>4

LEMMA MinIsLeast ==
  ASSUME NEW T, T \subseteq Nat, T # {}
  PROVE  Min(T) \in T /\ \A y \in T : Min(T) <= y
BY LeastNumber DEF Min

\* A lookup of an identifier that occurs gives an entry with that identifier.
LEMMA LookupFinds ==
  ASSUME NEW S, NEW entries \in Seq(S), NEW id \in ToSet(Ids(entries))
  PROVE  /\ Lookup(entries, id) \in ToSet(entries)
         /\ Lookup(entries, id) \in S
         /\ Lookup(entries, id).id = id
<1> DEFINE I == {i \in 1..Len(entries) : entries[i].id = id}
<1>1. Lookup(entries, id) = entries[IF I # {} THEN Min(I) ELSE 0]
  BY DEF Lookup, SelectInSeq
<1>2. I # {} /\ I \subseteq Nat
  BY DEF ToSet, Ids
<1>3. Min(I) \in I
  <2> HIDE DEF I
  <2> QED  BY <1>2, MinIsLeast
<1>4. Min(I) \in 1..Len(entries) /\ entries[Min(I)].id = id
  BY <1>3
<1>5. Lookup(entries, id) = entries[Min(I)]
  BY <1>1, <1>2
<1> QED
  <2> HIDE DEF I
  <2> QED  BY <1>4, <1>5 DEF ToSet

\* The first error of a list of checks: there is none exactly if no check fails.
LEMMA FirstError ==
  ASSUME NEW S, None \in S, NEW errors \in Seq(S)
  PROVE  /\ First(errors) \in S
         /\ First(errors) = None <=> \A i \in 1..Len(errors) : errors[i] = None
<1> DEFINE I == {i \in 1..Len(errors) : errors[i] # None}
           first == IF I # {} THEN Min(I) ELSE 0
<1>1. First(errors) = IF first = 0 THEN None ELSE errors[first]
  BY DEF First, SelectInSeq
<1>2. CASE I = {}
  BY <1>1, <1>2
<1>3. CASE I # {}
  <2>1. I \subseteq Nat
    OBVIOUS
  <2>2. Min(I) \in I
    <3> HIDE DEF I
    <3> QED  BY <1>3, <2>1, MinIsLeast
  <2>3. Min(I) \in 1..Len(errors) /\ errors[Min(I)] # None
    BY <2>2
  <2>4. first = Min(I)
    BY <1>3
  <2> HIDE DEF I, first
  <2>5. First(errors) = errors[Min(I)]
    BY <1>1, <2>3, <2>4
  <2> QED  BY <2>3, <2>5
<1> QED  BY <1>2, <1>3

-----------------------------------------------------------------------------
(* Decoding: the checks of a conversation against what is supported.       *)

LEMMA BlockIsSupported ==
  ASSUME NEW message \in ConversationMessages, NEW block \in ContentBlocks
  PROVE  /\ BlockError(message.role, block) \in Errors
         /\ BlockError(message.role, block) = None <=> SupportedBlock(message, block)
<1> DEFINE errors == <<
      When(block.type = "untyped", Invalid),
      When(message.role = "system" /\ block.type # "text", Unsupported),
      When(block.type = "tool_use" /\ message.role # "assistant", Unsupported),
      When(block.type = "tool_result" /\ message.role # "user", Unsupported),
      When(block.type \in {"text", "tool_use", "tool_result"}, block.error),
      When(block.type \in {"image", "document"}, Unsupported) >>
<1>0. None \in Errors /\ Invalid \in Errors /\ Unsupported \in Errors /\ block.error \in Errors
      /\ Invalid # None /\ Unsupported # None
  BY DEF Errors, ContentBlocks, None, Invalid, Unsupported
<1>1. errors \in Seq(Errors) /\ Len(errors) = 6
  BY <1>0 DEF When
<1>2. (\A i \in 1..Len(errors) : errors[i] = None) <=>
        /\ errors[1] = None /\ errors[2] = None /\ errors[3] = None
        /\ errors[4] = None /\ errors[5] = None /\ errors[6] = None
  <2> HIDE DEF errors
  <2> QED  BY <1>1
<1>3. BlockError(message.role, block) = First(errors)
  BY DEF BlockError
<1>4. /\ First(errors) \in Errors
      /\ First(errors) = None <=> \A i \in 1..Len(errors) : errors[i] = None
  <2> HIDE DEF errors
  <2> QED  BY <1>0, <1>1, FirstError
<1>5. /\ errors[1] = None <=> block.type # "untyped"
      /\ errors[2] = None <=> ~(message.role = "system" /\ block.type # "text")
      /\ errors[3] = None <=> ~(block.type = "tool_use" /\ message.role # "assistant")
      /\ errors[4] = None <=> ~(block.type = "tool_result" /\ message.role # "user")
      /\ errors[5] = None <=> (block.type \in {"text", "tool_use", "tool_result"} => block.error = None)
      /\ errors[6] = None <=> block.type \notin {"image", "document"}
  BY <1>0 DEF When
<1> HIDE DEF errors
<1>6. SupportedBlock(message, block) <=>
        /\ errors[1] = None /\ errors[2] = None /\ errors[3] = None
        /\ errors[4] = None /\ errors[5] = None /\ errors[6] = None
  BY <1>5 DEF SupportedBlock
<1> QED  BY <1>2, <1>3, <1>4, <1>6

\* A list of checks that goes on with one check per element.
LEMMA JoinedErrors ==
  ASSUME NEW S, None \in S, NEW front \in Seq(S), NEW rest \in Seq(S)
  PROVE  /\ First(front \o rest) \in S
         /\ First(front \o rest) = None <=>
              /\ \A i \in 1..Len(front) : front[i] = None
              /\ \A i \in 1..Len(rest) : rest[i] = None
<1>1. front \o rest \in Seq(S)
  OBVIOUS
<1>2. /\ First(front \o rest) \in S
      /\ First(front \o rest) = None <=> \A i \in 1..Len(front \o rest) : (front \o rest)[i] = None
  BY <1>1, FirstError
<1>3. (\A i \in 1..Len(front \o rest) : (front \o rest)[i] = None) <=>
        /\ \A i \in 1..Len(front) : front[i] = None
        /\ \A i \in 1..Len(rest) : rest[i] = None
  <2>1. Len(front) \in Nat /\ Len(rest) \in Nat /\ Len(front \o rest) = Len(front) + Len(rest)
    OBVIOUS
  <2>2. \A i \in 1..Len(front) : (front \o rest)[i] = front[i]
    OBVIOUS
  <2>3. \A i \in 1..Len(rest) : (front \o rest)[Len(front) + i] = rest[i]
    OBVIOUS
  <2>4. \A i \in 1..Len(front \o rest) : i \in 1..Len(front) \/ i - Len(front) \in 1..Len(rest)
    BY <2>1
  <2>5. \A i \in 1..Len(rest) : Len(front) + i \in 1..Len(front \o rest)
    BY <2>1
  <2>6. ASSUME \A i \in 1..Len(front \o rest) : (front \o rest)[i] = None
        PROVE  /\ \A i \in 1..Len(front) : front[i] = None
               /\ \A i \in 1..Len(rest) : rest[i] = None
    BY <2>1, <2>2, <2>3, <2>5, <2>6
  <2>7. ASSUME \A i \in 1..Len(front) : front[i] = None,
               \A i \in 1..Len(rest) : rest[i] = None,
               NEW i \in 1..Len(front \o rest)
        PROVE  (front \o rest)[i] = None
    <3>1. CASE i \in 1..Len(front)
      BY <3>1, <2>2, <2>7
    <3>2. CASE i - Len(front) \in 1..Len(rest)
      <4>1. i = Len(front) + (i - Len(front))
        BY <2>1
      <4> QED  BY <4>1, <3>2, <2>3, <2>7
    <3> QED  BY <3>1, <3>2, <2>4
  <2> QED  BY <2>6, <2>7
<1> QED  BY <1>2, <1>3

SupportedMessage(message) ==
  /\ message.role \in {"user", "assistant", "system"}
  /\ message.content # "invalid"
  /\ \A b \in ToSet(message.blocks) : SupportedBlock(message, b)

LEMMA MessageIsSupported ==
  ASSUME NEW message \in ConversationMessages
  PROVE  /\ MessageError(message) \in Errors
         /\ MessageError(message) = None <=> SupportedMessage(message)
<1> DEFINE front == <<When(message.role = "none", Invalid),
                      When(message.role = "other", Unsupported),
                      When(message.content = "invalid", Invalid)>>
           rest == [i \in DOMAIN message.blocks |-> BlockError(message.role, message.blocks[i])]
<1>0. None \in Errors /\ Invalid \in Errors /\ Unsupported \in Errors
      /\ Invalid # None /\ Unsupported # None
  BY DEF Errors, None, Invalid, Unsupported
<1>1. front \in Seq(Errors) /\ Len(front) = 3
  BY <1>0 DEF When
<1>2. /\ message.blocks \in Seq(ContentBlocks)
      /\ message.role \in {"user", "assistant", "system", "other", "none"}
  BY DEF ConversationMessages
<1>3. \A i \in DOMAIN message.blocks :
        /\ BlockError(message.role, message.blocks[i]) \in Errors
        /\ BlockError(message.role, message.blocks[i]) = None
             <=> SupportedBlock(message, message.blocks[i])
  BY <1>2, BlockIsSupported
<1>4. rest \in Seq(Errors) /\ Len(rest) = Len(message.blocks)
  BY <1>2, <1>3
<1>5. MessageError(message) = First(front \o rest)
  BY DEF MessageError
<1>6. (\A i \in 1..Len(rest) : rest[i] = None)
        <=> \A b \in ToSet(message.blocks) : SupportedBlock(message, b)
  BY <1>2, <1>3, <1>4 DEF ToSet
<1>7. (\A i \in 1..Len(front) : front[i] = None)
        <=> message.role \in {"user", "assistant", "system"} /\ message.content # "invalid"
  <2>1. (\A i \in 1..Len(front) : front[i] = None)
          <=> front[1] = None /\ front[2] = None /\ front[3] = None
    <3> HIDE DEF front
    <3> QED  BY <1>1
  <2> QED  BY <2>1, <1>0, <1>2 DEF When
<1> HIDE DEF front, rest
<1> QED  BY <1>0, <1>1, <1>4, <1>5, <1>6, <1>7, JoinedErrors DEF SupportedMessage

LEMMA ConversationIsSupported ==
  ASSUME NEW messages \in Seq(ConversationMessages)
  PROVE  /\ ConversationError(messages) \in Errors
         /\ ConversationError(messages) = None <=>
              messages # <<>> /\ \A m \in ToSet(messages) : SupportedMessage(m)
<1> DEFINE front == <<When(messages = <<>>, Invalid)>>
           rest == [i \in DOMAIN messages |-> MessageError(messages[i])]
<1>0. None \in Errors /\ Invalid \in Errors /\ Invalid # None
  BY DEF Errors, None, Invalid, Unsupported
<1>1. front \in Seq(Errors) /\ Len(front) = 1
  BY <1>0 DEF When
<1>2. \A i \in DOMAIN messages :
        /\ MessageError(messages[i]) \in Errors
        /\ MessageError(messages[i]) = None <=> SupportedMessage(messages[i])
  BY MessageIsSupported
<1>3. rest \in Seq(Errors) /\ Len(rest) = Len(messages)
  BY <1>2
<1>4. ConversationError(messages) = First(front \o rest)
  BY DEF ConversationError
<1>5. (\A i \in 1..Len(rest) : rest[i] = None) <=> \A m \in ToSet(messages) : SupportedMessage(m)
  BY <1>2, <1>3 DEF ToSet
<1>6. (\A i \in 1..Len(front) : front[i] = None) <=> messages # <<>>
  BY <1>0, <1>1 DEF When
<1> HIDE DEF front, rest
<1> QED  BY <1>0, <1>1, <1>3, <1>4, <1>5, <1>6, JoinedErrors

\* The errors of the options and of the schema.
LEMMA OptionsAreSupported ==
  ASSUME NEW body \in MessageBodies
  PROVE  /\ OptionError(body) \in Errors /\ SchemaError(body) \in Errors
         /\ OptionError(body) = None
              <=> {body.thinking, body.context, body.effort} \subseteq {"absent", "supported"}
         /\ SchemaError(body) = None <=> body.format \in {"absent", "object"}
<1> DEFINE errors == <<When(body.format = "other", Unsupported),
                       When(body.format = "notObject", Invalid)>>
<1>0. None \in Errors /\ Invalid \in Errors /\ Unsupported \in Errors
      /\ Invalid # None /\ Unsupported # None
  BY DEF Errors, None, Invalid, Unsupported
<1>1. /\ body.format \in {"absent", "object", "notObject", "other"}
      /\ body.thinking \in Options /\ body.context \in Options /\ body.effort \in Options
  BY DEF MessageBodies
<1>2. errors \in Seq(Errors) /\ Len(errors) = 2
  BY <1>0 DEF When
<1>3. (\A i \in 1..Len(errors) : errors[i] = None) <=> body.format \in {"absent", "object"}
  <2>1. (\A i \in 1..Len(errors) : errors[i] = None) <=> errors[1] = None /\ errors[2] = None
    <3> HIDE DEF errors
    <3> QED  BY <1>2
  <2> QED  BY <2>1, <1>0, <1>1 DEF When
<1>4. SchemaError(body) = First(errors)
  BY DEF SchemaError
<1>5. /\ SchemaError(body) \in Errors
      /\ SchemaError(body) = None <=> body.format \in {"absent", "object"}
  <2> HIDE DEF errors
  <2> QED  BY <1>0, <1>2, <1>3, <1>4, FirstError
<1>6. /\ OptionError(body) \in Errors
      /\ OptionError(body) = None
           <=> {body.thinking, body.context, body.effort} \subseteq {"absent", "supported"}
  BY <1>0, <1>1 DEF OptionError, When, Options
<1> QED  BY <1>5, <1>6

\* What validate accepts.
Valid(body, model) ==
  /\ body.model = model
  /\ body.maxTokens # 0
  /\ body.messages # "notArray"
  /\ body.conversation # <<>> /\ \A m \in ToSet(body.conversation) : SupportedMessage(m)
  /\ ~body.extraFields
  /\ {body.thinking, body.context, body.effort} \subseteq {"absent", "supported"}
  /\ body.format \in {"absent", "object"}

LEMMA ValidationIsExact ==
  ASSUME NEW body \in MessageBodies, NEW model
  PROVE  /\ ValidationError(body, model) \in Errors
         /\ ValidationError(body, model) = None <=> Valid(body, model)
<1> DEFINE errors == <<
      RequestedModelError(body, model),
      When(body.maxTokens = 0, Invalid),
      When(body.messages = "notArray", Invalid),
      ConversationError(body.conversation),
      When(body.extraFields, Unsupported),
      OptionError(body),
      SchemaError(body) >>
<1>0. None \in Errors /\ Invalid \in Errors /\ Unsupported \in Errors
      /\ Invalid # None /\ Unsupported # None
  BY DEF Errors, None, Invalid, Unsupported
<1>1. body.conversation \in Seq(ConversationMessages)
  BY DEF MessageBodies
<1>2. /\ ConversationError(body.conversation) \in Errors
      /\ ConversationError(body.conversation) = None <=>
           /\ body.conversation # <<>>
           /\ \A m \in ToSet(body.conversation) : SupportedMessage(m)
  BY <1>1, ConversationIsSupported
<1>3. /\ RequestedModelError(body, model) \in Errors
      /\ RequestedModelError(body, model) = None <=> body.model = model
  BY <1>0 DEF RequestedModelError, When
<1>4. errors \in Seq(Errors) /\ Len(errors) = 7
  BY <1>0, <1>2, <1>3, OptionsAreSupported DEF When
<1>5. (\A i \in 1..Len(errors) : errors[i] = None) <=>
        /\ errors[1] = None /\ errors[2] = None /\ errors[3] = None /\ errors[4] = None
        /\ errors[5] = None /\ errors[6] = None /\ errors[7] = None
  <2> HIDE DEF errors
  <2> QED  BY <1>4
<1>6. /\ errors[1] = None <=> body.model = model
      /\ errors[2] = None <=> body.maxTokens # 0
      /\ errors[3] = None <=> body.messages # "notArray"
      /\ errors[4] = None <=> body.conversation # <<>>
                               /\ \A m \in ToSet(body.conversation) : SupportedMessage(m)
      /\ errors[5] = None <=> ~body.extraFields
      /\ errors[6] = None
           <=> {body.thinking, body.context, body.effort} \subseteq {"absent", "supported"}
      /\ errors[7] = None <=> body.format \in {"absent", "object"}
  BY <1>0, <1>2, <1>3, OptionsAreSupported DEF When
<1>7. ValidationError(body, model) = First(errors)
  BY DEF ValidationError
<1> HIDE DEF errors
<1> QED  BY <1>0, <1>4, <1>5, <1>6, <1>7, FirstError DEF Valid

\* The last message of a conversation that is not empty.
LEMMA LastIsThere ==
  ASSUME NEW messages \in Seq(ConversationMessages), messages # <<>>
  PROVE  LastMessage(messages) \in ConversationMessages /\ LastMessage(messages) \in ToSet(messages)
BY DEF LastMessage, Last, ToSet

\* The checks of a continuation raise one of the errors, supported or not.
LEMMA ContinuationType ==
  ASSUME NEW messages \in Seq(ConversationMessages)
  PROVE  ContinuationError(messages) \in Errors
<1> DEFINE last == LastMessage(messages)
           errors == <<When(last.role # "user" \/ Len(last.blocks) # 1, Unsupported),
                       Head(last.blocks).error>>
<1>0. None \in Errors /\ Unsupported \in Errors
  BY DEF Errors, None, Invalid, Unsupported
<1>1. CASE messages = <<>> \/ ~HasToolResult(last)
  BY <1>0, <1>1 DEF ContinuationError
<1>2. CASE messages # <<>> /\ HasToolResult(last)
  <2>1. last \in ConversationMessages
    BY <1>2, LastIsThere
  <2> HIDE DEF last
  <2>2. last.blocks \in Seq(ContentBlocks)
    BY <2>1 DEF ConversationMessages
  <2>3. Head(last.blocks) \in ContentBlocks
    BY <1>2, <2>2 DEF HasToolResult, ToSet
  <2>4. errors \in Seq(Errors)
    BY <1>0, <2>3 DEF When, ContentBlocks
  <2>5. ContinuationError(messages) = First(errors)
    BY <1>2 DEF ContinuationError, last
  <2> HIDE DEF errors
  <2> QED  BY <1>0, <2>4, <2>5, FirstError
<1> QED  BY <1>1, <1>2

\* A supported conversation continues a tool call only if the result is alone.
LEMMA ContinuationIsSupported ==
  ASSUME NEW messages \in Seq(ConversationMessages), messages # <<>>,
         \A m \in ToSet(messages) : SupportedMessage(m)
  PROVE  /\ ContinuationError(messages) \in Errors
         /\ ContinuationError(messages) = None <=>
              (HasToolResult(LastMessage(messages)) => Len(LastMessage(messages).blocks) = 1)
         /\ HasToolResult(LastMessage(messages)) => LastMessage(messages).role = "user"
<1> DEFINE last == LastMessage(messages)
           errors == <<When(last.role # "user" \/ Len(last.blocks) # 1, Unsupported),
                       Head(last.blocks).error>>
<1>0. None \in Errors /\ Unsupported \in Errors /\ Unsupported # None
  BY DEF Errors, None, Invalid, Unsupported
<1>1. last \in ConversationMessages /\ SupportedMessage(last)
  BY LastIsThere
<1>2. last.blocks \in Seq(ContentBlocks)
  BY <1>1 DEF ConversationMessages
<1> HIDE DEF last
<1>3. \A b \in ToSet(last.blocks) : SupportedBlock(last, b)
  BY <1>1 DEF SupportedMessage
<1>4. HasToolResult(last) => last.role = "user" /\ last.blocks # <<>>
  BY <1>2, <1>3 DEF HasToolResult, SupportedBlock, ToSet
<1>5. CASE ~HasToolResult(last)
  BY <1>0, <1>5 DEF ContinuationError, last
<1>6. CASE HasToolResult(last)
  <2>1. Head(last.blocks) \in ContentBlocks /\ Head(last.blocks) \in ToSet(last.blocks)
    BY <1>2, <1>4, <1>6 DEF ToSet
  <2>2. Head(last.blocks).error \in Errors
    BY <2>1 DEF ContentBlocks
  <2>3. errors \in Seq(Errors) /\ Len(errors) = 2
    BY <1>0, <2>2 DEF When
  <2>4. (\A i \in 1..Len(errors) : errors[i] = None) <=> errors[1] = None /\ errors[2] = None
    <3> HIDE DEF errors
    <3> QED  BY <2>3
  <2>5. Len(last.blocks) = 1 => Head(last.blocks).error = None
    <3> SUFFICES ASSUME Len(last.blocks) = 1 PROVE Head(last.blocks).error = None
      OBVIOUS
    <3>1. PICK b \in ToSet(last.blocks) : b.type = "tool_result"
      BY <1>6 DEF HasToolResult
    <3>2. b = Head(last.blocks)
      BY <1>2 DEF ToSet
    <3> QED  BY <3>1, <3>2, <1>3 DEF SupportedBlock
  <2>6. errors[1] = None <=> Len(last.blocks) = 1
    BY <1>0, <1>4, <1>6 DEF When
  <2>7. errors[2] = Head(last.blocks).error
    OBVIOUS
  <2>8. ContinuationError(messages) = First(errors)
    BY <1>6 DEF ContinuationError, last
  <2>9. /\ First(errors) \in Errors
        /\ First(errors) = None <=> \A i \in 1..Len(errors) : errors[i] = None
    <3> HIDE DEF errors
    <3> QED  BY <1>0, <2>3, FirstError
  <2> HIDE DEF errors
  <2> QED  BY <1>4, <1>6, <2>4, <2>5, <2>6, <2>7, <2>8, <2>9 DEF last
<1> QED  BY <1>5, <1>6 DEF last

\* What execute_message accepts.
LEMMA ExecutionIsExact ==
  ASSUME NEW body \in MessageBodies, NEW model
  PROVE  /\ ExecutionError(body, model) \in Errors
         /\ ExecutionError(body, model) = None <=>
              /\ Valid(body, model)
              /\ body.tools # "notObjects"
              /\ HasToolResult(LastMessage(body.conversation))
                   => Len(LastMessage(body.conversation).blocks) = 1
<1> DEFINE errors == <<
      ValidationError(body, model),
      When(body.tools = "notObjects", Invalid),
      ContinuationError(body.conversation),
      When(body.maxTokens = 0, Invalid) >>
           continues == HasToolResult(LastMessage(body.conversation))
                          => Len(LastMessage(body.conversation).blocks) = 1
<1>0. None \in Errors /\ Invalid \in Errors /\ Invalid # None
  BY DEF Errors, None, Invalid, Unsupported
<1>1. body.conversation \in Seq(ConversationMessages)
  BY DEF MessageBodies
<1>2. /\ ValidationError(body, model) \in Errors
      /\ ValidationError(body, model) = None <=> Valid(body, model)
  BY ValidationIsExact
<1>3. Valid(body, model) => ContinuationError(body.conversation) \in Errors
                            /\ (ContinuationError(body.conversation) = None <=> continues)
  BY <1>1, ContinuationIsSupported DEF Valid
<1>4. ContinuationError(body.conversation) \in Errors
  BY <1>1, ContinuationType
<1>5. errors \in Seq(Errors) /\ Len(errors) = 4
  BY <1>0, <1>2, <1>4 DEF When
<1>6. (\A i \in 1..Len(errors) : errors[i] = None) <=>
        errors[1] = None /\ errors[2] = None /\ errors[3] = None /\ errors[4] = None
  <2> HIDE DEF errors
  <2> QED  BY <1>5
<1>7. /\ errors[1] = None <=> Valid(body, model)
      /\ errors[2] = None <=> body.tools # "notObjects"
      /\ errors[3] = ContinuationError(body.conversation)
      /\ errors[4] = None <=> body.maxTokens # 0
  BY <1>0, <1>2 DEF When
<1>8. ExecutionError(body, model) = First(errors)
  BY DEF ExecutionError
<1>9. /\ First(errors) \in Errors
      /\ First(errors) = None <=> \A i \in 1..Len(errors) : errors[i] = None
  <2> HIDE DEF errors
  <2> QED  BY <1>0, <1>5, FirstError
<1>10. Valid(body, model) => body.maxTokens # 0
  BY DEF Valid
<1> HIDE DEF errors
<1> QED  BY <1>3, <1>6, <1>7, <1>8, <1>9, <1>10

-----------------------------------------------------------------------------
(* The catalogue, and the requests for its routes.                         *)

\* What an accepted catalogue promises: every route has its model, and the
\* window that is told fits every model.
GoodCatalogue(c) ==
  /\ c.models \in Seq(ModelValues) /\ c.routes \in Seq(RouteValues)
  /\ Targets(c.routes) = ToSet(Ids(c.models))
  /\ c.canonical.id \in ToSet(Ids(c.routes))
  /\ c.minimum \in Nat /\ \A m \in ToSet(c.models) : c.minimum <= m.context

LEMMA LoadedIsGood ==
  ASSUME NEW d \in Documents, Accepts(d)
  PROVE  GoodCatalogue(Loaded(d))
<1> DEFINE contexts == {m.context : m \in ToSet(d.models)}
<1>1. d.models \in Seq(ModelValues) /\ d.routes \in Seq(RouteValues)
  BY DocumentsAssumption
<1>2. /\ Targets(d.routes) = ToSet(Ids(d.models))
      /\ d.canonical \in ToSet(Ids(d.routes))
      /\ Len(d.models) \in 1..MaxModels
  BY DEF Accepts
<1>3. Lookup(d.routes, d.canonical).id \in ToSet(Ids(d.routes))
  BY <1>1, <1>2, LookupFinds
<1>4. contexts \subseteq Nat
  <2>1. \A i \in DOMAIN d.models : d.models[i] \in ModelValues
    BY <1>1
  <2> QED  BY <2>1 DEF ToSet, ModelValues
<1>5. d.models[1] \in ToSet(d.models)
  BY <1>1, <1>2 DEF ToSet
<1>6. contexts # {}
  BY <1>5
<1>7. Min(contexts) \in contexts /\ \A n \in contexts : Min(contexts) <= n
  <2> HIDE DEF contexts
  <2> QED  BY <1>4, <1>6, MinIsLeast
<1>8. MinimumContext(d.models) = Min(contexts)
  BY DEF MinimumContext
<1>9. \A m \in ToSet(d.models) : m.context \in contexts
  OBVIOUS
<1> HIDE DEF contexts
<1> QED  BY <1>1, <1>2, <1>3, <1>4, <1>7, <1>8, <1>9 DEF GoodCatalogue, Loaded

\* A route of an accepted catalogue leads to one of its models.
LEMMA RouteHasItsModel ==
  ASSUME NEW c, GoodCatalogue(c), NEW id, IsRoute(c, id)
  PROVE  /\ RouteFor(c, id).id = id
         /\ RouteFor(c, id).model \in ToSet(Ids(c.models))
         /\ Lookup(c.models, RouteFor(c, id).model) \in ToSet(c.models)
         /\ Lookup(c.models, RouteFor(c, id).model) \in ModelValues
         /\ Lookup(c.models, RouteFor(c, id).model).id = RouteFor(c, id).model
<1>1. /\ RouteFor(c, id) \in ToSet(c.routes)
      /\ RouteFor(c, id).id = id
  BY LookupFinds DEF GoodCatalogue, IsRoute, RouteFor
<1>2. RouteFor(c, id).model \in ToSet(Ids(c.models))
  BY <1>1 DEF GoodCatalogue, Targets
<1> QED  BY <1>1, <1>2, LookupFinds DEF GoodCatalogue

\* The window of the model that requests for this identifier are dispatched to.
WindowOf(id) == Lookup(catalogue.models, RouteFor(catalogue, id).model).context

Admissible(body, headers) ==
  /\ body.messages # "undecodable" /\ body.json # "binary"
  /\ body.maxTokens <= WindowOf(body.model)
  /\ SessionOf(headers) # ""
  /\ Valid(body, body.model)
  /\ body.tools # "notObjects"
  /\ HasToolResult(LastMessage(body.conversation)) => Len(LastMessage(body.conversation).blocks) = 1

LEMMA LocalIsExact ==
  ASSUME GoodCatalogue(catalogue), NEW body \in MessageBodies, NEW headers,
         IsRoute(catalogue, body.model)
  PROVE  /\ LocalError(body, headers) \in Errors
         /\ LocalError(body, headers) = None <=> Admissible(body, headers)
<1> DEFINE route == RouteFor(catalogue, body.model)
           errors == <<
             When(body.messages = "undecodable" \/ body.json = "binary", Invalid),
             TokenPolicyError(body, route),
             When(SessionOf(headers) = "", Invalid),
             ExecutionError(body, route.id) >>
<1>0. None \in Errors /\ Invalid \in Errors /\ Invalid # None
  BY DEF Errors, None, Invalid, Unsupported
<1>1. /\ route.id = body.model
      /\ route.model \in ToSet(Ids(catalogue.models))
      /\ Lookup(catalogue.models, route.model) \in ModelValues
  BY RouteHasItsModel
<1>2. /\ ExecutionError(body, route.id) \in Errors
      /\ ExecutionError(body, route.id) = None <=>
           /\ Valid(body, body.model)
           /\ body.tools # "notObjects"
           /\ HasToolResult(LastMessage(body.conversation))
                => Len(LastMessage(body.conversation).blocks) = 1
  <2> HIDE DEF route
  <2> QED  BY <1>1, ExecutionIsExact
<1>3. WindowOf(body.model) = Lookup(catalogue.models, route.model).context /\ WindowOf(body.model) \in Nat
  BY <1>1 DEF WindowOf, ModelValues
<1>4. body.maxTokens \in Nat
  BY DEF MessageBodies
<1> HIDE DEF route
<1>5. /\ TokenPolicyError(body, route) \in Errors
      /\ TokenPolicyError(body, route) = None <=> body.maxTokens <= WindowOf(body.model)
  BY <1>0, <1>1, <1>3, <1>4 DEF TokenPolicyError, When
<1>6. errors \in Seq(Errors) /\ Len(errors) = 4
  <2>1. /\ When(body.messages = "undecodable" \/ body.json = "binary", Invalid) \in Errors
        /\ When(SessionOf(headers) = "", Invalid) \in Errors
    BY <1>0 DEF When
  <2>2. \A e1, e2, e3, e4 \in Errors :
          <<e1, e2, e3, e4>> \in Seq(Errors) /\ Len(<<e1, e2, e3, e4>>) = 4
    OBVIOUS
  <2> QED  BY <1>2, <1>5, <2>1, <2>2, Zenon
<1>7. (\A i \in 1..Len(errors) : errors[i] = None) <=>
        errors[1] = None /\ errors[2] = None /\ errors[3] = None /\ errors[4] = None
  <2> HIDE DEF errors
  <2> QED  BY <1>6
<1>8. /\ errors[1] = None <=> body.messages # "undecodable" /\ body.json # "binary"
      /\ errors[2] = TokenPolicyError(body, route)
      /\ errors[3] = None <=> SessionOf(headers) # ""
      /\ errors[4] = ExecutionError(body, route.id)
  BY <1>0 DEF When
<1>9. LocalError(body, headers) = First(errors)
  BY DEF LocalError, route
<1> HIDE DEF errors
<1> QED  BY <1>0, <1>2, <1>5, <1>6, <1>7, <1>8, <1>9, FirstError DEF Admissible

\* What DecodeMessage makes of a request.
LEMMA MessageIsDecoded ==
  ASSUME GoodCatalogue(catalogue), NEW body \in MessageBodies, NEW headers
  PROVE  LET result == DecodeMessage(body, headers)
         IN  /\ result.kind \in {"error", "local", "anthropic"}
             /\ result.kind = "local" <=>
                  body.json # "invalid" /\ IsRoute(catalogue, body.model) /\ Admissible(body, headers)
             /\ result.kind = "local" =>
                  result.execution = Execution(body, RouteFor(catalogue, body.model), SessionOf(headers))
             /\ result.kind = "error" => result.error # "protocol"
             /\ result.kind = "anthropic" =>
                  /\ HasOAuth(headers)
                  /\ result.fields = Decoded(headers)
                  /\ result.body = body
                  /\ body.model.space = Claude
<1> DEFINE result == DecodeMessage(body, headers)
<1>0. "protocol" \notin Errors /\ Invalid \in Errors /\ Unsupported \in Errors
  BY DEF Errors, None, Invalid, Unsupported
<1>1. CASE body.json = "invalid"
  BY <1>0, <1>1 DEF DecodeMessage, Failure
<1>2. CASE body.json # "invalid" /\ IsRoute(catalogue, body.model)
  <2>1. result = DecodeLocal(body, headers)
    BY <1>2 DEF DecodeMessage
  <2>2. /\ LocalError(body, headers) \in Errors
        /\ LocalError(body, headers) = None <=> Admissible(body, headers)
    BY <1>2, LocalIsExact
  <2>3. CASE LocalError(body, headers) = None
    BY <1>2, <2>1, <2>2, <2>3 DEF DecodeLocal, Local
  <2>4. CASE LocalError(body, headers) # None
    BY <1>0, <1>2, <2>1, <2>2, <2>4 DEF DecodeLocal, Failure
  <2> QED  BY <2>3, <2>4
<1>3. CASE body.json # "invalid" /\ ~IsRoute(catalogue, body.model) /\ body.model.space = Claude
  <2>1. result = IF body.json = "binary" THEN Failure(Invalid) ELSE DecodeProxied("messages", headers, body)
    BY <1>3 DEF DecodeMessage
  <2>2. CASE body.json = "binary" \/ RequestError(headers) # None
    BY <1>0, <1>3, <2>1, <2>2 DEF DecodeProxied, Failure, RequestError
  <2>3. CASE body.json # "binary" /\ RequestError(headers) = None
    BY <1>3, <2>1, <2>3 DEF DecodeProxied, Proxied, RequestError, None
  <2> QED  BY <2>2, <2>3
<1>4. CASE body.json # "invalid" /\ ~IsRoute(catalogue, body.model) /\ body.model.space # Claude
  BY <1>0, <1>4 DEF DecodeMessage, Failure
<1> QED  BY <1>1, <1>2, <1>3, <1>4

-----------------------------------------------------------------------------
(* Headers.                                                                *)

\* A filter that runs twice: the second run no longer sees the Connection
\* header, and does not need to.
LEMMA TwiceStripped ==
  ASSUME NEW h, NEW kept
  PROVE  LET once == Without(h, HopByHop \cup Nominated(h) \cup kept)
         IN  Without(once, HopByHop \cup Nominated(once) \cup kept) =
               [n \in HeaderNames |-> IF Crosses(h, n, kept) THEN h[n] ELSE <<>>]
<1> DEFINE dropped == HopByHop \cup Nominated(h) \cup kept
           once == Without(h, dropped)
<1>1. once = [n \in HeaderNames |-> IF n \in dropped THEN <<>> ELSE h[n]]
  BY DEF Without
<1>2. once["connection"] = <<>>
  BY <1>1, HeadersAssumption DEF HopByHop
<1>3. Nominated(once) = {}
  <2>1. ToSet(once["connection"]) = {}
    BY <1>2 DEF ToSet
  <2> QED  BY <2>1 DEF Nominated
<1>4. \A n \in HeaderNames : n \in dropped <=> ~Crosses(h, n, kept)
  BY DEF Crosses, Nominated
<1>5. HopByHop \cup Nominated(once) \cup kept \subseteq dropped
  BY <1>3
<1> HIDE DEF once, dropped
<1>6. Without(once, HopByHop \cup Nominated(once) \cup kept) =
        [n \in HeaderNames |-> IF n \in dropped THEN <<>> ELSE h[n]]
  BY <1>1, <1>5 DEF Without
<1>7. [n \in HeaderNames |-> IF n \in dropped THEN <<>> ELSE h[n]] =
        [n \in HeaderNames |-> IF Crosses(h, n, kept) THEN h[n] ELSE <<>>]
  BY <1>4
<1> QED  BY <1>6, <1>7 DEF once, dropped

LEMMA HeadersAreFiltered ==
  ASSUME NEW h
  PROVE  /\ Upstream(Decoded(h)) =
              [n \in HeaderNames |-> IF Crosses(h, n, KeptFromUpstream) THEN h[n] ELSE <<>>]
         /\ Downstream(h) =
              [n \in HeaderNames |-> IF Crosses(h, n, KeptFromClient) THEN h[n] ELSE <<>>]
BY TwiceStripped DEF Upstream, Decoded, StripRequest, Downstream, StripResponse

-----------------------------------------------------------------------------
(* The inductive invariant of RequestAdmission.                            *)

\* What a decoded request was made of, in the catalogue it was decoded against.
FromMessage ==
  /\ request.operation = "messages"
  /\ request.body \in MessageBodies
  /\ outcome = DecodeMessage(request.body, request.headers)

FromQuery ==
  /\ request.operation \in {"models", "model"}
  /\ outcome.kind \in {"error", "described", "anthropic"}
  /\ outcome.kind = "anthropic" =>
       HasOAuth(request.headers) /\ outcome.fields = Decoded(request.headers)

DecodedInv ==
  /\ outcome.kind = "anthropic" => Admitted
  /\ Admitted => FromMessage \/ FromQuery

AdmissionInv ==
  /\ phase \in {"idle", "decoded", "sent", "answered"} => GoodCatalogue(catalogue)
  /\ phase = "decoded" => DecodedInv
  /\ OnlyEndToEndHeadersCross

LEMMA HandleKeeps ==
  ASSUME AdmissionInv, phase = "idle", Messages \/ Models \/ Model
  PROVE  AdmissionInv'
<1>1. /\ GoodCatalogue(catalogue)' /\ catalogue' = catalogue
      /\ phase' = "decoded"
  <2>1. catalogue' = catalogue /\ phase' = "decoded"
    BY DEF Messages, Models, Model, Handle
  <2> QED  BY <2>1 DEF AdmissionInv, GoodCatalogue
<1>2. OnlyEndToEndHeadersCross'
  BY <1>1 DEF OnlyEndToEndHeadersCross
<1>3. ASSUME NEW r, NEW decoded, Handle(r, decoded),
             r.authorized /\ ~r.oversized => FromMessage' \/ FromQuery'
      PROVE  DecodedInv'
  <2>1. request' = r
        /\ outcome' = IF ~r.authorized THEN Failure("authentication")
                      ELSE IF r.oversized THEN Failure("payload_too_large")
                      ELSE decoded
    BY <1>3 DEF Handle
  <2>2. Admitted' <=> r.authorized /\ ~r.oversized
    BY <1>1, <2>1 DEF Admitted
  <2>3. outcome'.kind = "anthropic" => r.authorized /\ ~r.oversized
    BY <2>1 DEF Failure
  <2> QED  BY <1>3, <2>2, <2>3 DEF DecodedInv
<1>4. \A op, authorized, oversized, headers, body :
        LET r == Request(op, authorized, oversized, headers, body)
        IN  /\ r.operation = op /\ r.authorized = authorized /\ r.oversized = oversized
            /\ r.headers = headers /\ r.body = body
  BY DEF Request
<1>5. CASE Messages
  <2>1. PICK post \in Posts, authorized \in BOOLEAN, oversized \in BOOLEAN :
          Handle(Request("messages", authorized, oversized, post.headers, post.body),
                 DecodeMessage(post.body, post.headers))
    BY <1>5 DEF Messages
  <2> DEFINE r == Request("messages", authorized, oversized, post.headers, post.body)
             decoded == DecodeMessage(post.body, post.headers)
  <2>2. Handle(r, decoded)
    BY <2>1
  <2>3. /\ r.operation = "messages" /\ r.authorized = authorized /\ r.oversized = oversized
        /\ r.headers = post.headers /\ r.body = post.body
    BY <1>4
  <2>4. DecodeMessage(post.body, post.headers)' = decoded
    BY <1>1 DEF DecodeMessage, DecodeLocal, DecodeProxied, LocalError, TokenPolicyError
  <2>5. post.body \in MessageBodies
    BY PostsAssumption
  <2> HIDE DEF r, decoded
  <2>6. r.authorized /\ ~r.oversized => FromMessage'
    <3> SUFFICES ASSUME r.authorized, ~r.oversized PROVE FromMessage'
      OBVIOUS
    <3>1. request' = r /\ outcome' = decoded
      BY <2>2 DEF Handle
    <3>2. DecodeMessage(request.body, request.headers)' = DecodeMessage(post.body, post.headers)'
      BY <2>3, <3>1
    <3> QED  BY <2>3, <2>4, <2>5, <3>1, <3>2 DEF FromMessage
  <2>7. DecodedInv'
    BY <1>3, <2>2, <2>6
  <2> QED  BY <1>1, <1>2, <2>7 DEF AdmissionInv
<1>6. \A operation, headers, body :
        LET decoded == DecodeProxied(operation, headers, body)
        IN  /\ decoded.kind \in {"error", "anthropic"}
            /\ decoded.kind = "anthropic" => HasOAuth(headers) /\ decoded.fields = Decoded(headers)
  BY DEF DecodeProxied, Failure, Proxied, RequestError, None
<1>7. ASSUME NEW operation \in {"models", "model"}, NEW authorized \in BOOLEAN, NEW headers, NEW decoded,
             Handle(Request(operation, authorized, FALSE, headers, NoBody), decoded),
             decoded.kind \in {"error", "described", "anthropic"},
             decoded.kind = "anthropic" => HasOAuth(headers) /\ decoded.fields = Decoded(headers)
      PROVE  AdmissionInv'
  <2> DEFINE r == Request(operation, authorized, FALSE, headers, NoBody)
  <2>1. r.operation = operation /\ r.authorized = authorized /\ r.oversized = FALSE /\ r.headers = headers
    BY DEF Request
  <2>2. Handle(r, decoded)
    BY <1>7
  <2> HIDE DEF r
  <2>3. r.authorized /\ ~r.oversized => FromQuery'
    <3> SUFFICES ASSUME r.authorized, ~r.oversized PROVE FromQuery'
      OBVIOUS
    <3>1. request' = r /\ outcome' = decoded
      BY <2>2 DEF Handle
    <3> QED  BY <1>7, <2>1, <3>1 DEF FromQuery
  <2>4. DecodedInv'
    BY <1>3, <2>2, <2>3
  <2> QED  BY <1>1, <1>2, <2>4 DEF AdmissionInv
<1>8. CASE Models
  BY <1>6, <1>7, <1>8 DEF Models
<1>9. CASE Model
  <2>1. PICK headers \in RequestHeaders, id \in RequestedIds, authorized \in BOOLEAN :
          Handle(Request("model", authorized, FALSE, headers, NoBody), DecodeModel(id, headers))
    BY <1>9 DEF Model
  <2> DEFINE decoded == DecodeModel(id, headers)
  <2>2. /\ decoded.kind \in {"error", "described", "anthropic"}
        /\ decoded.kind = "anthropic" => HasOAuth(headers) /\ decoded.fields = Decoded(headers)
    <3>1. CASE IsRoute(catalogue, id)
      BY <3>1 DEF DecodeModel
    <3>2. CASE ~IsRoute(catalogue, id) /\ id.space = Claude
      <4>1. decoded = DecodeProxied("model", headers, NoBody)
        BY <3>2 DEF DecodeModel
      <4> QED  BY <4>1, <1>6
    <3>3. CASE ~IsRoute(catalogue, id) /\ id.space # Claude
      BY <3>3 DEF DecodeModel, Failure
    <3> QED  BY <3>1, <3>2, <3>3
  <2> HIDE DEF decoded
  <2>3. Handle(Request("model", authorized, FALSE, headers, NoBody), decoded)
    BY <2>1 DEF decoded
  <2> QED  BY <2>2, <2>3, <1>7
<1> QED  BY <1>5, <1>8, <1>9

LEMMA SendKeeps ==
  ASSUME AdmissionInv, Send
  PROVE  AdmissionInv'
<1>1. /\ phase = "decoded" /\ outcome.kind = "anthropic"
      /\ upstream' = Upstream(outcome.fields) /\ phase' = "sent"
      /\ catalogue' = catalogue /\ request' = request /\ outcome' = outcome /\ reply' = reply
  BY DEF Send
<1>2. GoodCatalogue(catalogue) /\ Admitted /\ (FromMessage \/ FromQuery)
  BY <1>1 DEF AdmissionInv, DecodedInv
<1>3. /\ HasOAuth(request.headers)
      /\ outcome.fields = Decoded(request.headers)
      /\ request.operation = "messages" =>
           outcome.body = request.body /\ request.body.model.space = Claude
  <2>1. CASE FromMessage
    BY <1>1, <1>2, <2>1, MessageIsDecoded DEF FromMessage
  <2>2. CASE FromQuery
    BY <1>1, <2>2 DEF FromQuery
  <2> QED  BY <1>2, <2>1, <2>2
<1>4. upstream' = [n \in HeaderNames |->
        IF Crosses(request.headers, n, KeptFromUpstream) THEN request.headers[n] ELSE <<>>]
  BY <1>1, <1>3, HeadersAreFiltered
<1>5. OnlyEndToEndHeadersCross'
  BY <1>1, <1>3, <1>4 DEF OnlyEndToEndHeadersCross
<1> QED  BY <1>1, <1>2, <1>5 DEF AdmissionInv, GoodCatalogue

LEMMA RelayKeeps ==
  ASSUME AdmissionInv, Relay
  PROVE  AdmissionInv'
<1>1. PICK status \in Statuses, headers \in ReplyHeaders :
        reply' = [status |-> status, from |-> headers,
                  relayed |-> ReplyIsRelayed(status, headers),
                  to |-> IF ReplyIsRelayed(status, headers) THEN Downstream(headers) ELSE NoHeaders]
  BY DEF Relay
<1>2. phase = "sent" /\ phase' = "answered" /\ catalogue' = catalogue
  BY DEF Relay
<1>3. reply'.from = headers
  BY <1>1
<1>4. CASE ReplyIsRelayed(status, headers)
  <2>1. reply'.relayed /\ reply'.to = Downstream(headers)
    BY <1>1, <1>4
  <2>2. reply'.to = [n \in HeaderNames |->
          IF Crosses(headers, n, KeptFromClient) THEN headers[n] ELSE <<>>]
    BY <2>1, HeadersAreFiltered
  <2>3. OnlyEndToEndHeadersCross'
    BY <1>2, <1>3, <2>1, <2>2 DEF OnlyEndToEndHeadersCross
  <2> QED  BY <1>2, <2>3 DEF AdmissionInv, GoodCatalogue
<1>5. CASE ~ReplyIsRelayed(status, headers)
  <2>1. ~reply'.relayed /\ reply'.to = NoHeaders
    BY <1>1, <1>5
  <2>2. OnlyEndToEndHeadersCross'
    BY <1>2, <2>1 DEF OnlyEndToEndHeadersCross, NoHeaders
  <2> QED  BY <1>2, <2>2 DEF AdmissionInv, GoodCatalogue
<1> QED  BY <1>4, <1>5

\* Every state of RequestAdmission satisfies the invariant.
THEOREM AdmissionInvariant == AdmissionSpec => []AdmissionInv
<1>1. AdmissionInit => AdmissionInv
  BY DEF AdmissionInit, AdmissionInv, OnlyEndToEndHeadersCross
<1>2. AdmissionInv /\ [AdmissionNext]_admissionVars => AdmissionInv'
  <2> SUFFICES ASSUME AdmissionInv, [AdmissionNext]_admissionVars PROVE AdmissionInv'
    OBVIOUS
  <2>1. CASE Load
    <3>1. phase' \in {"idle", "refused"}
      BY <2>1 DEF Load
    <3>2. phase' = "idle" => \E d \in Documents : Accepts(d) /\ catalogue' = Loaded(d)
      BY <2>1 DEF Load
    <3>3. phase' = "idle" => GoodCatalogue(catalogue')
      BY <3>2, LoadedIsGood
    <3>4. GoodCatalogue(catalogue') => GoodCatalogue(catalogue)'
      BY DEF GoodCatalogue
    <3> QED  BY <3>1, <3>3, <3>4 DEF AdmissionInv, OnlyEndToEndHeadersCross
  <2>2. CASE Messages \/ Models \/ Model
    BY <2>2, HandleKeeps DEF Messages, Models, Model
  <2>3. CASE Send
    BY <2>3, SendKeeps
  <2>4. CASE Relay
    BY <2>4, RelayKeeps
  <2>5. CASE Answer
    BY <2>5 DEF Answer, AdmissionInv, GoodCatalogue, OnlyEndToEndHeadersCross
  <2>6. CASE UNCHANGED admissionVars
    <3>1. UNCHANGED <<catalogue, phase, request, outcome, upstream, reply>>
      BY <2>6 DEF admissionVars
    <3>2. GoodCatalogue(catalogue)' <=> GoodCatalogue(catalogue)
      BY <3>1 DEF GoodCatalogue
    <3>3. DecodeMessage(request.body, request.headers)' = DecodeMessage(request.body, request.headers)
      BY <3>1 DEF DecodeMessage, DecodeLocal, DecodeProxied, LocalError, TokenPolicyError
    <3>4. DecodedInv' <=> DecodedInv
      BY <3>1, <3>3 DEF DecodedInv, Admitted, FromMessage, FromQuery
    <3>5. OnlyEndToEndHeadersCross' <=> OnlyEndToEndHeadersCross
      BY <3>1 DEF OnlyEndToEndHeadersCross
    <3> QED  BY <3>1, <3>2, <3>4, <3>5 DEF AdmissionInv
  <2> QED  BY <2>1, <2>2, <2>3, <2>4, <2>5, <2>6 DEF AdmissionNext
<1> QED  BY <1>1, <1>2, PTL DEF AdmissionSpec

\* Headers (request_headers, build_reqwest_request, response_head,
\* response_with_body): whatever the header maps hold, credentials of the right
\* kind go upstream, end-to-end headers cross unchanged, and nothing else does.
THEOREM HeadersCrossEndToEnd == AdmissionSpec => []OnlyEndToEndHeadersCross
<1>1. AdmissionInv => OnlyEndToEndHeadersCross
  BY DEF AdmissionInv
<1> QED  BY <1>1, AdmissionInvariant, PTL

\* What has been decoded for a local route, as the last two theorems use it.
LEMMA AdmittedMessage ==
  ASSUME AdmissionInv, Admitted, request.operation = "messages" \/ outcome.kind = "local"
  PROVE  /\ request.operation = "messages"
         /\ GoodCatalogue(catalogue)
         /\ request.body \in MessageBodies
         /\ outcome = DecodeMessage(request.body, request.headers)
BY DEF AdmissionInv, DecodedInv, Admitted, FromMessage, FromQuery

\* Tool results (final_tool_result, validate_conversation): a request continues
\* a tool call exactly when its last message carries a result, and with that
\* result, for any conversation.
THEOREM ContinuationsAreExplicit == AdmissionSpec => []ContinuationIsExplicit
<1>1. AdmissionInv => ContinuationIsExplicit
  <2> SUFFICES ASSUME AdmissionInv, Admitted, outcome.kind = "local"
               PROVE  LET last == LastMessage(request.body.conversation)
                          result == outcome.execution.result
                      IN  IF HasToolResult(last)
                          THEN /\ last.role = "user"
                               /\ {[id |-> b.id, text |-> b.text, failed |-> b.failed] :
                                     b \in ToSet(last.blocks)} = {result}
                          ELSE result = NoResult
    BY DEF ContinuationIsExplicit
  <2> DEFINE last == LastMessage(request.body.conversation)
             result == outcome.execution.result
  <2>1. /\ Admissible(request.body, request.headers)
        /\ outcome.execution = Execution(request.body, RouteFor(catalogue, request.body.model),
                                         SessionOf(request.headers))
    BY AdmittedMessage, MessageIsDecoded
  <2>2. result = ToolResult(request.body.conversation)
    BY <2>1 DEF Execution
  <2>3. /\ request.body.conversation \in Seq(ConversationMessages)
        /\ request.body.conversation # <<>>
        /\ \A m \in ToSet(request.body.conversation) : SupportedMessage(m)
    BY <2>1, AdmittedMessage DEF MessageBodies, Admissible, Valid
  <2>4. last \in ConversationMessages
    BY <2>3, LastIsThere
  <2>5. HasToolResult(last) => last.role = "user" /\ Len(last.blocks) = 1
    BY <2>1, <2>3, ContinuationIsSupported DEF Admissible
  <2>6. CASE HasToolResult(last)
    <3>1. last.blocks \in Seq(ContentBlocks) /\ Len(last.blocks) = 1
      BY <2>4, <2>5, <2>6 DEF ConversationMessages
    <3>2. result = [id |-> Head(last.blocks).id, text |-> Head(last.blocks).text,
                    failed |-> Head(last.blocks).failed]
      BY <2>2, <2>6 DEF ToolResult
    <3> HIDE DEF last, result
    <3>3. ToSet(last.blocks) = {Head(last.blocks)}
      BY <3>1 DEF ToSet
    <3> QED  BY <2>5, <2>6, <3>2, <3>3 DEF last, result
  <2>7. CASE ~HasToolResult(last)
    BY <2>2, <2>7 DEF ToolResult
  <2> QED  BY <2>6, <2>7
<1> QED  BY <1>1, AdmissionInvariant, PTL

\* The catalogue's views (write_routing_settings, route_for,
\* restricted_model_catalog, validate_output_token_policy): what is advertised
\* is served, what is served is supported and fits, and no accepted catalogue
\* leaves a route without its model; for any catalogue file and any request.
THEOREM RoutesAreServed == AdmissionSpec => []AdvertisedRoutesAreServed
<1>1. AdmissionInv => AdvertisedRoutesAreServed
  <2> SUFFICES ASSUME AdmissionInv, Admitted, request.operation = "messages"
               PROVE  AdvertisedRoutesAreServed
    BY DEF AdvertisedRoutesAreServed
  <2> DEFINE body == request.body
             settings == RoutingSettings(catalogue)
             contract == LauncherContract(catalogue)
             told == settings.available \cup {settings.option, contract.canonical, WorkerModel(catalogue)}
             wanted == Supported(body) /\ body.model \in told /\ SessionOf(request.headers) # ""
             model == Lookup(catalogue.models, RouteFor(catalogue, body.model).model)
  <2>1. /\ GoodCatalogue(catalogue) /\ body \in MessageBodies
        /\ outcome = DecodeMessage(body, request.headers)
    BY AdmittedMessage
  <2>2. /\ outcome.kind = "local" <=>
             body.json # "invalid" /\ IsRoute(catalogue, body.model) /\ Admissible(body, request.headers)
        /\ outcome.kind = "local" =>
             outcome.execution =
               Execution(body, RouteFor(catalogue, body.model), SessionOf(request.headers))
        /\ outcome.kind = "error" => outcome.error # "protocol"
    BY <2>1, MessageIsDecoded
  <2>3. body.model \in told <=> IsRoute(catalogue, body.model)
    BY <2>1 DEF GoodCatalogue, IsRoute, RoutingSettings, LauncherContract, WorkerModel
  <2>4. settings.context = catalogue.minimum /\ contract.context = catalogue.minimum
    BY DEF RoutingSettings, LauncherContract
  <2>5. Supported(body) /\ body.maxTokens # 0 <=>
          /\ body.json \notin {"invalid", "binary"} /\ body.messages # "undecodable"
          /\ Valid(body, body.model)
          /\ body.tools # "notObjects"
          /\ HasToolResult(LastMessage(body.conversation))
               => Len(LastMessage(body.conversation).blocks) = 1
    BY <2>1 DEF Supported, SupportedConversation, SupportedMessage, Valid, MessageBodies,
                ConversationMessages
  <2>6. IsRoute(catalogue, body.model) =>
          /\ RouteFor(catalogue, body.model).id = body.model
          /\ model \in ToSet(catalogue.models) /\ model \in ModelValues
          /\ model.id = RouteFor(catalogue, body.model).model
          /\ catalogue.minimum <= model.context
    BY <2>1, RouteHasItsModel DEF GoodCatalogue
  <2>7. body.maxTokens \in Nat /\ catalogue.minimum \in Nat
    BY <2>1 DEF MessageBodies, GoodCatalogue
  <2>8. WindowOf(body.model) = model.context
    BY DEF WindowOf
  <2>9. ASSUME wanted, body.maxTokens \in (1..settings.context) \cup (1..contract.context)
        PROVE  outcome.kind = "local"
    <3>1. IsRoute(catalogue, body.model) /\ Supported(body) /\ SessionOf(request.headers) # ""
      BY <2>3, <2>9
    <3>2. 1 <= body.maxTokens /\ body.maxTokens <= catalogue.minimum
      <4>1. body.maxTokens \in 1..catalogue.minimum
        BY <2>4, <2>9
      <4> HIDE DEF body
      <4> QED  BY <4>1, <2>7
    <3>3. model.context \in Nat
      BY <2>6, <3>1 DEF ModelValues
    <3>4. catalogue.minimum <= model.context
      BY <2>6, <3>1
    <3>5. body.maxTokens # 0 /\ body.maxTokens <= model.context
      <4> HIDE DEF body, model
      <4> QED  BY <2>7, <3>2, <3>3, <3>4
    <3>6. Admissible(body, request.headers)
      BY <2>5, <2>8, <3>1, <3>5 DEF Admissible
    <3> QED  BY <2>2, <2>5, <3>1, <3>5, <3>6
  <2>10. ASSUME outcome.kind = "local"
         PROVE  /\ wanted
                /\ \E m \in RestrictedCatalog(catalogue) :
                     /\ m.slug = outcome.execution.route.model
                     /\ body.maxTokens \in 1..m.window
    <3>1. /\ body.json # "invalid" /\ IsRoute(catalogue, body.model)
          /\ Admissible(body, request.headers)
          /\ outcome.execution =
               Execution(body, RouteFor(catalogue, body.model), SessionOf(request.headers))
      BY <2>2, <2>10
    <3>2. wanted
      <4>1. Supported(body) /\ SessionOf(request.headers) # ""
        BY <2>5, <3>1 DEF Admissible, Valid
      <4> QED  BY <4>1, <2>3, <3>1
    <3>3. outcome.execution.route = RouteFor(catalogue, body.model)
      BY <3>1 DEF Execution
    <3>4. model.context \in Nat /\ body.maxTokens # 0 /\ body.maxTokens <= model.context
      BY <2>6, <2>8, <3>1 DEF ModelValues, Admissible, Valid
    <3>5. body.maxTokens \in 1..model.context
      <4> HIDE DEF body, model
      <4> QED  BY <2>7, <3>4
    <3>6. [slug |-> model.id, window |-> model.context, maxWindow |-> model.context]
            \in RestrictedCatalog(catalogue)
      BY <2>6, <3>1 DEF RestrictedCatalog
    <3> QED  BY <2>6, <3>1, <3>2, <3>3, <3>5, <3>6
  <2> QED  BY <2>2, <2>9, <2>10 DEF AdvertisedRoutesAreServed
<1> QED  BY <1>1, AdmissionInvariant, PTL

-----------------------------------------------------------------------------
(* The inductive invariant of SharedConnection.                            *)

\* A connection that is alive and owned is the one in the slot, or the one being
\* launched; while one is launched the one in the slot is dead, and nobody else
\* has the new one.
AliveInv ==
  /\ \A n \in Requests : alive[n] /\ Owned(n) => n = slot \/ n = launcher
  /\ launcher # Nobody =>
       /\ ~SlotIsAlive
       /\ slot # launcher
       /\ \A r \in Requests : conn[r] = launcher => r = launcher

\* A connection does not exist before its request spawns it; until the request
\* uses it, it is the only one the request has.
LaunchInv ==
  \A r \in Requests :
    /\ alive[r] \/ Owned(r) => Launched(r)
    /\ pc[r] \in {"idle", "lock", "prepare"} => ~Launched(r)
    /\ pc[r] \in {"initialize", "store"} => conn[r] = r

\* What had failed when a request arrived has been launched and stays dead, and
\* the request does not get it.
FreshInv ==
  \A r \in Requests :
    /\ \A n \in deadBefore[r] : Launched(n) /\ ~alive[n]
    /\ conn[r] # Nobody => conn[r] \notin deadBefore[r]

\* What is shared has completed its handshake.
ReadyInv ==
  /\ slot # Nobody => slot \in ready
  /\ \A r \in Requests :
       /\ pc[r] = "store" => r \in ready
       /\ pc[r] = "use" => conn[r] \in ready

SharingInv == TypeOK /\ AliveInv /\ LaunchInv /\ FreshInv /\ ReadyInv

\* Dropping connections leaves the types and what was launched alone.
LEMMA DropKeeps ==
  ASSUME TypeOK, DropUnreferenced
  PROVE  /\ process' \in [Requests -> {"none", "running", "killed", "gone"}]
         /\ \A n \in Requests : Launched(n)' <=> Launched(n)
  BY DEF TypeOK, DropUnreferenced, Launched

\* The steps of a request that takes or launches a connection keep the invariant.
LEMMA LaunchKeeps ==
  ASSUME SharingInv, NEW r \in Requests,
         Arrive(r) \/ Reuse(r) \/ BeginLaunch(r) \/ PrepareFails(r) \/ Spawn(r) \/ Initialize(r)
  PROVE  SharingInv'
<1> USE SharedAssumption DEF SharingInv, TypeOK, AliveInv, LaunchInv, FreshInv, ReadyInv, Goto, Labels,
          Owned, SlotIsAlive, Launched, connectionVars, requestVars
<1>1. CASE Arrive(r)
  BY <1>1 DEF Arrive
<1>2. CASE Reuse(r)
  BY <1>2 DEF Reuse
<1>3. CASE BeginLaunch(r)
  BY <1>3 DEF BeginLaunch
<1>4. CASE PrepareFails(r)
  BY <1>4 DEF PrepareFails
<1>5. CASE Spawn(r)
  BY <1>5 DEF Spawn
<1>6. CASE Initialize(r)
  BY <1>6 DEF Initialize
<1>7. QED
  BY <1>1, <1>2, <1>3, <1>4, <1>5, <1>6

\* So do the steps that give up a reference.
LEMMA ReleaseKeeps ==
  ASSUME SharingInv, NEW r \in Requests, InitializeFails(r) \/ Store(r) \/ Release(r)
  PROVE  SharingInv'
<1>0. DropUnreferenced
  BY DEF InitializeFails, Store, Release
<1>1. /\ process' \in [Requests -> {"none", "running", "killed", "gone"}]
      /\ \A n \in Requests : Launched(n)' <=> Launched(n)
  BY <1>0, DropKeeps DEF SharingInv
<1> USE SharedAssumption DEF SharingInv, TypeOK, AliveInv, LaunchInv, FreshInv, ReadyInv, Goto, Labels,
          Owned, SlotIsAlive
<1>2. CASE InitializeFails(r)
  BY <1>1, <1>2 DEF InitializeFails
<1>3. CASE Store(r)
  BY <1>1, <1>3 DEF Store
<1>4. CASE Release(r)
  BY <1>1, <1>4 DEF Release
<1>5. QED
  BY <1>2, <1>3, <1>4

\* A failure, whoever runs it, only takes connections away.
LEMMA FailureKeeps ==
  ASSUME SharingInv, NEW n \in Requests, SessionFails(n) \/ ReaderFails(n) \/ KillChild(n) \/ ChildExits(n)
  PROVE  SharingInv'
<1> USE SharedAssumption DEF SharingInv, TypeOK, AliveInv, LaunchInv, FreshInv, ReadyInv, Owned,
          SlotIsAlive, Launched, requestVars
<1>1. CASE SessionFails(n)
  BY <1>1 DEF SessionFails
<1>2. CASE ReaderFails(n)
  BY <1>2 DEF ReaderFails
<1>3. CASE KillChild(n)
  BY <1>3 DEF KillChild
<1>4. CASE ChildExits(n)
  BY <1>4 DEF ChildExits
<1>5. QED
  BY <1>1, <1>2, <1>3, <1>4

\* The reader's own steps concern its reference alone.
LEMMA ReaderKeeps ==
  ASSUME SharingInv, NEW n \in Requests,
         ReaderTakes(n) \/ ReaderStops(n) \/ ReaderDispatches(n) \/ ReaderFailsLate(n)
  PROVE  SharingInv'
<1>1. /\ UNCHANGED <<requestVars, slot, launcher, alive, failer, ready>>
      /\ reader' \in [Requests -> {"none", "reading", "holding", "stopped"}]
      /\ UNCHANGED process \/ DropUnreferenced
  BY DEF SharingInv, TypeOK, ReaderTakes, ReaderStops, ReaderDispatches, ReaderFailsLate
<1>2. /\ process' \in [Requests -> {"none", "running", "killed", "gone"}]
      /\ \A m \in Requests : Launched(m)' <=> Launched(m)
  BY <1>1, DropKeeps DEF SharingInv, TypeOK, Launched
<1>3. QED
  BY <1>1, <1>2 DEF SharingInv, TypeOK, AliveInv, LaunchInv, FreshInv, ReadyInv, Owned, SlotIsAlive,
                    requestVars

\* Every state of SharedConnection satisfies the invariant.
THEOREM SharingInvariant == Spec => []SharingInv
<1>1. Init => SharingInv
  BY SharedAssumption DEF Init, SharingInv, TypeOK, AliveInv, LaunchInv, FreshInv, ReadyInv, Labels,
                          Owned, SlotIsAlive, Launched
<1>2. SharingInv /\ [Next]_vars => SharingInv'
  <2> SUFFICES ASSUME SharingInv, [Next]_vars PROVE SharingInv'
    OBVIOUS
  <2>1. ASSUME NEW r \in Requests, Arrive(r) \/ LaunchStep(r) \/ SessionFails(r) PROVE SharingInv'
    BY <2>1, LaunchKeeps, ReleaseKeeps, FailureKeeps DEF LaunchStep
  <2>2. ASSUME NEW n \in Requests, ReaderStep(n) \/ KillChild(n) \/ ChildExits(n) PROVE SharingInv'
    BY <2>2, ReaderKeeps, FailureKeeps DEF ReaderStep
  <2>3. CASE UNCHANGED vars
    BY <2>3 DEF vars, requestVars, connectionVars, SharingInv, TypeOK, AliveInv, LaunchInv, FreshInv,
                ReadyInv, Owned, SlotIsAlive, Launched
  <2>4. QED
    BY <2>1, <2>2, <2>3 DEF Next, Over
<1>3. QED
  BY <1>1, <1>2, PTL DEF Spec

\* CodexRuntimeFactory and its connections keep their types, and the mutex of
\* the slot has one holder.
THEOREM SharingTypeCorrect == Spec => []TypeOK
<1>1. SharingInv => TypeOK
  BY DEF SharingInv
<1>2. QED
  BY <1>1, SharingInvariant, PTL

\* There is never a second connection that works, however launches and failures
\* interleave.
THEOREM OneConnection == Spec => []OneConnectionAlive
<1>1. SharingInv => OneConnectionAlive
  BY SharedAssumption DEF SharingInv, TypeOK, AliveInv, OneConnectionAlive, SlotIsAlive
<1>2. QED
  BY <1>1, SharingInvariant, PTL

\* What has failed before a request arrives is not what it works on.
THEOREM FailedIsNotReused == Spec => []NextRequestIsFresh
<1>1. SharingInv => NextRequestIsFresh
  BY DEF SharingInv, TypeOK, FreshInv, NextRequestIsFresh
<1>2. QED
  BY <1>1, SharingInvariant, PTL

\* What is shared has been initialized.
THEOREM InitializedIsShared == Spec => []HandshakeComesFirst
<1>1. SharingInv => HandshakeComesFirst
  BY DEF SharingInv, ReadyInv, HandshakeComesFirst
<1>2. QED
  BY <1>1, SharingInvariant, PTL
=============================================================================
