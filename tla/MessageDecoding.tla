---------------------------- MODULE MessageDecoding ----------------------------
(***************************************************************************)
(* Decoding of a Messages request for a local route                        *)
(* (contracts/anthropic/messages.rs): the checks in their order, the tool  *)
(* result that continues a turn, and the execution handed to the router.   *)
(*                                                                         *)
(* A check gives the kind of error it raises, or None.  A block is its     *)
(* type, the error its own fields raise, and what a tool result carries; a *)
(* block without a readable type is "untyped".  A message is its role      *)
(* ("none" when it is not an object or has no role), the kind of its       *)
(* content, and its blocks.                                                *)
(***************************************************************************)
EXTENDS Naturals, SequencesExt

None == "none"
Invalid == "invalid_request"
Unsupported == "unsupported"

\* What a request can hold: blocks, messages, and the fields of its body.
Errors == {None, Invalid, Unsupported}
ContentBlocks == [type : STRING, error : Errors, id : STRING, text : STRING, failed : BOOLEAN]
ConversationMessages ==
  [role    : {"user", "assistant", "system", "other", "none"},
   content : {"string", "blocks", "invalid"},
   blocks  : Seq(ContentBlocks)]
Options == {"absent", "supported", "other"}
MessageBodies ==
  [json : {"valid", "binary", "invalid"}, model : [space : STRING, name : STRING],
   messages : {"array", "notArray", "undecodable"}, conversation : Seq(ConversationMessages),
   maxTokens : Nat, stream : {"true", "absent"}, extraFields : BOOLEAN,
   tools : {"objects", "notObjects"}, thinking : Options, context : Options, effort : Options,
   format : {"absent", "object", "notObject", "other"}]

First(errors) ==
  LET i == SelectInSeq(errors, LAMBDA e : e # None)
  IN  IF i = 0 THEN None ELSE errors[i]

When(condition, error) == IF condition THEN error ELSE None

-----------------------------------------------------------------------------
(* validate_conversation.                                                  *)

BlockError(role, block) == First(<<
  When(block.type = "untyped", Invalid),
  When(role = "system" /\ block.type # "text", Unsupported),
  When(block.type = "tool_use" /\ role # "assistant", Unsupported),
  When(block.type = "tool_result" /\ role # "user", Unsupported),
  When(block.type \in {"text", "tool_use", "tool_result"}, block.error),
  When(block.type \in {"image", "document"}, Unsupported) >>)

MessageError(message) == First(<<
  When(message.role = "none", Invalid),
  When(message.role = "other", Unsupported),
  When(message.content = "invalid", Invalid) >>
  \o [i \in DOMAIN message.blocks |-> BlockError(message.role, message.blocks[i])])

ConversationError(messages) ==
  First(<<When(messages = <<>>, Invalid)>> \o [i \in DOMAIN messages |-> MessageError(messages[i])])

-----------------------------------------------------------------------------
(* validate.                                                               *)

\* reasoning_effort: thinking, context management and effort.
OptionError(request) ==
  When("other" \in {request.thinking, request.context, request.effort}, Unsupported)

SchemaError(request) == First(<<
  When(request.format = "other", Unsupported),
  When(request.format = "notObject", Invalid) >>)

RequestedModelError(request, model) == When(request.model # model, Unsupported)

ValidationError(request, model) == First(<<
  RequestedModelError(request, model),
  When(request.maxTokens = 0, Invalid),
  When(request.messages = "notArray", Invalid),
  ConversationError(request.conversation),
  When(request.extraFields, Unsupported),
  OptionError(request),
  SchemaError(request) >>)

-----------------------------------------------------------------------------
(* final_tool_result.                                                      *)

LastMessage(messages) == Last(messages)
HasToolResult(message) == \E b \in ToSet(message.blocks) : b.type = "tool_result"

ContinuationError(messages) ==
  IF messages = <<>> \/ ~HasToolResult(LastMessage(messages)) THEN None
  ELSE LET last == LastMessage(messages)
       IN  First(<<When(last.role # "user" \/ Len(last.blocks) # 1, Unsupported),
                   Head(last.blocks).error>>)

NoResult == [id |-> "none", text |-> "none", failed |-> FALSE]

\* Mutant: the latest result of the conversation, wherever it is.
ToolResultAnywhere(messages) ==
  LET blocks == FlattenSeq([i \in DOMAIN messages |-> messages[i].blocks])
      results == SelectSeq(blocks, LAMBDA b : b.type = "tool_result")
  IN  IF results = <<>> THEN NoResult
      ELSE [id |-> Last(results).id, text |-> Last(results).text, failed |-> Last(results).failed]

ToolResult(messages) ==
  IF ~HasToolResult(LastMessage(messages)) THEN NoResult
  ELSE LET block == Head(LastMessage(messages).blocks)
       IN  [id |-> block.id, text |-> block.text, failed |-> block.failed]

-----------------------------------------------------------------------------
(* execute_message.                                                        *)

ExecutionError(request, model) == First(<<
  ValidationError(request, model),
  When(request.tools = "notObjects", Invalid),
  ContinuationError(request.conversation),
  When(request.maxTokens = 0, Invalid) >>)

Execution(request, route, session) ==
  [route        |-> route,
   session      |-> session,
   conversation |-> request.conversation,
   schema       |-> request.format,
   limit        |-> request.maxTokens,
   result       |-> ToolResult(request.conversation)]
=============================================================================
