------------------------- MODULE MCRequestAdmission -------------------------
(* Small inputs for RequestAdmission.                                      *)
EXTENDS RequestAdmission

GptA == Id(Gpt, "a")
GptB == Id(Gpt, "b")
RouteA == Id(RouteNamespace, "a")
RouteB == Id(RouteNamespace, "b")
Opus == Id(Claude, "opus")

ModelEntry(id, context) == [id |-> id, label |-> "label", context |-> context]
RouteEntry(id, model) == [id |-> id, label |-> "label", model |-> model]

ModelEntries ==
  {ModelEntry(GptA, 1), ModelEntry(GptA, 2), ModelEntry(GptB, 2), ModelEntry(GptB, 0),
   ModelEntry(GptB, 3), ModelEntry(RouteB, 1), [ModelEntry(GptA, 1) EXCEPT !.label = "?"]}
RouteEntries ==
  {RouteEntry(r, m) : r \in {RouteA, RouteB, Opus}, m \in {GptA, GptB}}
    \cup {RouteEntry(Id(RouteNamespace, "?"), GptA), [RouteEntry(RouteB, GptA) EXCEPT !.label = "?"]}

MCDocuments ==
  {[version |-> v, models |-> ms, routes |-> rs, canonical |-> c] :
     v \in {1, 2}, ms \in SeqOf(ModelEntries, 2), rs \in SeqOf(RouteEntries, 2), c \in {RouteA, RouteB}}

Block(type) == [type |-> type, error |-> None, id |-> "none", text |-> "none", failed |-> FALSE]
Result(failed) == [Block("tool_result") EXCEPT !.id = "call", !.text = "text", !.failed = failed]
Blocks ==
  {Block(t) : t \in {"text", "tool_use", "image", "thinking", "untyped"}}
    \cup {Result(FALSE), Result(TRUE), [Result(FALSE) EXCEPT !.error = Invalid],
          [Result(FALSE) EXCEPT !.error = Unsupported], [Block("text") EXCEPT !.error = Invalid]}

Message(role, content, blocks) == [role |-> role, content |-> content, blocks |-> blocks]
LastMessages ==
  {Message(r, "blocks", bs) : r \in {"user", "assistant", "system"}, bs \in SeqOf(Blocks, 2)}
    \cup {Message(r, c, <<>>) : r \in {"user", "other", "none"}, c \in {"string", "invalid"}}
Histories ==
  {<<>>, <<Message("assistant", "blocks", <<Block("tool_use")>>)>>,
   <<Message("user", "blocks", <<Block("text"), Result(FALSE)>>)>>,
   <<Message("assistant", "blocks", <<Block("image")>>)>>}

Body == [json |-> "valid", model |-> RouteA, messages |-> "array", maxTokens |-> 1,
         conversation |-> <<Message("user", "string", <<>>)>>, stream |-> "true",
         extraFields |-> FALSE, tools |-> "objects", thinking |-> "absent",
         context |-> "supported", effort |-> "supported", format |-> "absent"]

Bodies ==
  {[Body EXCEPT !.conversation = h \o <<m>>] : h \in Histories, m \in LastMessages}
    \cup {[Body EXCEPT !.model = id, !.maxTokens = n, !.stream = s] :
            id \in {RouteA, RouteB, GptA, Opus, Id("other", "a")}, n \in 0..3, s \in {"true", "absent"}}
    \cup {[Body EXCEPT !.model = id, !.json = j] : id \in {RouteB, Opus}, j \in {"invalid", "binary"}}
    \cup {[Body EXCEPT !.messages = x, !.conversation = <<>>] : x \in {"notArray", "undecodable", "array"}}
    \cup {[Body EXCEPT !.format = f, !.extraFields = e] : f \in {"object", "notObject", "other"}, e \in BOOLEAN}
    \cup {[Body EXCEPT !.thinking = "other"], [Body EXCEPT !.context = "other"],
          [Body EXCEPT !.effort = "other"], [Body EXCEPT !.tools = "notObjects"]}

MCRequestedIds == {RouteA, RouteB, GptA, Opus}

Connection(names) == [readable |-> TRUE, nominates |-> names]
Connections ==
  {<<>>, <<Connection({"x-own"})>>, <<Connection({}), Connection({"x-own", "keep-alive"})>>,
   <<Connection({"x-own"}), [readable |-> FALSE, nominates |-> {}]>>}

MCHeaderNames == {"authorization", "x-api-key", "connection", "x-own", "te", "accept", "location",
                  "x-model-rocket-token", "x-claude-code-session-id"}
Absent == [n \in MCHeaderNames |-> <<>>]
Common == [Absent EXCEPT !["te"] = <<"1">>, !["accept"] = <<"1", "2">>, !["location"] = <<"1">>]

MCRequestHeaders ==
  {[Common EXCEPT !["authorization"] = a, !["x-api-key"] = k, !["connection"] = c, !["x-own"] = o,
                  !["x-model-rocket-token"] = <<"1">>] :
     a \in {<<>>, <<"Bearer token">>, <<"other">>, <<"Bearer token", "other">>}, k \in {<<>>, <<"1">>},
     c \in Connections, o \in {<<>>, <<"1", "2">>}}
    \cup {[Common EXCEPT !["x-claude-code-session-id"] = s] : s \in {<<"">>, <<"1">>, <<"", "1">>}}

\* Every body with a session, and a few bodies with every header map.
MCPosts ==
  {[body |-> b, headers |-> [Common EXCEPT !["x-claude-code-session-id"] = <<"1">>]] : b \in Bodies}
    \cup {[body |-> [Body EXCEPT !.model = id], headers |-> h] :
            id \in {RouteA, RouteB, Opus}, h \in MCRequestHeaders}

MCReplyHeaders ==
  {[Common EXCEPT !["connection"] = c, !["x-own"] = o] : c \in Connections, o \in {<<>>, <<"1", "2">>}}
=============================================================================
