--------------------------- MODULE RequestAdmission ---------------------------
(***************************************************************************)
(* From the catalogue file to a routed request: `serve` loads a catalogue, *)
(* the three handlers of adapters/inbound/http.rs authorize, decode        *)
(* (contracts/anthropic/request.rs) and dispatch, and the gateway sends a  *)
(* Claude request upstream and relays the reply.                           *)
(*                                                                         *)
(* Handlers share nothing but the immutable catalogue, so one request is   *)
(* followed at a time.                                                     *)
(***************************************************************************)
EXTENDS Catalogue, MessageDecoding, HeaderForwarding

CONSTANTS
  Documents,       \* catalogue files that parse
  Posts,           \* bodies of POST /v1/messages with the headers they come with
  RequestedIds,    \* identifiers in GET /v1/models/{model}
  RequestHeaders,  \* header maps of the GET requests
  ReplyHeaders,    \* header maps of replies
  Statuses         \* statuses of replies

\* What a file, a request and a header map can hold.
ASSUME DocumentsAssumption ==
  \A d \in Documents : d.models \in Seq(ModelValues) /\ d.routes \in Seq(RouteValues)
ASSUME PostsAssumption == \A post \in Posts : post.body \in MessageBodies
ASSUME HeadersAssumption == "connection" \in HeaderNames

VARIABLES
  catalogue,   \* the catalogue served, or NoCatalogue
  phase,       \* "starting", "refused", "idle", "decoded", "sent", "answered"
  request,     \* the request at hand
  outcome,     \* what it was decoded to
  upstream,    \* headers sent to Anthropic
  reply        \* what came back, and what the client gets of it

admissionVars == <<catalogue, phase, request, outcome, upstream, reply>>

NoCatalogue == [models |-> <<>>]
NoRequest   == [operation |-> "none"]
NoOutcome   == [kind |-> "none"]
NoHeaders   == [n \in HeaderNames |-> <<>>]
NoReply     == [status |-> 0]

Failure(error)   == [kind |-> "error", error |-> error]
Local(execution, streaming) ==
  [kind |-> "local", execution |-> execution, streaming |-> streaming]
Proxied(operation, fields, body) ==
  [kind |-> "anthropic", operation |-> operation, fields |-> fields, body |-> body]
NoBody == [json |-> "absent"]

-----------------------------------------------------------------------------
(* decode_message, decode_models, decode_model.                            *)

SessionOf(headers) ==
  IF headers["x-claude-code-session-id"] = <<>> THEN "" ELSE Head(headers["x-claude-code-session-id"])

\* validate_output_token_policy: a route without its model is a protocol error.
TokenPolicyError(body, route) ==
  IF route.model \notin ToSet(Ids(catalogue.models)) THEN "protocol"
  ELSE When(body.maxTokens > Lookup(catalogue.models, route.model).context, Invalid)

LocalError(body, headers) ==
  LET route == RouteFor(catalogue, body.model)
  IN  First(<<When(body.messages = "undecodable" \/ body.json = "binary", Invalid),
              TokenPolicyError(body, route),
              When(SessionOf(headers) = "", Invalid),
              ExecutionError(body, route.id)>>)

DecodeLocal(body, headers) ==
  LET error == LocalError(body, headers)
  IN  IF error # None THEN Failure(error)
      ELSE Local(Execution(body, RouteFor(catalogue, body.model), SessionOf(headers)), body.stream = "true")

DecodeProxied(operation, headers, body) ==
  IF RequestError(headers) # None THEN Failure(RequestError(headers))
  ELSE Proxied(operation, Decoded(headers), body)

DecodeMessage(body, headers) ==
  IF body.json = "invalid" THEN Failure(Invalid)
  ELSE IF IsRoute(catalogue, body.model) THEN DecodeLocal(body, headers)
  ELSE IF body.model.space # Claude THEN Failure(Unsupported)
  ELSE IF body.json = "binary" THEN Failure(Invalid)
  ELSE DecodeProxied("messages", headers, body)

DecodeModel(id, headers) ==
  IF IsRoute(catalogue, id) THEN [kind |-> "described", id |-> RouteFor(catalogue, id).id]
  ELSE IF id.space = Claude THEN DecodeProxied("model", headers, NoBody)
  ELSE Failure(Unsupported)

-----------------------------------------------------------------------------
\* The first decision of `serve`: a refused catalogue ends the process.
Load ==
  /\ phase = "starting"
  /\ \/ \E d \in Documents :
          /\ Accepts(d)
          /\ catalogue' = Loaded(d)
          /\ phase' = "idle"
     \* Not accepted, or not a readable regular file within the size limit.
     \/ phase' = "refused" /\ UNCHANGED catalogue
  /\ UNCHANGED <<request, outcome, upstream, reply>>

\* Every handler authorizes first; the body is read within its limit after that.
Handle(r, decoded) ==
  /\ phase' = "decoded"
  /\ request' = r
  /\ outcome' = IF ~r.authorized THEN Failure("authentication")
                ELSE IF r.oversized THEN Failure("payload_too_large")
                ELSE decoded
  /\ UNCHANGED <<catalogue, upstream, reply>>

Request(operation, authorized, oversized, headers, body) ==
  [operation |-> operation, authorized |-> authorized, oversized |-> oversized,
   headers |-> headers, body |-> body]

Messages ==
  /\ phase = "idle"
  /\ \E post \in Posts, authorized, oversized \in BOOLEAN :
       Handle(Request("messages", authorized, oversized, post.headers, post.body),
              DecodeMessage(post.body, post.headers))

Models ==
  /\ phase = "idle"
  /\ \E headers \in RequestHeaders, authorized \in BOOLEAN :
       Handle(Request("models", authorized, FALSE, headers, NoBody),
              DecodeProxied("models", headers, NoBody))

Model ==
  /\ phase = "idle"
  /\ \E headers \in RequestHeaders, id \in RequestedIds, authorized \in BOOLEAN :
       Handle(Request("model", authorized, FALSE, headers, NoBody), DecodeModel(id, headers))

\* build_reqwest_request.
Send ==
  /\ phase = "decoded"
  /\ outcome.kind = "anthropic"
  /\ upstream' = Upstream(outcome.fields)
  /\ phase' = "sent"
  /\ UNCHANGED <<catalogue, request, outcome, reply>>

\* The reply's head: response_head, then response_with_body.
Relay ==
  /\ phase = "sent"
  /\ \E status \in Statuses, headers \in ReplyHeaders :
       reply' = [status |-> status, from |-> headers,
                 relayed |-> ReplyIsRelayed(status, headers),
                 to |-> IF ReplyIsRelayed(status, headers) THEN Downstream(headers) ELSE NoHeaders]
  /\ request' = NoRequest /\ outcome' = NoOutcome /\ upstream' = NoHeaders
  /\ phase' = "answered"
  /\ UNCHANGED catalogue

Answer ==
  /\ \/ phase = "answered"
     \/ phase = "decoded" /\ outcome.kind # "anthropic"
  /\ phase' = "idle"
  /\ request' = NoRequest /\ outcome' = NoOutcome /\ reply' = NoReply
  /\ UNCHANGED <<catalogue, upstream>>

AdmissionInit ==
  /\ catalogue = NoCatalogue
  /\ phase = "starting"
  /\ request = NoRequest
  /\ outcome = NoOutcome
  /\ upstream = NoHeaders
  /\ reply = NoReply

AdmissionNext == Load \/ Messages \/ Models \/ Model \/ Send \/ Relay \/ Answer

AdmissionSpec == AdmissionInit /\ [][AdmissionNext]_admissionVars

-----------------------------------------------------------------------------
(* Properties.                                                             *)

\* The subset of Messages requests that the GPT routes support, as the
\* requirements state it.
SupportedBlock(message, block) ==
  /\ block.type \notin {"untyped", "image", "document"}
  /\ block.type \in {"text", "tool_use", "tool_result"} => block.error = None
  /\ message.role = "system" => block.type = "text"
  /\ block.type = "tool_use" => message.role = "assistant"
  /\ block.type = "tool_result" => message.role = "user"

SupportedConversation(messages) ==
  /\ messages # <<>>
  /\ \A m \in ToSet(messages) :
       /\ m.role \in {"user", "assistant", "system"}
       /\ m.content # "invalid"
       /\ \A b \in ToSet(m.blocks) : SupportedBlock(m, b)
  /\ HasToolResult(LastMessage(messages)) => Len(LastMessage(messages).blocks) = 1

Supported(body) ==
  /\ body.json = "valid" /\ body.messages = "array" /\ body.tools = "objects" /\ ~body.extraFields
  /\ {body.thinking, body.context, body.effort} \subseteq {"absent", "supported"}
  /\ body.format \in {"absent", "object"}
  /\ SupportedConversation(body.conversation)

Admitted == phase = "decoded" /\ request.authorized /\ ~request.oversized

\* The views of one catalogue agree (write_routing_settings, route_for,
\* restricted_model_catalog, validate_output_token_policy).  A supported
\* request for a route that Claude Code was told of is accepted whenever it
\* fits the window Claude Code was told of; a request is accepted for a local
\* route only if it is supported and fits the window that Codex was told of
\* for the very model it is dispatched to; and no accepted catalogue leaves a
\* route without its model.
AdvertisedRoutesAreServed ==
  Admitted /\ request.operation = "messages" =>
    LET body == request.body
        settings == RoutingSettings(catalogue)
        contract == LauncherContract(catalogue)
        told == settings.available \cup {settings.option, contract.canonical, WorkerModel(catalogue)}
        wanted == Supported(body) /\ body.model \in told /\ SessionOf(request.headers) # ""
    IN  /\ wanted /\ body.maxTokens \in (1..settings.context) \cup (1..contract.context)
             => outcome.kind = "local"
        /\ outcome.kind = "local" =>
             /\ wanted
             /\ \E m \in RestrictedCatalog(catalogue) :
                  /\ m.slug = outcome.execution.route.model
                  /\ body.maxTokens \in 1..m.window
        /\ outcome.kind = "error" => outcome.error # "protocol"

\* A request continues a tool call exactly when its last message carries a
\* tool result, alone and from the user, and then with that result's
\* identifier, text and disposition; an accepted request never drops a result
\* from its last message, and results further back never continue anything
\* (final_tool_result against validate_conversation).
ContinuationIsExplicit ==
  Admitted /\ outcome.kind = "local" =>
    LET last == LastMessage(request.body.conversation)
        result == outcome.execution.result
    IN  IF HasToolResult(last)
        THEN /\ last.role = "user"
             /\ {[id |-> b.id, text |-> b.text, failed |-> b.failed] : b \in ToSet(last.blocks)} = {result}
        ELSE result = NoResult

\* The headers that may cross, written without the code's filter: end to end,
\* not nominated by the original message, not for this program only.
Crosses(h, name, kept) ==
  /\ name \notin HopByHop \cup kept
  /\ \A v \in ToSet(h["connection"]) : name \notin v.nominates

\* What reaches Anthropic is a request with subscription credentials and
\* without an API key; both ways, every end-to-end header keeps its values and
\* their order through both filters, and nothing else crosses: not a header
\* the Connection header nominated, although the second filter no longer sees
\* that header (request_headers, build_reqwest_request, response_head,
\* response_with_body).
OnlyEndToEndHeadersCross ==
  /\ phase = "sent" =>
       /\ HasOAuth(request.headers)
       /\ upstream = [n \in HeaderNames |->
            IF Crosses(request.headers, n, KeptFromUpstream) THEN request.headers[n] ELSE <<>>]
       /\ request.operation = "messages" => outcome.body = request.body /\ request.body.model.space = Claude
  /\ phase = "answered" =>
       reply.to = [n \in HeaderNames |->
         IF reply.relayed /\ Crosses(reply.from, n, KeptFromClient) THEN reply.from[n] ELSE <<>>]
=============================================================================
