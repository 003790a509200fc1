--------------------------- MODULE HeaderForwarding ---------------------------
(***************************************************************************)
(* Headers on their way through the proxy (contracts/anthropic/            *)
(* transport.rs): Claude Code to Anthropic and back.                       *)
(*                                                                         *)
(* A header map gives every name of HeaderNames the sequence of its        *)
(* values, empty when the header is absent.  A value of `connection` is a  *)
(* record: the names it nominates, and whether it could be read at all.    *)
(* Names and values that a header map can hold also pass                   *)
(* AnthropicHeader::new, whose errors are left out.                        *)
(***************************************************************************)
EXTENDS Naturals, SequencesExt

CONSTANT HeaderNames    \* the names that occur

HopByHop == {"connection", "transfer-encoding", "keep-alive", "proxy-authenticate",
             "proxy-authorization", "proxy-connection", "te", "trailer", "upgrade"}

\* What is for this hop or for this program only, by direction.
KeptFromUpstream == {"host", "content-length", "x-model-rocket-token", "x-api-key"}
KeptFromClient   == {"content-length", "location"}

-----------------------------------------------------------------------------
ConnectionIsReadable(h) == \A v \in ToSet(h["connection"]) : v.readable
Nominated(h) == UNION {v.nominates : v \in ToSet(h["connection"])}

Without(h, names) == [n \in HeaderNames |-> IF n \in names THEN <<>> ELSE h[n]]

\* The first value of the header: a non-empty bearer, and no API key.
HasOAuth(h) ==
  /\ h["authorization"] # <<>>
  /\ Head(h["authorization"]) = "Bearer token"
  /\ h["x-api-key"] = <<>>

RequestError(h) ==
  IF ~HasOAuth(h) THEN "authentication"
  ELSE IF ~ConnectionIsReadable(h) THEN "invalid_request"
  ELSE "none"

\* request_headers and sanitized_upstream_request_headers: the same filter,
\* applied by the decoder and again by the gateway.
StripRequest(h)  == Without(h, HopByHop \cup Nominated(h) \cup KeptFromUpstream)
\* response_head and sanitized_downstream_response_headers.
StripResponse(h) == Without(h, HopByHop \cup Nominated(h) \cup KeptFromClient)

\* Mutant: the decoder leaves the nominated headers to the gateway.
DecodedLate(h) == Without(h, HopByHop \cup KeptFromUpstream)
Decoded(h) == StripRequest(h)
Upstream(fields) == StripRequest(fields)

\* A redirect, a status outside HTTP's range and an unreadable Connection
\* header make the reply a failure of the provider.
ReplyIsRelayed(status, h) ==
  /\ status \in (100..299) \cup (400..599)
  /\ ConnectionIsReadable(h)

Downstream(h) == StripResponse(StripResponse(h))
=============================================================================
