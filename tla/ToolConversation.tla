-------------------------- MODULE ToolConversation --------------------------
(***************************************************************************)
(* What the model router promises of a conversation with a model: it is    *)
(* begun by one request, it is in the hands of one request at a time, it   *)
(* stops at a tool call, and the call is answered once, by a request of    *)
(* its own Claude session and route, or the conversation is forgotten.  No *)
(* request takes part twice, and what is over does not come back.          *)
(* A conversation is named by the request that began it.                   *)
(***************************************************************************)

CONSTANTS
  Requests,  \* requests, and the conversations they may begin
  Content,   \* what a request may ask: a Claude session, a route and a tool
  ToolIds,   \* names of tool calls
  NoTool     \* the request answers no tool call

VARIABLES
  asked,   \* what each request asked; <<>> before it arrives
  served,  \* requests that had their turn to take up a conversation
  inHand,  \* pairs of a request and the conversation it has in hand
  open     \* pairs of a conversation and the tool call it waits at

conversationVars == <<asked, served, inHand, open>>

Init ==
  /\ asked = [r \in Requests |-> <<>>]
  /\ served = {}
  /\ inHand = {}
  /\ open = {}

Ask(r) ==
  /\ asked[r] = <<>>
  /\ UNCHANGED <<served, inHand, open>>
  /\ \E content \in Content : asked' = [asked EXCEPT ![r] = content]

Waits(r) == asked[r] \in Content /\ r \notin served

Begin(r) ==
  /\ Waits(r) /\ asked[r].tool = NoTool
  /\ served' = served \cup {r}
  /\ inHand' = inHand \cup {<<r, r>>}
  /\ UNCHANGED <<asked, open>>

\* There is nothing to begin or to answer.
Refuse(r) ==
  /\ Waits(r)
  /\ served' = served \cup {r}
  /\ UNCHANGED <<asked, inHand, open>>

\* call is a pair of a conversation and a tool call.
Answer(r, call) ==
  /\ Waits(r) /\ asked[r].tool = call[2]
  /\ asked[call[1]].claude = asked[r].claude /\ asked[call[1]].route = asked[r].route
  /\ served' = served \cup {r}
  /\ inHand' = inHand \cup {<<r, call[1]>>}
  /\ open' = open \ {call}
  /\ UNCHANGED asked

\* hand is a pair of a request and a conversation.  The names of a Claude
\* session's open calls differ.
Stop(hand) ==
  /\ inHand' = inHand \ {hand}
  /\ \E tool \in ToolIds :
       /\ \A call \in open : call[2] = tool => asked[call[1]].claude # asked[hand[2]].claude
       /\ open' = open \cup {<<hand[2], tool>>}
  /\ UNCHANGED <<asked, served>>

End(hand) ==
  /\ inHand' = inHand \ {hand}
  /\ UNCHANGED <<asked, served, open>>

Forget(call) ==
  /\ open' = open \ {call}
  /\ UNCHANGED <<asked, served, inHand>>

Next ==
  \/ \E r \in Requests : Ask(r) \/ Begin(r) \/ Refuse(r)
  \/ \E call \in open : Forget(call) \/ \E r \in Requests : Answer(r, call)
  \/ \E hand \in inHand : Stop(hand) \/ End(hand)

Spec == Init /\ [][Next]_conversationVars
=============================================================================
