------------------------- MODULE MCAppServerMessages -------------------------
(* Two turns, one line of each kind that the code tells apart.             *)
EXTENDS AppServerMessages

CONSTANTS a, b

MCToolLists == {<<"Read">>, <<"Write", "Read">>, <<"Read", "Read">>, <<"no tool name">>}

Number(n) == [form |-> "number", value |-> n]
String(n) == [form |-> "string", value |-> n]

Event(method, t) ==
  [size |-> 1, decodes |-> TRUE, id |-> NoId, method |-> method, thread |-> t, turn |-> t,
   whole |-> TRUE, items |-> {}, tool |-> 0, call |-> None]
Response(id) == [Event(None, None) EXCEPT !.id = id]
Tool(t, id, index, call) == [Event("tool", t) EXCEPT !.id = id, !.tool = index, !.call = call]

MCMessages ==
  {Response(Number(1)), Response(Number(2)), Response(String(1)),
   [Response(Number(1)) EXCEPT !.whole = FALSE],
   Tool(a, Number(1), 1, "x"), Tool(a, String(1), 2, "y"), Tool(b, Number(1), 1, "x"),
   Tool(a, NoId, 1, "x"),
   [Event("completed", a) EXCEPT !.size = 2],
   [Event("completed", a) EXCEPT !.items = {"agentMessage", "commandExecution"}],
   [Event("item", b) EXCEPT !.turn = a],
   [Event("delta", b) EXCEPT !.thread = None],
   Event("unknown", b), Event("configWarning", None),
   [Event("configWarning", None) EXCEPT !.whole = FALSE],
   [Event("delta", b) EXCEPT !.size = 3], [Event("delta", a) EXCEPT !.decodes = FALSE]}
=============================================================================
