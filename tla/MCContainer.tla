---------------------------- MODULE MCContainer ----------------------------
(* The providers of a turn: saver and client of the application, tools and *)
(* agent of the session, a transient reader of a call, and a provider that *)
(* is refused because it depends on a narrower level.                      *)
EXTENDS Container

CONSTANTS saver, client, tools, agent, reader, bad, turn, other

Graph == {saver, client, tools, agent, reader, bad}
GraphScope == [p \in Graph |-> CASE p \in {tools, agent} -> "session"
                                  [] p = reader -> "transient"
                                  [] OTHER -> "app"]
GraphDeps == [p \in Graph |-> CASE p = agent -> <<client, tools>>
                                 [] p = reader -> <<client>>
                                 [] p = bad -> <<tools>>
                                 [] p = client -> <<saver>>
                                 [] OTHER -> <<>>]
Teardowns == {saver, client, tools, reader}
AtStart == <<saver>>
Requests == [c \in Calls |-> IF c = turn THEN {<<agent>>} ELSE {<<agent>>, <<reader, bad>>}]
Contexts == [c \in Calls |-> IF c = turn THEN {"session"} ELSE {"app", "session"}]
============================================================================
