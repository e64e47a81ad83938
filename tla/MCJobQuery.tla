----------------------------- MODULE MCJobQuery -----------------------------
(* TLC instances of JobQuery: the calls, and the payloads of four jobs. *)
EXTENDS JobQuery

MCPayload == [j \in Ids |-> {a \in {"p", "q"} : (a = "p") = (j % 3 # 0) \/ j = 4}]

A  == byQueue(Query, {"a"})
AB == addQueue(A, {"b"})
P  == addJqFilter(Query, "p")

Op(op, q) == [op |-> op, query |-> q, asked |-> q.order, to |-> "b"]

Reads == {Op("iterate", inPagesOf(A, 1)),
          Op("iterate", limit(reverseOrder(AB), 2)),
          Op("iterate", limit(inPagesOf(Query, 1), 2)),
          Op("iterate", limit(A, 0)),
          Op("first", A), Op("last", A), Op("last", reverseOrder(A)),
          Op("pages", limit(inPagesOf(A, 2), 1)),
          Op("count", limit(byPriority(Query, <<1>>), 1)),
          Op("count", byPriority(A, <<Unset, 0>>)),
          Op("count", byQueue(Query, {})),
          Op("errors", inPagesOf(Query, 1)),
          Op("isEmpty", A), Op("firstError", reverseOrder(Query)),
          Op("errorPages", inPagesOf(Query, 2)),
          Op("errors", limit(reverseOrder(Query), 2))}

Writes == {Op("deleteAll", A),
           Op("deleteAll", byQueue(Query, {})),
           Op("deleteAll", limit(inPagesOf(AB, 2), 3)),
           Op("deleteAll", limit(A, 0)),
           Op("updateAll", addJqFilter(P, "q")),
           Op("updateAll", inPagesOf(byPriority(A, <<1, Unset>>), 1)),
           Op("updateAll", inPagesOf(byId(A, {1, 3}), 2)),
           Op("updateAll", limit(A, 1)),
           [Op("updateAll", inPagesOf(A, 1)) EXCEPT !.to = "a"]}

MCCalls == Reads \cup Writes

\* A text of two alternatives, and a filter added to it.
JqCalls == {Op("deleteAll", addJqFilter(byJqFilter(Query, <<{"p"}, {"q"}>>), "q"))}

=============================================================================
