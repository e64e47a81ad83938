----------------------------- MODULE MCEnqueue -----------------------------
(* A TLC instance of Enqueue: payloads, policies, functions and inputs. *)
EXTENDS Enqueue

MCIndex == <<"0", "1", "2", "3">>

Object(m) == (<<>> :> "{}") @@ m
List(s) == (<<>> :> "[]") @@ [p \in {<<MCIndex[i]>> : i \in DOMAIN s} |->
                                s[CHOOSE i \in DOMAIN s : MCIndex[i] = p[1]]]

\* {u: {id, n}, ids: [...]}, written id, n and ids.
Payload(id, n, ids) ==
  Object((<<"u">> :> "{}") @@ (<<"u", "id">> :> id) @@ (<<"u", "n">> :> n)
         @@ [p \in {<<"ids">> \o q : q \in DOMAIN List(ids)} |-> List(ids)[Tail(p)]])

P1 == Payload("1", "a", <<"x">>)
P2 == Payload("1", "b", <<"y", "x">>)
P3 == Payload("2", "a", <<"y", "x">>)
NoIds == Object((<<"u">> :> "{}") @@ (<<"u", "id">> :> "1") @@ (<<"u", "n">> :> "a"))

Policy(mode, paths, prefix) == [mode |-> mode, paths |-> paths, prefix |-> prefix, object |-> FALSE]

Selections == {Policy("all", <<>>, TRUE),
             Policy("only", <<<<"u", "id">>, <<"ids", "0">>>>, TRUE),
             Policy("only", <<<<"ids", "1">>>>, FALSE),
             Policy("only", <<<<"u">>, <<"u", "id">>>>, TRUE),
             Policy("except", <<<<"u", "n">>, <<"ids">>>>, FALSE),
             Policy("except", <<<<"ids", "0">>>>, TRUE),
             uniqueKey(<<<<"u">>>>)}

\* Each function has the name of the other's type.
send   == [name |-> "report", type |-> "send", queue |-> "q", transform |-> Unset,
           unique |-> uniqueKey(<<<<"u", "id">>>>)]
report == [name |-> "send", type |-> "report", queue |-> Unset, transform |-> "low", unique |-> Unset]

\* What the transforms change: the queue, the type, the payload after the keys
\* were made of it, the unique key, or the batch.
MCTransform(input, opts) ==
  CASE input.fn.transform = "low"    -> [opts EXCEPT !.queue = "low"]
    [] input.fn.transform = "retype" -> [opts EXCEPT !.type = "report"]
    [] input.fn.transform = "stamp"  -> [opts EXCEPT !.payload = Payload("2", "c", <<"z">>)]
    [] input.fn.transform = "free"   -> [opts EXCEPT !.key = {}]
    [] input.fn.transform = "gather" -> [opts EXCEPT !.key = {}, !.batchKey = {<<"all", NoIds>>},
                                                     !.batch = batchConfig(3, <<"ids">>, "append")]
    [] input.fn.transform = "stray"  -> [opts EXCEPT !.queue = Unset]
Sending(how) == [send EXCEPT !.transform = how]

Input(payload) == [fn |-> Unset, type |-> "send", queue |-> "q", payload |-> payload,
                   unique |-> Unset, batch |-> Unset]
Of(fn, payload) == [Input(payload) EXCEPT !.fn = fn, !.queue = Unset]

Plain(S) == [inputs |-> S, fns |-> <<send>>, built |-> TRUE, fallback |-> TRUE]

Uniques == {Plain({[Input(v) EXCEPT !.unique = p] : v \in {P1, P2, P3, NoIds}}) : p \in Selections}

Batches == {Plain({[Input(v) EXCEPT !.batch = batchConfig(n, <<"ids">>, "append")] :
                     v \in {P1, P3, NoIds}}) : n \in {1, 3}}
           \cup {Plain({[Input(P1) EXCEPT !.batch = batchConfig(3, <<"ids">>, "append")],
                        [Input(P2) EXCEPT !.batch = batchConfig(2, <<"ids">>, "dedup")],
                        [Input(P3) EXCEPT !.batch = batchConfig(2, <<"ids">>, "append")],
                        [Input(Payload("1", "a", <<"z", "x">>)) EXCEPT !.batch = batchConfig(1, <<"ids">>, "dedup")]})}
           \cup {Plain({[Input(List(s)) EXCEPT !.batch = batchConfig(3, <<>>, "dedup")] :
                          s \in {<<"x">>, <<"x", "y">>, <<"x", "x", "x", "x">>}})}

ByFunction == {Of(send, v) : v \in {P1, P2, P3, List(<<"x">>)}}
              \cup {[Of(send, P1) EXCEPT !.batch = batchConfig(3, <<"ids">>, "append")]}
              \cup {Of(report, P1), [Of(report, P1) EXCEPT !.queue = "q"],
                    [Of(report, P2) EXCEPT !.queue = "q", !.unique = uniqueKey(<<>>)]}

\* Inputs of functions with transforms, next to those of the same without.
ByTransform(how) ==
  [inputs |-> {Of(Sending(how), P1), Of(Sending(how), P3), Of(report, P1)}
              \cup {[Of(Sending(how), v) EXCEPT !.unique = Unset, !.fn.unique = Unset,
                                            !.batch = batchConfig(3, <<"ids">>, "append")] : v \in {P1, P2}},
   fns |-> <<Sending(how), report>>, built |-> FALSE, fallback |-> TRUE]

MCPrograms == Uniques \cup Batches \cup
  {[inputs |-> ByFunction, fns |-> <<send, report>>, built |-> TRUE, fallback |-> FALSE],
   [inputs |-> ByFunction, fns |-> <<send>>, built |-> TRUE, fallback |-> TRUE],
   [inputs |-> ByFunction, fns |-> <<send, send>>, built |-> TRUE, fallback |-> TRUE],
   [inputs |-> ByFunction, fns |-> <<send, report, send>>, built |-> FALSE, fallback |-> TRUE]}
  \cup {ByTransform(how) : how \in {"retype", "stamp", "free", "gather", "stray"}}

=============================================================================
