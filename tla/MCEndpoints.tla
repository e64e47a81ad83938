---------------------------- MODULE MCEndpoints ----------------------------
(* A TLC instance of Endpoints: two programs, three jobs, two budgets, a cron. *)
EXTENDS Endpoints

T(pairs) == FoldLeft(LAMBDA f, x : Joined(f, (x[1] :> x[2])), Empty, pairs)

Policy(n, burst) == T(<<<<<<"allocation">>, n>>, <<<<"strategy", "type">>, "concurrency">>,
                        <<<<"strategy", "burst">>, burst>>>>)

MCPolicies == {Policy("2", Unset), Policy("5", "9")}

MCPatches == {T(<<<<<<"strategy", "burst">>, "null">>>>),
              T(<<<<<<"allocation">>, "7">>, <<<<"strategy", "burst">>, Unset>>>>)}

MCJobPatches == {T(<<<<<<"queue">>, "b">>, <<<<"retry_limit">>, Unset>>>>), T(<<<<<<"retry_limit">>, "null">>>>)}

B(key, cost, policy) == [key |-> key, cost |-> cost, createWith |-> policy]
MCBindingSets == {<<>>, <<B("x", Unset, Empty)>>, <<B("y", "2", Policy("5", Unset))>>,
                  <<B("x", "2", Empty), B("y", Unset, Policy("2", "9"))>>}

Def(expression, paused, batch) ==
  T(<<<<<<"expression">>, expression>>, <<<<"timezone">>, Unset>>, <<<<"paused">>, paused>>,
      <<<<"job", "type">>, "t">>, <<<<"job", "batch">>, batch>>>>)
MCEntries == {Def("hourly", Unset, "k"), Def("daily", "true", Unset)}

MCSchedules == {[timezone |-> Unset, paused |-> Unset, entries |-> [e \in {"e"} |-> Def("daily", Unset, "k")]],
                [timezone |-> "UTC", paused |-> "true", entries |-> [e \in {"f"} |-> Def("hourly", "true", "k")]]}

MCFilters == {[queue |-> {"a"}], [id |-> {}], [f \in {"budgets.key"} |-> {"x"}], [f \in {} |-> {}]}

A_job(id, status, queue) ==
  Prefixed(Job(id), T(<<<<<<"status">>, status>>, <<<<"queue">>, queue>>, <<<<"retry_limit">>, "4">>>>))

MCInitialTree ==
  FoldLeft(Joined, Prefixed(Budget("x"), Policy("3", "4")),
           <<A_job("1", "ready", "a"), A_job("2", "in_flight", "a"), A_job("3", "ready", "b"),
             T(<<<<Bound("1", "x"), "1">>, <<Bound("2", "x"), "1">>>>),
             Prefixed(Entry("g", "e"), cronEntryToApi(Def("hourly", "false", "k"))),
             T(<<<<Append(Group("g"), "paused"), "false">>, <<Append(Group("g"), "timezone"), "UTC">>>>)>>)

MCPrograms ==
  {{"defineBudget", "updateBudget", "deleteBudget", "bindJobBudget", "unbindAllJobBudgets"},
   {"rebindJobBudget", "setJobBudgetCost", "unbindJobBudget", "replaceJobBudgets", "enqueueRaw", "updateJob"},
   {"bindAllJobsBudget", "rebindAllJobsBudget", "setAllJobsBudgetCost", "unbindAllJobsBudget",
    "clearAllJobsBudgets", "deleteBudget"},
   {"deleteJob", "reportSuccess", "reset", "updateJob", "bindJobBudget"},
   {"replaceCronGroup", "updateCronGroup", "deleteCronGroup", "deleteAllCrons", "addCronEntry",
    "replaceCronEntry", "updateCronEntry", "deleteCronEntry"}}

=============================================================================
