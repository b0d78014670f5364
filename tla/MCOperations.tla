---------------------------- MODULE MCOperations ----------------------------
(* Two serves, one after the other or at once, and two instances of a model. *)
EXTENDS Operations

CONSTANTS i1, i2

MCServices == {"gateway", "ui"}
MCProcesses == Serves \X MCServices
MCAliasSets == {{"a"}, {"a", "b"}}

NoRows == [i \in Instances |-> None]
Found(status) == [NoRows EXCEPT ![i1] = Row({"a"}, status, 1)]
Scenario(rs, serves, faults, instances, models, lists) ==
  [rows |-> rs,
   budget |-> [serves |-> serves, faults |-> faults, instances |-> instances,
               models |-> models, lists |-> lists]]

MCScenarios ==
  { \* instances changed while they are listed, with and without a failure
    Scenario(Found("STOPPED"), 1, 0, 3, 0, 3), Scenario(Found("RUNNING"), 1, 0, 3, 0, 3),
    Scenario(Found("RUNNING"), 1, 1, 1, 0, 2),
    \* downloads, benchmarks and deletions, with and without a restart
    Scenario(NoRows, 1, 0, 0, 3, 0), Scenario(NoRows, 2, 1, 0, 2, 0),
    Scenario(Found("RUNNING"), 1, 0, 1, 2, 0), Scenario(Found("RUNNING"), 1, 0, 0, 3, 0),
    Scenario(Found("RUNNING"), 2, 1, 0, 1, 0),
    Scenario(Found("RUNNING"), 1, 1, 0, 2, 0),
    \* stacks that fail and are served again
    Scenario(Found("RUNNING"), 2, 2, 0, 0, 0)}
=============================================================================
