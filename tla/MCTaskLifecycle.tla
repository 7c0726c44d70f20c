--------------------------- MODULE MCTaskLifecycle ---------------------------
(***************************************************************************)
(* TaskLifecycle on small instances.  The liveness run starts where what   *)
(* it is about can happen within few events: two tasks that share a batch, *)
(* or a single task whose dispatch, crawl and results overlap.             *)
(***************************************************************************)
EXTENDS TaskLifecycle

Monitor == [status |-> "running", type |-> "monitor", guest |-> FALSE]
OneShot == [Monitor EXCEPT !.type = "oneshot"]
Deleted == [Monitor EXCEPT !.status = "deleted"]

\* The managed tasks have row r, the others have been deleted before.
Alone(r) == row = [t \in Task |-> IF t \in Managed THEN r ELSE Deleted]

Scenario ==
    \/ row = [t \in Task |-> Monitor] /\ events = 1
    \/ Alone(DemoRow) /\ events = 1
    \/ Alone(OneShot) /\ events = 0
    \/ Alone(Unborn) /\ events = 1

ScenarioInit == Init /\ Scenario

ScenarioSpec == ScenarioInit /\ [][Next]_vars /\ Fairness
=============================================================================
