---------------------------- MODULE MCTaskQueue ----------------------------
(* Small instances of the engine. *)
EXTENDS Expectations, Delivery, Exclusion, Service, Retries, TLC

CONSTANTS t1, t2, c1, k1, w1, w2

OneTask == {t1}
TwoTasks == {t1, t2}
ThreeTasks == {t1, t2, c1}
OneKey == {k1}
NoErrors == {}

KeyedTasks == [t \in Tasks |-> IF t = c1 THEN NoKey ELSE k1]
OneAttempt == [t \in Tasks |-> 1]
TwoAttempts == [t \in Tasks |-> IF t = c1 THEN 1 ELSE 2]

\* Workers are interchangeable.
WorkerSymmetry == Permutations(Workers)

\* Two requests with the same key and limit are interchangeable.
TaskSymmetry == Permutations(TwoTasks)

=============================================================================
