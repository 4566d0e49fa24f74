-------------------------- MODULE MCSchedHistory --------------------------
(* The scheduler with every race it can meet, on a small machine. *)
EXTENDS SchedHistory, TLC

\* The slots for tasks are interchangeable.
Slots == Permutations(Proc)

Dead(t) == state[t] \in {"FREE", "ZOMBIE"}

\* The state without what no action reads any more: the signals, the progress
\* and the parent of a dead task, a parent that is dead, and the clock of a
\* task that does not sleep.
Read ==
    <<state, ring, reap_list, cur, on, cpc, lock, raced,
      [t \in Task |-> IF state[t] = "SLEEPING" THEN sleep[t] ELSE 0],
      [t \in Task |-> IF Dead(t) THEN {} ELSE pending[t]],
      [t \in Task |-> IF Dead(t) THEN "code" ELSE at[t]],
      [t \in Task |-> IF Dead(t) \/ parent[t] = None THEN None
                      ELSE IF Dead(parent[t]) THEN None ELSE parent[t]]>>
=============================================================================
