---------------------------- MODULE SchedHistory ----------------------------
(***************************************************************************)
(* Sched with a history variable that records the one thing its safety     *)
(* rests on.  task_sleep_ticks and signal_deliver_pending mark a task      *)
(* SLEEPING or STOPPED while its CPU still executes it.  The clock and a   *)
(* SIGCONT may then mark it RUNNABLE before the CPU has left it, and       *)
(* schedule_locked may even return to it (findings of MCSchedSleep and     *)
(* MCSchedStop).  raced says that this has happened; the properties say    *)
(* that, until it does, nothing else goes wrong.                           *)
(***************************************************************************)
EXTENDS Sched

VARIABLE raced   \* a task was woken, and its CPU goes on executing it

\* The step wakes a task that a CPU executes, outside the scheduler, after it.
WokenUnderway ==
    \E c \in CPU :
    /\ on[c] # None /\ on'[c] = on[c] /\ cpc'[c] = "run"
    /\ state[on[c]] \in {"SLEEPING", "STOPPED"} /\ state'[on[c]] = "RUNNABLE"

HInit == Init /\ raced = FALSE

HNext == Next /\ raced' = (raced \/ WokenUnderway)

HSpec == HInit /\ [][HNext]_<<vars, raced>>

-----------------------------------------------------------------------------
(* Properties. *)

\* No two CPUs execute on one kernel stack, and none selects a task that
\* another executes, unless a task was woken under the CPU that executes it:
\* the handoff of ctx_switch_unlock is not to blame.
StackUnshared == raced \/ OneStack

\* reap_locked never frees the task or the stack a CPU still uses.
NoneFreedInUse == raced \/ NotFreed

\* The run ring holds every live task once, and no exited one.
RingWhole == raced \/ RingExact

\* schedule_locked always finds a task for its CPU.
AlwaysATask == raced \/ NoPanic

\* A CPU outside the scheduler executes a task that is RUNNING, or one that
\* has just marked itself STOPPED and is on its way to schedule: every other
\* state a task gets under sched_lock, which its CPU then holds.
ExecutesOwn ==
    raced \/ \A c \in CPU : cpc[c] = "run" /\ on[c] # None =>
                 \/ state[on[c]] = "RUNNING"
                 \/ state[on[c]] = "STOPPED" /\ at[on[c]] = "stopped"

\* Once a task was woken underway the properties say nothing.
Unraced == ~raced
=============================================================================
