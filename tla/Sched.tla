------------------------------- MODULE Sched -------------------------------
(***************************************************************************)
(* The SMP scheduler: kernel/proc.c, the handoff of kernel/switch.asm, the *)
(* stop and continue half of kernel/signal.c, and the bring-up of the      *)
(* other CPUs in kernel/smp.c.                                             *)
(*                                                                         *)
(* A critical section of sched_lock that ends in its own function is one   *)
(* step.  schedule_locked keeps the lock from its caller's section to the  *)
(* assembly handoff, so it is three: the caller's section ("sched" from    *)
(* then on), the choice of the next task ("switch" from then on, with the  *)
(* CPU still on the old stack), and the move to the new stack, which       *)
(* releases the lock.  Interrupts are off from the first to the last.      *)
(***************************************************************************)
EXTENDS Naturals, Sequences, FiniteSets

CONSTANTS
    CPU,          \* CPUs; the idle task of a CPU is named by the CPU
    Boot,         \* the CPU that boots and that takes the timer interrupt
    Kernel,       \* the task proc_init makes of the boot thread, pinned to Boot
    Proc,         \* slots for all other tasks (struct task and its stack)
    None,
    MaxSleep,     \* the longest sleep, in ticks
    Signals,      \* the signals that tasks send; SIGCHLD comes with every exit
    TickInWindow  \* whether a tick may fall between task_sleep_ticks's reading
                  \* of the clock and schedule_locked's

Task == Proc \cup {Kernel} \cup CPU

ASSUME CpuAssumption == Boot \in CPU /\ IsFiniteSet(CPU)
ASSUME TaskAssumption ==
    /\ Proc \cap CPU = {} /\ Kernel \notin Proc \cup CPU
    /\ None \notin Proc \cup CPU \cup {Kernel}
ASSUME SleepAssumption == MaxSleep \in Nat \ {0}
ASSUME SignalAssumption == Signals \subseteq {"KILL", "CHLD", "CONT", "STOP"}
ASSUME TickAssumption == TickInWindow \in BOOLEAN

VARIABLES
    state,      \* task_state, or FREE for a slot that is not allocated
    ring,       \* the run ring, read from runq
    reap_list,  \* exited tasks whose memory is not yet freed
    sleep,      \* ticks left until sleep_until
    pending,    \* sig_pending
    parent,     \* the task parent_pid names; None: none, or gone
    at,         \* how far a task is in signal_deliver_pending or task_exit
    cur,        \* the current task of a CPU's record; None: not online
    on,         \* the task whose kernel stack a CPU executes on
    cpc,        \* where a CPU is in the scheduler
    lock        \* the holder of sched_lock

vars == <<state, ring, reap_list, sleep, pending, parent, at, cur, on, cpc, lock>>

TaskState == {"FREE", "RUNNABLE", "RUNNING", "SLEEPING", "STOPPED", "ZOMBIE"}

InRing(t) == \E i \in 1..Len(ring) : ring[i] = t

-----------------------------------------------------------------------------
(* The run ring. *)

\* runq_insert: behind the node runq points at.
Inserted(r, t) ==
    IF r = <<>> THEN <<t>>
    ELSE [i \in 1..(Len(r) + 1) |-> IF i = 1 THEN r[1] ELSE IF i = 2 THEN t ELSE r[i - 1]]

\* runq_remove: runq moves to the predecessor of a removed head, the last
\* node of the ring.
Removed(r, t) ==
    [i \in 1..(Len(r) - 1) |->
        IF t = r[1] THEN IF i = 1 THEN r[Len(r)] ELSE r[i]
        ELSE IF \E j \in 1..i : r[j] = t THEN r[i + 1] ELSE r[i]]

\* The faulty variant of pick_next's order that would always start at runq.
Hops_FromHead(from, t) == CHOOSE k \in 1..Len(ring) : ring[k] = t

\* The number of qnext hops pick_next takes from one task of the ring to
\* another; a whole round to the task itself.
Hops(from, t) ==
    LET i == CHOOSE k \in 1..Len(ring) : ring[k] = from
        j == CHOOSE k \in 1..Len(ring) : ring[k] = t
    IN  IF j > i THEN j - i ELSE Len(ring) + j - i

\* The faulty variant that would leave every idle task with affinity 0.
Affine_Zero(t, c) == t \in CPU \cup {Kernel} => c = Boot

Affine(t, c) == (t \in CPU => t = c) /\ (t = Kernel => c = Boot)

\* The tasks pick_next may return to CPU c when the tasks' states are st.
Eligible(st, c) == {t \in Task : InRing(t) /\ st[t] = "RUNNABLE" /\ Affine(t, c)}

\* pick_next: the first eligible task that is not idle, else the idle one.
pick_next(st, from, c) ==
    LET busy == Eligible(st, c) \ CPU
    IN  IF busy = {} THEN Eligible(st, c)
        ELSE {t \in busy : \A u \in busy : Hops(from, t) <= Hops(from, u)}

\* The faulty variant that would not spare the task it runs on.
Reaped_All(c) == reap_list

\* reap_locked: what the other CPUs' exited tasks and the earlier ones of
\* this CPU held is freed.
Reaped(c) == reap_list \ {cur[c]}

\* The tasks' states after reap_locked and wake_sleepers_locked on CPU c.
Settled(c) ==
    [t \in Task |-> IF t \in Reaped(c) THEN "FREE"
                    ELSE IF InRing(t) /\ state[t] = "SLEEPING" /\ sleep[t] = 0
                    THEN "RUNNABLE"
                    ELSE state[t]]

-----------------------------------------------------------------------------
(* schedule_locked *)

\* CPU c executes the task t outside the scheduler, with interrupts on.
Running(c, t) == cpc[c] = "run" /\ on[c] = t /\ t # None

TakeLock(c) == lock = None /\ lock' = c /\ cpc' = [cpc EXCEPT ![c] = "sched"]

\* The faulty variant that would release the lock as soon as it has chosen.
schedule_locked_EarlyUnlock(c) ==
    LET st   == Settled(c)
        prev == cur[c]
        from == IF InRing(prev) THEN prev ELSE ring[1]
    IN  /\ cpc[c] = "sched"
        /\ reap_list' = reap_list \ Reaped(c)
        /\ lock' = None
        /\ \/ /\ \/ prev \in pick_next(st, from, c)
                 \/ Eligible(st, c) = {} /\ st[prev] = "RUNNING"
              /\ state' = st
              /\ cpc' = [cpc EXCEPT ![c] = "run"]
              /\ UNCHANGED cur
           \/ \E pick \in pick_next(st, from, c) \ {prev} :
              /\ state' = [st EXCEPT
                   ![prev] = IF @ = "RUNNING" THEN "RUNNABLE" ELSE @,
                   ![pick] = "RUNNING"]
              /\ cur' = [cur EXCEPT ![c] = pick]
              /\ cpc' = [cpc EXCEPT ![c] = "switch"]
        /\ UNCHANGED <<ring, sleep, pending, parent, at, on>>

\* The choice of the next task, up to smp_set_current_task.
schedule_locked(c) ==
    LET st   == Settled(c)
        prev == cur[c]
        from == IF InRing(prev) THEN prev ELSE ring[1]
    IN  /\ cpc[c] = "sched"
        /\ reap_list' = reap_list \ Reaped(c)
        /\ \/ /\ \/ prev \in pick_next(st, from, c)
                 \/ Eligible(st, c) = {} /\ st[prev] = "RUNNING"
              /\ state' = st
              /\ lock' = None
              /\ cpc' = [cpc EXCEPT ![c] = "run"]
              /\ UNCHANGED cur
           \/ \E pick \in pick_next(st, from, c) \ {prev} :
              /\ state' = [st EXCEPT
                   ![prev] = IF @ = "RUNNING" THEN "RUNNABLE" ELSE @,
                   ![pick] = "RUNNING"]
              /\ cur' = [cur EXCEPT ![c] = pick]
              /\ cpc' = [cpc EXCEPT ![c] = "switch"]
              /\ UNCHANGED lock
        /\ UNCHANGED <<ring, sleep, pending, parent, at, on>>

\* ctx_switch_unlock: the stack pointer moves, then the lock is released.
ctx_switch_unlock(c) ==
    /\ cpc[c] = "switch"
    /\ on' = [on EXCEPT ![c] = cur[c]]
    /\ lock' = IF lock = c THEN None ELSE lock
    /\ cpc' = [cpc EXCEPT ![c] = "run"]
    /\ UNCHANGED <<state, ring, reap_list, sleep, pending, parent, at, cur>>

-----------------------------------------------------------------------------
(* What the running tasks and the interrupts do. *)

\* schedule, called by yield, by an idle loop, by preempt, or by a task that
\* has just stopped itself and goes on in its delivery loop when continued.
schedule(c) ==
    \E t \in Task :
    /\ Running(c, t)
    /\ TakeLock(c)
    /\ \/ UNCHANGED at
       \/ at[t] = "stopped" /\ at' = [at EXCEPT ![t] = "code"]
    /\ UNCHANGED <<state, ring, reap_list, sleep, pending, parent, cur, on>>

task_sleep_ticks(c, n) ==
    \E t \in Proc :
    /\ Running(c, t) /\ at[t] \in {"code", "dying"}
    /\ TakeLock(c)
    /\ state' = [state EXCEPT ![t] = "SLEEPING"]
    /\ sleep' = [sleep EXCEPT ![t] = n]
    /\ UNCHANGED <<ring, reap_list, pending, parent, at, cur, on>>

\* signal_queue_task: a continue cancels the stops that are pending.
Queued(set, sig) == (set \cup {sig}) \ (IF sig = "CONT" THEN {"STOP"} ELSE {})

\* task_signal_pid, once it has found the task t.
Signalled(t, sig) ==
    /\ pending' = [pending EXCEPT ![t] = Queued(@, sig)]
    /\ state' = [state EXCEPT ![t] =
          IF @ = "SLEEPING" \/ (sig = "CONT" /\ @ = "STOPPED") THEN "RUNNABLE" ELSE @]

Signallable(t) == state[t] \notin {"FREE", "ZOMBIE"}

\* The first half of task_exit, which ends with the SIGCHLD to the parent.
NotifyParent(c) ==
    \E t \in Proc :
    /\ Running(c, t) /\ at[t] \in {"code", "dying"}
    /\ lock = None
    /\ at' = [at EXCEPT ![t] = "exiting"]
    /\ \/ \E p \in Proc : parent[t] = p /\ Signallable(p) /\ Signalled(p, "CHLD")
       \/ /\ ~\E p \in Proc : parent[t] = p /\ Signallable(p)
          /\ UNCHANGED <<pending, state>>
    /\ UNCHANGED <<ring, reap_list, sleep, parent, cur, on, cpc, lock>>

\* The faulty variant that would leave the exited task in the ring.
task_exit_KeepsRing(c) ==
    \E t \in Proc :
    /\ Running(c, t) /\ at[t] = "exiting"
    /\ TakeLock(c)
    /\ state' = [state EXCEPT ![t] = "ZOMBIE"]
    /\ reap_list' = reap_list \cup {t}
    /\ UNCHANGED <<ring, sleep, pending, parent, at, cur, on>>

\* The second half, the section that ends in schedule_locked.
task_exit(c) ==
    \E t \in Proc :
    /\ Running(c, t) /\ at[t] = "exiting"
    /\ TakeLock(c)
    /\ state' = [state EXCEPT ![t] = "ZOMBIE"]
    /\ ring' = Removed(ring, t)
    /\ reap_list' = reap_list \cup {t}
    /\ UNCHANGED <<sleep, pending, parent, at, cur, on>>

\* By the task u.  A pid is never used again, so the children of the slot's
\* last task have no parent any more.
kthread_create_with_pid(c, t) ==
    \E u \in Proc \cup {Kernel} :
    /\ Running(c, u) /\ at[u] = "code"
    /\ lock = None
    /\ state[t] = "FREE"
    /\ state' = [state EXCEPT ![t] = "RUNNABLE"]
    /\ ring' = Inserted(ring, t)
    /\ pending' = [pending EXCEPT ![t] = {}]
    /\ parent' = [s \in Task |-> IF s = t THEN IF u \in Proc THEN u ELSE None
                                ELSE IF parent[s] = t THEN None ELSE parent[s]]
    /\ at' = [at EXCEPT ![t] = "code"]
    /\ sleep' = [sleep EXCEPT ![t] = 0]
    /\ UNCHANGED <<reap_list, cur, on, cpc, lock>>

task_signal_pid(c, t, sig) ==
    /\ \E u \in Proc : Running(c, u) /\ at[u] = "code"
    /\ lock = None
    /\ Signallable(t)
    /\ Signalled(t, sig)
    /\ UNCHANGED <<ring, reap_list, sleep, parent, at, cur, on, cpc, lock>>

\* next_pending: the pending signal with the lowest number.
Number == [KILL |-> 9, CHLD |-> 17, CONT |-> 18, STOP |-> 19]
next_pending(t) ==
    {sig \in pending[t] : \A other \in pending[t] : Number[sig] <= Number[other]}

\* One round of signal_deliver_pending, with the default actions: SIGCHLD and
\* SIGCONT are ignored, SIGKILL leads to task_exit, SIGSTOP to the store below.
signal_deliver_pending(c) ==
    \E t \in Proc : \E sig \in next_pending(t) :
    /\ Running(c, t) /\ at[t] = "code"
    /\ pending' = [pending EXCEPT ![t] = @ \ {sig}]
    /\ at' = [at EXCEPT ![t] = IF sig = "KILL" THEN "dying"
                               ELSE IF sig = "STOP" THEN "stop" ELSE @]
    /\ UNCHANGED <<state, ring, reap_list, sleep, parent, cur, on, cpc, lock>>

\* t->state = TASK_STOPPED, which takes no lock.
StoreStopped(c) ==
    \E t \in Proc :
    /\ Running(c, t) /\ at[t] = "stop"
    /\ state' = [state EXCEPT ![t] = "STOPPED"]
    /\ at' = [at EXCEPT ![t] = "stopped"]
    /\ UNCHANGED <<ring, reap_list, sleep, pending, parent, cur, on, cpc, lock>>

\* The faulty variant that would count below zero.
timer_irq_Underflow ==
    /\ cpc[Boot] = "run"
    /\ TickInWindow \/ lock = None
    /\ sleep' = [t \in Task |-> IF state[t] = "SLEEPING" THEN sleep[t] - 1 ELSE 0]
    /\ sleep' # sleep
    /\ UNCHANGED <<state, ring, reap_list, pending, parent, at, cur, on, cpc, lock>>

\* timer_irq on the boot CPU, which takes no lock either.
timer_irq ==
    /\ cpc[Boot] = "run"
    /\ TickInWindow \/ lock = None
    /\ sleep' = [t \in Task |-> IF sleep[t] > 0 THEN sleep[t] - 1 ELSE 0]
    /\ sleep' # sleep
    /\ UNCHANGED <<state, ring, reap_list, pending, parent, at, cur, on, cpc, lock>>

\* The faulty variant that would make the idle task like any new task.
proc_prepare_cpu_Runnable(c) ==
    /\ Running(Boot, Kernel)
    /\ lock = None
    /\ state[c] = "FREE"
    /\ state' = [state EXCEPT ![c] = "RUNNABLE"]
    /\ ring' = Inserted(ring, c)
    /\ UNCHANGED <<reap_list, sleep, pending, parent, at, cur, on, cpc, lock>>

\* proc_prepare_cpu, by the boot task: the idle task is RUNNING in the ring
\* before its CPU executes it, so that no other CPU may take it.
proc_prepare_cpu(c) ==
    /\ Running(Boot, Kernel)
    /\ lock = None
    /\ state[c] = "FREE"
    /\ state' = [state EXCEPT ![c] = "RUNNING"]
    /\ ring' = Inserted(ring, c)
    /\ UNCHANGED <<reap_list, sleep, pending, parent, at, cur, on, cpc, lock>>

\* The trampoline has put the CPU on that stack; smp_ap_main publishes it.
smp_ap_main(c) ==
    /\ cur[c] = None /\ state[c] # "FREE"
    /\ cur' = [cur EXCEPT ![c] = c]
    /\ on' = [on EXCEPT ![c] = c]
    /\ UNCHANGED <<state, ring, reap_list, sleep, pending, parent, at, cpc, lock>>

\* proc_init: the boot task runs, and its CPU's idle task waits in the ring.
Init ==
    /\ state = [t \in Task |-> IF t = Kernel THEN "RUNNING"
                               ELSE IF t = Boot THEN "RUNNABLE" ELSE "FREE"]
    /\ ring = <<Kernel, Boot>>
    /\ reap_list = {}
    /\ sleep = [t \in Task |-> 0]
    /\ pending = [t \in Task |-> {}]
    /\ parent = [t \in Task |-> None]
    /\ at = [t \in Task |-> "code"]
    /\ cur = [c \in CPU |-> IF c = Boot THEN Kernel ELSE None]
    /\ on = cur
    /\ cpc = [c \in CPU |-> "run"]
    /\ lock = None

Next ==
    \/ \E c \in CPU :
       \/ schedule(c) \/ schedule_locked(c) \/ ctx_switch_unlock(c)
       \/ NotifyParent(c) \/ task_exit(c)
       \/ signal_deliver_pending(c) \/ StoreStopped(c)
       \/ \E n \in 1..MaxSleep : task_sleep_ticks(c, n)
       \/ \E t \in Proc : kthread_create_with_pid(c, t)
       \/ \E t \in Proc, sig \in Signals : task_signal_pid(c, t, sig)
    \/ \E c \in CPU \ {Boot} : proc_prepare_cpu(c) \/ smp_ap_main(c)
    \/ timer_irq

Spec == Init /\ [][Next]_vars

\* A CPU in the scheduler goes on (interrupts are off and the lock is held);
\* the timer preempts whatever runs and stays latched while it is masked; a
\* CPU that spins on sched_lock gets it in the end.
FairSpec ==
    /\ Spec
    /\ SF_vars(timer_irq)
    /\ \A c \in CPU : /\ SF_vars(schedule(c))
                      /\ WF_vars(schedule_locked(c))
                      /\ WF_vars(ctx_switch_unlock(c))

-----------------------------------------------------------------------------
(* Properties. *)

TypeOK ==
    /\ state \in [Task -> TaskState]
    /\ ring \in Seq(Task)
    /\ reap_list \subseteq Task
    /\ sleep \in [Task -> 0..MaxSleep]
    /\ pending \in [Task -> SUBSET (Signals \cup {"CHLD"})]
    /\ parent \in [Task -> Proc \cup {None}]
    /\ at \in [Task -> {"code", "dying", "stop", "stopped", "exiting"}]
    /\ cur \in [CPU -> Task \cup {None}]
    /\ on \in [CPU -> Task \cup {None}]
    /\ cpc \in [CPU -> {"run", "sched", "switch"}]
    /\ lock \in CPU \cup {None}

\* No two CPUs execute on one kernel stack, and none selects a task that
\* another executes.
OneStack ==
    \A c, d \in CPU : c # d /\ on[c] # None => on[c] # on[d] /\ cur[d] # on[c]

\* reap_locked never frees the task or the stack a CPU still uses.
NotFreed ==
    \A c \in CPU : on[c] # None => state[on[c]] # "FREE" /\ state[cur[c]] # "FREE"

\* The run ring holds every live task once, and no exited one: pick_next sees
\* all of them, and runq_remove always finds the task it looks for.
RingExact ==
    /\ \A t \in Task : InRing(t) <=> state[t] \notin {"FREE", "ZOMBIE"}
    /\ \A i, j \in 1..Len(ring) : ring[i] = ring[j] => i = j

\* schedule_locked always finds a task for its CPU ("nothing runnable" is a
\* panic).
NoPanic ==
    \A c \in CPU : cpc[c] = "sched" =>
        Eligible(Settled(c), c) # {} \/ Settled(c)[cur[c]] = "RUNNING"

\* A task that stays stopped has not been sent a SIGCONT since.
ContinueWakes == \A t \in Proc : state[t] = "STOPPED" => "CONT" \notin pending[t]

\* Once no task exits any more, every task that waits for a CPU or for the
\* clock executes again: one round of the ring, whichever CPU walks it.
TurnComes ==
    <>[][\A c \in CPU : ~task_exit(c)]_vars =>
        \A t \in Proc : state[t] \in {"RUNNABLE", "SLEEPING"} ~> state[t] = "RUNNING"
=============================================================================
