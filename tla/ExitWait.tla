------------------------------ MODULE ExitWait ------------------------------
(***************************************************************************)
(* How a parent learns of an exit: the exit ring, SYS_WAITPID and          *)
(* SYS_WAITANY of kernel/uproc.c over the task list of kernel/proc.c, and  *)
(* the supervisor's own test for a dead child in apps/init.c.              *)
(*                                                                         *)
(* One process, init, waits; the others are created, record their exit     *)
(* code, become zombies and are unlinked by a later schedule on any CPU.   *)
(* Each critical section of exit_lock or sched_lock is one step.           *)
(***************************************************************************)
EXTENDS Naturals, Sequences, FiniteSets, SequencesExt

CONSTANTS
    MaxPid,      \* init has pid 1; pids up to MaxPid are given out, once each
    EXIT_RING,   \* records the ring holds
    MaxChildren, \* child_pids[] of uproc_waitany
    Code         \* exit codes

ASSUME SizeAssumption == MaxPid \in Nat \ {0, 1} /\ EXIT_RING \in Nat \ {0}
                           /\ MaxChildren \in Nat \ {0}

Init1 == 1
Pid == 2..MaxPid

VARIABLES
    all_tasks,  \* the task list, newest first
    phase,      \* what a process has done: see Phase
    children,   \* the pids whose parent_pid is init's
    exit_ring,  \* the last exits: a record, or Empty
    exit_head,
    pc,         \* where init is: see Place
    target,     \* the pid it asks about
    rest,       \* uproc_waitany: the children still to look up
    index,      \* pid_alive: the next SYS_PSINFO index
    polled,     \* whether this waitpid follows pid_alive
    ret,        \* what the last call returned
    log         \* history: every exit recorded so far, in order

procVars == <<all_tasks, phase, children, exit_ring, exit_head, log>>
callVars == <<target, rest, index, polled>>
vars == <<procVars, callVars, pc, ret>>

Empty == [pid |-> 0, code |-> 0]
Record == [pid : Pid, code : Code]
Phase == {"unborn", "live", "exiting", "zombie", "gone"}
Place == {"user", "lookup", "exists", "again", "sleep", "children", "scan", "napping", "psinfo"}
Nothing == [op |-> "none", pid |-> 0, found |-> FALSE, code |-> 0]

-----------------------------------------------------------------------------
(* The processes. *)

\* kthread_create_with_pid: by init, or by a process that is not its own.
kthread_create_with_pid(p) ==
    /\ phase[p] = "unborn" /\ \A q \in Pid : q < p => phase[q] # "unborn"
    /\ phase' = [phase EXCEPT ![p] = "live"]
    /\ all_tasks' = <<p>> \o all_tasks
    /\ \/ pc = "user" /\ children' = children \cup {p}
       \/ (\E q \in Pid : phase[q] = "live") /\ UNCHANGED children
    /\ UNCHANGED <<exit_ring, exit_head, log, callVars, pc, ret>>

\* The faulty variant that would not wrap the head.
uproc_record_exit_NoWrap(p, code) ==
    /\ phase[p] = "live"
    /\ phase' = [phase EXCEPT ![p] = "exiting"]
    /\ exit_ring' = [exit_ring EXCEPT ![exit_head] = [pid |-> p, code |-> code]]
    /\ exit_head' = exit_head + 1
    /\ log' = Append(log, [pid |-> p, code |-> code])
    /\ UNCHANGED <<all_tasks, children, callVars, pc, ret>>

\* Called by every path that leads to task_exit, just before it.
uproc_record_exit(p, code) ==
    /\ phase[p] = "live"
    /\ phase' = [phase EXCEPT ![p] = "exiting"]
    /\ exit_ring' = [exit_ring EXCEPT ![exit_head] = [pid |-> p, code |-> code]]
    /\ exit_head' = (exit_head + 1) % EXIT_RING
    /\ log' = Append(log, [pid |-> p, code |-> code])
    /\ UNCHANGED <<all_tasks, children, callVars, pc, ret>>

task_exit(p) ==
    /\ phase[p] = "exiting"
    /\ phase' = [phase EXCEPT ![p] = "zombie"]
    /\ UNCHANGED <<all_tasks, children, exit_ring, exit_head, log, callVars, pc, ret>>

\* reap_locked and all_tasks_remove, on whichever CPU schedules next.
reap_locked(p) ==
    /\ phase[p] = "zombie"
    /\ phase' = [phase EXCEPT ![p] = "gone"]
    /\ all_tasks' = SelectSeq(all_tasks, LAMBDA q : q # p)
    /\ UNCHANGED <<children, exit_ring, exit_head, log, callVars, pc, ret>>

-----------------------------------------------------------------------------
(* What init's calls read. *)

exit_lookup(p) == {i \in 0..(EXIT_RING - 1) : exit_ring[i].pid = p /\ p > 0}

task_exists(p) == \E i \in 1..Len(all_tasks) : all_tasks[i] = p

\* The faulty variant that would list every task.
task_child_pids_All ==
    LET kids == SelectSeq(all_tasks, LAMBDA q : q # Init1)
    IN  SubSeq(kids, 1, IF Len(kids) < MaxChildren THEN Len(kids) ELSE MaxChildren)

task_child_pids ==
    LET kids == SelectSeq(all_tasks, LAMBDA q : q \in children)
    IN  SubSeq(kids, 1, IF Len(kids) < MaxChildren THEN Len(kids) ELSE MaxChildren)

\* The call returns to init's code, with the code of the first record of p.
Found(op, p) ==
    /\ exit_lookup(p) # {}
    /\ LET i == CHOOSE i \in exit_lookup(p) : \A j \in exit_lookup(p) : i <= j
       IN  ret' = [op |-> op, pid |-> p, found |-> TRUE, code |-> exit_ring[i].code]
    /\ pc' = "user"

\* It returns -1.
Failed(op, p) ==
    /\ ret' = [op |-> op, pid |-> p, found |-> FALSE, code |-> 0]
    /\ pc' = "user"

-----------------------------------------------------------------------------
(* uproc_waitpid *)

WaitpidCall(p) ==
    /\ pc = "user" /\ phase[p] # "unborn"
    /\ pc' = "lookup" /\ target' = p /\ polled' = FALSE
    /\ rest' = <<>> /\ index' = 0 /\ ret' = Nothing
    /\ UNCHANGED procVars

WaitpidLookup ==
    /\ pc = "lookup"
    /\ \/ Found("waitpid", target)
       \/ exit_lookup(target) = {} /\ pc' = "exists" /\ UNCHANGED ret
    /\ UNCHANGED <<procVars, callVars>>

\* The faulty variants of a process that is not on the list: one fails without
\* a second look at the ring, the other goes on waiting for its record.
WaitpidExists_OneLookup ==
    /\ pc = "exists"
    /\ \/ task_exists(target) /\ pc' = "sleep" /\ UNCHANGED ret
       \/ ~task_exists(target) /\ Failed("waitpid", target)
    /\ UNCHANGED <<procVars, callVars>>
WaitpidExists_KeepsWaiting ==
    /\ pc = "exists"
    /\ pc' = "sleep"
    /\ UNCHANGED <<procVars, callVars, ret>>

WaitpidExists ==
    /\ pc = "exists"
    /\ pc' = IF task_exists(target) THEN "sleep" ELSE "again"
    /\ UNCHANGED <<procVars, callVars, ret>>

WaitpidAgain ==
    /\ pc = "again"
    /\ \/ Found("waitpid", target)
       \/ exit_lookup(target) = {} /\ Failed("waitpid", target)
    /\ UNCHANGED <<procVars, callVars>>

WaitpidSleep ==
    /\ pc = "sleep" /\ pc' = "lookup"
    /\ UNCHANGED <<procVars, callVars, ret>>

-----------------------------------------------------------------------------
(* uproc_waitany *)

WaitanyCall ==
    /\ pc = "user"
    /\ pc' = "children" /\ target' = 0 /\ polled' = FALSE
    /\ rest' = <<>> /\ index' = 0 /\ ret' = Nothing
    /\ UNCHANGED procVars

WaitanyChildren ==
    /\ pc = "children"
    /\ rest' = task_child_pids
    /\ \/ rest' = <<>> /\ Failed("waitany", 0)
       \/ rest' # <<>> /\ pc' = "scan" /\ UNCHANGED ret
    /\ UNCHANGED <<procVars, target, index, polled>>

WaitanyScan ==
    /\ pc = "scan" /\ rest # <<>>
    /\ rest' = Tail(rest)
    /\ \/ Found("waitany", Head(rest))
       \/ /\ exit_lookup(Head(rest)) = {}
          /\ pc' = IF rest' = <<>> THEN "napping" ELSE "scan"
          /\ UNCHANGED ret
    /\ UNCHANGED <<procVars, target, index, polled>>

WaitanySleep ==
    /\ pc = "napping" /\ pc' = "children"
    /\ UNCHANGED <<procVars, callVars, ret>>

-----------------------------------------------------------------------------
(* reap_children in apps/init.c: pid_alive asks for one index at a time, and *)
(* a child it does not find, or finds a zombie, is collected with waitpid.   *)

PollCall(p) ==
    /\ pc = "user" /\ p \in children
    /\ pc' = "psinfo" /\ target' = p /\ polled' = TRUE
    /\ rest' = <<>> /\ index' = 0 /\ ret' = Nothing
    /\ UNCHANGED procVars

pid_alive ==
    /\ pc = "psinfo"
    /\ LET listed == index < Len(all_tasks)
           here == listed /\ all_tasks[index + 1] = target
       IN  \/ ~listed /\ pc' = "lookup" /\ index' = index
           \/ here /\ index' = index
                /\ pc' = IF phase[target] = "zombie" THEN "lookup" ELSE "user"
           \/ listed /\ ~here /\ index' = index + 1 /\ pc' = pc
    /\ UNCHANGED <<procVars, target, rest, polled, ret>>

-----------------------------------------------------------------------------
Init ==
    /\ all_tasks = <<Init1>>
    /\ phase = [p \in Pid |-> "unborn"]
    /\ children = {}
    /\ exit_ring = [i \in 0..(EXIT_RING - 1) |-> Empty]
    /\ exit_head = 0
    /\ log = <<>>
    /\ pc = "user" /\ target = 0 /\ rest = <<>> /\ index = 0 /\ polled = FALSE
    /\ ret = Nothing

Step(p) == task_exit(p) \/ reap_locked(p)

Call == \/ WaitpidLookup \/ WaitpidExists \/ WaitpidAgain \/ WaitpidSleep
        \/ WaitanyChildren \/ WaitanyScan \/ WaitanySleep \/ pid_alive

Next ==
    \/ \E p \in Pid : \/ kthread_create_with_pid(p) \/ Step(p)
                      \/ \E code \in Code : uproc_record_exit(p, code)
                      \/ WaitpidCall(p) \/ PollCall(p)
    \/ WaitanyCall
    \/ Call

Spec == Init /\ [][Next]_vars

\* The scheduler runs init and the exiting processes again and again, and
\* reaps at every pass.
FairSpec == Spec /\ WF_vars(Call) /\ \A p \in Pid : WF_vars(Step(p))

-----------------------------------------------------------------------------
(* Properties. *)

TypeOK ==
    /\ all_tasks \in Seq(1..MaxPid)
    /\ phase \in [Pid -> Phase]
    /\ children \subseteq Pid
    /\ exit_ring \in [0..(EXIT_RING - 1) -> Record \cup {Empty}]
    /\ exit_head \in 0..(EXIT_RING - 1)
    /\ pc \in Place
    /\ target \in 0..MaxPid
    /\ rest \in Seq(Pid)
    /\ index \in Nat
    /\ polled \in BOOLEAN
    /\ log \in Seq(Record)

\* The record of p has been overwritten: EXIT_RING more exits followed it.
Overwritten(p) == \E i \in 1..Len(log) : log[i].pid = p /\ Len(log) >= i + EXIT_RING

\* uproc_waitpid never loses an exit to the race with the exiting process and
\* the CPU that reaps it: it returns the recorded code, and fails only for a
\* process whose record the ring no longer holds.
WaitpidExact ==
    ret.op = "waitpid" =>
        IF ret.found THEN \E i \in 1..Len(log) : log[i] = [pid |-> ret.pid, code |-> ret.code]
        ELSE Overwritten(ret.pid)

\* uproc_waitany reports only exits, with their codes, and only of children.
WaitanyExact ==
    ret.op = "waitany" /\ ret.found =>
        /\ ret.pid \in children
        /\ \E i \in 1..Len(log) : log[i] = [pid |-> ret.pid, code |-> ret.code]

\* A waitpid for a process that has begun to exit returns.
WaitpidReturns ==
    \A p \in Pid :
        (pc \in {"lookup", "exists", "again", "sleep"} /\ target = p
            /\ phase[p] \in {"exiting", "zombie", "gone"})
        ~> pc = "user"

\* The supervisor, which must go on polling, calls waitpid only for a child
\* that has exited: it never blocks there.
PollNeverBlocks ==
    polled /\ pc \in {"lookup", "exists", "again", "sleep"} => phase[target] # "live"
=============================================================================
