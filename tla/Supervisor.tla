----------------------------- MODULE Supervisor -----------------------------
(***************************************************************************)
(* The service supervisor, pid 1: the unit table and the poll loop of      *)
(* apps/init.c.  init is one thread; its children, which exit or publish   *)
(* their readiness at any moment, and the operator, who files one control  *)
(* command at a time or a shutdown request, are the other actors.          *)
(*                                                                         *)
(* unit_start and ensure_requirements call each other and may block in the *)
(* readiness wait, so their activations are a stack.  Times are counted in *)
(* polls, and an age is not counted beyond the last value a test tells     *)
(* apart.                                                                  *)
(***************************************************************************)
EXTENDS Naturals, Sequences, FiniteSets, SequencesExt

CONSTANTS
    N,            \* units are 1..N, in the order of the unit table
    Requires,     \* requires= of a unit, a sequence of units
    Ready,        \* the units with a ready= marker, which their program makes
    Policy,       \* restart= of a unit
    BootDisabled, \* the units with enabled=no
    Loads,        \* how the files load at boot: subset of {"ok", "no exec", "bad ready"}
    Edits,        \* what the file of a unit may say when it is reloaded
    Order,        \* the start order of order_services, all the units
    Stubborn,     \* the units whose program survives SIGTERM
    Verb,         \* what the operator asks for: control verbs, "shutdown"
    WriteFails,   \* {TRUE} when a write of the state file may fail, else {}
    WalkMisses,   \* {TRUE} when pid_alive may miss a child that is alive, else {}
    Pid,          \* process slots, numbers above 0
    Code,         \* exit codes; 0 is success
    FAIL_MAX, FAIL_WINDOW, SETTLED,
    backoff_ms    \* the restart delays, by backoff index

Unit == 1..N

ASSUME UnitAssumption ==
    /\ N \in Nat \ {0} /\ Ready \subseteq Unit /\ Stubborn \subseteq Unit
    /\ BootDisabled \subseteq Unit /\ "ok" \in Loads
    /\ \A u \in Unit : Policy[u] \in {"never", "on-failure", "always"}
    /\ Len(Order) = N
    /\ \A u \in Unit : \E m \in 1..N :
       /\ Order[m] = u
       /\ \A k \in 1..Len(Requires[u]) : \E l \in 1..(m - 1) : Order[l] = Requires[u][k]
ASSUME BoundAssumption ==
    /\ {FAIL_MAX, FAIL_WINDOW, SETTLED} \subseteq Nat \ {0}
    /\ Len(backoff_ms) > 0 /\ \A k \in 1..Len(backoff_ms) : backoff_ms[k] \in Nat
    /\ Pid \subseteq Nat \ {0} /\ 0 \in Code

VARIABLES
    unit,       \* the unit table
    proc,       \* the children: owner, whether alive, exit code, SIGTERM sent
    marker,     \* the units whose readiness marker exists
    pc,         \* where the poll loop is
    i,          \* the place its loop over the table is at
    due,        \* the units whose delay is over as run_backoff reads the clock
    stack,      \* activations of unit_start, innermost first
    cmd,        \* /run/init.cmd
    request,    \* whether /run/shutdown holds a request
    published,  \* /run/services.state
    state_dirty,
    ack         \* the command acknowledged last

vars == <<unit, proc, marker, pc, i, due, stack, cmd, request, published, state_dirty, ack>>

State == {"stopped", "starting", "running", "waiting", "exited", "failed", "disabled"}
Active == {"starting", "running"}
NoCmd == [verb |-> "none", u |-> 0]
NoProc == [u |-> 0, live |-> FALSE, code |-> 0, termed |-> FALSE]
Closed == FAIL_WINDOW + 1    \* the age of a window that counts nothing

\* What a reload takes from the file.
Config(u) == [requires |-> Requires[u], ready |-> u \in Ready, respawn |-> Policy[u]]

\* svc_load and unit_alloc, load being how the file loads: without exec= there
\* is nothing to run until a reload finds it, and in both bad cases the unit
\* has failed from the start.
Fresh(u, load) ==
    [state |-> IF load # "ok" THEN "failed" ELSE IF u \in BootDisabled THEN "disabled" ELSE "stopped",
     enabled |-> u \notin BootDisabled, pid |-> 0, stopping |-> FALSE,
     restart_pending |-> FALSE, dependency_failed |-> FALSE, fails |-> 0,
     win |-> Closed, backoff |-> 1, wait |-> 0, up |-> 0, code |-> 0,
     respawn |-> Policy[u], requires |-> Requires[u], ready |-> u \in Ready,
     exec |-> load # "no exec", seq |-> 0]

Snapshot(us) == [u \in Unit |-> [state |-> us[u].state, pid |-> us[u].pid, code |-> us[u].code]]

\* The snapshot of the table as the step leaves it is written, or the write fails.
state_write ==
    \/ published' = Snapshot(unit') /\ state_dirty' = FALSE
    \/ TRUE \in WriteFails /\ published' = published /\ state_dirty' = TRUE

Dead(p) == p > 0 /\ ~proc[p].live

\* SYS_KILL with SIGTERM, as in unit_stop.
Termed(ps, p) == IF p > 0 THEN [ps EXCEPT ![p].termed = TRUE] ELSE ps

-----------------------------------------------------------------------------
(* unit_start and ensure_requirements *)

requirement_satisfied(us, d) ==
    \/ us[d].state = "running"
    \/ us[d].state = "exited" /\ us[d].code = 0 /\ us[d].respawn = "never"

\* Entry to unit_start: the table and the stack after its early returns.
unit_start(us, st, u) ==
    IF us[u].state \in Active THEN [unit |-> us, stack |-> st]
    ELSE IF \E k \in 1..Len(st) : st[k].u = u
    THEN [unit |-> [us EXCEPT ![u].state = "failed"], stack |-> st]
    ELSE [unit |-> us, stack |-> <<[u |-> u, deps |-> us[u].requires, at |-> "requires"]>> \o st]

Top == Head(stack)
Pop == Tail(stack)
Goto(place) == <<[Top EXCEPT !.at = place]>> \o Pop

\* The faulty variant that would pull in a requirement that has failed.
ensure_requirements_PullsFailed ==
    /\ stack # <<>> /\ Top.at \in {"requires", "tried"} /\ Top.deps # <<>>
    /\ LET u == Top.u
           d == Head(Top.deps)
           us == IF unit[d].state = "disabled" THEN [unit EXCEPT ![d].enabled = TRUE] ELSE unit
           call == unit_start(us, Goto("tried"), d)
       IN  \/ /\ requirement_satisfied(unit, d)
              /\ stack' = <<[Top EXCEPT !.deps = Tail(@), !.at = "requires"]>> \o Pop
              /\ UNCHANGED <<unit, state_dirty>>
           \/ /\ ~requirement_satisfied(unit, d) /\ Top.at = "tried"
              /\ unit' = [unit EXCEPT ![u].state = "failed"]
              /\ stack' = Pop /\ state_dirty' = TRUE
           \/ /\ ~requirement_satisfied(unit, d)
              /\ Top.at = "requires"
              /\ unit' = call.unit /\ stack' = call.stack /\ state_dirty' = TRUE
    /\ UNCHANGED <<proc, marker, pc, i, due, cmd, request, published, ack>>

\* One requirement of the innermost unit: it is ready, or it is started once,
\* or the unit fails.
ensure_requirements ==
    /\ stack # <<>> /\ Top.at \in {"requires", "tried"} /\ Top.deps # <<>>
    /\ LET u == Top.u
           d == Head(Top.deps)
           us == IF unit[d].state = "disabled" THEN [unit EXCEPT ![d].enabled = TRUE] ELSE unit
           call == unit_start(us, Goto("tried"), d)
           bad == unit[d].state = "failed" \/ Top.at = "tried"
       IN  \/ /\ requirement_satisfied(unit, d)
              /\ stack' = <<[Top EXCEPT !.deps = Tail(@), !.at = "requires"]>> \o Pop
              /\ UNCHANGED <<unit, state_dirty>>
           \/ /\ ~requirement_satisfied(unit, d) /\ bad
              /\ unit' = [unit EXCEPT ![u].state = "failed"]
              /\ stack' = Pop /\ state_dirty' = TRUE
           \/ /\ ~requirement_satisfied(unit, d) /\ ~bad
              /\ unit' = call.unit /\ stack' = call.stack
              /\ state_dirty' = (state_dirty \/ call.unit # us)
    /\ UNCHANGED <<proc, marker, pc, i, due, cmd, request, published, ack>>

\* unit_spawn up to the readiness wait.  The program is there or not; the old
\* marker goes before the spawn, which then succeeds or not.
unit_spawn(there, spawned) ==
    /\ stack # <<>> /\ Top.at \in {"requires", "tried"} /\ Top.deps = <<>>
    /\ LET u == Top.u
           cleared == [unit[u] EXCEPT !.wait = 0, !.stopping = FALSE,
                          !.restart_pending = FALSE, !.dependency_failed = FALSE]
           next == 1 + Cardinality({v \in Unit : unit[v].seq > 0})
           tries == cleared.enabled /\ cleared.exec /\ there
       IN  /\ marker' = IF tries /\ cleared.ready THEN marker \ {u} ELSE marker
           /\ \/ /\ ~(tries /\ spawned)
                 /\ unit' = [unit EXCEPT ![u] =
                       [cleared EXCEPT !.state = IF cleared.enabled THEN "failed" ELSE "disabled"]]
                 /\ stack' = Pop /\ state_dirty' = TRUE
                 /\ UNCHANGED <<proc, published>>
              \/ /\ tries /\ spawned
                 /\ \E p \in Pid :
                    /\ proc[p] = NoProc /\ \A q \in Pid : proc[q] = NoProc => p <= q
                    /\ proc' = [proc EXCEPT ![p] = [NoProc EXCEPT !.u = u, !.live = TRUE]]
                    /\ unit' = [unit EXCEPT ![u] = [cleared EXCEPT
                          !.pid = p, !.up = 0, !.seq = IF @ = 0 THEN next ELSE @,
                          !.state = IF cleared.ready THEN "starting" ELSE "running"]]
                 /\ \/ cleared.ready /\ stack' = Goto("ready") /\ state_write
                    \/ ~cleared.ready /\ stack' = Pop /\ state_dirty' = TRUE /\ UNCHANGED published
    /\ UNCHANGED <<pc, i, due, cmd, request, ack>>

\* waitpid: what the dead child of u returned, and its record is collected.
Collected(ps, p) == [ps EXCEPT ![p] = NoProc]

\* The child is found dead: the start has failed.  The marker was looked for
\* before the child was, so it may have appeared since.
ReadyFails ==
    /\ stack # <<>> /\ Top.at \in {"ready", "killed"}
    /\ LET u == Top.u
           p == unit[u].pid
       IN  /\ Dead(p)
           /\ unit' = [unit EXCEPT ![u].state = "failed", ![u].pid = 0, ![u].code = proc[p].code]
           /\ proc' = Collected(proc, p)
    /\ stack' = Pop /\ state_dirty' = TRUE
    /\ UNCHANGED <<marker, pc, i, due, cmd, request, published, ack>>

ReadySeen ==
    /\ stack # <<>> /\ Top.at = "ready" /\ Top.u \in marker
    /\ unit' = [unit EXCEPT ![Top.u].state = "running"]
    /\ stack' = Pop /\ state_dirty' = TRUE
    /\ UNCHANGED <<proc, marker, pc, i, due, cmd, request, published, ack>>

\* pid_alive walks the task list one index per system call, and misses the
\* child when an entry before it is unlinked meanwhile: waitpid then blocks.
ReadyMissed ==
    /\ stack # <<>> /\ Top.at = "ready" /\ TRUE \in WalkMisses
    /\ stack' = Goto("killed")
    /\ UNCHANGED <<unit, proc, marker, pc, i, due, cmd, request, published, state_dirty, ack>>

\* The faulty variant that would extend the deadline for ever.
ReadyTimeout_Never ==
    /\ stack # <<>> /\ Top.at = "ready" /\ UNCHANGED vars

\* The faulty variant that would not wait for the child it has signalled.
ReadyTimeout_NoWait ==
    /\ stack # <<>> /\ Top.at = "ready"
    /\ proc' = Termed(proc, unit[Top.u].pid)
    /\ unit' = [unit EXCEPT ![Top.u].pid = 0, ![Top.u].state = "failed"]
    /\ stack' = Pop /\ state_dirty' = TRUE
    /\ UNCHANGED <<marker, pc, i, due, cmd, request, published, ack>>

\* The deadline, the marker last looked for a poll ago: SIGTERM, and then
\* waitpid, however long that takes.
ReadyTimeout ==
    /\ stack # <<>> /\ Top.at = "ready"
    /\ proc' = Termed(proc, unit[Top.u].pid)
    /\ stack' = Goto("killed")
    /\ UNCHANGED <<unit, marker, pc, i, due, cmd, request, published, state_dirty, ack>>

-----------------------------------------------------------------------------
(* unit_died *)

\* The faulty variant that would count the crashes and never give up.
Buried_NoLimit(r, code) ==
    [r EXCEPT !.pid = 0, !.code = code, !.wait = 0,
        !.state = IF r.stopping THEN "stopped" ELSE "waiting", !.stopping = FALSE,
        !.fails = IF r.win > FAIL_WINDOW THEN 1 ELSE @ + 1,
        !.win = IF r.win > FAIL_WINDOW THEN 0 ELSE @]

\* The unit's record after the death of its child, restart_pending aside.
Buried(r, code) ==
    LET d == [r EXCEPT !.pid = 0, !.code = code]
        again == r.win > FAIL_WINDOW
        fails == IF again THEN 1 ELSE r.fails + 1
        level == IF again THEN 1 ELSE r.backoff
    IN
    IF r.stopping THEN
        [d EXCEPT !.stopping = FALSE, !.dependency_failed = FALSE,
            !.state = IF r.dependency_failed THEN "failed"
                      ELSE IF r.enabled THEN "stopped" ELSE "disabled"]
    ELSE IF r.respawn = "never" \/ (r.respawn = "on-failure" /\ code = 0) \/ ~r.enabled THEN
        [d EXCEPT !.state = IF r.enabled THEN "exited" ELSE "disabled"]
    ELSE IF code = 0 /\ r.up >= SETTLED THEN
        [d EXCEPT !.state = "waiting", !.wait = 0]
    ELSE IF fails >= FAIL_MAX THEN
        [d EXCEPT !.state = "failed", !.fails = fails, !.backoff = level,
            !.win = IF again THEN 0 ELSE @]
    ELSE
        [d EXCEPT !.state = "waiting", !.fails = fails, !.win = IF again THEN 0 ELSE @,
            !.wait = backoff_ms[level],
            !.backoff = IF level < Len(backoff_ms) THEN level + 1 ELSE level]

\* The counters an operator's start, restart or reset clears.
Forgiven(r) == [r EXCEPT !.fails = 0, !.backoff = 1, !.win = Closed]

\* The units whose child reap_children looks for, and those it finds dead.
Watched(u) == (unit[u].state \in Active \/ unit[u].stopping) /\ unit[u].pid > 0
Collectable(u) == Watched(u) /\ Dead(unit[u].pid)

\* The faulty variant that would not mark the table as changed.
unit_died_Quietly(u) ==
    LET p == unit[u].pid IN
    /\ Collectable(u)
    /\ proc' = Collected(proc, p)
    /\ marker' = IF unit[u].ready THEN marker \ {u} ELSE marker
    /\ unit' = [unit EXCEPT ![u] = Buried(@, proc[p].code)]
    /\ UNCHANGED <<stack, state_dirty>>

unit_died(u) ==
    LET p == unit[u].pid
        cleared == [Forgiven(unit[u]) EXCEPT !.pid = 0, !.code = proc[p].code,
                       !.restart_pending = FALSE, !.stopping = FALSE, !.state = "stopped"]
        call == unit_start([unit EXCEPT ![u] = cleared], <<>>, u)
    IN
    /\ Collectable(u)
    /\ proc' = Collected(proc, p)
    /\ marker' = IF unit[u].ready THEN marker \ {u} ELSE marker
    /\ state_dirty' = TRUE
    /\ \/ unit[u].restart_pending /\ unit' = call.unit /\ stack' = call.stack
       \/ /\ ~unit[u].restart_pending
          /\ unit' = [unit EXCEPT ![u] = Buried(@, proc[p].code)]
          /\ UNCHANGED stack

-----------------------------------------------------------------------------
(* The poll loop.  A phase acts while no unit_start is in progress. *)

At(place) == pc = place /\ stack = <<>>

\* The next unit of a loop over the table, or the phase after it.
Advance(place, after) ==
    IF i < N THEN i' = i + 1 /\ pc' = place ELSE i' = 1 /\ pc' = after

\* start_all, after order_services: the units are numbered in that order.
start_all ==
    /\ At("boot")
    /\ LET call == unit_start(unit, <<>>, Order[i]) IN
       \/ unit[Order[i]].state = "failed" /\ UNCHANGED <<unit, stack>>
       \/ unit[Order[i]].state # "failed" /\ unit' = call.unit /\ stack' = call.stack
    /\ Advance("boot", "booted")
    /\ UNCHANGED <<proc, marker, due, cmd, request, published, state_dirty, ack>>

FirstSnapshot ==
    /\ At("booted")
    /\ UNCHANGED unit /\ state_write
    /\ pc' = "reap"
    /\ UNCHANGED <<proc, marker, i, due, stack, cmd, request, ack>>

reap_children ==
    /\ At("reap")
    /\ \/ unit_died(i)
       \/ ~Collectable(i) /\ UNCHANGED <<unit, proc, marker, stack, state_dirty>>
    /\ Advance("reap", "enforce")
    /\ UNCHANGED <<due, cmd, request, published, ack>>

\* reap_children misses a child that is alive, as in ReadyMissed: waitpid blocks
\* until it has exited, and the loop goes on with its death.
ReapMissed ==
    /\ At("reap") \/ At("grace") \/ At("last")
    /\ TRUE \in WalkMisses /\ Watched(i) /\ ~Collectable(i)
    /\ stack' = <<[u |-> i, deps |-> <<>>, at |-> "waitpid"]>>
    /\ UNCHANGED <<unit, proc, marker, pc, i, due, cmd, request, published, state_dirty, ack>>

WaitpidReturns ==
    /\ stack # <<>> /\ Top.at = "waitpid" /\ Dead(unit[Top.u].pid)
    /\ stack' = Pop
    /\ UNCHANGED <<unit, proc, marker, pc, i, due, cmd, request, published, state_dirty, ack>>

\* The faulty variant that would leave the dependents alone.
Enforced_Nothing(us, ps) == [unit |-> us, proc |-> ps]

\* enforce_dependencies, one pass in table order.
Enforced(us, ps) ==
    LET lost(acc, u) ==
            /\ acc.unit[u].state \in Active \cup {"waiting"}
            /\ \E d \in Range(acc.unit[u].requires) : ~requirement_satisfied(acc.unit, d)
        fail(acc, u) ==
            IF ~lost(acc, u) THEN acc
            ELSE LET alive == acc.unit[u].pid > 0 IN
                 [unit |-> [acc.unit EXCEPT ![u].state = "failed", ![u].wait = 0,
                              ![u].dependency_failed = alive,
                              ![u].stopping = IF alive THEN TRUE ELSE @],
                  proc |-> Termed(acc.proc, acc.unit[u].pid)]
    IN  FoldLeft(fail, [unit |-> us, proc |-> ps], [k \in 1..N |-> k])

enforce_dependencies ==
    /\ At("enforce")
    /\ LET e == Enforced(unit, proc) IN
       /\ unit' = e.unit /\ proc' = e.proc
       /\ state_dirty' = (state_dirty \/ e.unit # unit)
    /\ due' = {u \in Unit : unit'[u].wait = 0}
    /\ pc' = "backoff" /\ i' = 1
    /\ UNCHANGED <<marker, stack, cmd, request, published, ack>>

run_backoff ==
    /\ At("backoff")
    /\ LET call == unit_start(unit, <<>>, i)
           over == unit[i].state = "waiting" /\ i \in due
       IN  \/ over /\ unit' = call.unit /\ stack' = call.stack
           \/ ~over /\ UNCHANGED <<unit, stack>>
    /\ Advance("backoff", "command")
    /\ due' = IF i < N THEN due ELSE {}
    /\ UNCHANGED <<proc, marker, cmd, request, published, state_dirty, ack>>

Live(u) == unit[u].state \in Active /\ unit[u].pid > 0

\* The faulty variant that would call the unit stopped before its child is gone.
Stopping_AtOnce(u, r) ==
    /\ unit' = [unit EXCEPT ![u] = [r EXCEPT !.stopping = TRUE, !.state = "stopped"]]
    /\ proc' = Termed(proc, r.pid)
    /\ UNCHANGED stack

\* unit_stop for the unit u whose record becomes r.
Stopping(u, r) ==
    /\ unit' = [unit EXCEPT ![u] = [r EXCEPT !.stopping = TRUE]]
    /\ proc' = Termed(proc, r.pid)
    /\ UNCHANGED stack

Starting(u, r) ==
    LET call == unit_start([unit EXCEPT ![u] = r], <<>>, u) IN
    unit' = call.unit /\ stack' = call.stack /\ UNCHANGED proc

Becomes(u, r) == unit' = [unit EXCEPT ![u] = r] /\ UNCHANGED <<proc, stack>>

\* reload_service: what the file says now, enabled= apart.
reload_service(r, c) ==
    [r EXCEPT !.requires = c.requires, !.ready = c.ready, !.respawn = c.respawn, !.exec = TRUE,
        !.state = IF r.state # "failed" THEN @ ELSE IF r.enabled THEN "stopped" ELSE "disabled"]

\* run_command, by verb.  A reload whose file does not load, or does not
\* order, leaves the table as it was.
run_command(verb, u) ==
    LET r == unit[u]
        calm == [r EXCEPT !.restart_pending = FALSE, !.dependency_failed = FALSE]
        again == [r EXCEPT !.restart_pending = TRUE]
        unfailed == IF r.state = "failed"
                    THEN [r EXCEPT !.state = IF r.enabled THEN "stopped" ELSE "disabled"] ELSE r
    IN
    \/ /\ verb = "start"
       /\ IF r.state \in Active THEN Becomes(u, r)
          ELSE Starting(u, Forgiven([calm EXCEPT !.enabled = TRUE]))
    \/ /\ verb = "stop"
       /\ IF Live(u) THEN Stopping(u, calm)
          ELSE Becomes(u, [calm EXCEPT !.state = "stopped", !.wait = 0])
    \/ /\ verb = "restart"
       /\ IF Live(u) THEN Stopping(u, [again EXCEPT !.enabled = TRUE])
          ELSE Starting(u, Forgiven([r EXCEPT !.enabled = TRUE]))
    \/ /\ verb = "reload"
       /\ \/ Becomes(u, r)
          \/ \E c \in Edits[u] \cup {Config(u)} : LET loaded == reload_service(r, c) IN
             \/ ~r.enabled /\ IF Live(u) THEN Stopping(u, loaded)
                              ELSE Becomes(u, [loaded EXCEPT !.state = "disabled"])
             \/ r.enabled /\ IF Live(u) THEN Stopping(u, [loaded EXCEPT !.restart_pending = TRUE])
                             ELSE Becomes(u, loaded)
    \/ /\ verb = "reset-failed"
       /\ Becomes(u, [Forgiven(unfailed) EXCEPT !.wait = 0])

poll_command ==
    /\ At("command")
    /\ \/ cmd = NoCmd /\ pc' = "shutdown" /\ UNCHANGED <<unit, proc, stack>>
       \/ cmd # NoCmd /\ run_command(cmd.verb, cmd.u) /\ pc' = "answer"
    /\ UNCHANGED <<marker, i, due, cmd, request, published, state_dirty, ack>>

\* The rest of poll_command, once the command has run.
Acknowledge ==
    /\ At("answer")
    /\ LET e == Enforced(unit, proc) IN
       unit' = e.unit /\ proc' = e.proc
    /\ state_write
    /\ ack' = cmd /\ cmd' = NoCmd
    /\ pc' = "shutdown"
    /\ UNCHANGED <<marker, i, due, stack, request>>

poll_shutdown ==
    /\ At("shutdown")
    /\ pc' = IF request THEN "stopall" ELSE "publish"
    /\ ack' = NoCmd
    /\ UNCHANGED <<unit, proc, marker, i, due, stack, cmd, request, published, state_dirty>>

\* The last step before sleep_ms: the snapshot, or a write that fails.
Publish ==
    /\ At("publish")
    /\ UNCHANGED unit
    /\ \/ state_dirty /\ state_write
       \/ ~state_dirty /\ UNCHANGED <<published, state_dirty>>
    /\ pc' = "sleep"
    /\ UNCHANGED <<proc, marker, i, due, stack, cmd, request, ack>>

Older(r) ==
    [r EXCEPT !.win = IF @ < Closed THEN @ + 1 ELSE @,
              !.wait = IF @ > 0 THEN @ - 1 ELSE 0,
              !.up = IF @ < SETTLED THEN @ + 1 ELSE @]

\* sleep_ms in the loop, and in the readiness wait.
Sleep ==
    /\ \/ At("sleep") /\ pc' = "reap"
       \/ At("nap") /\ pc' = "test"
       \/ stack # <<>> /\ Top.at = "ready" /\ UNCHANGED pc
    /\ unit' = [u \in Unit |-> Older(unit[u])]
    /\ UNCHANGED <<proc, marker, i, due, stack, cmd, request, published, state_dirty, ack>>

-----------------------------------------------------------------------------
(* do_shutdown *)

\* The unit started last, of those still up, is stopped; its respawn flag goes.
StopNext ==
    /\ At("stopall")
    /\ LET left == {u \in Unit : Live(u) /\ ~unit[u].stopping}
       IN  \/ left = {} /\ pc' = "test" /\ UNCHANGED <<unit, proc, stack>>
           \/ \E u \in left :
              /\ \A v \in left : unit[v].seq <= unit[u].seq
              /\ Stopping(u, [unit[u] EXCEPT !.respawn = "never"])
              /\ UNCHANGED pc
    /\ UNCHANGED <<marker, i, due, cmd, request, published, state_dirty, ack>>

\* The loop goes on while a unit is up, until the grace is over.
GraceTest ==
    /\ At("test")
    /\ \/ pc' = "grace" /\ \E u \in Unit : Live(u)
       \/ pc' = "last"
    /\ UNCHANGED <<unit, proc, marker, i, due, stack, cmd, request, published, state_dirty, ack>>

\* reap_children within the loop and once more after it.
GraceReap ==
    /\ At("grace") \/ At("last")
    /\ \/ unit_died(i)
       \/ ~Collectable(i) /\ UNCHANGED <<unit, proc, marker, stack, state_dirty>>
    /\ IF pc = "grace" THEN Advance("grace", "nap") ELSE Advance("last", "power")
    /\ UNCHANGED <<due, cmd, request, published, ack>>

PowerOff ==
    /\ At("power")
    /\ UNCHANGED unit /\ state_write
    /\ request' = FALSE /\ cmd' = NoCmd
    /\ pc' = "off"
    /\ UNCHANGED <<proc, marker, i, due, stack, ack>>

-----------------------------------------------------------------------------
(* The children and the operator. *)

Ending == {"stopall", "test", "grace", "nap", "last", "power", "off"}

Referenced(p) == \E u \in Unit : unit[u].pid = p

\* A child exits by itself, or on SIGTERM.
Exit(p, code) ==
    /\ proc[p].live /\ pc # "off"
    /\ proc' = [proc EXCEPT ![p] = IF Referenced(p)
                                   THEN [NoProc EXCEPT !.u = proc[p].u, !.code = code] ELSE NoProc]
    /\ UNCHANGED <<unit, marker, pc, i, due, stack, cmd, request, published, state_dirty, ack>>

Terminate(p) == proc[p].termed /\ proc[p].u \notin Stubborn /\ \E c \in Code \ {0} : Exit(p, c)

MakeReady(p) ==
    /\ proc[p].live /\ pc # "off" /\ proc[p].u \in Ready \ marker
    /\ marker' = marker \cup {proc[p].u}
    /\ UNCHANGED <<unit, proc, pc, i, due, stack, cmd, request, published, state_dirty, ack>>

Command(verb, u) ==
    /\ cmd = NoCmd /\ ~request /\ pc \notin Ending
    /\ cmd' = [verb |-> verb, u |-> u]
    /\ UNCHANGED <<unit, proc, marker, pc, i, due, stack, request, published, state_dirty, ack>>

RequestShutdown ==
    /\ "shutdown" \in Verb /\ ~request /\ pc \notin Ending
    /\ request' = TRUE
    /\ UNCHANGED <<unit, proc, marker, pc, i, due, stack, cmd, published, state_dirty, ack>>

Off == pc = "off" /\ UNCHANGED vars

Init ==
    /\ \E load \in [Unit -> Loads] : unit = [u \in Unit |-> Fresh(u, load[u])]
    /\ proc = [p \in Pid |-> NoProc]
    /\ marker \in SUBSET Ready
    /\ pc = "boot" /\ i = 1 /\ due = {} /\ stack = <<>>
    /\ cmd = NoCmd /\ request = FALSE
    /\ published = Snapshot(unit) /\ state_dirty = FALSE
    /\ ack = NoCmd

Work ==
    \/ ensure_requirements \/ ReadyFails \/ ReadySeen \/ WaitpidReturns
    \/ \E there, spawned \in BOOLEAN : unit_spawn(there, spawned)
    \/ start_all \/ FirstSnapshot \/ reap_children \/ enforce_dependencies \/ run_backoff
    \/ poll_command \/ Acknowledge \/ poll_shutdown \/ Publish
    \/ StopNext \/ GraceTest \/ GraceReap \/ PowerOff

Next ==
    \/ Work \/ Sleep \/ ReadyTimeout \/ ReadyMissed \/ ReapMissed \/ Off
    \/ \E p \in Pid : MakeReady(p) \/ Terminate(p) \/ \E code \in Code : Exit(p, code)
    \/ \E verb \in Verb \ {"shutdown"}, u \in Unit : Command(verb, u)
    \/ RequestShutdown

Spec == Init /\ [][Next]_vars

\* init is scheduled and its sleeps end; a deadline is reached; a process that
\* honours SIGTERM ends.
FairSpec ==
    /\ Spec
    /\ WF_vars(Work) /\ WF_vars(Sleep) /\ WF_vars(ReadyTimeout)
    /\ \A p \in Pid : WF_vars(Terminate(p))

-----------------------------------------------------------------------------
(* Properties. *)

TypeOK ==
    /\ \A u \in Unit :
       /\ unit[u].state \in State
       /\ unit[u].pid \in Pid \cup {0}
       /\ unit[u].fails \in 0..FAIL_MAX
       /\ unit[u].win \in 0..Closed
       /\ unit[u].backoff \in 1..Len(backoff_ms)
       /\ unit[u].seq \in 0..N
    /\ marker \subseteq Ready
    /\ i \in Unit
    /\ Len(stack) <= N

\* Every instance of a service that is alive is the one its unit records, so
\* that init can stop it and will notice its death: none is started beside
\* another, and none is forgotten.
NoOrphan == \A p \in Pid : proc[p].live => unit[proc[p].u].pid = p

\* When init goes to sleep, /run/services.state says what the unit table says,
\* or init knows that it has to write it again.
PublishedExact == pc = "sleep" => state_dirty \/ published = Snapshot(unit)

\* A unit that has failed comes back only by an operator's command: not by
\* the backoff, not as a requirement of another unit.
FailedStaysDown ==
    [][\A u \in Unit : unit[u].state = "failed" /\ unit'[u].state # "failed" =>
           pc \in {"command", "answer"} \/ unit[u].restart_pending]_vars

\* The unit is up, or about to be, without something it requires.
Lacking(u) ==
    /\ unit[u].state \in Active \cup {"waiting"}
    /\ \E d \in Range(unit[u].requires) : ~requirement_satisfied(unit, d)

\* A unit whose requirement is gone does not stay up.
DependentsFail ==
    \A u \in Unit : Lacking(u) ~> (~Lacking(u) \/ pc \in Ending)

\* A start ends: the unit is ready, or its child is reaped and it has failed.
StartupEnds == \A u \in Unit : unit[u].state = "starting" ~> unit[u].state # "starting"

\* Once the shutdown has begun no service is started again.
NothingComesBack ==
    [][\A p \in Pid : pc \in Ending /\ proc'[p].live => proc[p].live]_vars

\* A stop is acknowledged after the failure of the units that require the
\* stopped one has been published.
StopTakesDependents ==
    pc = "shutdown" /\ ack.verb = "stop" /\ ~state_dirty =>
        \A u \in Unit : ack.u \in Range(unit[u].requires)
                            => published[u].state \notin Active \cup {"waiting"}
=============================================================================
