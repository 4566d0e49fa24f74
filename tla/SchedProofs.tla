---------------------------- MODULE SchedProofs ----------------------------
(***************************************************************************)
(* Proofs about the scheduler, for any number of CPUs and tasks, any set   *)
(* of signals, and with ticks at any moment.                               *)
(*                                                                         *)
(* The variables keep their types in every behaviour (TypeCorrect).  The   *)
(* safety properties hold until a task is woken under the CPU that goes on *)
(* executing it, which the history variable raced of SchedHistory records: *)
(* the inductive invariant is raced \/ IInv, and an action either keeps    *)
(* IInv or is such a wake-up.                                              *)
(***************************************************************************)
EXTENDS SchedHistory, TLAPS

-----------------------------------------------------------------------------
(* The inductive invariant. *)

\* A CPU is in the scheduler exactly while it holds sched_lock, and only then
\* are the task it accounts for and the stack it is on two tasks.
HolderFacts ==
    \A c \in CPU :
    /\ cur[c] = None <=> on[c] = None
    /\ cur[c] = None => cpc[c] = "run"
    /\ cpc[c] = "run" <=> lock # c
    /\ cpc[c] \in {"run", "sched"} => on[c] = cur[c]

\* What a task that a CPU executes outside the scheduler may be marked.
Marked(t) == state[t] = "RUNNING" \/ (state[t] = "STOPPED" /\ at[t] = "stopped")

\* The state of the task a CPU accounts for and of the one it is on.
StateFacts ==
    \A c \in CPU :
    /\ cpc[c] = "run" /\ cur[c] # None => Marked(cur[c])
    /\ cpc[c] = "sched" => state[cur[c]] \in {"RUNNING", "STOPPED", "SLEEPING", "ZOMBIE"}
    /\ cpc[c] = "switch" =>
          /\ state[cur[c]] = "RUNNING"
          /\ state[on[c]] \in {"RUNNABLE", "STOPPED", "SLEEPING", "ZOMBIE"}

\* Idle tasks stay on their CPU, and are there when nothing else is.
IdleFacts ==
    \A c \in CPU :
    /\ cur[c] \in CPU => cur[c] = c
    /\ on[c] \in CPU => on[c] = c
    /\ state[c] \in {"FREE", "RUNNABLE", "RUNNING"}
    /\ cur[c] = None => state[c] # "RUNNABLE"
    /\ cur[c] # None => state[c] # "FREE" /\ (state[c] = "RUNNING" => cur[c] = c)

\* The task a CPU accounts for is no other CPU's, on the way to a new stack
\* included.
OneOwner == \A c, d \in CPU : c # d /\ cur[c] # None => cur[c] # cur[d] /\ on[c] # cur[d]

Zombies == reap_list = {t \in Task : state[t] = "ZOMBIE"}

IInv ==
    /\ TypeOK
    /\ RingExact
    /\ HolderFacts
    /\ StateFacts
    /\ IdleFacts
    /\ OneOwner
    /\ Zombies

-----------------------------------------------------------------------------
(* The run ring. *)

Has(r, u) == \E i \in 1..Len(r) : r[i] = u

Once(r) == \A i, j \in 1..Len(r) : r[i] = r[j] => i = j

\* runq_insert adds the task and keeps the others.
LEMMA InsertedLemma ==
    ASSUME NEW r \in Seq(Task), NEW t \in Task, Once(r), ~Has(r, t)
    PROVE  /\ Inserted(r, t) \in Seq(Task)
           /\ Once(Inserted(r, t))
           /\ \A u : Has(Inserted(r, t), u) <=> Has(r, u) \/ u = t
<1>1. CASE r = <<>>
  <2>1. Inserted(r, t) = <<t>>
    BY <1>1 DEF Inserted
  <2>2. /\ Len(<<t>>) = 1 /\ <<t>>[1] = t /\ <<t>> \in Seq(Task)
        /\ \A i \in 1..1 : i = 1
    OBVIOUS
  <2>3. \A u : ~Has(r, u)
    BY <1>1 DEF Has
  <2>4. Once(<<t>>) /\ \A u : Has(<<t>>, u) <=> u = t
    BY <2>2 DEF Once, Has
  <2> QED BY <2>1, <2>2, <2>3, <2>4
<1>2. CASE r # <<>>
  <2> DEFINE q == Inserted(r, t)
  <2>1. Len(r) \in Nat /\ Len(r) >= 1 /\ \A i \in 1..Len(r) : r[i] \in Task
    BY <1>2
  <2>2. q = [i \in 1..(Len(r) + 1) |->
               IF i = 1 THEN r[1] ELSE IF i = 2 THEN t ELSE r[i - 1]]
    BY <1>2 DEF Inserted
  <2>3. q \in Seq(Task) /\ Len(q) = Len(r) + 1
    BY <2>1, <2>2
  <2>4. /\ q[1] = r[1] /\ q[2] = t
        /\ \A i \in 3..(Len(r) + 1) : q[i] = r[i - 1]
    BY <2>1, <2>2
  <2>5. ASSUME NEW u, Has(q, u) PROVE Has(r, u) \/ u = t
    <3>1. PICK i \in 1..(Len(r) + 1) : q[i] = u
      BY <2>3, <2>5 DEF Has
    <3> QED BY <2>1, <2>4, <3>1 DEF Has
  <2>6. ASSUME NEW u, Has(r, u) PROVE Has(q, u)
    <3>1. PICK i \in 1..Len(r) : r[i] = u
      BY <2>6 DEF Has
    <3>2. CASE i = 1
      BY <2>1, <2>3, <2>4, <3>1, <3>2 DEF Has
    <3>3. CASE i > 1
      <4>1. i + 1 \in 3..(Len(r) + 1) /\ i + 1 \in 1..Len(q) /\ (i + 1) - 1 = i
        BY <2>1, <2>3, <3>1, <3>3
      <4>2. q[i + 1] = u
        BY Zenon, <2>4, <3>1, <4>1
      <4> QED BY <4>1, <4>2 DEF Has
    <3> QED BY <2>1, <3>1, <3>2, <3>3
  <2>7. Has(q, t)
    BY <2>1, <2>3, <2>4 DEF Has
  <2>8. Once(q)
    <3> SUFFICES ASSUME NEW i \in 1..(Len(r) + 1), NEW j \in 1..(Len(r) + 1), q[i] = q[j]
                 PROVE  i = j
      BY Zenon, <2>3 DEF Once
    <3>1. \A k \in 1..(Len(r) + 1) : \/ k = 1 /\ q[k] = r[1]
                                     \/ k = 2 /\ q[k] = t
                                     \/ k \in 3..(Len(r) + 1) /\ q[k] = r[k - 1]
      BY <2>1, <2>4
    <3>2. \A k \in 1..Len(r) : r[k] # t
      BY Zenon DEF Has
    <3>3. CASE i = 2 \/ j = 2
      BY <2>1, <2>4, <3>1, <3>2, <3>3
    <3>4. CASE i # 2 /\ j # 2
      <4>1. PICK m \in 1..Len(r) : q[i] = r[m] /\ (i = 1 => m = 1) /\ (i # 1 => m = i - 1 /\ m > 1)
        BY <2>1, <3>1, <3>4
      <4>2. PICK n \in 1..Len(r) : q[j] = r[n] /\ (j = 1 => n = 1) /\ (j # 1 => n = j - 1 /\ n > 1)
        BY <2>1, <3>1, <3>4
      <4>3. m = n
        BY Zenon, <4>1, <4>2 DEF Once
      <4> QED BY <4>1, <4>2, <4>3
    <3> QED BY <3>3, <3>4
  <2> QED BY <2>3, <2>5, <2>6, <2>7, <2>8
<1> QED BY <1>1, <1>2

\* runq_remove drops the task and keeps the others.
LEMMA RemovedLemma ==
    ASSUME NEW r \in Seq(Task), NEW t \in Task, Once(r), Has(r, t)
    PROVE  /\ Removed(r, t) \in Seq(Task)
           /\ Once(Removed(r, t))
           /\ \A u : Has(Removed(r, t), u) <=> Has(r, u) /\ u # t
<1> DEFINE q == Removed(r, t)
<1>1. PICK k \in 1..Len(r) : r[k] = t
  BY DEF Has
<1>2. Len(r) \in Nat /\ Len(r) >= 1 /\ \A i \in 1..Len(r) : r[i] \in Task
  BY <1>1
<1>3. q \in Seq(Task) /\ Len(q) = Len(r) - 1
  <2>1. \A i \in 1..(Len(r) - 1) : i \in 1..Len(r) /\ i + 1 \in 1..Len(r)
    BY <1>2
  <2>2. Len(r) \in 1..Len(r) /\ Len(r) - 1 \in Nat
    BY <1>2
  <2> QED BY <1>2, <2>1, <2>2 DEF Removed
<1>4. CASE k = 1
  <2>1. \A i \in 1..(Len(r) - 1) : q[i] = IF i = 1 THEN r[Len(r)] ELSE r[i]
    BY Zenon, <1>1, <1>2, <1>4 DEF Removed
  <2>2. ASSUME NEW u, Has(q, u) PROVE Has(r, u) /\ u # t
    <3>1. PICK i \in 1..(Len(r) - 1) : q[i] = u
      BY Zenon, <1>3, <2>2 DEF Has
    <3> QED BY <1>1, <1>2, <1>4, <2>1, <3>1 DEF Has, Once
  <2>3. ASSUME NEW u, Has(r, u), u # t PROVE Has(q, u)
    <3>1. PICK i \in 1..Len(r) : r[i] = u
      BY <2>3 DEF Has
    <3>2. i # 1
      BY <1>1, <1>4, <2>3, <3>1
    <3>3. CASE i = Len(r)
      <4>1. 1 \in 1..(Len(r) - 1) /\ q[1] = u
        BY <1>2, <2>1, <3>1, <3>2, <3>3
      <4> QED BY <1>3, <4>1 DEF Has
    <3>4. CASE i # Len(r)
      <4>1. i \in 1..(Len(r) - 1) /\ q[i] = u
        BY <1>2, <2>1, <3>1, <3>2, <3>4
      <4> QED BY <1>3, <4>1 DEF Has
    <3> QED BY <3>3, <3>4
  <2>4. Once(q)
    <3> SUFFICES ASSUME NEW i \in 1..(Len(r) - 1), NEW j \in 1..(Len(r) - 1), q[i] = q[j]
                 PROVE  i = j
      BY Zenon, <1>3 DEF Once
    <3>1. /\ i \in 1..Len(r) /\ j \in 1..Len(r) /\ Len(r) \in 1..Len(r)
          /\ i # Len(r) /\ j # Len(r)
      BY <1>2
    <3>2. (i = 1 /\ q[i] = r[Len(r)]) \/ (i # 1 /\ q[i] = r[i])
      BY Zenon, <2>1
    <3>3. (j = 1 /\ q[j] = r[Len(r)]) \/ (j # 1 /\ q[j] = r[j])
      BY Zenon, <2>1
    <3> QED BY <3>1, <3>2, <3>3 DEF Once
  <2> QED BY <1>3, <2>2, <2>3, <2>4
<1>5. CASE k # 1
  <2>1. \A i \in 1..(Len(r) - 1) : (\E j \in 1..i : r[j] = t) <=> k <= i
    BY <1>1, <1>2 DEF Once
  <2>2. t # r[1]
    BY <1>1, <1>2, <1>5 DEF Once
  <2>3. \A i \in 1..(Len(r) - 1) : q[i] = IF k <= i THEN r[i + 1] ELSE r[i]
    BY Zenon, <2>1, <2>2 DEF Removed
  <2>4. ASSUME NEW u, Has(q, u) PROVE Has(r, u) /\ u # t
    <3>1. PICK i \in 1..(Len(r) - 1) : q[i] = u
      BY Zenon, <1>3, <2>4 DEF Has
    <3> QED BY <1>1, <1>2, <2>3, <3>1 DEF Has, Once
  <2>5. ASSUME NEW u, Has(r, u), u # t PROVE Has(q, u)
    <3>1. PICK i \in 1..Len(r) : r[i] = u
      BY <2>5 DEF Has
    <3>2. i # k
      BY <1>1, <2>5, <3>1
    <3>3. CASE i < k
      <4>1. i \in 1..(Len(r) - 1) /\ q[i] = u
        BY <1>1, <1>2, <2>3, <3>1, <3>3
      <4> QED BY <1>3, <4>1 DEF Has
    <3>4. CASE i > k
      <4>1. i - 1 \in 1..(Len(r) - 1) /\ k <= i - 1 /\ (i - 1) + 1 = i
        BY <1>1, <1>2, <3>1, <3>4
      <4>2. q[i - 1] = u
        BY Zenon, <2>3, <3>1, <4>1
      <4> QED BY <1>3, <4>1, <4>2 DEF Has
    <3> QED BY <1>1, <3>1, <3>2, <3>3, <3>4
  <2>6. Once(q)
    <3> SUFFICES ASSUME NEW i \in 1..(Len(r) - 1), NEW j \in 1..(Len(r) - 1), q[i] = q[j]
                 PROVE  i = j
      BY Zenon, <1>3 DEF Once
    <3>1. /\ i \in 1..Len(r) /\ i + 1 \in 1..Len(r)
          /\ j \in 1..Len(r) /\ j + 1 \in 1..Len(r)
      BY <1>2
    <3>2. (k <= i /\ q[i] = r[i + 1]) \/ (~(k <= i) /\ q[i] = r[i])
      BY Zenon, <2>3
    <3>3. (k <= j /\ q[j] = r[j + 1]) \/ (~(k <= j) /\ q[j] = r[j])
      BY Zenon, <2>3
    <3> QED BY <1>2, <3>1, <3>2, <3>3 DEF Once
  <2> QED BY <1>3, <2>4, <2>5, <2>6
<1> QED BY <1>4, <1>5

\* RingExact in terms of the ring's contents.
LEMMA RingIs ==
    /\ RingExact <=> /\ \A t \in Task : Has(ring, t) <=> state[t] \notin {"FREE", "ZOMBIE"}
                     /\ Once(ring)
    /\ RingExact' <=> /\ \A t \in Task : Has(ring', t) <=> state'[t] \notin {"FREE", "ZOMBIE"}
                      /\ Once(ring')
  BY DEF RingExact, InRing, Has, Once

-----------------------------------------------------------------------------
(* The types, which no race disturbs. *)

LEMMA InsertedType ==
    ASSUME NEW r \in Seq(Task), NEW t \in Task PROVE Inserted(r, t) \in Seq(Task)
<1>1. CASE r = <<>>
  BY <1>1 DEF Inserted
<1>2. CASE r # <<>>
  <2>1. Len(r) \in Nat /\ Len(r) >= 1 /\ \A i \in 1..Len(r) : r[i] \in Task
    BY <1>2
  <2>2. \A i \in 1..(Len(r) + 1) : i # 1 /\ i # 2 => i - 1 \in 1..Len(r)
    BY <2>1
  <2> QED BY <1>2, <2>1, <2>2 DEF Inserted
<1> QED BY <1>1, <1>2

LEMMA RemovedType ==
    ASSUME NEW r \in Seq(Task), NEW t \in Task PROVE Removed(r, t) \in Seq(Task)
<1>1. CASE Len(r) = 0
  <2>1. 1..(Len(r) - 1) = 1..0
    BY <1>1
  <2> QED BY <2>1 DEF Removed
<1>2. CASE Len(r) # 0
  <2>1. Len(r) \in Nat /\ Len(r) - 1 \in Nat /\ \A i \in 1..Len(r) : r[i] \in Task
    BY <1>2
  <2>2. \A i \in 1..(Len(r) - 1) : /\ i \in 1..Len(r) /\ i + 1 \in 1..Len(r)
                                   /\ Len(r) \in 1..Len(r)
    BY <2>1
  <2> QED BY <2>1, <2>2 DEF Removed
<1> QED BY <1>1, <1>2

Where == {"code", "dying", "stop", "stopped", "exiting"}

Place == {"run", "sched", "switch"}

Sets == SUBSET (Signals \cup {"CHLD"})

\* TypeOK, with names for its sets.
LEMMA TypeIs ==
    /\ TypeOK <=> /\ state \in [Task -> TaskState] /\ ring \in Seq(Task)
                  /\ reap_list \subseteq Task /\ sleep \in [Task -> 0..MaxSleep]
                  /\ pending \in [Task -> Sets] /\ parent \in [Task -> Proc \cup {None}]
                  /\ at \in [Task -> Where] /\ cur \in [CPU -> Task \cup {None}]
                  /\ on \in [CPU -> Task \cup {None}] /\ cpc \in [CPU -> Place]
                  /\ lock \in CPU \cup {None}
    /\ TypeOK' <=> /\ state' \in [Task -> TaskState] /\ ring' \in Seq(Task)
                   /\ reap_list' \subseteq Task /\ sleep' \in [Task -> 0..MaxSleep]
                   /\ pending' \in [Task -> Sets] /\ parent' \in [Task -> Proc \cup {None}]
                   /\ at' \in [Task -> Where] /\ cur' \in [CPU -> Task \cup {None}]
                   /\ on' \in [CPU -> Task \cup {None}] /\ cpc' \in [CPU -> Place]
                   /\ lock' \in CPU \cup {None}
  BY Zenon DEF TypeOK, Where, Place, Sets

\* What a step puts in the place of a value of the same type.
LEMMA Put ==
    /\ \A t, v : v \in TaskState /\ state \in [Task -> TaskState]
                     => [state EXCEPT ![t] = v] \in [Task -> TaskState]
    /\ \A t, v : v \in Where /\ at \in [Task -> Where]
                     => [at EXCEPT ![t] = v] \in [Task -> Where]
    /\ \A c, v : v \in Place /\ cpc \in [CPU -> Place]
                     => [cpc EXCEPT ![c] = v] \in [CPU -> Place]
    /\ \A c, v : v \in Task \cup {None} /\ cur \in [CPU -> Task \cup {None}]
                     => [cur EXCEPT ![c] = v] \in [CPU -> Task \cup {None}]
    /\ \A c, v : v \in Task \cup {None} /\ on \in [CPU -> Task \cup {None}]
                     => [on EXCEPT ![c] = v] \in [CPU -> Task \cup {None}]
  BY Zenon

LEMMA Members ==
    /\ \A s \in {"FREE", "RUNNABLE", "RUNNING", "SLEEPING", "STOPPED", "ZOMBIE"} :
          s \in TaskState
    /\ \A w \in {"code", "dying", "stop", "stopped", "exiting"} : w \in Where
    /\ \A p \in {"run", "sched", "switch"} : p \in Place
    /\ Proc \subseteq Task /\ CPU \subseteq Task /\ Kernel \in Task /\ None \notin Task
    /\ 0 \in 0..MaxSleep
  BY TaskAssumption, SleepAssumption DEF TaskState, Where, Place, Task

LEMMA ScheduleType ==
    ASSUME TypeOK, NEW c \in CPU, schedule(c) \/ ctx_switch_unlock(c) \/ smp_ap_main(c)
    PROVE  TypeOK'
<1>1. CASE schedule(c)
  <2>1. PICK t \in Task :
          /\ TakeLock(c)
          /\ UNCHANGED at \/ at' = [at EXCEPT ![t] = "code"]
          /\ UNCHANGED <<state, ring, reap_list, sleep, pending, parent, cur, on>>
    BY Zenon, <1>1 DEF schedule
  <2>2. cpc' \in [CPU -> Place] /\ lock' \in CPU \cup {None}
    BY Zenon, <2>1, TypeIs, Put, Members DEF TakeLock
  <2>3. at \in [Task -> Where] /\ [at EXCEPT ![t] = "code"] \in [Task -> Where]
    BY Zenon, TypeIs, Put, Members
  <2>4. at' \in [Task -> Where]
    BY Zenon, <2>1, <2>3
  <2> QED BY Zenon, <2>1, <2>2, <2>4, TypeIs
<1>2. CASE ctx_switch_unlock(c)
  <2>1. cur[c] \in Task \cup {None}
    BY Zenon, TypeIs
  <2> QED BY Zenon, <1>2, <2>1, TypeIs, Put, Members DEF ctx_switch_unlock
<1>3. CASE smp_ap_main(c)
  BY Zenon, <1>3, TypeIs, Put, Members DEF smp_ap_main
<1> QED BY Zenon, <1>1, <1>2, <1>3

LEMMA SleepType ==
    ASSUME TypeOK, NEW c \in CPU, NEW n \in 1..MaxSleep, task_sleep_ticks(c, n) PROVE TypeOK'
<1>1. PICK t \in Proc : /\ TakeLock(c)
                        /\ state' = [state EXCEPT ![t] = "SLEEPING"]
                        /\ sleep' = [sleep EXCEPT ![t] = n]
                        /\ UNCHANGED <<ring, reap_list, pending, parent, at, cur, on>>
  BY Zenon DEF task_sleep_ticks
<1>2. n \in 0..MaxSleep
  BY SleepAssumption
<1>3. sleep' \in [Task -> 0..MaxSleep]
  BY Zenon, <1>1, <1>2, TypeIs
<1> QED BY Zenon, <1>1, <1>3, TypeIs, Put, Members DEF TakeLock

LEMMA ExitType == ASSUME TypeOK, NEW c \in CPU, task_exit(c) PROVE TypeOK'
<1>1. PICK t \in Proc : /\ TakeLock(c)
                        /\ state' = [state EXCEPT ![t] = "ZOMBIE"]
                        /\ ring' = Removed(ring, t)
                        /\ reap_list' = reap_list \cup {t}
                        /\ UNCHANGED <<sleep, pending, parent, at, cur, on>>
  BY Zenon DEF task_exit
<1>2. ring' \in Seq(Task) /\ reap_list' \subseteq Task
  BY Zenon, <1>1, TypeIs, RemovedType, Members
<1> QED BY Zenon, <1>1, <1>2, TypeIs, Put, Members DEF TakeLock

LEMMA ScheduleLockedType ==
    ASSUME TypeOK, NEW c \in CPU, schedule_locked(c) PROVE TypeOK'
<1> DEFINE st == Settled(c)
<1>1. /\ reap_list' = reap_list \ Reaped(c)
      /\ UNCHANGED <<ring, sleep, pending, parent, at, on>>
      /\ \E from :
         \/ /\ state' = st /\ lock' = None /\ UNCHANGED cur
            /\ cpc' = [cpc EXCEPT ![c] = "run"]
         \/ \E pick \in pick_next(st, from, c) \ {cur[c]} :
            /\ state' = [st EXCEPT ![cur[c]] = IF @ = "RUNNING" THEN "RUNNABLE" ELSE @,
                                   ![pick] = "RUNNING"]
            /\ cur' = [cur EXCEPT ![c] = pick]
            /\ cpc' = [cpc EXCEPT ![c] = "switch"]
            /\ UNCHANGED lock
  BY Zenon DEF schedule_locked
<1>2. st \in [Task -> TaskState]
  BY Zenon, TypeIs, Members DEF Settled
<1>3. reap_list' \subseteq Task
  BY Zenon, <1>1, TypeIs
<1>4. \A from : pick_next(st, from, c) \subseteq Task
  BY Zenon DEF pick_next, Eligible
<1>5. ASSUME NEW p, NEW q \in Task,
             state' = [st EXCEPT ![p] = IF @ = "RUNNING" THEN "RUNNABLE" ELSE @,
                                 ![q] = "RUNNING"]
      PROVE  state' \in [Task -> TaskState]
  <2> HIDE DEF st
  <2>1. CASE p \in Task
    <3>1. (IF st[p] = "RUNNING" THEN "RUNNABLE" ELSE st[p]) \in TaskState
      BY Zenon, <1>2, <2>1, Members
    <3>2. [st EXCEPT ![p] = IF @ = "RUNNING" THEN "RUNNABLE" ELSE @] \in [Task -> TaskState]
      BY Zenon, <1>2, <3>1
    <3> QED BY <1>5, <3>2, Members
  <2>2. CASE p \notin Task
    BY <1>2, <1>5, <2>2, Members
  <2> QED BY <2>1, <2>2
<1> HIDE DEF st
<1>6. CASE /\ state' = st /\ lock' = None /\ UNCHANGED cur
           /\ cpc' = [cpc EXCEPT ![c] = "run"]
  BY Zenon, <1>1, <1>2, <1>3, <1>6, TypeIs, Put, Members
<1>7. ASSUME NEW pick \in Task,
             state' = [st EXCEPT ![cur[c]] = IF @ = "RUNNING" THEN "RUNNABLE" ELSE @,
                                 ![pick] = "RUNNING"],
             cur' = [cur EXCEPT ![c] = pick], cpc' = [cpc EXCEPT ![c] = "switch"],
             UNCHANGED lock
      PROVE  TypeOK'
  <2>1. state' \in [Task -> TaskState]
    BY Zenon, <1>5, <1>7
  <2> QED BY Zenon, <1>1, <1>3, <1>7, <2>1, TypeIs, Put, Members
<1> QED BY Zenon, <1>1, <1>4, <1>6, <1>7

LEMMA CreateType ==
    ASSUME TypeOK, NEW c \in CPU, NEW t \in Proc, kthread_create_with_pid(c, t) PROVE TypeOK'
<1>1. PICK u \in Proc \cup {Kernel} :
      /\ state' = [state EXCEPT ![t] = "RUNNABLE"]
      /\ ring' = Inserted(ring, t)
      /\ pending' = [pending EXCEPT ![t] = {}]
      /\ parent' = [s \in Task |-> IF s = t THEN IF u \in Proc THEN u ELSE None
                                  ELSE IF parent[s] = t THEN None ELSE parent[s]]
      /\ at' = [at EXCEPT ![t] = "code"]
      /\ sleep' = [sleep EXCEPT ![t] = 0]
      /\ UNCHANGED <<reap_list, cur, on, cpc, lock>>
  BY Zenon DEF kthread_create_with_pid
<1>2. ring' \in Seq(Task)
  BY Zenon, <1>1, TypeIs, InsertedType, Members
<1>3. sleep' \in [Task -> 0..MaxSleep]
  BY Zenon, <1>1, TypeIs, Members
<1>4. pending' \in [Task -> Sets]
  <2>1. {} \in Sets
    BY Zenon DEF Sets
  <2> QED BY Zenon, <1>1, <2>1, TypeIs
<1>5. parent' \in [Task -> Proc \cup {None}]
  BY Zenon, <1>1, TypeIs
<1> QED BY Zenon, <1>1, <1>2, <1>3, <1>4, <1>5, TypeIs, Put, Members

LEMMA PrepareType ==
    ASSUME TypeOK, NEW c \in CPU, proc_prepare_cpu(c) PROVE TypeOK'
<1>1. ring' \in Seq(Task)
  BY Zenon, TypeIs, InsertedType, Members DEF proc_prepare_cpu
<1> QED BY Zenon, <1>1, TypeIs, Put, Members DEF proc_prepare_cpu

\* A queued signal and the task it wakes.
LEMMA SignalledType ==
    ASSUME TypeOK, NEW t \in Proc, NEW sig \in Signals \cup {"CHLD"}, Signalled(t, sig)
    PROVE  state' \in [Task -> TaskState] /\ pending' \in [Task -> Sets]
<1>1. pending[t] \in Sets
  BY Zenon, TypeIs, Members
<1>2. Queued(pending[t], sig) \in Sets
  BY <1>1 DEF Queued, Sets
<1>3. pending' \in [Task -> Sets]
  BY Zenon, <1>2, TypeIs DEF Signalled
<1>4. state' = [state EXCEPT ![t] = "RUNNABLE"] \/ state' = [state EXCEPT ![t] = state[t]]
  BY Zenon DEF Signalled
<1>5. state[t] \in TaskState
  BY Zenon, TypeIs, Members
<1>6. /\ [state EXCEPT ![t] = "RUNNABLE"] \in [Task -> TaskState]
      /\ [state EXCEPT ![t] = state[t]] \in [Task -> TaskState]
  BY Zenon, <1>5, TypeIs, Put, Members
<1> QED BY Zenon, <1>3, <1>4, <1>6

LEMMA SignalType ==
    ASSUME TypeOK, NEW c \in CPU, NEW t \in Proc, NEW sig \in Signals,
           task_signal_pid(c, t, sig)
    PROVE  TypeOK'
  BY Zenon, SignalledType, TypeIs DEF task_signal_pid

LEMMA NotifyType == ASSUME TypeOK, NEW c \in CPU, NotifyParent(c) PROVE TypeOK'
<1>1. PICK t \in Proc :
        /\ at' = [at EXCEPT ![t] = "exiting"]
        /\ \/ \E p \in Proc : Signalled(p, "CHLD")
           \/ UNCHANGED <<pending, state>>
        /\ UNCHANGED <<ring, reap_list, sleep, parent, cur, on, cpc, lock>>
  BY Zenon DEF NotifyParent
<1>2. state' \in [Task -> TaskState] /\ pending' \in [Task -> Sets]
  BY Zenon, <1>1, SignalledType, TypeIs
<1> QED BY Zenon, <1>1, <1>2, TypeIs, Put, Members

LEMMA DeliverType ==
    ASSUME TypeOK, NEW c \in CPU, signal_deliver_pending(c) \/ StoreStopped(c) PROVE TypeOK'
<1>1. CASE StoreStopped(c)
  <2>1. PICK t \in Proc :
          /\ state' = [state EXCEPT ![t] = "STOPPED"]
          /\ at' = [at EXCEPT ![t] = "stopped"]
          /\ UNCHANGED <<ring, reap_list, sleep, pending, parent, cur, on, cpc, lock>>
    BY Zenon, <1>1 DEF StoreStopped
  <2>2. state' \in [Task -> TaskState] /\ at' \in [Task -> Where]
    BY Zenon, <2>1, TypeIs, Put, Members
  <2> QED BY Zenon, <2>1, <2>2, TypeIs
<1>2. CASE signal_deliver_pending(c)
  <2>1. PICK t \in Proc : \E sig :
          /\ pending' = [pending EXCEPT ![t] = @ \ {sig}]
          /\ at' = [at EXCEPT ![t] = IF sig = "KILL" THEN "dying"
                                     ELSE IF sig = "STOP" THEN "stop" ELSE @]
          /\ UNCHANGED <<state, ring, reap_list, sleep, parent, cur, on, cpc, lock>>
    BY Zenon, <1>2 DEF signal_deliver_pending
  <2>2. PICK sig :
          /\ pending' = [pending EXCEPT ![t] = @ \ {sig}]
          /\ at' = [at EXCEPT ![t] = IF sig = "KILL" THEN "dying"
                                     ELSE IF sig = "STOP" THEN "stop" ELSE @]
          /\ UNCHANGED <<state, ring, reap_list, sleep, parent, cur, on, cpc, lock>>
    BY Zenon, <2>1
  <2>3. pending[t] \in Sets /\ at[t] \in Where
    BY Zenon, TypeIs, Members
  <2>4. pending[t] \ {sig} \in Sets
    BY Zenon, <2>3 DEF Sets
  <2>5. pending' \in [Task -> Sets]
    BY Zenon, <2>2, <2>4, TypeIs
  <2>6. \E v \in Where : at' = [at EXCEPT ![t] = v]
    BY Zenon, <2>2, <2>3, Members
  <2> QED BY Zenon, <2>2, <2>5, <2>6, TypeIs, Put
<1> QED BY <1>1, <1>2

LEMMA TickType == ASSUME TypeOK, timer_irq PROVE TypeOK'
<1>1. sleep' = [t \in Task |-> IF sleep[t] > 0 THEN sleep[t] - 1 ELSE 0]
  BY Zenon DEF timer_irq
<1>2. \A t \in Task : sleep[t] \in 0..MaxSleep
  BY Zenon, TypeIs
<1>3. sleep' \in [Task -> 0..MaxSleep]
  BY <1>1, <1>2, SleepAssumption
<1> QED BY Zenon, <1>3, TypeIs DEF timer_irq

LEMMA NextType == TypeOK /\ [Next]_vars => TypeOK'
<1> SUFFICES ASSUME TypeOK, [Next]_vars PROVE TypeOK'
  OBVIOUS
<1>1. CASE UNCHANGED vars
  BY Zenon, <1>1, TypeIs DEF vars
<1>2. CASE timer_irq
  BY <1>2, TickType
<1>3. CASE \E c \in CPU : \/ schedule(c) \/ schedule_locked(c) \/ ctx_switch_unlock(c)
                          \/ NotifyParent(c) \/ task_exit(c)
                          \/ signal_deliver_pending(c) \/ StoreStopped(c)
                          \/ proc_prepare_cpu(c) \/ smp_ap_main(c)
  BY Zenon, <1>3, ScheduleType, ScheduleLockedType, NotifyType, ExitType, DeliverType,
     PrepareType
<1>4. CASE \E c \in CPU : \/ \E n \in 1..MaxSleep : task_sleep_ticks(c, n)
                          \/ \E t \in Proc : kthread_create_with_pid(c, t)
                          \/ \E t \in Proc, sig \in Signals : task_signal_pid(c, t, sig)
  BY Zenon, <1>4, SleepType, CreateType, SignalType
<1> QED BY Zenon, <1>1, <1>2, <1>3, <1>4 DEF Next

LEMMA InitType == Init => TypeOK
<1> SUFFICES ASSUME Init PROVE TypeOK
  OBVIOUS
<1>1. <<Kernel, Boot>> \in Seq(Task)
  BY CpuAssumption, Members
<1>2. {} \in Sets /\ Boot \in CPU
  BY Zenon, CpuAssumption DEF Sets
<1>3. cur \in [CPU -> Task \cup {None}] /\ state \in [Task -> TaskState]
  BY Zenon, Members DEF Init
<1> QED BY Zenon, <1>1, <1>2, <1>3, TypeIs, Members DEF Init

\* The scheduler's variables keep their types in every behaviour, on any
\* number of CPUs, after a race as well: sleep counts down to zero and not
\* below, and no slot gets a state, a parent or a place of its own making.
THEOREM TypeCorrect == Spec => []TypeOK
  BY InitType, NextType, PTL DEF Spec

-----------------------------------------------------------------------------
(* One lemma per action: it keeps IInv, or wakes a task underway. *)

LEMMA InitIInv == Init => IInv
<1> SUFFICES ASSUME Init PROVE IInv
  OBVIOUS
<1>1. /\ Boot \in CPU /\ Kernel \in Task /\ Boot \in Task /\ Kernel # Boot
      /\ CPU \subseteq Task /\ Kernel \notin CPU /\ None \notin Task
  BY CpuAssumption, TaskAssumption DEF Task
<1>2. TypeOK
  BY InitType
<1>3. RingExact
  <2>1. ring = <<Kernel, Boot>> /\ Len(ring) = 2 /\ ring[1] = Kernel /\ ring[2] = Boot
    BY DEF Init
  <2>2. \A t \in Task : InRing(t) <=> t \in {Kernel, Boot}
    BY <2>1 DEF InRing
  <2>3. \A i, j \in 1..Len(ring) : ring[i] = ring[j] => i = j
    BY <1>1, <2>1
  <2> QED BY <1>1, <2>2, <2>3 DEF RingExact, Init
<1>4. HolderFacts /\ StateFacts
  BY Zenon, <1>1 DEF Init, HolderFacts, StateFacts, Marked
<1>5. IdleFacts /\ OneOwner
  BY Zenon, <1>1 DEF Init, IdleFacts, OneOwner
<1>6. Zombies
  BY Zenon DEF Init, Zombies
<1> QED BY <1>2, <1>3, <1>4, <1>5, <1>6 DEF IInv

\* A CPU outside the scheduler executes its current task, and no other CPU
\* has anything to do with it.
LEMMA RunningFacts ==
    ASSUME IInv, NEW c \in CPU, NEW t, Running(c, t)
    PROVE  /\ cur[c] = t /\ on[c] = t /\ t \in Task /\ Marked(t)
           /\ cpc[c] = "run" /\ lock # c /\ t \notin reap_list
           /\ \A d \in CPU \ {c} : cur[d] # t /\ on[d] # t
<1>1. cpc[c] = "run" /\ on[c] = t /\ t # None
  BY Zenon DEF Running
<1>2. cur[c] = t /\ lock # c
  BY Zenon, <1>1 DEF IInv, HolderFacts
<1>3. t \in Task
  BY Zenon, <1>1, <1>2 DEF IInv, TypeOK
<1>4. Marked(t)
  BY Zenon, <1>1, <1>2 DEF IInv, StateFacts
<1>5. \A d \in CPU \ {c} : cur[d] # t
  BY Zenon, <1>1, <1>2 DEF IInv, OneOwner
<1>6. \A d \in CPU \ {c} : on[d] # t
  BY Zenon, <1>1, <1>2 DEF IInv, OneOwner, HolderFacts
<1>7. t \notin reap_list
  BY <1>4 DEF IInv, Zombies, Marked
<1> QED BY Zenon, <1>1, <1>2, <1>3, <1>4, <1>5, <1>6, <1>7

\* A task that is not in the delivery loop is RUNNING while it executes.
LEMMA RunningMarked ==
    ASSUME IInv, NEW c \in CPU, NEW t, Running(c, t), at[t] # "stopped"
    PROVE  state[t] = "RUNNING"
  BY Zenon, RunningFacts DEF Marked

\* While sched_lock is free no CPU is in the scheduler.
LEMMA LockFree ==
    ASSUME IInv, lock = None
    PROVE  \A c \in CPU : /\ cpc[c] = "run" /\ on[c] = cur[c]
                          /\ cur[c] # None => Marked(cur[c])
<1>1. \A c \in CPU : lock # c
  BY TaskAssumption
<1>2. \A c \in CPU : cpc[c] = "run"
  BY Zenon, <1>1 DEF IInv, HolderFacts
<1> QED BY Zenon, <1>2 DEF IInv, HolderFacts, StateFacts

\* A CPU that takes sched_lock, with the task it executes in the state s.
LEMMA EnterFacts ==
    ASSUME IInv, NEW c \in CPU, NEW t \in Task, Running(c, t), TakeLock(c),
           UNCHANGED <<cur, on>>,
           \A u \in Task \ {t} : state'[u] = state[u] /\ at'[u] = at[u],
           state'[t] \in {"RUNNING", "STOPPED", "SLEEPING", "ZOMBIE"}
    PROVE  HolderFacts' /\ StateFacts' /\ OneOwner'
<1>1. /\ lock = None /\ lock' = c /\ cpc' = [cpc EXCEPT ![c] = "sched"]
      /\ cpc \in [CPU -> {"run", "sched", "switch"}] /\ cur \in [CPU -> Task \cup {None}]
  BY Zenon DEF TakeLock, IInv, TypeOK
<1>2. /\ cur[c] = t /\ on[c] = t
      /\ \A d \in CPU \ {c} : cur[d] # t
  BY RunningFacts
<1>3. t # None
  BY Zenon DEF Running
<1>4. cpc'[c] = "sched" /\ \A d \in CPU \ {c} : cpc'[d] = "run"
  BY <1>1, LockFree
<1>5. HolderFacts'
  <2>1. HolderFacts
    BY Zenon DEF IInv
  <2>2. \A d \in CPU : on[d] = cur[d]
    BY Zenon, <1>1, LockFree
  <2> QED BY Zenon, <1>1, <1>2, <1>3, <1>4, <2>2 DEF HolderFacts
<1>6. StateFacts'
  <2>1. ASSUME NEW d \in CPU, d # c, cur[d] # None PROVE Marked(cur[d])'
    <3>1. cur[d] \in Task \ {t}
      BY Zenon, <1>1, <1>2, <2>1
    <3>2. Marked(cur[d])
      BY Zenon, <1>1, <2>1, LockFree
    <3> QED BY Zenon, <3>1, <3>2 DEF Marked
  <2> QED BY Zenon, <1>2, <1>4, <2>1 DEF StateFacts
<1>7. OneOwner'
  BY Zenon DEF IInv, OneOwner
<1> QED BY <1>5, <1>6, <1>7

LEMMA ScheduleIInv == ASSUME IInv, TypeOK', NEW c \in CPU, schedule(c) PROVE IInv'
<1>1. PICK t \in Task : /\ Running(c, t) /\ TakeLock(c)
                        /\ UNCHANGED at \/ at' = [at EXCEPT ![t] = "code"]
                        /\ UNCHANGED <<state, ring, reap_list, sleep, pending, parent, cur, on>>
  BY Zenon DEF schedule
<1>2. \A u \in Task \ {t} : state'[u] = state[u] /\ at'[u] = at[u]
  BY <1>1 DEF IInv, TypeOK
<1>3. state'[t] \in {"RUNNING", "STOPPED", "SLEEPING", "ZOMBIE"}
  BY Zenon, <1>1, RunningFacts DEF Marked
<1>4. HolderFacts' /\ StateFacts' /\ OneOwner'
  BY Zenon, <1>1, <1>2, <1>3, EnterFacts
<1>5. RingExact' /\ Zombies'
  BY Zenon, <1>1 DEF IInv, RingExact, InRing, Zombies
<1>6. IdleFacts'
  BY Zenon, <1>1 DEF IInv, IdleFacts
<1> QED BY Zenon, <1>4, <1>5, <1>6 DEF IInv

LEMMA SleepIInv ==
    ASSUME IInv, TypeOK', NEW c \in CPU, NEW n \in 1..MaxSleep, task_sleep_ticks(c, n)
    PROVE  IInv'
<1>1. PICK t \in Proc : /\ Running(c, t) /\ at[t] \in {"code", "dying"} /\ TakeLock(c)
                        /\ state' = [state EXCEPT ![t] = "SLEEPING"]
                        /\ UNCHANGED <<ring, reap_list, at, cur, on>>
  BY Zenon DEF task_sleep_ticks
<1>2. t \in Task /\ t \notin CPU /\ CPU \subseteq Task
  BY TaskAssumption DEF Task
<1>3. state[t] = "RUNNING"
  BY <1>1, RunningMarked
<1>4. /\ state'[t] = "SLEEPING"
      /\ \A u \in Task \ {t} : state'[u] = state[u]
  BY Zenon, <1>1, <1>2 DEF IInv, TypeOK
<1>5. HolderFacts' /\ StateFacts' /\ OneOwner'
  BY Zenon, <1>1, <1>2, <1>4, EnterFacts
<1>6. RingExact'
  BY Zenon, <1>1, <1>3, <1>4, RingIs DEF IInv
<1>7. IdleFacts'
  BY Zenon, <1>1, <1>2, <1>4 DEF IInv, IdleFacts
<1>8. Zombies'
  BY <1>1, <1>2, <1>3, <1>4 DEF IInv, Zombies
<1> QED BY Zenon, <1>5, <1>6, <1>7, <1>8 DEF IInv

LEMMA ExitIInv == ASSUME IInv, TypeOK', NEW c \in CPU, task_exit(c) PROVE IInv'
<1>1. PICK t \in Proc : /\ Running(c, t) /\ at[t] = "exiting" /\ TakeLock(c)
                        /\ state' = [state EXCEPT ![t] = "ZOMBIE"]
                        /\ ring' = Removed(ring, t)
                        /\ reap_list' = reap_list \cup {t}
                        /\ UNCHANGED <<at, cur, on>>
  BY Zenon DEF task_exit
<1>2. t \in Task /\ t \notin CPU /\ CPU \subseteq Task
  BY TaskAssumption DEF Task
<1>3. state[t] = "RUNNING"
  BY <1>1, RunningMarked
<1>4. /\ state'[t] = "ZOMBIE"
      /\ \A u \in Task \ {t} : state'[u] = state[u]
  BY Zenon, <1>1, <1>2 DEF IInv, TypeOK
<1>5. HolderFacts' /\ StateFacts' /\ OneOwner'
  BY Zenon, <1>1, <1>2, <1>4, EnterFacts
<1>6. ring \in Seq(Task) /\ Once(ring) /\ Has(ring, t)
  BY Zenon, <1>2, <1>3, RingIs DEF IInv, TypeOK
<1>7. RingExact'
  BY Zenon, <1>1, <1>2, <1>4, <1>6, RemovedLemma, RingIs DEF IInv
<1>8. IdleFacts'
  BY Zenon, <1>1, <1>2, <1>4 DEF IInv, IdleFacts
<1>9. Zombies'
  BY <1>1, <1>2, <1>3, <1>4 DEF IInv, Zombies
<1> QED BY Zenon, <1>5, <1>7, <1>8, <1>9 DEF IInv

\* What reap_locked and wake_sleepers_locked leave alone: every RUNNING task,
\* and which tasks are alive.  The task the CPU leaves they may only wake.
LEMMA SettledFacts ==
    ASSUME IInv, NEW c \in CPU, cpc[c] = "sched"
    PROVE  /\ Settled(c) \in [Task -> TaskState]
           /\ cur[c] \in Task /\ on[c] = cur[c] /\ lock = c
           /\ \A t \in Task : state[t] \in {"RUNNING", "STOPPED"} => Settled(c)[t] = state[t]
           /\ \A t \in Task : Settled(c)[t] = "RUNNING" => state[t] = "RUNNING"
           /\ \A t \in Task : state[t] \in {"FREE", "ZOMBIE"}
                                  <=> Settled(c)[t] \in {"FREE", "ZOMBIE"}
           /\ reap_list \ Reaped(c) = {t \in Task : Settled(c)[t] = "ZOMBIE"}
           /\ \A t \in Task : Settled(c)[t] # state[t] =>
                 \/ state[t] = "SLEEPING" /\ Settled(c)[t] = "RUNNABLE"
                 \/ state[t] = "ZOMBIE" /\ t # cur[c]
           /\ \A d \in CPU \ {c} : /\ cpc[d] = "run" /\ on[d] = cur[d]
                                   /\ cur[d] # None => Marked(cur[d])
<1> DEFINE st == Settled(c)
<1>1. cur[c] # None /\ on[c] = cur[c] /\ lock = c
  BY Zenon DEF IInv, HolderFacts
<1>2. cur[c] \in Task /\ state \in [Task -> TaskState]
  BY Zenon, <1>1 DEF IInv, TypeOK
<1>4. \A t \in Task : \/ st[t] = state[t] /\ t \notin Reaped(c)
                      \/ st[t] = "FREE" /\ t \in Reaped(c)
                      \/ st[t] = "RUNNABLE" /\ state[t] = "SLEEPING" /\ t \notin Reaped(c)
  BY Zenon DEF Settled
<1>5. \A t \in Task : t \in Reaped(c) <=> state[t] = "ZOMBIE" /\ t # cur[c]
  BY Zenon DEF Reaped, IInv, Zombies
<1>7. st \in [Task -> TaskState]
  BY Zenon, <1>2, Members DEF Settled
<1> HIDE DEF st
<1>8. reap_list \ Reaped(c) = {t \in Task : st[t] = "ZOMBIE"}
  <2>1. \A t \in Task : t \in reap_list \ Reaped(c) <=> st[t] = "ZOMBIE"
    BY <1>2, <1>4, <1>5 DEF IInv, Zombies
  <2> QED BY <2>1 DEF IInv, TypeOK
<1>9. \A d \in CPU \ {c} : /\ cpc[d] = "run" /\ on[d] = cur[d]
                           /\ cur[d] # None => Marked(cur[d])
  <2>1. \A d \in CPU \ {c} : cpc[d] = "run"
    BY Zenon, <1>1 DEF IInv, HolderFacts
  <2> QED BY Zenon, <2>1 DEF IInv, HolderFacts, StateFacts
<1>10. \A t \in Task : /\ state[t] \in {"RUNNING", "STOPPED"} => st[t] = state[t]
                       /\ st[t] = "RUNNING" => state[t] = "RUNNING"
                       /\ state[t] \in {"FREE", "ZOMBIE"} <=> st[t] \in {"FREE", "ZOMBIE"}
                       /\ st[t] # state[t] =>
                            \/ state[t] = "SLEEPING" /\ st[t] = "RUNNABLE"
                            \/ state[t] = "ZOMBIE" /\ t # cur[c]
  BY <1>4, <1>5
<1> QED BY Zenon, <1>1, <1>2, <1>7, <1>8, <1>9, <1>10 DEF st

LEMMA ScheduleLockedIInv ==
    ASSUME IInv, TypeOK', NEW c \in CPU, schedule_locked(c) PROVE IInv' \/ WokenUnderway
<1> DEFINE st == Settled(c)
           prev == cur[c]
<1>0. /\ cpc[c] = "sched" /\ reap_list' = reap_list \ Reaped(c)
      /\ UNCHANGED <<ring, sleep, pending, parent, at, on>>
  BY Zenon DEF schedule_locked
<1>13. \E from :
         \/ /\ prev \in pick_next(st, from, c) \/ st[prev] = "RUNNING"
            /\ state' = st /\ lock' = None
            /\ cpc' = [cpc EXCEPT ![c] = "run"]
            /\ UNCHANGED cur
         \/ \E pick \in pick_next(st, from, c) \ {prev} :
            /\ state' = [st EXCEPT ![prev] = IF @ = "RUNNING" THEN "RUNNABLE" ELSE @,
                                   ![pick] = "RUNNING"]
            /\ cur' = [cur EXCEPT ![c] = pick]
            /\ cpc' = [cpc EXCEPT ![c] = "switch"]
            /\ UNCHANGED lock
  BY Zenon DEF schedule_locked
<1>1. /\ st \in [Task -> TaskState] /\ prev \in Task /\ on[c] = prev /\ lock = c
      /\ \A t \in Task : state[t] \in {"RUNNING", "STOPPED"} => st[t] = state[t]
      /\ \A t \in Task : st[t] = "RUNNING" => state[t] = "RUNNING"
      /\ \A t \in Task : state[t] \in {"FREE", "ZOMBIE"} <=> st[t] \in {"FREE", "ZOMBIE"}
      /\ reap_list' = {t \in Task : st[t] = "ZOMBIE"}
      /\ \A t \in Task : st[t] # state[t] => \/ state[t] = "SLEEPING" /\ st[t] = "RUNNABLE"
                                             \/ state[t] = "ZOMBIE" /\ t # prev
      /\ \A d \in CPU \ {c} : /\ cpc[d] = "run" /\ on[d] = cur[d]
                              /\ cur[d] # None => Marked(cur[d])
  BY <1>0, SettledFacts
<1> HIDE DEF st
<1>2. CPU \subseteq Task /\ None \notin Task /\ c # None
  BY TaskAssumption DEF Task
<1>3. /\ cpc \in [CPU -> {"run", "sched", "switch"}] /\ cur \in [CPU -> Task \cup {None}]
  BY Zenon DEF IInv, TypeOK
<1>4. \A d \in CPU : st[d] = state[d]
  BY <1>1, <1>2 DEF IInv, IdleFacts
<1>5. state[prev] \in {"RUNNING", "STOPPED", "SLEEPING", "ZOMBIE"}
  BY Zenon, <1>0 DEF IInv, StateFacts
<1>6. \A d \in CPU \ {c} : cur[d] # None => cur[d] # prev
  BY Zenon, <1>2 DEF IInv, OneOwner
<1>7. \A t \in Eligible(st, c) : t \in Task /\ st[t] = "RUNNABLE" /\ Affine(t, c)
  BY Zenon DEF Eligible
<1>8. \A from : pick_next(st, from, c) \subseteq Eligible(st, c)
  BY DEF pick_next
<1>9. \A d \in CPU \ {c} : cur[d] # None =>
         /\ cur[d] \in Task /\ state[cur[d]] \in {"RUNNING", "STOPPED"}
         /\ st[cur[d]] = state[cur[d]]
  <2> SUFFICES ASSUME NEW d \in CPU \ {c}, cur[d] # None
               PROVE  /\ cur[d] \in Task /\ state[cur[d]] \in {"RUNNING", "STOPPED"}
                      /\ st[cur[d]] = state[cur[d]]
    BY Zenon
  <2>1. cur[d] \in Task
    BY <1>3
  <2>2. Marked(cur[d])
    BY Zenon, <1>1
  <2>3. state[cur[d]] \in {"RUNNING", "STOPPED"}
    BY Zenon, <2>2 DEF Marked
  <2> QED BY Zenon, <1>1, <2>1, <2>3
<1>10. CASE /\ prev \in Eligible(st, c)
            /\ state' = st
            /\ cpc' = [cpc EXCEPT ![c] = "run"]
  <2>1. st[prev] = "RUNNABLE" /\ state[prev] = "SLEEPING"
    BY Zenon, <1>1, <1>5, <1>7, <1>10
  <2>2. /\ on[c] # None /\ on'[c] = on[c] /\ cpc'[c] = "run"
        /\ state[on[c]] \in {"SLEEPING", "STOPPED"} /\ state'[on[c]] = "RUNNABLE"
    <3>1. cpc'[c] = "run" /\ on' = on /\ on[c] = prev /\ prev # None
      BY <1>0, <1>1, <1>2, <1>3, <1>10
    <3> QED BY Zenon, <1>10, <2>1, <3>1
  <2> QED BY Zenon, <2>2 DEF WokenUnderway
<1>11. CASE /\ st[prev] = "RUNNING"
            /\ state' = st /\ lock' = None
            /\ cpc' = [cpc EXCEPT ![c] = "run"]
            /\ UNCHANGED cur
  <2>2. RingExact'
    BY Zenon, <1>0, <1>1, <1>11, RingIs DEF IInv
  <2>3. \A d \in CPU : cpc'[d] = "run" /\ lock' # d /\ on[d] = cur[d]
    BY <1>1, <1>2, <1>3, <1>11
  <2>4. HolderFacts'
    <3>1. on' = on /\ cur' = cur
      BY <1>0, <1>11
    <3> QED BY Zenon, <2>3, <3>1 DEF HolderFacts
  <2>5. StateFacts'
    <3>1. ASSUME NEW d \in CPU, cur[d] # None PROVE Marked(cur[d])'
      <4>1. CASE d = c
        BY Zenon, <1>11, <4>1 DEF Marked
      <4>2. CASE d # c
        <5>1. Marked(cur[d]) /\ st[cur[d]] = state[cur[d]]
          BY Zenon, <1>1, <1>9, <3>1, <4>2
        <5> QED BY Zenon, <1>0, <1>11, <5>1 DEF Marked
      <4> QED BY <4>1, <4>2
    <3> QED BY Zenon, <1>11, <2>3, <3>1 DEF StateFacts
  <2>6. OneOwner'
    BY Zenon, <1>0, <1>11 DEF IInv, OneOwner
  <2>7. IdleFacts'
    BY Zenon, <1>0, <1>4, <1>11 DEF IInv, IdleFacts
  <2>8. Zombies'
    BY Zenon, <1>1, <1>11 DEF Zombies
  <2> QED BY Zenon, <2>2, <2>4, <2>5, <2>6, <2>7, <2>8 DEF IInv
<1>12. ASSUME NEW pick \in Eligible(st, c), pick # prev,
              state' = [st EXCEPT ![prev] = IF @ = "RUNNING" THEN "RUNNABLE" ELSE @,
                                  ![pick] = "RUNNING"],
              cur' = [cur EXCEPT ![c] = pick],
              cpc' = [cpc EXCEPT ![c] = "switch"],
              UNCHANGED lock
       PROVE  IInv'
  <2>1. pick \in Task /\ st[pick] = "RUNNABLE" /\ Affine(pick, c)
    BY Zenon, <1>7, <1>12
  <2>2. /\ state'[pick] = "RUNNING"
        /\ state'[prev] = IF st[prev] = "RUNNING" THEN "RUNNABLE" ELSE st[prev]
        /\ \A t \in Task \ {pick, prev} : state'[t] = st[t]
    BY <1>1, <1>12, <2>1
  <2>3. cur'[c] = pick /\ \A d \in CPU \ {c} : cur'[d] = cur[d] /\ cpc'[d] = "run"
    BY <1>1, <1>3, <1>12
  <2>4. cpc'[c] = "switch" /\ lock' = c
    BY <1>1, <1>3, <1>12
  <2>7. RingExact'
    <3>1. ASSUME NEW t \in Task
          PROVE  state[t] \notin {"FREE", "ZOMBIE"} <=> state'[t] \notin {"FREE", "ZOMBIE"}
      <4>1. CASE t = pick
        BY Zenon, <1>1, <2>1, <2>2, <4>1
      <4>2. CASE t = prev /\ t # pick
        BY Zenon, <1>1, <2>2, <4>2
      <4>3. CASE t # prev /\ t # pick
        BY Zenon, <1>1, <2>2, <4>3
      <4> QED BY <4>1, <4>2, <4>3
    <3> QED BY ZenonT(60), <1>0, <3>1 DEF IInv, RingExact, InRing
  <2>8. HolderFacts'
    <3>1. on' = on /\ on[c] # None /\ pick # None
      BY <1>0, <1>1, <1>2, <2>1
    <3>2. \A d \in CPU \ {c} : lock' # d /\ on[d] = cur[d] /\ cpc'[d] = "run"
      BY Zenon, <1>1, <2>3, <2>4
    <3> QED BY Zenon, <2>3, <2>4, <3>1, <3>2 DEF HolderFacts
  <2>9. \A d \in CPU \ {c} : cur[d] # None => cur[d] \in Task \ {pick, prev}
    BY Zenon, <1>6, <1>9, <2>1
  <2>11. StateFacts'
    <3>1. ASSUME NEW d \in CPU \ {c}, cur'[d] # None PROVE Marked(cur[d])'
      <4>1. cur'[d] = cur[d] /\ cur[d] \in Task \ {pick, prev}
        BY Zenon, <2>3, <2>9, <3>1
      <4>2. Marked(cur[d]) /\ st[cur[d]] = state[cur[d]]
        BY Zenon, <1>1, <1>9, <3>1, <4>1
      <4>3. state'[cur[d]] = state[cur[d]] /\ at' = at
        BY Zenon, <1>0, <2>2, <4>1, <4>2
      <4> QED BY Zenon, <4>1, <4>2, <4>3 DEF Marked
    <3>2. state'[on'[c]] \in {"RUNNABLE", "STOPPED", "SLEEPING", "ZOMBIE"}
      <4>1. on'[c] = prev
        BY Zenon, <1>0, <1>1
      <4>2. st[prev] \in {"RUNNING", "RUNNABLE", "STOPPED", "SLEEPING", "ZOMBIE"}
        BY Zenon, <1>1, <1>5
      <4> QED BY Zenon, <2>2, <4>1, <4>2
    <3> QED BY Zenon, <2>2, <2>3, <2>4, <3>1, <3>2 DEF StateFacts
  <2>12. OneOwner'
    <3> SUFFICES ASSUME NEW d \in CPU, NEW e \in CPU, d # e, cur'[d] # None
                 PROVE  cur'[d] # cur'[e] /\ on[d] # cur'[e]
      BY Zenon, <1>0 DEF OneOwner
    <3>1. CASE d # c /\ e # c
      <4>1. cur'[d] = cur[d] /\ cur'[e] = cur[e]
        BY Zenon, <2>3, <3>1
      <4> QED BY Zenon, <4>1 DEF IInv, OneOwner
    <3>2. CASE e = c
      <4>1. cur'[d] = cur[d] /\ on[d] = cur[d] /\ cur[d] \in Task \ {pick, prev}
        BY ZenonT(60), <1>1, <2>3, <2>9, <3>2
      <4> QED BY Zenon, <2>3, <3>2, <4>1
    <3>3. CASE d = c
      <4>1. cur'[e] = cur[e] /\ (cur[e] = None \/ cur[e] \in Task \ {pick, prev})
        BY Zenon, <2>3, <2>9, <3>3
      <4>2. on[d] = prev /\ cur'[d] = pick /\ prev # None /\ pick # None
        BY <1>1, <1>2, <2>1, <2>3, <3>3
      <4> QED BY Zenon, <4>1, <4>2
    <3> QED BY <3>1, <3>2, <3>3
  <2>13. IdleFacts'
    <3>1. cur'[c] \in CPU => cur'[c] = c
      BY <2>1, <2>3 DEF Affine
    <3>2. pick \in CPU => pick = c
      BY <2>1 DEF Affine
    <3>3. prev \in CPU => prev = c
      BY Zenon DEF IInv, IdleFacts
    <3>4. ASSUME NEW d \in CPU
          PROVE  /\ state'[d] \in {"FREE", "RUNNABLE", "RUNNING"}
                 /\ cur'[d] = None => state'[d] # "RUNNABLE"
                 /\ cur'[d] # None => state'[d] # "FREE"
                                        /\ (state'[d] = "RUNNING" => cur'[d] = d)
      <4>1. /\ state[d] \in {"FREE", "RUNNABLE", "RUNNING"}
            /\ cur[d] = None => state[d] # "RUNNABLE"
            /\ cur[d] # None => state[d] # "FREE" /\ (state[d] = "RUNNING" => cur[d] = d)
        BY Zenon DEF IInv, IdleFacts
      <4>2. d \in Task /\ st[d] = state[d]
        BY <1>2, <1>4
      <4>3. CASE d # c
        <5>1. state'[d] = state[d] /\ cur'[d] = cur[d]
          BY <2>2, <2>3, <3>2, <3>3, <4>2, <4>3
        <5> QED BY <4>1, <5>1
      <4>4. CASE d = c /\ pick = c
        BY Zenon, <1>2, <2>1, <2>2, <2>3, <4>4
      <4>5. CASE d = c /\ pick # c /\ prev = c
        <5>1. state'[c] \in {"FREE", "RUNNABLE"} /\ cur'[c] # None
          BY Zenon, <1>2, <2>1, <2>2, <2>3, <4>1, <4>2, <4>5
        <5>2. state[c] # "FREE"
          BY Zenon, <1>1, <1>2, <4>1, <4>5
        <5>3. state'[c] # "FREE"
          BY Zenon, <2>2, <4>2, <4>5, <5>2
        <5> QED BY Zenon, <4>5, <5>1, <5>3
      <4>6. CASE d = c /\ pick # c /\ prev # c
        <5>1. state'[c] = state[c]
          BY Zenon, <2>2, <4>2, <4>6
        <5>2. prev # None
          BY <1>1, <1>2
        <5> QED BY Zenon, <1>2, <2>1, <2>3, <4>1, <4>6, <5>1, <5>2
      <4> QED BY <4>3, <4>4, <4>5, <4>6
    <3> QED BY Zenon, <1>0, <2>3, <3>1, <3>4 DEF IInv, IdleFacts
  <2>14. Zombies'
    <3>1. \A t \in Task : state'[t] = "ZOMBIE" <=> st[t] = "ZOMBIE"
      BY ZenonT(60), <1>1, <2>1, <2>2
    <3> QED BY ZenonT(60), <1>1, <3>1 DEF Zombies
  <2> QED BY Zenon, <2>7, <2>8, <2>11, <2>12, <2>13, <2>14 DEF IInv
<1> QED BY ZenonT(60), <1>8, <1>10, <1>11, <1>12, <1>13

LEMMA SwitchIInv == ASSUME IInv, TypeOK', NEW c \in CPU, ctx_switch_unlock(c) PROVE IInv'
<1>0. /\ cpc[c] = "switch" /\ on' = [on EXCEPT ![c] = cur[c]]
      /\ lock' = IF lock = c THEN None ELSE lock
      /\ cpc' = [cpc EXCEPT ![c] = "run"]
      /\ UNCHANGED <<state, ring, reap_list, sleep, pending, parent, at, cur>>
  BY Zenon DEF ctx_switch_unlock
<1>1. /\ cpc \in [CPU -> {"run", "sched", "switch"}] /\ on \in [CPU -> Task \cup {None}]
      /\ cur \in [CPU -> Task \cup {None}]
  BY Zenon DEF IInv, TypeOK
<1>2. lock = c /\ cur[c] # None /\ \A d \in CPU : None # d
  BY Zenon, <1>0, TaskAssumption DEF IInv, HolderFacts
<1>3. /\ on'[c] = cur[c] /\ cpc'[c] = "run" /\ lock' = None
      /\ \A d \in CPU \ {c} : on'[d] = on[d] /\ cpc'[d] = cpc[d]
  BY Zenon, <1>0, <1>1, <1>2
<1>4. \A d \in CPU \ {c} : cpc[d] = "run" /\ on[d] = cur[d]
  BY Zenon, <1>2 DEF IInv, HolderFacts
<1>5. \A d \in CPU : cpc'[d] = "run" /\ on'[d] = cur[d] /\ lock' # d
  BY <1>2, <1>3, <1>4
<1>6. HolderFacts'
  BY Zenon, <1>0, <1>5 DEF HolderFacts
<1>7. StateFacts'
  <2>1. \A d \in CPU : cur[d] # None => Marked(cur[d])
    BY Zenon, <1>0, <1>4 DEF IInv, StateFacts, Marked
  <2>2. \A d \in CPU : cur[d] # None => Marked(cur[d])'
    BY Zenon, <1>0, <2>1 DEF Marked
  <2> QED BY Zenon, <1>0, <1>5, <2>2 DEF StateFacts
<1>8. OneOwner'
  <2> SUFFICES ASSUME NEW d \in CPU, NEW e \in CPU, d # e, cur[d] # None
               PROVE  cur[d] # cur[e] /\ on'[d] # cur[e]
    BY Zenon, <1>0 DEF OneOwner
  <2>1. cur[d] # cur[e]
    BY Zenon DEF IInv, OneOwner
  <2> QED BY Zenon, <1>5, <2>1
<1>9. IdleFacts'
  BY ZenonT(60), <1>0, <1>5 DEF IInv, IdleFacts
<1>10. RingExact' /\ Zombies'
  BY Zenon, <1>0 DEF IInv, RingExact, InRing, Zombies
<1> QED BY Zenon, <1>6, <1>7, <1>8, <1>9, <1>10 DEF IInv

\* A task that no CPU accounts for may change its state while the lock is free.
LEMMA OtherTask ==
    ASSUME IInv, lock = None, NEW t \in Task, \A c \in CPU : cur[c] # t,
           \A u \in Task \ {t} : state'[u] = state[u] /\ at'[u] = at[u],
           UNCHANGED <<cur, on, cpc, lock>>
    PROVE  HolderFacts' /\ StateFacts' /\ OneOwner'
<1>1. \A c \in CPU : cur[c] # None => cur[c] \in Task \ {t}
  BY DEF IInv, TypeOK
<1>2. \A c \in CPU : cpc[c] = "run" /\ (cur[c] # None => Marked(cur[c]))
  BY Zenon, LockFree
<1>3. \A c \in CPU : cur[c] # None => Marked(cur[c])'
  BY ZenonT(60), <1>1, <1>2 DEF Marked
<1>4. StateFacts'
  BY Zenon, <1>2, <1>3 DEF StateFacts
<1>5. HolderFacts'
  BY Zenon DEF IInv, HolderFacts
<1>6. OneOwner'
  BY Zenon DEF IInv, OneOwner
<1> QED BY <1>4, <1>5, <1>6

\* No CPU accounts for a task in one of these states while the lock is free.
LEMMA NotCurrent ==
    ASSUME IInv, lock = None, NEW t \in Task, state[t] \notin {"RUNNING", "STOPPED"}
    PROVE  \A c \in CPU : cur[c] # t
<1>1. t # None
  BY TaskAssumption DEF Task
<1>2. ~Marked(t)
  BY Zenon DEF Marked
<1> QED BY Zenon, <1>1, <1>2, LockFree

LEMMA CreateIInv ==
    ASSUME IInv, TypeOK', NEW c \in CPU, NEW t \in Proc, kthread_create_with_pid(c, t)
    PROVE  IInv'
<1>0. /\ lock = None /\ state[t] = "FREE"
      /\ state' = [state EXCEPT ![t] = "RUNNABLE"]
      /\ ring' = Inserted(ring, t)
      /\ at' = [at EXCEPT ![t] = "code"]
      /\ UNCHANGED <<reap_list, cur, on, cpc, lock>>
  BY Zenon DEF kthread_create_with_pid
<1>1. t \in Task /\ t \notin CPU /\ CPU \subseteq Task
  BY TaskAssumption DEF Task
<1>2. /\ state \in [Task -> TaskState] /\ ring \in Seq(Task) /\ at \in [Task -> Where]
  BY Zenon, TypeIs DEF IInv
<1>3. state'[t] = "RUNNABLE" /\ \A u \in Task \ {t} : state'[u] = state[u] /\ at'[u] = at[u]
  BY Zenon, <1>0, <1>1, <1>2
<1>4. Once(ring) /\ \A u \in Task : Has(ring, u) <=> state[u] \notin {"FREE", "ZOMBIE"}
  BY Zenon, RingIs DEF IInv
<1>5. ~Has(ring, t)
  BY Zenon, <1>0, <1>1, <1>4
<1>6. RingExact'
  <2>1. /\ Once(ring') /\ \A u \in Task : Has(ring', u) <=> Has(ring, u) \/ u = t
    BY Zenon, <1>0, <1>1, <1>2, <1>4, <1>5, InsertedLemma
  <2>2. \A u \in Task : Has(ring', u) <=> state'[u] \notin {"FREE", "ZOMBIE"}
    BY Zenon, <1>1, <1>3, <1>4, <2>1
  <2> QED BY Zenon, <2>1, <2>2, RingIs
<1>7. HolderFacts' /\ StateFacts' /\ OneOwner'
  <2>1. \A d \in CPU : cur[d] # t
    BY Zenon, <1>0, <1>1, NotCurrent
  <2> QED BY Zenon, <1>0, <1>1, <1>3, <2>1, OtherTask
<1>8. IdleFacts'
  BY Zenon, <1>0, <1>1, <1>3 DEF IInv, IdleFacts
<1>9. Zombies'
  BY <1>0, <1>1, <1>3 DEF IInv, Zombies
<1> QED BY Zenon, <1>6, <1>7, <1>8, <1>9 DEF IInv

LEMMA PrepareIInv == ASSUME IInv, TypeOK', NEW c \in CPU, proc_prepare_cpu(c) PROVE IInv'
<1>0. /\ lock = None /\ state[c] = "FREE"
      /\ state' = [state EXCEPT ![c] = "RUNNING"]
      /\ ring' = Inserted(ring, c)
      /\ UNCHANGED <<reap_list, sleep, pending, parent, at, cur, on, cpc, lock>>
  BY Zenon DEF proc_prepare_cpu
<1>1. c \in Task /\ CPU \subseteq Task
  BY DEF Task
<1>2. state \in [Task -> TaskState] /\ ring \in Seq(Task)
  BY Zenon DEF IInv, TypeOK
<1>3. state'[c] = "RUNNING" /\ \A u \in Task \ {c} : state'[u] = state[u]
  BY Zenon, <1>0, <1>1, <1>2
<1>4. Once(ring) /\ \A u \in Task : Has(ring, u) <=> state[u] \notin {"FREE", "ZOMBIE"}
  BY Zenon, RingIs DEF IInv
<1>5. ~Has(ring, c)
  BY Zenon, <1>0, <1>1, <1>4
<1>6. RingExact'
  <2>1. /\ Once(ring') /\ \A u \in Task : Has(ring', u) <=> Has(ring, u) \/ u = c
    BY Zenon, <1>0, <1>1, <1>2, <1>4, <1>5, InsertedLemma
  <2>2. \A u \in Task : Has(ring', u) <=> state'[u] \notin {"FREE", "ZOMBIE"}
    BY Zenon, <1>1, <1>3, <1>4, <2>1
  <2> QED BY Zenon, <2>1, <2>2, RingIs
<1>7. HolderFacts' /\ StateFacts' /\ OneOwner'
  <2>1. \A d \in CPU : cur[d] # c
    BY Zenon, <1>0, <1>1, NotCurrent
  <2> QED BY Zenon, <1>0, <1>1, <1>3, <2>1, OtherTask
<1>8. IdleFacts'
  BY Zenon, <1>0, <1>1, <1>3 DEF IInv, IdleFacts
<1>9. Zombies'
  BY <1>0, <1>1, <1>3 DEF IInv, Zombies
<1> QED BY Zenon, <1>6, <1>7, <1>8, <1>9 DEF IInv

LEMMA StartIInv == ASSUME IInv, TypeOK', NEW c \in CPU, smp_ap_main(c) PROVE IInv'
<1>0. /\ cur[c] = None /\ state[c] # "FREE"
      /\ cur' = [cur EXCEPT ![c] = c]
      /\ on' = [on EXCEPT ![c] = c]
      /\ UNCHANGED <<state, ring, reap_list, sleep, pending, parent, at, cpc, lock>>
  BY Zenon DEF smp_ap_main
<1>1. CPU \subseteq Task /\ None \notin Task
  BY TaskAssumption DEF Task
<1>2. cur \in [CPU -> Task \cup {None}] /\ on \in [CPU -> Task \cup {None}]
  BY Zenon DEF IInv, TypeOK
<1>3. /\ cur'[c] = c /\ on'[c] = c
      /\ \A d \in CPU \ {c} : cur'[d] = cur[d] /\ on'[d] = on[d]
  BY Zenon, <1>0, <1>1, <1>2
<1>4. state[c] = "RUNNING" /\ cpc[c] = "run" /\ lock # c
  BY Zenon, <1>0 DEF IInv, IdleFacts, HolderFacts
<1>5. c # None /\ \A d \in CPU \ {c} : cur[d] # c /\ on[d] # c
  BY Zenon, <1>1 DEF IInv, IdleFacts
<1>6. HolderFacts'
  <2>1. \A d \in CPU \ {c} : (/\ cur[d] = None <=> on[d] = None
                              /\ cur[d] = None => cpc[d] = "run"
                              /\ cpc[d] = "run" <=> lock # d
                              /\ cpc[d] \in {"run", "sched"} => on[d] = cur[d])
    BY Zenon DEF IInv, HolderFacts
  <2> QED BY <1>0, <1>3, <1>4, <1>5, <2>1 DEF HolderFacts
<1>7. StateFacts'
  <2>1. Marked(c)' /\ \A t : Marked(t)' <=> Marked(t)
    BY Zenon, <1>0, <1>4 DEF Marked
  <2>2. StateFacts
    BY Zenon DEF IInv
  <2>3. Marked(cur[c])'
    BY Zenon, <1>3, <2>1 DEF Marked
  <2>4. \A d \in CPU \ {c} : Marked(cur[d])' <=> Marked(cur[d])
    BY Zenon, <1>0, <1>3 DEF Marked
  <2> QED BY Zenon, <1>0, <1>3, <1>4, <2>2, <2>3, <2>4 DEF StateFacts
<1>8. IdleFacts'
  <2>1. IdleFacts
    BY Zenon DEF IInv
  <2> QED BY <1>0, <1>3, <1>4, <1>5, <2>1 DEF IdleFacts
<1>9. OneOwner'
  <2> SUFFICES ASSUME NEW d \in CPU, NEW e \in CPU, d # e, cur'[d] # None
               PROVE  cur'[d] # cur'[e] /\ on'[d] # cur'[e]
    BY Zenon DEF OneOwner
  <2>1. CASE d # c /\ e # c
    BY ZenonT(60), <1>3, <2>1 DEF IInv, OneOwner
  <2>2. CASE d = c \/ e = c
    BY Zenon, <1>3, <1>5, <2>2
  <2> QED BY <2>1, <2>2
<1>10. RingExact' /\ Zombies'
  BY ZenonT(60), <1>0 DEF IInv, RingExact, InRing, Zombies
<1> QED BY Zenon, <1>6, <1>7, <1>8, <1>9, <1>10 DEF IInv

\* Waking a sleeping or stopped task disturbs nothing but the CPU that
\* executes it.
LEMMA SignalledFacts ==
    ASSUME IInv, lock = None, NEW t \in Proc, NEW sig,
           Signallable(t), Signalled(t, sig),
           \/ UNCHANGED at
           \/ \E u \in Task : Marked(u) /\ at[u] # "stopped" /\ at' = [at EXCEPT ![u] = "exiting"],
           UNCHANGED <<ring, reap_list, cur, on, cpc, lock>>
    PROVE  \/ WokenUnderway
           \/ /\ RingExact' /\ HolderFacts' /\ StateFacts' /\ OneOwner'
              /\ IdleFacts' /\ Zombies'
<1>0. /\ state[t] \notin {"FREE", "ZOMBIE"}
      /\ \/ state' = state
         \/ /\ state[t] \in {"SLEEPING", "STOPPED"}
            /\ state' = [state EXCEPT ![t] = "RUNNABLE"]
  BY Zenon DEF Signallable, Signalled, IInv, TypeOK
<1>1. t \in Task /\ t \notin CPU /\ CPU \subseteq Task /\ t # None
  BY TaskAssumption DEF Task
<1>2. state \in [Task -> TaskState] /\ at \in [Task -> Where]
  BY Zenon, TypeIs DEF IInv
<1>3. /\ \A u \in Task \ {t} : state'[u] = state[u]
      /\ state'[t] \notin {"FREE", "ZOMBIE"}
      /\ state'[t] = state[t] \/ (state'[t] = "RUNNABLE" /\ state[t] \in {"SLEEPING", "STOPPED"})
  BY <1>0, <1>1, <1>2
<1>4. \A u \in Task : at[u] = "stopped" /\ state[u] # "RUNNING" => at'[u] = "stopped"
  BY <1>2 DEF Marked
<1>5. \A c \in CPU : cpc[c] = "run" /\ on[c] = cur[c] /\ (cur[c] # None => Marked(cur[c]))
  BY Zenon, LockFree
<1>6. RingExact'
  BY Zenon, <1>0, <1>1, <1>3, RingIs DEF IInv
<1>7. IdleFacts'
  BY Zenon, <1>0, <1>1, <1>3 DEF IInv, IdleFacts
<1>8. Zombies'
  BY <1>0, <1>1, <1>3 DEF IInv, Zombies
<1>9. HolderFacts'
  BY Zenon DEF IInv, HolderFacts
<1>10. OneOwner'
  BY Zenon DEF IInv, OneOwner
<1>11. CASE state'[t] = state[t] \/ \A c \in CPU : cur[c] # t
  <2>1. ASSUME NEW c \in CPU, cur[c] # None PROVE Marked(cur[c])'
    <3>1. cur[c] \in Task
      BY <2>1 DEF IInv, TypeOK
    <3>2. Marked(cur[c])
      BY Zenon, <1>5, <2>1
    <3>3. state'[cur[c]] = state[cur[c]] /\ cur' = cur
      BY Zenon, <1>3, <1>11, <3>1
    <3> QED BY Zenon, <1>4, <3>1, <3>2, <3>3 DEF Marked
  <2>2. StateFacts'
    BY Zenon, <1>5, <2>1 DEF StateFacts
  <2> QED BY <1>6, <1>7, <1>8, <1>9, <1>10, <2>2
<1>12. CASE state'[t] # state[t] /\ \E c \in CPU : cur[c] = t
  <2>1. PICK c \in CPU : cur[c] = t
    BY Zenon, <1>12
  <2>2. /\ on[c] # None /\ on'[c] = on[c] /\ cpc'[c] = "run"
        /\ state[on[c]] \in {"SLEEPING", "STOPPED"} /\ state'[on[c]] = "RUNNABLE"
    BY Zenon, <1>1, <1>3, <1>5, <1>12, <2>1
  <2> QED BY Zenon, <2>2 DEF WokenUnderway
<1> QED BY <1>11, <1>12

LEMMA SignalIInv ==
    ASSUME IInv, TypeOK', NEW c \in CPU, NEW t \in Proc, NEW sig \in Signals,
           task_signal_pid(c, t, sig)
    PROVE  IInv' \/ WokenUnderway
<1>1. /\ lock = None /\ Signallable(t) /\ Signalled(t, sig)
      /\ UNCHANGED <<ring, reap_list, sleep, parent, at, cur, on, cpc, lock>>
  BY Zenon DEF task_signal_pid
<1>2. \/ WokenUnderway
      \/ /\ RingExact' /\ HolderFacts' /\ StateFacts' /\ OneOwner'
         /\ IdleFacts' /\ Zombies'
  BY Zenon, <1>1, SignalledFacts
<1> QED BY Zenon, <1>2 DEF IInv

LEMMA NotifyIInv ==
    ASSUME IInv, TypeOK', NEW c \in CPU, NotifyParent(c) PROVE IInv' \/ WokenUnderway
<1>1. PICK t \in Proc :
        /\ Running(c, t) /\ at[t] \in {"code", "dying"} /\ lock = None
        /\ at' = [at EXCEPT ![t] = "exiting"]
        /\ \/ \E p \in Proc : Signallable(p) /\ Signalled(p, "CHLD")
           \/ UNCHANGED <<pending, state>>
        /\ UNCHANGED <<ring, reap_list, sleep, parent, cur, on, cpc, lock>>
  BY Zenon DEF NotifyParent
<1>2. t \in Task /\ at[t] # "stopped"
  BY <1>1 DEF Task
<1>3. Marked(t) /\ state[t] = "RUNNING"
  BY Zenon, <1>1, <1>2, RunningFacts, RunningMarked
<1>4. CASE \E p \in Proc : Signallable(p) /\ Signalled(p, "CHLD")
  <2>1. PICK p \in Proc : Signallable(p) /\ Signalled(p, "CHLD")
    BY Zenon, <1>4
  <2>2. \/ WokenUnderway
        \/ /\ RingExact' /\ HolderFacts' /\ StateFacts' /\ OneOwner'
           /\ IdleFacts' /\ Zombies'
    BY Zenon, <1>1, <1>2, <1>3, <2>1, SignalledFacts
  <2> QED BY Zenon, <2>2 DEF IInv
<1>5. CASE UNCHANGED <<pending, state>>
  <2>1. \A u \in Task : Marked(u) => Marked(u)'
    BY <1>1, <1>2, <1>3, <1>5 DEF Marked, IInv, TypeOK
  <2>2. ASSUME NEW d \in CPU, cur[d] # None, Marked(cur[d]) PROVE Marked(cur[d])'
    <3>1. cur[d] \in Task
      BY <2>2 DEF IInv, TypeOK
    <3> QED BY Zenon, <1>1, <2>1, <2>2, <3>1 DEF Marked
  <2>3. StateFacts'
    BY Zenon, <1>1, <1>5, <2>2, LockFree DEF StateFacts
  <2>4. HolderFacts' /\ OneOwner'
    BY Zenon, <1>1 DEF IInv, HolderFacts, OneOwner
  <2>5. IdleFacts'
    BY Zenon, <1>1, <1>5 DEF IInv, IdleFacts
  <2>6. RingExact' /\ Zombies'
    BY Zenon, <1>1, <1>5 DEF IInv, RingExact, InRing, Zombies
  <2> QED BY Zenon, <2>3, <2>4, <2>5, <2>6 DEF IInv
<1> QED BY Zenon, <1>1, <1>4, <1>5

\* The executing task's progress and mark change, outside the scheduler, to
\* ones an executing task may have.
LEMMA OwnFacts ==
    ASSUME IInv, NEW c \in CPU, NEW t \in Task, Running(c, t), Marked(t)',
           \A u \in Task \ {t} : state'[u] = state[u] /\ at'[u] = at[u],
           UNCHANGED <<cur, on, cpc, lock>>
    PROVE  HolderFacts' /\ StateFacts' /\ OneOwner'
<1>1. /\ cur[c] = t /\ cpc[c] = "run"
      /\ \A d \in CPU \ {c} : cur[d] # t /\ on[d] # t
  BY RunningFacts
<1>2. \A d \in CPU : /\ cur[d] # None => cur[d] \in Task
                     /\ on[d] # None => on[d] \in Task
  BY DEF IInv, TypeOK
<1>3. ASSUME NEW d \in CPU
      PROVE  /\ cpc[d] = "run" /\ cur[d] # None => Marked(cur[d])'
             /\ cpc[d] = "sched" =>
                   state'[cur[d]] \in {"RUNNING", "STOPPED", "SLEEPING", "ZOMBIE"}
             /\ cpc[d] = "switch" =>
                   /\ state'[cur[d]] = "RUNNING"
                   /\ state'[on[d]] \in {"RUNNABLE", "STOPPED", "SLEEPING", "ZOMBIE"}
  <2>1. CASE d = c
    BY Zenon, <1>1, <2>1 DEF Marked
  <2>2. CASE d # c
    <3>1. /\ cpc[d] = "run" /\ cur[d] # None => Marked(cur[d])
          /\ cpc[d] = "sched" =>
                state[cur[d]] \in {"RUNNING", "STOPPED", "SLEEPING", "ZOMBIE"}
          /\ cpc[d] = "switch" =>
                /\ state[cur[d]] = "RUNNING"
                /\ state[on[d]] \in {"RUNNABLE", "STOPPED", "SLEEPING", "ZOMBIE"}
      BY Zenon DEF IInv, StateFacts
    <3>2. cpc[d] # "run" => cur[d] # None /\ on[d] # None
      BY Zenon DEF IInv, HolderFacts
    <3>3. cur[d] # None => state'[cur[d]] = state[cur[d]] /\ at'[cur[d]] = at[cur[d]]
      BY Zenon, <1>1, <1>2, <2>2
    <3>4. on[d] # None => state'[on[d]] = state[on[d]]
      BY Zenon, <1>1, <1>2, <2>2
    <3>5. cpc[d] = "run" /\ cur[d] # None => Marked(cur[d])'
      BY Zenon, <3>1, <3>3 DEF Marked
    <3>6. cpc[d] = "sched" \/ cpc[d] = "switch" => cpc[d] # "run"
      OBVIOUS
    <3> QED BY Zenon, <3>1, <3>2, <3>3, <3>4, <3>5, <3>6
  <2> QED BY <2>1, <2>2
<1>4. StateFacts'
  BY Zenon, <1>3 DEF StateFacts
<1>5. HolderFacts'
  BY Zenon DEF IInv, HolderFacts
<1>6. OneOwner'
  BY Zenon DEF IInv, OneOwner
<1> QED BY <1>4, <1>5, <1>6

LEMMA DeliverIInv ==
    ASSUME IInv, TypeOK', NEW c \in CPU, signal_deliver_pending(c) PROVE IInv'
<1>1. PICK t \in Proc : \E sig :
        /\ Running(c, t) /\ at[t] = "code"
        /\ at' = [at EXCEPT ![t] = IF sig = "KILL" THEN "dying"
                                   ELSE IF sig = "STOP" THEN "stop" ELSE @]
        /\ UNCHANGED <<state, ring, reap_list, sleep, parent, cur, on, cpc, lock>>
  BY Zenon DEF signal_deliver_pending
<1>a. UNCHANGED <<state, ring, reap_list, cur, on, cpc, lock>>
  BY Zenon, <1>1
<1>2. t \in Task /\ \A u \in Task \ {t} : state'[u] = state[u] /\ at'[u] = at[u]
  BY <1>1 DEF IInv, TypeOK, Task
<1>3. state[t] = "RUNNING"
  BY <1>1, RunningMarked
<1>4. Marked(t)'
  BY Zenon, <1>1, <1>3 DEF Marked
<1>5. HolderFacts' /\ StateFacts' /\ OneOwner'
  BY Zenon, <1>1, <1>2, <1>4, OwnFacts
<1>6. IdleFacts'
  BY Zenon, <1>a DEF IInv, IdleFacts
<1>7. RingExact' /\ Zombies'
  BY Zenon, <1>a DEF IInv, RingExact, InRing, Zombies
<1> QED BY Zenon, <1>5, <1>6, <1>7 DEF IInv

LEMMA StopIInv == ASSUME IInv, TypeOK', NEW c \in CPU, StoreStopped(c) PROVE IInv'
<1>1. PICK t \in Proc :
        /\ Running(c, t) /\ at[t] = "stop"
        /\ state' = [state EXCEPT ![t] = "STOPPED"]
        /\ at' = [at EXCEPT ![t] = "stopped"]
        /\ UNCHANGED <<ring, reap_list, sleep, pending, parent, cur, on, cpc, lock>>
  BY Zenon DEF StoreStopped
<1>2. t \in Task /\ t \notin CPU /\ CPU \subseteq Task
  BY TaskAssumption DEF Task
<1>3. state[t] = "RUNNING"
  BY <1>1, RunningMarked
<1>4. /\ state'[t] = "STOPPED" /\ at'[t] = "stopped"
      /\ \A u \in Task \ {t} : state'[u] = state[u] /\ at'[u] = at[u]
  BY <1>1, <1>2 DEF IInv, TypeOK
<1>5. Marked(t)'
  BY Zenon, <1>4 DEF Marked
<1>6. HolderFacts' /\ StateFacts' /\ OneOwner'
  BY Zenon, <1>1, <1>2, <1>4, <1>5, OwnFacts
<1>7. IdleFacts'
  BY Zenon, <1>1, <1>2, <1>4 DEF IInv, IdleFacts
<1>8. RingExact'
  BY Zenon, <1>1, <1>2, <1>3, <1>4, RingIs DEF IInv
<1>9. Zombies'
  BY <1>1, <1>2, <1>3, <1>4 DEF IInv, Zombies
<1> QED BY Zenon, <1>6, <1>7, <1>8, <1>9 DEF IInv

\* The clock changes only what SLEEPING tasks wait for, wherever it falls.
LEMMA QuietStep ==
    ASSUME IInv, TypeOK',
           UNCHANGED <<state, ring, reap_list, at, cur, on, cpc, lock>>
    PROVE  IInv'
<1>1. RingExact' /\ Zombies'
  BY Zenon DEF IInv, RingExact, InRing, Zombies
<1>4. HolderFacts' /\ OneOwner'
  BY Zenon DEF IInv, HolderFacts, OneOwner
<1>2. StateFacts'
  BY Zenon DEF IInv, StateFacts, Marked
<1>3. IdleFacts'
  BY Zenon DEF IInv, IdleFacts
<1> QED BY Zenon, <1>1, <1>2, <1>3, <1>4 DEF IInv

LEMMA NextIInv == IInv /\ [Next]_vars => IInv' \/ WokenUnderway
<1> SUFFICES ASSUME IInv, [Next]_vars PROVE IInv' \/ WokenUnderway
  OBVIOUS
<1>0. TypeOK'
  BY NextType DEF IInv
<1>1. CASE UNCHANGED vars
  BY Zenon, <1>0, <1>1, QuietStep DEF vars
<1>2. CASE timer_irq
  BY Zenon, <1>0, <1>2, QuietStep DEF timer_irq
<1>3. CASE \E c \in CPU : \/ schedule(c) \/ schedule_locked(c) \/ ctx_switch_unlock(c)
                          \/ NotifyParent(c) \/ task_exit(c)
                          \/ signal_deliver_pending(c) \/ StoreStopped(c)
                          \/ proc_prepare_cpu(c) \/ smp_ap_main(c)
  BY Zenon, <1>0, <1>3, ScheduleIInv, ScheduleLockedIInv, SwitchIInv, NotifyIInv, ExitIInv,
     DeliverIInv, StopIInv, PrepareIInv, StartIInv
<1>4. CASE \E c \in CPU : \/ \E n \in 1..MaxSleep : task_sleep_ticks(c, n)
                          \/ \E t \in Proc : kthread_create_with_pid(c, t)
                          \/ \E t \in Proc, sig \in Signals : task_signal_pid(c, t, sig)
  BY Zenon, <1>0, <1>4, SleepIInv, CreateIInv, SignalIInv
<1> QED BY Zenon, <1>1, <1>2, <1>3, <1>4 DEF Next

-----------------------------------------------------------------------------
(* What the invariant gives. *)

LEMMA Invariance == HSpec => [](raced \/ IInv)
<1>1. HInit => raced \/ IInv
  BY InitIInv DEF HInit
<1>2. (raced \/ IInv) /\ [HNext]_<<vars, raced>> => (raced \/ IInv)'
  <2> SUFFICES ASSUME raced \/ IInv, [HNext]_<<vars, raced>>
               PROVE  raced' \/ IInv'
    OBVIOUS
  <2>1. CASE raced
    BY Zenon, <2>1 DEF HNext
  <2>2. CASE IInv
    <3>1. [Next]_vars /\ (WokenUnderway => raced' \/ UNCHANGED <<vars, raced>>)
      BY Zenon DEF HNext
    <3>2. CASE UNCHANGED <<vars, raced>>
      <4>1. TypeOK'
        BY <2>2, <3>1, NextType DEF IInv
      <4> QED BY Zenon, <2>2, <3>2, <4>1, QuietStep DEF vars
    <3>3. CASE ~UNCHANGED <<vars, raced>>
      BY Zenon, <2>2, <3>1, <3>3, NextIInv
    <3> QED BY <3>2, <3>3
  <2> QED BY <2>1, <2>2
<1> QED BY <1>1, <1>2, PTL DEF HSpec

\* However many CPUs run the scheduler, and whatever stops, continues, exits
\* and ticks interleave with it, the handoff of ctx_switch_unlock keeps every
\* kernel stack on one CPU: two CPUs share one only after the clock or a
\* SIGCONT has woken a task that its CPU goes on executing.
THEOREM StacksExclusive == HSpec => []StackUnshared
<1>1. raced \/ IInv => StackUnshared
  <2> SUFFICES ASSUME IInv, NEW c \in CPU, NEW d \in CPU, c # d, on[c] # None
               PROVE  on[c] # on[d] /\ cur[d] # on[c]
    BY Zenon DEF StackUnshared, OneStack
  <2>1. cur[c] # None /\ cur[c] # cur[d] /\ on[c] # cur[d]
    BY Zenon DEF IInv, HolderFacts, OneOwner
  <2>2. CASE on[d] = cur[d]
    BY Zenon, <2>1, <2>2
  <2>3. CASE on[d] # cur[d]
    <3>1. lock = d /\ cpc[c] = "run" /\ on[c] = cur[c]
      BY Zenon, <2>3 DEF IInv, HolderFacts
    <3>2. cur[d] # None
      BY Zenon, <2>3 DEF IInv, HolderFacts
    <3>3. on[d] # cur[c]
      BY Zenon, <3>2 DEF IInv, OneOwner
    <3> QED BY Zenon, <2>1, <3>1, <3>3
  <2> QED BY <2>2, <2>3
<1> QED BY <1>1, Invariance, PTL

\* reap_locked's test for the current task is enough: no CPU's task or stack
\* is freed under it.
THEOREM NothingFreedInUse == HSpec => []NoneFreedInUse
<1>1. raced \/ IInv => NoneFreedInUse
  <2> SUFFICES ASSUME IInv, NEW c \in CPU, on[c] # None
               PROVE  state[on[c]] # "FREE" /\ state[cur[c]] # "FREE"
    BY Zenon DEF NoneFreedInUse, NotFreed
  <2>1. cur[c] # None /\ cpc[c] \in {"run", "sched", "switch"}
    BY Zenon DEF IInv, HolderFacts, TypeOK
  <2>2. cpc[c] # "switch" => on[c] = cur[c]
    BY Zenon, <2>1 DEF IInv, HolderFacts
  <2>3. state[cur[c]] \in {"RUNNING", "STOPPED", "SLEEPING", "ZOMBIE"}
    BY Zenon, <2>1 DEF IInv, StateFacts, Marked
  <2>4. cpc[c] = "switch" => state[on[c]] # "FREE"
    BY Zenon DEF IInv, StateFacts
  <2> QED BY Zenon, <2>2, <2>3, <2>4
<1> QED BY <1>1, Invariance, PTL

\* Every live task is in the run ring exactly once.
THEOREM RingKept == HSpec => []RingWhole
<1>1. raced \/ IInv => RingWhole
  BY Zenon DEF IInv, RingWhole
<1> QED BY <1>1, Invariance, PTL

\* The pinned idle tasks are enough: no CPU ever finds nothing to run.
THEOREM NeverPanics == HSpec => []AlwaysATask
<1>1. raced \/ IInv => AlwaysATask
  <2> SUFFICES ASSUME IInv, NEW c \in CPU, cpc[c] = "sched"
               PROVE  Eligible(Settled(c), c) # {} \/ Settled(c)[cur[c]] = "RUNNING"
    BY Zenon DEF AlwaysATask, NoPanic
  <2>1. /\ cur[c] \in Task
        /\ \A t \in Task : state[t] = "RUNNING" => Settled(c)[t] = state[t]
        /\ \A t \in Task : Settled(c)[t] # state[t] => state[t] \in {"ZOMBIE", "SLEEPING"}
    BY SettledFacts
  <2>2. /\ c \in Task /\ cur[c] # None /\ c \notin Proc /\ c # Kernel
    BY <2>1, TaskAssumption DEF Task
  <2>3. state[c] \in {"RUNNABLE", "RUNNING"} /\ (state[c] = "RUNNING" => cur[c] = c)
    BY Zenon, <2>2 DEF IInv, IdleFacts
  <2>4. CASE state[c] = "RUNNING"
    BY Zenon, <2>1, <2>2, <2>3, <2>4
  <2>5. CASE state[c] = "RUNNABLE"
    <3>1. InRing(c)
      BY <2>2, <2>5 DEF IInv, RingExact
    <3>2. Settled(c)[c] = "RUNNABLE"
      BY Zenon, <2>1, <2>2, <2>5
    <3>3. c \in Eligible(Settled(c), c)
      BY Zenon, <2>2, <3>1, <3>2 DEF Eligible, Affine
    <3> QED BY Zenon, <3>3
  <2> QED BY <2>3, <2>4, <2>5
<1> QED BY <1>1, Invariance, PTL

\* Outside the scheduler a CPU executes a task that is marked RUNNING, or one
\* that has marked itself STOPPED and is about to call schedule: no other
\* mark is ever put on a task that executes.
THEOREM MarkedRunning == HSpec => []ExecutesOwn
<1>1. raced \/ IInv => ExecutesOwn
  <2> SUFFICES ASSUME IInv, NEW c \in CPU, cpc[c] = "run", on[c] # None
               PROVE  Marked(on[c])
    BY Zenon DEF ExecutesOwn, Marked
  <2> QED BY Zenon DEF IInv, HolderFacts, StateFacts
<1> QED BY <1>1, Invariance, PTL
=============================================================================
