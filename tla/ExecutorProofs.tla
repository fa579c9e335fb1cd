--------------------------- MODULE ExecutorProofs ---------------------------
(***************************************************************************)
(* Safety of the executor, for any tasks and any programs: no task is lost *)
(* or queued twice, the lock is free in every poll, nobody is overtaken.   *)
(***************************************************************************)
EXTENDS Executor, TLAPS

\* The Mutex is taken in the three statements between a lock and the drop of
\* its guard, so that lock() always finds it free.
LockState ==
  /\ ~panicked
  /\ is_taken <=> pc \in {"pop", "requeue", "spawn"}

\* A task has been spawned if and only if the program that spawns it has come
\* past that point: the next spawn is always that of a new task.
SpawnState ==
  /\ \A t \in Tasks : \A i \in Spawns(t) : Program[t][i].task \in spawned <=> i < at[t]
  /\ pc = "spawn" => ~AtEnd(running) /\ at[running] \in Spawns(running)
  /\ ToSet(AtBoot) \subseteq spawned

\* Only a task that was spawned can finish.
FinishedSpawned == finished \subseteq spawned

\* Whoever was polled while a task waited is not in front of it.
RoundRobin ==
  \A i, j \in DOMAIN task_queue : j < i => task_queue[j] \notin since[task_queue[i]]

(* The inductive invariant.  TasksAccounted survives a spawn only because  *)
(* of SpawnState, and a pop because the queue holds no task twice, which   *)
(* is what RoundRobin needs as well; every lock() succeeds because of      *)
(* LockState.                                                              *)
IInv == TypeOK /\ TasksAccounted /\ FinishedSpawned /\ LockState /\ SpawnState /\ RoundRobin

Injective(s) == \A i, j \in DOMAIN s : s[i] = s[j] => i = j

-----------------------------------------------------------------------------
(* What push_back and pop_front do to the queue.                           *)

\* push_back adds one element behind all others.
LEMMA AppendFacts ==
  ASSUME NEW S, NEW s \in Seq(S), NEW e \in S
  PROVE  /\ Append(s, e) \in Seq(S)
         /\ DOMAIN Append(s, e) = 1..(Len(s) + 1)
         /\ DOMAIN s = 1..Len(s) /\ Len(s) \in Nat
         /\ \A i \in DOMAIN s : Append(s, e)[i] = s[i]
         /\ Append(s, e)[Len(s) + 1] = e
         /\ ToSet(Append(s, e)) = ToSet(s) \cup {e}
<1>1. /\ Append(s, e) \in Seq(S)
      /\ DOMAIN Append(s, e) = 1..(Len(s) + 1)
      /\ DOMAIN s = 1..Len(s) /\ Len(s) \in Nat
      /\ \A i \in DOMAIN s : Append(s, e)[i] = s[i]
      /\ Append(s, e)[Len(s) + 1] = e
  OBVIOUS
<1>2. 1..(Len(s) + 1) = 1..Len(s) \cup {Len(s) + 1}
  BY <1>1
<1>3. ToSet(Append(s, e)) = ToSet(s) \cup {e}
  BY <1>1, <1>2 DEF ToSet
<1> QED
  BY <1>1, <1>3

\* pop_front takes the first element; of a queue that holds nothing twice it
\* takes all there is of it.
LEMMA TailFacts ==
  ASSUME NEW S, NEW s \in Seq(S), s # << >>
  PROVE  /\ Tail(s) \in Seq(S)
         /\ Head(s) \in S /\ Head(s) = s[1]
         /\ Len(s) \in Nat \ {0} /\ DOMAIN s = 1..Len(s)
         /\ DOMAIN Tail(s) = 1..(Len(s) - 1)
         /\ \A i \in DOMAIN Tail(s) : Tail(s)[i] = s[i + 1]
         /\ ToSet(s) = ToSet(Tail(s)) \cup {Head(s)}
         /\ Injective(s) => Head(s) \notin ToSet(Tail(s)) /\ Injective(Tail(s))
<1>1. /\ Tail(s) \in Seq(S)
      /\ Head(s) \in S /\ Head(s) = s[1]
      /\ Len(s) \in Nat \ {0} /\ DOMAIN s = 1..Len(s)
      /\ DOMAIN Tail(s) = 1..(Len(s) - 1)
      /\ \A i \in DOMAIN Tail(s) : Tail(s)[i] = s[i + 1]
  OBVIOUS
<1>2. ToSet(s) = ToSet(Tail(s)) \cup {Head(s)}
  <2>1. ASSUME NEW x \in ToSet(s) PROVE x \in ToSet(Tail(s)) \cup {Head(s)}
    <3>1. PICK i \in 1..Len(s) : x = s[i]
      BY <1>1 DEF ToSet
    <3>2. CASE i = 1
      BY <1>1, <3>1, <3>2
    <3>3. CASE i # 1
      <4>1. i - 1 \in DOMAIN Tail(s) /\ Tail(s)[i - 1] = s[i]
        BY <1>1, <3>1, <3>3
      <4> QED
        BY <3>1, <4>1 DEF ToSet
    <3> QED
      BY <3>2, <3>3
  <2>2. ASSUME NEW x \in ToSet(Tail(s)) PROVE x \in ToSet(s)
    <3>1. PICK i \in DOMAIN Tail(s) : x = Tail(s)[i]
      BY DEF ToSet
    <3>2. i + 1 \in DOMAIN s /\ x = s[i + 1]
      BY <1>1, <3>1
    <3> QED
      BY <3>2 DEF ToSet
  <2>3. Head(s) \in ToSet(s)
    BY <1>1 DEF ToSet
  <2> QED
    BY <2>1, <2>2, <2>3
<1>3. ASSUME Injective(s) PROVE Head(s) \notin ToSet(Tail(s)) /\ Injective(Tail(s))
  BY <1>1, <1>3 DEF Injective, ToSet
<1> QED
  BY <1>1, <1>2, <1>3

\* The two marks of a sleep that has no deadline are distinct numbers below
\* every timestamp.
LEMMA Numbers == NotStarted = -2 /\ Elapsed = -1
BY DEF NotStarted, Elapsed

\* The queue of efi_main: the tasks spawned before the executor starts.
LEMMA InitIInv == Init => IInv
<1> SUFFICES ASSUME Init PROVE IInv
  OBVIOUS
<1>1. TypeOK
  <2>1. ToSet(AtBoot) \subseteq Tasks
    BY SpawnAssumption DEF ToSet
  <2>2. at \in [Tasks -> Nat \ {0}] /\ left \in [Tasks -> Nat \cup {Elapsed, NotStarted}]
    BY DEF Init
  <2>3. polled \in [Tasks -> BOOLEAN] /\ since \in [Tasks -> SUBSET Tasks]
    BY DEF Init
  <2> QED
    BY <2>1, <2>2, <2>3, SpawnAssumption DEF Init, TypeOK
<1>2. TasksAccounted
  <2>1. NoTask \notin ToSet(AtBoot)
    BY ProgramAssumption, SpawnAssumption DEF ToSet
  <2> QED
    BY <2>1, SpawnAssumption DEF Init, TasksAccounted
<1>3. LockState
  BY DEF Init, LockState
<1>4. SpawnState
  <2>1. ASSUME NEW t \in Tasks, NEW i \in Spawns(t)
        PROVE  Program[t][i].task \in spawned <=> i < at[t]
    <3>1. Program[t][i].task \notin spawned
      BY SpawnAssumption DEF Init
    <3>2. i \in 1..Len(Program[t]) /\ Len(Program[t]) \in Nat /\ at[t] = 1
      BY ProgramAssumption DEF Init, Spawns
    <3> QED
      BY <3>1, <3>2
  <2> QED
    BY <2>1 DEF Init, SpawnState
<1>5. RoundRobin
  <2>1. \A i \in DOMAIN AtBoot : AtBoot[i] \in Tasks
    BY SpawnAssumption
  <2> QED
    BY <2>1 DEF Init, RoundRobin
<1> QED
  BY <1>1, <1>2, <1>3, <1>4, <1>5 DEF IInv, FinishedSpawned, Init

-----------------------------------------------------------------------------
(* One lemma per group of actions.                                         *)

\* lock() finds the Mutex free in the three places it is called, and nothing
\* but the lock and the place in the code changes.
LEMMA LockStep ==
  ASSUME IInv, RunLock \/ RequeueLock \/ SpawnLock
  PROVE  IInv'
<1> USE DEF IInv
<1>1. ~is_taken /\ ~panicked
  BY DEF LockState, RunLock, RequeueLock, SpawnLock, Doing
<1>2. /\ is_taken' = TRUE /\ panicked' = panicked
      /\ UNCHANGED <<task_queue, running, at, polled, left, spawned, finished, since>>
      /\ \/ pc = "lock" /\ pc' = "pop"
         \/ pc = "requeue lock" /\ pc' = "requeue"
         \/ Doing("spawn") /\ pc' = "spawn"
  BY <1>1 DEF RunLock, RequeueLock, SpawnLock, Lock
<1>3. TypeOK'
  BY <1>2 DEF TypeOK, Doing
<1>4. TasksAccounted'
  BY <1>2 DEF TasksAccounted
<1>5. LockState'
  BY <1>1, <1>2 DEF LockState
<1>6. SpawnState'
  <2>1. Doing("spawn") => ~AtEnd(running) /\ at[running] \in Spawns(running)
    <3> SUFFICES ASSUME Doing("spawn") PROVE ~AtEnd(running) /\ at[running] \in Spawns(running)
      OBVIOUS
    <3>1. running \in Tasks /\ at[running] \in Nat \ {0}
      BY DEF TypeOK, Doing
    <3> QED
      BY <3>1, ProgramAssumption DEF Doing, AtEnd, Spawns
  <2> QED
    BY <1>2, <2>1 DEF SpawnState, AtEnd
<1>7. RoundRobin'
  BY <1>2 DEF RoundRobin
<1> QED
  BY <1>2, <1>3, <1>4, <1>5, <1>6, <1>7 DEF FinishedSpawned

\* pop_front: the task goes from the queue into the hands of run.
LEMMA PopStep ==
  ASSUME IInv, RunPop
  PROVE  IInv'
<1> USE DEF IInv
<1>0. pc = "pop" /\ running = NoTask /\ is_taken' = FALSE
      /\ UNCHANGED <<at, polled, left, spawned, finished, panicked>>
  BY DEF RunPop, TypeOK
<1>1. CASE task_queue = << >>
  <2>1. pc' = "lock" /\ UNCHANGED <<running, task_queue, since>>
    BY <1>1 DEF RunPop
  <2>2. TypeOK'
    BY <1>0, <2>1 DEF TypeOK
  <2>3. TasksAccounted' /\ LockState' /\ RoundRobin'
    BY <1>0, <2>1 DEF TasksAccounted, LockState, RoundRobin
  <2>4. SpawnState'
    BY <1>0, <2>1 DEF SpawnState
  <2> QED
    BY <1>0, <2>2, <2>3, <2>4 DEF FinishedSpawned
<1>2. CASE task_queue # << >>
  <2>1. /\ running' = Head(task_queue)
        /\ task_queue' = Tail(task_queue)
        /\ since' = [t \in Tasks |-> IF t \in ToSet(Tail(task_queue))
                                     THEN since[t] \cup {Head(task_queue)} ELSE since[t]]
        /\ pc' = "poll"
    BY <1>2 DEF RunPop
  <2>2. task_queue \in Seq(Tasks) /\ Injective(task_queue)
    BY DEF TypeOK, TasksAccounted, Injective
  <2>3. /\ Tail(task_queue) \in Seq(Tasks)
        /\ Head(task_queue) \in Tasks /\ Head(task_queue) = task_queue[1]
        /\ Len(task_queue) \in Nat \ {0} /\ DOMAIN task_queue = 1..Len(task_queue)
        /\ DOMAIN Tail(task_queue) = 1..(Len(task_queue) - 1)
        /\ \A i \in DOMAIN Tail(task_queue) : Tail(task_queue)[i] = task_queue[i + 1]
        /\ ToSet(task_queue) = ToSet(Tail(task_queue)) \cup {Head(task_queue)}
        /\ Head(task_queue) \notin ToSet(Tail(task_queue)) /\ Injective(Tail(task_queue))
    BY <1>2, <2>2, TailFacts
  <2>4. TypeOK'
    <3>1. since' \in [Tasks -> SUBSET Tasks]
      BY <2>1, <2>3 DEF TypeOK
    <3>2. running' \in Tasks /\ running' # NoTask
      BY <2>1, <2>3, ProgramAssumption
    <3> QED
      BY <1>0, <2>1, <2>3, <3>1, <3>2 DEF TypeOK
  <2>5. TasksAccounted'
    <3>1. NoTask \notin ToSet(task_queue)
      BY <2>2, ProgramAssumption DEF ToSet
    <3> QED
      BY <1>0, <2>1, <2>3, <3>1 DEF TasksAccounted, Injective
  <2>6. LockState'
    BY <1>0, <2>1 DEF LockState
  <2>7. SpawnState'
    BY <1>0, <2>1 DEF SpawnState
  <2>8. RoundRobin'
    <3> SUFFICES ASSUME NEW i \in DOMAIN Tail(task_queue), NEW j \in DOMAIN Tail(task_queue),
                        j < i
                 PROVE  Tail(task_queue)[j] \notin since'[Tail(task_queue)[i]]
      BY <2>1 DEF RoundRobin
    <3> DEFINE t == Tail(task_queue)[i]  u == Tail(task_queue)[j]
    <3>1. t \in Tasks /\ t = task_queue[i + 1] /\ u = task_queue[j + 1]
      BY <2>3
    <3>2. i + 1 \in DOMAIN task_queue /\ j + 1 \in DOMAIN task_queue /\ j + 1 < i + 1
      BY <2>3
    <3>3. u \notin since[t]
      BY <3>1, <3>2 DEF RoundRobin
    <3>4. u # Head(task_queue)
      BY <2>3 DEF ToSet
    <3>5. since'[t] \subseteq since[t] \cup {Head(task_queue)}
      BY <2>1, <3>1
    <3> QED
      BY <3>3, <3>4, <3>5
  <2> QED
    BY <1>0, <2>4, <2>5, <2>6, <2>7, <2>8 DEF FinishedSpawned
<1> QED
  BY <1>1, <1>2

\* push_back of a task that is not in the queue keeps the queue free of
\* repetitions and the order round robin.
LEMMA EnqueueFacts ==
  ASSUME TypeOK, TasksAccounted, RoundRobin,
         NEW t \in Tasks, t \notin ToSet(task_queue), enqueue(t)
  PROVE  /\ task_queue' \in Seq(Tasks)
         /\ since' \in [Tasks -> SUBSET Tasks]
         /\ \A i, j \in DOMAIN task_queue' : task_queue'[i] = task_queue'[j] => i = j
         /\ ToSet(task_queue') = ToSet(task_queue) \cup {t}
         /\ RoundRobin'
<1> DEFINE q == task_queue  n == Len(task_queue)
<1>1. /\ task_queue' \in Seq(Tasks)
      /\ DOMAIN task_queue' = 1..(n + 1)
      /\ DOMAIN q = 1..n /\ n \in Nat
      /\ \A i \in DOMAIN q : task_queue'[i] = q[i]
      /\ task_queue'[n + 1] = t
      /\ ToSet(task_queue') = ToSet(q) \cup {t}
  <2>1. q \in Seq(Tasks) /\ task_queue' = Append(q, t)
    BY DEF TypeOK, enqueue
  <2> QED
    BY <2>1, AppendFacts
<1>2. since' = [since EXCEPT ![t] = {}] /\ since \in [Tasks -> SUBSET Tasks]
  BY DEF enqueue, TypeOK
<1>3. \A i \in DOMAIN q : q[i] # t /\ q[i] \in Tasks
  <2>1. q \in Seq(Tasks)
    BY DEF TypeOK
  <2>2. \A i \in DOMAIN q : q[i] \in ToSet(q)
    BY DEF ToSet
  <2> QED
    BY <2>1, <2>2
<1>4. \A i \in DOMAIN task_queue' : i \in DOMAIN q \/ i = n + 1
  BY <1>1
<1>5. ASSUME NEW i \in DOMAIN task_queue', NEW j \in DOMAIN task_queue',
             task_queue'[i] = task_queue'[j]
      PROVE  i = j
  BY <1>1, <1>3, <1>4, <1>5 DEF TasksAccounted
<1>6. ASSUME NEW i \in DOMAIN task_queue', NEW j \in DOMAIN task_queue', j < i
      PROVE  task_queue'[j] \notin since'[task_queue'[i]]
  <2>1. CASE i = n + 1
    BY <1>1, <1>2, <2>1
  <2>2. CASE i \in DOMAIN q
    <3>1. j \in DOMAIN q
      BY <1>1, <1>6, <2>2
    <3>2. since'[q[i]] = since[q[i]]
      BY <1>2, <1>3, <2>2
    <3> QED
      BY <1>1, <1>6, <2>2, <3>1, <3>2 DEF RoundRobin
  <2> QED
    BY <1>4, <2>1, <2>2
<1> QED
  BY <1>1, <1>2, <1>5, <1>6 DEF RoundRobin

\* push_back of the pending task: from the hands of run to the queue's end.
LEMMA RequeueStep ==
  ASSUME IInv, Requeue
  PROVE  IInv'
<1> USE DEF IInv
<1>1. /\ pc = "requeue" /\ pc' = "lock" /\ enqueue(running)
      /\ running' = NoTask /\ is_taken' = FALSE
      /\ UNCHANGED <<at, polled, left, spawned, finished, panicked>>
  BY DEF Requeue
<1>2. running \in Tasks /\ running # NoTask /\ running \notin ToSet(task_queue)
  BY <1>1 DEF TypeOK, TasksAccounted
<1>3. /\ task_queue' \in Seq(Tasks)
      /\ since' \in [Tasks -> SUBSET Tasks]
      /\ \A i, j \in DOMAIN task_queue' : task_queue'[i] = task_queue'[j] => i = j
      /\ ToSet(task_queue') = ToSet(task_queue) \cup {running}
      /\ RoundRobin'
  BY <1>1, <1>2, EnqueueFacts
<1>4. TypeOK'
  BY <1>1, <1>3 DEF TypeOK
<1>5. TasksAccounted'
  <2>1. NoTask \notin ToSet(task_queue')
    BY <1>3, ProgramAssumption DEF ToSet
  <2> QED
    BY <1>1, <1>2, <1>3, <2>1 DEF TasksAccounted
<1>6. LockState' /\ SpawnState'
  BY <1>1 DEF LockState, SpawnState
<1> QED
  BY <1>1, <1>3, <1>4, <1>5, <1>6 DEF FinishedSpawned

\* spawn_global: the task is new, and joins the queue at its end.
LEMMA SpawnStep ==
  ASSUME IInv, SpawnEnqueue
  PROVE  IInv'
<1> USE DEF IInv
<1> DEFINE k == at[running]  new == Program[running][k].task
<1>1. /\ pc = "spawn" /\ pc' = "poll" /\ enqueue(new)
      /\ spawned' = spawned \cup {new} /\ is_taken' = FALSE
      /\ at' = [at EXCEPT ![running] = @ + 1]
      /\ UNCHANGED <<running, polled, left, finished, panicked>>
  BY DEF SpawnEnqueue, Proceed
<1>2. running \in Tasks /\ running # NoTask /\ k \in Spawns(running) /\ k \in Nat \ {0}
  BY <1>1 DEF TypeOK, SpawnState
<1>3. new \in Tasks /\ new # NoTask
  BY <1>2, ProgramAssumption DEF Spawns
<1>4. new \notin spawned
  <2>1. ~(k < k)
    BY <1>2
  <2> QED
    BY <1>2, <2>1 DEF SpawnState
<1>5. new \notin ToSet(task_queue) /\ new # running
  BY <1>2, <1>3, <1>4 DEF TasksAccounted
<1>6. /\ task_queue' \in Seq(Tasks)
      /\ since' \in [Tasks -> SUBSET Tasks]
      /\ \A i, j \in DOMAIN task_queue' : task_queue'[i] = task_queue'[j] => i = j
      /\ ToSet(task_queue') = ToSet(task_queue) \cup {new}
      /\ RoundRobin'
  BY <1>1, <1>3, <1>5, EnqueueFacts
<1>7. TypeOK'
  <2>1. at' \in [Tasks -> Nat \ {0}]
    BY <1>1, <1>2 DEF TypeOK
  <2>2. spawned' \subseteq Tasks
    BY <1>1, <1>3 DEF TypeOK
  <2> QED
    BY <1>1, <1>6, <2>1, <2>2 DEF TypeOK
<1>8. TasksAccounted'
  <2>1. new \notin finished
    BY <1>4 DEF FinishedSpawned
  <2> QED
    BY <1>1, <1>3, <1>5, <1>6, <2>1 DEF TasksAccounted
<1>9. LockState'
  BY <1>1 DEF LockState
<1>10. SpawnState'
  <2>1. ASSUME NEW t \in Tasks, NEW i \in Spawns(t)
        PROVE  Program[t][i].task \in spawned' <=> i < at'[t]
    <3>0. i \in Nat /\ at[t] \in Nat
      <4>1. at \in [Tasks -> Nat \ {0}]
        BY DEF TypeOK
      <4> QED
        BY <4>1, ProgramAssumption DEF Spawns
    <3>1. CASE t = running /\ i = k
      BY <1>1, <1>2, <3>1 DEF TypeOK
    <3>2. CASE t = running /\ i # k
      <4>1. Program[t][i].task # new
        BY <1>2, <3>2, SpawnAssumption
      <4>2. Program[t][i].task \in spawned <=> i < k
        BY <3>2 DEF SpawnState
      <4>3. at'[t] = k + 1
        BY <1>1, <1>2, <3>2 DEF TypeOK
      <4>4. i < k <=> i < k + 1
        BY <1>2, <3>0, <3>2
      <4> QED
        BY <1>1, <4>1, <4>2, <4>3, <4>4
    <3>3. CASE t # running
      <4>1. Program[t][i].task # new
        BY <1>2, <3>3, SpawnAssumption
      <4>2. at'[t] = at[t]
        BY <1>1, <3>3 DEF TypeOK
      <4> QED
        BY <1>1, <4>1, <4>2 DEF SpawnState
    <3> QED
      BY <3>1, <3>2, <3>3
  <2>2. ToSet(AtBoot) \subseteq spawned'
    BY <1>1 DEF SpawnState
  <2> QED
    BY <1>1, <2>1, <2>2 DEF SpawnState
<1> QED
  BY <1>1, <1>6, <1>7, <1>8, <1>9, <1>10 DEF FinishedSpawned

\* A step of a task that is no spawn: its place in its program changes, past
\* no spawn, or it is finished.
LEMMA PollStep ==
  ASSUME IInv, PollYield \/ StartSleep \/ PollSleep \/ PollEnd
  PROVE  IInv'
<1> USE DEF IInv
<1>1. /\ pc = "poll" /\ running \in Tasks /\ running # NoTask
      /\ at[running] \in Nat \ {0}
      /\ UNCHANGED <<task_queue, is_taken, spawned, panicked, since>>
  BY DEF TypeOK, PollYield, StartSleep, PollSleep, PollEnd, Doing
<1>2. TypeOK'
  <2>0. /\ at \in [Tasks -> Nat \ {0}] /\ polled \in [Tasks -> BOOLEAN]
        /\ left \in [Tasks -> Nat \cup {Elapsed, NotStarted}] /\ finished \subseteq Tasks
    BY DEF TypeOK
  <2>1. /\ running' \in Tasks \cup {NoTask}
        /\ pc' \in {"lock", "poll", "requeue lock"}
        /\ running' = NoTask <=> pc' = "lock"
    BY <1>1 DEF PollYield, StartSleep, PollSleep, PollEnd
  <2>2. at' \in [Tasks -> Nat \ {0}]
    <3>1. \/ at' = at
          \/ at' = [at EXCEPT ![running] = @ + 1]
          \/ at' = [at EXCEPT ![running] = 1]
      BY DEF PollYield, StartSleep, PollSleep, PollEnd, Proceed
    <3> QED
      BY <1>1, <2>0, <3>1
  <2>3. polled' \in [Tasks -> BOOLEAN]
    <3>1. polled' = polled \/ polled' = [polled EXCEPT ![running] = ~@]
      BY DEF PollYield, StartSleep, PollSleep, PollEnd
    <3> QED
      BY <1>1, <2>0, <3>1
  <2>4. left' \in [Tasks -> Nat \cup {Elapsed, NotStarted}]
    <3>1. CASE StartSleep
      <4>1. at[running] \in DOMAIN Program[running]
        BY <1>1, <3>1, ProgramAssumption DEF StartSleep, Doing, AtEnd
      <4>2. Program[running][at[running]].ticks \in Nat
        BY <1>1, <3>1, <4>1, ProgramAssumption DEF StartSleep, Doing
      <4> QED
        BY <1>1, <2>0, <3>1, <4>2 DEF StartSleep
    <3>2. CASE ~StartSleep
      BY <1>1, <2>0, <3>2 DEF PollYield, PollSleep, PollEnd
    <3> QED
      BY <3>1, <3>2
  <2>5. finished' \subseteq Tasks
    BY <1>1, <2>0 DEF PollYield, StartSleep, PollSleep, PollEnd
  <2> QED
    BY <1>1, <2>1, <2>2, <2>3, <2>4, <2>5 DEF TypeOK
<1>3. TasksAccounted' /\ FinishedSpawned'
  <2>1. CASE PollYield \/ StartSleep \/ PollSleep
    <3>1. UNCHANGED <<running, finished>>
      BY <2>1 DEF PollYield, StartSleep, PollSleep
    <3> QED
      BY <1>1, <3>1 DEF TasksAccounted, FinishedSpawned
  <2>2. CASE PollEnd /\ running \in Loops
    BY <1>1, <2>2 DEF TasksAccounted, FinishedSpawned, PollEnd
  <2>3. CASE PollEnd /\ running \notin Loops
    <3>1. finished' = finished \cup {running} /\ running' = NoTask
      BY <2>3 DEF PollEnd
    <3>2. NoTask \notin ToSet(task_queue)
      <4>1. task_queue \in Seq(Tasks)
        BY DEF TypeOK
      <4> QED
        BY <4>1, ProgramAssumption DEF ToSet
    <3>3. running \in spawned
      BY <1>1 DEF TasksAccounted
    <3> QED
      BY <1>1, <3>1, <3>2, <3>3 DEF TasksAccounted, FinishedSpawned
  <2> QED
    BY <2>1, <2>2, <2>3
<1>4. LockState'
  BY <1>1 DEF LockState, PollYield, StartSleep, PollSleep, PollEnd
<1>5. SpawnState'
  <2>1. pc' # "spawn"
    BY <1>1 DEF PollYield, StartSleep, PollSleep, PollEnd
  <2>2. ASSUME NEW t \in Tasks, NEW i \in Spawns(t)
        PROVE  i < at[t] <=> i < at'[t]
    <3>0. i \in DOMAIN Program[t] /\ i \in Nat /\ Program[t][i].op = "spawn"
      BY ProgramAssumption DEF Spawns
    <3>1. CASE at' = at
      BY <3>1
    <3>2. CASE Proceed /\ (Doing("yield") \/ Doing("sleep"))
      <4>1. t = running => i # at[running]
        BY <3>0, <3>2 DEF Doing
      <4> QED
        BY <1>1, <3>0, <3>2, <4>1 DEF Proceed, TypeOK
    <3>3. CASE running \in Loops /\ at' = [at EXCEPT ![running] = 1]
      <4>1. t # running
        BY <3>3, SpawnAssumption
      <4> QED
        BY <3>3, <4>1 DEF TypeOK
    <3> QED
      BY <3>1, <3>2, <3>3 DEF PollYield, StartSleep, PollSleep, PollEnd
  <2> QED
    BY <1>1, <2>1, <2>2 DEF SpawnState
<1>6. RoundRobin'
  BY <1>1 DEF RoundRobin
<1> QED
  BY <1>2, <1>3, <1>4, <1>5, <1>6

\* Time passes.
LEMMA TickStep ==
  ASSUME IInv, Tick
  PROVE  IInv'
<1> USE DEF IInv
<1>1. UNCHANGED <<task_queue, is_taken, pc, running, at, polled, spawned, finished,
                  panicked, since>>
  BY DEF Tick
<1>2. left' \in [Tasks -> Nat \cup {Elapsed, NotStarted}]
  <2>1. left \in [Tasks -> Nat \cup {-1, -2}]
    BY Numbers DEF TypeOK
  <2>2. left' = [t \in Tasks |-> IF left[t] >= 0 THEN left[t] - 1 ELSE left[t]]
    BY DEF Tick
  <2>3. left' \in [Tasks -> Nat \cup {-1, -2}]
    BY <2>1, <2>2
  <2> QED
    BY <2>3, Numbers
<1> QED
  BY <1>1, <1>2 DEF TypeOK, TasksAccounted, FinishedSpawned, LockState, SpawnState, AtEnd,
                    RoundRobin

-----------------------------------------------------------------------------
\* The inductive invariant holds in every state Executor::run reaches.
LEMMA SpecIInv == Spec => []IInv
<1>1. Init => IInv
  BY InitIInv
<1>2. IInv /\ [Next]_vars => IInv'
  <2> SUFFICES ASSUME IInv, [Next]_vars PROVE IInv'
    OBVIOUS
  <2>1. CASE Next
    BY <2>1, LockStep, PopStep, RequeueStep, SpawnStep, PollStep, TickStep DEF Next, Step
  <2>2. CASE UNCHANGED vars
    BY <2>2 DEF IInv, vars, TypeOK, TasksAccounted, FinishedSpawned, LockState, SpawnState,
                AtEnd, RoundRobin
  <2> QED
    BY <2>1, <2>2
<1> QED
  BY <1>1, <1>2, PTL DEF Spec

\* Executor::run holds a task exactly while it polls it, and every variable of
\* the executor keeps its type.
THEOREM TypeCorrect == Spec => []TypeOK
<1>1. IInv => TypeOK
  BY DEF IInv
<1> QED
  BY <1>1, SpecIInv, PTL

\* No task is lost, queued twice or polled again after it finished, for any
\* tasks and any programs of awaits and spawns.
THEOREM NoTaskLost == Spec => []TasksAccounted
<1>1. IInv => TasksAccounted
  BY DEF IInv
<1> QED
  BY <1>1, SpecIInv, PTL

\* A task may always call spawn_global: the executor never holds its Mutex
\* over a poll, and no lock() panics.
THEOREM LockIsFree == Spec => []LockFreeDuringPoll
<1>1. IInv => LockFreeDuringPoll
  BY DEF IInv, LockState, LockFreeDuringPoll
<1> QED
  BY <1>1, SpecIInv, PTL

\* Polling is round robin: no task is polled twice while another one waits.
THEOREM RoundRobinPolling == Spec => NoOvertaking
<1> DEFINE Fair == pc = "pop" /\ running' # NoTask =>
                     \A t \in ToSet(Tail(task_queue)) : running' \notin since[t]
<1>1. ASSUME IInv, [Next]_vars PROVE [Fair]_vars
  <2> SUFFICES ASSUME pc = "pop", running' # NoTask,
                      NEW t \in ToSet(Tail(task_queue))
               PROVE  running' \notin since[t] \/ UNCHANGED vars
    OBVIOUS
  <2>1. running = NoTask
    BY <1>1 DEF IInv, TypeOK
  <2>2. CASE RunPop
    <3>1. task_queue # << >> /\ running' = Head(task_queue)
      BY <2>1, <2>2 DEF RunPop
    <3>2. task_queue \in Seq(Tasks)
      BY <1>1 DEF IInv, TypeOK
    <3>3. /\ Head(task_queue) = task_queue[1]
          /\ Len(task_queue) \in Nat \ {0} /\ DOMAIN task_queue = 1..Len(task_queue)
          /\ DOMAIN Tail(task_queue) = 1..(Len(task_queue) - 1)
          /\ \A i \in DOMAIN Tail(task_queue) : Tail(task_queue)[i] = task_queue[i + 1]
      BY <3>1, <3>2, TailFacts
    <3>4. PICK i \in DOMAIN Tail(task_queue) : t = Tail(task_queue)[i]
      BY DEF ToSet
    <3>5. i + 1 \in DOMAIN task_queue /\ 1 \in DOMAIN task_queue /\ 1 < i + 1
          /\ t = task_queue[i + 1]
      BY <3>3, <3>4
    <3> QED
      BY <1>1, <3>1, <3>3, <3>5 DEF IInv, RoundRobin
  <2>3. CASE UNCHANGED running
    BY <2>1, <2>3
  <2> QED
    BY <1>1, <2>2, <2>3 DEF Next, Step, RunLock, RequeueLock, Requeue, PollYield, StartSleep,
       PollSleep, SpawnLock, SpawnEnqueue, PollEnd, Doing, Tick, vars
<1> QED
  BY <1>1, SpecIInv, PTL DEF Spec, NoOvertaking
=============================================================================
