------------------------------ MODULE Executor ------------------------------
(***************************************************************************)
(* The cooperative executor of executor.rs on the one CPU of the kernel:   *)
(* a FIFO queue of tasks under a Mutex, polled in turn with a waker that   *)
(* does nothing.  A task is a program of the awaits and spawns it makes;   *)
(* one poll runs it up to the next await that is not ready.                *)
(*                                                                         *)
(* Nothing preempts a poll, so a lock that is taken when lock() is called  *)
(* stays taken: the 10000 tries fail and the kernel panics.                *)
(***************************************************************************)
EXTENDS Integers, Sequences, SequencesExt

CONSTANTS
  Tasks,
  Program,    \* what each task awaits and spawns, in order
  Loops,      \* the tasks that start over at the end of their program
  AtBoot      \* the tasks efi_main spawns, in order

NoTask == "no task"
NotStarted == -2   \* the TimeoutFuture of the current sleep does not exist yet
Elapsed == -1      \* time_out < global_timestamp()

Yield == [op |-> "yield"]
Sleep(ticks) == [op |-> "sleep", ticks |-> ticks]
Spawn(task) == [op |-> "spawn", task |-> task]

\* A task that loops awaits something in each round.
ASSUME ProgramAssumption ==
  /\ NoTask \notin Tasks
  /\ Loops \subseteq Tasks
  /\ \A t \in Tasks :
       /\ Len(Program[t]) \in Nat
       /\ DOMAIN Program[t] = 1..Len(Program[t])
       /\ \A i \in DOMAIN Program[t] :
            \/ Program[t][i].op = "yield"
            \/ Program[t][i].op = "sleep" /\ Program[t][i].ticks \in Nat
            \/ Program[t][i].op = "spawn" /\ Program[t][i].task \in Tasks
  /\ \A t \in Loops : \E i \in DOMAIN Program[t] : Program[t][i].op # "spawn"

Spawns(t) == { i \in DOMAIN Program[t] : Program[t][i].op = "spawn" }

\* Every call of spawn_global makes a Task of its own; no loop of the kernel
\* spawns.
ASSUME SpawnAssumption ==
  /\ AtBoot \in Seq(Tasks)
  /\ \A i, j \in DOMAIN AtBoot : AtBoot[i] = AtBoot[j] => i = j
  /\ \A t \in Loops : Spawns(t) = {}
  /\ \A t \in Tasks : \A i \in Spawns(t) :
       /\ Program[t][i].task \notin ToSet(AtBoot)
       /\ \A u \in Tasks : \A j \in Spawns(u) :
            Program[t][i].task = Program[u][j].task => t = u /\ i = j

VARIABLES
  task_queue,   \* Executor::task_queue
  is_taken,     \* the flag of GLOBAL_EXECUTOR's Mutex
  pc,           \* where Executor::run is
  running,      \* the task it took from the queue
  at,           \* how far each task has come in its program
  polled,       \* Yield::polled of the Yield each task awaits
  left,         \* ticks until the TimeoutFuture each task awaits is ready
  spawned,      \* tasks given to spawn_global
  finished,     \* tasks whose poll returned Ready
  panicked,     \* lock() gave up
  since         \* history: the tasks polled since each task was enqueued

vars == <<task_queue, is_taken, pc, running, at, polled, left, spawned, finished,
          panicked, since>>

Init ==
  /\ task_queue = AtBoot
  /\ is_taken = FALSE
  /\ pc = "lock"
  /\ running = NoTask
  /\ at = [t \in Tasks |-> 1]
  /\ polled = [t \in Tasks |-> FALSE]
  /\ left = [t \in Tasks |-> NotStarted]
  /\ spawned = ToSet(AtBoot)
  /\ finished = {}
  /\ panicked = FALSE
  /\ since = [t \in Tasks |-> {}]

\* Mutex::lock.
Lock(then) ==
  /\ ~panicked
  /\ IF is_taken
     THEN panicked' = TRUE /\ UNCHANGED <<is_taken, pc>>
     ELSE is_taken' = TRUE /\ pc' = then /\ UNCHANGED panicked

enqueue(t) ==
  /\ task_queue' = Append(task_queue, t)
  /\ since' = [since EXCEPT ![t] = {}]

-----------------------------------------------------------------------------
(* Executor::run.                                                          *)
RunLock ==
  /\ pc = "lock"
  /\ Lock("pop")
  /\ UNCHANGED <<task_queue, running, at, polled, left, spawned, finished, since>>

\* Mutant: the guard is a temporary of the `if let` and lives until its end.
RunPopKeepsGuard ==
  /\ pc = "pop"
  /\ IF task_queue = << >>
     THEN pc' = "lock" /\ is_taken' = FALSE /\ UNCHANGED <<running, task_queue, since>>
     ELSE /\ running' = Head(task_queue)
          /\ task_queue' = Tail(task_queue)
          /\ since' = [t \in Tasks |-> IF t \in ToSet(Tail(task_queue))
                                       THEN since[t] \cup {Head(task_queue)} ELSE since[t]]
          /\ pc' = "poll" /\ UNCHANGED is_taken
  /\ UNCHANGED <<at, polled, left, spawned, finished, panicked>>

\* pop_front; the guard is a temporary of the let and is dropped after it.
RunPop ==
  /\ pc = "pop"
  /\ is_taken' = FALSE
  /\ IF task_queue = << >>
     THEN pc' = "lock" /\ UNCHANGED <<running, task_queue, since>>
     ELSE /\ running' = Head(task_queue)
          /\ task_queue' = Tail(task_queue)
          /\ since' = [t \in Tasks |-> IF t \in ToSet(Tail(task_queue))
                                       THEN since[t] \cup {Head(task_queue)} ELSE since[t]]
          /\ pc' = "poll"
  /\ UNCHANGED <<at, polled, left, spawned, finished, panicked>>

\* Poll::Pending => push_back(task)
RequeueLock ==
  /\ pc = "requeue lock"
  /\ Lock("requeue")
  /\ UNCHANGED <<task_queue, running, at, polled, left, spawned, finished, since>>

\* Mutants: the task goes to the front; the task is forgotten.
RequeueAtFront ==
  /\ pc = "requeue"
  /\ task_queue' = <<running>> \o task_queue
  /\ since' = [since EXCEPT ![running] = {}]
  /\ running' = NoTask
  /\ is_taken' = FALSE
  /\ pc' = "lock"
  /\ UNCHANGED <<at, polled, left, spawned, finished, panicked>>
RequeueForgets ==
  /\ pc = "requeue"
  /\ running' = NoTask
  /\ is_taken' = FALSE
  /\ pc' = "lock"
  /\ UNCHANGED <<task_queue, since, at, polled, left, spawned, finished, panicked>>

Requeue ==
  /\ pc = "requeue"
  /\ enqueue(running)
  /\ running' = NoTask
  /\ is_taken' = FALSE
  /\ pc' = "lock"
  /\ UNCHANGED <<at, polled, left, spawned, finished, panicked>>

-----------------------------------------------------------------------------
(* task.poll(): the next await or spawn of the running task.               *)
AtEnd(t) == at[t] > Len(Program[t])
Doing(op) == pc = "poll" /\ ~AtEnd(running) /\ Program[running][at[running]].op = op

\* The await is over (or the spawn done): go on with the program.
Proceed == at' = [at EXCEPT ![running] = @ + 1]

\* Mutant: the flag is looked at but not set.
PollYieldForever ==
  /\ Doing("yield")
  /\ IF polled[running]
     THEN Proceed /\ polled' = [polled EXCEPT ![running] = FALSE] /\ UNCHANGED pc
     ELSE pc' = "requeue lock" /\ UNCHANGED <<at, polled>>
  /\ UNCHANGED <<task_queue, is_taken, running, left, spawned, finished, panicked, since>>

\* Yield::poll: Pending once.  The next Yield is a new one.
PollYield ==
  /\ Doing("yield")
  /\ polled' = [polled EXCEPT ![running] = ~@]
  /\ IF polled[running]
     THEN Proceed /\ UNCHANGED pc
     ELSE pc' = "requeue lock" /\ UNCHANGED at
  /\ UNCHANGED <<task_queue, is_taken, running, left, spawned, finished, panicked, since>>

\* TimeoutFuture::new
StartSleep ==
  /\ Doing("sleep")
  /\ left[running] = NotStarted
  /\ left' = [left EXCEPT ![running] = Program[running][at[running]].ticks]
  /\ UNCHANGED <<task_queue, is_taken, pc, running, at, polled, spawned, finished,
                 panicked, since>>

\* TimeoutFuture::poll: ready once time_out < now.
PollSleep ==
  /\ Doing("sleep")
  /\ left[running] # NotStarted
  /\ IF left[running] = Elapsed
     THEN /\ Proceed
          /\ left' = [left EXCEPT ![running] = NotStarted]
          /\ UNCHANGED pc
     ELSE pc' = "requeue lock" /\ UNCHANGED <<at, left>>
  /\ UNCHANGED <<task_queue, is_taken, running, polled, spawned, finished, panicked, since>>

\* spawn_global: GLOBAL_EXECUTOR.lock().get_or_insert_default().enqueue(task)
SpawnLock ==
  /\ Doing("spawn")
  /\ Lock("spawn")
  /\ UNCHANGED <<task_queue, running, at, polled, left, spawned, finished, since>>

SpawnEnqueue ==
  /\ pc = "spawn"
  /\ LET t == Program[running][at[running]].task
     IN  enqueue(t) /\ spawned' = spawned \cup {t}
  /\ is_taken' = FALSE
  /\ pc' = "poll"
  /\ Proceed
  /\ UNCHANGED <<running, polled, left, finished, panicked>>

\* The body of a loop { } is over, or the future is Ready: "Task completed".
PollEnd ==
  /\ pc = "poll" /\ AtEnd(running)
  /\ IF running \in Loops
     THEN at' = [at EXCEPT ![running] = 1] /\ UNCHANGED <<pc, running, finished>>
     ELSE /\ finished' = finished \cup {running}
          /\ running' = NoTask
          /\ pc' = "lock"
          /\ UNCHANGED at
  /\ UNCHANGED <<task_queue, is_taken, polled, left, spawned, panicked, since>>

-----------------------------------------------------------------------------
\* The HPET counts on, whatever the CPU does.
Tick ==
  /\ \E t \in Tasks : left[t] >= 0
  /\ left' = [t \in Tasks |-> IF left[t] >= 0 THEN left[t] - 1 ELSE left[t]]
  /\ UNCHANGED <<task_queue, is_taken, pc, running, at, polled, spawned, finished,
                 panicked, since>>

Step ==
  \/ RunLock \/ RunPop \/ RequeueLock \/ Requeue
  \/ PollYield \/ StartSleep \/ PollSleep \/ SpawnLock \/ SpawnEnqueue \/ PollEnd

Next == Step \/ Tick

\* The CPU and the timer do not stop.
Spec == Init /\ [][Next]_vars /\ WF_vars(Step) /\ WF_vars(Tick)

-----------------------------------------------------------------------------
(* Properties.                                                             *)

TypeOK ==
  /\ task_queue \in Seq(Tasks)
  /\ is_taken \in BOOLEAN /\ panicked \in BOOLEAN
  /\ pc \in {"lock", "pop", "poll", "requeue lock", "requeue", "spawn"}
  /\ running \in Tasks \cup {NoTask}
  /\ running = NoTask <=> pc \in {"lock", "pop"}
  /\ at \in [Tasks -> Nat \ {0}]
  /\ polled \in [Tasks -> BOOLEAN]
  /\ left \in [Tasks -> Nat \cup {Elapsed, NotStarted}]
  /\ spawned \subseteq Tasks /\ finished \subseteq Tasks
  /\ since \in [Tasks -> SUBSET Tasks]

\* A task that was spawned and has not finished is in exactly one place: once
\* in the queue, or in the hands of run.  No interleaving of pops, requeues
\* and spawns loses a task, queues it twice or brings back a finished one.
TasksAccounted ==
  /\ \A i, j \in DOMAIN task_queue : task_queue[i] = task_queue[j] => i = j
  /\ running \notin ToSet(task_queue)
  /\ (ToSet(task_queue) \cup {running}) \ {NoTask} = spawned \ finished

\* The executor's Mutex is free whenever a task runs, so that no task can
\* panic the kernel by calling spawn_global.
LockFreeDuringPoll == ~panicked /\ (pc \in {"poll", "requeue lock", "lock"} => ~is_taken)

\* Round robin: between the enqueueing of a task and its poll no other task is
\* polled twice, not even one that was spawned in the meantime.
NoOvertaking ==
  [][pc = "pop" /\ running' # NoTask =>
       \A t \in ToSet(Tail(task_queue)) : running' \notin since[t]]_vars

\* Every spawned task whose program ends finishes, next to tasks that loop
\* for ever, without any waker: polling alone is enough.
TasksFinish == \A t \in Tasks \ Loops : t \in spawned ~> t \in finished

\* A task that loops is polled again and again.
LoopsKeepRunning == \A t \in Loops : t \in spawned ~> running = t
=============================================================================
