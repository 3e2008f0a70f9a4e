------------------------------ MODULE TaskQueue ------------------------------
(***************************************************************************)
(* IO::AsyncIO::AsyncTaskQueue: a bounded queue with priorities.  The only *)
(* threads that wait on its condition variable are producers in            *)
(* EnqueueTask; DequeueTask returns when there is nothing to take.         *)
(*                                                                         *)
(* A critical section of queue_mutex_ is one action.  A producer that      *)
(* waits is "asleep" until it is notified and "woken" until it has the     *)
(* mutex and tests its condition again.  A task is known by its            *)
(* identifier.                                                             *)
(***************************************************************************)
EXTENDS Integers, FiniteSets

CONSTANTS Producers, Priorities,
          MaxQueue,         \* max_queue_size_
          MaxTasks          \* bound on the identifiers given out

ASSUME QueueAssumption ==
  /\ IsFiniteSet(Producers)
  /\ MaxQueue \in Nat \ {0} /\ MaxTasks \in Nat /\ Priorities \subseteq Int

VARIABLES queue,            \* task_queue_: tasks with their priorities
          cancelled,        \* cancelled_tasks_
          is_running,
          counter,          \* task_id_counter_
          producer,         \* what each producer's thread is doing
          taken,            \* history: the tasks DequeueTask returned
          withdrawn         \* history: tasks cancelled while they were queued

queueVars == <<queue, cancelled, is_running, counter, producer, taken, withdrawn>>

QueueTypeOK ==
  /\ queue \subseteq [id : 1 .. MaxTasks, priority : Priorities] /\ IsFiniteSet(queue)
  /\ cancelled \subseteq 1 .. MaxTasks /\ is_running \in BOOLEAN
  /\ counter \in 0 .. MaxTasks
  /\ producer \in [Producers -> {"out", "asleep", "woken"}]
  /\ taken \subseteq 1 .. MaxTasks /\ withdrawn \subseteq 1 .. MaxTasks

QueueInit ==
  /\ queue = {} /\ cancelled = {} /\ is_running = TRUE /\ counter = 0
  /\ producer = [p \in Producers |-> "out"]
  /\ taken = {} /\ withdrawn = {}

Asleep == {p \in Producers : producer[p] = "asleep"}
Woken == {p \in Producers : producer[p] = "woken"}
Room == MaxQueue - Cardinality(queue)
Ids == {t.id : t \in queue}

\* What notify_one may do to the threads that wait; seen is what the section
\* made of the threads itself.
NotifyOne(seen) ==
  IF \E p \in Producers : seen[p] = "asleep"
  THEN \E p \in Producers : seen[p] = "asleep" /\ producer' = [seen EXCEPT ![p] = "woken"]
  ELSE producer' = seen
NotifyAll == producer' = [p \in Producers |-> IF producer[p] = "asleep" THEN "woken" ELSE producer[p]]

Pushed(priority) == queue \cup {[id |-> counter + 1, priority |-> priority]}

(***************************************************************************)
(* EnqueueTask, at its call and each time it is woken.                     *)
(***************************************************************************)
EnqueueWaits(p) ==
  /\ producer[p] \in {"out", "woken"} /\ is_running /\ Room <= 0
  /\ producer' = [producer EXCEPT ![p] = "asleep"]
  /\ UNCHANGED <<queue, cancelled, is_running, counter, taken, withdrawn>>

EnqueuePushes(p, priority) ==
  /\ producer[p] \in {"out", "woken"} /\ is_running /\ Room > 0 /\ counter < MaxTasks
  /\ counter' = counter + 1
  /\ queue' = Pushed(priority)
  /\ NotifyOne([producer EXCEPT ![p] = "out"])
  /\ UNCHANGED <<cancelled, is_running, taken, withdrawn>>

EnqueueRefused(p) ==
  /\ producer[p] = "woken" /\ ~is_running
  /\ producer' = [producer EXCEPT ![p] = "out"]
  /\ UNCHANGED <<queue, cancelled, is_running, counter, taken, withdrawn>>

\* A wait may also end for no reason.
SpuriousWakeup(p) ==
  /\ producer[p] = "asleep"
  /\ producer' = [producer EXCEPT ![p] = "woken"]
  /\ UNCHANGED <<queue, cancelled, is_running, counter, taken, withdrawn>>

TryEnqueueTask(priority) ==
  /\ is_running /\ Room > 0 /\ counter < MaxTasks
  /\ counter' = counter + 1
  /\ queue' = Pushed(priority)
  /\ NotifyOne(producer)
  /\ UNCHANGED <<cancelled, is_running, taken, withdrawn>>

(***************************************************************************)
(* DequeueTask and the control of the queue.                               *)
(***************************************************************************)
\* The tasks that may be on top: the order of equal priorities is not defined.
Tops(tasks) == {t \in tasks : \A u \in tasks : t.priority >= u.priority}

\* Each pop is notified to one waiting thread.
NotifyEach(n) ==
  \E who \in SUBSET Asleep :
    /\ Cardinality(who) = (IF n < Cardinality(Asleep) THEN n ELSE Cardinality(Asleep))
    /\ producer' = [p \in Producers |-> IF p \in who THEN "woken" ELSE producer[p]]

\* Cancelled tasks at the top are thrown away, with their marks, until one that
\* is not cancelled is on top, which is returned, or the queue is empty.
DequeueTask ==
  /\ is_running /\ queue # {}
  /\ \E gone \in SUBSET {t \in queue : t.id \in cancelled} :
       /\ \A t \in gone, u \in queue \ gone : t.priority >= u.priority
       /\ cancelled' = cancelled \ {t.id : t \in gone}
       /\ \/ gone = queue /\ queue' = {} /\ UNCHANGED taken
          \/ \E t \in Tops(queue \ gone) :
               /\ t.id \notin cancelled
               /\ queue' = queue \ (gone \cup {t}) /\ taken' = taken \cup {t.id}
  /\ NotifyEach(Cardinality(queue) - Cardinality(queue'))
  /\ UNCHANGED <<is_running, counter, withdrawn>>

\* CancelTask takes any identifier, of a task that is queued or not.
CancelTask(id) ==
  /\ cancelled' = cancelled \cup {id}
  /\ withdrawn' = IF id \in Ids THEN withdrawn \cup {id} ELSE withdrawn
  /\ UNCHANGED <<queue, is_running, counter, producer, taken>>

\* Fault: the mark of a cancelled task is cleared with the marks of the others.
ClearMarksOnly ==
  /\ cancelled' = {} /\ UNCHANGED queue
  /\ NotifyAll
  /\ UNCHANGED <<is_running, counter, taken, withdrawn>>

Clear ==
  /\ queue' = {} /\ cancelled' = {}
  /\ NotifyAll
  /\ UNCHANGED <<is_running, counter, taken, withdrawn>>

\* Fault: Shutdown wakes one thread only.
ShutdownWakesOne ==
  /\ is_running' = FALSE
  /\ queue' = {} /\ cancelled' = {}
  /\ NotifyOne(producer)
  /\ UNCHANGED <<counter, taken, withdrawn>>

\* It may be called again.  The notification follows the critical section; nobody can
\* fall asleep in between, since is_running_ is false.
Shutdown ==
  /\ is_running' = FALSE
  /\ queue' = {} /\ cancelled' = {}
  /\ NotifyAll
  /\ UNCHANGED <<counter, taken, withdrawn>>

EnqueueStep(p) == EnqueueWaits(p) \/ EnqueueRefused(p)
                  \/ \E k \in Priorities : EnqueuePushes(p, k)

QueueNext ==
  \/ \E p \in Producers : EnqueueStep(p) \/ SpuriousWakeup(p)
  \/ \E k \in Priorities : TryEnqueueTask(k)
  \/ DequeueTask \/ Clear \/ Shutdown
  \/ \E id \in 1 .. MaxTasks : CancelTask(id)

QueueSpec == QueueInit /\ [][QueueNext]_queueVars

(***************************************************************************)
(* Properties.                                                             *)
(***************************************************************************)
\* No wakeup is lost: while a producer sleeps the queue is running, and every
\* free place is one that a woken producer is on its way to.  notify_one from
\* EnqueueTask, which wakes a producer and not a consumer, does no harm.
ProducersWoken ==
  Asleep # {} => is_running /\ Room <= Cardinality(Woken)

\* A task that was cancelled while it was queued is never returned, whatever
\* is cleared and cancelled in between, and no task is returned twice.
CancelledNotTaken ==
  /\ taken \cap withdrawn = {} /\ taken \cap Ids = {}
  /\ withdrawn \cap Ids \subseteq cancelled
=============================================================================
