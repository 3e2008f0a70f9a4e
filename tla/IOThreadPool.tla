---------------------------- MODULE IOThreadPool ----------------------------
(***************************************************************************)
(* IO::AsyncIO::IOThreadPool: a FIFO queue of tasks, a fixed number of     *)
(* worker threads and one condition variable.  Every critical section of   *)
(* mutex_ is one action.  notify_one and notify_all are called after the   *)
(* mutex is released, so they are actions of their own.                    *)
(*                                                                         *)
(* Start and Stop are called by one thread, the pool's owner: in the       *)
(* program only the constructor calls Start and only the destructor calls  *)
(* Stop.  Any thread, a worker that runs a task included, may Enqueue.     *)
(*                                                                         *)
(* late, done and dropped are history variables: no guard reads them.      *)
(***************************************************************************)
EXTENDS Naturals, Sequences, FiniteSets

CONSTANTS Tasks,            \* the tasks handed to Enqueue, each once
          Workers,          \* the threads of workers_: configured_thread_count_ of them
          Clients,          \* other threads that call Enqueue
          NoTask            \* what a worker holds between two tasks

ASSUME WorkersAssumption == IsFiniteSet(Workers) /\ Workers # {}
ASSUME ClientsAssumption == IsFiniteSet(Clients) /\ Clients \cap Workers = {}
ASSUME NoTaskAssumption == NoTask \notin Tasks

VARIABLES tasks,            \* tasks_
          started,          \* started_
          stopping,         \* stopping_
          wpc,              \* where each worker is in WorkerLoop
          running,          \* the task each worker has moved out of the queue
          notifying,        \* threads between their push and their notify_one
          owner,            \* where the owner is in Stop
          submitted,        \* tasks that were handed to Enqueue
          late,             \* tasks pushed after the last worker left the loop
          done,             \* tasks whose call returned
          dropped           \* tasks popped by Stop without being called

vars == <<tasks, started, stopping, wpc, running, notifying, owner,
          submitted, late, done, dropped>>

-----------------------------------------------------------------------------
Threads == Clients \cup Workers

Queued == {tasks[i] : i \in DOMAIN tasks}

InState(s) == {w \in Workers : wpc[w] = s}

\* No worker thread is inside WorkerLoop.
NoWorker == \A w \in Workers : wpc[w] \in {"none", "exited"}

TypeOK ==
  /\ tasks \in Seq(Tasks)
  /\ started \in BOOLEAN
  /\ stopping \in BOOLEAN
  /\ wpc \in [Workers -> {"none", "ready", "waiting", "running", "exited"}]
  /\ running \in [Workers -> Tasks \cup {NoTask}]
  /\ notifying \in SUBSET Threads
  /\ owner \in {"idle", "notify", "join", "drain"}
  /\ submitted \in SUBSET Tasks
  /\ late \in SUBSET Tasks
  /\ done \in SUBSET Tasks
  /\ dropped \in SUBSET Tasks

-----------------------------------------------------------------------------
\* The constructor calls Start: every worker is about to lock mutex_.
Init ==
  /\ tasks = <<>>
  /\ started = TRUE
  /\ stopping = FALSE
  /\ wpc = [w \in Workers |-> "ready"]
  /\ running = [w \in Workers |-> NoTask]
  /\ notifying = {}
  /\ owner = "idle"
  /\ submitted = {}
  /\ late = {}
  /\ done = {}
  /\ dropped = {}

\* Start, when the pool is stopped: with started_ set it returns at once.
Start ==
  /\ owner = "idle"
  /\ ~started
  /\ stopping' = FALSE
  /\ started' = TRUE
  /\ wpc' = [w \in Workers |-> "ready"]
  /\ UNCHANGED <<tasks, running, notifying, owner, submitted, late, done, dropped>>

\* Stop, its first critical section: with started_ unset it returns at once.
StopBegin ==
  /\ owner = "idle"
  /\ started
  /\ stopping' = TRUE
  /\ owner' = "notify"
  /\ UNCHANGED <<tasks, started, wpc, running, notifying, submitted, late, done, dropped>>

\* Fault: notify_one where notify_all is needed.
StopNotifySingle ==
  /\ owner = "notify"
  /\ \/ InState("waiting") = {} /\ UNCHANGED wpc
     \/ \E w \in InState("waiting") : wpc' = [wpc EXCEPT ![w] = "ready"]
  /\ owner' = "join"
  /\ UNCHANGED <<tasks, started, stopping, running, notifying, submitted, late, done, dropped>>

\* Stop: cv_.notify_all()
StopNotify ==
  /\ owner = "notify"
  /\ wpc' = [w \in Workers |-> IF wpc[w] = "waiting" THEN "ready" ELSE wpc[w]]
  /\ owner' = "join"
  /\ UNCHANGED <<tasks, started, stopping, running, notifying, submitted, late, done, dropped>>

\* Fault: Stop joins one worker and does not wait for the others.
StopJoinFirst ==
  /\ owner = "join"
  /\ \E w \in Workers : wpc[w] = "exited"
  /\ owner' = "drain"
  /\ UNCHANGED <<tasks, started, stopping, wpc, running, notifying, submitted, late, done, dropped>>

\* Stop: every worker is joined and workers_ is cleared.
StopJoin ==
  /\ owner = "join"
  /\ \A w \in Workers : wpc[w] = "exited"
  /\ wpc' = [w \in Workers |-> "none"]
  /\ owner' = "drain"
  /\ UNCHANGED <<tasks, started, stopping, running, notifying, submitted, late, done, dropped>>

\* Stop, its second critical section: what is still queued is popped unrun.
StopDrain ==
  /\ owner = "drain"
  /\ started' = FALSE
  /\ tasks' = <<>>
  /\ dropped' = dropped \cup Queued
  /\ owner' = "idle"
  /\ UNCHANGED <<stopping, wpc, running, notifying, submitted, late, done>>

\* Fault: Enqueue notifies only when the queue was empty.
PushNotifyIfEmpty(th, t) ==
  /\ th \in Workers => wpc[th] = "running"
  /\ th \notin notifying
  /\ t \notin submitted
  /\ tasks' = Append(tasks, t)
  /\ submitted' = submitted \cup {t}
  /\ notifying' = IF tasks = <<>> THEN notifying \cup {th} ELSE notifying
  /\ late' = IF started /\ NoWorker THEN late \cup {t} ELSE late
  /\ UNCHANGED <<started, stopping, wpc, running, owner, done, dropped>>

\* Enqueue, its critical section.  It tests neither started_ nor stopping_.
\* A worker enqueues from inside the task it runs.
Push(th, t) ==
  /\ th \in Workers => wpc[th] = "running"
  /\ th \notin notifying
  /\ t \notin submitted
  /\ tasks' = Append(tasks, t)
  /\ submitted' = submitted \cup {t}
  /\ notifying' = notifying \cup {th}
  /\ late' = IF started /\ NoWorker THEN late \cup {t} ELSE late
  /\ UNCHANGED <<started, stopping, wpc, running, owner, done, dropped>>

\* Fault: Enqueue returns without notifying.
NotifyNobody(th) ==
  /\ th \in notifying
  /\ notifying' = notifying \ {th}
  /\ UNCHANGED <<tasks, started, stopping, wpc, running, owner, submitted, late, done, dropped>>

\* Enqueue: cv_.notify_one(), which wakes some waiting worker if there is one.
NotifyOne(th) ==
  /\ th \in notifying
  /\ notifying' = notifying \ {th}
  /\ \/ /\ InState("waiting") = {}
        /\ UNCHANGED wpc
     \/ \E w \in InState("waiting") : wpc' = [wpc EXCEPT ![w] = "ready"]
  /\ UNCHANGED <<tasks, started, stopping, running, owner, submitted, late, done, dropped>>

\* A condition variable may wake a waiter that nobody notified.
SpuriousWake(w) ==
  /\ wpc[w] = "waiting"
  /\ wpc' = [wpc EXCEPT ![w] = "ready"]
  /\ UNCHANGED <<tasks, started, stopping, running, notifying, owner, submitted, late, done, dropped>>

\* WorkerLoop holds mutex_ and the predicate of cv_.wait is false.
WorkerWait(w) ==
  /\ wpc[w] = "ready"
  /\ ~stopping /\ tasks = <<>>
  /\ wpc' = [wpc EXCEPT ![w] = "waiting"]
  /\ UNCHANGED <<tasks, started, stopping, running, notifying, owner, submitted, late, done, dropped>>

\* Fault: a worker leaves as soon as the pool stops, whatever is queued.
WorkerExitEarly(w) ==
  /\ wpc[w] = "ready"
  /\ stopping
  /\ wpc' = [wpc EXCEPT ![w] = "exited"]
  /\ UNCHANGED <<tasks, started, stopping, running, notifying, owner, submitted, late, done, dropped>>

\* WorkerLoop returns once the pool stops and the queue is empty.
WorkerExit(w) ==
  /\ wpc[w] = "ready"
  /\ stopping /\ tasks = <<>>
  /\ wpc' = [wpc EXCEPT ![w] = "exited"]
  /\ UNCHANGED <<tasks, started, stopping, running, notifying, owner, submitted, late, done, dropped>>

\* Fault: the front task is copied and stays in the queue.
WorkerTakeNoPop(w) ==
  /\ wpc[w] = "ready"
  /\ tasks # <<>>
  /\ running' = [running EXCEPT ![w] = Head(tasks)]
  /\ wpc' = [wpc EXCEPT ![w] = "running"]
  /\ UNCHANGED <<tasks, started, stopping, notifying, owner, submitted, late, done, dropped>>

\* WorkerLoop moves the front task out of the queue and releases mutex_.
WorkerTake(w) ==
  /\ wpc[w] = "ready"
  /\ tasks # <<>>
  /\ running' = [running EXCEPT ![w] = Head(tasks)]
  /\ tasks' = Tail(tasks)
  /\ wpc' = [wpc EXCEPT ![w] = "running"]
  /\ UNCHANGED <<started, stopping, notifying, owner, submitted, late, done, dropped>>

\* task() returns and the worker goes back to the head of the loop.
WorkerDone(w) ==
  /\ wpc[w] = "running"
  /\ w \notin notifying
  /\ done' = done \cup {running[w]}
  /\ running' = [running EXCEPT ![w] = NoTask]
  /\ wpc' = [wpc EXCEPT ![w] = "ready"]
  /\ UNCHANGED <<tasks, started, stopping, notifying, owner, submitted, late, dropped>>

Enqueue(th) == (\E t \in Tasks : Push(th, t)) \/ NotifyOne(th)

WorkerLoop(w) == WorkerWait(w) \/ WorkerExit(w) \/ WorkerTake(w) \/ WorkerDone(w)

Stop == StopBegin \/ StopNotify \/ StopJoin \/ StopDrain

Next ==
  \/ Start
  \/ Stop
  \/ \E th \in Threads : Enqueue(th)
  \/ \E w \in Workers : WorkerLoop(w) \/ SpuriousWake(w)

SafeSpec == Init /\ [][Next]_vars

\* The scheduler runs every thread that is not blocked: a worker inside its
\* loop (tasks return), a thread that owes a notify_one, the owner inside Stop.
\* Nothing forces a caller to call Start, Stop or Enqueue.
Fairness ==
  /\ \A w \in Workers : WF_vars(WorkerLoop(w))
  /\ \A th \in Threads : WF_vars(NotifyOne(th))
  /\ WF_vars(StopNotify \/ StopJoin \/ StopDrain)

Spec == SafeSpec /\ Fairness

-----------------------------------------------------------------------------
\* No lost wakeup: while a worker sleeps in cv_.wait, each queued task has a
\* worker of its own on its way to the queue or a notify_one still to come
\* (Enqueue pushes under mutex_ and notifies after releasing it).
NoLostWakeup ==
  InState("waiting") # {} =>
    Len(tasks) <= Cardinality(InState("ready")) + Cardinality(notifying)

\* Once Stop has called notify_all no worker sleeps: the predicate of cv_.wait
\* and stopping_ are written under the same mutex, so none can go back to sleep
\* and join cannot wait for a sleeper.
StopWakesAll == stopping /\ InState("waiting") # {} => owner = "notify"

\* Every task handed to Enqueue is in exactly one place: once in the queue, in
\* the hands of one worker, finished, or popped by Stop.
ExactlyOnePlace ==
  /\ \A i, j \in DOMAIN tasks : tasks[i] = tasks[j] => i = j
  /\ \A v, w \in Workers : running[v] = running[w] /\ running[v] # NoTask => v = w
  /\ \A w \in Workers : running[w] \notin Queued \cup done \cup dropped
  /\ Queued \cap (done \cup dropped) = {}
  /\ done \cap dropped = {}
  /\ \A t \in submitted : \/ t \in Queued \cup done \cup dropped
                          \/ \E w \in Workers : running[w] = t

\* Stop drops a task only if it was enqueued after the last worker had left
\* WorkerLoop; in particular a task enqueued before Stop, or by a task that a
\* worker runs, is never dropped.
DropsOnlyLate == dropped \subseteq late

-----------------------------------------------------------------------------
(* The strengthening that makes these invariants inductive.                *)

\* Start and Stop move the flags, the owner and the worker threads in step.
Lifecycle ==
  /\ started => (stopping <=> owner # "idle")
  /\ ~started => stopping /\ owner = "idle"
  /\ \A w \in Workers : wpc[w] = "none" <=> (~started \/ owner = "drain")
  /\ \A w \in Workers : wpc[w] = "exited" => stopping

\* A worker holds a task exactly while it runs one.
Holding == \A w \in Workers : running[w] # NoTask <=> wpc[w] = "running"

\* Only tasks that were handed to Enqueue are anywhere.
Known ==
  /\ Queued \cup done \cup dropped \cup late \subseteq submitted
  /\ \A w \in Workers : running[w] \in submitted \cup {NoTask}

\* Late tasks are what is queued when no worker is left, and nobody runs them.
LateTasks ==
  /\ started /\ NoWorker => Queued \subseteq late
  /\ Queued \cap late # {} => started /\ NoWorker
  /\ late \cap done = {}
  /\ \A w \in Workers : running[w] \notin late

IndInv ==
  /\ TypeOK /\ Lifecycle /\ Holding /\ Known /\ LateTasks
  /\ NoLostWakeup /\ StopWakesAll /\ ExactlyOnePlace /\ DropsOnlyLate

-----------------------------------------------------------------------------
\* The task each status of TaskService stands for.
Status(t) ==
  IF t \in late THEN "lost"
  ELSE IF t \in done THEN "done"
  ELSE IF t \in Queued THEN "queued"
  ELSE IF t \in submitted THEN "running"
  ELSE "new"

Service == INSTANCE TaskService WITH
  status <- [t \in Tasks |-> Status(t)],
  service <- IF ~started THEN "closed" ELSE IF stopping THEN "closing" ELSE "open"

\* The pool is a task service: it runs what it accepts, once, and loses only
\* tasks enqueued inside Stop when nothing is queued and nothing runs.
ImplementsService == Service!SafeSpec

\* ... and what it accepted is started and finished as long as it is not stopped.
ServesEveryTask == Service!Spec

\* Stop returns: every worker it joins leaves its loop.
StopReturns == owner # "idle" ~> owner = "idle"
=============================================================================
