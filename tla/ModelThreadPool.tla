---------------------------- MODULE ModelThreadPool ----------------------------
(***************************************************************************)
(* ModelsBuilder::Utility::ModelThreadPool: callers of ParallelFor, whose  *)
(* iterations run on the shared IOThreadPool, seen through TaskService.    *)
(* An iteration uses the function and the variables of its caller by       *)
(* reference (mb_thread_pool.cc:44, trainer.cc:143).  pending_tasks_ is    *)
(* atomic; a critical section of idle_mutex_ is one action.                *)
(***************************************************************************)
EXTENDS Integers, FiniteSets

CONSTANTS Callers,          \* threads that call ParallelFor, which are not workers
          Iterations,       \* the iterations of all the calls
          CallOf            \* the caller each of them belongs to

ASSUME CallAssumption == IsFiniteSet(Iterations) /\ CallOf \in [Iterations -> Callers]

VARIABLES pending,          \* pending_tasks_
          caller, iteration,
          status, service   \* the pool

modelVars == <<pending, caller, iteration, status, service>>

Workers == INSTANCE TaskService WITH Tasks <- Iterations

IterationsOf(c) == {i \in Iterations : CallOf[i] = c}

ModelInit ==
  /\ pending = 0
  /\ caller = [c \in Callers |-> "out"]
  /\ iteration = [i \in Iterations |-> "new"]
  /\ Workers!Init

ParallelFor(c) ==
  /\ caller[c] = "out"
  /\ caller' = [caller EXCEPT ![c] = "issuing"]
  /\ UNCHANGED <<pending, iteration, status, service>>

\* Fault: the iteration is not counted.
CountIterationNever(i) ==
  /\ iteration[i] = "new" /\ caller[CallOf[i]] = "issuing"
  /\ \A j \in IterationsOf(CallOf[i]) : iteration[j] # "counted"
  /\ iteration' = [iteration EXCEPT ![i] = "counted"]
  /\ UNCHANGED <<pending, caller, status, service>>

\* Enqueue, one iteration after the other: the count, then the hand-over.
CountIteration(i) ==
  /\ iteration[i] = "new" /\ caller[CallOf[i]] = "issuing"
  /\ \A j \in IterationsOf(CallOf[i]) : iteration[j] # "counted"
  /\ pending' = pending + 1
  /\ iteration' = [iteration EXCEPT ![i] = "counted"]
  /\ UNCHANGED <<caller, status, service>>

HandOver(i) ==
  /\ iteration[i] = "counted"
  /\ \/ iteration' = [iteration EXCEPT ![i] = "handed"] /\ Workers!Submit(i)
     \/ iteration' = [iteration EXCEPT ![i] = "lost"] /\ Workers!SubmitLost(i)
  /\ UNCHANGED <<pending, caller>>

RunIteration(i) ==
  /\ iteration[i] = "handed" /\ status[i] = "running"
  /\ iteration' = [iteration EXCEPT ![i] = "ran"]
  /\ UNCHANGED <<pending, caller, status, service>>

\* fetch_sub: whoever takes the count to 0 goes on to notify.
CountDown(i) ==
  /\ iteration[i] = "ran"
  /\ pending' = pending - 1
  /\ IF pending' = 0
     THEN iteration' = [iteration EXCEPT ![i] = "notifying"] /\ UNCHANGED <<status, service>>
     ELSE iteration' = [iteration EXCEPT ![i] = "done"] /\ Workers!Finish(i)
  /\ UNCHANGED caller

NotifyIdle(i) ==
  /\ iteration[i] = "notifying"
  /\ iteration' = [iteration EXCEPT ![i] = "done"]
  /\ caller' = [c \in Callers |-> IF caller[c] = "asleep" THEN "waiting" ELSE caller[c]]
  /\ Workers!Finish(i)
  /\ UNCHANGED pending

\* WaitForIdle, entered when the last iteration has been handed over.
WaitForIdle(c) ==
  /\ caller[c] = "issuing"
  /\ \A i \in IterationsOf(c) : iteration[i] \notin {"new", "counted"}
  /\ caller' = [caller EXCEPT ![c] = "waiting"]
  /\ UNCHANGED <<pending, iteration, status, service>>

\* The test of its predicate, after which it sleeps or returns.
TestIdle(c) ==
  /\ caller[c] = "waiting"
  /\ caller' = [caller EXCEPT ![c] = IF pending = 0 THEN "back" ELSE "asleep"]
  /\ UNCHANGED <<pending, iteration, status, service>>

WakesSpuriously(c) ==
  /\ caller[c] = "asleep"
  /\ caller' = [caller EXCEPT ![c] = "waiting"]
  /\ UNCHANGED <<pending, iteration, status, service>>

WorkersStep == /\ \/ \E i \in Iterations : Workers!Begin(i)
                  \/ Workers!Close \/ Workers!Closed \/ Workers!Reopen
               /\ UNCHANGED <<pending, caller, iteration>>

ModelNext ==
  \/ \E c \in Callers : ParallelFor(c) \/ WaitForIdle(c) \/ TestIdle(c) \/ WakesSpuriously(c)
  \/ \E i \in Iterations : \/ CountIteration(i) \/ HandOver(i) \/ RunIteration(i)
                           \/ CountDown(i) \/ NotifyIdle(i)
  \/ WorkersStep

ModelSpec == ModelInit /\ [][ModelNext]_modelVars

\* ParallelFor returns only when each of its iterations has run, so that none
\* of them uses the frame of a caller that is gone, with other callers sharing
\* the count; and a caller that sleeps has an iteration outstanding or a
\* notification on its way to it.  A pool that drops an iteration leaves its
\* caller asleep for ever.
ParallelForWaits ==
  \A c \in Callers :
    /\ caller[c] = "back" =>
         \A i \in IterationsOf(c) : iteration[i] \in {"ran", "notifying", "done"}
    /\ caller[c] = "asleep" => pending > 0 \/ \E i \in Iterations : iteration[i] = "notifying"
=============================================================================
