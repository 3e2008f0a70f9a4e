------------------------------ MODULE PluginHost ------------------------------
(***************************************************************************)
(* Engine::Native::Plugin::Pxer::PluginHost.  One std::mutex protects the   *)
(* tables; every critical section is one action.  The plugin's callbacks   *)
(* (on_load, on_unload, invoke, on_event, on_async) run with the mutex     *)
(* released, on the thread of whoever called the host, and may call the    *)
(* host API; so a thread is a stack of calls in progress.                   *)
(*                                                                         *)
(* Asynchronous tasks run on the shared IOThreadPool, seen here as a       *)
(* TaskService that is never closed: a set of tasks handed over, of which  *)
(* a worker starts any.                                                    *)
(*                                                                         *)
(* A callback keeps a raw pointer to its plugin's record.  Once the record *)
(* is erased, and its library closed, the next step of that callback is    *)
(* undefined: the model records the fault and stops there.                 *)
(*                                                                         *)
(* The append-only event log and the settings and config maps are left out.*)
(***************************************************************************)
EXTENDS Naturals, Sequences, FiniteSets

CONSTANTS Clients,          \* threads that call the host's public operations
          Workers,          \* threads of the shared pool
          MaxInstances,     \* bound on the plugins ever loaded
          MaxTasks,         \* bound on the asynchronous tasks ever scheduled
          MaxDepth,         \* bound on the calls nested through emit_event
          Names,            \* call names
          Topics,           \* event topics
          Extensions,       \* keys of the four extension tables (table and name)
          HostOps           \* the host API functions that plugins use

ASSUME ThreadsAssumption == Clients \cap Workers = {} /\ IsFiniteSet(Clients)
ASSUME BoundsAssumption == MaxInstances \in Nat /\ MaxTasks \in Nat /\ MaxDepth \in Nat

VARIABLES mutex,            \* the thread that holds state.mutex across a call, or NoThread
          plugins,          \* the keys of state.plugins
          next_id,          \* state.next_plugin_instance_id
          loaded,           \* PluginRecord::loaded
          pending_async,    \* PluginRecord::pending_async
          registered_calls, \* PluginRecord::registered_calls
          subscriptions,    \* PluginRecord::subscriptions
          call_overrides,   \* state.call_overrides, 0 where a name has no entry
          extensions,       \* the owner of each extension entry, 0 where there is none
          next_task,        \* state.next_async_task_id
          task_owner,       \* the plugin each task was scheduled by
          queued,           \* tasks handed to the pool and not started
          executing,        \* the task each worker runs, 0 for none
          completed_async,  \* state.completed_async
          drained,          \* tasks returned by DrainCompletedAsync (history)
          stack,            \* the calls in progress on each thread, the top one first
          unload_raced,     \* plugins that scheduled a task inside their Unload (history)
          faulted           \* a callback went on with an erased record

tables == <<plugins, loaded, registered_calls, subscriptions, call_overrides, extensions>>
tasks == <<next_task, task_owner, queued, executing, completed_async, drained, unload_raced>>
vars == <<mutex, tables, next_id, pending_async, tasks, stack, faulted>>

-----------------------------------------------------------------------------
Threads == Clients \cup Workers
NoThread == "none"
Instances == 1 .. MaxInstances
Tasks == 1 .. MaxTasks
AnyTopic == "*"

\* A call in progress: the operation, where it is, the plugin whose record it
\* points to, and the plugins it has still to visit.
Frame(op, pc, i, todo) == [op |-> op, pc |-> pc, inst |-> i, todo |-> todo]

FrameType == [op : {"load", "unload", "unloadAll", "invoke", "emit", "async"},
              pc : {"find", "callback", "finish", "undo", "erase", "loop", "complete", "relock"},
              inst : Instances \cup {0},
              todo : SUBSET Instances]

Top(t) == Head(stack[t])
Push(t, f) == stack' = [stack EXCEPT ![t] = <<f>> \o @]
Pop(t) == stack' = [stack EXCEPT ![t] = Tail(@)]
Replace(t, f) == stack' = [stack EXCEPT ![t] = <<f>> \o Tail(@)]
Goto(t, pc) == Replace(t, [Top(t) EXCEPT !.pc = pc])

\* The thread is in operation op, at pc.
At(t, op, pc) == stack[t] # <<>> /\ Top(t).op = op /\ Top(t).pc = pc

\* The thread can take state.mutex.
CanLock == mutex = NoThread /\ ~faulted

Idle(t) == t \in Clients /\ stack[t] = <<>>

Frames(t) == {stack[t][k] : k \in DOMAIN stack[t]}

\* An Unload of i is between its check of pending_async and its last section.
UnloadInProgress(i) ==
  \E t \in Threads : \E f \in Frames(t) : f.op = "unload" /\ f.inst = i

TopicMatches(subscription, topic) == subscription = AnyTopic \/ subscription = topic

\* A task that was scheduled and has not been completed.
Outstanding == (queued \cup {executing[w] : w \in Workers}) \ {0}

\* A task whose outcome was put on completed_async.
Recorded == drained \cup {completed_async[m] : m \in DOMAIN completed_async}

TypeOK ==
  /\ mutex \in Threads \cup {NoThread}
  /\ plugins \in SUBSET Instances
  /\ next_id \in 1 .. MaxInstances + 1
  /\ loaded \in [Instances -> BOOLEAN]
  /\ pending_async \in [Instances -> Nat]
  /\ registered_calls \in [Instances -> SUBSET Names]
  /\ subscriptions \in [Instances -> SUBSET (Topics \cup {AnyTopic})]
  /\ call_overrides \in [Names -> Instances \cup {0}]
  /\ extensions \in [Extensions -> Instances \cup {0}]
  /\ next_task \in 1 .. MaxTasks + 1
  /\ task_owner \in [Tasks -> Instances \cup {0}]
  /\ queued \in SUBSET Tasks
  /\ executing \in [Workers -> Tasks \cup {0}]
  /\ completed_async \in Seq(Tasks)
  /\ drained \in SUBSET Tasks
  /\ stack \in [Threads -> Seq(FrameType)]
  /\ unload_raced \in SUBSET Instances
  /\ faulted \in BOOLEAN

Init ==
  /\ mutex = NoThread
  /\ plugins = {}
  /\ next_id = 1
  /\ loaded = [i \in Instances |-> FALSE]
  /\ pending_async = [i \in Instances |-> 0]
  /\ registered_calls = [i \in Instances |-> {}]
  /\ subscriptions = [i \in Instances |-> {}]
  /\ call_overrides = [n \in Names |-> 0]
  /\ extensions = [x \in Extensions |-> 0]
  /\ next_task = 1
  /\ task_owner = [k \in Tasks |-> 0]
  /\ queued = {}
  /\ executing = [w \in Workers |-> 0]
  /\ completed_async = <<>>
  /\ drained = {}
  /\ stack = [t \in Threads |-> <<>>]
  /\ unload_raced = {}
  /\ faulted = FALSE

-----------------------------------------------------------------------------
(* Load                                                                    *)

\* Load stores the record of a library that opened and passed the checks of its
\* descriptor.  A Load that fails earlier changes nothing.
LoadStore(t) ==
  /\ Idle(t) /\ CanLock
  /\ next_id \in Instances
  /\ next_id' = next_id + 1
  /\ plugins' = plugins \cup {next_id}
  /\ Push(t, Frame("load", "find", next_id, {}))
  /\ UNCHANGED <<mutex, loaded, registered_calls, subscriptions, call_overrides, extensions,
                 pending_async, tasks, faulted>>

\* Load looks the record up again and enters on_load, or gives up.
LoadFind(t) ==
  /\ At(t, "load", "find") /\ CanLock
  /\ IF Top(t).inst \in plugins THEN Goto(t, "callback") ELSE Pop(t)
  /\ UNCHANGED <<mutex, tables, next_id, pending_async, tasks, faulted>>

\* on_load succeeded: the record, if it is still there, is marked loaded.
LoadFinish(t) ==
  /\ At(t, "load", "finish") /\ CanLock
  /\ Top(t).inst \in plugins
  /\ loaded' = [loaded EXCEPT ![Top(t).inst] = TRUE]
  /\ Pop(t)
  /\ UNCHANGED <<mutex, plugins, registered_calls, subscriptions, call_overrides, extensions,
                 next_id, pending_async, tasks, faulted>>

-----------------------------------------------------------------------------
(* Unload                                                                  *)

\* Fault: Unload does not look at pending_async.
UnloadPassesAlways(i) == i \in plugins

\* The first critical section of Unload lets the plugin go.
UnloadPasses(i) == i \in plugins /\ pending_async[i] = 0

\* ... and erases the entries it owns in the extension tables.
EraseExtensions(i) ==
  extensions' = [x \in Extensions |-> IF extensions[x] = i THEN 0 ELSE extensions[x]]

\* Unload called by a client: it refuses an unknown plugin and pending work.
Unload(t, i) ==
  /\ Idle(t) /\ CanLock
  /\ UnloadPasses(i)
  /\ EraseExtensions(i)
  /\ Push(t, Frame("unload", "callback", i, {}))
  /\ UNCHANGED <<mutex, plugins, loaded, registered_calls, subscriptions, call_overrides,
                 next_id, pending_async, tasks, faulted>>

\* Fault: Load does not return after the Unload of a plugin whose on_load failed.
LoadUndoContinues(t) ==
  /\ At(t, "load", "undo") /\ CanLock
  /\ LET i == Top(t).inst IN
     /\ i \in plugins
     /\ IF UnloadPasses(i)
        THEN /\ EraseExtensions(i)
             /\ stack' = [stack EXCEPT ![t] = <<Frame("unload", "callback", i, {}),
                                                Frame("load", "finish", i, {})>> \o Tail(@)]
        ELSE UNCHANGED extensions /\ Pop(t)
  /\ UNCHANGED <<mutex, plugins, loaded, registered_calls, subscriptions, call_overrides,
                 next_id, pending_async, tasks, faulted>>

\* on_load failed: Load calls Unload and returns false whatever Unload returns.
LoadUndo(t) ==
  /\ At(t, "load", "undo") /\ CanLock
  /\ LET i == Top(t).inst IN
     /\ i \in plugins
     /\ IF UnloadPasses(i)
        THEN EraseExtensions(i) /\ Replace(t, Frame("unload", "callback", i, {}))
        ELSE UNCHANGED extensions /\ Pop(t)
  /\ UNCHANGED <<mutex, plugins, loaded, registered_calls, subscriptions, call_overrides,
                 next_id, pending_async, tasks, faulted>>

\* UnloadAll collects the identifiers ...
UnloadAll(t) ==
  /\ Idle(t) /\ CanLock
  /\ Push(t, Frame("unloadAll", "loop", 0, plugins))
  /\ UNCHANGED <<mutex, tables, next_id, pending_async, tasks, faulted>>

\* Fault: UnloadAll tries a plugin again until it is gone.
UnloadAllRetry(t) ==
  /\ At(t, "unloadAll", "loop") /\ CanLock
  /\ \/ Top(t).todo \cap plugins = {} /\ UNCHANGED extensions /\ Pop(t)
     \/ \E i \in Top(t).todo :
          /\ UnloadPasses(i)
          /\ EraseExtensions(i)
          /\ Push(t, Frame("unload", "callback", i, {}))
  /\ UNCHANGED <<mutex, plugins, loaded, registered_calls, subscriptions, call_overrides,
                 next_id, pending_async, tasks, faulted>>

\* ... and calls Unload on each of them.
UnloadAllNext(t) ==
  /\ At(t, "unloadAll", "loop") /\ CanLock
  /\ \/ Top(t).todo = {} /\ UNCHANGED extensions /\ Pop(t)
     \/ \E i \in Top(t).todo :
          LET rest == Frame("unloadAll", "loop", 0, Top(t).todo \ {i}) IN
          IF UnloadPasses(i)
          THEN /\ EraseExtensions(i)
               /\ stack' = [stack EXCEPT ![t] =
                              <<Frame("unload", "callback", i, {}), rest>> \o Tail(@)]
          ELSE UNCHANGED extensions /\ Replace(t, rest)
  /\ UNCHANGED <<mutex, plugins, loaded, registered_calls, subscriptions, call_overrides,
                 next_id, pending_async, tasks, faulted>>

\* The last critical section: the overrides the plugin still owns and its record
\* go, then the library is closed.  Another Unload may have been faster.
UnloadErase(t) ==
  /\ At(t, "unload", "erase") /\ CanLock
  /\ LET i == Top(t).inst IN
     IF i \in plugins
     THEN /\ plugins' = plugins \ {i}
          /\ call_overrides' = [n \in Names |->
               IF n \in registered_calls[i] /\ call_overrides[n] = i THEN 0 ELSE call_overrides[n]]
          /\ loaded' = [loaded EXCEPT ![i] = FALSE]
          /\ registered_calls' = [registered_calls EXCEPT ![i] = {}]
          /\ subscriptions' = [subscriptions EXCEPT ![i] = {}]
          /\ pending_async' = [pending_async EXCEPT ![i] = 0]
     ELSE UNCHANGED <<plugins, call_overrides, loaded, registered_calls, subscriptions,
                      pending_async>>
  /\ Pop(t)
  /\ UNCHANGED <<mutex, extensions, next_id, tasks, faulted>>

-----------------------------------------------------------------------------
(* Invoke, Call and EmitEvent                                              *)

\* Invoke finds the record and enters the plugin's invoke hook.
Invoke(t, i) ==
  /\ Idle(t) /\ CanLock
  /\ i \in plugins
  /\ Push(t, Frame("invoke", "callback", i, {}))
  /\ UNCHANGED <<mutex, tables, next_id, pending_async, tasks, faulted>>

\* Call resolves the name under the mutex, releases it and calls Invoke ...
Call(t, n) ==
  /\ Idle(t) /\ CanLock
  /\ call_overrides[n] # 0
  /\ Push(t, Frame("invoke", "find", call_overrides[n], {}))
  /\ UNCHANGED <<mutex, tables, next_id, pending_async, tasks, faulted>>

\* ... which finds the plugin again, or not.
CallInvoke(t) ==
  /\ At(t, "invoke", "find") /\ CanLock
  /\ IF Top(t).inst \in plugins THEN Goto(t, "callback") ELSE Pop(t)
  /\ UNCHANGED <<mutex, tables, next_id, pending_async, tasks, faulted>>

Recipients(topic) ==
  {i \in plugins : \E s \in subscriptions[i] : TopicMatches(s, topic)}

\* EmitEvent collects the recipients ...
EmitEvent(t, topic) ==
  /\ Idle(t) /\ CanLock
  /\ Push(t, Frame("emit", "loop", 0, Recipients(topic)))
  /\ UNCHANGED <<mutex, tables, next_id, pending_async, tasks, faulted>>

\* ... and calls on_event of each one that is still there.
EmitNext(t) ==
  /\ At(t, "emit", "loop") /\ CanLock
  /\ \/ Top(t).todo = {} /\ Pop(t)
     \/ \E i \in Top(t).todo :
          LET rest == Top(t).todo \ {i} IN
          IF i \in plugins
          THEN Replace(t, Frame("emit", "callback", i, rest))
          ELSE Replace(t, Frame("emit", "loop", 0, rest))
  /\ UNCHANGED <<mutex, tables, next_id, pending_async, tasks, faulted>>

-----------------------------------------------------------------------------
(* Callbacks, and the host API they call                                   *)

\* The thread runs a callback of a plugin whose record is still there.
InCallback(t) ==
  /\ ~faulted
  /\ stack[t] # <<>>
  /\ Top(t).pc = "callback"
  /\ Top(t).inst \in plugins

\* A callback calls host API function op, which takes the mutex.
Calls(t, op) == InCallback(t) /\ CanLock /\ op \in HostOps

\* A callback returns, with success or failure where its caller looks at that.
CallbackReturn(t) ==
  /\ InCallback(t)
  /\ LET f == Top(t) IN
     \/ f.op = "load" /\ (Goto(t, "finish") \/ Goto(t, "undo"))
     \/ f.op = "unload" /\ (Goto(t, "erase") \/ Pop(t))
     \/ f.op = "invoke" /\ Pop(t)
     \/ f.op = "emit" /\ Replace(t, Frame("emit", "loop", 0, f.todo))
     \/ f.op = "async" /\ Goto(t, "complete")
  /\ UNCHANGED <<mutex, tables, next_id, pending_async, tasks, faulted>>

\* Fault: the previous owner of the name keeps it in its own set.
RegisterCallKeepsOld(t, n) ==
  /\ Calls(t, "register_call")
  /\ call_overrides' = [call_overrides EXCEPT ![n] = Top(t).inst]
  /\ registered_calls' = [registered_calls EXCEPT ![Top(t).inst] = @ \cup {n}]
  /\ UNCHANGED <<mutex, plugins, loaded, subscriptions, extensions, next_id, pending_async,
                 tasks, stack, faulted>>

\* register_call: the name moves to this plugin from whoever had it.
HostRegisterCall(t, n) ==
  /\ Calls(t, "register_call")
  /\ LET i == Top(t).inst
         old == call_overrides[n] IN
     /\ call_overrides' = [call_overrides EXCEPT ![n] = i]
     /\ registered_calls' = [j \in Instances |->
          IF j = i THEN registered_calls[j] \cup {n}
          ELSE IF j = old /\ old \in plugins THEN registered_calls[j] \ {n}
          ELSE registered_calls[j]]
  /\ UNCHANGED <<mutex, plugins, loaded, subscriptions, extensions, next_id, pending_async,
                 tasks, stack, faulted>>

\* unregister_call: the override goes only if it is this plugin's.
HostUnregisterCall(t, n) ==
  /\ Calls(t, "unregister_call")
  /\ LET i == Top(t).inst IN
     /\ registered_calls' = [registered_calls EXCEPT ![i] = @ \ {n}]
     /\ call_overrides' = [call_overrides EXCEPT ![n] = IF @ = i THEN 0 ELSE @]
  /\ UNCHANGED <<mutex, plugins, loaded, subscriptions, extensions, next_id, pending_async,
                 tasks, stack, faulted>>

HostSubscribeEvent(t, topic) ==
  /\ Calls(t, "subscribe_event")
  /\ subscriptions' = [subscriptions EXCEPT ![Top(t).inst] = @ \cup {topic}]
  /\ UNCHANGED <<mutex, plugins, loaded, registered_calls, call_overrides, extensions, next_id,
                 pending_async, tasks, stack, faulted>>

HostUnsubscribeEvent(t, topic) ==
  /\ Calls(t, "unsubscribe_event")
  /\ subscriptions' = [subscriptions EXCEPT ![Top(t).inst] = @ \ {topic}]
  /\ UNCHANGED <<mutex, plugins, loaded, registered_calls, call_overrides, extensions, next_id,
                 pending_async, tasks, stack, faulted>>

\* emit_event: EmitEvent runs on the thread of the callback, above it.
HostEmitEvent(t, topic) ==
  /\ Calls(t, "emit_event")
  /\ Len(stack[t]) < MaxDepth
  /\ Push(t, Frame("emit", "loop", 0, Recipients(topic)))
  /\ UNCHANGED <<mutex, tables, next_id, pending_async, tasks, faulted>>

\* schedule_async: the task is counted under the mutex and handed to the pool
\* once it is released.
HostScheduleAsync(t) ==
  /\ Calls(t, "schedule_async")
  /\ next_task \in Tasks
  /\ LET i == Top(t).inst IN
     /\ next_task' = next_task + 1
     /\ task_owner' = [task_owner EXCEPT ![next_task] = i]
     /\ pending_async' = [pending_async EXCEPT ![i] = @ + 1]
     /\ queued' = queued \cup {next_task}
     /\ unload_raced' = IF UnloadInProgress(i) THEN unload_raced \cup {i} ELSE unload_raced
  /\ UNCHANGED <<mutex, tables, next_id, executing, completed_async, drained, stack, faulted>>

\* register_js_module, register_flux_type, register_flux_trigger and
\* register_global_hook: each holds state.mutex and calls HostLog, which locks it
\* again.  std::mutex is not recursive, so the thread waits for itself: no action
\* leaves "relock".
HostRegisterExtension(t, x) ==
  /\ Calls(t, "register_extension")
  /\ mutex' = t
  /\ extensions' = IF extensions[x] \in {0, Top(t).inst}
                   THEN [extensions EXCEPT ![x] = Top(t).inst]
                   ELSE extensions
  /\ Goto(t, "relock")
  /\ UNCHANGED <<plugins, loaded, registered_calls, subscriptions, call_overrides, next_id,
                 pending_async, tasks, faulted>>

-----------------------------------------------------------------------------
(* Asynchronous tasks on the pool                                          *)

\* Fault: a task whose plugin is gone returns without a record.
TaskStartDrops(w) ==
  /\ stack[w] = <<>> /\ CanLock
  /\ \E k \in queued :
       LET i == task_owner[k] IN
       /\ queued' = queued \ {k}
       /\ IF i \in plugins
          THEN /\ executing' = [executing EXCEPT ![w] = k]
               /\ Push(w, Frame("async", "callback", i, {}))
          ELSE UNCHANGED <<executing, stack>>
  /\ UNCHANGED <<mutex, tables, next_id, pending_async, next_task, task_owner, completed_async,
                 drained, unload_raced, faulted>>

\* A worker starts a task, which looks its plugin up and enters on_async, or
\* fails at once if the plugin is gone.
TaskStart(w) ==
  /\ stack[w] = <<>> /\ CanLock
  /\ \E k \in queued :
       LET i == task_owner[k] IN
       /\ queued' = queued \ {k}
       /\ executing' = [executing EXCEPT ![w] = k]
       /\ Push(w, Frame("async", IF i \in plugins THEN "callback" ELSE "complete", i, {}))
  /\ UNCHANGED <<mutex, tables, next_id, pending_async, next_task, task_owner, completed_async,
                 drained, unload_raced, faulted>>

\* Fault: the counter is not decremented.
TaskCompleteUncounted(w) ==
  /\ At(w, "async", "complete") /\ CanLock
  /\ completed_async' = Append(completed_async, executing[w])
  /\ executing' = [executing EXCEPT ![w] = 0]
  /\ Pop(w)
  /\ UNCHANGED <<mutex, tables, next_id, pending_async, next_task, task_owner, queued, drained,
                 unload_raced, faulted>>

\* The outcome is recorded, whatever it is.
TaskComplete(w) ==
  /\ At(w, "async", "complete") /\ CanLock
  /\ LET i == Top(w).inst IN
     pending_async' = IF i \in plugins /\ pending_async[i] > 0
                      THEN [pending_async EXCEPT ![i] = @ - 1]
                      ELSE pending_async
  /\ completed_async' = Append(completed_async, executing[w])
  /\ executing' = [executing EXCEPT ![w] = 0]
  /\ Pop(w)
  /\ UNCHANGED <<mutex, tables, next_id, next_task, task_owner, queued, drained, unload_raced,
                 faulted>>

\* Fault: the records are copied and stay in the queue.
DrainKeeps(t) ==
  /\ Idle(t) /\ CanLock
  /\ \E n \in 1 .. Len(completed_async) :
       drained' = drained \cup {completed_async[k] : k \in 1 .. n}
  /\ UNCHANGED <<mutex, tables, next_id, pending_async, next_task, task_owner, queued, executing,
                 completed_async, stack, unload_raced, faulted>>

\* DrainCompletedAsync(limit) takes the oldest records.
DrainCompletedAsync(t) ==
  /\ Idle(t) /\ CanLock
  /\ \E n \in 1 .. Len(completed_async) :
       /\ completed_async' = SubSeq(completed_async, n + 1, Len(completed_async))
       /\ drained' = drained \cup {completed_async[k] : k \in 1 .. n}
  /\ UNCHANGED <<mutex, tables, next_id, pending_async, next_task, task_owner, queued, executing,
                 stack, unload_raced, faulted>>

\* A callback, or Load after it, goes on with a record that was erased.
Fault(t) ==
  /\ ~faulted
  /\ stack[t] # <<>>
  /\ Top(t).pc \in {"callback", "finish", "undo"}
  /\ Top(t).inst \notin plugins
  /\ faulted' = TRUE
  /\ UNCHANGED <<mutex, tables, next_id, pending_async, tasks, stack>>

-----------------------------------------------------------------------------
\* What a client may call.
ClientCall(t) ==
  \/ LoadStore(t)
  \/ UnloadAll(t)
  \/ DrainCompletedAsync(t)
  \/ \E i \in Instances : Unload(t, i) \/ Invoke(t, i)
  \/ \E n \in Names : Call(t, n)
  \/ \E topic \in Topics : EmitEvent(t, topic)

\* What a callback may call.
HostApi(t) ==
  \/ \E n \in Names : HostRegisterCall(t, n) \/ HostUnregisterCall(t, n)
  \/ \E p \in Topics \cup {AnyTopic} : HostSubscribeEvent(t, p) \/ HostUnsubscribeEvent(t, p)
  \/ \E topic \in Topics : HostEmitEvent(t, topic)
  \/ HostScheduleAsync(t)
  \/ \E x \in Extensions : HostRegisterExtension(t, x)

\* The host's own code on a thread that is inside a call.
HostStep(t) ==
  \/ LoadFind(t) \/ LoadFinish(t) \/ LoadUndo(t)
  \/ UnloadAllNext(t) \/ UnloadErase(t)
  \/ CallInvoke(t) \/ EmitNext(t)

Next ==
  \/ \E t \in Clients : ClientCall(t)
  \/ \E t \in Threads : HostStep(t) \/ CallbackReturn(t) \/ HostApi(t) \/ Fault(t)
  \/ \E w \in Workers : TaskStart(w) \/ TaskComplete(w)

SafeSpec == Init /\ [][Next]_vars

\* Threads that can run do run, the pool starts what it was given (TaskService),
\* and no callback, however deeply nested, calls the host API for ever.
Fairness ==
  /\ \A t \in Threads : WF_vars(HostStep(t)) /\ WF_vars(Fault(t))
  /\ \A t \in Threads, d \in 1 .. MaxDepth + 1 :
       SF_vars(CallbackReturn(t) /\ Len(stack[t]) = d)
  /\ \A w \in Workers : WF_vars(TaskStart(w)) /\ WF_vars(TaskComplete(w))

Spec == SafeSpec /\ Fairness

-----------------------------------------------------------------------------
\* The table of overrides and the plugins' own sets of registered calls agree:
\* a name resolves to a loaded plugin that knows it has it, and a plugin only
\* has names that resolve to it (HostRegisterCall moves names between plugins,
\* Unload removes what its plugin has left).
CallTableConsistent ==
  \A n \in Names :
    /\ call_overrides[n] # 0 => /\ call_overrides[n] \in plugins
                                /\ n \in registered_calls[call_overrides[n]]
    /\ \A i \in plugins : n \in registered_calls[i] => call_overrides[n] = i

\* The counter that Unload tests is exact: a plugin's pending_async is the number
\* of its tasks that were scheduled and are not recorded as completed.
PendingAccurate ==
  \A i \in plugins : pending_async[i] = Cardinality({k \in Outstanding : task_owner[k] = i})

\* A scheduled task waits, runs on one worker, is recorded once, or was drained;
\* identifiers are never given out twice.
TaskRecordedOnce ==
  /\ \A v, w \in Workers : executing[v] = executing[w] /\ executing[v] # 0 => v = w
  /\ \A w \in Workers : executing[w] \notin queued
  /\ \A k, m \in DOMAIN completed_async : completed_async[k] = completed_async[m] => k = m
  /\ \A k \in DOMAIN completed_async : completed_async[k] \notin Outstanding \cup drained
  /\ drained \cap Outstanding = {}
  /\ \A k \in Tasks : k < next_task => k \in Outstanding \cup Recorded

\* Unload's test of pending_async protects the tasks of a plugin: a task outlives
\* its plugin only if that plugin scheduled it while its Unload was in progress,
\* after the test.
TasksKeepPlugin ==
  \A k \in Outstanding : task_owner[k] \in plugins \cup unload_raced

-----------------------------------------------------------------------------
(* The strengthening that makes these invariants inductive.                *)

\* Identifiers come from two counters: nothing refers to one not yet given out.
Fresh ==
  /\ \A i \in plugins : i < next_id
  /\ \A k \in Tasks : task_owner[k] < next_id
  /\ \A t \in Threads : \A m \in DOMAIN stack[t] : stack[t][m].inst < next_id
  /\ \A k \in Outstanding \cup Recorded : k < next_task

\* What is left of a plugin that is not loaded: no calls, and no counted task.
Erased == \A i \in Instances \ plugins : registered_calls[i] = {}
NothingPending == \A i \in Instances \ plugins : pending_async[i] = 0

\* A worker that has a task has its frame at the bottom of its stack, and only
\* there.
AsyncFrames ==
  /\ \A t \in Threads : \A m \in DOMAIN stack[t] :
       stack[t][m].op = "async" => /\ t \in Workers
                                   /\ m = Len(stack[t])
                                   /\ executing[t] # 0
                                   /\ stack[t][m].inst = task_owner[executing[t]]
  /\ \A w \in Workers : executing[w] # 0 =>
       stack[w] # <<>> /\ stack[w][Len(stack[w])].op = "async"

\* Between Unload's test and its last section a task of the plugin can only have
\* been scheduled in between.
UnloadTested ==
  \A t \in Threads : \A m \in DOMAIN stack[t] :
    stack[t][m].op = "unload" /\ stack[t][m].inst \in plugins =>
      pending_async[stack[t][m].inst] = 0 \/ stack[t][m].inst \in unload_raced

IndInv ==
  /\ TypeOK /\ Fresh /\ Erased /\ NothingPending /\ AsyncFrames /\ UnloadTested
  /\ CallTableConsistent /\ PendingAccurate /\ TaskRecordedOnce /\ TasksKeepPlugin

-----------------------------------------------------------------------------
\* One client thread is enough protection for itself: if a single thread calls
\* the host, no call it has in progress ever points to an erased record, whatever
\* the pool's workers do (Invoke, EmitEvent, Load and Unload use records outside
\* the mutex).
SoleClientSafe ==
  Cardinality(Clients) = 1 =>
    \A t \in Clients : \A f \in Frames(t) :
      f.pc \in {"callback", "finish", "undo"} => f.inst \in plugins

\* Every call of the host returns, unless a callback ran into an erased record.
HostCallsReturn == \A t \in Threads : stack[t] # <<>> ~> stack[t] = <<>> \/ faulted

\* Every task that is scheduled is recorded as completed, for DrainCompletedAsync
\* to report, also when its plugin is gone before it starts.
TasksComplete ==
  \A k \in Tasks : k < next_task ~> k \in Recorded \/ faulted
=============================================================================
