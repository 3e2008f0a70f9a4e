------------------------------ MODULE LiveReload ------------------------------
(***************************************************************************)
(* Watch mode: a watcher process that runs the script in a child process   *)
(* and, when a file changes, stops the child, removes the script's lock    *)
(* directory and starts a new child.  The child and any other process that *)
(* runs the script behave as ScriptRuntime says.                           *)
(*                                                                         *)
(* The watcher is single-threaded, so its callbacks do not interleave with *)
(* each other; edits and processes interleave with every step of them.     *)
(* Snapshots compare write time and size: an edit always changes `stamp'.  *)
(***************************************************************************)
EXTENDS ScriptRuntime

CONSTANTS Entry,            \* the script that the watcher runs
          Child,            \* the process in which the watcher's children run
          Watched           \* the path given to the watcher: Entry, or the .ts file it is compiled from

ASSUME ChildAssumption == Child \in Procs /\ Entry \in Entries

VARIABLES wpc,              \* where the watcher is
          child_pid,        \* child_pid_ > 0
          previous,         \* WatchLoopState::previous
          events,           \* filesystem events not yet delivered
          last_ok,          \* WatchLoopState::last_ok
          stop_requested,   \* stop_requested_
          ran               \* the text of the entry script that a child entered last (history)

watchVars == <<wpc, child_pid, previous, events, last_ok, stop_requested>>
vars == <<runtimeVars, watchVars, ran>>

-----------------------------------------------------------------------------
WatchTypeOK ==
  /\ wpc \in {"idle", "snapshot", "stop", "term", "clean", "spawn", "lastStop", "lastTerm", "stopped"}
  /\ child_pid \in BOOLEAN
  /\ previous \in [Scripts -> 0 .. MaxEdits]
  /\ events \in 0 .. MaxEdits * Cardinality(Scripts)
  /\ last_ok \in BOOLEAN
  /\ stop_requested \in BOOLEAN
  /\ ran \in Texts \cup {NoText}

\* Run takes the first snapshot and calls Recompile.
Init ==
  /\ RuntimeInit
  /\ wpc = "stop"
  /\ child_pid = FALSE
  /\ previous = stamp
  /\ events = 0
  /\ last_ok = TRUE
  /\ stop_requested = FALSE
  /\ ran = NoText

Watcher(from, to) == wpc = from /\ wpc' = to

\* Scan captures the write time and size of every script file.
Scan == stamp

\* WatchChangeDetector: a file was modified, added or deleted since the snapshot.
HasChanges == Scan # previous

\* The timer: some file differs from the snapshot.
WatchTick ==
  /\ Watcher("idle", "snapshot")
  /\ ~stop_requested
  /\ HasChanges
  /\ UNCHANGED <<runtimeVars, child_pid, previous, events, last_ok, stop_requested, ran>>

\* A filesystem event about a file that is watched.
WatchFsEvent ==
  /\ events > 0
  /\ events' = events - 1
  /\ IF stop_requested THEN wpc = "idle" /\ UNCHANGED wpc ELSE Watcher("idle", "snapshot")
  /\ UNCHANGED <<runtimeVars, child_pid, previous, last_ok, stop_requested, ran>>

\* TriggerRestart: the snapshot is taken before the child is stopped.
Snapshot ==
  /\ Watcher("snapshot", "stop")
  /\ previous' = Scan
  /\ UNCHANGED <<runtimeVars, child_pid, events, last_ok, stop_requested, ran>>

\* StopChild: there is no child, or it has ended and is reaped.
StopReap(from, to) ==
  /\ Watcher(from, to)
  /\ child_pid => ~Running(Child)
  /\ child_pid' = FALSE
  /\ UNCHANGED <<runtimeVars, previous, events, last_ok, stop_requested, ran>>

\* StopChild: SIGTERM.
StopTerm(from, to) ==
  /\ Watcher(from, to)
  /\ child_pid /\ Running(Child)
  /\ UNCHANGED <<runtimeVars, child_pid, previous, events, last_ok, stop_requested, ran>>

\* Fault: the grace period ends and the child is left alone.
StopKillGivesUp(from, to) ==
  /\ Watcher(from, to)
  /\ Running(Child)
  /\ child_pid' = FALSE
  /\ UNCHANGED <<runtimeVars, previous, events, last_ok, stop_requested, ran>>

\* Fault: the blocking waitpid without the SIGKILL before it.
StopKillWaits(from, to) ==
  /\ Watcher(from, to)
  /\ ~Running(Child)
  /\ child_pid' = FALSE
  /\ UNCHANGED <<runtimeVars, previous, events, last_ok, stop_requested, ran>>

\* StopChild: the grace period ends, SIGKILL and a blocking waitpid.
StopKill(from, to) ==
  /\ Watcher(from, to)
  /\ Die(Child)
  /\ child_pid' = FALSE
  /\ UNCHANGED <<previous, events, last_ok, stop_requested, ran>>

\* The child dies of the SIGTERM, which it does not handle.
Terminated ==
  /\ wpc \in {"term", "lastTerm"}
  /\ Die(Child)
  /\ UNCHANGED <<watchVars, ran>>

\* Fault: Recompile does not recover the lock.
CleanupSkipped ==
  /\ Watcher("clean", "spawn")
  /\ UNCHANGED <<runtimeVars, child_pid, previous, events, last_ok, stop_requested, ran>>

\* Recompile: the lock directory of the watched path is removed if it is there.
Cleanup ==
  /\ Watcher("clean", "spawn")
  /\ lock' = [s \in Scripts |-> IF s = Watched THEN Free ELSE lock[s]]
  /\ UNCHANGED <<text, stamp, cache, meta, stack, modules, flags, raced>>
  /\ UNCHANGED <<child_pid, previous, events, last_ok, stop_requested, ran>>

\* Recompile fails: the lock cannot be removed, or fork fails.
RecompileFails ==
  /\ \/ Watcher("clean", "idle") /\ "io" \in Failures
     \/ Watcher("spawn", "idle") /\ "fork" \in Failures
  /\ last_ok' = FALSE
  /\ UNCHANGED <<runtimeVars, child_pid, previous, events, stop_requested, ran>>

\* SpawnChild: fork and exec.
Spawn ==
  /\ Watcher("spawn", "idle")
  /\ StartProcess(Child, Entry)
  /\ child_pid' = TRUE
  /\ last_ok' = TRUE
  /\ UNCHANGED <<previous, events, stop_requested, ran>>

\* SIGINT or SIGTERM reaches the watcher, in any state.
RequestStop ==
  /\ ~stop_requested
  /\ stop_requested' = TRUE
  /\ UNCHANGED <<runtimeVars, wpc, child_pid, previous, events, last_ok, ran>>

\* The timer sees the request, uv_run returns and Run calls Stop.
LeaveLoop ==
  /\ Watcher("idle", "lastStop")
  /\ stop_requested
  /\ UNCHANGED <<runtimeVars, child_pid, previous, events, last_ok, stop_requested, ran>>

\* A file changes.  The event may be lost, or events may not be available.
FileChange ==
  /\ \E s \in Scripts : Edit(s)
  /\ events' \in {events, events + 1}
  /\ UNCHANGED <<wpc, child_pid, previous, last_ok, stop_requested, ran>>

\* A step of the child.
ChildStep ==
  /\ ProcessStep(Child)
  /\ ran' = IF At(Child, "emit") /\ Len(stack[Child]) = 1 /\ stack'[Child] # <<>>
            THEN Top(Child).compiled
            ELSE ran
  /\ UNCHANGED watchVars

\* Processes that run scripts outside the watcher.
OtherProcess ==
  /\ \E p \in Procs \ {Child} : ProcessStep(p) \/ \E e \in Entries : StartProcess(p, e)
  /\ UNCHANGED <<watchVars, ran>>

ProcessDies ==
  /\ "crash" \in Failures
  /\ \E p \in Procs : Die(p)
  /\ UNCHANGED <<watchVars, ran>>

\* The watcher's own code.
WatcherStep ==
  \/ WatchTick \/ Snapshot \/ Cleanup \/ RecompileFails \/ Spawn \/ LeaveLoop
  \/ StopReap("stop", "clean") \/ StopReap("term", "clean")
  \/ StopTerm("stop", "term") \/ StopKill("term", "clean")
  \/ StopReap("lastStop", "stopped") \/ StopReap("lastTerm", "stopped")
  \/ StopTerm("lastStop", "lastTerm") \/ StopKill("lastTerm", "stopped")

Next ==
  \/ WatcherStep \/ WatchFsEvent \/ RequestStop \/ Terminated
  \/ FileChange \/ ChildStep \/ OtherProcess \/ ProcessDies

SafeSpec == Init /\ [][Next]_vars

\* The watcher's loop and the child's runtime run; the script's own code may take
\* for ever, and nothing is assumed of events, edits and signals.
Spec ==
  /\ SafeSpec
  /\ WF_vars(WatcherStep)
  /\ WF_vars(ChildStep /\ RuntimeStep(Child))

-----------------------------------------------------------------------------
\* No lock that was left behind is in the way of the child about to be started.
SpawnUnblocked == wpc = "spawn" => lock[Entry] # Stale

\* A child that the watcher has forgotten is dead, and the watcher does not end
\* with a child alive.
NoOrphan == Running(Child) => child_pid

\* A change of the entry script is run, unless it is overtaken by another one,
\* the script is deleted, a Recompile reported failure or the watcher is stopped.
EveryChangeRun ==
  \A v \in Texts :
    text[Entry] = v ~> ran = v \/ text[Entry] # v \/ ~last_ok \/ stop_requested

\* A request to stop ends the watcher, in whatever state it arrives.
WatchStops == stop_requested ~> wpc = "stopped"
=============================================================================
