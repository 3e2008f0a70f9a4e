------------------------------- MODULE Prefetch -------------------------------
(***************************************************************************)
(* IO::AsyncIO::IOPrefetchManager with the IOCacheManager and the          *)
(* IOFileMap it owns: prefetches on the thread pool, callers of TryGet and *)
(* callers of InvalidatePath, on files that change.                        *)
(*                                                                         *)
(* Each of the three objects has a mutex of its own, and a critical        *)
(* section of one of them is one action.  The bytes of a region are        *)
(* abstracted to the version of the file they were read from.              *)
(***************************************************************************)
EXTENDS Integers, FiniteSets, SequencesExt

CONSTANTS Paths, Regions,   \* files, and regions [off, len] of them
          FileLen,          \* the length of every file
          Tasks,            \* prefetches that may be issued
          Getters,          \* threads that call TryGet
          Invalidators,     \* threads that call InvalidatePath
          Capacity,         \* capacityBytes_ of the cache
          MaxVersion        \* bound on the changes of a file

ASSUME PrefetchAssumption ==
  /\ FileLen \in Nat /\ Capacity \in Nat /\ MaxVersion \in Nat
  /\ Regions \subseteq [off : Nat, len : Nat \ {0}]

VARIABLES version,          \* the current version of each file
          map,              \* IOFileMap: the regions mapped for each path
          cache, sizeBytes, \* IOCacheManager: most recently used first
          inProgress, pathGenerations,
          task, getter, inval,
          floor             \* history: the version an invalidation vouches for

sharedVars == <<map, cache, sizeBytes, inProgress, pathGenerations>>
prefetchVars == <<version, map, cache, sizeBytes, inProgress, pathGenerations,
                  task, getter, inval, floor>>

Keys == Paths \X Regions
NoData == -1
NoKey == <<>>

Put0 == [key |-> NoKey, pc |-> "idle", data |-> NoData]
NewTask == [key |-> NoKey, pc |-> "new", data |-> NoData, gen |-> 0, stale |-> FALSE]

PrefetchInit ==
  /\ version = [p \in Paths |-> 0]
  /\ map = [p \in Paths |-> <<>>]
  /\ cache = <<>> /\ sizeBytes = 0
  /\ inProgress = {} /\ pathGenerations = [p \in Paths |-> 0]
  /\ task = [t \in Tasks |-> NewTask]
  /\ getter = [g \in Getters |-> Put0]
  /\ inval = [i \in Invalidators |-> [pc |-> "idle", path |-> NoKey, seen |-> 0, clean |-> FALSE]]
  /\ floor = [p \in Paths |-> 0]

(***************************************************************************)
(* IOCacheManager and IOFileMap.                                           *)
(***************************************************************************)
\* The bytes of the entries of a list, and the entries with one of the keys.
Bytes(entries) ==
  LET f[n \in 0 .. Len(entries)] == IF n = 0 THEN 0 ELSE f[n - 1] + entries[n].key[2].len
  IN f[Len(entries)]
Having(entries, keys) ==
  LET f[n \in 0 .. Len(entries)] ==
        IF n = 0 THEN <<>>
        ELSE IF entries[n].key \in keys THEN Append(f[n - 1], entries[n]) ELSE f[n - 1]
  IN f[Len(entries)]

\* EvictIfNeeded: entries leave from the back while the size is too large.
Evicted(entries, size) ==
  LET Fits(n) == n = 0 \/ size - (Bytes(entries) - Bytes(SubSeq(entries, 1, n))) <= Capacity
      kept == CHOOSE n \in 0 .. Len(entries) :
                Fits(n) /\ \A m \in (n + 1) .. Len(entries) : ~Fits(m)
  IN SubSeq(entries, 1, kept)

\* Fault: the bytes of the entry that is replaced stay counted.
CachePutLeaks(key, data) ==
  LET others == Having(cache, Keys \ {key})
      size == sizeBytes + key[2].len
      all == <<[key |-> key, data |-> data]>> \o others
  IN /\ cache' = Evicted(all, size)
     /\ sizeBytes' = size - (Bytes(all) - Bytes(cache'))

CachePut(key, data) ==
  LET others == Having(cache, Keys \ {key})
      size == sizeBytes - (Bytes(cache) - Bytes(others)) + key[2].len
      all == <<[key |-> key, data |-> data]>> \o others
  IN /\ cache' = Evicted(all, size)
     /\ sizeBytes' = size - (Bytes(all) - Bytes(cache'))

\* Get: the entry found moves to the front.
CacheHit(key) == \E e \in ToSet(cache) : e.key = key
CacheGet(key) ==
  cache' = Having(cache, {key}) \o Having(cache, Keys \ {key})

RemoveByPrefix(path) ==
  /\ cache' = Having(cache, {k \in Keys : k[1] # path})
  /\ sizeBytes' = sizeBytes - (Bytes(cache) - Bytes(cache'))

\* The part of a region that lies in the file.
Mapped(r) == [r EXCEPT !.len = IF r.off + @ <= FileLen THEN @ ELSE FileLen - r.off]

\* GetRegion: the first mapped region that covers the request.
Covers(m, r) == m.off <= r.off /\ r.off + r.len <= m.off + m.len
GetRegion(path, r) ==
  LET found == {i \in DOMAIN map[path] : Covers(map[path][i].region, r)}
  IN IF found = {} THEN NoData ELSE map[path][Min(found)].data

(***************************************************************************)
(* A prefetch: the call, then the task on the pool.                        *)
(***************************************************************************)
\* Starting an operation on a path takes the trust from an invalidation that
\* is under way or waits for older prefetches.
Disturbs(path) ==
  inval' = [i \in Invalidators |->
              IF inval[i].path = path THEN [inval[i] EXCEPT !.clean = FALSE] ELSE inval[i]]

PrefetchAsync(t, key) ==
  /\ task[t].pc = "new" /\ key \notin inProgress
  /\ inProgress' = inProgress \cup {key}
  /\ task' = [task EXCEPT ![t].pc = "queued", ![t].key = key,
                          ![t].gen = pathGenerations[key[1]]]
  /\ Disturbs(key[1])
  /\ UNCHANGED <<version, map, cache, sizeBytes, pathGenerations, getter, floor>>

\* A pool that is closing may drop the task: its key stays in progress.
PoolLoses(t) ==
  /\ task[t].pc = "queued"
  /\ task' = [task EXCEPT ![t].pc = "lost"]
  /\ UNCHANGED <<version, sharedVars, getter, inval, floor>>

\* MapRegion reads the file; a file that cannot be opened and an offset past
\* its end map nothing.
MapRead(t) ==
  /\ task[t].pc = "queued"
  /\ LET r == task[t].key[2] IN
     \/ /\ r.off <= FileLen
        /\ task' = [task EXCEPT ![t].pc = "read", ![t].data = version[task[t].key[1]]]
     \/ task' = [task EXCEPT ![t].pc = "ending"]
  /\ UNCHANGED <<version, sharedVars, getter, inval, floor>>

MapPush(t) ==
  /\ task[t].pc = "read"
  /\ LET k == task[t].key IN
     map' = [map EXCEPT ![k[1]] = Append(@, [region |-> Mapped(k[2]), data |-> task[t].data])]
  /\ task' = [task EXCEPT ![t].pc = "mapped", ![t].data = NoData]
  /\ UNCHANGED <<version, cache, sizeBytes, inProgress, pathGenerations, getter, inval, floor>>

TaskGetRegion(t) ==
  /\ task[t].pc = "mapped"
  /\ LET data == GetRegion(task[t].key[1], task[t].key[2]) IN
     task' = [task EXCEPT ![t].data = data,
                          ![t].pc = IF data = NoData THEN "ending" ELSE "got"]
  /\ UNCHANGED <<version, sharedVars, getter, inval, floor>>

\* Fault: the generation is not looked at.
TestGenerationNever(t) ==
  /\ task[t].pc = "got"
  /\ task' = [task EXCEPT ![t].pc = "tested"]
  /\ UNCHANGED <<version, sharedVars, getter, inval, floor>>

TestGeneration(t) ==
  /\ task[t].pc = "got"
  /\ task' = [task EXCEPT ![t].pc = "tested",
                          ![t].stale = pathGenerations[task[t].key[1]] # task[t].gen]
  /\ UNCHANGED <<version, sharedVars, getter, inval, floor>>

PutOrUnmap(t) ==
  /\ task[t].pc = "tested"
  /\ task' = [task EXCEPT ![t].pc = "ending"]
  /\ IF task[t].stale
     THEN map' = [map EXCEPT ![task[t].key[1]] = <<>>] /\ UNCHANGED <<cache, sizeBytes>>
     ELSE CachePut(task[t].key, task[t].data) /\ UNCHANGED map
  /\ UNCHANGED <<version, inProgress, pathGenerations, getter, inval, floor>>

\* Fault: a prefetch whose result is stale stays in progress.
EraseInProgressUnlessStale(t) ==
  /\ task[t].pc = "ending"
  /\ inProgress' = IF task[t].stale THEN inProgress ELSE inProgress \ {task[t].key}
  /\ task' = [task EXCEPT ![t] = [NewTask EXCEPT !.pc = "done"]]
  /\ UNCHANGED <<version, map, cache, sizeBytes, pathGenerations, getter, inval, floor>>

\* The callback follows and touches nothing of the manager.
EraseInProgress(t) ==
  /\ task[t].pc = "ending"
  /\ inProgress' = inProgress \ {task[t].key}
  /\ task' = [task EXCEPT ![t] = [NewTask EXCEPT !.pc = "done"]]
  /\ UNCHANGED <<version, map, cache, sizeBytes, pathGenerations, getter, inval, floor>>

(***************************************************************************)
(* TryGet: the cache, then the map, then the cache again.                  *)
(***************************************************************************)
TryGetCache(g, key) ==
  /\ getter[g].pc = "idle"
  /\ IF CacheHit(key) THEN CacheGet(key) /\ UNCHANGED getter
     ELSE getter' = [getter EXCEPT ![g] = [Put0 EXCEPT !.pc = "missed", !.key = key]]
          /\ UNCHANGED cache
  /\ Disturbs(key[1])
  /\ UNCHANGED <<version, map, sizeBytes, inProgress, pathGenerations, task, floor>>

TryGetMap(g) ==
  /\ getter[g].pc = "missed"
  /\ LET data == GetRegion(getter[g].key[1], getter[g].key[2]) IN
     getter' = [getter EXCEPT ![g] = IF data = NoData THEN Put0
                                     ELSE [@ EXCEPT !.pc = "got", !.data = data]]
  /\ UNCHANGED <<version, sharedVars, task, inval, floor>>

TryGetPut(g) ==
  /\ getter[g].pc = "got"
  /\ CachePut(getter[g].key, getter[g].data)
  /\ getter' = [getter EXCEPT ![g] = Put0]
  /\ UNCHANGED <<version, map, inProgress, pathGenerations, task, inval, floor>>

(***************************************************************************)
(* InvalidatePath, and the changes of files it is called for.              *)
(***************************************************************************)
\* Prefetches of the path that are under way and still have the generation
\* test before them, and whose region lies in the file.
Untested(t) == /\ task[t].pc \in {"queued", "read", "mapped", "got"}
               /\ Mapped(task[t].key[2]) = task[t].key[2]
Busy(path) == \/ \E g \in Getters : getter[g].pc # "idle" /\ getter[g].key[1] = path
              \/ \E t \in Tasks : /\ task[t].pc \notin {"new", "done", "lost"}
                                  /\ task[t].key[1] = path /\ ~Untested(t)
Flying(path) == \E t \in Tasks : /\ task[t].pc \notin {"new", "done", "lost"}
                                 /\ task[t].key[1] = path

BumpGeneration(i, path) ==
  /\ inval[i].pc = "idle" /\ pathGenerations[path] < MaxVersion
  /\ pathGenerations' = [pathGenerations EXCEPT ![path] = @ + 1]
  /\ inval' = [inval EXCEPT ![i] = [pc |-> "bumped", path |-> path, seen |-> version[path],
                                    clean |-> ~Busy(path)]]
  /\ UNCHANGED <<version, map, cache, sizeBytes, inProgress, task, getter, floor>>

InvalidateCache(i) ==
  /\ inval[i].pc = "bumped"
  /\ RemoveByPrefix(inval[i].path)
  /\ inval' = [inval EXCEPT ![i].pc = "removed"]
  /\ UNCHANGED <<version, map, inProgress, pathGenerations, task, getter, floor>>

InvalidateMap(i) ==
  /\ inval[i].pc = "removed"
  /\ map' = [map EXCEPT ![inval[i].path] = <<>>]
  /\ inval' = [inval EXCEPT ![i].pc = "settling"]
  /\ UNCHANGED <<version, cache, sizeBytes, inProgress, pathGenerations, task, getter, floor>>

\* History: the call has returned; once the prefetches it overtook are over
\* too, an undisturbed invalidation vouches for the version it saw, unless one that
\* began later vouches for a newer one already.
Settle(i) ==
  /\ inval[i].pc = "settling"
  /\ ~Flying(inval[i].path) \/ ~inval[i].clean
  /\ floor' = IF inval[i].clean /\ inval[i].seen > floor[inval[i].path]
              THEN [floor EXCEPT ![inval[i].path] = inval[i].seen] ELSE floor
  /\ inval' = [inval EXCEPT ![i] = [@ EXCEPT !.pc = "idle", !.path = NoKey, !.seen = 0, !.clean = FALSE]]
  /\ UNCHANGED <<version, sharedVars, task, getter>>

FileChanges(path) ==
  /\ version[path] < MaxVersion
  /\ version' = [version EXCEPT ![path] = @ + 1]
  /\ UNCHANGED <<sharedVars, task, getter, inval, floor>>

TaskStep(t) == \/ MapRead(t) \/ MapPush(t) \/ TaskGetRegion(t) \/ TestGeneration(t)
               \/ PutOrUnmap(t) \/ EraseInProgress(t)

PrefetchNext ==
  \/ \E t \in Tasks : TaskStep(t) \/ PoolLoses(t) \/ \E k \in Keys : PrefetchAsync(t, k)
  \/ \E g \in Getters : TryGetMap(g) \/ TryGetPut(g) \/ \E k \in Keys : TryGetCache(g, k)
  \/ \E i \in Invalidators : InvalidateCache(i) \/ InvalidateMap(i) \/ Settle(i)
                             \/ \E p \in Paths : BumpGeneration(i, p)
  \/ \E p \in Paths : FileChanges(p)

PrefetchSpec == PrefetchInit /\ [][PrefetchNext]_prefetchVars

\* The versions of a file that are cached or mapped, and the abstract cache.
Held == [p \in Paths |-> {e.data : e \in {e \in ToSet(cache) : e.key[1] = p}}
                           \cup {m.data : m \in ToSet(map[p])}]
Fresh == INSTANCE FreshCache WITH held <- Held

(***************************************************************************)
(* Properties.                                                             *)
(***************************************************************************)
\* However Put, Get, RemoveByPrefix and eviction interleave, sizeBytes_ is the
\* sum of the sizes of the entries held, never above the capacity, and a key
\* is held once (io_cache_manager.cc).
CacheAccounted ==
  /\ sizeBytes = Bytes(cache) /\ sizeBytes <= Capacity
  /\ \A a, b \in DOMAIN cache : cache[a].key = cache[b].key => a = b

\* After an InvalidatePath that no TryGet and no later prefetch of the path
\* overlapped, and once the prefetches it overtook have finished, nothing
\* older than the file it saw is cached or mapped: the generation test and the
\* Unmap that follows it throw the overtaken results away.
InvalidateClears ==
  \A p \in Paths :
    /\ \A e \in ToSet(cache) : e.key[1] = p => e.data >= floor[p]
    /\ \A m \in ToSet(map[p]) : m.data >= floor[p]

\* The manager is a cache that never comes to hold what is older than an
\* invalidation vouches for, and that holds nothing of a path when one does.
ImplementsFreshCache == Fresh!Spec

\* A key is in progress exactly while one prefetch of it is queued or runs:
\* whatever becomes of the prefetch, its end releases the key, and no two
\* prefetches of a region overlap.  A prefetch that a closing pool drops holds
\* its key for ever, and every later prefetch of the region is refused.
KeysReleased ==
  \A k \in Keys :
    LET holding == {t \in Tasks : task[t].key = k /\ task[t].pc \notin {"new", "done"}}
    IN Cardinality(holding) = (IF k \in inProgress THEN 1 ELSE 0)
=============================================================================
