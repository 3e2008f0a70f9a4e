------------------------------ MODULE UnitsProofs ------------------------------
(***************************************************************************)
(* Proofs about the small units of the asynchronous layer: the task queue, *)
(* the model builder's thread pool, the barriers and the buffer pools, for *)
(* any number of clients and any sizes.                                    *)
(***************************************************************************)
EXTENDS TaskQueue, ModelThreadPool, SyncBarriers, AsyncBufferPool, IOBufferPool,
        InductionLemmas

-----------------------------------------------------------------------------
(* Cancelled tasks                                                         *)

\* Identifiers are given out in order, and no two queued tasks share one.
FreshIds ==
  /\ \A t \in queue : t.id <= counter
  /\ \A i \in taken \cup withdrawn : i <= counter
  /\ \A t, u \in queue : t.id = u.id => t = u

CancelInv == QueueTypeOK /\ FreshIds /\ CancelledNotTaken

\* A new task has an identifier that no other task has or had.
LEMMA PushedFresh ==
  ASSUME CancelInv, NEW k \in Priorities, counter < MaxTasks
  PROVE  /\ Pushed(k) \subseteq [id : 1 .. MaxTasks, priority : Priorities]
         /\ IsFiniteSet(Pushed(k))
         /\ Cardinality(Pushed(k)) = Cardinality(queue) + 1
         /\ counter + 1 \in 1 .. MaxTasks
         /\ counter + 1 \notin Ids /\ counter + 1 \notin taken \cup withdrawn
<1>1. counter + 1 \in 1 .. MaxTasks /\ counter \in Nat
  BY QueueAssumption DEF CancelInv, QueueTypeOK
<1>2. counter + 1 \notin Ids /\ counter + 1 \notin taken \cup withdrawn
  BY <1>1 DEF CancelInv, FreshIds, Ids, QueueTypeOK
<1>3. [id |-> counter + 1, priority |-> k] \notin queue
  BY <1>2 DEF Ids
<1>4. Pushed(k) \subseteq [id : 1 .. MaxTasks, priority : Priorities]
  BY <1>1 DEF Pushed, CancelInv, QueueTypeOK
<1>5. IsFiniteSet(Pushed(k)) /\ Cardinality(Pushed(k)) = Cardinality(queue) + 1
  <2>1. IsFiniteSet(queue)
    BY DEF CancelInv, QueueTypeOK
  <2>2. QED
    BY <1>3, <2>1, FS_AddElement DEF Pushed
<1>6. QED
  BY <1>1, <1>2, <1>4, <1>5

LEMMA CancelInvPush ==
  ASSUME CancelInv, NEW k \in Priorities, counter < MaxTasks,
         counter' = counter + 1, queue' = Pushed(k),
         producer' \in [Producers -> {"out", "asleep", "woken"}],
         UNCHANGED <<cancelled, is_running, taken, withdrawn>>
  PROVE  CancelInv'
<1>1. QueueTypeOK'
  BY PushedFresh, QueueAssumption DEF CancelInv, QueueTypeOK
<1>2. FreshIds'
  <2>1. counter \in Nat
    BY QueueAssumption DEF CancelInv, QueueTypeOK
  <2>2. \A t \in queue' : t.id <= counter'
    BY <2>1 DEF CancelInv, FreshIds, Pushed, QueueTypeOK
  <2>3. \A i \in (taken \cup withdrawn)' : i <= counter'
    BY <2>1 DEF CancelInv, FreshIds, QueueTypeOK
  <2>4. \A t, u \in queue' : t.id = u.id => t = u
    BY <2>1, PushedFresh DEF CancelInv, FreshIds, Pushed, Ids
  <2>5. QED
    BY <2>2, <2>3, <2>4 DEF FreshIds
<1>3. CancelledNotTaken'
  <2>1. Ids' = Ids \cup {counter + 1}
    <3> DEFINE new == [id |-> counter + 1, priority |-> k]
    <3>1. queue' = queue \cup {new} /\ new.id = counter + 1
      BY DEF Pushed
    <3> HIDE DEF new
    <3>2. QED
      BY <3>1 DEF Ids
  <2>2. QED
    BY <2>1, PushedFresh DEF CancelInv, CancelledNotTaken
<1>4. QED
  BY <1>1, <1>2, <1>3 DEF CancelInv

\* Whatever NotifyOne chooses, the threads keep their type.
LEMMA NotifyOneType ==
  ASSUME NEW seen \in [Producers -> {"out", "asleep", "woken"}], NotifyOne(seen)
  PROVE  producer' \in [Producers -> {"out", "asleep", "woken"}]
  BY DEF NotifyOne

LEMMA CancelInvDequeue ==
  ASSUME CancelInv, DequeueTask
  PROVE  CancelInv'
<1>1. PICK gone \in SUBSET {t \in queue : t.id \in cancelled} :
        /\ cancelled' = cancelled \ {t.id : t \in gone}
        /\ \/ gone = queue /\ queue' = {} /\ UNCHANGED taken
           \/ \E t \in Tops(queue \ gone) :
                /\ t.id \notin cancelled
                /\ queue' = queue \ (gone \cup {t}) /\ taken' = taken \cup {t.id}
  BY DEF DequeueTask
<1>2. UNCHANGED <<is_running, counter, withdrawn>>
  BY DEF DequeueTask
<1>3. producer' \in [Producers -> {"out", "asleep", "woken"}]
  BY DEF DequeueTask, NotifyEach, CancelInv, QueueTypeOK
<1>4. queue' \subseteq queue \ gone
  BY <1>1
<1>5. IsFiniteSet(queue')
  BY <1>4, FS_Subset DEF CancelInv, QueueTypeOK
<1>6. CASE gone = queue /\ queue' = {} /\ UNCHANGED taken
  <2>1. QueueTypeOK' /\ FreshIds'
    BY <1>1, <1>2, <1>3, <1>5, <1>6 DEF CancelInv, QueueTypeOK, FreshIds
  <2>2. Ids' = {}
    BY <1>6 DEF Ids
  <2>3. QED
    BY <1>2, <1>6, <2>1, <2>2 DEF CancelInv, CancelledNotTaken
<1>7. ASSUME NEW t \in Tops(queue \ gone), t.id \notin cancelled,
             queue' = queue \ (gone \cup {t}), taken' = taken \cup {t.id}
      PROVE  CancelInv'
  <2>1. t \in queue /\ t.id \in 1 .. MaxTasks
    BY <1>7 DEF Tops, CancelInv, QueueTypeOK
  <2>2. QueueTypeOK'
    BY <1>1, <1>2, <1>3, <1>5, <1>7, <2>1 DEF CancelInv, QueueTypeOK
  <2>3. FreshIds'
    BY <1>2, <1>7, <2>1 DEF CancelInv, FreshIds
  <2>4. t.id \in Ids /\ t.id \notin withdrawn
    BY <1>7, <2>1 DEF Ids, CancelInv, CancelledNotTaken
  <2>5. Ids' \subseteq Ids /\ t.id \notin Ids'
    BY <1>7, <2>1 DEF Ids, CancelInv, FreshIds
  <2>6. \A u \in gone : u.id \notin Ids'
    BY <1>7 DEF Ids, CancelInv, FreshIds
  <2>7. taken' \cap withdrawn' = {} /\ taken' \cap Ids' = {}
    BY <1>2, <1>7, <2>4, <2>5 DEF CancelInv, CancelledNotTaken
  <2>8. withdrawn' \cap Ids' \subseteq cancelled'
    BY <1>1, <1>2, <2>5, <2>6 DEF CancelInv, CancelledNotTaken
  <2>9. QED
    BY <2>2, <2>3, <2>7, <2>8 DEF CancelInv, CancelledNotTaken
<1>8. QED
  BY <1>1, <1>6, <1>7

\* The queue and its marks are thrown away together.
LEMMA CancelInvEmptied ==
  ASSUME CancelInv, queue' = {}, cancelled' = {}, is_running' \in BOOLEAN,
         producer' \in [Producers -> {"out", "asleep", "woken"}],
         UNCHANGED <<counter, taken, withdrawn>>
  PROVE  CancelInv'
<1>1. QueueTypeOK' /\ FreshIds'
  BY FS_EmptySet DEF CancelInv, QueueTypeOK, FreshIds
<1>2. Ids' = {}
  BY DEF Ids
<1>3. QED
  BY <1>1, <1>2 DEF CancelInv, CancelledNotTaken

LEMMA CancelInvCancel ==
  ASSUME CancelInv, NEW i \in 1 .. MaxTasks, CancelTask(i)
  PROVE  CancelInv'
<1>1. QueueTypeOK'
  BY DEF CancelTask, CancelInv, QueueTypeOK
<1>2. Ids' = Ids
  BY DEF CancelTask, Ids
<1>3. i \in Ids => i <= counter /\ i \notin taken
  BY DEF Ids, CancelInv, FreshIds, CancelledNotTaken
<1>4. FreshIds'
  BY <1>3 DEF CancelTask, CancelInv, FreshIds
<1>5. CancelledNotTaken'
  BY <1>2, <1>3 DEF CancelTask, CancelInv, CancelledNotTaken
<1>6. QED
  BY <1>1, <1>4, <1>5 DEF CancelInv

\* Steps of the threads alone.
LEMMA CancelInvThreads ==
  ASSUME CancelInv, producer' \in [Producers -> {"out", "asleep", "woken"}],
         UNCHANGED <<queue, cancelled, is_running, counter, taken, withdrawn>>
  PROVE  CancelInv'
  BY DEF CancelInv, QueueTypeOK, FreshIds, CancelledNotTaken, Ids

LEMMA NotifyAllType ==
  ASSUME CancelInv, NotifyAll
  PROVE  producer' \in [Producers -> {"out", "asleep", "woken"}]
  BY DEF NotifyAll, CancelInv, QueueTypeOK

LEMMA CancelInvStep == CancelInv /\ [QueueNext]_queueVars => CancelInv'
<1> SUFFICES ASSUME CancelInv, [QueueNext]_queueVars PROVE CancelInv'
  OBVIOUS
<1>0. producer \in [Producers -> {"out", "asleep", "woken"}]
  BY DEF CancelInv, QueueTypeOK
<1>1. ASSUME NEW p \in Producers, EnqueueWaits(p) PROVE CancelInv'
  BY <1>0, <1>1, CancelInvThreads DEF EnqueueWaits
<1>2. ASSUME NEW p \in Producers, EnqueueRefused(p) PROVE CancelInv'
  BY <1>0, <1>2, CancelInvThreads DEF EnqueueRefused
<1>3. ASSUME NEW p \in Producers, SpuriousWakeup(p) PROVE CancelInv'
  BY <1>0, <1>3, CancelInvThreads DEF SpuriousWakeup
<1>4. ASSUME NEW p \in Producers, NEW k \in Priorities, EnqueuePushes(p, k)
      PROVE  CancelInv'
  <2>1. [producer EXCEPT ![p] = "out"] \in [Producers -> {"out", "asleep", "woken"}]
    BY <1>0
  <2>2. producer' \in [Producers -> {"out", "asleep", "woken"}]
    BY <1>4, <2>1, NotifyOneType DEF EnqueuePushes
  <2>3. QED
    BY <1>4, <2>2, CancelInvPush DEF EnqueuePushes
<1>5. ASSUME NEW k \in Priorities, TryEnqueueTask(k) PROVE CancelInv'
  <2>1. producer' \in [Producers -> {"out", "asleep", "woken"}]
    BY <1>0, <1>5, NotifyOneType DEF TryEnqueueTask
  <2>2. QED
    BY <1>5, <2>1, CancelInvPush DEF TryEnqueueTask
<1>6. ASSUME DequeueTask PROVE CancelInv'
  BY <1>6, CancelInvDequeue
<1>7. ASSUME Clear PROVE CancelInv'
  BY <1>7, NotifyAllType, CancelInvEmptied DEF Clear, CancelInv, QueueTypeOK
<1>8. ASSUME Shutdown PROVE CancelInv'
  BY <1>8, NotifyAllType, CancelInvEmptied DEF Shutdown
<1>9. ASSUME NEW i \in 1 .. MaxTasks, CancelTask(i) PROVE CancelInv'
  BY <1>9, CancelInvCancel
<1>10. CASE UNCHANGED queueVars
  BY <1>0, <1>10, CancelInvThreads DEF queueVars
<1>11. QED
  BY <1>1, <1>2, <1>3, <1>4, <1>5, <1>6, <1>7, <1>8, <1>9, <1>10
  DEF QueueNext, EnqueueStep

LEMMA CancelInvInit == QueueInit => CancelInv
<1> SUFFICES ASSUME QueueInit PROVE CancelInv
  OBVIOUS
<1>1. QueueTypeOK
  BY QueueAssumption, FS_EmptySet DEF QueueInit, QueueTypeOK
<1>2. FreshIds /\ CancelledNotTaken
  BY DEF QueueInit, FreshIds, CancelledNotTaken
<1>3. QED
  BY <1>1, <1>2 DEF CancelInv

LEMMA CancelInvAlways == QueueSpec => []CancelInv
  BY CancelInvInit, CancelInvStep, PTL DEF QueueSpec

\* A task that was cancelled while it was queued is never returned by
\* DequeueTask, and no task is returned twice (async_task_queue.cc).
THEOREM CancelledStayQueuedOut == QueueSpec => []CancelledNotTaken
<1>1. CancelInv => CancelledNotTaken
  BY DEF CancelInv
<1>2. QED
  BY <1>1, CancelInvAlways, PTL

-----------------------------------------------------------------------------
(* Waiting producers                                                       *)

\* The threads of either kind are finitely many.
LEMMA ThreadsFinite ==
  /\ IsFiniteSet(Asleep) /\ Cardinality(Asleep) \in Nat
  /\ IsFiniteSet(Woken) /\ Cardinality(Woken) \in Nat
<1>1. Asleep \in SUBSET Producers /\ Woken \in SUBSET Producers
  BY DEF Asleep, Woken
<1>2. IsFiniteSet(Producers)
  BY QueueAssumption
<1>3. QED
  BY <1>1, <1>2, FS_Subset, FS_CardinalityType

LEMMA ThreadsFiniteNext ==
  /\ IsFiniteSet(Asleep') /\ Cardinality(Asleep') \in Nat
  /\ IsFiniteSet(Woken') /\ Cardinality(Woken') \in Nat
<1>1. Asleep' \in SUBSET Producers /\ Woken' \in SUBSET Producers
  BY DEF Asleep, Woken
<1>2. IsFiniteSet(Producers)
  BY QueueAssumption
<1>3. QED
  BY <1>1, <1>2, FS_Subset, FS_CardinalityType

LEMMA RoomType == CancelInv => Room \in Int /\ Cardinality(queue) \in Nat
  BY FS_CardinalityType, QueueAssumption DEF CancelInv, QueueTypeOK, Room

WakeInv == CancelInv /\ ProducersWoken

\* One place fewer, and at most one woken producer fewer, which is the one
\* that took the place.
LEMMA WakePush ==
  ASSUME WakeInv, NEW k \in Priorities, counter < MaxTasks, queue' = Pushed(k),
         NEW p, Woken \ {p} \subseteq Woken', Asleep' \subseteq Asleep,
         is_running' = is_running
  PROVE  ProducersWoken'
<1>1. Cardinality(queue') = Cardinality(queue) + 1 /\ Cardinality(queue) \in Nat
  BY PushedFresh, RoomType DEF WakeInv
<1>2. Room' = Room - 1 /\ Room \in Int
  BY <1>1, QueueAssumption DEF Room
<1>3. IsFiniteSet(Woken \ {p}) /\ Cardinality(Woken \ {p}) >= Cardinality(Woken) - 1
  <2>1. IsFiniteSet(Woken) /\ Cardinality(Woken) \in Nat
    BY ThreadsFinite
  <2>2. /\ IsFiniteSet(Woken \ {p})
        /\ Cardinality(Woken \ {p}) =
             IF p \in Woken THEN Cardinality(Woken) - 1 ELSE Cardinality(Woken)
    BY <2>1, FS_RemoveElement
  <2>3. QED
    BY <2>1, <2>2
<1>4. Cardinality(Woken \ {p}) \in Nat
  BY <1>3, FS_CardinalityType
<1>5. Cardinality(Woken \ {p}) <= Cardinality(Woken')
  BY ThreadsFiniteNext, FS_Subset
<1>6. QED
  BY <1>2, <1>3, <1>4, <1>5, ThreadsFinite, ThreadsFiniteNext DEF WakeInv, ProducersWoken

\* NotifyOne wakes sleeping threads only, and puts none to sleep.
LEMMA NotifyOneWakes ==
  ASSUME NEW seen \in [Producers -> {"out", "asleep", "woken"}], NotifyOne(seen)
  PROVE  /\ {q \in Producers : seen[q] = "woken"} \subseteq Woken'
         /\ Asleep' \subseteq {q \in Producers : seen[q] = "asleep"}
  BY DEF NotifyOne, Woken, Asleep

\* The producers that DequeueTask wakes are as many as the places it makes,
\* unless none stays asleep.
LEMMA WakeDequeue ==
  ASSUME WakeInv, DequeueTask, queue' \subseteq queue
  PROVE  ProducersWoken'
<1> DEFINE n == Cardinality(queue) - Cardinality(queue')
<1>1. PICK who \in SUBSET Asleep :
        /\ Cardinality(who) = (IF n < Cardinality(Asleep) THEN n ELSE Cardinality(Asleep))
        /\ producer' = [p \in Producers |-> IF p \in who THEN "woken" ELSE producer[p]]
  BY DEF DequeueTask, NotifyEach
<1>2. is_running /\ is_running' = is_running
  BY DEF DequeueTask
<1>3. /\ Cardinality(queue) \in Nat /\ Cardinality(queue') \in Nat
      /\ n \in Nat
  <2>1. IsFiniteSet(queue)
    BY DEF WakeInv, CancelInv, QueueTypeOK
  <2>2. IsFiniteSet(queue') /\ Cardinality(queue') <= Cardinality(queue)
    BY <2>1, FS_Subset
  <2>3. QED
    BY <2>1, <2>2, FS_CardinalityType
<1>4. Room' = Room + n /\ Room \in Int
  BY <1>3, QueueAssumption DEF Room
<1>5. Asleep' = Asleep \ who /\ Woken' = Woken \cup who /\ Woken \cap who = {}
  BY <1>1 DEF Asleep, Woken
<1>6. IsFiniteSet(who) /\ Cardinality(who) \in Nat
      /\ (Cardinality(Asleep) = Cardinality(who) => Asleep = who)
  BY ThreadsFinite, FS_Subset, FS_CardinalityType
<1>7. Cardinality(Woken') = Cardinality(Woken) + Cardinality(who)
  <2>1. IsFiniteSet(Woken) /\ Cardinality(Woken) \in Nat
    BY ThreadsFinite
  <2>2. Cardinality(Woken \cup who)
          = Cardinality(Woken) + Cardinality(who) - Cardinality(Woken \cap who)
    BY <1>6, <2>1, FS_Union
  <2>3. Cardinality(Woken \cap who) = 0
    BY <1>5, FS_EmptySet
  <2>4. QED
    BY <1>5, <1>6, <2>1, <2>2, <2>3
<1> HIDE DEF n
<1>8. CASE Cardinality(who) = n
  BY <1>2, <1>3, <1>4, <1>5, <1>7, <1>8, ThreadsFinite DEF WakeInv, ProducersWoken
<1>9. CASE Cardinality(who) # n
  <2>1. Asleep' = {}
    BY <1>1, <1>5, <1>6, <1>9
  <2>2. QED
    BY <2>1 DEF ProducersWoken
<1>10. QED
  BY <1>8, <1>9

\* A step after which nobody sleeps.
LEMMA WakeAll ==
  ASSUME NotifyAll
  PROVE  ProducersWoken'
<1>1. Asleep' = {}
  BY DEF NotifyAll, Asleep
<1>2. QED
  BY <1>1 DEF ProducersWoken

LEMMA WakeInvStep == WakeInv /\ [QueueNext]_queueVars => WakeInv'
<1> SUFFICES ASSUME WakeInv, [QueueNext]_queueVars PROVE ProducersWoken'
  BY CancelInvStep DEF WakeInv
<1>0. producer \in [Producers -> {"out", "asleep", "woken"}]
  BY DEF WakeInv, CancelInv, QueueTypeOK
<1>1. ASSUME NEW p \in Producers, EnqueueWaits(p) PROVE ProducersWoken'
  <2>1. Room' = Room /\ Room <= 0 /\ is_running' /\ Room \in Int
    BY <1>1, RoomType DEF EnqueueWaits, Room, WakeInv
  <2>2. QED
    BY <2>1, ThreadsFiniteNext DEF ProducersWoken
<1>2. ASSUME NEW p \in Producers, EnqueueRefused(p) PROVE ProducersWoken'
  <2>1. Asleep' = Asleep
    BY <1>0, <1>2 DEF EnqueueRefused, Asleep
  <2>2. Asleep = {}
    BY <1>2 DEF EnqueueRefused, WakeInv, ProducersWoken
  <2>3. QED
    BY <2>1, <2>2 DEF ProducersWoken
<1>3. ASSUME NEW p \in Producers, SpuriousWakeup(p) PROVE ProducersWoken'
  <2>1. Asleep' \subseteq Asleep /\ Woken \subseteq Woken'
    BY <1>0, <1>3 DEF SpuriousWakeup, Asleep, Woken
  <2>2. Cardinality(Woken) <= Cardinality(Woken')
    BY <2>1, ThreadsFiniteNext, FS_Subset
  <2>3. Room' = Room /\ is_running' = is_running /\ Room \in Int
    BY <1>3, RoomType DEF SpuriousWakeup, Room, WakeInv
  <2>4. QED
    BY <2>1, <2>2, <2>3, ThreadsFinite, ThreadsFiniteNext DEF WakeInv, ProducersWoken
<1>4. ASSUME NEW p \in Producers, NEW k \in Priorities, EnqueuePushes(p, k)
      PROVE  ProducersWoken'
  <2> DEFINE seen == [producer EXCEPT ![p] = "out"]
  <2>1. seen \in [Producers -> {"out", "asleep", "woken"}] /\ NotifyOne(seen)
    BY <1>0, <1>4 DEF EnqueuePushes
  <2>2. /\ Woken \ {p} \subseteq {q \in Producers : seen[q] = "woken"}
        /\ {q \in Producers : seen[q] = "asleep"} \subseteq Asleep
    BY <1>0 DEF Woken, Asleep
  <2> HIDE DEF seen
  <2>3. Woken \ {p} \subseteq Woken' /\ Asleep' \subseteq Asleep
    BY <2>1, <2>2, NotifyOneWakes
  <2>4. QED
    BY <1>4, <2>3, WakePush DEF EnqueuePushes
<1>5. ASSUME NEW k \in Priorities, TryEnqueueTask(k) PROVE ProducersWoken'
  <2>1. Woken \subseteq Woken' /\ Asleep' \subseteq Asleep
    BY <1>0, <1>5, NotifyOneWakes DEF TryEnqueueTask, Woken, Asleep
  <2>2. Woken \ {counter} \subseteq Woken'
    BY <2>1
  <2>3. QED
    BY <1>5, <2>1, <2>2, WakePush DEF TryEnqueueTask
<1>6. ASSUME DequeueTask PROVE ProducersWoken'
  BY <1>6, WakeDequeue DEF DequeueTask
<1>7. ASSUME Clear PROVE ProducersWoken'
  BY <1>7, WakeAll DEF Clear
<1>8. ASSUME Shutdown PROVE ProducersWoken'
  BY <1>8, WakeAll DEF Shutdown
<1>9. ASSUME NEW i \in 1 .. MaxTasks, CancelTask(i) PROVE ProducersWoken'
  BY <1>9 DEF CancelTask, WakeInv, ProducersWoken, Asleep, Woken, Room
<1>10. CASE UNCHANGED queueVars
  BY <1>10 DEF queueVars, WakeInv, ProducersWoken, Asleep, Woken, Room
<1>11. QED
  BY <1>1, <1>2, <1>3, <1>4, <1>5, <1>6, <1>7, <1>8, <1>9, <1>10
  DEF QueueNext, EnqueueStep

\* No producer sleeps beside a free place that nobody is on the way to, and
\* none sleeps once the queue is shut down (async_task_queue.cc:16).
THEOREM NoProducerForgotten == QueueSpec => []ProducersWoken
<1>1. QueueInit => WakeInv
  BY CancelInvInit DEF QueueInit, WakeInv, ProducersWoken, Asleep
<1>2. WakeInv => ProducersWoken
  BY DEF WakeInv
<1>3. QED
  BY <1>1, <1>2, WakeInvStep, PTL DEF QueueSpec

-----------------------------------------------------------------------------
(* The model builder's thread pool                                         *)

ModelTypeOK ==
  /\ pending \in Nat
  /\ caller \in [Callers -> {"out", "issuing", "waiting", "asleep", "back"}]
  /\ iteration \in [Iterations -> {"new", "counted", "handed", "lost", "ran",
                                   "notifying", "done"}]

\* The iterations that pending_tasks_ stands for.
Outstanding == {i \in Iterations : iteration[i] \in {"counted", "handed", "lost", "ran"}}

\* A caller in WaitForIdle has handed over its last iteration.
AllIssued ==
  \A c \in Callers : caller[c] \in {"waiting", "asleep", "back"} =>
    \A i \in IterationsOf(c) : iteration[i] \notin {"new", "counted"}

ModelInv == /\ ModelTypeOK /\ AllIssued /\ ParallelForWaits
            /\ pending = Cardinality(Outstanding)

LEMMA OutstandingFinite == IsFiniteSet(Outstanding) /\ Cardinality(Outstanding) \in Nat
<1>1. Outstanding \in SUBSET Iterations
  BY DEF Outstanding
<1>2. QED
  BY <1>1, CallAssumption, FS_Subset, FS_CardinalityType

LEMMA OutstandingGrows ==
  ASSUME NEW i, i \notin Outstanding, Outstanding' = Outstanding \cup {i}
  PROVE  Cardinality(Outstanding') = Cardinality(Outstanding) + 1
  BY OutstandingFinite, FS_AddElement

LEMMA OutstandingShrinks ==
  ASSUME NEW i, i \in Outstanding, Outstanding' = Outstanding \ {i}
  PROVE  Cardinality(Outstanding') = Cardinality(Outstanding) - 1
  BY OutstandingFinite, FS_RemoveElement

LEMMA ModelInvInit == ModelInit => ModelInv
<1> SUFFICES ASSUME ModelInit PROVE ModelInv
  OBVIOUS
<1>1. Outstanding = {}
  BY DEF ModelInit, Outstanding
<1>2. pending = Cardinality(Outstanding)
  BY <1>1, FS_EmptySet DEF ModelInit
<1>3. ModelTypeOK /\ AllIssued /\ ParallelForWaits
  BY DEF ModelInit, ModelTypeOK, AllIssued, ParallelForWaits
<1>4. QED
  BY <1>2, <1>3 DEF ModelInv

\* Only the callers change.
LEMMA ModelInvCaller ==
  ASSUME ModelInv, UNCHANGED <<pending, iteration>>, ModelTypeOK', AllIssued',
         ParallelForWaits'
  PROVE  ModelInv'
  BY DEF ModelInv, Outstanding

LEMMA ModelInvCount ==
  ASSUME ModelInv, NEW i \in Iterations, CountIteration(i)
  PROVE  ModelInv'
<1> USE DEF ModelInv
<1>1. ModelTypeOK'
  BY DEF ModelTypeOK, CountIteration
<1>2. \A c \in Callers : \A j \in IterationsOf(c) :
        caller[c] \in {"waiting", "asleep", "back"} => j # i
  BY DEF CountIteration, AllIssued
<1>3. AllIssued'
  BY <1>2 DEF CountIteration, AllIssued, IterationsOf, ModelTypeOK
<1>4. ParallelForWaits'
  BY <1>2 DEF CountIteration, ParallelForWaits, IterationsOf, ModelTypeOK
<1>5. i \notin Outstanding /\ Outstanding' = Outstanding \cup {i}
  BY DEF CountIteration, Outstanding, ModelTypeOK
<1>6. QED
  BY <1>1, <1>3, <1>4, <1>5, OutstandingGrows DEF CountIteration

LEMMA ModelInvHandOver ==
  ASSUME ModelInv, NEW i \in Iterations, HandOver(i)
  PROVE  ModelInv'
<1> USE DEF ModelInv
<1>1. PICK to \in {"handed", "lost"} : iteration' = [iteration EXCEPT ![i] = to]
  BY DEF HandOver
<1>2. iteration[i] = "counted" /\ UNCHANGED <<pending, caller>>
  BY DEF HandOver
<1>3. ModelTypeOK'
  BY <1>1, <1>2 DEF ModelTypeOK
<1>4. AllIssued'
  BY <1>1, <1>2 DEF AllIssued, IterationsOf, ModelTypeOK
<1>5. \A c \in Callers : \A j \in IterationsOf(c) : caller[c] = "back" => j # i
  BY <1>2 DEF AllIssued
<1>6. ParallelForWaits'
  BY <1>1, <1>2, <1>5 DEF ParallelForWaits, IterationsOf, ModelTypeOK
<1>7. Outstanding' = Outstanding
  BY <1>1, <1>2 DEF Outstanding, ModelTypeOK
<1>8. QED
  BY <1>2, <1>3, <1>4, <1>6, <1>7

LEMMA ModelInvRun ==
  ASSUME ModelInv, NEW i \in Iterations, RunIteration(i)
  PROVE  ModelInv'
<1> USE DEF ModelInv, RunIteration
<1>1. ModelTypeOK' /\ AllIssued'
  BY DEF ModelTypeOK, AllIssued, IterationsOf
<1>2. ParallelForWaits'
  BY DEF ParallelForWaits, IterationsOf, ModelTypeOK
<1>3. Outstanding' = Outstanding
  BY DEF Outstanding, ModelTypeOK
<1>4. QED
  BY <1>1, <1>2, <1>3

\* The count reaches 0 only together with a notification.
LEMMA ModelInvCountDown ==
  ASSUME ModelInv, NEW i \in Iterations, CountDown(i)
  PROVE  ModelInv'
<1> USE DEF ModelInv
<1>1. PICK to \in {"notifying", "done"} : /\ iteration' = [iteration EXCEPT ![i] = to]
                                          /\ pending' = 0 => to = "notifying"
  BY DEF CountDown
<1>2. iteration[i] = "ran" /\ pending' = pending - 1 /\ caller' = caller
  BY DEF CountDown
<1>3. i \in Outstanding /\ Outstanding' = Outstanding \ {i}
  BY <1>1, <1>2 DEF Outstanding, ModelTypeOK
<1>4. Cardinality(Outstanding') = Cardinality(Outstanding) - 1
  BY <1>3, OutstandingShrinks
<1>5. pending # 0
  BY <1>3, OutstandingFinite, FS_EmptySet
<1>6. ModelTypeOK' /\ AllIssued'
  BY <1>1, <1>2, <1>5 DEF ModelTypeOK, AllIssued, IterationsOf
<1>7. ASSUME NEW c \in Callers, caller'[c] = "back", NEW j \in IterationsOf(c)
      PROVE  iteration'[j] \in {"ran", "notifying", "done"}
  BY <1>1, <1>2, <1>7 DEF ParallelForWaits, IterationsOf, ModelTypeOK
<1>8. pending' > 0 \/ iteration'[i] = "notifying"
  BY <1>1, <1>2, <1>5 DEF ModelTypeOK
<1>9. ParallelForWaits'
  BY <1>7, <1>8 DEF ParallelForWaits, IterationsOf
<1>10. QED
  BY <1>2, <1>4, <1>6, <1>9

LEMMA ModelInvNotify ==
  ASSUME ModelInv, NEW i \in Iterations, NotifyIdle(i)
  PROVE  ModelInv'
<1> USE DEF ModelInv
<1>1. /\ iteration[i] = "notifying" /\ pending' = pending
      /\ iteration' = [iteration EXCEPT ![i] = "done"]
      /\ caller' = [c \in Callers |-> IF caller[c] = "asleep" THEN "waiting" ELSE caller[c]]
  BY DEF NotifyIdle
<1>2. ModelTypeOK' /\ AllIssued'
  BY <1>1 DEF ModelTypeOK, AllIssued, IterationsOf
<1>3. \A c \in Callers : caller'[c] # "asleep" /\ (caller'[c] = "back" => caller[c] = "back")
  BY <1>1 DEF ModelTypeOK
<1>4. ParallelForWaits'
  BY <1>1, <1>3 DEF ParallelForWaits, IterationsOf, ModelTypeOK
<1>5. Outstanding' = Outstanding
  BY <1>1 DEF Outstanding, ModelTypeOK
<1>6. QED
  BY <1>1, <1>2, <1>4, <1>5

\* A caller returns when nothing is outstanding, its own iterations included.
LEMMA ModelInvTest ==
  ASSUME ModelInv, NEW c \in Callers, TestIdle(c)
  PROVE  ModelInv'
<1> USE DEF ModelInv
<1>1. /\ caller[c] = "waiting" /\ UNCHANGED <<pending, iteration>>
      /\ caller' = [caller EXCEPT ![c] = IF pending = 0 THEN "back" ELSE "asleep"]
  BY DEF TestIdle
<1>2. ModelTypeOK' /\ AllIssued'
  BY <1>1 DEF ModelTypeOK, AllIssued, IterationsOf
<1>3. ASSUME pending = 0, NEW i \in IterationsOf(c)
      PROVE  iteration[i] \in {"ran", "notifying", "done"}
  <2>1. Outstanding = {}
    BY <1>3, OutstandingFinite, FS_EmptySet
  <2>2. QED
    BY <1>1, <2>1 DEF Outstanding, AllIssued, IterationsOf, ModelTypeOK
<1>4. pending # 0 => pending > 0
  BY DEF ModelTypeOK
<1>5. ParallelForWaits'
  BY <1>1, <1>3, <1>4 DEF ParallelForWaits, IterationsOf, ModelTypeOK
<1>6. QED
  BY <1>1, <1>2, <1>5, ModelInvCaller

LEMMA ModelInvStep == ModelInv /\ [ModelNext]_modelVars => ModelInv'
<1> SUFFICES ASSUME ModelInv, [ModelNext]_modelVars PROVE ModelInv'
  OBVIOUS
<1> USE DEF ModelInv
<1>1. ASSUME NEW c \in Callers, ParallelFor(c) PROVE ModelInv'
  <2>1. ModelTypeOK' /\ AllIssued' /\ ParallelForWaits'
    BY <1>1 DEF ParallelFor, ModelTypeOK, AllIssued, ParallelForWaits, IterationsOf
  <2>2. QED
    BY <1>1, <2>1, ModelInvCaller DEF ParallelFor
<1>2. ASSUME NEW c \in Callers, WaitForIdle(c) PROVE ModelInv'
  <2>1. ModelTypeOK' /\ AllIssued' /\ ParallelForWaits'
    BY <1>2 DEF WaitForIdle, ModelTypeOK, AllIssued, ParallelForWaits, IterationsOf
  <2>2. QED
    BY <1>2, <2>1, ModelInvCaller DEF WaitForIdle
<1>3. ASSUME NEW c \in Callers, WakesSpuriously(c) PROVE ModelInv'
  <2>1. ModelTypeOK' /\ AllIssued' /\ ParallelForWaits'
    BY <1>3 DEF WakesSpuriously, ModelTypeOK, AllIssued, ParallelForWaits, IterationsOf
  <2>2. QED
    BY <1>3, <2>1, ModelInvCaller DEF WakesSpuriously
<1>4. ASSUME NEW c \in Callers, TestIdle(c) PROVE ModelInv'
  BY <1>4, ModelInvTest
<1>5. ASSUME NEW i \in Iterations, CountIteration(i) PROVE ModelInv'
  BY <1>5, ModelInvCount
<1>6. ASSUME NEW i \in Iterations, HandOver(i) PROVE ModelInv'
  BY <1>6, ModelInvHandOver
<1>7. ASSUME NEW i \in Iterations, RunIteration(i) PROVE ModelInv'
  BY <1>7, ModelInvRun
<1>8. ASSUME NEW i \in Iterations, CountDown(i) PROVE ModelInv'
  BY <1>8, ModelInvCountDown
<1>9. ASSUME NEW i \in Iterations, NotifyIdle(i) PROVE ModelInv'
  BY <1>9, ModelInvNotify
<1>10. ASSUME UNCHANGED <<pending, caller, iteration>> PROVE ModelInv'
  BY <1>10 DEF ModelTypeOK, AllIssued, ParallelForWaits, Outstanding, IterationsOf
<1>11. QED
  BY <1>1, <1>2, <1>3, <1>4, <1>5, <1>6, <1>7, <1>8, <1>9, <1>10
  DEF ModelNext, WorkersStep, modelVars

\* ParallelFor returns only when each of its iterations has run, and a caller
\* that sleeps has an iteration outstanding or a notification on its way.
THEOREM ParallelForSound == ModelSpec => []ParallelForWaits
<1>1. ModelInv => ParallelForWaits
  BY DEF ModelInv
<1>2. QED
  BY <1>1, ModelInvInit, ModelInvStep, PTL DEF ModelSpec

LEMMA LostIterationStays ==
  ASSUME ModelInv, NEW i \in Iterations, iteration[i] = "lost", [ModelNext]_modelVars
  PROVE  iteration'[i] = "lost"
<1>1. DOMAIN iteration = Iterations
  BY DEF ModelInv, ModelTypeOK
<1>2. ASSUME NEW j \in Iterations, iteration[j] # "lost", NEW x,
             iteration' = [iteration EXCEPT ![j] = x]
      PROVE  iteration'[i] = "lost"
  BY <1>1, <1>2
<1>3. CASE \E j \in Iterations : \/ CountIteration(j) \/ HandOver(j) \/ RunIteration(j)
                                 \/ CountDown(j) \/ NotifyIdle(j)
  BY <1>2, <1>3 DEF CountIteration, HandOver, RunIteration, CountDown, NotifyIdle
<1>4. CASE \E c \in Callers : ParallelFor(c) \/ WaitForIdle(c) \/ TestIdle(c) \/ WakesSpuriously(c)
  BY <1>4 DEF ParallelFor, WaitForIdle, TestIdle, WakesSpuriously
<1>5. CASE WorkersStep \/ UNCHANGED modelVars
  BY <1>5 DEF WorkersStep, modelVars
<1>6. QED
  BY <1>3, <1>4, <1>5 DEF ModelNext

\* An iteration that the pool drops as it closes is never run and never counted down:
\* its ParallelFor does not return, even if the pool is started again
\* (mb_thread_pool.cc:44).
THEOREM LostIterationKeepsCaller ==
  ASSUME NEW i \in Iterations
  PROVE  ModelSpec => [](iteration[i] = "lost" => [](pending > 0 /\ caller[CallOf[i]] # "back"))
<1>1. ModelInv /\ iteration[i] = "lost" => pending > 0 /\ caller[CallOf[i]] # "back"
  <2> SUFFICES ASSUME ModelInv, iteration[i] = "lost"
               PROVE  pending > 0 /\ caller[CallOf[i]] # "back"
    OBVIOUS
  <2>1. caller[CallOf[i]] # "back"
    BY CallAssumption DEF ModelInv, ParallelForWaits, IterationsOf
  <2>2. i \in Outstanding
    BY DEF Outstanding
  <2>3. Cardinality(Outstanding) # 0 /\ Cardinality(Outstanding) \in Nat
    BY <2>2, OutstandingFinite, FS_EmptySet
  <2>4. QED
    BY <2>1, <2>3 DEF ModelInv
<1>2. ModelInv /\ iteration[i] = "lost" /\ [ModelNext]_modelVars => (iteration[i] = "lost")'
  BY LostIterationStays
<1>3. QED
  BY <1>1, <1>2, ModelInvInit, ModelInvStep, PTL DEF ModelSpec

-----------------------------------------------------------------------------
(* The barriers                                                            *)

BarrierTypes ==
  /\ barrier \in [waiting : 0 .. Count - 1, generation : Nat]
  /\ phases \in [waiting : 0 .. Count - 1, phase : Nat]
  /\ party \in [Parties -> [at : {"away", "behind"} \cup Kinds, seen : Nat, in : Nat]]
  /\ round \in [Kinds -> 0 .. MaxRound]
  /\ crowd \in [Kinds -> [0 .. MaxRound -> Nat]]

Gathered(k) == IF k = "barrier" THEN barrier.waiting ELSE phases.waiting

\* Count threads came to each round before the current one, to which those came
\* that the barrier counts.
CrowdCounted ==
  \A k \in Kinds : /\ \A r \in 0 .. MaxRound : r < round[k] => crowd[k][r] = Count
                   /\ crowd[k][round[k]] = Gathered(k)
                   /\ \A r \in 0 .. MaxRound : r > round[k] => crowd[k][r] = 0

\* A thread of the current round saw the current generation, or phase, which no
\* reset can change while the thread is counted; one of an earlier round saw an
\* earlier generation.
SeenCurrent ==
  \A t \in Parties :
    /\ party[t].at = "barrier" =>
         /\ party[t].in <= round["barrier"]
         /\ party[t].in = round["barrier"] =>
              barrier.waiting > 0 /\ party[t].seen = barrier.generation
         /\ party[t].in < round["barrier"] => party[t].seen < barrier.generation
    /\ party[t].at = "phases" =>
         /\ party[t].in <= round["phases"]
         /\ party[t].in = round["phases"] =>
              phases.waiting > 0 /\ party[t].seen = phases.phase

BarrierInv == BarrierTypes /\ CrowdCounted /\ SeenCurrent

LEMMA BarrierInvInit == BarriersInit => BarrierInv
<1> SUFFICES ASSUME BarriersInit PROVE BarrierInv
  OBVIOUS
<1> USE DEF BarriersInit
<1>1. 0 \in 0 .. Count - 1 /\ 0 \in 0 .. MaxRound /\ \A r \in 0 .. MaxRound : ~(r < 0)
  BY BarrierAssumption
<1>2. BarrierTypes
  BY <1>1 DEF BarrierTypes, Away
<1>3. CrowdCounted
  BY <1>1 DEF CrowdCounted, Gathered, Kinds
<1>4. SeenCurrent
  BY DEF SeenCurrent, Away
<1>5. QED
  BY <1>2, <1>3, <1>4 DEF BarrierInv

\* A thread comes to a round that it does not complete: it is counted.
LEMMA CrowdGrows ==
  ASSUME BarrierInv, NEW k \in Kinds, round[k] < MaxRound, Comes(k, FALSE),
         Gathered(k)' = Gathered(k) + 1,
         \A j \in Kinds \ {k} : Gathered(j)' = Gathered(j)
  PROVE  /\ CrowdCounted' /\ round' = round
         /\ crowd' \in [Kinds -> [0 .. MaxRound -> Nat]]
<1> USE DEF BarrierInv
<1>1. round[k] \in 0 .. MaxRound /\ crowd[k] \in [0 .. MaxRound -> Nat]
      /\ crowd[k][round[k]] \in Nat
  BY DEF BarrierTypes
<1>2. crowd' = [crowd EXCEPT ![k] = [crowd[k] EXCEPT ![round[k]] = crowd[k][round[k]] + 1]]
      /\ round' = round
  BY DEF Comes
<1>3. /\ crowd'[k] = [crowd[k] EXCEPT ![round[k]] = crowd[k][round[k]] + 1]
      /\ \A j \in Kinds \ {k} : crowd'[j] = crowd[j]
      /\ crowd' \in [Kinds -> [0 .. MaxRound -> Nat]]
  BY <1>1, <1>2 DEF BarrierTypes
<1>4. /\ crowd'[k][round[k]] = crowd[k][round[k]] + 1
      /\ \A r \in 0 .. MaxRound : r # round[k] => crowd'[k][r] = crowd[k][r]
  BY <1>1, <1>3
<1>5. ASSUME NEW j \in Kinds
      PROVE  /\ \A r \in 0 .. MaxRound : r < round'[j] => crowd'[j][r] = Count
             /\ crowd'[j][round'[j]] = Gathered(j)'
             /\ \A r \in 0 .. MaxRound : r > round'[j] => crowd'[j][r] = 0
  <2>1. CASE j = k
    BY <1>1, <1>2, <1>4, <2>1 DEF CrowdCounted
  <2>2. CASE j # k
    <3>1. crowd'[j] = crowd[j] /\ round'[j] = round[j] /\ Gathered(j)' = Gathered(j)
      BY <1>2, <1>3, <2>2
    <3>2. /\ \A r \in 0 .. MaxRound : r < round[j] => crowd[j][r] = Count
          /\ crowd[j][round[j]] = Gathered(j)
          /\ \A r \in 0 .. MaxRound : r > round[j] => crowd[j][r] = 0
      BY DEF CrowdCounted
    <3>3. QED
      BY <3>1, <3>2
  <2>3. QED
    BY <2>1, <2>2
<1>6. QED
  BY <1>2, <1>3, <1>5 DEF CrowdCounted

\* A thread completes a round: Count threads came to it.
LEMMA CrowdComplete ==
  ASSUME BarrierInv, NEW k \in Kinds, round[k] < MaxRound, Comes(k, TRUE),
         Gathered(k) + 1 = Count, Gathered(k)' = 0,
         \A j \in Kinds \ {k} : Gathered(j)' = Gathered(j)
  PROVE  /\ CrowdCounted' /\ round' = [round EXCEPT ![k] = round[k] + 1]
         /\ round' \in [Kinds -> 0 .. MaxRound]
         /\ crowd' \in [Kinds -> [0 .. MaxRound -> Nat]]
<1> USE DEF BarrierInv
<1>1. round[k] \in 0 .. MaxRound /\ crowd[k] \in [0 .. MaxRound -> Nat]
      /\ crowd[k][round[k]] \in Nat /\ round[k] + 1 \in 0 .. MaxRound
  BY BarrierAssumption DEF BarrierTypes
<1>2. crowd' = [crowd EXCEPT ![k] = [crowd[k] EXCEPT ![round[k]] = crowd[k][round[k]] + 1]]
      /\ round' = [round EXCEPT ![k] = round[k] + 1]
  BY DEF Comes
<1>3. /\ crowd'[k] = [crowd[k] EXCEPT ![round[k]] = crowd[k][round[k]] + 1]
      /\ \A j \in Kinds \ {k} : crowd'[j] = crowd[j] /\ round'[j] = round[j]
      /\ crowd' \in [Kinds -> [0 .. MaxRound -> Nat]]
      /\ round'[k] = round[k] + 1
      /\ round' \in [Kinds -> 0 .. MaxRound]
  BY <1>1, <1>2 DEF BarrierTypes
<1>4. /\ crowd'[k][round[k]] = crowd[k][round[k]] + 1
      /\ \A r \in 0 .. MaxRound : r # round[k] => crowd'[k][r] = crowd[k][r]
  BY <1>1, <1>3
<1>5. ASSUME NEW j \in Kinds
      PROVE  /\ \A r \in 0 .. MaxRound : r < round'[j] => crowd'[j][r] = Count
             /\ crowd'[j][round'[j]] = Gathered(j)'
             /\ \A r \in 0 .. MaxRound : r > round'[j] => crowd'[j][r] = 0
  <2>1. CASE j = k
    <3>1. crowd'[k][round[k]] = Count
      BY <1>4 DEF CrowdCounted
    <3>2. \A r \in 0 .. MaxRound : r < round[k] + 1 => r = round[k] \/ r < round[k]
      BY <1>1
    <3>3. \A r \in 0 .. MaxRound : r >= round[k] + 1 => r # round[k] /\ r > round[k]
      BY <1>1
    <3>4. \A r \in 0 .. MaxRound : r < round'[k] => crowd'[k][r] = Count
      <4>1. \A r \in 0 .. MaxRound : r < round[k] => r # round[k] /\ crowd[k][r] = Count
        BY <1>1 DEF CrowdCounted
      <4>2. SUFFICES ASSUME NEW r \in 0 .. MaxRound, r < round[k] + 1
                     PROVE  crowd'[k][r] = Count
        BY <1>3
      <4>3. CASE r = round[k]
        BY <4>3, <3>1
      <4>4. CASE r < round[k]
        BY <4>4, <4>1, <1>4
      <4>5. QED
        BY <4>2, <4>3, <4>4, <3>2
    <3>5. \A r \in 0 .. MaxRound : r >= round'[k] => crowd'[k][r] = 0
      <4>1. \A r \in 0 .. MaxRound : r > round[k] => crowd[k][r] = 0
        BY DEF CrowdCounted
      <4>2. QED
        BY <1>3, <1>4, <3>3, <4>1
    <3>6. round'[k] \in 0 .. MaxRound /\ round'[k] >= round'[k] /\ round'[k] \in Nat
      BY <1>1, <1>3
    <3>7. crowd'[k][round'[k]] = Gathered(k)'
      BY <3>5, <3>6
    <3>8. \A r \in 0 .. MaxRound : r > round'[k] => r >= round'[k]
      BY <3>6
    <3>9. QED
      BY <2>1, <3>4, <3>5, <3>7, <3>8
  <2>2. CASE j # k
    <3>1. crowd'[j] = crowd[j] /\ round'[j] = round[j] /\ Gathered(j)' = Gathered(j)
      BY <1>3, <2>2
    <3>2. /\ \A r \in 0 .. MaxRound : r < round[j] => crowd[j][r] = Count
          /\ crowd[j][round[j]] = Gathered(j)
          /\ \A r \in 0 .. MaxRound : r > round[j] => crowd[j][r] = 0
      BY DEF CrowdCounted
    <3>3. QED
      BY <3>1, <3>2
  <2>3. QED
    BY <2>1, <2>2
<1>6. QED
  BY <1>2, <1>3, <1>5 DEF CrowdCounted

LEMMA PartyFacts ==
  ASSUME BarrierInv, NEW t \in Parties
  PROVE  /\ party[t] \in [at : {"away", "behind"} \cup Kinds, seen : Nat, in : Nat]
         /\ party[t].seen \in Nat /\ party[t].in \in Nat
  BY DEF BarrierInv, BarrierTypes

LEMMA BarrierFacts ==
  ASSUME BarrierInv
  PROVE  /\ barrier.waiting \in Nat /\ barrier.waiting < Count /\ barrier.generation \in Nat
         /\ phases.waiting \in Nat /\ phases.waiting < Count /\ phases.phase \in Nat
         /\ barrier = [waiting |-> barrier.waiting, generation |-> barrier.generation]
         /\ phases = [waiting |-> phases.waiting, phase |-> phases.phase]
         /\ "barrier" \in Kinds /\ "phases" \in Kinds
         /\ \A k \in Kinds : round[k] \in Nat
         /\ Count \in Nat /\ Count > 0
  BY BarrierAssumption DEF BarrierInv, BarrierTypes, Kinds

LEMMA BarrierInvWait ==
  ASSUME BarrierInv, NEW t \in Parties, Wait(t)
  PROVE  BarrierInv'
<1> DEFINE n == barrier.waiting + 1
<1>1. /\ barrier.waiting \in Nat /\ barrier.waiting < Count /\ barrier.generation \in Nat
      /\ Count \in Nat /\ Count > 0 /\ "barrier" \in Kinds /\ round["barrier"] \in Nat
  BY BarrierFacts
<1>2. phases' = phases /\ round["barrier"] < MaxRound
  BY DEF Wait
<1>3. CASE n >= Count
  <2>1. n = Count
    BY <1>1, <1>3
  <2>2. /\ Comes("barrier", TRUE)
        /\ barrier' = [waiting |-> 0, generation |-> barrier.generation + 1]
        /\ party' = party
    BY <1>3 DEF Wait
  <2>3. barrier'.waiting = 0 /\ barrier'.generation = barrier.generation + 1
    BY <2>2
  <2>4. /\ Gathered("barrier") + 1 = Count /\ Gathered("barrier")' = 0
        /\ \A j \in Kinds \ {"barrier"} : Gathered(j)' = Gathered(j)
    BY <1>2, <2>1, <2>3 DEF Gathered
  <2>5. /\ CrowdCounted' /\ round' = [round EXCEPT !["barrier"] = round["barrier"] + 1]
        /\ round' \in [Kinds -> 0 .. MaxRound]
        /\ crowd' \in [Kinds -> [0 .. MaxRound -> Nat]]
    BY <1>1, <1>2, <2>2, <2>4, CrowdComplete
  <2>6. BarrierTypes'
    <3>1. barrier' \in [waiting : 0 .. Count - 1, generation : Nat]
      BY <1>1, <2>2
    <3>2. QED
      BY <1>2, <2>2, <2>5, <3>1 DEF BarrierInv, BarrierTypes
  <2>7. /\ round'["barrier"] = round["barrier"] + 1
        /\ round'["phases"] = round["phases"]
    BY <1>1, <2>5 DEF BarrierInv, BarrierTypes, Kinds
  <2>8. ASSUME NEW s \in Parties, party[s].at = "barrier"
        PROVE  party[s].in <= round["barrier"] /\ party[s].seen <= barrier.generation
    BY <1>1, <2>8, PartyFacts DEF BarrierInv, SeenCurrent
  <2>9. SeenCurrent'
    <3>1. ASSUME NEW s \in Parties, party[s].at = "barrier"
          PROVE  /\ party[s].in <= round'["barrier"]
                 /\ party[s].in # round'["barrier"]
                 /\ party[s].seen < barrier'.generation
      BY <1>1, <2>3, <2>7, <2>8, <3>1, PartyFacts
    <3>2. QED
      BY <1>2, <2>2, <2>7, <3>1 DEF BarrierInv, SeenCurrent
  <2>10. QED
    BY <2>5, <2>6, <2>9 DEF BarrierInv
<1>4. CASE ~(n >= Count)
  <2>1. n < Count /\ n \in Nat
    BY <1>1, <1>4
  <2>2. /\ Comes("barrier", FALSE)
        /\ barrier' = [barrier EXCEPT !.waiting = n]
        /\ Stays(t, "barrier", barrier.generation)
    BY <1>4 DEF Wait, Comes
  <2>3. /\ barrier' = [waiting |-> n, generation |-> barrier.generation]
        /\ barrier'.waiting = n /\ barrier'.generation = barrier.generation
    BY <2>2, BarrierFacts
  <2>4. /\ Gathered("barrier")' = Gathered("barrier") + 1
        /\ \A j \in Kinds \ {"barrier"} : Gathered(j)' = Gathered(j)
    BY <1>2, <2>3 DEF Gathered
  <2>5. CrowdCounted' /\ round' = round /\ crowd' \in [Kinds -> [0 .. MaxRound -> Nat]]
    BY <1>1, <1>2, <2>2, <2>4, CrowdGrows
  <2>6. party' = [party EXCEPT ![t] = [at |-> "barrier", seen |-> barrier.generation,
                                       in |-> round["barrier"]]]
    BY <2>2 DEF Stays
  <2>7. /\ party'[t] = [at |-> "barrier", seen |-> barrier.generation, in |-> round["barrier"]]
        /\ \A s \in Parties \ {t} : party'[s] = party[s]
    BY <2>6 DEF BarrierInv, BarrierTypes
  <2>8. BarrierTypes'
    <3>1. barrier' \in [waiting : 0 .. Count - 1, generation : Nat]
      BY <1>1, <2>1, <2>3
    <3>2. party' \in [Parties -> [at : {"away", "behind"} \cup Kinds, seen : Nat, in : Nat]]
      BY <1>1, <2>6 DEF BarrierInv, BarrierTypes
    <3>3. QED
      BY <1>2, <2>5, <3>1, <3>2 DEF BarrierInv, BarrierTypes
  <2>9. SeenCurrent'
    <3>1. ASSUME NEW s \in Parties
          PROVE  /\ party'[s].at = "barrier" =>
                      /\ party'[s].in <= round["barrier"]
                      /\ party'[s].in = round["barrier"] =>
                           n > 0 /\ party'[s].seen = barrier.generation
                      /\ party'[s].in < round["barrier"] => party'[s].seen < barrier.generation
                 /\ party'[s].at = "phases" =>
                      /\ party'[s].in <= round["phases"]
                      /\ party'[s].in = round["phases"] =>
                           phases.waiting > 0 /\ party'[s].seen = phases.phase
      <4>1. CASE s = t
        BY <1>1, <2>1, <2>7, <4>1
      <4>2. CASE s # t
        BY <1>1, <2>1, <2>7, <4>2 DEF BarrierInv, SeenCurrent
      <4>3. QED
        BY <4>1, <4>2
    <3>2. QED
      BY <1>2, <2>3, <2>5, <3>1 DEF SeenCurrent
  <2>10. QED
    BY <2>5, <2>8, <2>9 DEF BarrierInv
<1>5. QED
  BY <1>3, <1>4

LEMMA BarrierInvArrive ==
  ASSUME BarrierInv, NEW t \in Parties, Arrive(t)
  PROVE  BarrierInv'
<1> DEFINE n == phases.waiting + 1
<1>1. /\ phases.waiting \in Nat /\ phases.waiting < Count /\ phases.phase \in Nat
      /\ Count \in Nat /\ Count > 0 /\ "phases" \in Kinds /\ round["phases"] \in Nat
  BY BarrierFacts
<1>2. barrier' = barrier /\ round["phases"] < MaxRound
  BY DEF Arrive
<1>3. CASE n = Count
  <2>1. /\ Comes("phases", TRUE)
        /\ phases' = [waiting |-> 0, phase |-> phases.phase + 1]
        /\ party' = party
    BY <1>3 DEF Arrive
  <2>2. phases'.waiting = 0 /\ phases'.phase = phases.phase + 1
    BY <2>1
  <2>3. /\ Gathered("phases") + 1 = Count /\ Gathered("phases")' = 0
        /\ \A j \in Kinds \ {"phases"} : Gathered(j)' = Gathered(j)
    BY <1>2, <1>3, <2>2 DEF Gathered, Kinds
  <2>4. /\ CrowdCounted' /\ round' = [round EXCEPT !["phases"] = round["phases"] + 1]
        /\ round' \in [Kinds -> 0 .. MaxRound]
        /\ crowd' \in [Kinds -> [0 .. MaxRound -> Nat]]
    BY <1>1, <1>2, <2>1, <2>3, CrowdComplete
  <2>5. BarrierTypes'
    <3>1. phases' \in [waiting : 0 .. Count - 1, phase : Nat]
      BY <1>1, <2>1
    <3>2. QED
      BY <1>2, <2>1, <2>4, <3>1 DEF BarrierInv, BarrierTypes
  <2>6. /\ round'["phases"] = round["phases"] + 1
        /\ round'["barrier"] = round["barrier"]
    BY <1>1, <2>4 DEF BarrierInv, BarrierTypes, Kinds
  <2>7. SeenCurrent'
    <3>1. ASSUME NEW s \in Parties, party[s].at = "phases"
          PROVE  /\ party[s].in <= round'["phases"]
                 /\ party[s].in # round'["phases"]
      <4>1. party[s].in <= round["phases"]
        BY <3>1 DEF BarrierInv, SeenCurrent
      <4>2. QED
        BY <1>1, <2>6, <4>1, PartyFacts
    <3>2. QED
      BY <1>2, <2>1, <2>6, <3>1 DEF BarrierInv, SeenCurrent
  <2>8. QED
    BY <2>4, <2>5, <2>7 DEF BarrierInv
<1>4. CASE n # Count
  <2>1. n < Count /\ n \in Nat
    BY <1>1, <1>4
  <2>2. /\ Comes("phases", FALSE)
        /\ phases' = [phases EXCEPT !.waiting = n]
        /\ Stays(t, "phases", phases.phase)
    BY <1>4 DEF Arrive
  <2>3. /\ phases' = [waiting |-> n, phase |-> phases.phase]
        /\ phases'.waiting = n /\ phases'.phase = phases.phase
    BY <2>2, BarrierFacts
  <2>4. /\ Gathered("phases")' = Gathered("phases") + 1
        /\ \A j \in Kinds \ {"phases"} : Gathered(j)' = Gathered(j)
    BY <1>2, <2>3 DEF Gathered, Kinds
  <2>5. CrowdCounted' /\ round' = round /\ crowd' \in [Kinds -> [0 .. MaxRound -> Nat]]
    BY <1>1, <1>2, <2>2, <2>4, CrowdGrows
  <2>6. party' = [party EXCEPT ![t] = [at |-> "phases", seen |-> phases.phase,
                                       in |-> round["phases"]]]
    BY <2>2 DEF Stays
  <2>7. /\ party'[t] = [at |-> "phases", seen |-> phases.phase, in |-> round["phases"]]
        /\ \A s \in Parties \ {t} : party'[s] = party[s]
    BY <2>6 DEF BarrierInv, BarrierTypes
  <2>8. BarrierTypes'
    <3>1. phases' \in [waiting : 0 .. Count - 1, phase : Nat]
      BY <1>1, <2>1, <2>3
    <3>2. party' \in [Parties -> [at : {"away", "behind"} \cup Kinds, seen : Nat, in : Nat]]
      BY <1>1, <2>6 DEF BarrierInv, BarrierTypes
    <3>3. QED
      BY <1>2, <2>5, <3>1, <3>2 DEF BarrierInv, BarrierTypes
  <2>9. SeenCurrent'
    <3>1. ASSUME NEW s \in Parties
          PROVE  /\ party'[s].at = "barrier" =>
                      /\ party'[s].in <= round["barrier"]
                      /\ party'[s].in = round["barrier"] =>
                           barrier.waiting > 0 /\ party'[s].seen = barrier.generation
                      /\ party'[s].in < round["barrier"] => party'[s].seen < barrier.generation
                 /\ party'[s].at = "phases" =>
                      /\ party'[s].in <= round["phases"]
                      /\ party'[s].in = round["phases"] =>
                           n > 0 /\ party'[s].seen = phases.phase
      <4>1. CASE s = t
        BY <1>1, <2>1, <2>7, <4>1
      <4>2. CASE s # t
        BY <1>1, <2>1, <2>7, <4>2 DEF BarrierInv, SeenCurrent
      <4>3. QED
        BY <4>1, <4>2
    <3>2. QED
      BY <1>2, <2>3, <2>5, <3>1 DEF SeenCurrent
  <2>10. QED
    BY <2>5, <2>8, <2>9 DEF BarrierInv
<1>5. QED
  BY <1>3, <1>4

\* A thread leaves a barrier, or waits for a phase without being counted.
LEMMA BarrierInvParty ==
  ASSUME BarrierInv, NEW t \in Parties, NEW p,
         p \in [at : {"away", "behind"}, seen : Nat, in : Nat],
         party' = [party EXCEPT ![t] = p], UNCHANGED <<barrier, phases, round, crowd>>
  PROVE  BarrierInv'
<1>1. BarrierTypes'
  BY DEF BarrierInv, BarrierTypes
<1>2. CrowdCounted'
  BY DEF BarrierInv, CrowdCounted, Gathered
<1>3. \A s \in Parties : party'[s] = IF s = t THEN p ELSE party[s]
  BY DEF BarrierInv, BarrierTypes
<1>4. p.at # "barrier" /\ p.at # "phases"
  OBVIOUS
<1>5. SeenCurrent'
  BY <1>3, <1>4 DEF BarrierInv, SeenCurrent
<1>6. QED
  BY <1>1, <1>2, <1>5 DEF BarrierInv

LEMMA BarrierInvResets ==
  ASSUME BarrierInv, ResetBarrier \/ ResetPhases
  PROVE  BarrierInv'
<1>1. CASE ResetBarrier
  <2>1. /\ barrier.waiting = 0
        /\ barrier' = [barrier EXCEPT !.generation = barrier.generation + 1]
        /\ UNCHANGED <<phases, party, round, crowd>>
    BY <1>1 DEF ResetBarrier
  <2>2. /\ barrier' = [waiting |-> 0, generation |-> barrier.generation + 1]
        /\ barrier'.waiting = 0 /\ barrier'.generation = barrier.generation + 1
    BY <2>1, BarrierFacts
  <2>3. barrier' \in [waiting : 0 .. Count - 1, generation : Nat]
    BY <2>2, BarrierFacts
  <2>4. BarrierTypes'
    BY <2>1, <2>3 DEF BarrierInv, BarrierTypes
  <2>5. CrowdCounted'
    BY <2>1, <2>2 DEF BarrierInv, CrowdCounted, Gathered
  <2>6. ASSUME NEW s \in Parties, party[s].at = "barrier"
        PROVE  /\ party[s].in # round["barrier"] /\ party[s].in <= round["barrier"]
               /\ party[s].seen < barrier'.generation
    BY <2>1, <2>2, <2>6, BarrierFacts, PartyFacts DEF BarrierInv, SeenCurrent
  <2>7. SeenCurrent'
    BY <2>1, <2>6 DEF BarrierInv, SeenCurrent
  <2>8. QED
    BY <2>4, <2>5, <2>7 DEF BarrierInv
<1>2. CASE ResetPhases
  <2>1. /\ phases.waiting = 0
        /\ phases' = [phases EXCEPT !.phase = 0]
        /\ UNCHANGED <<barrier, party, round, crowd>>
    BY <1>2 DEF ResetPhases
  <2>2. phases' = [waiting |-> 0, phase |-> 0] /\ phases'.waiting = 0
    BY <2>1, BarrierFacts
  <2>3. phases' \in [waiting : 0 .. Count - 1, phase : Nat]
    BY <2>2, BarrierFacts
  <2>4. BarrierTypes'
    BY <2>1, <2>3 DEF BarrierInv, BarrierTypes
  <2>5. CrowdCounted'
    BY <2>1, <2>2 DEF BarrierInv, CrowdCounted, Gathered
  <2>6. ASSUME NEW s \in Parties, party[s].at = "phases"
        PROVE  party[s].in # round["phases"] /\ party[s].in <= round["phases"]
    BY <2>1, <2>6, BarrierFacts DEF BarrierInv, SeenCurrent
  <2>7. SeenCurrent'
    BY <2>1, <2>6 DEF BarrierInv, SeenCurrent
  <2>8. QED
    BY <2>4, <2>5, <2>7 DEF BarrierInv
<1>3. QED
  BY <1>1, <1>2

LEMMA BarrierInvStep == BarrierInv /\ [BarriersNext]_barrierVars => BarrierInv'
<1> SUFFICES ASSUME BarrierInv, [BarriersNext]_barrierVars PROVE BarrierInv'
  OBVIOUS
<1>1. CASE UNCHANGED barrierVars
  BY <1>1 DEF barrierVars, BarrierInv, BarrierTypes, CrowdCounted, Gathered, SeenCurrent
<1>2. ASSUME NEW t \in Parties, WaitReturns(t) \/ ArriveReturns(t) \/ WaitPhaseReturns(t)
      PROVE  BarrierInv'
  <2>1. Away \in [at : {"away", "behind"}, seen : Nat, in : Nat]
    BY DEF Away
  <2>2. /\ party' = [party EXCEPT ![t] = Away]
        /\ UNCHANGED <<barrier, phases, round, crowd>>
    BY <1>2 DEF WaitReturns, ArriveReturns, WaitPhaseReturns
  <2>3. QED
    BY <2>1, <2>2, BarrierInvParty
<1>3. ASSUME NEW t \in Parties, NEW n \in 1 .. MaxRound, WaitPhase(t, n) PROVE BarrierInv'
  <2> DEFINE p == [at |-> "behind", seen |-> n, in |-> 0]
  <2>1. p \in [at : {"away", "behind"}, seen : Nat, in : Nat]
    BY BarrierAssumption
  <2>2. party' = [party EXCEPT ![t] = p] /\ UNCHANGED <<barrier, phases, round, crowd>>
    BY <1>3 DEF WaitPhase
  <2> HIDE DEF p
  <2>3. QED
    BY <2>1, <2>2, BarrierInvParty
<1>4. ASSUME NEW t \in Parties, Wait(t) \/ Arrive(t) PROVE BarrierInv'
  BY <1>4, BarrierInvWait, BarrierInvArrive
<1>5. CASE ResetBarrier \/ ResetPhases
  BY <1>5, BarrierInvResets
<1>6. QED
  BY <1>1, <1>2, <1>3, <1>4, <1>5 DEF BarriersNext

\* For any number of threads and any Count, a barrier lets a thread go only when
\* Count threads came to its round, and a Barrier lets all of those go, through
\* any resets (Barrier::Wait, SyncBarrier::Arrive and their Resets).
THEOREM BarriersRelease == BarriersSpec => []BarriersTogether
<1>1. BarrierInv => BarriersTogether
  <2> SUFFICES ASSUME BarrierInv, NEW t \in Parties
               PROVE  /\ party[t].at = "barrier" =>
                           (barrier.generation # party[t].seen <=>
                              crowd["barrier"][party[t].in] = Count)
                      /\ party[t].at = "phases" /\ phases.phase # party[t].seen =>
                           crowd["phases"][party[t].in] = Count
    BY DEF BarriersTogether
  <2>1. /\ \A k \in Kinds : round[k] \in 0 .. MaxRound
        /\ party[t].in \in Nat /\ party[t].seen \in Nat
    BY PartyFacts DEF BarrierInv, BarrierTypes
  <2>2. ASSUME NEW k \in Kinds, party[t].in < round[k] PROVE crowd[k][party[t].in] = Count
    <3>1. party[t].in \in 0 .. MaxRound
      BY <2>1, <2>2, BarrierAssumption
    <3>2. QED
      BY <2>2, <3>1 DEF BarrierInv, CrowdCounted
  <2>3. crowd["barrier"][round["barrier"]] # Count
    BY BarrierFacts DEF BarrierInv, CrowdCounted, Gathered
  <2>4. CASE party[t].at = "barrier"
    <3>1. CASE party[t].in < round["barrier"]
      <4>1. crowd["barrier"][party[t].in] = Count
        BY <2>2, <3>1, BarrierFacts
      <4>2. party[t].seen < barrier.generation
        BY <2>4, <3>1 DEF BarrierInv, SeenCurrent
      <4>3. QED
        BY <2>1, <2>4, <4>1, <4>2, BarrierFacts
    <3>2. CASE party[t].in = round["barrier"]
      BY <2>3, <2>4, <3>2 DEF BarrierInv, SeenCurrent
    <3>3. party[t].in <= round["barrier"]
      BY <2>4 DEF BarrierInv, SeenCurrent
    <3>4. QED
      BY <2>1, <3>1, <3>2, <3>3, BarrierFacts
  <2>5. ASSUME party[t].at = "phases", phases.phase # party[t].seen
        PROVE  crowd["phases"][party[t].in] = Count
    <3>1. party[t].in <= round["phases"] /\ party[t].in # round["phases"]
      BY <2>5 DEF BarrierInv, SeenCurrent
    <3>2. QED
      BY <2>1, <2>2, <3>1, BarrierFacts
  <2>6. QED
    BY <2>4, <2>5
<1>2. QED
  BY <1>1, BarrierInvInit, BarrierInvStep, PTL DEF BarriersSpec

-----------------------------------------------------------------------------
(* AsyncBufferPool                                                         *)

Distinct(s) == \A i, j \in DOMAIN s : s[i] = s[j] => i = j

BlockTypes ==
  /\ blocks \in Seq(Blocks) /\ available \in Seq(Blocks)
  /\ in_use \in [Blocks -> BOOLEAN]
  /\ next \in 1 .. MaxAllocations + 1
  /\ block_of \in [Holders -> SUBSET Blocks]

\* The pool's blocks are distinct and were allocated, as was every block in
\* use; the available ones are among them, distinct too, and not in use.
BlocksListed ==
  /\ Distinct(blocks) /\ Distinct(available)
  /\ \A i \in DOMAIN blocks : blocks[i] < next
  /\ \A b \in Blocks : in_use[b] => b < next
  /\ \A i \in DOMAIN available : ~in_use[available[i]]
                              /\ available[i] \in ToSet(blocks)

\* A block that a client holds was allocated; unless a Reset took it, it is
\* marked as in use and nobody else holds it.
BlocksHeld ==
  \A h \in Holders : \A b \in block_of[h] :
    /\ b < next
    /\ b \in given_back \/ (in_use[b] /\ \A g \in Holders : b \in block_of[g] => g = h)

BlocksInv == BlockTypes /\ BlocksListed /\ BlocksHeld

LEMMA BlockEntries ==
  ASSUME NEW s \in Seq(Blocks)
  PROVE  \A i \in DOMAIN s : s[i] \in Blocks /\ s[i] \in Nat
<1>1. \A i \in DOMAIN s : s[i] \in Blocks
  OBVIOUS
<1>2. \A b \in Blocks : b \in Nat
  BY BlockAssumption DEF Blocks
<1>3. QED
  BY <1>1, <1>2

LEMMA BlocksInvExclusive == BlocksInv => BlocksExclusive
  BY DEF BlocksInv, BlocksExclusive, BlockTypes, BlocksListed, BlocksHeld, Distinct, ToSet

LEMMA BlocksInvInit == BlocksInit => BlocksInv
<1> SUFFICES ASSUME BlocksInit PROVE BlocksInv
  OBVIOUS
<1>1. BlockTypes
  BY BlockAssumption DEF BlocksInit, BlockTypes, Blocks
<1>2. BlocksListed
  BY BlockAssumption DEF BlocksInit, BlocksListed, Distinct, ToSet, Blocks
<1>3. BlocksHeld
  BY DEF BlocksInit, BlocksHeld
<1>4. QED
  BY <1>1, <1>2, <1>3 DEF BlocksInv

\* What the loop of Resize leaves: blocks of s that are not in use, each once.
LEMMA UnusedFacts ==
  ASSUME NEW s \in Seq(Blocks), Distinct(s), in_use \in [Blocks -> BOOLEAN]
  PROVE  /\ Unused(s) \in Seq(Blocks) /\ Distinct(Unused(s))
         /\ \A i \in DOMAIN Unused(s) : ~in_use[Unused(s)[i]] /\ Unused(s)[i] \in ToSet(s)
<1> DEFINE L == Len(s)
           S == Seq(Blocks)
           g == [i \in 1 .. L |-> [x \in S |-> IF in_use[s[i]] THEN x ELSE Append(x, s[i])]]
           F(f) == f = [i \in 0 .. L |-> IF i = 0 THEN <<>>
                           ELSE IF in_use[s[i]] THEN f[i - 1] ELSE Append(f[i - 1], s[i])]
           u == CHOOSE f : F(f)
<1>1. L \in Nat /\ \A i \in 1 .. L : s[i] \in Blocks
  OBVIOUS
<1>2. IsStep(g, L, S) /\ <<>> \in S
  BY <1>1 DEF IsStep
<1>3. \E f : Unfolds(f, <<>>, g, L, S)
  <2> HIDE DEF g, L, S
  <2>1. QED
    BY <1>1, <1>2, FiniteRecursion
<1>4. PICK f : Unfolds(f, <<>>, g, L, S)
  BY <1>3
<1>5. f[0] = <<>> /\ \A n \in 1 .. L : f[n] = IF in_use[s[n]] THEN f[n - 1] ELSE Append(f[n - 1], s[n])
  <2> SUFFICES ASSUME NEW n \in 1 .. L
               PROVE  f[n] = IF in_use[s[n]] THEN f[n - 1] ELSE Append(f[n - 1], s[n])
    BY <1>4 DEF Unfolds
  <2>1. n - 1 \in 0 .. L /\ f[n - 1] \in S
    BY <1>1, <1>4 DEF Unfolds
  <2>2. QED
    BY <2>1, <1>4 DEF Unfolds
<1>6. F(f)
  <2> HIDE DEF L
  <2>1. \A i \in 0 .. L : i = 0 \/ i \in 1 .. L
    BY <1>1
  <2>2. \A i \in 0 .. L : f[i] = IF i = 0 THEN <<>>
                       ELSE IF in_use[s[i]] THEN f[i - 1] ELSE Append(f[i - 1], s[i])
    BY <2>1, <1>5
  <2>3. f = [i \in 0 .. L |-> f[i]]
    BY <1>4 DEF Unfolds
  <2>4. QED
    BY <2>2, <2>3
<1>61. F(u)
  BY <1>6
<1>7. Unused(s) = u[L]
  BY DEF Unused
<1> DEFINE Good(m) == /\ u[m] \in Seq(Blocks) /\ Distinct(u[m])
                      /\ \A j \in DOMAIN u[m] : ~in_use[u[m][j]] /\ \E i \in 1 .. m : u[m][j] = s[i]
           T == {m \in Nat : m <= L => Good(m)}
<1>8. u[0] = <<>> /\ \A n \in 1 .. L : u[n] = IF in_use[s[n]] THEN u[n - 1] ELSE Append(u[n - 1], s[n])
  <2> HIDE DEF u, L
  <2>1. 0 \in 0 .. L /\ \A n \in 1 .. L : n \in 0 .. L /\ n # 0
    BY <1>1
  <2>2. \A i \in 0 .. L : u[i] = IF i = 0 THEN <<>>
                       ELSE IF in_use[s[i]] THEN u[i - 1] ELSE Append(u[i - 1], s[i])
    BY <1>61
  <2>3. QED
    BY <2>1, <2>2
<1> HIDE DEF u, F, g
<1>9. 0 \in T
  <2>1. DOMAIN u[0] = {} /\ u[0] \in Seq(Blocks)
    BY <1>8
  <2>2. Good(0)
    BY <2>1 DEF Distinct
  <2>3. QED
    BY <2>2
<1>10. \A m \in Nat : m \in T => m + 1 \in T
  <2>1. SUFFICES ASSUME NEW m \in Nat, m + 1 <= L, Good(m) PROVE Good(m + 1)
    BY <1>1
  <2> DEFINE v == u[m]
             b == s[m + 1]
  <2>2. m + 1 \in 1 .. L /\ b \in Blocks /\ (m + 1) - 1 = m
    BY <2>1, <1>1
  <2>3. CASE in_use[b]
    <3>1. u[m + 1] = u[m]
      BY <2>2, <2>3, <1>8
    <3>2. QED
      BY <3>1, <2>1
  <2>4. CASE ~in_use[b]
    <3>1. u[m + 1] = Append(v, b)
      BY <2>2, <2>4, <1>8
    <3>2. v \in Seq(Blocks) /\ Distinct(v)
          /\ \A j \in DOMAIN v : ~in_use[v[j]] /\ \E i \in 1 .. m : v[j] = s[i]
      BY <2>1
    <3>3. \A i \in 1 .. m : s[i] # b
      BY <2>2, <1>1 DEF Distinct
    <3> HIDE DEF v, b
    <3> DEFINE w == Append(v, b)
    <3>4. /\ w \in Seq(Blocks) /\ Len(w) = Len(v) + 1 /\ DOMAIN w = 1 .. Len(v) + 1 /\ Len(v) \in Nat
          /\ w[Len(v) + 1] = b /\ DOMAIN v = 1 .. Len(v) /\ \A j \in 1 .. Len(v) : w[j] = v[j]
      BY <3>2, <2>2
    <3> HIDE DEF w
    <3>5. Distinct(w)
      <4>1. \A j \in 1 .. Len(v) : v[j] # b
        BY <3>2, <3>3, <3>4
      <4>2. \A j \in 1 .. Len(v) + 1 : j \in 1 .. Len(v) \/ j = Len(v) + 1
        BY <3>4
      <4>3. \A i, j \in 1 .. Len(v) : w[i] = w[j] => i = j
        BY <3>2, <3>4 DEF Distinct
      <4>4. \A j \in 1 .. Len(v) : w[j] # w[Len(v) + 1]
        BY <3>4, <4>1
      <4>5. QED
        BY <3>4, <4>2, <4>3, <4>4 DEF Distinct
    <3>6. \A j \in DOMAIN w : ~in_use[w[j]] /\ \E i \in 1 .. m + 1 : w[j] = s[i]
      <4>1. b = s[m + 1] /\ m + 1 \in 1 .. m + 1 /\ \A i \in 1 .. m : i \in 1 .. m + 1
        BY <2>1 DEF b
      <4>2. SUFFICES ASSUME NEW j \in 1 .. Len(v) + 1
                     PROVE  ~in_use[w[j]] /\ \E i \in 1 .. m + 1 : w[j] = s[i]
        BY <3>4
      <4>3. CASE j = Len(v) + 1
        BY <4>3, <3>4, <2>4, <4>1
      <4>4. CASE j \in 1 .. Len(v)
        <5>1. w[j] = v[j] /\ ~in_use[v[j]]
          BY <4>4, <3>2, <3>4
        <5>2. PICK i \in 1 .. m : v[j] = s[i]
          BY <4>4, <3>2, <3>4
        <5>3. QED
          BY <5>1, <5>2, <4>1
      <4>5. QED
        BY <4>2, <4>3, <4>4, <3>4
    <3>7. QED
      BY <3>1, <3>4, <3>5, <3>6 DEF w
  <2>5. QED
    BY <2>3, <2>4
<1>11. L \in T
  <2> HIDE DEF T
  <2>1. QED
    BY <1>9, <1>10, <1>1, NatInd
<1>12. Good(L)
  BY <1>11, <1>1
<1>13. QED
  BY <1>12, <1>7, <1>1 DEF ToSet

\* New blocks have numbers that no block had.
LEMMA NewBlockFacts ==
  ASSUME BlockTypes, NEW n \in Nat, CanAllocate(n)
  PROVE  /\ NewBlocks(n) \in Seq(Blocks) /\ Len(NewBlocks(n)) = n /\ Distinct(NewBlocks(n))
         /\ \A i \in 1 .. n : NewBlocks(n)[i] >= next /\ NewBlocks(n)[i] < next + n
  BY BlockAssumption DEF BlockTypes, NewBlocks, CanAllocate, Distinct, Blocks

LEMMA DistinctConcat ==
  ASSUME NEW s \in Seq(Blocks), NEW t \in Seq(Blocks), Distinct(s), Distinct(t),
         \A i \in DOMAIN s, j \in DOMAIN t : s[i] # t[j]
  PROVE  s \o t \in Seq(Blocks) /\ Distinct(s \o t) /\ ToSet(s \o t) = ToSet(s) \cup ToSet(t)
<1>1. /\ s \o t \in Seq(Blocks) /\ Len(s \o t) = Len(s) + Len(t) /\ Len(s) \in Nat /\ Len(t) \in Nat
      /\ DOMAIN s = 1 .. Len(s) /\ DOMAIN t = 1 .. Len(t) /\ DOMAIN (s \o t) = 1 .. Len(s) + Len(t)
  OBVIOUS
<1>2. \A i \in 1 .. Len(s) + Len(t) : (s \o t)[i] = IF i <= Len(s) THEN s[i] ELSE t[i - Len(s)]
  OBVIOUS
<1> DEFINE w == s \o t
<1>3. \A j \in 1 .. Len(t) : Len(s) + j \in DOMAIN w /\ w[Len(s) + j] = t[j]
  BY <1>1, <1>2
<1>4. \A i \in 1 .. Len(s) : i \in DOMAIN w /\ w[i] = s[i]
  BY <1>1, <1>2
<1> HIDE DEF w
<1>5. \A i \in DOMAIN w : \/ i \in 1 .. Len(s) /\ w[i] = s[i]
                          \/ i - Len(s) \in 1 .. Len(t) /\ w[i] = t[i - Len(s)]
  BY <1>1, <1>2 DEF w
<1>6. Distinct(w)
  <2> SUFFICES ASSUME NEW i \in DOMAIN w, NEW j \in DOMAIN w, w[i] = w[j] PROVE i = j
    BY DEF Distinct
  <2>1. i \in Int /\ j \in Int
    BY <1>1 DEF w
  <2>2. QED
    BY <1>1, <1>5, <2>1 DEF Distinct
<1>7. ToSet(w) = ToSet(s) \cup ToSet(t)
  BY <1>1, <1>3, <1>4, <1>5 DEF ToSet
<1>8. QED
  BY <1>1, <1>6, <1>7 DEF w

\* AcquireBuffer allocates a block only if none is available.
LEMMA AcquireCases ==
  ASSUME BlocksInv, NEW h \in Holders, AcquireBuffer(h)
  PROVE  \E b \in Blocks :
           /\ in_use' = [in_use EXCEPT ![b] = TRUE]
           /\ block_of' = [block_of EXCEPT ![h] = @ \cup {b}] /\ given_back' = given_back
           /\ \/ /\ b = next /\ next' = next + 1 /\ next' \in 1 .. MaxAllocations + 1
                 /\ blocks' = Append(blocks, b) /\ available' = <<>>
              \/ /\ next' = next /\ blocks' = blocks
                 /\ available # <<>> /\ b = Head(available) /\ available' = Tail(available)
<1> DEFINE new == NewBlocks(IF available = <<>> THEN 1 ELSE 0)
           free == available \o new
<1>1. /\ CanAllocate(Len(new))
      /\ blocks' = blocks \o new /\ next' = next + Len(new) /\ available' = Tail(free)
      /\ in_use' = [in_use EXCEPT ![Head(free)] = TRUE]
      /\ block_of' = [block_of EXCEPT ![h] = @ \cup {Head(free)}] /\ given_back' = given_back
  BY DEF AcquireBuffer
<1>2. BlockTypes
  BY DEF BlocksInv
<1>3. CASE available = <<>>
  <2>1. new = <<next>>
    <3>1. new = [i \in 1 .. 1 |-> next + i - 1]
      BY <1>3 DEF NewBlocks
    <3>2. QED
      BY <3>1, <1>2 DEF BlockTypes
  <2>2. Len(new) = 1 /\ free = <<next>> /\ blocks \o new = Append(blocks, next)
    <3>1. blocks \in Seq(Blocks) /\ Len(<<next>>) = 1 /\ <<>> \o <<next>> = <<next>>
      BY <1>2 DEF BlockTypes
    <3>2. blocks \o <<next>> = Append(blocks, next)
      BY <3>1
    <3>3. QED
      BY <2>1, <3>1, <3>2, <1>3
  <2>3. Head(free) = next /\ Tail(free) = <<>>
    BY <2>2
  <2>4. next \in Blocks /\ next + 1 \in 1 .. MaxAllocations + 1
    <3>1. next + 1 <= MaxAllocations + 1 /\ next \in Nat /\ next >= 1
      BY <1>1, <1>2, <2>2 DEF CanAllocate, BlockTypes
    <3>2. QED
      BY <3>1, BlockAssumption DEF Blocks
  <2>5. QED
    BY <1>1, <2>2, <2>3, <2>4
<1>4. CASE available # <<>>
  <2>1. new = <<>>
    <3>1. new = [i \in 1 .. 0 |-> next + i - 1]
      BY <1>4 DEF NewBlocks
    <3>2. QED
      BY <3>1
  <2>2. Len(new) = 0 /\ free = available /\ blocks \o new = blocks /\ next + 0 = next
    BY <2>1, <1>2 DEF BlockTypes
  <2>3. Head(available) \in Blocks
    BY <1>2, <1>4 DEF BlockTypes
  <2>4. QED
    BY <1>1, <1>4, <2>2, <2>3
<1>5. QED
  BY <1>3, <1>4

LEMMA BlocksInvAcquire ==
  ASSUME BlocksInv, NEW h \in Holders, AcquireBuffer(h) PROVE BlocksInv'
<1>1. PICK b \in Blocks :
        /\ in_use' = [in_use EXCEPT ![b] = TRUE]
        /\ block_of' = [block_of EXCEPT ![h] = @ \cup {b}] /\ given_back' = given_back
        /\ \/ /\ b = next /\ next' = next + 1 /\ next' \in 1 .. MaxAllocations + 1
              /\ blocks' = Append(blocks, b) /\ available' = <<>>
           \/ /\ next' = next /\ blocks' = blocks
              /\ available # <<>> /\ b = Head(available) /\ available' = Tail(available)
  BY AcquireCases
<1>2. BlockTypes /\ BlocksListed /\ BlocksHeld /\ next \in Nat
  BY DEF BlocksInv, BlockTypes
<1>3. BlockTypes'
  <2>1. blocks' \in Seq(Blocks) /\ available' \in Seq(Blocks)
    <3>1. blocks \in Seq(Blocks) /\ available \in Seq(Blocks) /\ <<>> \in Seq(Blocks)
      BY <1>2 DEF BlockTypes
    <3>2. Append(blocks, b) \in Seq(Blocks)
      BY <3>1
    <3>3. available # <<>> => Tail(available) \in Seq(Blocks)
      BY <3>1
    <3>4. QED
      BY <1>1, <3>1, <3>2, <3>3
  <2>2. in_use' \in [Blocks -> BOOLEAN] /\ block_of' \in [Holders -> SUBSET Blocks]
    BY <1>1, <1>2 DEF BlockTypes
  <2>3. next' \in 1 .. MaxAllocations + 1
    BY <1>1, <1>2 DEF BlockTypes
  <2>4. QED
    BY <2>1, <2>2, <2>3 DEF BlockTypes
<1>4. b < next' /\ next <= next' /\ next' \in Nat /\ \A g \in Holders : b \in block_of[g] => b \in given_back
  <2>1. CASE b = next /\ next' = next + 1
    BY <2>1, <1>2 DEF BlocksHeld
  <2>2. CASE next' = next /\ available # <<>> /\ b = Head(available)
    <3>1. 1 \in DOMAIN available /\ b = available[1]
      BY <2>2, <1>2 DEF BlockTypes
    <3>2. ~in_use[b] /\ b \in ToSet(blocks)
      BY <3>1, <1>2 DEF BlocksListed
    <3>3. QED
      BY <2>2, <3>2, <1>2 DEF BlocksListed, BlocksHeld, ToSet
  <2>3. QED
    BY <1>1, <2>1, <2>2
<1>5. BlocksHeld'
  <2> SUFFICES ASSUME NEW g \in Holders, NEW c \in block_of'[g]
               PROVE  /\ c < next'
                      /\ \/ c \in given_back
                         \/ in_use'[c] /\ \A k \in Holders : c \in block_of'[k] => k = g
    BY <1>1 DEF BlocksHeld
  <2>1. c \in Blocks /\ c \in Int
    BY <1>3 DEF BlockTypes, Blocks
  <2>2. CASE c = b
    <3>1. b \notin given_back => in_use'[b] /\ \A k \in Holders : b \in block_of'[k] => k = h
      BY <1>1, <1>2, <1>4 DEF BlockTypes
    <3>2. QED
      BY <2>2, <3>1, <1>4
  <2>3. CASE c # b
    <3>1. \A k \in Holders : c \in block_of'[k] => c \in block_of[k]
      BY <1>1, <1>2, <2>3 DEF BlockTypes
    <3>2. in_use'[c] = in_use[c] /\ c \in block_of[g]
      BY <1>1, <1>2, <2>1, <2>3, <3>1 DEF BlockTypes
    <3>3. QED
      BY <3>1, <3>2, <1>2, <1>4, <2>1 DEF BlocksHeld
  <2>4. QED
    BY <2>2, <2>3
<1>7. \A c \in Blocks : in_use'[c] => c < next'
  <2> SUFFICES ASSUME NEW c \in Blocks, in_use'[c] PROVE c < next'
    OBVIOUS
  <2>1. c \in Int /\ (c = b \/ in_use[c])
    BY <1>1, <1>2 DEF BlockTypes, Blocks
  <2>2. QED
    BY <2>1, <1>2, <1>4 DEF BlocksListed
<1>6. BlocksListed'
  <2>1. CASE b = next /\ next' = next + 1 /\ blocks' = Append(blocks, b) /\ available' = <<>>
    <3>1. /\ Len(blocks') = Len(blocks) + 1 /\ Len(blocks) \in Nat /\ DOMAIN blocks' = 1 .. Len(blocks) + 1
          /\ blocks'[Len(blocks) + 1] = b /\ DOMAIN blocks = 1 .. Len(blocks)
          /\ \A i \in 1 .. Len(blocks) : blocks'[i] = blocks[i] /\ blocks[i] \in Nat
      <4>1. \A i \in DOMAIN blocks : blocks[i] \in Nat
        BY <1>2, BlockEntries DEF BlockTypes
      <4>2. QED
        BY <2>1, <1>2, <4>1 DEF BlockTypes
    <3>2. Distinct(blocks') /\ \A i \in DOMAIN blocks' : blocks'[i] < next'
      BY <3>1, <2>1, <1>2 DEF BlocksListed, Distinct
    <3>3. DOMAIN available' = {}
      BY <2>1
    <3>4. QED
      BY <3>2, <3>3, <1>7 DEF BlocksListed, Distinct
  <2>2. CASE /\ next' = next /\ blocks' = blocks
             /\ available # <<>> /\ b = Head(available) /\ available' = Tail(available)
    <3>1. /\ Len(available) \in Nat \ {0} /\ DOMAIN available = 1 .. Len(available)
          /\ DOMAIN available' = 1 .. Len(available) - 1 /\ b = available[1]
          /\ \A i \in 1 .. Len(available) - 1 : available'[i] = available[i + 1]
      BY <2>2, <1>2 DEF BlockTypes
    <3>2. \A i \in DOMAIN available' : /\ i + 1 \in DOMAIN available /\ i + 1 # 1
                                       /\ available'[i] = available[i + 1]
      BY <3>1
    <3>3. Distinct(available')
      <4>1. SUFFICES ASSUME NEW i \in DOMAIN available', NEW j \in DOMAIN available',
                            available'[i] = available'[j]
                     PROVE  i = j
        BY DEF Distinct
      <4>2. i + 1 = j + 1
        BY <3>2, <4>1, <1>2 DEF BlocksListed, Distinct
      <4>3. QED
        BY <3>1, <4>2
    <3>4. \A i \in DOMAIN available' : available'[i] # b
      BY <3>1, <3>2, <1>2 DEF BlocksListed, Distinct
    <3>5. \A i \in DOMAIN available' : ~in_use'[available'[i]] /\ available'[i] \in ToSet(blocks)
      <4>1. \A i \in DOMAIN available : available[i] \in Blocks
        BY <1>2 DEF BlockTypes
      <4>2. QED
        BY <1>1, <1>2, <3>2, <3>4, <4>1 DEF BlocksListed, BlockTypes
    <3>6. QED
      BY <2>2, <3>3, <3>5, <1>2, <1>7 DEF BlocksListed
  <2>3. QED
    BY <1>1, <2>1, <2>2
<1>8. QED
  BY <1>3, <1>5, <1>6 DEF BlocksInv

LEMMA BlocksInvRelease ==
  ASSUME BlocksInv, NEW h \in Holders, NEW b \in Blocks, ReleaseBuffer(h, b)
  PROVE  BlocksInv'
<1>1. BlockTypes /\ BlocksListed /\ BlocksHeld /\ next \in Nat
  BY DEF BlocksInv, BlockTypes
<1>2. /\ b \in block_of[h] /\ block_of' = [block_of EXCEPT ![h] = @ \ {b}]
      /\ blocks' = blocks /\ next' = next /\ given_back' = given_back
  BY DEF ReleaseBuffer
<1>3. \A g \in Holders : block_of'[g] \subseteq block_of[g]
  BY <1>1, <1>2 DEF BlockTypes
<1>4. CASE UNCHANGED <<available, in_use>>
  <2>1. BlockTypes' /\ BlocksListed'
    BY <1>1, <1>2, <1>4 DEF BlockTypes, BlocksListed
  <2>2. BlocksHeld'
    BY <1>1, <1>2, <1>3, <1>4 DEF BlocksHeld
  <2>3. QED
    BY <2>1, <2>2 DEF BlocksInv
<1>5. CASE /\ in_use[b] /\ b \in ToSet(blocks)
           /\ in_use' = [in_use EXCEPT ![b] = FALSE] /\ available' = Append(available, b)
  <2>1. BlockTypes'
    BY <1>1, <1>2, <1>5 DEF BlockTypes
  <2>2. /\ Len(available) \in Nat /\ DOMAIN available = 1 .. Len(available)
        /\ DOMAIN available' = 1 .. Len(available) + 1 /\ available'[Len(available) + 1] = b
        /\ \A i \in 1 .. Len(available) : available'[i] = available[i] /\ available[i] \in Blocks
    BY <1>1, <1>5 DEF BlockTypes
  <2>3. \A i \in 1 .. Len(available) : available[i] # b
    BY <1>1, <1>5, <2>2 DEF BlocksListed
  <2>4. Distinct(available')
    BY <1>1, <2>2, <2>3 DEF BlocksListed, Distinct
  <2>5. \A i \in DOMAIN available' : ~in_use'[available'[i]] /\ available'[i] \in ToSet(blocks)
    BY <1>1, <1>5, <2>2, <2>3 DEF BlocksListed, BlockTypes
  <2>6. BlocksListed'
    <3>1. \A c \in Blocks : in_use'[c] => c < next'
      BY <1>1, <1>2, <1>5 DEF BlocksListed, BlockTypes
    <3>2. QED
      BY <1>1, <1>2, <2>4, <2>5, <3>1 DEF BlocksListed
  <2>7. BlocksHeld'
    <3> SUFFICES ASSUME NEW g \in Holders, NEW c \in block_of'[g]
                 PROVE  /\ c < next
                        /\ \/ c \in given_back
                           \/ in_use'[c] /\ \A k \in Holders : c \in block_of'[k] => k = g
      BY <1>2 DEF BlocksHeld
    <3>1. c \in block_of[g] /\ c \in Blocks
      BY <1>1, <1>3 DEF BlockTypes
    <3>2. CASE c = b
      <4>1. g # h
        BY <1>1, <1>2, <3>2 DEF BlockTypes
      <4>2. b \in given_back
        BY <1>1, <1>2, <3>1, <3>2, <4>1 DEF BlocksHeld
      <4>3. QED
        BY <3>1, <3>2, <4>2, <1>1 DEF BlocksHeld
    <3>3. CASE c # b
      <4>1. in_use'[c] = in_use[c]
        BY <1>1, <1>5, <3>1, <3>3 DEF BlockTypes
      <4>2. QED
        BY <1>1, <1>3, <3>1, <4>1 DEF BlocksHeld
    <3>4. QED
      BY <3>2, <3>3
  <2>8. QED
    BY <2>1, <2>6, <2>7 DEF BlocksInv
<1>6. QED
  BY <1>4, <1>5 DEF ReleaseBuffer

LEMMA BlocksInvResize ==
  ASSUME BlocksInv, NEW n \in 0 .. MaxBlocks, Resize(n) PROVE BlocksInv'
<1>1. BlockTypes /\ BlocksListed /\ BlocksHeld /\ next \in Nat /\ n \in Nat
  BY BlockAssumption DEF BlocksInv, BlockTypes
<1>2. in_use' = in_use /\ block_of' = block_of /\ given_back' = given_back
  BY DEF Resize
<1>3. CASE n > Len(blocks) /\ CanAllocate(n - Len(blocks))
           /\ LET new == NewBlocks(n - Len(blocks)) IN
              blocks' = blocks \o new /\ available' = available \o new /\ next' = next + Len(new)
  <2> DEFINE m == n - Len(blocks)
             new == NewBlocks(m)
  <2>1. m \in Nat
    BY <1>1, <1>3 DEF BlockTypes
  <2> HIDE DEF m
  <2>2. /\ new \in Seq(Blocks) /\ Len(new) = m /\ Distinct(new) /\ DOMAIN new = 1 .. m
        /\ \A i \in 1 .. m : new[i] >= next /\ new[i] < next + m
    <3>1. CanAllocate(m)
      BY <1>3 DEF m
    <3>2. DOMAIN new = 1 .. m
      BY DEF NewBlocks
    <3>3. QED
      BY <1>1, <2>1, <3>1, <3>2, NewBlockFacts
  <2>3. blocks' = blocks \o new /\ available' = available \o new /\ next' = next + m
    BY <1>3, <2>2 DEF m
  <2> HIDE DEF new
  <2>4. \A i \in DOMAIN blocks, j \in DOMAIN new : blocks[i] # new[j]
    <3>1. \A i \in DOMAIN blocks : blocks[i] \in Nat /\ blocks[i] < next
      BY <1>1, BlockEntries DEF BlockTypes, BlocksListed
    <3>2. \A j \in DOMAIN new : new[j] \in Nat /\ new[j] >= next
      BY <2>2, BlockEntries
    <3>3. QED
      BY <3>1, <3>2, <1>1
  <2>5. \A i \in DOMAIN available, j \in DOMAIN new : available[i] # new[j]
    <3>1. \A i \in DOMAIN available : available[i] \in ToSet(blocks)
      BY <1>1 DEF BlocksListed
    <3>2. QED
      BY <3>1, <2>4 DEF ToSet
  <2>6. blocks \in Seq(Blocks) /\ available \in Seq(Blocks) /\ Distinct(blocks) /\ Distinct(available)
    BY <1>1 DEF BlockTypes, BlocksListed
  <2>7. /\ blocks' \in Seq(Blocks) /\ Distinct(blocks') /\ ToSet(blocks') = ToSet(blocks) \cup ToSet(new)
        /\ available' \in Seq(Blocks) /\ Distinct(available')
        /\ ToSet(available') = ToSet(available) \cup ToSet(new)
    BY <2>2, <2>3, <2>4, <2>5, <2>6, DistinctConcat
  <2>8. next' \in 1 .. MaxAllocations + 1 /\ next' >= next /\ next' \in Nat
    <3>1. next + m <= MaxAllocations + 1
      BY <1>3 DEF CanAllocate, m
    <3>2. QED
      BY <3>1, <1>1, <2>1, <2>3, BlockAssumption DEF BlockTypes
  <2>9. BlockTypes'
    BY <1>1, <1>2, <2>7, <2>8 DEF BlockTypes
  <2>10. BlocksListed'
    <3>1. \A j \in DOMAIN new : new[j] \in Blocks /\ new[j] < next' /\ ~in_use[new[j]]
      <4>1. \A j \in DOMAIN new : new[j] \in Blocks /\ new[j] \in Int /\ new[j] >= next /\ new[j] < next + m
        BY <2>2, BlockEntries
      <4>2. QED
        BY <4>1, <1>1, <2>1, <2>3 DEF BlocksListed
    <3>2. \A b \in ToSet(blocks') : b < next'
      <4>1. \A i \in DOMAIN blocks : blocks[i] \in Int /\ blocks[i] < next
        BY <1>1, BlockEntries DEF BlockTypes, BlocksListed
      <4>2. \A b \in ToSet(blocks) : b < next'
        BY <4>1, <1>1, <2>8 DEF ToSet
      <4>3. \A b \in ToSet(new) : b < next'
        BY <3>1 DEF ToSet
      <4>4. QED
        BY <4>2, <4>3, <2>7
    <3>3. \A b \in ToSet(available') : ~in_use[b] /\ b \in ToSet(blocks')
      <4>1. \A b \in ToSet(available) : ~in_use[b] /\ b \in ToSet(blocks)
        BY <1>1 DEF BlocksListed, ToSet
      <4>2. \A b \in ToSet(new) : ~in_use[b]
        BY <3>1 DEF ToSet
      <4>3. QED
        BY <4>1, <4>2, <2>7
    <3>4. \A b \in Blocks : in_use'[b] => b < next'
      <4>1. \A b \in Blocks : b \in Int
        BY DEF Blocks
      <4>2. QED
        BY <4>1, <1>1, <1>2, <2>8 DEF BlocksListed
    <3>5. (\A i \in DOMAIN blocks' : blocks'[i] < next') 
          /\ \A i \in DOMAIN available' : ~in_use'[available'[i]] /\ available'[i] \in ToSet(blocks')
      BY <3>2, <3>3, <1>2 DEF ToSet
    <3>6. QED
      BY <2>7, <3>4, <3>5 DEF BlocksListed
  <2>11. BlocksHeld'
    <3>1. \A h \in Holders : \A b \in block_of[h] : b \in Int
      BY <1>1 DEF BlockTypes, Blocks
    <3>2. QED
      BY <1>1, <1>2, <2>8, <3>1 DEF BlocksHeld
  <2>12. QED
    BY <2>9, <2>10, <2>11 DEF BlocksInv
<1>4. CASE n < Len(blocks) /\ blocks' = SubSeq(blocks, 1, n) /\ available' = Unused(blocks') /\ next' = next
  <2> DEFINE s == SubSeq(blocks, 1, n)
  <2>1. /\ s \in Seq(Blocks) /\ Len(s) = n /\ DOMAIN s = 1 .. n /\ DOMAIN blocks = 1 .. Len(blocks)
        /\ \A i \in 1 .. n : s[i] = blocks[i] /\ i \in DOMAIN blocks
    BY <1>1, <1>4 DEF BlockTypes
  <2> HIDE DEF s
  <2>2. Distinct(s)
    BY <2>1, <1>1 DEF BlocksListed, Distinct
  <2>3. /\ available' \in Seq(Blocks) /\ Distinct(available') /\ blocks' = s
        /\ \A i \in DOMAIN available' : ~in_use[available'[i]] /\ available'[i] \in ToSet(s)
    <3>1. available' = Unused(s) /\ blocks' = s /\ in_use \in [Blocks -> BOOLEAN]
      BY <1>1, <1>4 DEF s, BlockTypes
    <3>2. QED
      BY <3>1, <2>1, <2>2, UnusedFacts
  <2>4. BlockTypes'
    BY <1>1, <1>2, <1>4, <2>1, <2>3 DEF BlockTypes
  <2>5. BlocksListed'
    BY <1>1, <1>2, <1>4, <2>1, <2>2, <2>3 DEF BlocksListed
  <2>6. BlocksHeld'
    BY <1>1, <1>2, <1>4 DEF BlocksHeld
  <2>7. QED
    BY <2>4, <2>5, <2>6 DEF BlocksInv
<1>5. QED
  BY <1>3, <1>4 DEF Resize

LEMMA BlocksInvReset == ASSUME BlocksInv, Reset PROVE BlocksInv'
<1>1. BlockTypes /\ BlocksListed /\ BlocksHeld
  BY DEF BlocksInv
<1>2. /\ in_use' = [b \in Blocks |-> IF b \in ToSet(blocks) THEN FALSE ELSE in_use[b]]
      /\ available' = blocks /\ blocks' = blocks /\ next' = next /\ block_of' = block_of
      /\ given_back' = given_back \cup (ToSet(blocks) \cap UNION {block_of[h] : h \in Holders})
  BY DEF Reset
<1>3. BlockTypes'
  BY <1>1, <1>2 DEF BlockTypes
<1>4. BlocksListed'
  <2>1. \A i \in DOMAIN blocks : blocks[i] \in Blocks /\ blocks[i] \in ToSet(blocks)
    BY <1>1 DEF BlockTypes, ToSet
  <2>2. QED
    BY <1>1, <1>2, <2>1 DEF BlocksListed
<1>5. BlocksHeld'
  <2> SUFFICES ASSUME NEW h \in Holders, NEW b \in block_of[h]
               PROVE  /\ b < next
                      /\ \/ b \in given_back'
                         \/ in_use'[b] /\ \A g \in Holders : b \in block_of[g] => g = h
    BY <1>2 DEF BlocksHeld
  <2>1. b \in Blocks /\ b < next
    BY <1>1 DEF BlockTypes, BlocksHeld
  <2>2. CASE b \in ToSet(blocks)
    BY <1>2, <2>1, <2>2
  <2>3. CASE b \notin ToSet(blocks)
    <3>1. in_use'[b] = in_use[b]
      BY <1>2, <2>1, <2>3
    <3>2. QED
      BY <1>1, <1>2, <2>1, <3>1 DEF BlocksHeld
  <2>4. QED
    BY <2>2, <2>3
<1>6. QED
  BY <1>3, <1>4, <1>5 DEF BlocksInv

LEMMA BlocksInvTrim == ASSUME BlocksInv, Trim PROVE BlocksInv'
<1>1. BlockTypes /\ BlocksListed /\ BlocksHeld
  BY DEF BlocksInv
<1>2. BlockTypes'
  BY <1>1 DEF BlockTypes, Trim
<1>3. BlocksListed'
  <2>1. DOMAIN blocks' = {} /\ DOMAIN available' = {}
    BY DEF Trim
  <2>2. QED
    BY <2>1, <1>1 DEF BlocksListed, Distinct, Trim
<1>4. BlocksHeld'
  BY <1>1 DEF BlocksHeld, Trim
<1>5. QED
  BY <1>2, <1>3, <1>4 DEF BlocksInv

LEMMA BlocksInvStep == BlocksInv /\ [BlocksNext]_blockVars => BlocksInv'
<1> SUFFICES ASSUME BlocksInv, [BlocksNext]_blockVars PROVE BlocksInv'
  OBVIOUS
<1>1. CASE UNCHANGED blockVars
  BY <1>1 DEF blockVars, BlocksInv, BlockTypes, BlocksListed, BlocksHeld
<1>2. QED
  BY <1>1, BlocksInvAcquire, BlocksInvRelease, BlocksInvResize, BlocksInvReset, BlocksInvTrim
  DEF BlocksNext

\* No block is handed to two clients, and none is available while a client
\* holds it, but for those that a Reset took from a client
\* (async_buffer_pool.cc).
THEOREM BlocksLentOnce == BlocksSpec => []BlocksExclusive
<1>1. QED
  BY BlocksInvInit, BlocksInvStep, BlocksInvExclusive, PTL DEF BlocksSpec

-----------------------------------------------------------------------------
(* IOBufferPool                                                            *)

LEMMA DoubledSteps ==
  Doubled[0] = MinBucket /\ \A k \in 1 .. 64 : Doubled[k] = 2 * Doubled[k - 1]
<1> DEFINE g == [k \in 1 .. 64 |-> [x \in Int |-> 2 * x]]
           F(f) == f = [k \in 0 .. 64 |-> IF k = 0 THEN MinBucket ELSE 2 * f[k - 1]]
           d == CHOOSE f : F(f)
<1>1. IsStep(g, 64, Int) /\ MinBucket \in Int
  BY BucketAssumption DEF IsStep
<1>2. \E f : Unfolds(f, MinBucket, g, 64, Int)
  <2> HIDE DEF g
  <2>1. QED
    BY <1>1, FiniteRecursion
<1>3. PICK f : Unfolds(f, MinBucket, g, 64, Int)
  BY <1>2
<1>4. f[0] = MinBucket /\ \A k \in 1 .. 64 : f[k] = 2 * f[k - 1]
  BY <1>3 DEF Unfolds
<1>5. F(f)
  <2>1. \A k \in 0 .. 64 : f[k] = IF k = 0 THEN MinBucket ELSE 2 * f[k - 1]
    BY <1>4
  <2>2. f = [k \in 0 .. 64 |-> f[k]]
    BY <1>3 DEF Unfolds
  <2>3. QED
    BY <2>1, <2>2
<1>6. F(d)
  BY <1>5
<1>7. Doubled = d
  BY DEF Doubled
<1>8. \A k \in 0 .. 64 : d[k] = IF k = 0 THEN MinBucket ELSE 2 * d[k - 1]
  <2> HIDE DEF d
  <2>1. QED
    BY <1>6
<1>9. QED
  <2> HIDE DEF d
  <2>1. \A k \in 1 .. 64 : k \in 0 .. 64 /\ k # 0
    OBVIOUS
  <2>2. d[0] = MinBucket /\ \A k \in 1 .. 64 : d[k] = 2 * d[k - 1]
    BY <1>8, <2>1
  <2>3. QED
    BY <1>7, <2>2

\* The sizes of buckets grow.
LEMMA DoubledGrows ==
  /\ \A k \in 0 .. 64 : Doubled[k] \in Nat \ {0}
  /\ \A k \in 0 .. 64 : \A i \in 0 .. k : Doubled[i] <= Doubled[k]
<1> DEFINE T == {k \in Nat : k <= 64 => /\ Doubled[k] \in Nat \ {0}
                                        /\ \A i \in 0 .. k : Doubled[i] \in Nat /\ Doubled[i] <= Doubled[k]}
<1>1. 0 \in T
  BY DoubledSteps, BucketAssumption
<1>2. \A k \in Nat : k \in T => k + 1 \in T
  <2> SUFFICES ASSUME NEW k \in Nat, k \in T, k + 1 <= 64
               PROVE  /\ Doubled[k + 1] \in Nat \ {0}
                      /\ \A i \in 0 .. k + 1 : Doubled[i] \in Nat /\ Doubled[i] <= Doubled[k + 1]
    OBVIOUS
  <2>1. Doubled[k + 1] = 2 * Doubled[k]
    <3>1. k + 1 \in 1 .. 64 /\ (k + 1) - 1 = k
      OBVIOUS
    <3>2. QED
      BY <3>1, DoubledSteps
  <2>2. QED
    BY <2>1
<1>3. Nat \subseteq T
  <2> HIDE DEF T
  <2>1. QED
    BY <1>1, <1>2, NatInd
<1>4. \A k \in 0 .. 64 : k \in T
  <2> HIDE DEF T
  <2>1. QED
    BY <1>3
<1>5. QED
  <2> SUFFICES ASSUME NEW k \in 0 .. 64
               PROVE  /\ Doubled[k] \in Nat \ {0}
                      /\ \A i \in 0 .. k : Doubled[i] <= Doubled[k]
    OBVIOUS
  <2>1. k \in T /\ k <= 64
    BY <1>4
  <2>2. QED
    BY <2>1

\* The least number of a predicate on the numbers up to 64, as a set.
LEMMA LeastOf ==
  ASSUME NEW S \in SUBSET (0 .. 64), S # {}
  PROVE  LET m == CHOOSE k \in 0 .. 64 : k \in S /\ \A i \in 0 .. k - 1 : i \notin S
         IN m \in S /\ m \in 0 .. 64 /\ \A i \in 0 .. m - 1 : i \notin S
<1>1. S \in SUBSET Nat
  OBVIOUS
<1>2. PICK k \in S : \A i \in S : k <= i
  BY <1>1, LeastExists
<1>3. k \in 0 .. 64 /\ \A i \in 0 .. k - 1 : i \notin S
  BY <1>2
<1>4. QED
  BY <1>2, <1>3

\* The last bucket is the last doubling that does not exceed the maximum.
LEMMA LastBucketFacts ==
  /\ LastBucket \in 0 .. 63 /\ Doubled[LastBucket + 1] > MaxBucket
  /\ \A i \in 0 .. LastBucket - 1 : Doubled[i + 1] <= MaxBucket
<1> DEFINE S == {k \in 0 .. 64 : Doubled[k + 1] > MaxBucket}
           m == CHOOSE k \in 0 .. 64 : k \in S /\ \A i \in 0 .. k - 1 : i \notin S
<1>1. PICK e \in 0 .. 63 : Doubled[e + 1] > MaxBucket
  BY SizeAssumption
<1>2. S \in SUBSET (0 .. 64) /\ e \in S
  BY <1>1
<1>3. m \in S /\ m \in 0 .. 64 /\ \A i \in 0 .. m - 1 : i \notin S
  <2> HIDE DEF S
  <2>1. QED
    BY <1>2, LeastOf
<1>4. LastBucket = m
  BY DEF LastBucket, Least
<1> HIDE DEF m
<1>5. m <= e
  BY <1>2, <1>3
<1>6. \A i \in 0 .. m - 1 : Doubled[i + 1] <= MaxBucket
  <2> SUFFICES ASSUME NEW i \in 0 .. m - 1 PROVE Doubled[i + 1] <= MaxBucket
    OBVIOUS
  <2>1. i \in 0 .. 64 /\ i + 1 \in 0 .. 64 /\ i \notin S
    BY <1>3
  <2>2. Doubled[i + 1] \in Nat
    BY <2>1, DoubledGrows
  <2>3. QED
    BY <2>1, <2>2, BucketAssumption
<1>7. QED
  BY <1>3, <1>4, <1>5, <1>6

\* What is rounded up is large enough, and no vector has no capacity.
LEMMA RoundUpFacts ==
  ASSUME NEW size \in Nat
  PROVE  RoundUpToBucket(size) \in Nat \ {0} /\ RoundUpToBucket(size) >= size
<1> DEFINE S == {k \in 0 .. 64 : Doubled[k] >= size \/ Doubled[k] >= MaxBucket}
           m == CHOOSE k \in 0 .. 64 : k \in S /\ \A i \in 0 .. k - 1 : i \notin S
<1>1. LastBucket + 1 \in S /\ S \in SUBSET (0 .. 64)
  <2>1. LastBucket + 1 \in 0 .. 64 /\ Doubled[LastBucket + 1] > MaxBucket
    BY LastBucketFacts
  <2>2. Doubled[LastBucket + 1] \in Nat
    BY <2>1, DoubledGrows
  <2>3. QED
    BY <2>1, <2>2, BucketAssumption
<1>2. m \in S /\ m \in 0 .. 64
  <2> HIDE DEF S
  <2>1. QED
    BY <1>1, LeastOf
<1>3. RoundUpToBucket(size) = IF Doubled[m] < size THEN size ELSE Doubled[m]
  <2> DEFINE q == Least(LAMBDA k : Doubled[k] >= size \/ Doubled[k] >= MaxBucket)
  <2>1. q = m
    BY DEF Least
  <2>2. RoundUpToBucket(size) = IF Doubled[q] < size THEN size ELSE Doubled[q]
    BY DEF RoundUpToBucket
  <2> HIDE DEF q, m
  <2>3. QED
    BY <2>1, <2>2
<1> HIDE DEF m
<1>4. Doubled[m] \in Nat \ {0}
  BY <1>2, DoubledGrows
<1>5. QED
  BY <1>3, <1>4

\* Every size has a bucket, of vectors that are large enough unless the size
\* exceeds the last bucket's.
LEMMA BucketIndexFacts ==
  ASSUME NEW size \in Nat
  PROVE  /\ BucketIndexForSize(size) \in Buckets
         /\ BucketIndexForSize(size) = LastBucket \/ Doubled[BucketIndexForSize(size)] >= size
<1> DEFINE r == RoundUpToBucket(size)
           S == {k \in 0 .. 64 : k = LastBucket \/ Doubled[k] >= r}
           m == CHOOSE k \in 0 .. 64 : k \in S /\ \A i \in 0 .. k - 1 : i \notin S
<1>1. LastBucket \in S /\ S \in SUBSET (0 .. 64) /\ LastBucket \in 0 .. 63
  BY LastBucketFacts
<1>2. m \in S /\ m \in 0 .. 64 /\ \A i \in 0 .. m - 1 : i \notin S
  <2> HIDE DEF S
  <2>1. QED
    BY <1>1, LeastOf
<1>3. BucketIndexForSize(size) = m
  BY DEF BucketIndexForSize, Least
<1> HIDE DEF m
<1>4. m <= LastBucket
  BY <1>1, <1>2
<1>5. r \in Nat /\ r >= size
  BY RoundUpFacts
<1>6. Doubled[m] \in Nat
  BY <1>2, DoubledGrows
<1>7. QED
  <2> HIDE DEF r
  <2>1. QED
    BY <1>1, <1>2, <1>3, <1>4, <1>5, <1>6 DEF Buckets

VectorTypes ==
  /\ freeList \in [Buckets -> Seq(Buffers)] /\ capacity \in [Buffers -> Nat]
  /\ lent \in [Buffers -> SUBSET Nat]
  /\ \A v \in Buffers : lent[v] = {} \/ \E n \in Nat : lent[v] = {n}
  /\ \A k \in Buckets : Len(freeList[k]) <= MaxPerBucket

\* A vector in a free list is there once and is not held; one that exists is in
\* a free list or held; one that is held exists.
VectorsPlaced ==
  \A v \in Buffers :
    /\ \A k, l \in Buckets : \A i \in DOMAIN freeList[k], j \in DOMAIN freeList[l] :
         freeList[k][i] = v /\ freeList[l][j] = v => k = l /\ i = j
    /\ \A k \in Buckets : \A i \in DOMAIN freeList[k] :
         freeList[k][i] = v => capacity[v] # 0 /\ lent[v] = {}
    /\ capacity[v] # 0 =>
         lent[v] # {} \/ \E k \in Buckets : \E i \in DOMAIN freeList[k] : freeList[k][i] = v
    /\ lent[v] # {} => capacity[v] # 0

LargeEnough == \A v \in Buffers : \A size \in lent[v] :
                 size <= Doubled[LastBucket] => capacity[v] >= size

VectorInv == VectorTypes /\ VectorsPlaced /\ LargeEnough

LEMMA VectorInvInit == BucketsInit => VectorInv
<1> SUFFICES ASSUME BucketsInit PROVE VectorInv
  OBVIOUS
<1>1. \A k \in Buckets : freeList[k] = <<>> /\ DOMAIN freeList[k] = {} /\ Len(freeList[k]) = 0
  BY DEF BucketsInit
<1>2. VectorTypes
  BY <1>1, BucketAssumption DEF BucketsInit, VectorTypes
<1>3. VectorsPlaced /\ LargeEnough
  BY <1>1 DEF BucketsInit, VectorsPlaced, LargeEnough
<1>4. QED
  BY <1>2, <1>3 DEF VectorInv

LEMMA VectorInvFits == VectorInv => VectorsFit
<1> SUFFICES ASSUME VectorInv PROVE VectorsFit
  OBVIOUS
<1>1. VectorTypes /\ VectorsPlaced /\ LargeEnough
  BY DEF VectorInv
<1>2. ASSUME NEW v \in Buffers
      PROVE  LET places == {p \in Buckets \X (1 .. MaxPerBucket) :
                              p[2] <= Len(freeList[p[1]]) /\ freeList[p[1]][p[2]] = v}
             IN Cardinality(places) + Cardinality(lent[v]) = (IF capacity[v] = 0 THEN 0 ELSE 1)
  <2> DEFINE places == {p \in Buckets \X (1 .. MaxPerBucket) :
                          p[2] <= Len(freeList[p[1]]) /\ freeList[p[1]][p[2]] = v}
  <2>1. \A k \in Buckets : /\ Len(freeList[k]) \in Nat /\ DOMAIN freeList[k] = 1 .. Len(freeList[k])
                           /\ Len(freeList[k]) <= MaxPerBucket
    BY <1>1 DEF VectorTypes
  <2>2. \A p \in places : /\ p[1] \in Buckets /\ p[2] \in DOMAIN freeList[p[1]]
                          /\ freeList[p[1]][p[2]] = v /\ p = <<p[1], p[2]>>
    BY <2>1
  <2>3. \A k \in Buckets : \A i \in DOMAIN freeList[k] : freeList[k][i] = v => <<k, i>> \in places
    BY <2>1, BucketAssumption
  <2> HIDE DEF places
  <2>4. \A p, q \in places : p = q
    <3>1. \A p, q \in places : p[1] = q[1] /\ p[2] = q[2]
      BY <2>2, <1>1 DEF VectorsPlaced
    <3>2. QED
      BY <3>1, <2>2
  <2>5. places = {} \/ \E p : places = {p}
    BY <2>4
  <2>6. /\ places # {} => capacity[v] # 0 /\ lent[v] = {}
        /\ capacity[v] # 0 => lent[v] # {} \/ places # {}
        /\ lent[v] # {} => capacity[v] # 0
    <3>1. places # {} => \E k \in Buckets : \E i \in DOMAIN freeList[k] : freeList[k][i] = v
      BY <2>2
    <3>2. (\E k \in Buckets : \E i \in DOMAIN freeList[k] : freeList[k][i] = v) => places # {}
      BY <2>3
    <3>3. QED
      BY <3>1, <3>2, <1>1 DEF VectorsPlaced
  <2>7. Cardinality(places) = IF places = {} THEN 0 ELSE 1
    BY <2>5, FS_EmptySet, FS_Singleton
  <2>8. Cardinality(lent[v]) = IF lent[v] = {} THEN 0 ELSE 1
    BY <1>1, FS_EmptySet, FS_Singleton DEF VectorTypes
  <2>9. Cardinality(places) + Cardinality(lent[v]) = (IF capacity[v] = 0 THEN 0 ELSE 1)
    BY <2>6, <2>7, <2>8
  <2>10. QED
    BY <2>9 DEF places
<1>3. \A k \in Buckets : Len(freeList[k]) <= MaxPerBucket
  BY <1>1 DEF VectorTypes
<1>4. QED
  BY <1>1, <1>2, <1>3 DEF VectorsFit, LargeEnough

\* Acquire: what is handed out is large enough for the size asked for.
LEMMA VectorInvAcquire ==
  ASSUME VectorInv, NEW size \in Sizes, AcquireVector(size) PROVE VectorInv'
<1> DEFINE r == RoundUpToBucket(size)
           k == BucketIndexForSize(r)
<1>1. VectorTypes /\ VectorsPlaced /\ LargeEnough
  BY DEF VectorInv
<1>2. size \in Nat /\ r \in Nat \ {0} /\ r >= size
  BY BucketAssumption, RoundUpFacts
<1>3. k \in Buckets /\ (k = LastBucket \/ Doubled[k] >= r)
  <2> HIDE DEF r
  <2>1. QED
    BY <1>2, BucketIndexFacts
<1>4. LastBucket \in 0 .. 64 /\ k \in 0 .. 64
  BY <1>3, LastBucketFacts DEF Buckets
<1>5. Doubled[k] \in Nat \ {0} /\ Doubled[LastBucket] \in Nat
  BY <1>4, DoubledGrows
<1>6. PICK v \in Buffers :
        /\ IF freeList[k] # <<>>
           THEN /\ v = Last(freeList[k])
                /\ freeList' = [freeList EXCEPT ![k] = Front(@)]
                /\ capacity' = [capacity EXCEPT ![v] = Larger(@, Doubled[k])]
           ELSE /\ capacity[v] = 0
                /\ capacity' = [capacity EXCEPT ![v] = r]
                /\ UNCHANGED freeList
        /\ lent' = [lent EXCEPT ![v] = {size}]
  BY DEF AcquireVector
<1> HIDE DEF r, k
<1>7. /\ capacity' \in [Buffers -> Nat] /\ \A w \in Buffers : w # v => capacity'[w] = capacity[w]
      /\ capacity'[v] # 0 /\ (size <= Doubled[LastBucket] => capacity'[v] >= size)
  <2>1. capacity[v] \in Nat
    BY <1>1 DEF VectorTypes
  <2>2. CASE freeList[k] # <<>>
    <3>1. capacity'[v] = Larger(capacity[v], Doubled[k])
      BY <1>1, <1>6, <2>2 DEF VectorTypes
    <3>2. capacity'[v] \in Nat \ {0} /\ capacity'[v] >= Doubled[k]
      BY <3>1, <2>1, <1>5 DEF Larger
    <3>3. size <= Doubled[LastBucket] => capacity'[v] >= size
      BY <3>2, <1>2, <1>3, <1>5
    <3>4. QED
      BY <1>1, <1>6, <2>2, <3>1, <3>2, <3>3 DEF VectorTypes
  <2>3. CASE freeList[k] = <<>>
    BY <1>1, <1>2, <1>6, <2>3 DEF VectorTypes
  <2>4. QED
    BY <2>2, <2>3
<1>8. /\ lent' \in [Buffers -> SUBSET Nat] /\ lent'[v] = {size}
      /\ \A w \in Buffers : w # v => lent'[w] = lent[w]
  BY <1>1, <1>2, <1>6 DEF VectorTypes
<1>9. /\ freeList' \in [Buckets -> Seq(Buffers)]
      /\ \A l \in Buckets : Len(freeList'[l]) <= MaxPerBucket
      /\ \A l \in Buckets : \A i \in DOMAIN freeList'[l] :
           i \in DOMAIN freeList[l] /\ freeList'[l][i] = freeList[l][i] /\ freeList[l][i] # v
      /\ \A l \in Buckets : \A i \in DOMAIN freeList[l] :
           freeList[l][i] # v => i \in DOMAIN freeList'[l]
  <2>1. CASE freeList[k] # <<>>
    <3> DEFINE s == freeList[k]
               n == Len(s)
    <3>1. s \in Seq(Buffers) /\ s # <<>> /\ n \in Nat /\ n # 0 /\ n <= MaxPerBucket /\ DOMAIN s = 1 .. n
      BY <1>1, <1>3, <2>1 DEF VectorTypes
    <3>2. v = s[n] /\ freeList' = [freeList EXCEPT ![k] = SubSeq(s, 1, n - 1)]
      BY <1>6, <2>1 DEF Last, Front
    <3> HIDE DEF s
    <3>3. /\ SubSeq(s, 1, n - 1) \in Seq(Buffers) /\ Len(SubSeq(s, 1, n - 1)) = n - 1
          /\ DOMAIN SubSeq(s, 1, n - 1) = 1 .. n - 1
          /\ \A i \in 1 .. n - 1 : SubSeq(s, 1, n - 1)[i] = s[i]
      BY <3>1
    <3>4. \A i \in 1 .. n - 1 : s[i] # v
      <4>1. \A i \in DOMAIN s : s[i] = v => i = n
        BY <1>1, <1>3, <3>1, <3>2 DEF VectorsPlaced, s
      <4>2. QED
        BY <3>1, <4>1
    <3>5. freeList'[k] = SubSeq(s, 1, n - 1) /\ \A l \in Buckets : l # k => freeList'[l] = freeList[l]
      BY <1>1, <1>3, <3>2 DEF VectorTypes
    <3>6. freeList' \in [Buckets -> Seq(Buffers)]
      BY <1>1, <1>3, <3>2, <3>3 DEF VectorTypes
    <3>7. \A l \in Buckets : l # k => \A i \in DOMAIN freeList[l] : freeList[l][i] # v
      BY <1>1, <1>3, <3>1, <3>2 DEF VectorsPlaced, s
    <3>8. \A l \in Buckets : Len(freeList'[l]) <= MaxPerBucket
      <4>1. Len(freeList'[k]) <= MaxPerBucket
        BY <3>1, <3>3, <3>5, BucketAssumption
      <4>2. QED
        BY <4>1, <1>1, <3>5 DEF VectorTypes
    <3>9. ASSUME NEW l \in Buckets
          PROVE  /\ \A i \in DOMAIN freeList'[l] :
                      i \in DOMAIN freeList[l] /\ freeList'[l][i] = freeList[l][i] /\ freeList[l][i] # v
                 /\ \A i \in DOMAIN freeList[l] : freeList[l][i] # v => i \in DOMAIN freeList'[l]
      <4>1. CASE l = k
        <5>1. DOMAIN freeList'[l] = 1 .. n - 1 /\ freeList[l] = s
          BY <4>1, <3>3, <3>5 DEF s
        <5>2. \A i \in DOMAIN s : s[i] # v => i \in 1 .. n - 1
          BY <3>1, <3>2
        <5>3. QED
          BY <5>1, <5>2, <4>1, <3>1, <3>3, <3>4, <3>5
      <4>2. CASE l # k
        BY <4>2, <3>5, <3>7
      <4>3. QED
        BY <4>1, <4>2
    <3>10. QED
      BY <3>6, <3>8, <3>9
  <2>2. CASE freeList[k] = <<>>
    <3>1. freeList' = freeList /\ capacity[v] = 0
      BY <1>6, <2>2
    <3>2. \A l \in Buckets : \A i \in DOMAIN freeList[l] : freeList[l][i] # v
      BY <1>1, <3>1 DEF VectorsPlaced
    <3>3. QED
      BY <1>1, <3>1, <3>2 DEF VectorTypes
  <2>3. QED
    BY <2>1, <2>2
<1>10. VectorTypes'
  BY <1>1, <1>2, <1>7, <1>8, <1>9 DEF VectorTypes
<1>11. LargeEnough'
  BY <1>1, <1>7, <1>8 DEF LargeEnough
<1>12. VectorsPlaced'
  <2> SUFFICES ASSUME NEW w \in Buffers
               PROVE  /\ \A a, b \in Buckets : \A i \in DOMAIN freeList'[a], j \in DOMAIN freeList'[b] :
                           freeList'[a][i] = w /\ freeList'[b][j] = w => a = b /\ i = j
                      /\ \A a \in Buckets : \A i \in DOMAIN freeList'[a] :
                           freeList'[a][i] = w => capacity'[w] # 0 /\ lent'[w] = {}
                      /\ capacity'[w] # 0 =>
                           \/ lent'[w] # {}
                           \/ \E a \in Buckets : \E i \in DOMAIN freeList'[a] : freeList'[a][i] = w
                      /\ lent'[w] # {} => capacity'[w] # 0
    BY DEF VectorsPlaced
  <2>1. CASE w = v
    BY <2>1, <1>7, <1>8, <1>9
  <2>2. CASE w # v
    <3>1. capacity'[w] = capacity[w] /\ lent'[w] = lent[w]
      BY <2>2, <1>7, <1>8
    <3>2. (\E a \in Buckets : \E i \in DOMAIN freeList[a] : freeList[a][i] = w)
          => \E a \in Buckets : \E i \in DOMAIN freeList'[a] : freeList'[a][i] = w
      BY <2>2, <1>9
    <3>3. \A a \in Buckets : \A i \in DOMAIN freeList'[a] :
             freeList'[a][i] = w => i \in DOMAIN freeList[a] /\ freeList[a][i] = w
      BY <1>9
    <3>4. /\ \A a, b \in Buckets : \A i \in DOMAIN freeList[a], j \in DOMAIN freeList[b] :
               freeList[a][i] = w /\ freeList[b][j] = w => a = b /\ i = j
          /\ \A a \in Buckets : \A i \in DOMAIN freeList[a] :
               freeList[a][i] = w => capacity[w] # 0 /\ lent[w] = {}
          /\ capacity[w] # 0 =>
               lent[w] # {} \/ \E a \in Buckets : \E i \in DOMAIN freeList[a] : freeList[a][i] = w
          /\ lent[w] # {} => capacity[w] # 0
      BY <1>1 DEF VectorsPlaced
    <3>5. \A a, b \in Buckets : \A i \in DOMAIN freeList'[a], j \in DOMAIN freeList'[b] :
             freeList'[a][i] = w /\ freeList'[b][j] = w => a = b /\ i = j
      BY <3>3, <3>4
    <3>6. \A a \in Buckets : \A i \in DOMAIN freeList'[a] :
             freeList'[a][i] = w => capacity'[w] # 0 /\ lent'[w] = {}
      BY <3>1, <3>3, <3>4
    <3>7. QED
      BY <3>1, <3>2, <3>4, <3>5, <3>6
  <2>3. QED
    BY <2>1, <2>2
<1>13. QED
  BY <1>10, <1>11, <1>12 DEF VectorInv

LEMMA VectorInvGrow ==
  ASSUME VectorInv, NEW v \in Buffers, NEW size \in Sizes, Grow(v, size) PROVE VectorInv'
<1>1. VectorTypes /\ VectorsPlaced /\ LargeEnough /\ size \in Nat
  BY BucketAssumption DEF VectorInv
<1>2. /\ lent[v] # {} /\ size > capacity[v] /\ capacity' = [capacity EXCEPT ![v] = size]
      /\ freeList' = freeList /\ lent' = lent
  BY DEF Grow
<1>3. capacity[v] \in Nat /\ capacity'[v] = size /\ size # 0
      /\ \A w \in Buffers : w # v => capacity'[w] = capacity[w]
  BY <1>1, <1>2 DEF VectorTypes
<1>4. VectorTypes'
  BY <1>1, <1>2 DEF VectorTypes
<1>5. LargeEnough'
  <2>1. \A n \in lent[v] : n \in Nat
    BY <1>1 DEF VectorTypes
  <2>2. \A n \in lent[v] : n <= Doubled[LastBucket] => size >= n
    BY <1>1, <1>2, <1>3, <2>1 DEF LargeEnough
  <2>3. QED
    BY <1>1, <1>2, <1>3, <2>2 DEF LargeEnough
<1>6. VectorsPlaced'
  BY <1>1, <1>2, <1>3 DEF VectorsPlaced
<1>7. QED
  BY <1>4, <1>5, <1>6 DEF VectorInv

LEMMA VectorInvRelease ==
  ASSUME VectorInv, NEW v \in Buffers, Release(v) PROVE VectorInv'
<1> DEFINE size == RoundUpToBucket(capacity[v])
           k == BucketIndexForSize(size)
<1>1. VectorTypes /\ VectorsPlaced /\ LargeEnough
  BY DEF VectorInv
<1>2. capacity[v] \in Nat
  BY <1>1 DEF VectorTypes
<1>3. k \in Buckets
  <2>1. size \in Nat
    BY <1>2, RoundUpFacts
  <2> HIDE DEF size
  <2>2. QED
    BY <2>1, BucketIndexFacts
<1>4. /\ lent[v] # {} /\ lent' = [lent EXCEPT ![v] = {}]
      /\ IF size > MaxBucket \/ size < MinBucket \/ Len(freeList[k]) >= MaxPerBucket
         THEN capacity' = [capacity EXCEPT ![v] = 0] /\ UNCHANGED freeList
         ELSE freeList' = [freeList EXCEPT ![k] = Append(@, v)] /\ UNCHANGED capacity
  BY DEF Release
<1> HIDE DEF size, k
<1>5. lent'[v] = {} /\ \A w \in Buffers : w # v => lent'[w] = lent[w]
  BY <1>1, <1>4 DEF VectorTypes
<1>6. lent' \in [Buffers -> SUBSET Nat]
      /\ \A w \in Buffers : lent'[w] = {} \/ \E n \in Nat : lent'[w] = {n}
  BY <1>1, <1>4, <1>5 DEF VectorTypes
<1>7. capacity[v] # 0 /\ \A l \in Buckets : \A i \in DOMAIN freeList[l] : freeList[l][i] # v
  BY <1>1, <1>4 DEF VectorsPlaced
<1>8. CASE capacity' = [capacity EXCEPT ![v] = 0] /\ freeList' = freeList
  <2>1. capacity'[v] = 0 /\ \A w \in Buffers : w # v => capacity'[w] = capacity[w]
    BY <1>1, <1>8 DEF VectorTypes
  <2>2. VectorTypes'
    BY <1>1, <1>6, <1>8 DEF VectorTypes
  <2>3. LargeEnough'
    BY <1>1, <1>5, <2>1 DEF LargeEnough
  <2>4. VectorsPlaced'
    BY <1>1, <1>5, <1>7, <1>8, <2>1 DEF VectorsPlaced
  <2>5. QED
    BY <2>2, <2>3, <2>4 DEF VectorInv
<1>9. CASE /\ ~(Len(freeList[k]) >= MaxPerBucket)
           /\ freeList' = [freeList EXCEPT ![k] = Append(@, v)] /\ capacity' = capacity
  <2> DEFINE s == freeList[k]
             n == Len(s)
  <2>1. s \in Seq(Buffers) /\ n \in Nat /\ n + 1 <= MaxPerBucket /\ DOMAIN s = 1 .. n
    BY <1>1, <1>3, <1>9, BucketAssumption DEF VectorTypes
  <2>2. freeList'[k] = Append(s, v) /\ \A l \in Buckets : l # k => freeList'[l] = freeList[l]
    BY <1>1, <1>3, <1>9 DEF VectorTypes
  <2>3. freeList' \in [Buckets -> Seq(Buffers)]
    BY <1>1, <1>3, <1>9, <2>1 DEF VectorTypes
  <2>10. freeList[k] = s
    OBVIOUS
  <2> HIDE DEF s
  <2>4. /\ Len(Append(s, v)) = n + 1 /\ DOMAIN Append(s, v) = 1 .. n + 1
        /\ Append(s, v)[n + 1] = v /\ \A i \in 1 .. n : Append(s, v)[i] = s[i]
    BY <2>1
  <2>5. VectorTypes'
    BY <1>1, <1>6, <1>9, <2>1, <2>2, <2>3, <2>4, BucketAssumption DEF VectorTypes
  <2>6. /\ n + 1 \in DOMAIN freeList'[k] /\ freeList'[k][n + 1] = v
        /\ \A l \in Buckets : \A i \in DOMAIN freeList[l] :
             i \in DOMAIN freeList'[l] /\ freeList'[l][i] = freeList[l][i]
        /\ \A l \in Buckets : \A i \in DOMAIN freeList'[l] :
             (i \in DOMAIN freeList[l] /\ freeList'[l][i] = freeList[l][i]) \/ (l = k /\ i = n + 1)
    <3>1. \A i \in 1 .. n + 1 : i \in 1 .. n \/ i = n + 1
      BY <2>1
    <3>2. ASSUME NEW l \in Buckets
          PROVE  /\ \A i \in DOMAIN freeList[l] :
                      i \in DOMAIN freeList'[l] /\ freeList'[l][i] = freeList[l][i]
                 /\ \A i \in DOMAIN freeList'[l] :
                      (i \in DOMAIN freeList[l] /\ freeList'[l][i] = freeList[l][i]) \/ (l = k /\ i = n + 1)
      <4>1. CASE l = k
        <5>1. \A i \in 1 .. n : i \in 1 .. n + 1
          BY <2>1
        <5>2. QED
          BY <4>1, <5>1, <3>1, <2>1, <2>2, <2>4, <2>10
      <4>2. CASE l # k
        BY <4>2, <2>2
      <4>3. QED
        BY <4>1, <4>2
    <3>3. n + 1 \in DOMAIN freeList'[k] /\ freeList'[k][n + 1] = v
      BY <2>1, <2>2, <2>4
    <3>4. QED
      BY <3>2, <3>3
  <2>7. LargeEnough'
    BY <1>1, <1>5, <1>9 DEF LargeEnough
  <2>8. VectorsPlaced'
    <3> HIDE DEF n
    <3> SUFFICES ASSUME NEW w \in Buffers
                 PROVE  /\ \A a, b \in Buckets : \A i \in DOMAIN freeList'[a], j \in DOMAIN freeList'[b] :
                             freeList'[a][i] = w /\ freeList'[b][j] = w => a = b /\ i = j
                        /\ \A a \in Buckets : \A i \in DOMAIN freeList'[a] :
                             freeList'[a][i] = w => capacity'[w] # 0 /\ lent'[w] = {}
                        /\ capacity'[w] # 0 =>
                             \/ lent'[w] # {}
                             \/ \E a \in Buckets : \E i \in DOMAIN freeList'[a] : freeList'[a][i] = w
                        /\ lent'[w] # {} => capacity'[w] # 0
      BY DEF VectorsPlaced
    <3>1. CASE w = v
      <4>1. \A a \in Buckets : \A i \in DOMAIN freeList'[a] :
              freeList'[a][i] = w => a = k /\ i = n + 1
        BY <3>1, <1>7, <2>6
      <4>2. QED
        BY <3>1, <4>1, <1>3, <1>5, <1>7, <1>9, <2>6
    <3>2. CASE w # v
      <4>1. \A a \in Buckets : \A i \in DOMAIN freeList'[a] :
              freeList'[a][i] = w => i \in DOMAIN freeList[a] /\ freeList[a][i] = w
        BY <3>2, <2>6
      <4>2. QED
        BY <3>2, <4>1, <1>1, <1>5, <1>9, <2>6 DEF VectorsPlaced
    <3>3. QED
      BY <3>1, <3>2
  <2>9. QED
    BY <2>5, <2>7, <2>8 DEF VectorInv
<1>10. QED
  BY <1>4, <1>8, <1>9

LEMMA VectorInvClear ==
  ASSUME VectorInv, NEW k \in Buckets, ClearBucket(k) PROVE VectorInv'
<1>1. VectorTypes /\ VectorsPlaced /\ LargeEnough
  BY DEF VectorInv
<1>2. /\ capacity' = [v \in Buffers |-> IF v \in ToSet(freeList[k]) THEN 0 ELSE capacity[v]]
      /\ freeList' = [freeList EXCEPT ![k] = <<>>] /\ lent' = lent
  BY DEF ClearBucket
<1>3. /\ freeList'[k] = <<>> /\ DOMAIN freeList'[k] = {} /\ Len(freeList'[k]) = 0
      /\ \A l \in Buckets : l # k => freeList'[l] = freeList[l]
      /\ freeList' \in [Buckets -> Seq(Buffers)]
  <2>1. freeList'[k] = <<>> /\ \A l \in Buckets : l # k => freeList'[l] = freeList[l]
    BY <1>1, <1>2 DEF VectorTypes
  <2>2. freeList' \in [Buckets -> Seq(Buffers)]
    BY <1>1, <1>2 DEF VectorTypes
  <2>3. QED
    BY <2>1, <2>2
<1>4. \A v \in Buffers : (v \in ToSet(freeList[k])) <=> \E i \in DOMAIN freeList[k] : freeList[k][i] = v
  BY DEF ToSet
<1>5. VectorTypes'
  <2>1. capacity' \in [Buffers -> Nat]
    BY <1>1, <1>2 DEF VectorTypes
  <2>2. \A l \in Buckets : Len(freeList'[l]) <= MaxPerBucket
    <3>1. Len(freeList'[k]) <= MaxPerBucket
      BY <1>3, BucketAssumption
    <3>2. QED
      BY <1>1, <1>3, <3>1 DEF VectorTypes
  <2>3. QED
    BY <1>1, <1>2, <1>3, <2>1, <2>2 DEF VectorTypes
<1>6. \A v \in Buffers : lent[v] # {} => capacity'[v] = capacity[v]
  BY <1>1, <1>2, <1>4 DEF VectorsPlaced
<1>7. LargeEnough'
  BY <1>1, <1>2, <1>6 DEF LargeEnough
<1>8. VectorsPlaced'
  <2> SUFFICES ASSUME NEW w \in Buffers
               PROVE  /\ \A a, b \in Buckets : \A i \in DOMAIN freeList'[a], j \in DOMAIN freeList'[b] :
                           freeList'[a][i] = w /\ freeList'[b][j] = w => a = b /\ i = j
                      /\ \A a \in Buckets : \A i \in DOMAIN freeList'[a] :
                           freeList'[a][i] = w => capacity'[w] # 0 /\ lent'[w] = {}
                      /\ capacity'[w] # 0 =>
                           \/ lent'[w] # {}
                           \/ \E a \in Buckets : \E i \in DOMAIN freeList'[a] : freeList'[a][i] = w
                      /\ lent'[w] # {} => capacity'[w] # 0
    BY DEF VectorsPlaced
  <2>1. \A a \in Buckets : \A i \in DOMAIN freeList'[a] :
          a # k /\ i \in DOMAIN freeList[a] /\ freeList'[a][i] = freeList[a][i]
    BY <1>3
  <2>2. CASE w \in ToSet(freeList[k])
    <3>1. capacity'[w] = 0 /\ lent[w] = {}
      BY <1>1, <1>2, <1>4, <2>2 DEF VectorsPlaced
    <3>2. \A a \in Buckets : \A i \in DOMAIN freeList'[a] : freeList'[a][i] # w
      BY <1>1, <1>4, <2>1, <2>2 DEF VectorsPlaced
    <3>3. QED
      BY <1>2, <3>1, <3>2
  <2>3. CASE w \notin ToSet(freeList[k])
    <3>1. capacity'[w] = capacity[w]
      BY <1>2, <2>3
    <3>2. \A a \in Buckets : \A i \in DOMAIN freeList[a] :
            freeList[a][i] = w => i \in DOMAIN freeList'[a] /\ freeList'[a][i] = w
      BY <1>3, <1>4, <2>3
    <3>3. QED
      BY <1>1, <1>2, <2>1, <3>1, <3>2 DEF VectorsPlaced
  <2>4. QED
    BY <2>2, <2>3
<1>9. QED
  BY <1>5, <1>7, <1>8 DEF VectorInv

LEMMA VectorInvStep == VectorInv /\ [BucketsNext]_bucketVars => VectorInv'
<1> SUFFICES ASSUME VectorInv, [BucketsNext]_bucketVars PROVE VectorInv'
  OBVIOUS
<1>1. CASE UNCHANGED bucketVars
  <2>1. freeList' = freeList /\ capacity' = capacity /\ lent' = lent
    BY <1>1 DEF bucketVars
  <2>2. VectorTypes' /\ LargeEnough'
    BY <2>1 DEF VectorInv, VectorTypes, LargeEnough
  <2>3. VectorsPlaced'
    BY <2>1 DEF VectorInv, VectorsPlaced
  <2>4. QED
    BY <2>2, <2>3 DEF VectorInv
<1>2. QED
  BY <1>1, VectorInvAcquire, VectorInvGrow, VectorInvRelease, VectorInvClear DEF BucketsNext

\* A vector is in one free list, once, or held, or deleted, and a request that
\* fits the largest bucket gets a vector of its size (io_buffer_pool.cc:66).
THEOREM VectorsLent == BucketsSpec => []VectorsFit
<1>1. QED
  BY VectorInvInit, VectorInvStep, VectorInvFits, PTL DEF BucketsSpec
=============================================================================
