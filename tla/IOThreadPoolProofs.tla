------------------------- MODULE IOThreadPoolProofs -------------------------
(***************************************************************************)
(* Proofs about IOThreadPool, for any set of tasks, any number of workers  *)
(* and any number of clients.                                              *)
(***************************************************************************)
EXTENDS IOThreadPool, FiniteSetTheorems, TLAPS

\* Pushing a task adds it to the set of queued tasks, behind the others.
LEMMA AppendFacts ==
  ASSUME NEW S, NEW s \in Seq(S), NEW e \in S
  PROVE  /\ Append(s, e) \in Seq(S)
         /\ Len(Append(s, e)) = Len(s) + 1
         /\ DOMAIN Append(s, e) = 1 .. Len(s) + 1
         /\ \A i \in 1 .. Len(s) : Append(s, e)[i] = s[i]
         /\ Append(s, e)[Len(s) + 1] = e
  OBVIOUS

\* Popping the front task shifts the others by one place.
LEMMA TailFacts ==
  ASSUME NEW S, NEW s \in Seq(S), s # <<>>
  PROVE  /\ Tail(s) \in Seq(S)
         /\ Head(s) \in S
         /\ Head(s) = s[1]
         /\ Len(Tail(s)) = Len(s) - 1
         /\ Len(s) >= 1
         /\ DOMAIN Tail(s) = 1 .. Len(s) - 1
         /\ \A i \in 1 .. Len(s) - 1 : Tail(s)[i] = s[i + 1]
  OBVIOUS

\* Type correctness: a worker that finishes holds a task.
LEMMA TypeStep == TypeOK /\ Holding /\ [Next]_vars => TypeOK'
<1> SUFFICES ASSUME TypeOK, Holding, [Next]_vars PROVE TypeOK'
  OBVIOUS
<1>1. CASE Start
  BY <1>1 DEF TypeOK, Start
<1>2. CASE StopBegin
  BY <1>2 DEF TypeOK, StopBegin
<1>3. CASE StopNotify
  BY <1>3 DEF TypeOK, StopNotify
<1>4. CASE StopJoin
  BY <1>4 DEF TypeOK, StopJoin
<1>5. CASE StopDrain
  <2>1. Queued \subseteq Tasks
    BY DEF TypeOK, Queued
  <2>2. tasks' \in Seq(Tasks)
    BY <1>5 DEF StopDrain
  <2>3. QED
    BY <1>5, <2>1, <2>2 DEF TypeOK, StopDrain
<1>6. ASSUME NEW th \in Threads, NEW t \in Tasks, Push(th, t)
      PROVE  TypeOK'
  BY <1>6, AppendFacts DEF TypeOK, Push
<1>7. ASSUME NEW th \in Threads, NotifyOne(th)
      PROVE  TypeOK'
  BY <1>7 DEF TypeOK, NotifyOne, InState
<1>8. ASSUME NEW w \in Workers, WorkerWait(w)
      PROVE  TypeOK'
  BY <1>8 DEF TypeOK, WorkerWait
<1>9. ASSUME NEW w \in Workers, WorkerExit(w)
      PROVE  TypeOK'
  BY <1>9 DEF TypeOK, WorkerExit
<1>10. ASSUME NEW w \in Workers, WorkerTake(w)
       PROVE  TypeOK'
  BY <1>10, TailFacts DEF TypeOK, WorkerTake
<1>11. ASSUME NEW w \in Workers, WorkerDone(w)
       PROVE  TypeOK'
  BY <1>11 DEF TypeOK, WorkerDone, Holding
<1>12. ASSUME NEW w \in Workers, SpuriousWake(w)
       PROVE  TypeOK'
  BY <1>12 DEF TypeOK, SpuriousWake
<1>13. CASE UNCHANGED vars
  BY <1>13 DEF TypeOK, vars
<1>14. QED
  BY <1>1, <1>2, <1>3, <1>4, <1>5, <1>6, <1>7, <1>8, <1>9, <1>10, <1>11,
     <1>12, <1>13 DEF Next, Stop, Enqueue, WorkerLoop

\* Start and Stop keep the flags, the owner and the worker threads in step.
LEMMA LifecycleStep == TypeOK /\ Lifecycle /\ [Next]_vars => Lifecycle'
<1> SUFFICES ASSUME TypeOK, Lifecycle, [Next]_vars PROVE Lifecycle'
  OBVIOUS
<1>1. CASE Start
  BY <1>1 DEF TypeOK, Lifecycle, Start
<1>2. CASE StopBegin
  BY <1>2 DEF TypeOK, Lifecycle, StopBegin
<1>3. CASE StopNotify
  BY <1>3 DEF TypeOK, Lifecycle, StopNotify
<1>4. CASE StopJoin
  BY <1>4 DEF TypeOK, Lifecycle, StopJoin
<1>5. CASE StopDrain
  BY <1>5 DEF TypeOK, Lifecycle, StopDrain
<1>6. ASSUME NEW th \in Threads, NEW t \in Tasks, Push(th, t)
      PROVE  Lifecycle'
  BY <1>6 DEF TypeOK, Lifecycle, Push
<1>7. ASSUME NEW th \in Threads, NotifyOne(th)
      PROVE  Lifecycle'
  BY <1>7 DEF TypeOK, Lifecycle, NotifyOne, InState
<1>8. ASSUME NEW w \in Workers, WorkerWait(w)
      PROVE  Lifecycle'
  BY <1>8 DEF TypeOK, Lifecycle, WorkerWait
<1>9. ASSUME NEW w \in Workers, WorkerExit(w)
      PROVE  Lifecycle'
  BY <1>9 DEF TypeOK, Lifecycle, WorkerExit
<1>10. ASSUME NEW w \in Workers, WorkerTake(w)
       PROVE  Lifecycle'
  BY <1>10 DEF TypeOK, Lifecycle, WorkerTake
<1>11. ASSUME NEW w \in Workers, WorkerDone(w)
       PROVE  Lifecycle'
  BY <1>11 DEF TypeOK, Lifecycle, WorkerDone
<1>12. ASSUME NEW w \in Workers, SpuriousWake(w)
       PROVE  Lifecycle'
  BY <1>12 DEF TypeOK, Lifecycle, SpuriousWake
<1>13. CASE UNCHANGED vars
  BY <1>13 DEF TypeOK, Lifecycle, vars
<1>14. QED
  BY <1>1, <1>2, <1>3, <1>4, <1>5, <1>6, <1>7, <1>8, <1>9, <1>10, <1>11,
     <1>12, <1>13 DEF Next, Stop, Enqueue, WorkerLoop

\* A worker holds a task exactly while it runs one.
LEMMA HoldingStep == TypeOK /\ Holding /\ Lifecycle /\ [Next]_vars => Holding'
<1> SUFFICES ASSUME TypeOK, Holding, Lifecycle, [Next]_vars PROVE Holding'
  OBVIOUS
<1>1. CASE Start
  BY <1>1 DEF TypeOK, Holding, Lifecycle, Start
<1>2. CASE StopBegin
  BY <1>2 DEF TypeOK, Holding, Lifecycle, StopBegin
<1>3. CASE StopNotify
  BY <1>3 DEF TypeOK, Holding, Lifecycle, StopNotify
<1>4. CASE StopJoin
  BY <1>4 DEF TypeOK, Holding, Lifecycle, StopJoin
<1>5. CASE StopDrain
  BY <1>5 DEF TypeOK, Holding, Lifecycle, StopDrain
<1>6. ASSUME NEW th \in Threads, NEW t \in Tasks, Push(th, t)
      PROVE  Holding'
  BY <1>6 DEF TypeOK, Holding, Lifecycle, Push
<1>7. ASSUME NEW th \in Threads, NotifyOne(th)
      PROVE  Holding'
  BY <1>7 DEF TypeOK, Holding, NotifyOne, InState
<1>8. ASSUME NEW w \in Workers, WorkerWait(w)
      PROVE  Holding'
  BY <1>8 DEF TypeOK, Holding, Lifecycle, WorkerWait
<1>9. ASSUME NEW w \in Workers, WorkerExit(w)
      PROVE  Holding'
  BY <1>9 DEF TypeOK, Holding, Lifecycle, WorkerExit
<1>10. ASSUME NEW w \in Workers, WorkerTake(w)
       PROVE  Holding'
  BY <1>10, TailFacts, NoTaskAssumption DEF TypeOK, Holding, WorkerTake
<1>11. ASSUME NEW w \in Workers, WorkerDone(w)
       PROVE  Holding'
  BY <1>11 DEF TypeOK, Holding, Lifecycle, WorkerDone
<1>12. ASSUME NEW w \in Workers, SpuriousWake(w)
       PROVE  Holding'
  BY <1>12 DEF TypeOK, Holding, Lifecycle, SpuriousWake
<1>13. CASE UNCHANGED vars
  BY <1>13 DEF TypeOK, Holding, Lifecycle, vars
<1>14. QED
  BY <1>1, <1>2, <1>3, <1>4, <1>5, <1>6, <1>7, <1>8, <1>9, <1>10, <1>11,
     <1>12, <1>13 DEF Next, Stop, Enqueue, WorkerLoop

\* Tasks are only moved between the queue, the workers and the history.
LEMMA KnownStep == TypeOK /\ Holding /\ Known /\ [Next]_vars => Known'
<1> SUFFICES ASSUME TypeOK, Holding, Known, [Next]_vars PROVE Known'
  OBVIOUS
<1>1. CASE Start
  BY <1>1 DEF TypeOK, Known, Queued, Start
<1>2. CASE StopBegin
  BY <1>2 DEF TypeOK, Known, Queued, StopBegin
<1>3. CASE StopNotify
  BY <1>3 DEF TypeOK, Known, Queued, StopNotify
<1>4. CASE StopJoin
  BY <1>4 DEF TypeOK, Known, Queued, StopJoin
<1>5. CASE StopDrain
  BY <1>5 DEF TypeOK, Known, Queued, StopDrain
<1>6. ASSUME NEW th \in Threads, NEW t \in Tasks, Push(th, t)
      PROVE  Known'
  BY <1>6, AppendFacts DEF TypeOK, Known, Queued, Push
<1>7. ASSUME NEW th \in Threads, NotifyOne(th)
      PROVE  Known'
  BY <1>7 DEF TypeOK, Known, Queued, NotifyOne
<1>8. ASSUME NEW w \in Workers, WorkerWait(w)
      PROVE  Known'
  BY <1>8 DEF TypeOK, Known, Queued, WorkerWait
<1>9. ASSUME NEW w \in Workers, WorkerExit(w)
      PROVE  Known'
  BY <1>9 DEF TypeOK, Known, Queued, WorkerExit
<1>10. ASSUME NEW w \in Workers, WorkerTake(w)
       PROVE  Known'
  BY <1>10, TailFacts DEF TypeOK, Known, Queued, WorkerTake
<1>11. ASSUME NEW w \in Workers, WorkerDone(w)
       PROVE  Known'
  BY <1>11 DEF TypeOK, Holding, Known, Queued, WorkerDone
<1>12. ASSUME NEW w \in Workers, SpuriousWake(w)
       PROVE  Known'
  BY <1>12 DEF TypeOK, Known, Queued, SpuriousWake
<1>13. CASE UNCHANGED vars
  BY <1>13 DEF TypeOK, Known, Queued, vars
<1>14. QED
  BY <1>1, <1>2, <1>3, <1>4, <1>5, <1>6, <1>7, <1>8, <1>9, <1>10, <1>11,
     <1>12, <1>13 DEF Next, Stop, Enqueue, WorkerLoop

\* StopDrain runs with no worker left, when everything queued is late.
LEMMA DropsStep == TypeOK /\ Lifecycle /\ LateTasks /\ DropsOnlyLate /\ [Next]_vars => DropsOnlyLate'
<1> SUFFICES ASSUME TypeOK, Lifecycle, LateTasks, DropsOnlyLate, [Next]_vars PROVE DropsOnlyLate'
  OBVIOUS
<1>1. CASE Start
  BY <1>1 DEF DropsOnlyLate, Start
<1>2. CASE StopBegin
  BY <1>2 DEF DropsOnlyLate, StopBegin
<1>3. CASE StopNotify
  BY <1>3 DEF DropsOnlyLate, StopNotify
<1>4. CASE StopJoin
  BY <1>4 DEF DropsOnlyLate, StopJoin
<1>5. CASE StopDrain
  BY <1>5 DEF TypeOK, Lifecycle, LateTasks, NoWorker, DropsOnlyLate, StopDrain
<1>6. ASSUME NEW th \in Threads, NEW t \in Tasks, Push(th, t)
      PROVE  DropsOnlyLate'
  BY <1>6 DEF DropsOnlyLate, Push
<1>7. ASSUME NEW th \in Threads, NotifyOne(th)
      PROVE  DropsOnlyLate'
  BY <1>7 DEF DropsOnlyLate, NotifyOne
<1>8. ASSUME NEW w \in Workers, WorkerWait(w)
      PROVE  DropsOnlyLate'
  BY <1>8 DEF DropsOnlyLate, WorkerWait
<1>9. ASSUME NEW w \in Workers, WorkerExit(w)
      PROVE  DropsOnlyLate'
  BY <1>9 DEF DropsOnlyLate, WorkerExit
<1>10. ASSUME NEW w \in Workers, WorkerTake(w)
       PROVE  DropsOnlyLate'
  BY <1>10 DEF DropsOnlyLate, WorkerTake
<1>11. ASSUME NEW w \in Workers, WorkerDone(w)
       PROVE  DropsOnlyLate'
  BY <1>11 DEF DropsOnlyLate, WorkerDone
<1>12. ASSUME NEW w \in Workers, SpuriousWake(w)
       PROVE  DropsOnlyLate'
  BY <1>12 DEF DropsOnlyLate, SpuriousWake
<1>13. CASE UNCHANGED vars
  BY <1>13 DEF DropsOnlyLate, vars
<1>14. QED
  BY <1>1, <1>2, <1>3, <1>4, <1>5, <1>6, <1>7, <1>8, <1>9, <1>10, <1>11,
     <1>12, <1>13 DEF Next, Stop, Enqueue, WorkerLoop

\* No worker falls asleep while stopping_ is set.
LEMMA StopWakesStep == TypeOK /\ Lifecycle /\ StopWakesAll /\ [Next]_vars => StopWakesAll'
<1> SUFFICES ASSUME TypeOK, Lifecycle, StopWakesAll, [Next]_vars PROVE StopWakesAll'
  OBVIOUS
<1>1. CASE Start
  BY <1>1 DEF TypeOK, Lifecycle, StopWakesAll, InState, Start
<1>2. CASE StopBegin
  BY <1>2 DEF TypeOK, Lifecycle, StopWakesAll, InState, StopBegin
<1>3. CASE StopNotify
  BY <1>3 DEF TypeOK, Lifecycle, StopWakesAll, InState, StopNotify
<1>4. CASE StopJoin
  BY <1>4 DEF TypeOK, Lifecycle, StopWakesAll, InState, StopJoin
<1>5. CASE StopDrain
  BY <1>5 DEF TypeOK, Lifecycle, StopWakesAll, InState, StopDrain
<1>6. ASSUME NEW th \in Threads, NEW t \in Tasks, Push(th, t)
      PROVE  StopWakesAll'
  BY <1>6 DEF TypeOK, Lifecycle, StopWakesAll, InState, Push
<1>7. ASSUME NEW th \in Threads, NotifyOne(th)
      PROVE  StopWakesAll'
  BY <1>7 DEF TypeOK, Lifecycle, StopWakesAll, InState, NotifyOne
<1>8. ASSUME NEW w \in Workers, WorkerWait(w)
      PROVE  StopWakesAll'
  BY <1>8 DEF TypeOK, Lifecycle, StopWakesAll, InState, WorkerWait
<1>9. ASSUME NEW w \in Workers, WorkerExit(w)
      PROVE  StopWakesAll'
  BY <1>9 DEF TypeOK, Lifecycle, StopWakesAll, InState, WorkerExit
<1>10. ASSUME NEW w \in Workers, WorkerTake(w)
       PROVE  StopWakesAll'
  BY <1>10 DEF TypeOK, Lifecycle, StopWakesAll, InState, WorkerTake
<1>11. ASSUME NEW w \in Workers, WorkerDone(w)
       PROVE  StopWakesAll'
  BY <1>11 DEF TypeOK, Lifecycle, StopWakesAll, InState, WorkerDone
<1>12. ASSUME NEW w \in Workers, SpuriousWake(w)
       PROVE  StopWakesAll'
  BY <1>12 DEF TypeOK, Lifecycle, StopWakesAll, InState, SpuriousWake
<1>13. CASE UNCHANGED vars
  BY <1>13 DEF TypeOK, Lifecycle, StopWakesAll, InState, vars
<1>14. QED
  BY <1>1, <1>2, <1>3, <1>4, <1>5, <1>6, <1>7, <1>8, <1>9, <1>10, <1>11,
     <1>12, <1>13 DEF Next, Stop, Enqueue, WorkerLoop

\* Only tasks pushed when no worker is left are late, and they stay in the
\* queue until StopDrain: neither a worker nor Start can come before it.
LEMMA LateTasksStep == TypeOK /\ Lifecycle /\ Holding /\ Known /\ LateTasks /\ [Next]_vars => LateTasks'
<1> SUFFICES ASSUME TypeOK, Lifecycle, Holding, Known, LateTasks, [Next]_vars PROVE LateTasks'
  OBVIOUS
<1>1. CASE Start
  BY <1>1, WorkersAssumption DEF TypeOK, Lifecycle, LateTasks, Queued, NoWorker, Start
<1>2. CASE StopBegin
  BY <1>2 DEF TypeOK, Lifecycle, LateTasks, Queued, NoWorker, StopBegin
<1>3. CASE StopNotify
  BY <1>3 DEF TypeOK, Lifecycle, LateTasks, Queued, NoWorker, StopNotify
<1>4. CASE StopJoin
  BY <1>4 DEF TypeOK, Lifecycle, LateTasks, Queued, NoWorker, StopJoin
<1>5. CASE StopDrain
  <2>1. Queued' = {}
    BY <1>5 DEF StopDrain, Queued
  <2>2. QED
    BY <1>5, <2>1 DEF TypeOK, Lifecycle, LateTasks, NoWorker, StopDrain
<1>6. ASSUME NEW th \in Threads, NEW t \in Tasks, Push(th, t)
      PROVE  LateTasks'
  <2>1. Queued' = Queued \cup {t}
    BY <1>6, AppendFacts DEF TypeOK, Queued, Push
  <2>2. t \notin submitted /\ (started /\ NoWorker <=> started' /\ NoWorker')
    BY <1>6 DEF Push, NoWorker
  <2>3. \A w \in Workers : running'[w] \notin late'
    BY <1>6, <2>2, NoTaskAssumption DEF Known, LateTasks, Push
  <2>4. late' \cap done' = {}
    BY <1>6, <2>2 DEF Known, LateTasks, Push
  <2>5. QED
    BY <1>6, <2>1, <2>2, <2>3, <2>4 DEF Known, LateTasks, Push
<1>7. ASSUME NEW th \in Threads, NotifyOne(th)
      PROVE  LateTasks'
  BY <1>7 DEF TypeOK, Lifecycle, LateTasks, Queued, NoWorker, NotifyOne, InState
<1>8. ASSUME NEW w \in Workers, WorkerWait(w)
      PROVE  LateTasks'
  BY <1>8 DEF TypeOK, Lifecycle, LateTasks, Queued, NoWorker, WorkerWait
<1>9. ASSUME NEW w \in Workers, WorkerExit(w)
      PROVE  LateTasks'
  BY <1>9 DEF TypeOK, Lifecycle, LateTasks, Queued, NoWorker, WorkerExit
<1>10. ASSUME NEW w \in Workers, WorkerTake(w)
       PROVE  LateTasks'
  <2>1. ~NoWorker /\ ~NoWorker'
    BY <1>10 DEF TypeOK, NoWorker, WorkerTake
  <2>2. Queued' \subseteq Queued /\ Head(tasks) \in Queued
    BY <1>10, TailFacts DEF TypeOK, Queued, WorkerTake
  <2>3. QED
    BY <1>10, <2>1, <2>2 DEF TypeOK, LateTasks, WorkerTake
<1>11. ASSUME NEW w \in Workers, WorkerDone(w)
       PROVE  LateTasks'
  <2>1. ~NoWorker /\ ~NoWorker' /\ Queued' = Queued
    BY <1>11 DEF TypeOK, NoWorker, Queued, WorkerDone
  <2>2. Queued \cap late = {}
    BY <2>1 DEF LateTasks
  <2>3. late' \cap done' = {}
    BY <1>11 DEF LateTasks, WorkerDone
  <2>4. \A v \in Workers : running'[v] \notin late'
    BY <1>11, NoTaskAssumption DEF TypeOK, LateTasks, WorkerDone
  <2>5. QED
    BY <1>11, <2>1, <2>2, <2>3, <2>4 DEF LateTasks, WorkerDone
<1>12. ASSUME NEW w \in Workers, SpuriousWake(w)
       PROVE  LateTasks'
  BY <1>12 DEF TypeOK, Lifecycle, LateTasks, Queued, NoWorker, SpuriousWake
<1>13. CASE UNCHANGED vars
  BY <1>13 DEF TypeOK, Lifecycle, LateTasks, Queued, NoWorker, vars
<1>14. QED
  BY <1>1, <1>2, <1>3, <1>4, <1>5, <1>6, <1>7, <1>8, <1>9, <1>10, <1>11,
     <1>12, <1>13 DEF Next, Stop, Enqueue, WorkerLoop

\* Each action moves a task from one place to the next, or moves none.
LEMMA OnePlaceStep == TypeOK /\ Lifecycle /\ Holding /\ Known /\ ExactlyOnePlace /\ [Next]_vars => ExactlyOnePlace'
<1> SUFFICES ASSUME TypeOK, Lifecycle, Holding, Known, ExactlyOnePlace, [Next]_vars PROVE ExactlyOnePlace'
  OBVIOUS
<1>1. CASE Start
  BY <1>1 DEF TypeOK, Known, ExactlyOnePlace, Queued, Start
<1>2. CASE StopBegin
  BY <1>2 DEF TypeOK, Known, ExactlyOnePlace, Queued, StopBegin
<1>3. CASE StopNotify
  BY <1>3 DEF TypeOK, Known, ExactlyOnePlace, Queued, StopNotify
<1>4. CASE StopJoin
  BY <1>4 DEF TypeOK, Known, ExactlyOnePlace, Queued, StopJoin
<1>5. CASE StopDrain
  <2>1. Queued' = {} /\ DOMAIN tasks' = {}
    BY <1>5 DEF StopDrain, Queued
  <2>2. running' = running /\ done' = done /\ submitted' = submitted /\ dropped' = dropped \cup Queued
    BY <1>5 DEF StopDrain
  <2>3. QED
    BY <2>1, <2>2 DEF ExactlyOnePlace
<1>6. ASSUME NEW th \in Threads, NEW t \in Tasks, Push(th, t)
      PROVE  ExactlyOnePlace'
  <2>1. Queued' = Queued \cup {t}
    BY <1>6, AppendFacts DEF TypeOK, Queued, Push
  <2>2. t \notin Queued \cup done \cup dropped /\ \A w \in Workers : running[w] # t
    BY <1>6, NoTaskAssumption DEF Known, Push
  <2>3. \A i, j \in DOMAIN tasks' : tasks'[i] = tasks'[j] => i = j
    BY <1>6, <2>2, AppendFacts DEF TypeOK, Queued, Push, ExactlyOnePlace
  <2>4. /\ running' = running /\ done' = done /\ dropped' = dropped
        /\ submitted' = submitted \cup {t}
    BY <1>6 DEF Push
  <2>5. QED
    BY <2>1, <2>2, <2>3, <2>4 DEF ExactlyOnePlace
<1>7. ASSUME NEW th \in Threads, NotifyOne(th)
      PROVE  ExactlyOnePlace'
  BY <1>7 DEF TypeOK, Known, ExactlyOnePlace, Queued, NotifyOne, InState
<1>8. ASSUME NEW w \in Workers, WorkerWait(w)
      PROVE  ExactlyOnePlace'
  BY <1>8 DEF TypeOK, Known, ExactlyOnePlace, Queued, WorkerWait
<1>9. ASSUME NEW w \in Workers, WorkerExit(w)
      PROVE  ExactlyOnePlace'
  BY <1>9 DEF TypeOK, Known, ExactlyOnePlace, Queued, WorkerExit
<1>10. ASSUME NEW w \in Workers, WorkerTake(w)
       PROVE  ExactlyOnePlace'
  <2>a. /\ tasks # <<>> /\ tasks \in Seq(Tasks) /\ tasks' = Tail(tasks)
        /\ DOMAIN tasks = 1 .. Len(tasks) /\ Len(tasks) \in Nat
    BY <1>10 DEF TypeOK, WorkerTake
  <2>b. /\ Head(tasks) = tasks[1] /\ Len(tasks) >= 1
        /\ DOMAIN tasks' = 1 .. Len(tasks) - 1
        /\ \A i \in 1 .. Len(tasks) - 1 : tasks'[i] = tasks[i + 1]
    BY <2>a, TailFacts
  <2>c. \A i, j \in 1 .. Len(tasks) : tasks[i] = tasks[j] => i = j
    BY <2>a DEF ExactlyOnePlace
  <2>d. \A i, j \in DOMAIN tasks' : tasks'[i] = tasks'[j] => i = j
    BY <2>a, <2>b, <2>c
  <2>e. ASSUME NEW x PROVE x \in Queued' <=> x \in Queued /\ x # Head(tasks)
    <3>1. ASSUME x \in Queued' PROVE x \in Queued /\ x # Head(tasks)
      <4>1. PICK i \in 1 .. Len(tasks) - 1 : x = tasks[i + 1]
        BY <3>1, <2>b DEF Queued
      <4>2. i + 1 \in 1 .. Len(tasks) /\ i + 1 # 1 /\ 1 \in 1 .. Len(tasks)
        BY <2>a, <2>b, <4>1
      <4>3. QED
        BY <4>1, <4>2, <2>a, <2>b, <2>c DEF Queued
    <3>2. ASSUME x \in Queued, x # Head(tasks) PROVE x \in Queued'
      <4>1. PICK i \in 1 .. Len(tasks) : x = tasks[i]
        BY <3>2, <2>a DEF Queued
      <4>2. i # 1 /\ i - 1 \in 1 .. Len(tasks) - 1 /\ (i - 1) + 1 = i
        BY <3>2, <4>1, <2>a, <2>b
      <4>3. tasks'[i - 1] = x /\ i - 1 \in DOMAIN tasks'
        BY <4>1, <4>2, <2>b
      <4>4. QED
        BY <4>3 DEF Queued
    <3>3. QED
      BY <3>1, <3>2
  <2>f. Head(tasks) \in Queued
    BY <2>a, <2>b DEF Queued
  <2>1. /\ Head(tasks) \in Queued
        /\ Queued' = Queued \ {Head(tasks)}
        /\ \A i, j \in DOMAIN tasks' : tasks'[i] = tasks'[j] => i = j
    BY <2>d, <2>e, <2>f
  <2>2. running[w] = NoTask /\ Head(tasks) \in Tasks
    BY <1>10, TailFacts DEF TypeOK, Holding, WorkerTake
  <2>3. /\ running' = [running EXCEPT ![w] = Head(tasks)]
        /\ done' = done /\ dropped' = dropped /\ submitted' = submitted
    BY <1>10 DEF WorkerTake
  <2>4. \A v \in Workers : running'[v] = IF v = w THEN Head(tasks) ELSE running[v]
    BY <2>3 DEF TypeOK
  <2>5. \A v \in Workers : running'[v] \notin Queued' \cup done' \cup dropped'
    BY <2>1, <2>3, <2>4 DEF ExactlyOnePlace
  <2>6. \A u, v \in Workers : running'[u] = running'[v] /\ running'[u] # NoTask => u = v
    BY <2>1, <2>4 DEF ExactlyOnePlace
  <2>7. \A t \in submitted' : \/ t \in Queued' \cup done' \cup dropped'
                               \/ \E v \in Workers : running'[v] = t
    BY <2>1, <2>2, <2>3, <2>4, NoTaskAssumption DEF ExactlyOnePlace, Known, TypeOK
  <2>8. QED
    BY <2>1, <2>3, <2>5, <2>6, <2>7 DEF ExactlyOnePlace
<1>11. ASSUME NEW w \in Workers, WorkerDone(w)
       PROVE  ExactlyOnePlace'
  <2>1. running[w] \in Tasks
    BY <1>11 DEF TypeOK, Holding, WorkerDone
  <2>2. /\ Queued' = Queued /\ tasks' = tasks /\ done' = done \cup {running[w]}
        /\ dropped' = dropped /\ submitted' = submitted
    BY <1>11 DEF WorkerDone, Queued
  <2>3. \A v \in Workers : running'[v] = IF v = w THEN NoTask ELSE running[v]
    BY <1>11 DEF TypeOK, WorkerDone
  <2>4. NoTask \notin Queued' \cup done' \cup dropped'
    BY <2>1, <2>2, NoTaskAssumption DEF TypeOK, Queued
  <2>5. \A v \in Workers : running'[v] \notin Queued' \cup done' \cup dropped'
    BY <2>1, <2>2, <2>3, <2>4, NoTaskAssumption DEF ExactlyOnePlace
  <2>6. \A t \in submitted' : \/ t \in Queued' \cup done' \cup dropped'
                               \/ \E v \in Workers : running'[v] = t
    BY <2>2, <2>3 DEF ExactlyOnePlace
  <2>7. QED
    BY <2>1, <2>2, <2>3, <2>5, <2>6 DEF ExactlyOnePlace
<1>12. ASSUME NEW w \in Workers, SpuriousWake(w)
       PROVE  ExactlyOnePlace'
  BY <1>12 DEF TypeOK, Known, ExactlyOnePlace, Queued, SpuriousWake
<1>13. CASE UNCHANGED vars
  BY <1>13 DEF TypeOK, Known, ExactlyOnePlace, Queued, vars
<1>14. QED
  BY <1>1, <1>2, <1>3, <1>4, <1>5, <1>6, <1>7, <1>8, <1>9, <1>10, <1>11,
     <1>12, <1>13 DEF Next, Stop, Enqueue, WorkerLoop

\* The sets NoLostWakeup counts are finite.
LEMMA CountsFinite ==
  ASSUME TypeOK
  PROVE  /\ IsFiniteSet(Threads)
         /\ IsFiniteSet(notifying) /\ Cardinality(notifying) \in Nat
         /\ IsFiniteSet(InState("ready")) /\ Cardinality(InState("ready")) \in Nat
<1>1. IsFiniteSet(Threads)
  BY WorkersAssumption, ClientsAssumption, FS_Union DEF Threads
<1>2. IsFiniteSet(notifying) /\ Cardinality(notifying) \in Nat
  BY <1>1, FS_Subset, FS_CardinalityType DEF TypeOK
<1>3. IsFiniteSet(InState("ready")) /\ Cardinality(InState("ready")) \in Nat
  BY WorkersAssumption, FS_Subset, FS_CardinalityType DEF InState
<1>4. QED
  BY <1>1, <1>2, <1>3

\* A push is paid for by the notify_one that follows it, a wakeup by the worker
\* it makes ready, and a worker sleeps only when the queue is empty.
LEMMA NoLostWakeupStep == TypeOK /\ Lifecycle /\ NoLostWakeup /\ [Next]_vars => NoLostWakeup'
<1> SUFFICES ASSUME TypeOK, Lifecycle, NoLostWakeup, [Next]_vars PROVE NoLostWakeup'
  OBVIOUS
<1>1. CASE Start
  BY <1>1 DEF NoLostWakeup, InState, Start
<1>2. CASE StopBegin
  BY <1>2 DEF NoLostWakeup, InState, StopBegin
<1>3. CASE StopNotify
  BY <1>3 DEF NoLostWakeup, InState, StopNotify
<1>4. CASE StopJoin
  BY <1>4 DEF NoLostWakeup, InState, StopJoin
<1>5. CASE StopDrain
  <2>1. InState("waiting")' = {}
    BY <1>5 DEF Lifecycle, InState, StopDrain
  <2>2. QED
    BY <2>1 DEF NoLostWakeup
<1>6. ASSUME NEW th \in Threads, NEW t \in Tasks, Push(th, t)
      PROVE  NoLostWakeup'
  <2>1. /\ Len(tasks') = Len(tasks) + 1 /\ Len(tasks) \in Nat
        /\ \A s : InState(s)' = InState(s)
    BY <1>6, AppendFacts DEF TypeOK, Push, InState
  <2>2. Cardinality(notifying') = Cardinality(notifying) + 1
    BY <1>6, CountsFinite, FS_AddElement DEF Push
  <2>3. QED
    BY <2>1, <2>2, CountsFinite DEF NoLostWakeup
<1>7. ASSUME NEW th \in Threads, NotifyOne(th)
      PROVE  NoLostWakeup'
  <2>1. Cardinality(notifying') = Cardinality(notifying) - 1 /\ tasks' = tasks
    BY <1>7, CountsFinite, FS_RemoveElement DEF NotifyOne
  <2>2. CASE InState("waiting") = {} /\ UNCHANGED wpc
    BY <2>2 DEF NoLostWakeup, InState
  <2>3. ASSUME NEW w \in InState("waiting"), wpc' = [wpc EXCEPT ![w] = "ready"]
        PROVE  NoLostWakeup'
    <3>1. InState("ready")' = InState("ready") \cup {w} /\ w \notin InState("ready")
      BY <2>3 DEF TypeOK, InState
    <3>2. Cardinality(InState("ready")') = Cardinality(InState("ready")) + 1
      BY <3>1, CountsFinite, FS_AddElement
    <3>3. InState("waiting") # {} /\ Len(tasks) \in Nat
      BY <2>3 DEF TypeOK
    <3>4. QED
      BY <2>1, <3>2, <3>3, CountsFinite DEF NoLostWakeup
  <2>4. QED
    BY <1>7, <2>2, <2>3 DEF NotifyOne
<1>8. ASSUME NEW w \in Workers, WorkerWait(w)
      PROVE  NoLostWakeup'
  <2>1. Len(tasks') = 0
    BY <1>8 DEF WorkerWait
  <2>2. TypeOK'
    BY <1>8 DEF WorkerWait, TypeOK
  <2>3. Cardinality(InState("ready")') \in Nat /\ Cardinality(notifying') \in Nat
    BY <2>2, FS_Subset, FS_CardinalityType, WorkersAssumption, CountsFinite DEF InState, TypeOK
  <2>4. QED
    BY <2>1, <2>3 DEF NoLostWakeup
<1>9. ASSUME NEW w \in Workers, WorkerExit(w)
      PROVE  NoLostWakeup'
  <2>1. Len(tasks') = 0
    BY <1>9 DEF WorkerExit
  <2>2. TypeOK'
    BY <1>9 DEF WorkerExit, TypeOK
  <2>3. Cardinality(InState("ready")') \in Nat /\ Cardinality(notifying') \in Nat
    BY <2>2, FS_Subset, FS_CardinalityType, WorkersAssumption, CountsFinite DEF InState, TypeOK
  <2>4. QED
    BY <2>1, <2>3 DEF NoLostWakeup
<1>10. ASSUME NEW w \in Workers, WorkerTake(w)
       PROVE  NoLostWakeup'
  <2>1. /\ Len(tasks') = Len(tasks) - 1 /\ Len(tasks) \in Nat
        /\ notifying' = notifying
    BY <1>10, TailFacts DEF TypeOK, WorkerTake
  <2>2. /\ InState("ready")' = InState("ready") \ {w} /\ w \in InState("ready")
        /\ InState("waiting")' = InState("waiting")
    BY <1>10 DEF TypeOK, InState, WorkerTake
  <2>3. Cardinality(InState("ready")') = Cardinality(InState("ready")) - 1
    BY <2>2, CountsFinite, FS_RemoveElement
  <2>4. QED
    BY <2>1, <2>2, <2>3, CountsFinite DEF NoLostWakeup
<1>11. ASSUME NEW w \in Workers, WorkerDone(w)
       PROVE  NoLostWakeup'
  <2>1. tasks' = tasks /\ notifying' = notifying /\ Len(tasks) \in Nat
    BY <1>11 DEF TypeOK, WorkerDone
  <2>2. /\ InState("ready")' = InState("ready") \cup {w} /\ w \notin InState("ready")
        /\ InState("waiting")' = InState("waiting")
    BY <1>11 DEF TypeOK, InState, WorkerDone
  <2>3. Cardinality(InState("ready")') = Cardinality(InState("ready")) + 1
    BY <2>2, CountsFinite, FS_AddElement
  <2>4. QED
    BY <2>1, <2>2, <2>3, CountsFinite DEF NoLostWakeup
<1>12. ASSUME NEW w \in Workers, SpuriousWake(w)
       PROVE  NoLostWakeup'
  <2>1. tasks' = tasks /\ notifying' = notifying /\ Len(tasks) \in Nat
    BY <1>12 DEF TypeOK, SpuriousWake
  <2>2. /\ InState("ready")' = InState("ready") \cup {w} /\ w \notin InState("ready")
        /\ InState("waiting") # {}
    BY <1>12 DEF TypeOK, InState, SpuriousWake
  <2>3. Cardinality(InState("ready")') = Cardinality(InState("ready")) + 1
    BY <2>2, CountsFinite, FS_AddElement
  <2>4. QED
    BY <2>1, <2>2, <2>3, CountsFinite DEF NoLostWakeup
<1>13. CASE UNCHANGED vars
  BY <1>13 DEF NoLostWakeup, InState, vars
<1>14. QED
  BY <1>1, <1>2, <1>3, <1>4, <1>5, <1>6, <1>7, <1>8, <1>9, <1>10, <1>11,
     <1>12, <1>13 DEF Next, Stop, Enqueue, WorkerLoop

\* The invariant holds initially ...
LEMMA IndInvInit == Init => IndInv
<1> SUFFICES ASSUME Init PROVE IndInv
  OBVIOUS
<1>0. tasks \in Seq(Tasks)
  BY DEF Init
<1>1. TypeOK
  BY <1>0 DEF Init, TypeOK
<1>2. Queued = {} /\ DOMAIN tasks = {}
  BY DEF Init, Queued
<1>3. InState("waiting") = {}
  BY DEF Init, InState
<1>4. Lifecycle /\ Holding /\ StopWakesAll /\ DropsOnlyLate
  BY DEF Init, Lifecycle, Holding, StopWakesAll, DropsOnlyLate
<1>5. Known /\ LateTasks
  BY <1>2, WorkersAssumption DEF Init, Known, LateTasks, NoWorker
<1>6. NoLostWakeup
  BY <1>3 DEF NoLostWakeup
<1>7. ExactlyOnePlace
  BY <1>2 DEF Init, ExactlyOnePlace
<1>8. QED
  BY <1>1, <1>4, <1>5, <1>6, <1>7 DEF IndInv

\* ... and every step preserves it.
LEMMA IndInvStep == IndInv /\ [Next]_vars => IndInv'
  BY TypeStep, LifecycleStep, HoldingStep, KnownStep, LateTasksStep, NoLostWakeupStep,
     StopWakesStep, OnePlaceStep, DropsStep DEF IndInv

\* The pool never leaves its inductive invariant.
THEOREM PoolInvariant == SafeSpec => []IndInv
  BY IndInvInit, IndInvStep, PTL DEF SafeSpec

\* Every variable of the pool keeps its type, for any number of workers.
THEOREM PoolTypeOK == SafeSpec => []TypeOK
<1>1. IndInv => TypeOK
  BY DEF IndInv
<1>2. QED
  BY <1>1, PoolInvariant, PTL

\* No notify_one of Enqueue is ever lost, for any number of workers and clients.
THEOREM PoolNoLostWakeup == SafeSpec => []NoLostWakeup
<1>1. IndInv => NoLostWakeup
  BY DEF IndInv
<1>2. QED
  BY <1>1, PoolInvariant, PTL

\* Stop leaves no worker asleep once it has called notify_all.
THEOREM PoolStopWakesAll == SafeSpec => []StopWakesAll
<1>1. IndInv => StopWakesAll
  BY DEF IndInv
<1>2. QED
  BY <1>1, PoolInvariant, PTL

\* Every task is in exactly one place, so none is run twice or runs after Stop
\* has dropped it.
THEOREM PoolExactlyOnePlace == SafeSpec => []ExactlyOnePlace
<1>1. IndInv => ExactlyOnePlace
  BY DEF IndInv
<1>2. QED
  BY <1>1, PoolInvariant, PTL

\* Stop drops only tasks enqueued after the last worker has left its loop.
THEOREM PoolDropsOnlyLate == SafeSpec => []DropsOnlyLate
<1>1. IndInv => DropsOnlyLate
  BY DEF IndInv
<1>2. QED
  BY <1>1, PoolInvariant, PTL

-----------------------------------------------------------------------------
(* The pool implements TaskService.                                        *)

\* The status of a task depends on the queue and on the history only.
LEMMA StatusCases ==
  ASSUME IndInv, NEW t \in Tasks
  PROVE  /\ t \in late => Status(t) = "lost"
         /\ t \in done => Status(t) = "done"
         /\ t \in Queued \ late => Status(t) = "queued"
         /\ t \notin submitted => Status(t) = "new"
         /\ Status(t) = "running" <=> \E w \in Workers : running[w] = t
<1>1. t \in late \cup done \cup Queued => t \in submitted
  BY DEF IndInv, Known
<1>2. ASSUME NEW w \in Workers, running[w] = t
      PROVE  t \in submitted /\ t \notin late \cup done \cup Queued
  BY <1>2, NoTaskAssumption DEF IndInv, Known, LateTasks, ExactlyOnePlace
<1>3. ASSUME t \in submitted, t \notin late \cup done \cup Queued
      PROVE  \E w \in Workers : running[w] = t
  BY <1>3 DEF IndInv, ExactlyOnePlace, DropsOnlyLate
<1>4. t \in done => t \notin late
  BY DEF IndInv, LateTasks
<1>5. t \in Queued => t \notin done
  BY DEF IndInv, ExactlyOnePlace
<1>6. QED
  BY <1>1, <1>2, <1>3, <1>4, <1>5 DEF Status

\* The constructor's state is the initial state of an open service.
LEMMA ServiceInit == Init => Service!Init
<1> SUFFICES ASSUME Init PROVE Service!Init
  OBVIOUS
<1>1. Queued = {}
  BY DEF Init, Queued
<1>2. QED
  BY <1>1 DEF Init, Service!Init, Status

\* Steps that move no task and leave the two flags alone are not seen.
LEMMA StatusSame ==
  ASSUME Queued' = Queued, UNCHANGED <<late, done, submitted>>, NEW t
  PROVE  Status(t)' = Status(t)
  BY DEF Status

\* Every step of the pool is a step of the service, or leaves it unchanged.
LEMMA ServiceStep == IndInv /\ IndInv' /\ [Next]_vars => [Service!Next]_(Service!vars)
<1> SUFFICES ASSUME IndInv, IndInv', [Next]_vars PROVE [Service!Next]_(Service!vars)
  OBVIOUS
<1> DEFINE St == [t \in Tasks |-> Status(t)]
           Sv == IF ~started THEN "closed" ELSE IF stopping THEN "closing" ELSE "open"
<1>a. ASSUME Queued' = Queued, UNCHANGED <<late, done, submitted>>
      PROVE  St' = St
  BY <1>a, StatusSame
<1>b. ASSUME NEW t \in Tasks, NEW x, Status(t)' = x,
             \A u \in Tasks \ {t} : Status(u)' = Status(u)
      PROVE  St' = [St EXCEPT ![t] = x]
  BY <1>b
<1>c. ASSUME started, stopping, NoWorker
      PROVE  \A u \in Tasks : Status(u) \notin {"queued", "running"}
  <2>1. ASSUME NEW u \in Tasks, Status(u) = "queued" PROVE FALSE
    <3>1. u \in Queued /\ u \notin late
      BY <2>1 DEF Status
    <3>2. QED
      BY <1>c, <3>1 DEF IndInv, LateTasks
  <2>2. ASSUME NEW u \in Tasks, Status(u) = "running" PROVE FALSE
    <3>1. PICK w \in Workers : running[w] = u
      BY <2>2, StatusCases
    <3>2. wpc[w] = "running"
      BY <3>1, NoTaskAssumption DEF IndInv, Holding
    <3>3. QED
      BY <1>c, <3>2 DEF NoWorker
  <2>3. QED
    BY <2>1, <2>2
<1>1. CASE Start
  <2>1. Queued' = Queued /\ St' = St
    BY <1>1, <1>a DEF Start, Queued
  <2>2. Sv = "closed" /\ Sv' = "open"
    BY <1>1 DEF Start
  <2>3. Service!Reopen
    BY <2>1, <2>2 DEF Service!Reopen
  <2>4. QED
    BY <2>3 DEF Service!Next
<1>2. CASE StopBegin
  <2>1. Queued' = Queued /\ St' = St
    BY <1>2, <1>a DEF StopBegin, Queued
  <2>2. Sv = "open" /\ Sv' = "closing"
    BY <1>2 DEF StopBegin, IndInv, Lifecycle
  <2>3. Service!Close
    BY <2>1, <2>2 DEF Service!Close
  <2>4. QED
    BY <2>3 DEF Service!Next
<1>3. CASE StopDrain
  <2>1. started /\ stopping /\ NoWorker
    BY <1>3 DEF StopDrain, IndInv, Lifecycle, NoWorker
  <2>2. Service!Idle
    BY <1>c, <2>1 DEF Service!Idle
  <2>3. Queued \subseteq late /\ Queued' = {}
    BY <1>3, <2>1 DEF IndInv, LateTasks, StopDrain, Queued
  <2>4. \A t \in Tasks : Status(t)' = Status(t)
    BY <1>3, <2>3 DEF Status, StopDrain
  <2>5. St' = St /\ Sv = "closing" /\ Sv' = "closed"
    BY <1>3, <2>1, <2>4 DEF StopDrain
  <2>6. Service!Closed
    BY <2>2, <2>5 DEF Service!Closed
  <2>7. QED
    BY <2>6 DEF Service!Next
<1>4. ASSUME NEW th \in Threads, NEW t \in Tasks, Push(th, t)
      PROVE  [Service!Next]_(Service!vars)
  <2>1. Queued' = Queued \cup {t}
    BY <1>4, AppendFacts DEF IndInv, TypeOK, Queued, Push
  <2>2. Status(t) = "new" /\ t \notin late /\ t \notin done
    BY <1>4, StatusCases DEF Push, IndInv, Known
  <2>3. \A u \in Tasks \ {t} : Status(u)' = Status(u)
    BY <1>4, <2>1 DEF Status, Push
  <2>4. Sv' = Sv
    BY <1>4 DEF Push
  <2>5. CASE started /\ NoWorker
    <3>1. stopping
      BY <2>5, WorkersAssumption DEF IndInv, Lifecycle, NoWorker
    <3>2. Status(t)' = "lost"
      BY <1>4, <2>5 DEF Push, Status
    <3>3. St' = [St EXCEPT ![t] = "lost"]
      BY <1>b, <2>3, <3>2
    <3>4. Service!Idle
      BY <1>c, <2>5, <3>1 DEF Service!Idle
    <3>5. Service!SubmitLost(t)
      BY <2>2, <2>4, <2>5, <3>1, <3>3, <3>4 DEF Service!SubmitLost
    <3>6. QED
      BY <3>5 DEF Service!Next
  <2>6. CASE ~(started /\ NoWorker)
    <3>1. Status(t)' = "queued"
      BY <1>4, <2>1, <2>2, <2>6 DEF Push, Status
    <3>2. St' = [St EXCEPT ![t] = "queued"]
      BY <1>b, <2>3, <3>1
    <3>3. Service!Submit(t)
      BY <2>2, <2>4, <3>2 DEF Service!Submit
    <3>4. QED
      BY <3>3 DEF Service!Next
  <2>7. QED
    BY <2>5, <2>6
<1>5. ASSUME NEW w \in Workers, WorkerTake(w)
      PROVE  [Service!Next]_(Service!vars)
  <2>a. Head(tasks) \in Tasks /\ Head(tasks) \in Queued /\ Queued' \subseteq Queued
    BY <1>5, TailFacts DEF IndInv, TypeOK, Queued, WorkerTake
  <2>b. PICK t \in Tasks : t = Head(tasks)
    BY <2>a
  <2>1. t \in Tasks /\ t \in Queued /\ Queued' \subseteq Queued
    BY <2>a, <2>b
  <2>2. started /\ ~NoWorker
    BY <1>5 DEF IndInv, Lifecycle, NoWorker, WorkerTake
  <2>3. Status(t) = "queued"
    BY <2>1, <2>2, StatusCases DEF IndInv, LateTasks
  <2>4. running'[w] = t /\ UNCHANGED <<late, done, submitted, started, stopping>>
    BY <1>5, <2>b DEF WorkerTake, IndInv, TypeOK
  <2>5. t \notin Queued' \cup late' \cup done' /\ t \in submitted'
    BY <2>1, <2>4, NoTaskAssumption DEF IndInv, ExactlyOnePlace, Known, LateTasks
  <2>6. Status(t)' = "running"
    BY <2>5 DEF Status
  <2>7. ASSUME NEW u \in Tasks \ {t} PROVE u \in Queued' <=> u \in Queued
    <3>1. ASSUME u \in Queued PROVE u \in Queued'
      <4>1. PICK i \in 1 .. Len(tasks) : u = tasks[i]
        BY <3>1 DEF IndInv, TypeOK, Queued
      <4>2. tasks' = Tail(tasks) /\ tasks # <<>> /\ tasks \in Seq(Tasks) /\ Len(tasks) \in Nat
        BY <1>5 DEF WorkerTake, IndInv, TypeOK
      <4>3. i # 1
        BY <4>1, <4>2, <2>7, <2>b, TailFacts
      <4>4. i - 1 \in 1 .. Len(tasks) - 1 /\ (i - 1) + 1 = i
        BY <4>1, <4>2, <4>3
      <4>5. tasks'[i - 1] = u /\ i - 1 \in DOMAIN tasks'
        BY <4>1, <4>2, <4>4, TailFacts
      <4>6. QED
        BY <4>5 DEF Queued
    <3>2. QED
      BY <3>1, <2>1
  <2>8. \A u \in Tasks \ {t} : Status(u)' = Status(u)
    BY <2>4, <2>7 DEF Status
  <2>9. St' = [St EXCEPT ![t] = "running"]
    BY <1>b, <2>1, <2>6, <2>8
  <2>10. Service!Begin(t)
    BY <2>1, <2>2, <2>3, <2>4, <2>9 DEF Service!Begin
  <2>11. QED
    BY <2>1, <2>10 DEF Service!Next
<1>6. ASSUME NEW w \in Workers, WorkerDone(w)
      PROVE  [Service!Next]_(Service!vars)
  <2>a. running[w] \in Tasks
    BY <1>6 DEF WorkerDone, IndInv, TypeOK, Holding
  <2>b. PICK t \in Tasks : t = running[w]
    BY <2>a
  <2>1. Status(t) = "running"
    BY <2>b, StatusCases
  <2>2. /\ Queued' = Queued /\ done' = done \cup {t}
        /\ UNCHANGED <<late, submitted, started, stopping>>
    BY <1>6, <2>b DEF WorkerDone, Queued
  <2>3. t \notin late
    BY <2>b DEF IndInv, LateTasks
  <2>4. Status(t)' = "done" /\ \A u \in Tasks \ {t} : Status(u)' = Status(u)
    BY <2>2, <2>3 DEF Status
  <2>5. St' = [St EXCEPT ![t] = "done"]
    BY <1>b, <2>1, <2>4
  <2>6. Service!Finish(t)
    BY <2>1, <2>2, <2>5 DEF Service!Finish
  <2>7. QED
    BY <2>1, <2>6 DEF Service!Next
<1>7. ASSUME UNCHANGED <<tasks, started, stopping, late, done, submitted>>
      PROVE  [Service!Next]_(Service!vars)
  <2>1. Queued' = Queued
    BY <1>7 DEF Queued
  <2>2. St' = St /\ Sv' = Sv
    BY <1>7, <1>a, <2>1
  <2>3. QED
    BY <2>2 DEF Service!vars
<1>8. CASE StopNotify \/ StopJoin
  BY <1>7, <1>8 DEF StopNotify, StopJoin
<1>9. ASSUME NEW th \in Threads, NotifyOne(th)
      PROVE  [Service!Next]_(Service!vars)
  BY <1>7, <1>9 DEF NotifyOne
<1>10. ASSUME NEW w \in Workers, WorkerWait(w) \/ WorkerExit(w) \/ SpuriousWake(w)
       PROVE  [Service!Next]_(Service!vars)
  BY <1>7, <1>10 DEF WorkerWait, WorkerExit, SpuriousWake
<1>11. CASE UNCHANGED vars
  BY <1>7, <1>11 DEF vars
<1>12. QED
  BY <1>1, <1>2, <1>3, <1>4, <1>5, <1>6, <1>8, <1>9, <1>10, <1>11
     DEF Next, Stop, Enqueue, WorkerLoop

\* The pool implements TaskService: what it accepts is run once, and only a task
\* enqueued inside Stop, when nothing is queued and nothing runs, is lost.
THEOREM PoolImplementsService == SafeSpec => ImplementsService
<1>1. IndInv /\ IndInv' /\ [Next]_vars => [Service!Next]_(Service!vars)
  BY ServiceStep
<1>2. QED
  BY <1>1, ServiceInit, PoolInvariant, PTL DEF SafeSpec, ImplementsService, Service!SafeSpec
=============================================================================
