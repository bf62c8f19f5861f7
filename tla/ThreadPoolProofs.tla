--------------------------- MODULE ThreadPoolProofs ---------------------------
(***************************************************************************)
(* Proofs about the thread pool of the task host, for any number of        *)
(* workers and any set of tasks and flags.                                 *)
(***************************************************************************)
EXTENDS ThreadPool, SequenceLemmas

-----------------------------------------------------------------------------
(* Types *)

\* Every variable keeps its type, whatever the workers, the callers and main do.
THEOREM TypeCorrect == Spec => []TypeOK
  <1>1. Init => TypeOK
    <2>1. <<>> \in Seq(Records)
      BY EmptySeq
    <2>. QED
      BY <2>1 DEF Init, TypeOK
  <1>2. TypeOK /\ [Next]_vars => TypeOK'
    <2>. SUFFICES ASSUME TypeOK, [Next]_vars
                  PROVE  TypeOK'
      OBVIOUS
    <2>. USE PoolAssumption DEF TypeOK, Records, Flag
    <2>1. ASSUME NEW w \in Workers, CounterWait(w)
          PROVE  TypeOK'
      BY <2>1 DEF CounterWait, tallies
    <2>2. ASSUME NEW w \in Workers, Exit(w)
          PROVE  TypeOK'
      BY <2>2 DEF Exit, CountReopened, tallies
    <2>3. ASSUME NEW w \in Workers, Pop(w)
          PROVE  TypeOK'
      <3>1. queue \in Seq(Records) /\ queue # <<>> /\ Head(queue) # Poison
        BY <2>3 DEF Pop
      <3>2. Tail(queue) \in Seq(Records) /\ Head(queue) \in Tasks
        BY <3>1, TailRecord
      <3>. QED
        BY <2>3, <3>2 DEF Pop, ActiveRaised
    <2>4. ASSUME NEW w \in Workers, FinishTask(w)
          PROVE  TypeOK'
      BY <2>4 DEF FinishTask
    <2>5. ASSUME NEW w \in Workers, Account(w)
          PROVE  TypeOK'
      BY <2>5 DEF Account, Completed
    <2>6. ASSUME NEW t \in Tasks, EnqueueTask(t)
          PROVE  TypeOK'
      <3>1. t \in Records
        OBVIOUS
      <3>2. queue' \in Seq(Records)
        BY <2>6, <3>1, AppendRecord, PrependRecord DEF EnqueueTask
      <3>. QED
        BY <2>6, <3>2 DEF EnqueueTask, CountRaised
    <2>7. ASSUME DequeueTask
          PROVE  TypeOK'
      <3>1. PICK i \in DOMAIN queue : /\ queue[i] \in Movable
                                     /\ queue' = RemoveAt(queue, i)
                                     /\ migrated' = migrated \cup {queue[i]}
                                     /\ submitted' = submitted - Flag(queue[i], Accounted)
                                     /\ pending' = pending - 1
                                     /\ moveble' = moveble - 1
        BY <2>7 DEF DequeueTask, TryWait, FirstMovable, QueueWithout
      <3>2. i \in 1..Len(queue)
        BY LenProperties
      <3>3. queue' \in Seq(Records)
        BY <3>1, <3>2, RemoveRecord
      <3>. QED
        BY <2>7, <3>1, <3>3 DEF DequeueTask, TryWait, CountTaken
    <2>8. ASSUME GetStatusBegin
          PROVE  TypeOK'
      BY <2>8 DEF GetStatusBegin, tallies
    <2>9. ASSUME GetStatusEnd
          PROVE  TypeOK'
      BY <2>9 DEF GetStatusEnd, tallies
    <2>10. ASSUME Shutdown
           PROVE  TypeOK'
      <3>1. queue' \in Seq(Records)
        BY <2>10, AppendRecord DEF Shutdown
      <3>. QED
        BY <2>10, <3>1 DEF Shutdown
    <2>11. ASSUME Join
           PROVE  TypeOK'
      <3>1. <<>> \in Seq(Records)
        BY EmptySeq
      <3>. QED
        BY <2>11, <3>1 DEF Join, tallies
    <2>12. CASE UNCHANGED vars
      BY <2>12 DEF vars, tallies
    <2>13. CASE Terminated
      BY <2>12, <2>13 DEF Terminated
    <2>. QED
      BY <2>1, <2>2, <2>3, <2>4, <2>5, <2>6, <2>7, <2>8, <2>9, <2>10, <2>11, <2>12,
         <2>13 DEF Next, WorkerStep
  <1>. QED
    BY <1>1, <1>2, PTL DEF Spec

-----------------------------------------------------------------------------
(* The counter and the queue *)

\* One worker more, or one less, among those woken.
LEMMA WokenJoins ==
  ASSUME TypeOK, PoolAssumption, NEW w \in Workers, pc[w] # "woken",
         pc' = [pc EXCEPT ![w] = "woken"]
  PROVE  Cardinality(Woken') = Cardinality(Woken) + 1
  <1>1. Woken' = Woken \cup {w} /\ w \notin Woken
    BY DEF Woken, TypeOK
  <1>2. IsFiniteSet(Woken)
    BY FS_Subset DEF Woken, PoolAssumption
  <1>. QED
    BY <1>1, <1>2, FS_AddElement

\* A worker that pops a record or exits leaves the woken ones.
LEMMA WokenLeaves ==
  ASSUME TypeOK, PoolAssumption, NEW w \in Workers, NEW p, pc[w] = "woken", p # "woken",
         pc' = [pc EXCEPT ![w] = p]
  PROVE  Cardinality(Woken') = Cardinality(Woken) - 1
  <1>1. Woken' = Woken \ {w} /\ w \in Woken
    BY DEF Woken, TypeOK
  <1>2. IsFiniteSet(Woken)
    BY FS_Subset DEF Woken, PoolAssumption
  <1>. QED
    BY <1>1, <1>2, FS_RemoveElement

\* There are finitely many workers to be owed a record.
LEMMA WokenFinite ==
  ASSUME PoolAssumption
  PROVE  IsFiniteSet(Woken) /\ Cardinality(Woken) \in Nat
  <1>1. IsFiniteSet(Woken)
    BY FS_Subset DEF Woken, PoolAssumption
  <1>. QED
    BY <1>1, FS_CardinalityType

\* Every step keeps the queue as long as the counter and the woken workers together.
LEMMA CounterStep ==
  TypeOK /\ CounterCoversQueue /\ Stopped /\ [Next]_vars
    => CounterCoversQueue' /\ Stopped'
  <1>. SUFFICES ASSUME TypeOK, CounterCoversQueue, Stopped, [Next]_vars
                PROVE  CounterCoversQueue' /\ Stopped'
    OBVIOUS
  <1>. USE PoolAssumption, WokenFinite DEF CounterCoversQueue, Stopped
  <1>0. Len(queue) \in Nat /\ queue \in Seq(Records) /\ counter \in Nat
    BY LenProperties DEF TypeOK
  <1>1. ASSUME NEW w \in Workers, CounterWait(w)
        PROVE  CounterCoversQueue' /\ Stopped'
    <2>1. Cardinality(Woken') = Cardinality(Woken) + 1
      BY <1>1, WokenJoins DEF CounterWait
    <2>. QED
      BY <1>1, <1>0, <2>1 DEF CounterWait
  <1>2. ASSUME NEW w \in Workers, Exit(w)
        PROVE  CounterCoversQueue' /\ Stopped'
    <2>1. Cardinality(Woken') = Cardinality(Woken) - 1
      BY <1>2, WokenLeaves DEF Exit
    <2>. QED
      BY <1>2, <1>0, <2>1 DEF Exit, CountReopened
  <1>3. ASSUME NEW w \in Workers, Pop(w)
        PROVE  CounterCoversQueue' /\ Stopped'
    <2>1. Cardinality(Woken') = Cardinality(Woken) - 1
      BY <1>3, WokenLeaves DEF Pop
    <2>2. queue' = Tail(queue) /\ queue # <<>>
      BY <1>3 DEF Pop
    <2>3. Len(queue') = Len(queue) - 1
      BY <1>0, <2>2, TailRecord
    <2>. QED
      BY <1>3, <1>0, <2>1, <2>3 DEF Pop
  <1>4. ASSUME NEW w \in Workers, FinishTask(w)
        PROVE  CounterCoversQueue' /\ Stopped'
    <2>1. Woken' = Woken
      BY <1>4 DEF FinishTask, Woken, TypeOK
    <2>. QED
      BY <1>4, <2>1 DEF FinishTask
  <1>5. ASSUME NEW w \in Workers, Account(w)
        PROVE  CounterCoversQueue' /\ Stopped'
    <2>1. Woken' = Woken
      BY <1>5 DEF Account, Woken, TypeOK
    <2>. QED
      BY <1>5, <2>1 DEF Account
  <1>6. ASSUME NEW t \in Tasks, EnqueueTask(t)
        PROVE  CounterCoversQueue' /\ Stopped'
    <2>1. t \in Records
      BY DEF Records
    <2>2. Len(queue') = Len(queue) + 1
      BY <1>6, <1>0, <2>1, AppendRecord, PrependRecord DEF EnqueueTask
    <2>3. Woken' = Woken
      BY <1>6 DEF EnqueueTask, Woken
    <2>. QED
      BY <1>6, <1>0, <2>2, <2>3 DEF EnqueueTask, CountRaised
  <1>7. ASSUME DequeueTask
        PROVE  CounterCoversQueue' /\ Stopped'
    <2>1. PICK i \in DOMAIN queue : queue' = RemoveAt(queue, i)
      BY <1>7 DEF DequeueTask, TryWait, QueueWithout
    <2>2. i \in 1..Len(queue)
      BY <1>0, LenProperties
    <2>3. Len(queue') = Len(queue) - 1
      BY <1>0, <2>1, <2>2, RemoveRecord
    <2>4. Woken' = Woken
      BY <1>7 DEF DequeueTask, TryWait, Woken
    <2>. QED
      BY <1>7, <1>0, <2>3, <2>4 DEF DequeueTask, TryWait, CountTaken
  <1>8. ASSUME GetStatusBegin \/ GetStatusEnd \/ UNCHANGED vars \/ Terminated
        PROVE  CounterCoversQueue' /\ Stopped'
    BY <1>8 DEF GetStatusBegin, GetStatusEnd, Terminated, vars, Woken
  <1>9. ASSUME Shutdown
        PROVE  CounterCoversQueue' /\ Stopped'
    <2>1. Poison \in Records
      BY DEF Records
    <2>2. Len(queue') = Len(queue) + 1
      BY <1>9, <1>0, <2>1, AppendRecord DEF Shutdown
    <2>3. Woken' = Woken
      BY <1>9 DEF Shutdown, Woken
    <2>. QED
      BY <1>9, <1>0, <2>2, <2>3 DEF Shutdown
  <1>10. ASSUME Join
         PROVE  CounterCoversQueue' /\ Stopped'
    BY <1>10 DEF Join
  <1>. QED
    BY <1>1, <1>2, <1>3, <1>4, <1>5, <1>6, <1>7, <1>8, <1>9, <1>10
       DEF Next, WorkerStep

\* A worker that has passed the counter always finds a record in the queue, so the
\* unchecked dereference of _queue.GetFirst() in _thread_proc is safe.
THEOREM GetFirstSafe == Spec => []GetFirstNotNull
  <1>1. Init => CounterCoversQueue /\ Stopped
    <2>. SUFFICES ASSUME Init
                  PROVE  CounterCoversQueue /\ Stopped
      OBVIOUS
    <2>1. Woken = {} /\ counter = 0 /\ Len(queue) = 0 /\ main = "loop"
      BY DEF Init, Woken
    <2>2. Cardinality(Woken) = 0
      BY <2>1, FS_EmptySet
    <2>. QED
      BY <2>1, <2>2 DEF CounterCoversQueue, Stopped
  <1>2. TypeOK /\ CounterCoversQueue /\ Stopped => GetFirstNotNull
    <2>. SUFFICES ASSUME TypeOK, CounterCoversQueue, Stopped, NEW w \in Woken,
                         queue = <<>>
                  PROVE  FALSE
      BY DEF GetFirstNotNull
    <2>1. main # "joined"
      BY DEF Stopped, Woken
    <2>2. counter + Cardinality(Woken) = 0 /\ counter \in Nat
      BY <2>1 DEF CounterCoversQueue, TypeOK
    <2>3. Cardinality(Woken) = 0
      BY <2>2, WokenFinite, PoolAssumption
    <2>. QED
      BY <2>3, WokenFinite, FS_EmptySet, PoolAssumption
  <1>. QED
    BY <1>1, <1>2, TypeCorrect, CounterStep, PTL DEF Spec

\* Each record left after DequeueTask was in the queue before, and none twice.
LEMMA DequeuedQueue ==
  ASSUME TypeOK, NEW k \in DOMAIN queue, queue' = RemoveAt(queue, k)
  PROVE  /\ queue' \in Seq(Records) /\ Len(queue') = Len(queue) - 1
         /\ DOMAIN queue' = 1..Len(queue) - 1 /\ k \in 1..Len(queue)
         /\ \A i \in 1..Len(queue) - 1 :
              queue'[i] = IF i < k THEN queue[i] ELSE queue[i + 1]
  <1>1. queue \in Seq(Records)
    BY DEF TypeOK
  <1>2. k \in 1..Len(queue)
    BY <1>1, LenProperties
  <1>3. /\ RemoveAt(queue, k) \in Seq(Records)
        /\ Len(RemoveAt(queue, k)) = Len(queue) - 1
        /\ \A i \in 1..Len(queue) - 1 :
             RemoveAt(queue, k)[i] = IF i < k THEN queue[i] ELSE queue[i + 1]
    BY <1>1, <1>2, RemoveRecord
  <1>4. DOMAIN RemoveAt(queue, k) = 1..Len(queue) - 1
    BY <1>3, LenProperties
  <1>. QED
    BY <1>2, <1>3, <1>4, Zenon

-----------------------------------------------------------------------------
(* A task is in one place *)

\* No step puts a task into a second place: queue, worker, done, migrated, dropped.
LEMMA OnePlaceStep == TypeOK /\ Stopped /\ OnePlace /\ [Next]_vars => OnePlace'
  <1>. SUFFICES ASSUME TypeOK, Stopped, OnePlace, [Next]_vars
                PROVE  OnePlace'
    OBVIOUS
  <1>. USE PoolAssumption DEF OnePlace, Running
  <1>0. /\ queue \in Seq(Records) /\ Len(queue) \in Nat
        /\ DOMAIN queue = 1..Len(queue)
        /\ pc \in [Workers -> {"wait", "woken", "run", "account", "exited"}]
        /\ task \in [Workers -> Tasks \cup {NoTask}]
    BY LenProperties DEF TypeOK
  <1>1. ASSUME NEW w \in Workers, CounterWait(w)
        PROVE  OnePlace'
    BY <1>1, <1>0 DEF CounterWait
  <1>2. ASSUME NEW w \in Workers, Exit(w)
        PROVE  OnePlace'
    BY <1>2, <1>0 DEF Exit
  <1>3. ASSUME NEW w \in Workers, Pop(w)
        PROVE  OnePlace'
    <2>1. /\ queue # <<>> /\ Head(queue) # Poison /\ queue' = Tail(queue)
          /\ task' = [task EXCEPT ![w] = Head(queue)]
          /\ pc' = [pc EXCEPT ![w] = "run"]
          /\ UNCHANGED <<main, done, migrated, dropped>>
      BY <1>3 DEF Pop
    <2>2. /\ queue' \in Seq(Records) /\ Head(queue) = queue[1] /\ Head(queue) \in Tasks
          /\ 1 \in DOMAIN queue
          /\ Len(queue') = Len(queue) - 1
          /\ \A i \in 1..Len(queue) - 1 : queue'[i] = queue[i + 1]
      BY <2>1, <1>0, TailRecord DEF Records
    <2>3. DOMAIN queue' = 1..Len(queue) - 1
      BY <2>2, LenProperties
    <2>4. \A i \in DOMAIN queue' : /\ i + 1 \in DOMAIN queue /\ i + 1 # 1
                                  /\ queue'[i] = queue[i + 1]
      BY <2>2, <2>3, <1>0
    <2>5. \A i, j \in DOMAIN queue' : queue'[i] = queue'[j] => i = j
      BY <2>3, <2>4, <1>0
    <2>6. \A i \in DOMAIN queue' : queue'[i] # Head(queue)
      BY <1>0, <2>2, <2>4
    <2>7. \A v \in Running' : v = w \/ (v \in Running /\ v # w)
      BY <2>1, <1>0
    <2>8. \A v \in Running' : task'[v] = IF v = w THEN Head(queue) ELSE task[v]
      BY <2>1, <1>0
    <2>. QED
      BY <2>1, <2>2, <2>4, <2>5, <2>6, <2>7, <2>8
  <1>4. ASSUME NEW w \in Workers, FinishTask(w)
        PROVE  OnePlace'
    <2>1. /\ w \in Running /\ Running' = Running \ {w}
          /\ UNCHANGED <<queue, task, main, migrated, dropped>>
          /\ done' = done \cup {task[w]}
      BY <1>4, <1>0 DEF FinishTask
    <2>2. dropped = {}
      BY <2>1 DEF Stopped
    <2>. QED
      BY <2>1, <2>2
  <1>5. ASSUME NEW w \in Workers, Account(w)
        PROVE  OnePlace'
    <2>1. /\ w \notin Running /\ Running' = Running
          /\ UNCHANGED <<queue, main, done, migrated, dropped>>
          /\ \A v \in Running : task'[v] = task[v]
      BY <1>5, <1>0 DEF Account
    <2>. QED
      BY <2>1
  <1>6. ASSUME NEW t \in Tasks, EnqueueTask(t)
        PROVE  OnePlace'
    <2>1. /\ \A i \in DOMAIN queue : queue[i] # t
          /\ \A w \in Running : task[w] # t
          /\ t \notin done /\ t \notin migrated
          /\ UNCHANGED <<pc, task, main, done, migrated, dropped>>
      BY <1>6 DEF EnqueueTask, Known, Queued, IsRunning
    <2>2. t \in Records
      BY DEF Records
    <2>3. PICK k \in {0, 1} :
            /\ queue' \in Seq(Records) /\ Len(queue') = Len(queue) + 1
            /\ \A i \in 1..Len(queue) + 1 :
                 queue'[i] = IF k = 1 THEN (IF i = 1 THEN t ELSE queue[i - 1])
                             ELSE IF i <= Len(queue) THEN queue[i] ELSE t
      BY <1>6, <1>0, <2>2, AppendRecord, PrependRecord DEF EnqueueTask
    <2>4. DOMAIN queue' = 1..Len(queue) + 1
      BY <2>3, <1>0, LenProperties
    <2>5. \A i \in DOMAIN queue' :
            \/ queue'[i] = t /\ i = (IF k = 1 THEN 1 ELSE Len(queue) + 1)
            \/ queue'[i] = queue[i - k] /\ i - k \in DOMAIN queue
      BY <2>3, <2>4, <1>0
    <2>6. \A i, j \in DOMAIN queue' : queue'[i] = queue'[j] => i = j
      BY <2>1, <2>4, <2>5, <1>0
    <2>. QED
      BY <2>1, <2>5, <2>6
  <1>7. ASSUME DequeueTask
        PROVE  OnePlace'
    <2>1. PICK k \in DOMAIN queue : /\ queue[k] \in Movable
                                   /\ queue' = RemoveAt(queue, k)
                                   /\ migrated' = migrated \cup {queue[k]}
      BY <1>7 DEF DequeueTask, TryWait, FirstMovable, QueueWithout
    <2>2. main = "loop" /\ UNCHANGED <<pc, task, main, done, dropped>>
      BY <1>7 DEF DequeueTask, TryWait
    <2>3. /\ queue' \in Seq(Records) /\ Len(queue') = Len(queue) - 1
          /\ \A i \in 1..Len(queue) - 1 :
               queue'[i] = IF i < k THEN queue[i] ELSE queue[i + 1]
      BY <2>1, DequeuedQueue
    <2>4. DOMAIN queue' = 1..Len(queue) - 1
      BY <2>1, DequeuedQueue
    <2>5. \A i \in DOMAIN queue' :
            LET o == IF i < k THEN i ELSE i + 1
            IN  queue'[i] = queue[o] /\ o \in DOMAIN queue /\ o # k
      BY <2>1, <2>3, <2>4, <1>0
    <2>6. \A i, j \in DOMAIN queue' : queue'[i] = queue'[j] => i = j
      BY <2>1, <2>4, <2>5, <1>0
    <2>7. \A i \in DOMAIN queue' : queue'[i] # queue[k] /\ \E o \in DOMAIN queue : queue'[i] = queue[o]
      BY <2>1, <2>5
    <2>. QED
      BY <2>1, <2>2, <2>6, <2>7
  <1>8. ASSUME GetStatusBegin \/ GetStatusEnd \/ UNCHANGED vars \/ Terminated
        PROVE  OnePlace'
    BY <1>8 DEF GetStatusBegin, GetStatusEnd, Terminated, vars
  <1>9. ASSUME Shutdown
        PROVE  OnePlace'
    <2>1. /\ main = "loop" /\ main' = "joining" /\ queue' = Append(queue, Poison)
          /\ UNCHANGED <<pc, task, done, migrated, dropped>>
      BY <1>9 DEF Shutdown
    <2>2. Poison \in Records
      BY DEF Records
    <2>3. /\ queue' \in Seq(Records) /\ Len(queue') = Len(queue) + 1
          /\ \A i \in 1..Len(queue) + 1 :
               queue'[i] = IF i <= Len(queue) THEN queue[i] ELSE Poison
      BY <1>0, <2>1, <2>2, AppendRecord
    <2>4. DOMAIN queue' = 1..Len(queue) + 1
      BY <2>3, <1>0, LenProperties
    <2>5. \A i \in DOMAIN queue' :
            \/ queue'[i] = queue[i] /\ i \in DOMAIN queue
            \/ queue'[i] = Poison /\ i = Len(queue) + 1
      BY <2>3, <2>4, <1>0
    <2>6. Poison \notin done \cup migrated /\ \A w \in Running : task[w] # Poison
      BY DEF TypeOK
    <2>7. \A i, j \in DOMAIN queue' : queue'[i] = queue'[j] => i = j
      BY <2>1, <2>4, <2>5, <1>0
    <2>. QED
      BY <2>1, <2>5, <2>6, <2>7
  <1>10. ASSUME Join
         PROVE  OnePlace'
    <2>1. /\ main' = "joined" /\ queue' = <<>> /\ Running' = {} /\ Running = {}
          /\ dropped' = {t \in Tasks : Queued(t)}
          /\ UNCHANGED <<done, migrated>>
      BY <1>10 DEF Join
    <2>2. DOMAIN queue' = {}
      BY <2>1
    <2>3. dropped' \cap (done \cup migrated) = {}
      BY <2>1 DEF Queued
    <2>. QED
      BY <2>1, <2>2, <2>3
  <1>. QED
    BY <1>1, <1>2, <1>3, <1>4, <1>5, <1>6, <1>7, <1>8, <1>9, <1>10
       DEF Next, WorkerStep

\* A task is in one place throughout, which the refinement rests on.
LEMMA OnePlaceInvariant == Spec => [](TypeOK /\ Stopped /\ OnePlace)
  <1>1. Init => CounterCoversQueue /\ Stopped /\ OnePlace
    <2>. SUFFICES ASSUME Init
                  PROVE  CounterCoversQueue /\ Stopped /\ OnePlace
      OBVIOUS
    <2>1. Woken = {} /\ Running = {} /\ counter = 0 /\ Len(queue) = 0 /\ main = "loop"
          /\ DOMAIN queue = {} /\ done = {} /\ migrated = {} /\ dropped = {}
      BY DEF Init, Woken, Running
    <2>2. Cardinality(Woken) = 0
      BY <2>1, FS_EmptySet
    <2>. QED
      BY <2>1, <2>2 DEF CounterCoversQueue, Stopped, OnePlace
  <1>. QED
    BY <1>1, TypeCorrect, CounterStep, OnePlaceStep, PTL DEF Spec

-----------------------------------------------------------------------------
(* The pool implements TaskLifecycle *)

\* The phase of a task, from the places it can be in.
LEMMA PhaseStutters ==
  ASSUME \A t \in Tasks : Queued(t)' = Queued(t) /\ IsRunning(t)' = IsRunning(t),
         UNCHANGED <<done, migrated, dropped>>, (main = "joined")' = (main = "joined")
  PROVE  UNCHANGED Lifecycle!vars
  <1>1. \A t \in Tasks : PhaseOf(t)' = PhaseOf(t)
    BY DEF PhaseOf
  <1>. QED
    BY <1>1 DEF Lifecycle!vars

\* Every step of the pool is a step of TaskLifecycle, or leaves all phases alone.
LEMMA LifecycleStep ==
  TypeOK /\ Stopped /\ OnePlace /\ [Next]_vars => [Lifecycle!Next]_(Lifecycle!vars)
  <1>. SUFFICES ASSUME TypeOK, Stopped, OnePlace, [Next]_vars
                PROVE  [Lifecycle!Next]_(Lifecycle!vars)
    OBVIOUS
  <1>. USE PoolAssumption
  <1>0. /\ queue \in Seq(Records) /\ Len(queue) \in Nat
        /\ DOMAIN queue = 1..Len(queue)
        /\ pc \in [Workers -> {"wait", "woken", "run", "account", "exited"}]
        /\ task \in [Workers -> Tasks \cup {NoTask}]
    BY LenProperties DEF TypeOK
  <1>1. ASSUME NEW w \in Workers, CounterWait(w) \/ Exit(w)
        PROVE  UNCHANGED Lifecycle!vars
    <2>1. Running' = Running /\ UNCHANGED <<queue, task, done, migrated, dropped, main>>
      BY <1>1, <1>0 DEF CounterWait, Exit, Running
    <2>. QED
      BY <2>1, PhaseStutters DEF Queued, IsRunning
  <1>2. ASSUME NEW w \in Workers, Pop(w)
        PROVE  \E t \in Tasks : Lifecycle!Start(t)
    <2> DEFINE h == Head(queue)
    <2>1. /\ queue # <<>> /\ h # Poison /\ queue' = Tail(queue)
          /\ task' = [task EXCEPT ![w] = h]
          /\ pc' = [pc EXCEPT ![w] = "run"] /\ pc[w] = "woken"
          /\ UNCHANGED <<main, done, migrated, dropped>>
      BY <1>2 DEF Pop
    <2>2. /\ queue' \in Seq(Records) /\ h = queue[1] /\ h \in Tasks
          /\ 1 \in DOMAIN queue
          /\ Len(queue') = Len(queue) - 1
          /\ \A i \in 1..Len(queue) - 1 : queue'[i] = queue[i + 1]
      BY <2>1, <1>0, TailRecord DEF Records
    <2>3. DOMAIN queue' = 1..Len(queue) - 1
      BY <2>2, LenProperties
    <2>. HIDE DEF h
    <2>4. \A t \in Tasks : Queued(t)' <=> Queued(t) /\ t # h
      <3>. SUFFICES ASSUME NEW t \in Tasks
                    PROVE  Queued(t)' <=> Queued(t) /\ t # h
        OBVIOUS
      <3>1. ASSUME NEW i \in DOMAIN queue', queue'[i] = t
            PROVE  Queued(t) /\ t # h
        <4>1. i + 1 \in DOMAIN queue /\ queue[i + 1] = t /\ i + 1 # 1
          BY <3>1, <2>2, <2>3, <1>0
        <4>. QED
          BY <4>1, <2>2 DEF OnePlace, Queued
      <3>2. ASSUME NEW i \in DOMAIN queue, queue[i] = t, t # h
            PROVE  Queued(t)'
        <4>1. i - 1 \in DOMAIN queue' /\ queue'[i - 1] = t
          BY <3>2, <2>2, <2>3, <1>0
        <4>. QED
          BY <4>1 DEF Queued
      <3>. QED
        BY <3>1, <3>2 DEF Queued
    <2>5. \A t \in Tasks : IsRunning(t)' <=> IsRunning(t) \/ t = h
      BY <2>1, <1>0 DEF IsRunning, Running
    <2>6. main # "joined"
      BY <2>1 DEF Stopped
    <2>7. ~IsRunning(h) /\ h \notin done /\ h \notin migrated /\ h \notin dropped
          /\ Queued(h) /\ (\A t \in Tasks : Queued(t) => ~IsRunning(t))
      BY <2>2, <2>6 DEF OnePlace, IsRunning, Queued
    <2>8. PhaseOf(h) = "queued"
      BY <2>7 DEF PhaseOf
    <2>9. \A t \in Tasks : PhaseOf(t)' = IF t = h THEN "running" ELSE PhaseOf(t)
      BY <2>1, <2>2, <2>4, <2>5, <2>7 DEF PhaseOf
    <2>. QED
      BY <2>1, <2>2, <2>6, <2>8, <2>9 DEF Lifecycle!Start, Lifecycle!Move
  <1>3. ASSUME NEW w \in Workers, FinishTask(w)
        PROVE  \E t \in Tasks : Lifecycle!Finish(t)
    <2>0. PICK h : h = task[w]
      OBVIOUS
    <2>1. /\ w \in Running /\ Running' = Running \ {w} /\ h \in Tasks
          /\ UNCHANGED <<queue, task, main, migrated, dropped>>
          /\ done' = done \cup {h}
      BY <2>0, <1>3, <1>0 DEF FinishTask, Running, TypeOK
    <2>2. main # "joined" /\ dropped = {}
      BY <2>1 DEF Stopped, OnePlace, Running
    <2>3. IsRunning(h) /\ h \notin done /\ h \notin migrated
      BY <2>0, <2>1 DEF OnePlace, IsRunning
    <2>4. \A t \in Tasks \ {h} : IsRunning(t)' = IsRunning(t)
      BY <2>0, <2>1 DEF IsRunning
    <2>5. \A t \in Tasks : Queued(t)' = Queued(t)
      BY <2>1 DEF Queued
    <2>6. PhaseOf(h) = "running"
      <3>1. h \notin dropped
        BY <2>2
      <3>. QED
        BY <3>1, <2>3, Zenon DEF PhaseOf
    <2>7. \A t \in Tasks : PhaseOf(t)' = IF t = h THEN "done" ELSE PhaseOf(t)
      <3>1. PhaseOf(h)' = "done"
        BY <2>1 DEF PhaseOf
      <3>2. ASSUME NEW t \in Tasks \ {h}
            PROVE  PhaseOf(t)' = PhaseOf(t)
        <4>1. (t \in done') = (t \in done) /\ UNCHANGED <<migrated, dropped>>
          BY <2>1
        <4>. QED
          BY <4>1, <2>4, <2>5, Zenon DEF PhaseOf
      <3>. QED
        BY <3>1, <3>2
    <2>. QED
      BY <2>1, <2>2, <2>6, <2>7 DEF Lifecycle!Finish, Lifecycle!Move
  <1>4. ASSUME NEW w \in Workers, Account(w)
        PROVE  UNCHANGED Lifecycle!vars
    <2>1. /\ Running' = Running /\ UNCHANGED <<queue, done, migrated, dropped, main>>
          /\ \A v \in Running : task'[v] = task[v]
      BY <1>4, <1>0 DEF Account, Running
    <2>. QED
      BY <2>1, PhaseStutters DEF Queued, IsRunning
  <1>5. ASSUME NEW t \in Tasks, EnqueueTask(t)
        PROVE  Lifecycle!Submit(t)
    <2>1. /\ ~Queued(t) /\ ~IsRunning(t) /\ t \notin done /\ t \notin migrated
          /\ main # "joined" /\ UNCHANGED <<pc, task, main, done, migrated, dropped>>
      BY <1>5 DEF EnqueueTask, Known
    <2>2. t \in Records /\ dropped = {}
      BY <2>1 DEF Records, OnePlace
    <2>3. ASSUME t \in Urgent
          PROVE  \A u \in Tasks : Queued(u)' <=> Queued(u) \/ u = t
      <3>1. /\ queue' \in Seq(Records) /\ Len(queue') = Len(queue) + 1
            /\ \A i \in 1..Len(queue) + 1 : queue'[i] = IF i = 1 THEN t ELSE queue[i - 1]
        BY <1>5, <1>0, <2>2, <2>3, PrependRecord DEF EnqueueTask
      <3>2. DOMAIN queue' = 1..Len(queue) + 1
        BY <3>1, <1>0, LenProperties
      <3>3. queue'[1] = t /\ 1 \in DOMAIN queue'
        BY <3>1, <3>2, <1>0
      <3>4. \A i \in DOMAIN queue : i + 1 \in DOMAIN queue' /\ queue'[i + 1] = queue[i]
        BY <3>1, <3>2, <1>0
      <3>5. \A i \in DOMAIN queue' :
              queue'[i] = t \/ (i - 1 \in DOMAIN queue /\ queue'[i] = queue[i - 1])
        BY <3>1, <3>2, <1>0
      <3>. QED
        BY <3>3, <3>4, <3>5 DEF Queued
    <2>4. ASSUME t \notin Urgent
          PROVE  \A u \in Tasks : Queued(u)' <=> Queued(u) \/ u = t
      <3>1. /\ queue' \in Seq(Records) /\ Len(queue') = Len(queue) + 1
            /\ \A i \in 1..Len(queue) + 1 : queue'[i] = IF i <= Len(queue) THEN queue[i] ELSE t
        BY <1>5, <1>0, <2>2, <2>4, AppendRecord DEF EnqueueTask
      <3>2. DOMAIN queue' = 1..Len(queue) + 1
        BY <3>1, <1>0, LenProperties
      <3>3. queue'[Len(queue) + 1] = t /\ Len(queue) + 1 \in DOMAIN queue'
        BY <3>1, <3>2, <1>0
      <3>4. \A i \in DOMAIN queue : i \in DOMAIN queue' /\ queue'[i] = queue[i]
        BY <3>1, <3>2, <1>0
      <3>5. \A i \in DOMAIN queue' :
              queue'[i] = t \/ (i \in DOMAIN queue /\ queue'[i] = queue[i])
        BY <3>1, <3>2, <1>0
      <3>. QED
        BY <3>3, <3>4, <3>5 DEF Queued
    <2>5. \A u \in Tasks : IsRunning(u)' = IsRunning(u)
      BY <2>1 DEF IsRunning, Running
    <2>6. PhaseOf(t) = "new"
      BY <2>1, <2>2 DEF PhaseOf
    <2>7. \A u \in Tasks : PhaseOf(u)' = IF u = t THEN "queued" ELSE PhaseOf(u)
      BY <2>1, <2>2, <2>3, <2>4, <2>5 DEF PhaseOf
    <2>. QED
      BY <2>1, <2>6, <2>7 DEF Lifecycle!Submit, Lifecycle!Move
  <1>6. ASSUME DequeueTask
        PROVE  \E t \in Tasks : Lifecycle!Migrate(t)
    <2>1. PICK k \in DOMAIN queue : /\ queue[k] \in Movable
                                   /\ queue' = RemoveAt(queue, k)
                                   /\ migrated' = migrated \cup {queue[k]}
      BY <1>6 DEF DequeueTask, TryWait, FirstMovable, QueueWithout
    <2> DEFINE h == queue[k]
    <2>2. main = "loop" /\ UNCHANGED <<pc, task, main, done, dropped>> /\ h \in Tasks
      BY <1>6, <2>1 DEF DequeueTask, TryWait
    <2>3. /\ queue' \in Seq(Records) /\ Len(queue') = Len(queue) - 1
          /\ \A i \in 1..Len(queue) - 1 :
               queue'[i] = IF i < k THEN queue[i] ELSE queue[i + 1]
      BY <2>1, DequeuedQueue
    <2>4. DOMAIN queue' = 1..Len(queue) - 1 /\ k \in 1..Len(queue)
      BY <2>1, DequeuedQueue
    <2>5. \A t \in Tasks : Queued(t)' <=> Queued(t) /\ t # h
      <3>. SUFFICES ASSUME NEW t \in Tasks
                    PROVE  Queued(t)' <=> Queued(t) /\ t # h
        OBVIOUS
      <3>1. ASSUME NEW i \in DOMAIN queue', queue'[i] = t
            PROVE  Queued(t) /\ t # h
        <4>0. i \in 1..Len(queue) - 1
          BY <2>4
        <4>1. PICK o \in DOMAIN queue : queue[o] = t /\ o # k
          <5>1. CASE i < k
            BY <5>1, <4>0, <3>1, <2>3, <1>0
          <5>2. CASE ~(i < k)
            <6>1. i + 1 \in DOMAIN queue /\ queue[i + 1] = t /\ i + 1 # k
              BY <5>2, <4>0, <3>1, <2>3, <2>4, <1>0
            <6>. QED
              BY <6>1
          <5>. QED
            BY <5>1, <5>2
        <4>. QED
          BY <4>1, <2>1 DEF OnePlace, Queued
      <3>2. ASSUME NEW i \in DOMAIN queue, queue[i] = t, t # h
            PROVE  Queued(t)'
        <4>1. \E o \in DOMAIN queue' : queue'[o] = t
          <5>0. i \in 1..Len(queue) /\ i # k
            BY <3>2, <1>0
          <5>1. CASE i < k
            <6>1. i \in DOMAIN queue' /\ queue'[i] = t
              BY <5>0, <5>1, <3>2, <2>3, <2>4, <1>0
            <6>. QED
              BY <6>1
          <5>2. CASE ~(i < k)
            <6>1. i - 1 \in DOMAIN queue' /\ queue'[i - 1] = t
              BY <5>0, <5>2, <3>2, <2>3, <2>4, <1>0
            <6>. QED
              BY <6>1
          <5>. QED
            BY <5>1, <5>2
        <4>. QED
          BY <4>1 DEF Queued
      <3>. QED
        BY <3>1, <3>2 DEF Queued
    <2>6. \A t \in Tasks : IsRunning(t)' = IsRunning(t)
      BY <2>2 DEF IsRunning, Running
    <2>7. Queued(h) /\ ~IsRunning(h) /\ h \notin done /\ h \notin migrated /\ dropped = {}
      BY <2>1, <2>2 DEF OnePlace, Queued, IsRunning
    <2>8. migrated' = migrated \cup {h}
      BY <2>1
    <2>. HIDE DEF h
    <2>9. PhaseOf(h) = "queued"
      BY <2>7 DEF PhaseOf
    <2>10. \A t \in Tasks : PhaseOf(t)' = IF t = h THEN "migrated" ELSE PhaseOf(t)
      BY <2>2, <2>5, <2>6, <2>7, <2>8 DEF PhaseOf
    <2>. QED
      BY <2>2, <2>9, <2>10 DEF Lifecycle!Migrate, Lifecycle!Move
  <1>7. ASSUME GetStatusBegin \/ GetStatusEnd \/ UNCHANGED vars \/ Terminated
        PROVE  UNCHANGED Lifecycle!vars
    <2>1. UNCHANGED <<queue, pc, task, done, migrated, dropped, main>>
      BY <1>7 DEF GetStatusBegin, GetStatusEnd, Terminated, vars
    <2>. QED
      BY <2>1, PhaseStutters DEF Queued, IsRunning, Running
  <1>8. ASSUME Shutdown
        PROVE  UNCHANGED Lifecycle!vars
    <2>1. /\ main = "loop" /\ main' = "joining" /\ queue' = Append(queue, Poison)
          /\ UNCHANGED <<pc, task, done, migrated, dropped>>
      BY <1>8 DEF Shutdown
    <2>2. Poison \in Records
      BY DEF Records
    <2>3. /\ queue' \in Seq(Records) /\ Len(queue') = Len(queue) + 1
          /\ \A i \in 1..Len(queue) + 1 :
               queue'[i] = IF i <= Len(queue) THEN queue[i] ELSE Poison
      BY <1>0, <2>1, <2>2, AppendRecord
    <2>4. DOMAIN queue' = 1..Len(queue) + 1
      BY <2>3, <1>0, LenProperties
    <2>5. \A t \in Tasks : Queued(t)' = Queued(t)
      <3>1. \A i \in DOMAIN queue : i \in DOMAIN queue' /\ queue'[i] = queue[i]
        BY <2>3, <2>4, <1>0
      <3>2. \A i \in DOMAIN queue' :
              queue'[i] = Poison \/ (i \in DOMAIN queue /\ queue'[i] = queue[i])
        BY <2>3, <2>4, <1>0
      <3>. QED
        BY <3>1, <3>2 DEF Queued
    <2>. QED
      BY <2>1, <2>5, PhaseStutters DEF IsRunning, Running
  <1>9. ASSUME Join
        PROVE  Lifecycle!Close
    <2>1. /\ main = "joining" /\ main' = "joined" /\ queue' = <<>> /\ Running = {}
          /\ dropped' = {t \in Tasks : Queued(t)} /\ dropped = {}
          /\ UNCHANGED <<pc, task, done, migrated>>
      BY <1>9 DEF Join, OnePlace, Running
    <2>2. \A t \in Tasks : ~IsRunning(t) /\ ~IsRunning(t)' /\ ~Queued(t)'
      BY <2>1 DEF IsRunning, Queued, Running
    <2>3. \A t \in Tasks : PhaseOf(t)' = IF PhaseOf(t) = "queued" THEN "dropped" ELSE PhaseOf(t)
      <3>1. \A t \in Tasks : Queued(t) => t \notin done /\ t \notin migrated
        BY DEF Queued, OnePlace
      <3>. QED
        BY <3>1, <2>1, <2>2 DEF PhaseOf
    <2>4. \A t \in Tasks : PhaseOf(t) # "running"
      BY <2>2 DEF PhaseOf
    <2>. QED
      BY <2>1, <2>3, <2>4 DEF Lifecycle!Close
  <1>. QED
    BY <1>1, <1>2, <1>3, <1>4, <1>5, <1>6, <1>7, <1>8, <1>9
       DEF Next, WorkerStep, Lifecycle!Next

\* The pool executes, hands over or discards each task at most once, whatever the
\* number of workers: it implements the abstract life of a task.
THEOREM PoolImplementsLifecycle == Spec => ImplementsLifecycle
  <1>1. Init => Lifecycle!Init
    <2>. SUFFICES ASSUME Init
                  PROVE  Lifecycle!Init
      OBVIOUS
    <2>1. \A t \in Tasks : PhaseOf(t) = "new"
      BY DEF Init, PhaseOf, IsRunning, Running, Queued
    <2>. QED
      BY <2>1 DEF Init, Lifecycle!Init
  <1>. QED
    BY <1>1, LifecycleStep, OnePlaceInvariant, PTL
       DEF Spec, ImplementsLifecycle, Lifecycle!Spec

-----------------------------------------------------------------------------
(* The tallies *)

\* The records with a flag are counted by the places they take.
LEMMA QueuedCounted ==
  ASSUME TypeOK, NEW F
  PROVE  /\ QueuedWith(F) = Cardinality(Places(queue, F)) /\ QueuedWith(F) \in Nat
         /\ QueuedWith(F)' = Cardinality(Places(queue', F))
  <1>1. queue \in Seq(Records)
    BY DEF TypeOK
  <1>2. QueuedWith(F) = Cardinality(Places(queue, F))
    BY DEF QueuedWith, Places
  <1>3. QueuedWith(F)' = Cardinality(Places(queue', F))
    BY DEF QueuedWith, Places
  <1>. QED
    BY <1>1, <1>2, <1>3, PlacesFinite

\* What enqueuing, popping and dequeuing do to their number.
LEMMA QueuedMoves ==
  ASSUME TypeOK, NEW F
  PROVE  /\ \A t \in Records : queue' = Append(queue, t) =>
              QueuedWith(F)' = QueuedWith(F) + Flag(t, F)
         /\ \A t \in Records : queue' = <<t>> \o queue =>
              QueuedWith(F)' = QueuedWith(F) + Flag(t, F)
         /\ \A i \in DOMAIN queue : queue' = RemoveAt(queue, i) =>
              QueuedWith(F)' = QueuedWith(F) - Flag(queue[i], F)
         /\ queue # <<>> /\ queue' = Tail(queue) =>
              QueuedWith(F)' = QueuedWith(F) - Flag(Head(queue), F)
         /\ queue' = queue => QueuedWith(F)' = QueuedWith(F)
  <1>. USE QueuedCounted DEF Flag
  <1>0. queue \in Seq(Records) /\ DOMAIN queue = 1..Len(queue)
    BY LenProperties DEF TypeOK
  <1>1. ASSUME NEW t \in Records, queue' = Append(queue, t)
        PROVE  QueuedWith(F)' = QueuedWith(F) + Flag(t, F)
    BY <1>0, <1>1, PlacesAppend
  <1>2. ASSUME NEW t \in Records, queue' = <<t>> \o queue
        PROVE  QueuedWith(F)' = QueuedWith(F) + Flag(t, F)
    BY <1>0, <1>2, PlacesPrepend
  <1>3. ASSUME NEW i \in DOMAIN queue, queue' = RemoveAt(queue, i)
        PROVE  QueuedWith(F)' = QueuedWith(F) - Flag(queue[i], F)
    BY <1>0, <1>3, PlacesRemove
  <1>4. ASSUME queue # <<>>, queue' = Tail(queue)
        PROVE  QueuedWith(F)' = QueuedWith(F) - Flag(Head(queue), F)
    BY <1>0, <1>4, PlacesTail
  <1>. QED
    BY <1>1, <1>2, <1>3, <1>4

\* The workers that hold a task with the flag
Holding(F) == {w \in Running \cup Finishing : task[w] \in F}

\* There are finitely many, and of those that run.
LEMMA HoldersFinite ==
  ASSUME PoolAssumption, NEW F
  PROVE  /\ IsFiniteSet(Holding(F)) /\ Cardinality(Holding(F)) \in Nat
         /\ IsFiniteSet(Running) /\ Cardinality(Running) \in Nat
         /\ HeldWith(Running \cup Finishing, F) = Cardinality(Holding(F))
  <1>1. Holding(F) \subseteq Workers /\ Running \subseteq Workers
    BY DEF Holding, Running, Finishing
  <1>2. IsFiniteSet(Holding(F)) /\ IsFiniteSet(Running)
    BY <1>1, FS_Subset DEF PoolAssumption
  <1>. QED
    BY <1>2, FS_CardinalityType DEF HeldWith, Holding

\* A worker that pops a record joins those that run, and those that hold one with its flag.
LEMMA HolderJoins ==
  ASSUME TypeOK, PoolAssumption, NEW w \in Workers, NEW t, NEW F, pc[w] = "woken",
         pc' = [pc EXCEPT ![w] = "run"], task' = [task EXCEPT ![w] = t]
  PROVE  /\ Cardinality(Running') = Cardinality(Running) + 1
         /\ Cardinality(Holding(F)') = Cardinality(Holding(F)) + Flag(t, F)
  <1>1. Running' = Running \cup {w} /\ w \notin Running
    BY DEF Running, TypeOK
  <1>2. /\ Holding(F)' = IF t \in F THEN Holding(F) \cup {w} ELSE Holding(F)
        /\ w \notin Holding(F)
    BY DEF Running, Finishing, Holding, TypeOK
  <1>3. Cardinality(Running \cup {w}) = Cardinality(Running) + 1
    BY <1>1, HoldersFinite, FS_AddElement
  <1>4. Cardinality(Holding(F) \cup {w}) = Cardinality(Holding(F)) + 1
    BY <1>2, HoldersFinite, FS_AddElement
  <1>5. Cardinality(Holding(F)) \in Nat
    BY HoldersFinite
  <1>. QED
    BY <1>1, <1>2, <1>3, <1>4, <1>5 DEF Flag

\* When DoTask returns the worker still holds it for the account.
LEMMA HolderFinishes ==
  ASSUME TypeOK, PoolAssumption, NEW w \in Workers, NEW F, pc[w] = "run",
         pc' = [pc EXCEPT ![w] = "account"], task' = task
  PROVE  /\ Cardinality(Running') = Cardinality(Running) - 1
         /\ Holding(F)' = Holding(F)
  <1>1. Running' = Running \ {w} /\ w \in Running
    BY DEF Running, TypeOK
  <1>2. Holding(F)' = Holding(F)
    BY DEF Running, Finishing, Holding, TypeOK
  <1>. QED
    BY <1>1, <1>2, HoldersFinite, FS_RemoveElement

\* Then it lets go of it.
LEMMA HolderLeaves ==
  ASSUME TypeOK, PoolAssumption, NEW w \in Workers, NEW F, pc[w] = "account",
         pc' = [pc EXCEPT ![w] = "wait"], task' = [task EXCEPT ![w] = NoTask]
  PROVE  /\ Running' = Running
         /\ Cardinality(Holding(F)') = Cardinality(Holding(F)) - Flag(task[w], F)
  <1>1. Running' = Running
    BY DEF Running, TypeOK
  <1>2. /\ Holding(F)' = Holding(F) \ {w}
        /\ w \in Holding(F) <=> task[w] \in F
    BY DEF Running, Finishing, Holding, TypeOK
  <1>3. Cardinality(Holding(F) \ {w}) =
          IF w \in Holding(F) THEN Cardinality(Holding(F)) - 1 ELSE Cardinality(Holding(F))
    BY HoldersFinite, FS_RemoveElement
  <1>4. Cardinality(Holding(F)) \in Nat
    BY HoldersFinite
  <1>. QED
    BY <1>1, <1>2, <1>3, <1>4 DEF Flag

\* A worker that waits, wakes or ends holds nothing before or after.
LEMMA HoldersStay ==
  ASSUME TypeOK, NEW w \in Workers, NEW p, NEW F,
         pc[w] \notin {"run", "account"}, p \notin {"run", "account"},
         pc' = [pc EXCEPT ![w] = p], task' = task
  PROVE  Running' = Running /\ Holding(F)' = Holding(F)
  BY DEF Running, Finishing, Holding, TypeOK

\* Every step keeps the five tallies exact.
LEMMA TalliesStep == TypeOK /\ TalliesExact /\ Stopped /\ [Next]_vars => TalliesExact'
  <1>. SUFFICES ASSUME TypeOK, TalliesExact, Stopped, [Next]_vars, main' # "joined"
                PROVE  /\ pending' = Len(queue')
                       /\ moveble' = QueuedWith(Movable)'
                       /\ active' = Cardinality(Running')
                       /\ submitted' = complete' + QueuedWith(Accounted)'
                                         + Cardinality(Holding(Accounted)')
    <2>1. HeldWith(Running \cup Finishing, Accounted)' = Cardinality(Holding(Accounted)')
      BY DEF HeldWith, Holding
    <2>. QED
      BY <2>1 DEF TalliesExact
  <1>. USE PoolAssumption
  <1>0. /\ queue \in Seq(Records) /\ DOMAIN queue = 1..Len(queue) /\ Len(queue) \in Nat
        /\ Poison \notin Movable /\ Poison \notin Accounted /\ Tasks \subseteq Records
        /\ Poison \in Records
    BY LenProperties DEF TypeOK, PoolAssumption, Records
  <1>1. main # "joined"
    BY DEF Next, WorkerStep, CounterWait, Exit, Pop, FinishTask, Account, EnqueueTask,
           DequeueTask, GetStatusBegin, GetStatusEnd, Shutdown, Join, Terminated, vars
  <1>2. /\ pending = Len(queue) /\ moveble = QueuedWith(Movable)
        /\ active = Cardinality(Running)
        /\ submitted = complete + QueuedWith(Accounted) + Cardinality(Holding(Accounted))
    BY <1>1, HoldersFinite DEF TalliesExact
  <1>3. /\ QueuedWith(Movable) \in Nat /\ QueuedWith(Accounted) \in Nat
        /\ Cardinality(Running) \in Nat /\ Cardinality(Holding(Accounted)) \in Nat
        /\ submitted \in Int /\ complete \in Int
        /\ \A t, F : Flag(t, F) \in {0, 1}
    BY QueuedCounted, HoldersFinite DEF TypeOK, Flag
  <1>4. ASSUME NEW w \in Workers, NEW p, NEW F,
               pc[w] \notin {"run", "account"}, p \notin {"run", "account"},
               pc' = [pc EXCEPT ![w] = p], task' = task
        PROVE  Running' = Running /\ Holding(F)' = Holding(F)
    BY <1>4, HoldersStay
  <1>5. ASSUME UNCHANGED <<pc, task>>
        PROVE  Running' = Running /\ Holding(Accounted)' = Holding(Accounted)
    BY <1>5 DEF Running, Finishing, Holding
  <1>6. ASSUME queue' = queue
        PROVE  QueuedWith(Movable)' = QueuedWith(Movable) /\ QueuedWith(Accounted)' = QueuedWith(Accounted)
    BY <1>6, QueuedMoves
  <1>7. CASE \E w \in Workers : CounterWait(w) \/ Exit(w)
    <2>1. UNCHANGED <<queue, tallies>>
      BY <1>7 DEF CounterWait, Exit
    <2>2. Running' = Running /\ Holding(Accounted)' = Holding(Accounted)
      BY <1>7, <1>4 DEF CounterWait, Exit
    <2>. QED
      BY <2>1, <2>2, <1>6, <1>2 DEF tallies
  <1>8. ASSUME NEW w \in Workers, Pop(w)
        PROVE  /\ pending' = Len(queue')
               /\ moveble' = QueuedWith(Movable)'
               /\ active' = Cardinality(Running')
               /\ submitted' = complete' + QueuedWith(Accounted)' + Cardinality(Holding(Accounted)')
    <2>1. /\ queue # <<>> /\ queue' = Tail(queue) /\ pc[w] = "woken"
          /\ pc' = [pc EXCEPT ![w] = "run"] /\ task' = [task EXCEPT ![w] = Head(queue)]
          /\ pending' = pending - 1 /\ moveble' = moveble - Flag(Head(queue), Movable)
          /\ active' = active + 1 /\ submitted' = submitted /\ complete' = complete
      BY <1>8 DEF Pop, ActiveRaised
    <2>2. Len(queue') = Len(queue) - 1
      BY <2>1, <1>0, TailRecord
    <2>3. /\ QueuedWith(Movable)' = QueuedWith(Movable) - Flag(Head(queue), Movable)
          /\ QueuedWith(Accounted)' = QueuedWith(Accounted) - Flag(Head(queue), Accounted)
      BY <2>1, QueuedMoves
    <2>4. /\ Cardinality(Running') = Cardinality(Running) + 1
          /\ Cardinality(Holding(Accounted)') =
               Cardinality(Holding(Accounted)) + Flag(Head(queue), Accounted)
      BY <2>1, HolderJoins
    <2>5. pending' = Len(queue') /\ active' = Cardinality(Running')
      BY <2>1, <2>2, <2>4, <1>2
    <2>6. moveble' = QueuedWith(Movable)'
      BY <2>1, <2>3, <1>2
    <2>7. submitted' = complete' + QueuedWith(Accounted)' + Cardinality(Holding(Accounted)')
      BY <2>1, <2>3, <2>4, <1>2, <1>3
    <2>. QED
      BY <2>5, <2>6, <2>7
  <1>9. ASSUME NEW w \in Workers, FinishTask(w)
        PROVE  /\ pending' = Len(queue')
               /\ moveble' = QueuedWith(Movable)'
               /\ active' = Cardinality(Running')
               /\ submitted' = complete' + QueuedWith(Accounted)' + Cardinality(Holding(Accounted)')
    <2>1. /\ pc[w] = "run" /\ pc' = [pc EXCEPT ![w] = "account"] /\ active' = active - 1
          /\ UNCHANGED <<queue, task, submitted, complete, pending, moveble>>
      BY <1>9 DEF FinishTask
    <2>2. /\ Cardinality(Running') = Cardinality(Running) - 1
          /\ Holding(Accounted)' = Holding(Accounted)
      BY <2>1, HolderFinishes
    <2>3. submitted' = complete' + QueuedWith(Accounted)' + Cardinality(Holding(Accounted)')
      BY <2>1, <2>2, <1>2, <1>6
    <2>. QED
      BY <2>1, <2>2, <2>3, <1>2, <1>6
  <1>10. ASSUME NEW w \in Workers, Account(w)
         PROVE  /\ pending' = Len(queue')
                /\ moveble' = QueuedWith(Movable)'
                /\ active' = Cardinality(Running')
                /\ submitted' = complete' + QueuedWith(Accounted)' + Cardinality(Holding(Accounted)')
    <2>1. /\ pc[w] = "account" /\ pc' = [pc EXCEPT ![w] = "wait"]
          /\ task' = [task EXCEPT ![w] = NoTask] /\ complete' = complete + Flag(task[w], Accounted)
          /\ UNCHANGED <<queue, submitted, pending, moveble, active>>
      BY <1>10 DEF Account, Completed
    <2>2. /\ Running' = Running
          /\ Cardinality(Holding(Accounted)') =
               Cardinality(Holding(Accounted)) - Flag(task[w], Accounted)
      BY <2>1, HolderLeaves
    <2>3. submitted' = complete' + QueuedWith(Accounted)' + Cardinality(Holding(Accounted)')
      BY <2>1, <2>2, <1>2, <1>3, <1>6
    <2>. QED
      BY <2>1, <2>2, <2>3, <1>2, <1>6
  <1>11. ASSUME NEW t \in Tasks, EnqueueTask(t)
         PROVE  /\ pending' = Len(queue')
                /\ moveble' = QueuedWith(Movable)'
                /\ active' = Cardinality(Running')
                /\ submitted' = complete' + QueuedWith(Accounted)' + Cardinality(Holding(Accounted)')
    <2>1. /\ queue' = IF t \in Urgent THEN <<t>> \o queue ELSE Append(queue, t)
          /\ submitted' = submitted + Flag(t, Accounted) /\ pending' = pending + 1
          /\ moveble' = moveble + Flag(t, Movable)
          /\ UNCHANGED <<pc, task, complete, active>>
      BY <1>11 DEF EnqueueTask
    <2>2. t \in Records
      BY <1>0
    <2>3. Len(queue') = Len(queue) + 1
      BY <2>1, <2>2, <1>0, AppendRecord, PrependRecord
    <2>4. /\ QueuedWith(Movable)' = QueuedWith(Movable) + Flag(t, Movable)
          /\ QueuedWith(Accounted)' = QueuedWith(Accounted) + Flag(t, Accounted)
      BY <2>1, <2>2, QueuedMoves
    <2>5. Running' = Running /\ Holding(Accounted)' = Holding(Accounted)
      BY <2>1, <1>5
    <2>6. pending' = Len(queue') /\ active' = Cardinality(Running')
      BY <2>1, <2>3, <2>5, <1>2
    <2>7. moveble' = QueuedWith(Movable)'
      BY <2>1, <2>4, <1>2
    <2>8. submitted' = complete' + QueuedWith(Accounted)' + Cardinality(Holding(Accounted)')
      <3>1. submitted' = submitted + Flag(t, Accounted) /\ complete' = complete
        BY <2>1
      <3>2. Flag(t, Accounted) \in {0, 1}
        BY <1>3
      <3>. QED
        BY <3>1, <3>2, <2>4, <2>5, <1>2, <1>3
    <2>. QED
      BY <2>6, <2>7, <2>8
  <1>12. CASE DequeueTask
    <2>1. PICK i \in DOMAIN queue :
            /\ queue[i] \in Movable /\ queue' = RemoveAt(queue, i)
            /\ submitted' = submitted - Flag(queue[i], Accounted)
            /\ pending' = pending - 1 /\ moveble' = moveble - 1
      BY <1>12 DEF DequeueTask, FirstMovable, QueueWithout
    <2>2. UNCHANGED <<pc, task, complete, active>>
      BY <1>12 DEF DequeueTask
    <2>3. Len(queue') = Len(queue) - 1
      BY <2>1, <1>0, RemoveRecord
    <2>4. /\ QueuedWith(Movable)' = QueuedWith(Movable) - 1
          /\ QueuedWith(Accounted)' = QueuedWith(Accounted) - Flag(queue[i], Accounted)
      BY <2>1, QueuedMoves DEF Flag
    <2>5. pending' = Len(queue') /\ active' = Cardinality(Running')
      BY <2>1, <2>2, <2>3, <1>2, <1>5
    <2>6. moveble' = QueuedWith(Movable)'
      BY <2>1, <2>4, <1>2
    <2>7. submitted' = complete' + QueuedWith(Accounted)' + Cardinality(Holding(Accounted)')
      <3>1. complete' = complete /\ Holding(Accounted)' = Holding(Accounted)
        BY <2>2, <1>5
      <3>2. Flag(queue[i], Accounted) \in {0, 1}
        BY <1>3
      <3>. QED
        BY <3>1, <3>2, <2>1, <2>4, <1>2, <1>3
    <2>. QED
      BY <2>5, <2>6, <2>7
  <1>13. CASE GetStatusBegin \/ GetStatusEnd \/ UNCHANGED vars \/ Terminated
    <2>1. UNCHANGED <<queue, pc, task, tallies>>
      BY <1>13 DEF GetStatusBegin, GetStatusEnd, vars, Terminated
    <2>. QED
      BY <2>1, <1>2, <1>5, <1>6 DEF tallies
  <1>14. CASE Shutdown
    <2>1. /\ queue' = Append(queue, Poison) /\ pending' = pending + 1
          /\ UNCHANGED <<pc, task, submitted, complete, moveble, active>>
      BY <1>14 DEF Shutdown
    <2>2. Len(queue') = Len(queue) + 1
      BY <2>1, <1>0, AppendRecord
    <2>3. QueuedWith(Movable)' = QueuedWith(Movable) /\ QueuedWith(Accounted)' = QueuedWith(Accounted)
      <3>1. Flag(Poison, Movable) = 0 /\ Flag(Poison, Accounted) = 0
        BY <1>0 DEF Flag
      <3>2. /\ QueuedWith(Movable)' = QueuedWith(Movable) + Flag(Poison, Movable)
            /\ QueuedWith(Accounted)' = QueuedWith(Accounted) + Flag(Poison, Accounted)
        BY <2>1, <1>0, QueuedMoves
      <3>. QED
        BY <3>1, <3>2, <1>3
    <2>. QED
      BY <2>1, <2>2, <2>3, <1>2, <1>3, <1>5
  <1>15. CASE Join
    BY <1>15 DEF Join
  <1>. QED
    BY <1>7, <1>8, <1>9, <1>10, <1>11, <1>12, <1>13, <1>14, <1>15 DEF Next, WorkerStep

\* The tallies are kept exact by all the places that change them, under `sync` or not.
THEOREM TalliesHold == Spec => []TalliesExact
  <1>1. Init => TalliesExact
    <2>. SUFFICES ASSUME Init
                  PROVE  TalliesExact
      OBVIOUS
    <2>1. /\ Running = {} /\ Finishing = {} /\ DOMAIN queue = {} /\ Len(queue) = 0
          /\ \A F : {i \in DOMAIN queue : queue[i] \in F} = {}
          /\ {w \in Running \cup Finishing : task[w] \in Accounted} = {}
      BY DEF Init, Running, Finishing
    <2>2. Cardinality({}) = 0
      BY FS_EmptySet
    <2>3. Cardinality(Running) = 0 /\ QueuedWith(Movable) = 0 /\ QueuedWith(Accounted) = 0
          /\ HeldWith(Running \cup Finishing, Accounted) = 0
      BY <2>1, <2>2, Zenon DEF QueuedWith, HeldWith
    <2>. QED
      BY <2>1, <2>3 DEF Init, TalliesExact
  <1>. QED
    BY <1>1, TalliesStep, OnePlaceInvariant, PTL DEF Spec

\* What a call of GetStatus has read: the numbers under `sync`, which only the workers
\* change while it lasts, and the number of complete tasks of an earlier moment.
ReadInTime ==
  /\ status.complete <= complete /\ status.complete <= status.total
  /\ sync = 0 => complete <= status.total
  /\ sync = 0 /\ main # "joined" =>
       status.total = submitted /\ status.pending = pending /\ active <= status.active

\* Every step keeps what was read in time.
LEMMA ReadStep ==
  TypeOK /\ Stopped /\ TalliesExact /\ TalliesExact' /\ ReadInTime /\ [Next]_vars => ReadInTime'
  <1>. SUFFICES ASSUME TypeOK, Stopped, TalliesExact, TalliesExact', ReadInTime, [Next]_vars
                PROVE  ReadInTime'
    OBVIOUS
  <1>. USE PoolAssumption
  <1>1. /\ submitted \in Int /\ complete \in Int /\ pending \in Int /\ active \in Int
        /\ status \in [total : Int, active : Int, pending : Int, moveble : Int, complete : Int]
        /\ sync \in {0, 1}
        /\ \A t, F : Flag(t, F) \in {0, 1}
    BY DEF TypeOK, Flag
  <1>2. main # "joined" => complete <= submitted
    <2>1. QueuedWith(Accounted) \in Nat /\ Cardinality(Holding(Accounted)) \in Nat
          /\ HeldWith(Running \cup Finishing, Accounted) = Cardinality(Holding(Accounted))
      BY QueuedCounted, HoldersFinite
    <2>. QED
      BY <1>1, <2>1 DEF TalliesExact
  <1>3. ASSUME NEW w \in Workers, CounterWait(w) \/ Exit(w)
        PROVE  ReadInTime'
    BY <1>3 DEF CounterWait, Exit, ReadInTime, tallies
  <1>4. ASSUME NEW w \in Workers, Pop(w)
        PROVE  ReadInTime'
    BY <1>4 DEF Pop, ReadInTime
  <1>5. ASSUME NEW w \in Workers, FinishTask(w)
        PROVE  ReadInTime'
    BY <1>1, <1>5 DEF FinishTask, ReadInTime
  <1>6. ASSUME NEW w \in Workers, Account(w)
        PROVE  ReadInTime'
    <2>1. /\ pc[w] = "account" /\ complete' = complete + Flag(task[w], Accounted)
          /\ pc' = [pc EXCEPT ![w] = "wait"] /\ task' = [task EXCEPT ![w] = NoTask]
          /\ UNCHANGED <<queue, submitted, pending, active, main, status, sync>>
      BY <1>6 DEF Account, Completed
    <2>2. main # "joined"
      BY <2>1 DEF Stopped
    <2>3. /\ submitted = complete + QueuedWith(Accounted) + Cardinality(Holding(Accounted))
          /\ QueuedWith(Accounted) \in Nat /\ Cardinality(Holding(Accounted)) \in Nat
      BY <2>2, QueuedCounted, HoldersFinite DEF TalliesExact
    <2>4. Flag(task[w], Accounted) <= Cardinality(Holding(Accounted))
      <3>1. w \in Holding(Accounted) <=> task[w] \in Accounted
        BY <2>1 DEF Holding, Running, Finishing
      <3>2. Cardinality(Holding(Accounted)) = 0 <=> Holding(Accounted) = {}
        BY HoldersFinite, FS_EmptySet
      <3>. QED
        BY <2>3, <3>1, <3>2 DEF Flag
    <2>5. complete' <= submitted
      BY <2>1, <2>3, <2>4, <1>1
    <2>. QED
      BY <2>1, <2>2, <2>5, <1>1 DEF ReadInTime
  <1>7. ASSUME NEW t \in Tasks, EnqueueTask(t)
        PROVE  ReadInTime'
    BY <1>7 DEF EnqueueTask, ReadInTime
  <1>8. CASE DequeueTask
    BY <1>8 DEF DequeueTask, ReadInTime
  <1>9. CASE GetStatusBegin
    BY <1>1, <1>2, <1>9 DEF GetStatusBegin, ReadInTime, tallies
  <1>10. CASE GetStatusEnd
    BY <1>1, <1>10 DEF GetStatusEnd, ReadInTime, tallies
  <1>11. CASE Shutdown
    BY <1>11 DEF Shutdown, ReadInTime
  <1>12. CASE Join
    BY <1>12 DEF Join, ReadInTime, tallies
  <1>13. CASE Terminated \/ UNCHANGED vars
    BY <1>13 DEF Terminated, vars, ReadInTime, tallies
  <1>. QED
    BY <1>3, <1>4, <1>5, <1>6, <1>7, <1>8, <1>9, <1>10, <1>11, <1>12, <1>13
       DEF Next, WorkerStep

\* What the main loop is told can be acted upon: while the call lasts a report of no
\* pending and no active task is the truth, and progress does not exceed the total.
THEOREM StatusHolds == Spec => []StatusIsTrue
  <1>1. Init => ReadInTime
    BY DEF Init, ReadInTime
  <1>2. TypeOK /\ Stopped /\ TalliesExact /\ ReadInTime => StatusIsTrue
    <2>. SUFFICES ASSUME TypeOK, Stopped, TalliesExact, ReadInTime,
                         sync = 0, status.pending = 0, status.active = 0
                  PROVE  queue = <<>> /\ Running = {}
      BY DEF StatusIsTrue, ReadInTime
    <2>1. CASE main = "joined"
      BY <2>1 DEF Stopped, Running
    <2>2. CASE main # "joined"
      <3>1. Len(queue) = 0 /\ Cardinality(Running) <= 0
        BY <2>2 DEF ReadInTime, TalliesExact
      <3>2. IsFiniteSet(Running) /\ Cardinality(Running) \in Nat
        BY PoolAssumption, HoldersFinite
      <3>3. Running = {}
        BY <3>1, <3>2, FS_EmptySet
      <3>. QED
        BY <3>1, <3>3, EmptySeq DEF TypeOK
    <2>. QED
      BY <2>1, <2>2
  <1>. QED
    BY <1>1, <1>2, ReadStep, TalliesHold, OnePlaceInvariant, PTL DEF Spec

=============================================================================
