----------------------------- MODULE ThreadPool -----------------------------
(***************************************************************************)
(* SpreadedThreadPool of the task host (hostapps/taskhost/ecfhost.cxx): a  *)
(* queue of tasks, a semaphore `counter` that counts the queued records, a *)
(* binary semaphore `sync` over the queue and its tallies, and the worker  *)
(* threads.  Enqueuing, dequeuing and popping do nothing that can block    *)
(* while they hold `sync`, so each is one step taken when `sync` is open.  *)
(* GetStatus is two steps: two of the tallies it reads are changed by the  *)
(* workers without `sync`.                                                 *)
(***************************************************************************)
EXTENDS Integers, Sequences, FiniteSets, SequencesExt

CONSTANTS Workers,    \* the threads the constructor creates
          Tasks,      \* the tasks ever given to the pool
          Movable,    \* tasks with TaskFlagAllowMigration
          Urgent,     \* tasks with TaskFlagFirstPriority
          Accounted,  \* tasks with TaskFlagProgressAccount
          Poison,     \* the record with TaskFlagShutdownThread
          NoTask      \* a null task reference

ASSUME PoolAssumption ==
  /\ IsFiniteSet(Workers)
  /\ Movable \subseteq Tasks /\ Urgent \subseteq Tasks /\ Accounted \subseteq Tasks
  /\ Poison \notin Tasks /\ NoTask \notin Tasks /\ Poison # NoTask

VARIABLES queue,      \* _queue
          counter,    \* value of the semaphore _counter
          sync,       \* value of the semaphore _sync
          pc,         \* where each worker stands in _thread_proc
          task,       \* the task each worker holds
          submitted, complete, pending, moveble, active,   \* the tallies
          main,       \* the main thread: "loop", "joining" or "joined"
          status,     \* what the GetStatus call in progress, or the last one, has read
          done,       \* tasks whose DoTask has returned
          migrated,   \* tasks DequeueTask has handed to the main thread
          dropped     \* tasks discarded with the queue when the pool has stopped

tallies == <<submitted, complete, pending, moveble, active>>
vars == <<queue, counter, sync, pc, task, tallies, main, status, done, migrated, dropped>>

Records == Tasks \cup {Poison}
Woken   == {w \in Workers : pc[w] = "woken"}
Running == {w \in Workers : pc[w] = "run"}
Finishing == {w \in Workers : pc[w] = "account"}

\* 1 when task t carries the flag that the set F stands for
Flag(t, F) == IF t \in F THEN 1 ELSE 0

Queued(t)  == \E i \in DOMAIN queue : queue[i] = t
IsRunning(t) == \E w \in Running : task[w] = t
Known(t)   == Queued(t) \/ IsRunning(t) \/ t \in done \/ t \in migrated

Init ==
  /\ queue = <<>> /\ counter = 0 /\ sync = 1
  /\ pc = [w \in Workers |-> "wait"] /\ task = [w \in Workers |-> NoTask]
  /\ submitted = 0 /\ complete = 0 /\ pending = 0 /\ moveble = 0 /\ active = 0
  /\ main = "loop"
  /\ status = [total |-> 0, active |-> 0, pending |-> 0, moveble |-> 0, complete |-> 0]
  /\ done = {} /\ migrated = {} /\ dropped = {}

-----------------------------------------------------------------------------
(* _thread_proc *)

\* _counter->Wait()
CounterWait(w) ==
  /\ pc[w] = "wait" /\ counter > 0
  /\ counter' = counter - 1
  /\ pc' = [pc EXCEPT ![w] = "woken"]
  /\ UNCHANGED <<queue, sync, task, tallies, main, status, done, migrated, dropped>>

\* The count a stopping worker gives back; a variant that gives nothing back.
CountKept     == counter
CountReopened == counter + 1

\* The first record tells the thread to stop: it leaves the record in place and
\* opens the counter again for the next worker.
Exit(w) ==
  /\ pc[w] = "woken" /\ sync = 1
  /\ queue # <<>> /\ Head(queue) = Poison
  /\ counter' = CountReopened
  /\ pc' = [pc EXCEPT ![w] = "exited"]
  /\ UNCHANGED <<queue, sync, task, tallies, main, status, done, migrated, dropped>>

\* InterlockedIncrement(_workers_active), still under `sync`; a variant without it.
ActiveSame   == active
ActiveRaised == active + 1

Pop(w) ==
  /\ pc[w] = "woken" /\ sync = 1
  /\ queue # <<>> /\ Head(queue) # Poison
  /\ queue' = Tail(queue)
  /\ task' = [task EXCEPT ![w] = Head(queue)]
  /\ pending' = pending - 1
  /\ moveble' = moveble - Flag(Head(queue), Movable)
  /\ active' = ActiveRaised
  /\ pc' = [pc EXCEPT ![w] = "run"]
  /\ UNCHANGED <<counter, sync, submitted, complete, main, status, done, migrated, dropped>>

\* DoTask returns, the reference is dropped, InterlockedDecrement(_workers_active)
FinishTask(w) ==
  /\ pc[w] = "run"
  /\ done' = done \cup {task[w]}
  /\ active' = active - 1
  /\ pc' = [pc EXCEPT ![w] = "account"]
  /\ UNCHANGED <<queue, counter, sync, task, submitted, complete, pending, moveble,
                 main, status, migrated, dropped>>

\* What _tasks_complete becomes; a variant that ignores the task's flag.
CompletedAny(w) == complete + 1
Completed(w)    == complete + Flag(task[w], Accounted)

\* InterlockedIncrement(_tasks_complete), then back to the top of the loop
Account(w) ==
  /\ pc[w] = "account"
  /\ complete' = Completed(w)
  /\ task' = [task EXCEPT ![w] = NoTask]
  /\ pc' = [pc EXCEPT ![w] = "wait"]
  /\ UNCHANGED <<queue, counter, sync, submitted, pending, moveble, active, main,
                 status, done, migrated, dropped>>

-----------------------------------------------------------------------------
(* The methods, called by the dispatch thread, by running tasks and by main *)

\* _counter->Open(); a variant that opens it for ordinary tasks only.
CountRaisedUnlessUrgent(t) == counter + 1 - Flag(t, Urgent)
CountRaised(t)             == counter + 1

EnqueueTask(t) ==
  /\ main # "joined" /\ sync = 1 /\ ~Known(t)
  /\ queue' = IF t \in Urgent THEN <<t>> \o queue ELSE Append(queue, t)
  /\ submitted' = submitted + Flag(t, Accounted)
  /\ pending' = pending + 1
  /\ moveble' = moveble + Flag(t, Movable)
  /\ counter' = CountRaised(t)
  /\ UNCHANGED <<sync, pc, task, complete, active, main, status, done, migrated, dropped>>

\* The main thread takes the first movable record for which _counter->TryWait()
\* succeeds; when the counter is 0 every record is already owed to a worker.
FirstMovable(i) ==
  /\ queue[i] \in Movable
  /\ \A j \in DOMAIN queue : j < i => queue[j] \notin Movable

\* The queue without record i, and the count its removal uses up; a variant that
\* leaves the record in the queue, and one that leaves the count.
QueueWith(i)    == queue
QueueWithout(i) == RemoveAt(queue, i)
CountUntaken    == counter
CountTaken      == counter - 1

\* _counter->TryWait() succeeds; a variant that does not try.
Unclaimed   == TRUE
TryWait     == counter > 0

DequeueTask ==
  /\ main = "loop" /\ sync = 1 /\ TryWait
  /\ \E i \in DOMAIN queue :
       /\ FirstMovable(i)
       /\ queue' = QueueWithout(i)
       /\ migrated' = migrated \cup {queue[i]}
       /\ submitted' = submitted - Flag(queue[i], Accounted)
       /\ pending' = pending - 1
       /\ moveble' = moveble - 1
  /\ counter' = CountTaken
  /\ UNCHANGED <<sync, pc, task, complete, active, main, status, done, dropped>>

\* GetStatus: the tallies under `sync` and the number of active workers ...
GetStatusBegin ==
  /\ main # "joined" /\ sync = 1
  /\ sync' = 0
  /\ status' = [total |-> submitted, active |-> active, pending |-> pending,
                moveble |-> moveble, complete |-> status.complete]
  /\ UNCHANGED <<queue, counter, pc, task, tallies, main, done, migrated, dropped>>

\* ... then the number of complete tasks, which workers raise without `sync`.
GetStatusEnd ==
  /\ sync = 0
  /\ sync' = 1
  /\ status' = [status EXCEPT !.complete = complete]
  /\ UNCHANGED <<queue, counter, pc, task, tallies, main, done, migrated, dropped>>

\* Shutdown enqueues the stop record and waits for the workers.
Shutdown ==
  /\ main = "loop" /\ sync = 1
  /\ main' = "joining"
  /\ queue' = Append(queue, Poison)
  /\ pending' = pending + 1
  /\ counter' = counter + 1
  /\ UNCHANGED <<sync, pc, task, submitted, complete, moveble, active, status, done,
                 migrated, dropped>>

Join ==
  /\ main = "joining"
  /\ \A w \in Workers : pc[w] = "exited"
  /\ main' = "joined"
  /\ queue' = <<>>
  /\ dropped' = {t \in Tasks : Queued(t)}
  /\ UNCHANGED <<counter, sync, pc, task, tallies, status, done, migrated>>

\* The process has left the pool behind.
Terminated == main = "joined" /\ sync = 1 /\ UNCHANGED vars

WorkerStep(w) == CounterWait(w) \/ Exit(w) \/ Pop(w) \/ FinishTask(w) \/ Account(w)

Next ==
  \/ \E w \in Workers : WorkerStep(w)
  \/ \E t \in Tasks : EnqueueTask(t)
  \/ DequeueTask \/ GetStatusBegin \/ GetStatusEnd \/ Shutdown \/ Join \/ Terminated

Spec == Init /\ [][Next]_vars

\* Threads run and tasks return; the semaphore `sync` does not starve a waiter.
Fairness ==
  /\ \A w \in Workers : /\ WF_vars(CounterWait(w) \/ FinishTask(w) \/ Account(w))
                        /\ SF_vars(Exit(w) \/ Pop(w))
  /\ WF_vars(GetStatusEnd) /\ WF_vars(Join)

FairSpec == Spec /\ Fairness

-----------------------------------------------------------------------------
(* Properties *)

TypeOK ==
  /\ queue \in Seq(Records)
  /\ counter \in Nat /\ sync \in {0, 1}
  /\ pc \in [Workers -> {"wait", "woken", "run", "account", "exited"}]
  /\ task \in [Workers -> Tasks \cup {NoTask}]
  /\ \A w \in Workers : pc[w] \in {"run", "account"} => task[w] \in Tasks
  /\ submitted \in Int /\ complete \in Int /\ pending \in Int
  /\ moveble \in Int /\ active \in Int
  /\ main \in {"loop", "joining", "joined"}
  /\ status \in [total : Int, active : Int, pending : Int, moveble : Int, complete : Int]
  /\ done \subseteq Tasks /\ migrated \subseteq Tasks /\ dropped \subseteq Tasks

\* _thread_proc dereferences _queue.GetFirst() without a test: a worker that has
\* passed the counter always finds a record, whatever DequeueTask removed and
\* however many workers stopped in between.
GetFirstNotNull == \A w \in Woken : queue # <<>>

\* How many tasks with the flag F are in the queue, or held by the workers of W.
QueuedWith(F) == Cardinality({i \in DOMAIN queue : queue[i] \in F})
HeldWith(W, F) == Cardinality({w \in W : task[w] \in F})

\* The five tallies, kept in five places under two disciplines (the semaphore and
\* the interlocked operations), agree with the queue and the workers they
\* summarise until the pool is closed.
TalliesExact ==
  main # "joined" =>
    /\ pending = Len(queue)
    /\ moveble = QueuedWith(Movable)
    /\ active = Cardinality(Running)
    /\ submitted = complete + QueuedWith(Accounted)
                     + HeldWith(Running \cup Finishing, Accounted)

\* What GetStatus returns can be acted upon: progress never exceeds the total, and
\* while the call lasts a report of no pending and no active task is the truth (a
\* task between the queue and its worker is never missed).
StatusIsTrue ==
  /\ status.complete <= status.total
  /\ sync = 0 => complete <= status.total
  /\ sync = 0 /\ status.pending = 0 /\ status.active = 0
       => queue = <<>> /\ Running = {}

\* The inductive strengthening: every record is owed to one worker or counted by
\* the semaphore, and a task is in one place only.
CounterCoversQueue == main # "joined" => counter + Cardinality(Woken) = Len(queue)

Stopped == main = "joined" => queue = <<>> /\ \A w \in Workers : pc[w] = "exited"

OnePlace ==
  /\ \A i, j \in DOMAIN queue : queue[i] = queue[j] => i = j
  /\ main = "loop" => \A i \in DOMAIN queue : queue[i] # Poison
  /\ \A w \in Running : task[w] \in Tasks \ (done \cup migrated)
  /\ \A w, v \in Running : task[w] = task[v] => w = v
  /\ \A i \in DOMAIN queue : queue[i] \notin done \cup migrated
  /\ \A i \in DOMAIN queue, w \in Running : queue[i] # task[w]
  /\ done \cap migrated = {}
  /\ dropped \cap (done \cup migrated) = {}
  /\ main # "joined" => dropped = {}

IInv == CounterCoversQueue /\ Stopped /\ OnePlace

\* The pool keeps the promise of TaskLifecycle: the refinement mapping.
PhaseOf(t) == IF t \in done THEN "done"
              ELSE IF t \in migrated THEN "migrated"
              ELSE IF t \in dropped THEN "dropped"
              ELSE IF IsRunning(t) THEN "running"
              ELSE IF Queued(t) THEN "queued"
              ELSE "new"

Lifecycle == INSTANCE TaskLifecycle WITH phase <- [t \in Tasks |-> PhaseOf(t)],
                                         closed <- (main = "joined")

\* No task is run twice, run after it was handed to another host, or lost before
\* the pool is shut down: every step is a step of the abstract life of a task.
ImplementsLifecycle == Lifecycle!Spec

\* One stop record ends all the workers, so Shutdown returns.
ShutdownCompletes == main = "joining" ~> main = "joined"

\* No wake-up is lost: a queued task is started or handed over, or the pool closes.
QueuedTaskLeaves == \A t \in Tasks : Queued(t) ~> ~Queued(t)

=============================================================================
