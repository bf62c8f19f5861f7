--------------------------- MODULE HostEnvironment ---------------------------
(***************************************************************************)
(* The hosts of one computation (hostapps/taskhost/ecfhost.cxx, from       *)
(* HostEnvironment to Main).  In each host the dispatch thread of the      *)
(* Client handles messages, async_dispatch runs the closures they leave,   *)
(* worker threads run tasks, and the main thread exchanges status and      *)
(* moves tasks until `interrupt`.  The thread pool is the set of its tasks *)
(* here: ThreadPool is about what is inside.                               *)
(*                                                                         *)
(* Messages of one sender to one host stay in order, those of different    *)
(* senders do not.  Left out, as nothing here depends on them: payloads,   *)
(* progress figures, the text of messages, the acknowledgements 0x10421    *)
(* and 0x10422, the query 0x423, the flags but TaskFlagAllowMigration, and *)
(* a kernel whose Serialize fails.                                         *)
(***************************************************************************)
EXTENDS Integers, Sequences, FiniteSets, SequencesExt

CONSTANTS Hosts, Primary,
          Employer,     \* the client, which sends the table and Main
          Tasks, Main,
          Kids,         \* what each task may give to PerformTask
          Movable,      \* tasks with TaskFlagAllowMigration
          Unknown,      \* tasks whose class DeserializeTask does not know
          Enders,       \* tasks that may call DeclareOutputAndTerminate
          Workers,      \* worker threads of a host
          None,
          MaxCreated,   \* bound on the tasks given to PerformTask, Main included
          Fragile       \* bound: the hosts whose connection may break

ASSUME HostAssumption ==
  /\ Primary \in Hosts /\ Main \in Tasks \ Unknown /\ Employer \notin Hosts
  /\ IsFiniteSet(Hosts) /\ IsFiniteSet(Tasks)
  /\ Kids \in [Tasks -> SUBSET Tasks] /\ \A t \in Tasks : Main \notin Kids[t]
  /\ Movable \subseteq Tasks /\ Unknown \subseteq Tasks /\ Enders \subseteq Tasks
  /\ Workers \in Nat \ {0} /\ MaxCreated \in Nat /\ Fragile \subseteq Hosts /\ None \notin Hosts \cup Tasks

VARIABLES
  wire,       \* messages under way from a sender to a host
  up,         \* hosts with a connection to their node
  closures,   \* what async_dispatch has still to run
  table,      \* hosts that have _this, _primary and _nodes
  view,       \* _nodes[g].pending, as host h knows it
  pool,       \* tasks in the queue of the thread pool
  running,    \* tasks in DoTask
  wedged,     \* the task in which _sync has been taken twice, or None
  interrupt,  \* hosts with the flag set
  main,       \* where each main thread stands
  target,     \* the host PerformQueueRevision moves a task to
  hand,       \* the task it has taken from the pool
  created, done,   \* tasks given to PerformTask; tasks whose DoTask has returned
  stopper,    \* the first host that has sent the others 0x424
  disturbed,  \* a class was unknown, or a host without the table misbehaved
  failed      \* hosts that lost their connection

link  == <<wire, up>>
env   == <<table, view>>
work  == <<pool, running, wedged>>
loop  == <<main, target, hand>>
past  == <<created, done, stopper, disturbed, failed>>
vars  == <<link, closures, env, work, interrupt, loop, past>>

Senders == Hosts \cup {Employer}
Alive(h) == main[h] # "ended"
TableMsg     == [kind |-> "table"]
StopMsg      == [kind |-> "stop"]
TaskMsg(t)   == [kind |-> "task", task |-> t]
StatusMsg(n) == [kind |-> "status", pending |-> n]
Counts       == 0..Cardinality(Tasks)

Init ==
  /\ wire = [p \in Senders \X Hosts |->
               IF p[1] # Employer THEN <<>>
               ELSE IF p[2] = Primary THEN <<TableMsg, TaskMsg(Main)>> ELSE <<TableMsg>>]
  /\ up = Hosts
  /\ closures = [h \in Hosts |-> <<>>]
  /\ table = {} /\ view = [h \in Hosts |-> [g \in Hosts |-> 0]]
  /\ pool = [h \in Hosts |-> {}] /\ running = [h \in Hosts |-> {}]
  /\ wedged = [h \in Hosts |-> None]
  /\ interrupt = {}
  /\ main = [h \in Hosts |-> "loop"]
  /\ target = [h \in Hosts |-> None] /\ hand = [h \in Hosts |-> None]
  /\ created = {Main} /\ done = {}
  /\ stopper = None /\ disturbed = FALSE /\ failed = {}

\* SendMessage of m to each host of G over a connection that is up.
Post(h, G, m) == [p \in DOMAIN wire |-> IF p[1] = h /\ p[2] \in G \cap up
                                        THEN Append(wire[p], m) ELSE wire[p]]

\* What is left of w when host h has no connection any more.
Cut(w, h) == [p \in DOMAIN w |-> IF p[2] = h THEN <<>> ELSE w[p]]

\* The process of h is gone: an exception in a noexcept function, a division by zero.
Die(h) ==
  /\ main' = [main EXCEPT ![h] = "ended"]
  /\ wire' = Cut(wire, h) /\ up' = up \ {h}
  /\ closures' = [closures EXCEPT ![h] = <<>>]
  /\ pool' = [pool EXCEPT ![h] = {}] /\ running' = [running EXCEPT ![h] = {}]
  /\ target' = [target EXCEPT ![h] = None] /\ hand' = [hand EXCEPT ![h] = None]
  /\ UNCHANGED <<env, wedged, interrupt, created, done, stopper, failed>>

-----------------------------------------------------------------------------
(* EventHandler: 0x424 acts at once, the rest leaves closures to async_dispatch *)

\* a variant in which a closure overtakes those before it
SubmitFirst(h, c) == [closures EXCEPT ![h] = <<c>> \o @]
SubmitTask(h, c)  == [closures EXCEPT ![h] = Append(@, c)]

HandleMessage(f, h) ==
  /\ h \in up /\ wire[<<f, h>>] # <<>>
  /\ wire' = [wire EXCEPT ![<<f, h>>] = Tail(@)]
  /\ LET m == Head(wire[<<f, h>>])
     IN  \/ /\ m.kind = "stop"
            /\ interrupt' = interrupt \cup {h}
            /\ UNCHANGED <<closures, disturbed>>
         \/ /\ m.kind = "task" /\ m.task \in Unknown
            /\ closures' = SubmitTask(h, [kind |-> "failed"])
            /\ disturbed' = TRUE /\ UNCHANGED interrupt
         \/ /\ m.kind = "status"
            /\ closures' = SubmitTask(h, [kind |-> "status", pending |-> m.pending, from |-> f])
            /\ UNCHANGED <<interrupt, disturbed>>
         \/ /\ m.kind = "table" \/ (m.kind = "task" /\ m.task \notin Unknown)
            /\ closures' = SubmitTask(h, m)
            /\ UNCHANGED <<interrupt, disturbed>>
  /\ UNCHANGED <<up, env, work, loop, created, done, stopper, failed>>

ConnectionLost(h) ==
  /\ Alive(h) /\ h \notin up /\ h \notin interrupt
  /\ interrupt' = interrupt \cup {h}
  /\ UNCHANGED <<link, closures, env, work, loop, past>>

\* The closures that need _sync wait for ever when it is wedged.
IsNext(h, kind) ==
  /\ closures[h] # <<>> /\ Head(closures[h]).kind = kind
  /\ kind # "task" => wedged[h] = None

ClosuresLeft(h) == [closures EXCEPT ![h] = Tail(@)]
NextClosure(h, kind) == IsNext(h, kind) /\ closures' = ClosuresLeft(h)

ProcessInitPackage(h) ==
  /\ NextClosure(h, "table")
  /\ table' = table \cup {h}
  /\ view' = [view EXCEPT ![h] = [g \in Hosts |-> 0]]
  /\ UNCHANGED <<link, work, interrupt, loop, past>>

\* What goes into the pool behind the stop record is thrown away with the queue.
Enqueue(h, t) == IF main[h] = "joining" THEN pool ELSE [pool EXCEPT ![h] = @ \cup {t}]

TaskArrives(h) ==
  /\ NextClosure(h, "task")
  /\ pool' = Enqueue(h, Head(closures[h]).task)
  /\ UNCHANGED <<link, env, running, wedged, interrupt, loop, past>>

ProcessStatusPackage(h) ==
  /\ NextClosure(h, "status")
  /\ LET c == Head(closures[h])
     IN  view' = IF h \in table THEN [view EXCEPT ![h][c.from] = c.pending] ELSE view
  /\ UNCHANGED <<link, table, work, interrupt, loop, past>>

\* The hosts Terminate sends 0x424 to; a variant that forgets one of them.
AllButPrimary(h) == IF h \in table THEN Hosts \ {h, Primary} ELSE {}
OtherHosts(h)    == IF h \in table THEN Hosts \ {h} ELSE {}

\* Terminate, which is noexcept: without a connection it ends the process.  The caller
\* leaves cls for async_dispatch.
Terminate(h, cls) ==
  IF h \in up \/ OtherHosts(h) = {}
  THEN /\ closures' = cls
       /\ interrupt' = interrupt \cup {h}
       /\ wire' = Post(h, OtherHosts(h), StopMsg)
       /\ stopper' = IF stopper = None /\ h \in table THEN h ELSE stopper
       /\ disturbed' = (disturbed \/ h \notin table)
       /\ UNCHANGED <<up, env, work, loop, created, done, failed>>
  ELSE Die(h) /\ UNCHANGED disturbed

TaskFailedToRestore(h) ==
  /\ IsNext(h, "failed") /\ Terminate(h, ClosuresLeft(h))

RunClosure(h) ==
  ProcessInitPackage(h) \/ TaskArrives(h) \/ ProcessStatusPackage(h) \/ TaskFailedToRestore(h)

-----------------------------------------------------------------------------
(* The worker threads and the calls of the tasks *)

Pop(h) ==
  /\ Alive(h) /\ Cardinality(running[h]) < Workers
  /\ \E t \in pool[h] :
       /\ pool' = [pool EXCEPT ![h] = @ \ {t}]
       /\ running' = [running EXCEPT ![h] = @ \cup {t}]
  /\ UNCHANGED <<link, closures, env, wedged, interrupt, loop, past>>

DoTaskReturns(h, t) ==
  /\ t \in running[h] /\ wedged[h] # t
  /\ running' = [running EXCEPT ![h] = @ \ {t}]
  /\ done' = done \cup {t}
  /\ UNCHANGED <<link, closures, env, pool, wedged, interrupt, loop, created, stopper,
                 disturbed, failed>>

\* Running task c gives away t, and _sync can be taken.
Calls(h, c, t) ==
  /\ c \in running[h] /\ wedged[h] = None
  /\ t \in Kids[c] \ created /\ Cardinality(created) < MaxCreated
  /\ created' = created \cup {t}

\* ReportMessage by a thread that holds _sync already, for which it waits.
ReportMessage(h, c) == wedged' = [wedged EXCEPT ![h] = c]

\* PerformTask for this host, which reports a class that is not known.
PerformTaskHere(h, c, t) ==
  /\ h \in table /\ Calls(h, c, t)
  /\ IF t \in Unknown
     THEN ReportMessage(h, c) /\ disturbed' = TRUE /\ UNCHANGED pool
     ELSE pool' = Enqueue(h, t) /\ UNCHANGED <<wedged, disturbed>>
  /\ UNCHANGED <<link, closures, env, running, interrupt, loop, done, stopper, failed>>

\* PerformTask for host g: the load pointer's choice, or the address given.  A host
\* that does not know its own address takes itself for another.
PerformTaskThere(h, c, t, g) ==
  /\ g # h \/ h \notin table
  /\ Calls(h, c, t)
  /\ wire' = IF h \in up THEN Post(h, {g}, TaskMsg(t)) ELSE wire
  /\ UNCHANGED <<up, closures, env, work, interrupt, loop, done, stopper, disturbed, failed>>

\* Without a table there is no host to choose, and the pointer is advanced modulo zero.
PerformTaskNowhere(h, c) ==
  /\ h \notin table /\ c \in running[h] /\ wedged[h] = None
  /\ Kids[c] \ created # {} /\ Cardinality(created) < MaxCreated
  /\ disturbed' = TRUE
  /\ Die(h)

\* DeclareOutput, which takes _sync; the output goes to the employer.
DeclareOutput(h) == wedged[h] = None

\* Bound on the rate: over a connection that is up the computation is not called off anew
\* before the others have read the last call.
StopRead(h) ==
  \A g \in Hosts : \A i \in DOMAIN wire[<<h, g>>] : wire[<<h, g>>][i].kind # "stop"

\* At any time: also when the host has been told to stop and has disconnected.
DeclareOutputAndTerminate(h, t) ==
  /\ t \in running[h] \cap Enders /\ DeclareOutput(h)
  /\ h \in up => StopRead(h)
  /\ Terminate(h, closures)

Worker(h) ==
  \/ Pop(h)
  \/ \E t \in Tasks : DoTaskReturns(h, t) \/ DeclareOutputAndTerminate(h, t)
  \/ \E c \in Tasks : \/ PerformTaskNowhere(h, c)
                      \/ \E t \in Tasks : \/ PerformTaskHere(h, c, t)
                                          \/ \E g \in Hosts : PerformTaskThere(h, c, t, g)

-----------------------------------------------------------------------------
(* The main thread *)

\* Bound on the rate: a status is sent once a second, and not before the last one to
\* the same host has been read.
StatusRead(h) ==
  \A g \in Hosts \ {h} :
    /\ \A i \in DOMAIN wire[<<h, g>>] : wire[<<h, g>>][i].kind # "status"
    /\ \A i \in DOMAIN closures[g] : closures[g][i].kind = "status" => closures[g][i].from # h

\* self_pending / 2 > least_tasks; a variant without the division
WorthSharing(pending, least) == pending > least
WorthMoving(pending, least)  == pending \div 2 > least

\* The hosts with the fewest tasks pending; a variant that does not skip itself.
LeastOf(h, G)    == {g \in G : \A k \in G : view[h][g] <= view[h][k]}
LeastOfAll(h)    == IF h \in table THEN LeastOf(h, Hosts) ELSE {}
LeastLoaded(h)   == LeastOf(h, OtherHosts(h))

\* PerformQueueRevision up to the decision: the tallies first, then the status to the
\* others, then the least loaded of them.
PerformQueueRevision(h) ==
  /\ main[h] = "loop" /\ h \notin interrupt /\ h \in up
  /\ wedged[h] = None /\ StatusRead(h)
  /\ LET pending == Cardinality(pool[h])
         Better  == {g \in LeastLoaded(h) : WorthMoving(pending, view[h][g])}
     IN  /\ wire' = Post(h, OtherHosts(h), StatusMsg(pending))
         /\ IF pool[h] \cap Movable = {} \/ Better = {}
            THEN UNCHANGED <<main, target>>
            ELSE \E g \in Better : /\ target' = [target EXCEPT ![h] = g]
                                   /\ main' = [main EXCEPT ![h] = "dequeue"]
  /\ UNCHANGED <<up, closures, env, work, interrupt, hand, past>>

\* It sends its status to the node at any rate, and is noexcept.
RevisionFails(h) ==
  /\ main[h] = "loop" /\ h \notin interrupt /\ h \notin up /\ wedged[h] = None
  /\ Die(h) /\ UNCHANGED disturbed

\* pool->DequeueTask: the workers may have been faster.  A variant forgets to remove it.
PoolKept(h, t) == pool
PoolLess(h, t) == [pool EXCEPT ![h] = @ \ {t}]
HandFilled(h)  == pool[h] \cap Movable # {}

DequeueTask(h) ==
  /\ main[h] = "dequeue"
  /\ IF HandFilled(h)
     THEN \E t \in pool[h] \cap Movable :
            /\ pool' = PoolLess(h, t)
            /\ hand' = [hand EXCEPT ![h] = t]
            /\ main' = [main EXCEPT ![h] = "send"]
            /\ UNCHANGED target
     ELSE /\ main' = [main EXCEPT ![h] = "loop"]
          /\ target' = [target EXCEPT ![h] = None]
          /\ UNCHANGED <<pool, hand>>
  /\ UNCHANGED <<link, closures, env, running, wedged, interrupt, past>>

\* PerformTask of what it has got: lost when the connection is.
SendTask(h) ==
  /\ main[h] = "send" /\ wedged[h] = None
  /\ wire' = IF h \in up THEN Post(h, {target[h]}, TaskMsg(hand[h])) ELSE wire
  /\ main' = [main EXCEPT ![h] = "loop"]
  /\ target' = [target EXCEPT ![h] = None] /\ hand' = [hand EXCEPT ![h] = None]
  /\ UNCHANGED <<up, closures, env, work, interrupt, past>>

\* async_dispatch->Break, client->Disconnect, client->Wait.  The closure that is being
\* run may still be finished, the others are not.
LeaveLoop(h) ==
  /\ main[h] = "loop" /\ h \in interrupt
  /\ main' = [main EXCEPT ![h] = "closing"]
  /\ up' = up \ {h} /\ wire' = Cut(wire, h)
  /\ \E n \in {0, 1} : closures' = [closures EXCEPT ![h] = IF @ = <<>> THEN @ ELSE SubSeq(@, 1, n)]
  /\ UNCHANGED <<env, work, interrupt, target, hand, past>>

\* pool->Shutdown: the tasks in front of the stop record are still run.
Shutdown(h) ==
  /\ main[h] = "closing"
  /\ main' = [main EXCEPT ![h] = "joining"]
  /\ UNCHANGED <<link, closures, env, work, interrupt, target, hand, past>>

Exit(h) ==
  /\ main[h] = "joining" /\ pool[h] = {} /\ running[h] = {}
  /\ main' = [main EXCEPT ![h] = "ended"]
  /\ closures' = [closures EXCEPT ![h] = <<>>]
  /\ UNCHANGED <<link, env, work, interrupt, target, hand, past>>

MainThread(h) ==
  \/ PerformQueueRevision(h) \/ RevisionFails(h) \/ DequeueTask(h) \/ SendTask(h)
  \/ LeaveLoop(h) \/ Shutdown(h) \/ Exit(h)

\* The connection of h breaks: what is under way to it is lost, and what it has sent
\* last may be.
LinkLost(h) ==
  /\ h \in up \cap Fragile
  /\ failed' = failed \cup {h} /\ up' = up \ {h}
  /\ \E keep \in BOOLEAN :
       wire' = [p \in DOMAIN wire |-> IF p[2] = h \/ (p[1] = h /\ ~keep) THEN <<>> ELSE wire[p]]
  /\ UNCHANGED <<closures, env, work, interrupt, loop, created, done, stopper, disturbed>>

-----------------------------------------------------------------------------

Next ==
  \E h \in Hosts :
    \/ \E f \in Senders : HandleMessage(f, h)
    \/ ConnectionLost(h) \/ RunClosure(h) \/ Worker(h) \/ MainThread(h) \/ LinkLost(h)

Spec == Init /\ [][Next]_vars

\* Threads run, messages arrive, tasks return; nobody has to create or to stop anything.
Fairness ==
  \A h \in Hosts :
    /\ \A f \in Senders : WF_vars(HandleMessage(f, h))
    /\ WF_vars(ConnectionLost(h)) /\ WF_vars(RunClosure(h)) /\ WF_vars(Pop(h))
    /\ WF_vars(\E t \in Tasks : DoTaskReturns(h, t))
    /\ WF_vars(MainThread(h))

FairSpec == Spec /\ Fairness

-----------------------------------------------------------------------------
(* Properties *)

Messages == {TableMsg, StopMsg} \cup {TaskMsg(t) : t \in Tasks} \cup {StatusMsg(n) : n \in Counts}
Closures ==
  {TableMsg, [kind |-> "failed"]} \cup {TaskMsg(t) : t \in Tasks \ Unknown}
    \cup [kind : {"status"}, pending : Counts, from : Hosts]

TypeOK ==
  /\ wire \in [Senders \X Hosts -> Seq(Messages)] /\ up \subseteq Hosts
  /\ closures \in [Hosts -> Seq(Closures)]
  /\ table \subseteq Hosts /\ view \in [Hosts -> [Hosts -> Counts]]
  /\ pool \in [Hosts -> SUBSET (Tasks \ Unknown)]
  /\ running \in [Hosts -> SUBSET (Tasks \ Unknown)]
  /\ \A h \in Hosts : wedged[h] = None \/ wedged[h] \in running[h]
  /\ interrupt \subseteq Hosts
  /\ main \in [Hosts -> {"loop", "dequeue", "send", "closing", "joining", "ended"}]
  /\ \A h \in Hosts : IF main[h] \in {"dequeue", "send"} THEN target[h] \in Hosts \ {h}
                                                        ELSE target[h] = None
  /\ \A h \in Hosts : IF main[h] = "send" THEN hand[h] \in Movable ELSE hand[h] = None
  /\ created \subseteq Tasks /\ done \subseteq created
  /\ stopper \in Hosts \cup {None} /\ disturbed \in BOOLEAN /\ failed \subseteq Hosts

\* The primary has the table when a task runs there, though the table is left to a
\* closure and tasks of other hosts may come at any time.
PrimaryReady == running[Primary] # {} => Primary \in table

\* Where task t is: how many copies of it the hosts and the net hold.
Among(t, s)  == \E i \in DOMAIN s : s[i].kind = "task" /\ s[i].task = t
Sent(t)      == {p \in DOMAIN wire : Among(t, wire[p])}
HeldBy(t, h) == {k \in 1..4 : CASE k = 1 -> Among(t, closures[h])
                               [] k = 2 -> t \in pool[h]
                               [] k = 3 -> t \in running[h]
                               [] k = 4 -> t = hand[h]}
Holders(t)   == {h \in Hosts : HeldBy(t, h) # {}}

\* A task is at one place at a time, and nowhere once it is done, whichever main thread,
\* worker or message takes it from one queue to another.
OnePlace ==
  \A t \in created :
    /\ Cardinality(Sent(t)) + Cardinality(Holders(t)) <= 1
    /\ \A h \in Holders(t) : Cardinality(HeldBy(t, h)) = 1
    /\ t \in done => Sent(t) = {} /\ Holders(t) = {}

\* The hosts together keep the promise of Computation: the refinement mapping.
Ending == stopper # None \/ disturbed \/ failed # {}

PhaseOf(t) ==
  IF t \notin created THEN "new"
  ELSE IF t \in done THEN "done"
  ELSE IF \E h \in Hosts : t \in running[h] THEN "running"
  ELSE IF Holders(t) # {} \/ Sent(t) # {} THEN "waiting" ELSE "lost"

Promise == INSTANCE Computation WITH phase <- [t \in Tasks |-> PhaseOf(t)], ending <- Ending

\* Each task is run once and by one of the hosts; none is lost before the computation is
\* called off or disturbed.
ImplementsComputation == Promise!Spec

\* Tasks are not sent to and fro for ever: again and again all that were created are done,
\* or the end has come.
WorkDone == []<>(created \subseteq done \/ Ending)

\* Once a host that has the table calls the computation off every process ends, also
\* one that is moving a task or still has tasks queued; not one that is wedged.
AllStop ==
  stopper # None ~> \/ stopper \in failed
                    \/ \A g \in Hosts : main[g] = "ended" \/ wedged[g] # None

=============================================================================
