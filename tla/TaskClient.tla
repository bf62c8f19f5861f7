------------------------------ MODULE TaskClient ------------------------------
(***************************************************************************)
(* TaskClient (client/ClusterTaskClient.cxx): it asks every node of the    *)
(* net for a host, collects the answers in a table, and when every node is *)
(* known sends the table to the started hosts and the task Main to the     *)
(* first of them.  Four threads share it: the caller, the dispatch thread  *)
(* of the Client below it, the TaskQueue that runs the handlers, and a     *)
(* watchdog.  They meet in two semaphores: `tc`, TaskClient::_sync, and    *)
(* `cl`, Client::_sync, which the dispatch thread holds during a callback  *)
(* and every SendMessage takes.                                            *)
(*                                                                         *)
(* Time is abstract: a timeout may strike whenever its condition on the    *)
(* states allows it.  The acknowledgements 0x10421 and 0x10422 only touch  *)
(* time stamps and are left out.                                           *)
(***************************************************************************)
EXTENDS Integers, Sequences, FiniteSets, SequencesExt

CONSTANTS N,            \* nodes in the net, in the order EnumerateNodes lists them
          MaxNotices,   \* bound on the HostIsStarting notices received
          MaxProgress,  \* bound on the 0x10423 reports received
          MaxOutputs    \* bound on the 0x431 results received

ASSUME ClientAssumption ==
  N \in Nat \ {0} /\ MaxNotices \in Nat /\ MaxProgress \in Nat /\ MaxOutputs \in Nat

Nodes == 1..N

VARIABLES
  status,     \* _status
  hosts,      \* _hosts[n]._status: "none" until Start lists the nodes
  asked,      \* how many nodes Start has sent 0x411 to
  start,      \* the caller: "idle", "listing", "asking", "started", or out of Start by an
              \* exception of EnumerateNodes ("unlisted") or of SendMessage ("threw")
  tc, cl,     \* who holds each semaphore, or "free"
  queue,      \* closures submitted to the TaskQueue
  unsent,     \* hosts to which the closure that is sending has still to send the table
  dispatch,   \* the dispatch thread: "run", "calling" or "ended"
  watchdog,   \* "none", "run" or "ended"
  link,       \* the connection to the node: "up" or "lost"
  answered,   \* nodes that have sent their final answer
  notices, reports, outputs,   \* messages received so far
  progress,   \* _complete and _total: "none", "partial" or "final"
  finish,     \* value of the semaphore _finish
  finished,   \* _finish has been opened at some time
  result,     \* history: "none", "given" by a 0x431, or "relaunched" after it
  tables, mains   \* the hosts sent 0x421, and those sent 0x422 Main, in order

calls == <<asked, start>>
outcome == <<progress, result>>
net   == <<link, answered, notices, reports, outputs>>
sent  == <<tables, mains>>
vars  == <<status, hosts, calls, tc, cl, queue, unsent, dispatch, watchdog, net, outcome,
           finish, finished, sent>>

Terminal == {"success", "nonodes", "failure"}   \* TaskErrorSuccess or 0x8000 set
StartingHosts == {n \in Nodes : hosts[n] = "starting"}
StartedHosts  == {n \in Nodes : hosts[n] = "started"}

Init ==
  /\ status = "idle" /\ hosts = [n \in Nodes |-> "none"]
  /\ asked = 0 /\ start = "idle"
  /\ tc = "free" /\ cl = "free"
  /\ queue = <<>> /\ unsent = {}
  /\ dispatch = "run" /\ watchdog = "none"
  /\ link = "up" /\ answered = {} /\ notices = 0
  /\ reports = 0 /\ outputs = 0
  /\ progress = "none" /\ result = "none" /\ finish = 0 /\ finished = FALSE
  /\ tables = <<>> /\ mains = <<>>

Finish == finish' = finish + 1 /\ finished' = TRUE

-----------------------------------------------------------------------------
(* The caller *)

\* Start asks the node for the nodes of the net ...
Start ==
  /\ start = "idle"
  /\ status' = "init" /\ start' = "listing"
  /\ UNCHANGED <<hosts, asked, tc, cl, queue, unsent, dispatch, watchdog, net, outcome, finish,
                 finished, sent>>

\* ... and lists them, ...
ListNodes ==
  /\ start = "listing"
  /\ hosts' = [n \in Nodes |-> "starting"] /\ start' = "asking"
  /\ UNCHANGED <<status, asked, tc, cl, queue, unsent, dispatch, watchdog, net, outcome, finish,
                 finished, sent>>

\* ... or gives up when there are none; ...
NoNodes ==
  /\ start = "listing"
  /\ status' = "nonodes" /\ Finish
  /\ start' = "started"
  /\ UNCHANGED <<hosts, asked, tc, cl, queue, unsent, dispatch, watchdog, net, outcome, sent>>

\* ... EnumerateNodes throws when the answer does not come in time, or cannot be asked for.
ListFails ==
  /\ start = "listing"
  /\ start' = "unlisted"
  /\ UNCHANGED <<status, hosts, asked, tc, cl, queue, unsent, dispatch, watchdog, net, outcome,
                 finish, finished, sent>>

\* Start sends 0x411 to the nodes in turn; SendMessage throws on a lost connection.
Ask ==
  /\ start = "asking" /\ asked < N /\ cl = "free"
  /\ IF link = "up" THEN asked' = asked + 1 /\ UNCHANGED start
                    ELSE start' = "threw" /\ UNCHANGED asked
  /\ UNCHANGED <<status, hosts, tc, cl, queue, unsent, dispatch, watchdog, net, outcome,
                 finish, finished, sent>>

\* Every node of the list has been asked; a variant that leaves the loop early.
SomeAsked == asked > 0
AllAsked  == asked = N

StartWatchdog ==
  /\ start = "asking" /\ AllAsked
  /\ start' = "started" /\ watchdog' = "run"
  /\ UNCHANGED <<status, hosts, asked, tc, cl, queue, unsent, dispatch, net, outcome,
                 finish, finished, sent>>

Wait ==
  /\ finish > 0
  /\ finish' = finish - 1
  /\ UNCHANGED <<status, hosts, calls, tc, cl, queue, unsent, dispatch, watchdog, net,
                 outcome, finished, sent>>

\* Interrupt, or the node server closing the connection
Disconnect ==
  /\ start # "idle" /\ link = "up" /\ cl = "free"
  /\ link' = "lost"
  /\ UNCHANGED <<status, hosts, calls, tc, cl, queue, unsent, dispatch, watchdog, answered,
                 notices, reports, outputs, outcome, finish, finished, sent>>

-----------------------------------------------------------------------------
(* The dispatch thread: HandleMessage submits closures, ConnectionLost acts at once *)

Submit(c) == queue' = Append(queue, c)
Receiving == dispatch = "run" /\ link = "up" /\ cl = "free"

\* 0x10411 with a final answer
ReceiveAnswer(n, a) ==
  /\ Receiving /\ n <= asked /\ n \notin answered
  /\ answered' = answered \cup {n}
  /\ Submit([kind |-> "answer", node |-> n, answer |-> a])
  /\ UNCHANGED <<status, hosts, calls, tc, cl, unsent, dispatch, watchdog, link, notices,
                 reports, outputs, outcome, finish, finished, sent>>

\* 0x10411 with HostIsStarting
ReceiveNotice(n) ==
  /\ Receiving /\ n <= asked /\ n \notin answered /\ notices < MaxNotices
  /\ notices' = notices + 1
  /\ Submit([kind |-> "answer", node |-> n, answer |-> "starting"])
  /\ UNCHANGED <<status, hosts, calls, tc, cl, unsent, dispatch, watchdog, link, answered,
                 reports, outputs, outcome, finish, finished, sent>>

\* 0x10423 from a host
ReceiveProgress ==
  /\ Receiving /\ answered # {} /\ reports < MaxProgress
  /\ reports' = reports + 1
  /\ Submit([kind |-> "progress"])
  /\ UNCHANGED <<status, hosts, calls, tc, cl, unsent, dispatch, watchdog, link, answered,
                 notices, outputs, outcome, finish, finished, sent>>

\* 0x431, declared by a task that Main has led to
ReceiveOutput ==
  /\ Receiving /\ mains # <<>> /\ outputs < MaxOutputs
  /\ outputs' = outputs + 1
  /\ Submit([kind |-> "output"])
  /\ UNCHANGED <<status, hosts, calls, tc, cl, unsent, dispatch, watchdog, link, answered,
                 notices, reports, outcome, finish, finished, sent>>

\* The thread finds the connection lost and takes Client::_sync for the callback ...
LossNoticed ==
  /\ dispatch = "run" /\ link = "lost" /\ cl = "free"
  /\ dispatch' = "calling" /\ cl' = "dispatch"
  /\ UNCHANGED <<status, hosts, calls, tc, queue, unsent, watchdog, net, outcome, finish,
                 finished, sent>>

\* ... in which ConnectionLost takes TaskClient::_sync.
ConnectionLost ==
  /\ dispatch = "calling" /\ tc = "free"
  /\ dispatch' = "ended" /\ cl' = "free"
  /\ IF status \in Terminal THEN UNCHANGED <<status, finish, finished>>
                            ELSE status' = "failure" /\ Finish
  /\ UNCHANGED <<hosts, calls, tc, queue, unsent, watchdog, net, outcome, sent>>

-----------------------------------------------------------------------------
(* The task queue: one closure at a time, under TaskClient::_sync *)

\* The table after an answer: a host that is no longer starting keeps its status.
OverwriteStatus(c) == [hosts EXCEPT ![c.node] = c.answer]
RecordStatus(c) ==
  IF hosts[c.node] = "starting"
  THEN [hosts EXCEPT ![c.node] = c.answer] ELSE hosts

\* all_known; a variant that is content with one started host
SomeStarted(h) == \E n \in Nodes : h[n] = "started"
AllKnown(h)    == \A n \in Nodes : h[n] # "starting"

Least(n, S) == n \in S /\ \A m \in S : n <= m

RunAnswer ==
  /\ tc = "free" /\ queue # <<>> /\ Head(queue).kind = "answer"
  /\ queue' = Tail(queue)
  /\ UNCHANGED progress
  /\ LET h == RecordStatus(Head(queue))
         started == {n \in Nodes : h[n] = "started"}
     IN  /\ hosts' = h
         /\ \/ ~AllKnown(h) /\ UNCHANGED <<status, finish, finished, result, tc, unsent>>
            \/ /\ AllKnown(h) /\ started = {}
               /\ status' = "nonodes" /\ Finish
               /\ UNCHANGED <<result, tc, unsent>>
            \/ /\ AllKnown(h) /\ started # {}
               /\ status' = "working"
               /\ result' = IF result = "none" THEN "none" ELSE "relaunched"
               /\ tc' = "queue" /\ unsent' = started
               /\ UNCHANGED <<finish, finished>>
  /\ UNCHANGED <<calls, cl, dispatch, watchdog, net, sent>>

\* Main follows when the table has been sent; a variant in which it need not.
TableSentOrNot == TRUE
TableSent      == unsent = {}

\* The closure goes on, under TaskClient::_sync, to send the table to the started hosts
\* in turn ...
SendTable(n) ==
  /\ tc = "queue" /\ cl = "free" /\ link = "up"
  /\ Least(n, unsent)
  /\ unsent' = unsent \ {n} /\ tables' = Append(tables, n)
  /\ UNCHANGED <<status, hosts, calls, tc, cl, queue, dispatch, watchdog, net, outcome,
                 finish, finished, mains>>

\* ... and then Main to the primary, the first host of the table.
SendMain(n) ==
  /\ tc = "queue" /\ cl = "free" /\ link = "up"
  /\ TableSent /\ Least(n, StartedHosts)
  /\ tc' = "free" /\ unsent' = {} /\ mains' = Append(mains, n)
  /\ UNCHANGED <<status, hosts, calls, cl, queue, dispatch, watchdog, net, outcome,
                 finish, finished, tables>>

\* An exception of SendMessage ends the closure.
SendThrows ==
  /\ tc = "queue" /\ cl = "free" /\ link = "lost"
  /\ tc' = "free" /\ unsent' = {}
  /\ UNCHANGED <<status, hosts, calls, cl, queue, dispatch, watchdog, net, outcome,
                 finish, finished, sent>>

\* a variant that takes a report at any time
ReportingAll == TRUE
Reporting    == status \in {"init", "working"}

RunProgress ==
  /\ tc = "free" /\ queue # <<>> /\ Head(queue).kind = "progress"
  /\ queue' = Tail(queue)
  /\ progress' = IF Reporting THEN "partial" ELSE progress
  /\ UNCHANGED result
  /\ UNCHANGED <<status, hosts, calls, tc, cl, unsent, dispatch, watchdog, net, finish,
                 finished, sent>>

RunOutput ==
  /\ tc = "free" /\ queue # <<>> /\ Head(queue).kind = "output"
  /\ queue' = Tail(queue)
  /\ status' = "success" /\ progress' = "final" /\ result' = "given" /\ Finish
  /\ UNCHANGED <<hosts, calls, tc, cl, unsent, dispatch, watchdog, net, sent>>

-----------------------------------------------------------------------------
(* The watchdog: every 5 s, with a limit of 20 s on the silence of a node *)

GiveUp(silent)        == silent /\ status \notin Terminal

\* Hosts of the set T have been silent for too long while starting; when `silent`,
\* so has every host of the table.
\* Line 186 gives HandleMessage the verb of 0x10411 as the sender: nobody looks at the
\* table again because of a pass.
WatchdogPass(T, silent) ==
  /\ watchdog = "run" /\ tc = "free"
  /\ T \subseteq StartingHosts
  /\ silent => T = StartingHosts
  /\ T = Nodes => silent
  /\ hosts' = [n \in Nodes |-> IF n \in T THEN "timedout" ELSE hosts[n]]
  /\ IF GiveUp(silent) THEN status' = "failure" /\ Finish
                       ELSE UNCHANGED <<status, finish, finished>>
  /\ watchdog' = IF status \in Terminal THEN "ended" ELSE "run"
  /\ UNCHANGED <<calls, tc, cl, queue, unsent, dispatch, net, outcome, sent>>

-----------------------------------------------------------------------------

Caller   ==
  \/ Start \/ ListNodes \/ NoNodes \/ ListFails
  \/ Ask \/ StartWatchdog \/ Wait \/ Disconnect
Dispatch ==
  \/ \E n \in Nodes : (\E a \in {"started", "error"} : ReceiveAnswer(n, a)) \/ ReceiveNotice(n)
  \/ ReceiveProgress \/ ReceiveOutput \/ LossNoticed \/ ConnectionLost
TaskQueue ==
  \/ RunAnswer \/ RunProgress \/ RunOutput \/ SendThrows
  \/ \E n \in Nodes : SendTable(n) \/ SendMain(n)
Watchdog == \E T \in SUBSET Nodes, silent \in BOOLEAN : WatchdogPass(T, silent)

Next == Caller \/ Dispatch \/ TaskQueue \/ Watchdog

Spec == Init /\ [][Next]_vars

\* The threads run, and EnumerateNodes returns or throws while they do.  Before the launch
\* a node sends finitely many notices, so that a start that is not decided ends in a
\* silence of 20 s.
Fairness ==
  /\ WF_vars(dispatch # "ended" /\ (ListNodes \/ NoNodes \/ ListFails))
  /\ WF_vars(Ask) /\ WF_vars(StartWatchdog)
  /\ WF_vars(LossNoticed) /\ WF_vars(ConnectionLost)
  /\ WF_vars(TaskQueue)
  /\ WF_vars(status = "init" /\ WatchdogPass(StartingHosts, TRUE))

FairSpec == Spec /\ Fairness

-----------------------------------------------------------------------------
(* Properties *)

Closures ==
  [kind : {"answer"}, node : Nodes, answer : {"starting", "started", "error"}]
    \cup [kind : {"progress", "output"}]

TypeOK ==
  /\ status \in {"idle", "init", "working"} \cup Terminal
  /\ \/ hosts = [n \in Nodes |-> "none"]
     \/ hosts \in [Nodes -> {"starting", "started", "error", "timedout"}]
  /\ asked \in 0..N
  /\ start \in {"idle", "listing", "asking", "started", "unlisted", "threw"}
  /\ watchdog # "none" => asked = N
  /\ tc \in {"free", "queue"} /\ cl \in {"free", "dispatch"}
  /\ queue \in Seq(Closures)
  /\ unsent \subseteq Nodes
  /\ dispatch \in {"run", "calling", "ended"}
  /\ watchdog \in {"none", "run", "ended"}
  /\ link \in {"up", "lost"} /\ answered \subseteq Nodes
  /\ notices \in 0..MaxNotices
  /\ reports \in 0..MaxProgress /\ outputs \in 0..MaxOutputs
  /\ progress \in {"none", "partial", "final"}
  /\ result \in {"none", "given", "relaunched"}
  /\ finish \in Nat /\ finished \in BOOLEAN
  /\ tables \in Seq(Nodes) /\ mains \in Seq(Nodes)

\* Main never starts before the fate of every node is known: the communication table
\* a host works with is complete from the beginning, and never changes afterwards.
MainNeedsAllKnown ==
  mains # <<>> => StartingHosts = {} /\ \A i \in DOMAIN mains : hosts[mains[i]] = "started"

\* However often the table is looked at again, it is the same table: Main goes to one
\* primary only, the first host that has started.
OnePrimary ==
  \A i \in DOMAIN mains : /\ mains[i] = mains[1]
                          /\ \A n \in StartedHosts : mains[1] <= n

\* No host of the table is still without it when Main starts on the primary.
TableBeforeMain == mains # <<>> => StartedHosts \subseteq ToSet(tables)

\* A result stands: neither a report that was under way when it came, nor the loss of the
\* connection, nor the silence of the hosts takes it or its progress back.  The exception
\* is a late 0x10411, whose closure sets the status to working and launches again: the
\* next report then replaces the final progress.
ResultStands == result = "given" => status = "success" /\ progress = "final"


-----------------------------------------------------------------------------
(* What the documents say, and the code does not do *)

\* docs/en/computation.txt: "It selects the primary node and invokes the Main task on
\* it with the computation input data."
MainOnce == Len(mains) <= 1

\* docs/en/src_task_client.txt, Wait: "Blocks the execution until the computation
\* finishes"; the loss of the connection finishes it with TaskErrorInternalFailure.
LossFinishes == link = "lost" ~> finished

=============================================================================
