---------------------------- MODULE ClientRequests ----------------------------
(***************************************************************************)
(* The requests of the client library (client/ClusterClient.cxx):          *)
(* EnumerateNodes, QueryNodeStatus and EnumerateEndpoints, and how the     *)
(* nodes answer them (srvrnet.cxx, srvrsrvc.cxx).  Each call registers     *)
(* callbacks for one answer that expire after two seconds, sends a message *)
(* for each and waits on a semaphore of its own, which the dispatch thread *)
(* opens from the callbacks.  An answer carries nothing that tells whose   *)
(* request it is for: it goes to the first callback for its verb.          *)
(*                                                                         *)
(* Any thread may make a call at any time; EnumerateEndpoints makes a call *)
(* of EnumerateNodes of its own.  Client::_sync is held for one step at a  *)
(* time here, as none of these callbacks blocks.  A request is answered in *)
(* the step that sends it, and the answer is under way as long as it       *)
(* likes.  Answers are whole: one that cannot be decoded is left out, and  *)
(* so are permanent handlers, which answer other verbs, and a second       *)
(* Connect of the same client.                                             *)
(***************************************************************************)
EXTENDS Integers, Sequences, FiniteSets, SequencesExt

CONSTANTS Calls,    \* the calls made, each once
          Kind,     \* what each asks for: "nodes", "status" or "endpoints"
          Lister,   \* the call of EnumerateNodes that a call for endpoints makes
          Target,   \* the node a call for a status asks
          Service,  \* the service a call for endpoints is about, or AnyService
          AnyService,
          Nodes,    \* the nodes on the list of the net
          Home,     \* the one the client is connected to
          Clients   \* the clients of each node, with their services

Of(kind) == {c \in Calls : Kind[c] = kind}

ASSUME RequestAssumption ==
  /\ IsFiniteSet(Calls) /\ Kind \in [Calls -> {"nodes", "status", "endpoints"}]
  /\ IsFiniteSet(Nodes) /\ Home \in Nodes
  /\ Lister \in [Of("endpoints") -> Of("nodes")]
  /\ Target \in [Of("status") -> Nodes]
  /\ DOMAIN Service = Of("endpoints") /\ DOMAIN Clients = Nodes

VARIABLES
  pc,         \* where each call stands
  todo,       \* the nodes it has still to ask
  asked,      \* those it has asked
  sem,        \* value of its semaphore
  waits,      \* how often it has still to wait
  result,     \* the answers it was given
  handlers,   \* _handlers: the calls whose callbacks are registered, in order
  net,        \* answers under way
  link,       \* "none"; "up"; "broken" by the node; "shut" by Disconnect
  dispatch,   \* the dispatch thread: "none", "run", "lost" or "ended"
  crashed,    \* a callback of a call that is gone has been called
  crossed,    \* calls that overlapped with the answer to another one of the same verb
  expired     \* calls one of whose callbacks has expired

call == <<pc, todo, asked, waits>>
past == <<crossed, expired>>
vars == <<call, sem, result, handlers, net, link, dispatch, crashed, past>>

Owed(c)  == {i \in DOMAIN handlers : handlers[i] = c}
Gone(c)  == pc[c] = "threw"
Alike(c) == Of(Kind[c]) \ {c}

Init ==
  /\ pc = [c \in Calls |-> "new"]
  /\ todo = [c \in Calls |-> {}] /\ asked = [c \in Calls |-> {}]
  /\ sem = [c \in Calls |-> 0] /\ waits = [c \in Calls |-> 0]
  /\ result = [c \in Calls |-> {}]
  /\ handlers = <<>> /\ net = {}
  /\ link = "none" /\ dispatch = "none" /\ crashed = FALSE
  /\ crossed = {} /\ expired = {}

-----------------------------------------------------------------------------
(* The connection *)

\* The handshake succeeds and the dispatch thread is created, or nothing has changed.
Connect ==
  /\ link = "none"
  /\ link' = "up" /\ dispatch' = "run"
  /\ UNCHANGED <<call, sem, result, handlers, net, crashed, past>>

\* Disconnect, called by the program
Disconnect ==
  /\ link \in {"up", "broken"} /\ link' = "shut"
  /\ UNCHANGED <<call, sem, result, handlers, net, dispatch, crashed, past>>

\* The node closes the connection; what it has sent before can still be read.
Break ==
  /\ link = "up" /\ link' = "broken"
  /\ UNCHANGED <<call, sem, result, handlers, net, dispatch, crashed, past>>

-----------------------------------------------------------------------------
(* The nodes *)

\* InternalSendMessage reaches the home node itself, and those of the others it has a
\* socket of, here `online`; they may be others each time.
Routed(n, online) == n \in online \cup {Home}

\* ServerEnumerateNetNodes, as seen by a client that asks for the nodes online
NetNodes(online) == {n \in Nodes : n \in online \cup {Home}}

\* ServerEnumerateServices: the node and its clients, those of one service or of all
EnumerateServices(n, service) ==
  {e \in Clients[n] \cup {[address |-> n, service |-> "engine.cluster.node"]} :
     service \in {AnyService, e.service}}

\* Of the figures of node n nothing is told apart but whose they are.
NodeStatus(n) == {n}

\* HandleMessage of the node: 0x201, 0x202 and 0x206
Payload(c, n, online) ==
  CASE Kind[c] = "nodes"     -> NetNodes(online)
    [] Kind[c] = "endpoints" -> EnumerateServices(n, Service[c])
    [] Kind[c] = "status"    -> NodeStatus(n)

Answer(c, n, online) == [call |-> c, node |-> n, data |-> Payload(c, n, online)]

-----------------------------------------------------------------------------
(* The callers *)

\* Call c and each call of D may be given answers that are meant for the other.
Cross(c, D)  == crossed' = crossed \cup D \cup (IF D = {} THEN {} ELSE {c})
Listening(c) == {d \in Alike(c) : Owed(d) # {}}
Answered(c)  == {d \in Alike(c) : \E a \in net : a.call = d}

RegisterOneTimeCallback(c) ==
  /\ handlers' = Append(handlers, c)
  /\ pc' = [pc EXCEPT ![c] = "send"]
  /\ Cross(c, Listening(c) \cup Answered(c))
  /\ UNCHANGED <<asked, result, net, link, dispatch, crashed, expired>>

\* The program makes the call, with a client that has connected.
EnumerateNodes(c) ==
  /\ Kind[c] = "nodes" /\ pc[c] = "new" /\ link # "none"
  /\ todo' = [todo EXCEPT ![c] = {Home}]
  /\ RegisterOneTimeCallback(c)
  /\ UNCHANGED <<sem, waits>>

QueryNodeStatus(c) ==
  /\ Kind[c] = "status" /\ pc[c] = "new" /\ link # "none"
  /\ todo' = [todo EXCEPT ![c] = {Target[c]}]
  /\ RegisterOneTimeCallback(c)
  /\ UNCHANGED <<sem, waits>>

\* The nodes have been listed.  The semaphore starts open, as _wait_counter starts with 1.
EnumerateEndpoints(c) ==
  /\ Kind[c] = "endpoints" /\ pc[c] = "new"
  /\ pc[Lister[c]] = "returned" /\ result[Lister[c]] # {}
  /\ todo' = [todo EXCEPT ![c] = UNION {a.data : a \in result[Lister[c]]}]
  /\ sem' = [sem EXCEPT ![c] = 1] /\ waits' = [waits EXCEPT ![c] = 1]
  /\ RegisterOneTimeCallback(c)

\* Enumerate, for the next node
Enumerate(c) ==
  /\ pc[c] = "ask"
  /\ RegisterOneTimeCallback(c)
  /\ UNCHANGED <<todo, sem, waits>>

\* The last node of the call is being asked; a variant that comes one too late.
BeyondLast(c) == todo[c] = {}
IsLast(c)     == Cardinality(todo[c]) = 1

\* SendMessage; what is written to a broken connection may be accepted.
Send(c) ==
  /\ pc[c] = "send" /\ link # "shut"
  /\ \E n \in todo[c], online \in SUBSET (Nodes \ {Home}) :
       /\ todo' = [todo EXCEPT ![c] = @ \ {n}]
       /\ asked' = [asked EXCEPT ![c] = @ \cup {n}]
       /\ net' = IF link = "up" /\ Routed(n, online)
                   THEN net \cup {Answer(c, n, online)} ELSE net
  /\ waits' = [waits EXCEPT ![c] = @ + 1]
  /\ pc' = [pc EXCEPT ![c] = IF IsLast(c) THEN "wait" ELSE "ask"]
  /\ Cross(c, Listening(c))
  /\ UNCHANGED <<sem, result, handlers, link, dispatch, crashed, expired>>

\* SendMessage throws and disconnects: the call is left, with its callbacks on the list.
SendThrows(c) ==
  /\ pc[c] = "send" /\ link # "up"
  /\ pc' = [pc EXCEPT ![c] = "threw"]
  /\ link' = "shut"
  /\ UNCHANGED <<todo, asked, waits, sem, result, handlers, net, dispatch, crashed,
                 past>>

\* A call that has not been given an answer throws now.
Wait(c) ==
  /\ pc[c] = "wait" /\ sem[c] > 0
  /\ sem' = [sem EXCEPT ![c] = @ - 1]
  /\ waits' = [waits EXCEPT ![c] = @ - 1]
  /\ pc' = [pc EXCEPT ![c] = IF waits[c] = 1 THEN "returned" ELSE "wait"]
  /\ UNCHANGED <<todo, asked, result, handlers, net, link, dispatch, crashed, past>>

-----------------------------------------------------------------------------
(* The dispatch thread *)

\* RespondsToMessage; a variant that takes the first callback for any answer.
AnyHandler(a)  == DOMAIN handlers
HandlersFor(a) == {i \in DOMAIN handlers : Kind[handlers[i]] = Kind[a.call]}

\* run_once: the handler that was called is removed; a variant without it.
HandlerKept(i)    == handlers
HandlerRemoved(i) == RemoveAt(handlers, i)

\* HandleMessage of the callbacks: an answer replaces what there is, or is added to it.
NodeEnumTakes(c, a)    == {a}
NodeStatusTakes(c, a)  == {a}
ServiceEnumTakes(c, a) == result[c] \cup {a}

Taken(c, a) ==
  CASE Kind[c] = "nodes"     -> NodeEnumTakes(c, a)
    [] Kind[c] = "status"    -> NodeStatusTakes(c, a)
    [] Kind[c] = "endpoints" -> ServiceEnumTakes(c, a)

Deliver(a) ==
  /\ dispatch = "run" /\ link # "shut" /\ a \in net
  /\ net' = net \ {a}
  /\ \/ HandlersFor(a) = {} /\ UNCHANGED <<sem, result, handlers, crashed>>
     \/ \E i \in HandlersFor(a) :
          LET c == handlers[i]
          IN  /\ \A j \in HandlersFor(a) : i <= j
              /\ handlers' = HandlerRemoved(i)
              /\ IF Gone(c) THEN crashed' = TRUE /\ UNCHANGED <<sem, result>>
                 ELSE /\ result' = [result EXCEPT ![c] = Taken(c, a)]
                      /\ sem' = [sem EXCEPT ![c] = @ + 1]
                      /\ UNCHANGED crashed
  /\ UNCHANGED <<call, link, dispatch, past>>

\* CallbackExpired of the first n handlers on the list opens their semaphores; a variant
\* that only removes them.
NotWoken(n) == sem
Woken(n)    == [c \in Calls |-> IF Gone(c) THEN sem[c]
                                ELSE sem[c] + Cardinality({i \in Owed(c) : i <= n})]

CallbacksExpire(n) ==
  /\ sem' = Woken(n)
  /\ crashed' = \E i \in 1..n : Gone(handlers[i])
  /\ expired' = expired \cup {handlers[i] : i \in 1..n}
  /\ handlers' = SubSeq(handlers, n + 1, Len(handlers))
  /\ UNCHANGED <<call, result, net, link, crossed>>

\* All expirations are two seconds, so the handlers expire in the order of the list.
Expire(n) ==
  /\ dispatch = "run"
  /\ CallbacksExpire(n) /\ UNCHANGED dispatch

\* ConnectionLost is called, and then, under another lock, what is left expires.
LossNoticed ==
  /\ dispatch = "run" /\ link # "up"
  /\ dispatch' = "lost"
  /\ UNCHANGED <<call, sem, result, handlers, net, link, crashed, past>>

FinalPass ==
  /\ dispatch = "lost"
  /\ dispatch' = "ended"
  /\ CallbacksExpire(Len(handlers))

-----------------------------------------------------------------------------

Make(c)    == EnumerateNodes(c) \/ QueryNodeStatus(c) \/ EnumerateEndpoints(c)
Caller(c)  == Enumerate(c) \/ Send(c) \/ SendThrows(c) \/ Wait(c)
ExpireSome == \E n \in DOMAIN handlers : Expire(n)

Next ==
  /\ ~crashed
  /\ \/ \E c \in Calls : Make(c) \/ Caller(c)
     \/ \E a \in net : Deliver(a)
     \/ ExpireSome \/ LossNoticed \/ FinalPass \/ Connect \/ Disconnect \/ Break

Spec == Init /\ [][Next]_vars

\* Threads run and time passes; nothing is assumed of the answers.
Fairness ==
  /\ \A c \in Calls : WF_vars(~crashed /\ Caller(c))
  /\ WF_vars(~crashed /\ ExpireSome)
  /\ WF_vars(~crashed /\ LossNoticed) /\ WF_vars(~crashed /\ FinalPass)

FairSpec == Spec /\ Fairness

-----------------------------------------------------------------------------
(* Properties *)

Answers == {Answer(c, n, online) : c \in Calls, n \in Nodes, online \in SUBSET (Nodes \ {Home})}

TypeOK ==
  /\ pc \in [Calls -> {"new", "ask", "send", "wait", "returned", "threw"}]
  /\ todo \in [Calls -> SUBSET Nodes] /\ asked \in [Calls -> SUBSET Nodes]
  /\ \A c \in Calls : pc[c] \in {"ask", "send"} => todo[c] # {}
  /\ sem \in [Calls -> Nat] /\ waits \in [Calls -> Nat]
  /\ net \subseteq Answers /\ result \in [Calls -> SUBSET Answers]
  /\ handlers \in Seq(Calls)
  /\ link \in {"none", "up", "broken", "shut"}
  /\ dispatch \in {"none", "run", "lost", "ended"}
  /\ crashed \in BOOLEAN /\ crossed \subseteq Calls /\ expired \subseteq Calls

\* What opens a call's semaphore and what the call waits for stay in balance through
\* answers, expirations and the loss of the connection: no callback comes too few, which
\* would hang the call, and none too many, for the next wait or for a call that is over.
CallbacksBalanced ==
  \A c \in Calls :
    pc[c] # "threw" =>
      sem[c] + Cardinality(Owed(c)) = waits[c] + (IF pc[c] = "send" THEN 1 ELSE 0)

\* A call that did not overlap with the answer to another one of its kind, be it only the
\* late answer to a call that has expired, is given its own answers, and all of them
\* unless one of its callbacks has expired.
AnswerIsOwn ==
  \A c \in Calls \ crossed :
    /\ \A a \in result[c] : a.call = c
    /\ pc[c] = "returned" /\ c \notin expired => {a.node : a \in result[c]} = asked[c]

\* A call that waits while the dispatch thread lives returns, whatever is lost.  (One made
\* after the thread has ended may wait for ever: a write to a connection that the node
\* has closed may succeed.)
CallReturns ==
  \A c \in Calls : pc[c] = "wait" /\ dispatch # "ended" ~> pc[c] = "returned" \/ crashed

=============================================================================
