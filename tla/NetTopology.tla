----------------------------- MODULE NetTopology -----------------------------
(***************************************************************************)
(* The servers of one net (srvrnet.cxx) and the description of the net     *)
(* that each of them keeps: the list of its nodes with their indices, and  *)
(* the PC time of the last change.  A change is broadcast to the nodes     *)
(* connected at that moment (0x103); two nodes that connect compare their  *)
(* descriptions (0x102); the later one replaces the other.                 *)
(*                                                                         *)
(* Every connection is a session with a ClientThread at either end.  A     *)
(* handler reads the description, compares, updates and sends in separate  *)
(* steps, because net_sync is released in between.                         *)
(*                                                                         *)
(* A node switches a net off only when its threads have ended, so here     *)
(* this is one step that waits for their handlers.  The clocks agree.      *)
(***************************************************************************)
EXTENDS Integers, Sequences, FiniteSets, SequencesExt

CONSTANTS Nodes,       \* the node UUIDs
          Founders,    \* the first nodes of the net, in the order of their indices
          None,        \* no node, no session
          MaxSessions, \* bound on the connections attempted
          MaxTime,     \* bound on the PC time
          MaxEvents    \* bound on lost connections and answers, on nodes that switch
                       \* the net off, shut down or crash, and on nets forgotten

ASSUME TopologyAssumption ==
  /\ Founders \in Seq(Nodes) /\ Founders # <<>> /\ IsInjective(Founders)
  /\ None \notin Nodes /\ None \notin Nat
  /\ {MaxSessions, MaxTime, MaxEvents} \subseteq Nat /\ MaxTime >= 1

VARIABLES
  desc,      \* each node's description of the net: its time and its list of nodes
  saved,     \* the description in the configuration file
  online,    \* nodes whose net_status is 1
  self,      \* the index in self_addr of each node
  leaving,   \* nodes that run LeaveCurrentNetThread
  sock,      \* node_info: the session each node keeps for each other one
  sess,      \* the sessions, in the order they were attempted
  broken,    \* sessions whose connection is lost
  joining,   \* the join request each node is serving
  edit,      \* the description ServerNetNodeRemove is working on at each node
  clock, events,   \* the PC time, and what MaxEvents bounds
  removed,   \* nodes where the user has removed one from the net
  parted,    \* pairs {n, m} that may disagree on their session: an entry has got no
             \* thread, was dropped from under its thread, or freed for another one
  author,    \* the node that made the latest change
  disturbed  \* a later description was replaced by an earlier one; or a node has
             \* connected between the broadcast of a removal and the update; or the
             \* author has left, or has lost its change in a crash; or an answer has
             \* gone to another node that has the same index

net  == <<desc, saved, online, self, leaving>>
work == <<joining, edit>>
bounds == <<clock, events>>
netHistory == <<removed, parted, author, disturbed>>
netVars == <<net, sock, sess, broken, work, bounds, netHistory>>

NoNet == [time |-> 0, list |-> <<>>]
Entry(n, i) == [node |-> n, index |-> i]
Members(list) == {list[k].node : k \in DOMAIN list}
IndexOf(n, m) == desc[n].list[SelectInSeq(desc[n].list, LAMBDA e : e.node = m)].index
NodeAt(n, i) ==
  LET k == SelectInSeq(desc[n].list, LAMBDA e : e.index = i)
  IN  IF k = 0 THEN None ELSE desc[n].list[k].node
SocketAt(n, i) == {sock[n][m] : m \in {NodeAt(n, i)} \cap Nodes} \ {None}
Listed(n, m)  == m \in Members(desc[n].list)

Ends(s)    == {sess[s].from, sess[s].to}
Peer(s, n) == IF sess[s].from = n THEN sess[s].to ELSE sess[s].from
Handling(n) == \E s \in DOMAIN sess :
             n \in Ends(s) /\ sess[s].pc[n] \notin {"new", "read", "closed"}
Serving(n, s) == n \in online /\ s \in DOMAIN sess /\ n \in Ends(s)

FirstDesc(list) == [time |-> 1, list |-> [k \in DOMAIN list |-> Entry(list[k], k)]]

\* The configurations were loaded: the founders know the net, the others do not.
Founded(founders) ==
  /\ desc = [n \in Nodes |-> IF n \in ToSet(founders) THEN FirstDesc(founders) ELSE NoNet]
  /\ saved = desc
  /\ leaving = {} /\ broken = {}
  /\ joining = [n \in Nodes |-> None] /\ edit = [n \in Nodes |-> NoNet]
  /\ clock = 1 /\ events = 0
  /\ removed = {} /\ parted = {} /\ author = None /\ disturbed = FALSE

\* No node has switched the net on yet.
AllOff ==
  /\ online = {} /\ self = [n \in Nodes |-> 0]
  /\ sock = [n \in Nodes |-> [m \in Nodes |-> None]]

NetInit == Founded(Founders) /\ AllOff /\ sess = <<>>

\* Time::GetCurrentTime(): the clocks agree, and no two changes fall into one tick.
Tick(n) == clock < MaxTime /\ clock' = clock + 1 /\ author' = n

-----------------------------------------------------------------------------
(* Sending, and replacing one description by another *)

\* The sessions over which a broadcast of node n leaves.
Broadcast(n) == {sock[n][m] : m \in Nodes} \ ({None} \cup broken)

\* Message m appended to what the peers of n have still to read on the sessions of S.
Sent(n, S, m, from) ==
  [s \in DOMAIN from |->
     IF s \in S THEN [from[s] EXCEPT !.box[Peer(s, n)] = Append(@, m)] ELSE from[s]]

Turn(s, n, label, work_on) ==
  [sess EXCEPT ![s].pc[n] = label, ![s].work[n] = work_on]

\* The elements of s that are at the places in K, in their order.
Selected(s, K) ==
  LET chosen[k \in 0..Len(s)] ==
        IF k = 0 THEN <<>>
        ELSE IF k \in K THEN Append(chosen[k - 1], s[k]) ELSE chosen[k - 1]
  IN  chosen[Len(s)]

\* UpdateNetNodesWithNet: nodes that are in both lists keep the entry they have.
Merge(old, with) ==
  LET kept  == {k \in DOMAIN old : old[k].node \in Members(with)}
      fresh == {k \in DOMAIN with : /\ with[k].node \notin Members(old)
                                    /\ \A j \in 1..k - 1 : with[j].node # with[k].node}
  IN  Selected(old, kept) \o Selected(with, fresh)

\* The own node is among the removed ones; a variant that does not look for it.
NeverExcluded(n, list) == FALSE
Excluded(n, list)      == n \notin Members(list)

Update(n, d) ==
  LET list == Merge(desc[n].list, d.list)
  IN  /\ desc' = [desc EXCEPT ![n] = [time |-> d.time, list |-> list]]
      /\ sock' = [sock EXCEPT ![n] = [m \in Nodes |->
                    IF m \in Members(list) THEN sock[n][m] ELSE None]]
      /\ parted' = parted \cup {{n, m} : m \in {k \in Nodes \ Members(list) : sock[n][k] # None}}
      /\ leaving' = IF Excluded(n, list) THEN leaving \cup {n} ELSE leaving

-----------------------------------------------------------------------------
(* Switching the net on and off *)

ServerNetConnect(n) ==
  /\ n \notin online /\ Listed(n, n)
  /\ online' = online \cup {n}
  /\ self' = [self EXCEPT ![n] = IndexOf(n, n)]
  /\ sock' = [sock EXCEPT ![n] = [m \in Nodes |-> None]]
  /\ UNCHANGED <<desc, saved, leaving, sess, broken, work, bounds, netHistory>>

\* The entries of n are freed; a variant that keeps them.
KeptEntries(n)  == sock
FreedEntries(n) == [sock EXCEPT ![n] = [m \in Nodes |-> None]]

Close(n) ==
  /\ online' = online \ {n}
  /\ sess' = [s \in DOMAIN sess |->
                IF n \in Ends(s) THEN [sess[s] EXCEPT !.pc[n] = "closed"] ELSE sess[s]]
  /\ sock' = FreedEntries(n)

\* ServerNetNodeRemove has told the others, and not yet changed the own description.
Removing(n) == edit[n] # NoNet /\ edit[n].sent

\* It has put its time on its copy of the description.
Stamped(n) == edit[n] # NoNet /\ edit[n].time # 0

\* No thread of the net is at work at n, and the user is not removing a node.
ThreadsIdle(n) == ~Handling(n) /\ joining[n] = None
Idle(n)  == ThreadsIdle(n) /\ edit[n] = NoNet

Event == events < MaxEvents /\ events' = events + 1

ServerNetDisconnect(n) ==
  /\ n \in online \ leaving /\ Idle(n)
  /\ Event
  /\ Close(n)
  /\ UNCHANGED <<desc, saved, self, leaving, broken, work, clock, netHistory>>

\* ServerShutdown, and the start after it: the configuration is saved.
ServerShutdown(n) ==
  /\ n \notin leaving /\ Idle(n) /\ saved[n] # desc[n]
  /\ Event
  /\ Close(n)
  /\ saved' = [saved EXCEPT ![n] = desc[n]]
  /\ UNCHANGED <<desc, self, leaving, broken, work, clock, netHistory>>

\* A crash, and the start after it: what was not saved is lost.
Crash(n) ==
  /\ n \in online
  /\ Event
  /\ Close(n)
  /\ desc' = [desc EXCEPT ![n] = saved[n]]
  /\ leaving' = leaving \ {n}
  /\ joining' = [joining EXCEPT ![n] = None] /\ edit' = [edit EXCEPT ![n] = NoNet]
  /\ disturbed' = (disturbed \/ (author = n /\ (saved[n] # desc[n] \/ Stamped(n))))
  /\ UNCHANGED <<saved, self, broken, clock, removed, parted, author>>

\* LeaveCurrentNetThread: disconnect and forget.  It does not wait for a removal the user
\* has begun: there is nobody left to broadcast it to, and the update writes to where the
\* forgotten description was.
Leave(n) ==
  /\ n \in leaving /\ ThreadsIdle(n)
  /\ Close(n)
  /\ desc' = [desc EXCEPT ![n] = NoNet]
  /\ leaving' = leaving \ {n}
  /\ edit' = [edit EXCEPT ![n] = NoNet]
  /\ disturbed' = (disturbed \/ author = n)
  /\ UNCHANGED <<saved, self, broken, joining, bounds, removed, parted, author>>

ServerNetForget(n) ==
  /\ n \notin online /\ desc[n] # NoNet
  /\ Event
  /\ desc' = [desc EXCEPT ![n] = NoNet]
  /\ disturbed' = (disturbed \/ author = n)
  /\ UNCHANGED <<saved, online, self, leaving, sock, sess, broken, work, clock, removed,
                 parted, author>>

-----------------------------------------------------------------------------
(* ReconnectionThread and the handshake *)

\* One attempt at a time; it ends at once when nobody listens at the address.
Reconnect(n, m) ==
  /\ Len(sess) < MaxSessions
  /\ n # m /\ {n, m} \subseteq online /\ Listed(n, m) /\ sock[n][m] = None
  /\ \A s \in DOMAIN sess : n = sess[s].from => sess[s].pc[n] # "ask"
  /\ sess' = Append(sess, [from |-> n, to |-> m,
                           pc   |-> [e \in {n, m} |-> IF e = n THEN "ask" ELSE "new"],
                           addr |-> [e \in {n, m} |-> IF e = n THEN IndexOf(n, m) ELSE 0],
                           work |-> [e \in {n, m} |-> NoNet],
                           box  |-> [e \in {n, m} |-> <<>>]])
  /\ UNCHANGED <<net, sock, broken, work, bounds, netHistory>>

\* ConnectNode finds the entry of the node, and no socket in it; a variant that does
\* not look at the socket.
AnyEntry(n, m)   == Listed(n, m)
ConnectNode(n, m) == Listed(n, m) /\ sock[n][m] = None

\* The addresses in the answer are those the caller has on its list.
SameAddresses(s) ==
  LET n == sess[s].from  m == sess[s].to
  IN  IndexOf(m, n) = self[n] /\ self[m] = sess[s].addr[n]

HandshakeAccepted(s) ==
  LET n == sess[s].from  m == sess[s].to
  IN  /\ Serving(m, s) /\ sess[s].pc[m] = "new" /\ s \notin broken
      /\ sess[s].pc[n] = "ask" /\ ConnectNode(m, n)
      /\ sock' = [sock EXCEPT ![m][n] = s]
      /\ sess' = [sess EXCEPT ![s].pc[m] = "read", ![s].addr[m] = IndexOf(m, n),
                              ![s].pc[n] = IF SameAddresses(s) THEN "answered" ELSE "closed"]
      /\ UNCHANGED <<net, broken, work, bounds, netHistory>>

HandshakeRefused(s) ==
  LET n == sess[s].from  m == sess[s].to
  IN  /\ Serving(m, s) /\ sess[s].pc[m] = "new"
      /\ ~ConnectNode(m, n) \/ s \in broken \/ sess[s].pc[n] = "closed"
      /\ sess' = [sess EXCEPT ![s].pc[m] = "closed", ![s].pc[n] = "closed"]
      /\ UNCHANGED <<net, sock, broken, work, bounds, netHistory>>

\* The answer cannot be written: the entry has its socket, but gets no thread.
HandshakeStranded(s) ==
  LET n == sess[s].from  m == sess[s].to
  IN  /\ Serving(m, s) /\ sess[s].pc[m] = "new"
      /\ s \in broken \/ sess[s].pc[n] = "closed"
      /\ ConnectNode(m, n)
      /\ sock' = [sock EXCEPT ![m][n] = s]
      /\ parted' = parted \cup {{m, n}}
      /\ sess' = [sess EXCEPT ![s].pc[m] = "closed", ![s].pc[n] = "closed"]
      /\ UNCHANGED <<net, broken, work, bounds, removed, author, disturbed>>

\* Nobody will answer any more.
HandshakeLost(s) ==
  LET n == sess[s].from  m == sess[s].to
  IN  /\ Serving(n, s) /\ sess[s].pc[n] = "ask"
      /\ s \in broken \/ sess[s].pc[m] = "closed"
      /\ sess' = Turn(s, n, "closed", NoNet)
      /\ UNCHANGED <<net, sock, broken, work, bounds, netHistory>>

\* The caller keeps the session, and sends its own description on it.
HandshakeFinished(s) ==
  LET n == sess[s].from
      m == sess[s].to
  IN  /\ Serving(n, s) /\ sess[s].pc[n] = "answered"
      /\ IF s \notin broken /\ ConnectNode(n, m)
         THEN /\ sock' = [sock EXCEPT ![n][m] = s]
              /\ sess' = Sent(n, {s}, [verb |-> "connect", net |-> desc[n]],
                              Turn(s, n, "read", NoNet))
              /\ disturbed' = (disturbed \/ Removing(n))
         ELSE /\ sess' = Turn(s, n, "closed", NoNet)
              /\ UNCHANGED <<sock, disturbed>>
      /\ UNCHANGED <<net, broken, work, bounds, removed, parted, author>>

ConnectionFails(s) ==
  /\ s \in DOMAIN sess \ broken
  /\ Event
  /\ broken' = broken \cup {s}
  /\ UNCHANGED <<net, sock, sess, work, clock, netHistory>>

\* ClientThread ends when the connection is lost or closed at the other end.  It frees
\* the entry that carries the address of its peer.
FreedEntry(n, i) == [sock EXCEPT ![n] = [m \in Nodes |->
                       IF NodeAt(n, i) = m THEN None ELSE sock[n][m]]]

SessionEnds(s, n) ==
  /\ Serving(n, s) /\ sess[s].pc[n] = "read"
  /\ \/ s \in broken
     \/ ~Listed(n, n) /\ sess[s].box[n] # <<>>
     \/ sess[s].box[n] = <<>> /\ sess[s].pc[Peer(s, n)] = "closed"
  /\ sess' = Turn(s, n, "closed", NoNet)
  /\ sock' = FreedEntry(n, sess[s].addr[n])
  /\ parted' = parted \cup {{n, m} : m \in {k \in Nodes :
                   (sock[n][k] = s) # (sock[n][k] # None /\ sock'[n][k] = None)}}
  /\ UNCHANGED <<net, broken, work, bounds, removed, author, disturbed>>

-----------------------------------------------------------------------------
(* ClientThread: the messages 0x102 "connect" and 0x103 "update" *)

Later(advised, current) == advised.time > current.time

\* The peer is to be told; a variant that leaves it as it is.
LeftAsItIs(advised, current) == FALSE
Earlier(advised, current)    == advised.time < current.time

\* The message is read and compared with the description of that moment.
Receive(s, n) ==
  /\ Serving(n, s) /\ sess[s].pc[n] = "read" /\ sess[s].box[n] # <<>> /\ Listed(n, n)
  /\ LET m == Head(sess[s].box[n])
         label == IF Later(m.net, desc[n])
                  THEN IF m.verb = "connect" THEN "adopt and spread" ELSE "adopt"
                  ELSE IF m.verb = "connect" /\ Earlier(m.net, desc[n])
                  THEN "reply" ELSE "read"
     IN  /\ sess' = [Turn(s, n, label, m.net) EXCEPT ![s].box[n] = Tail(@)]
         /\ disturbed' = (disturbed \/ (m.verb = "connect" /\ Removing(n)))
  /\ UNCHANGED <<net, sock, broken, work, bounds, removed, parted, author>>

\* UpdateNetNodesWithNet, whatever the description has become since the comparison.
Adopt(s, n) ==
  /\ Serving(n, s) /\ sess[s].pc[n] \in {"adopt", "adopt and spread"}
  /\ Update(n, sess[s].work[n])
  /\ disturbed' = (disturbed \/ sess[s].work[n].time < desc[n].time)
  /\ sess' = IF sess[s].pc[n] = "adopt" THEN Turn(s, n, "read", NoNet)
             ELSE Turn(s, n, "spread", sess[s].work[n])
  /\ UNCHANGED <<saved, online, self, broken, work, bounds, removed, author>>

\* What was adopted from a node that has connected is told to all.
Spread(s, n) ==
  /\ Serving(n, s) /\ sess[s].pc[n] = "spread"
  /\ sess' = Sent(n, Broadcast(n), [verb |-> "update", net |-> sess[s].work[n]],
                  Turn(s, n, "read", NoNet))
  /\ UNCHANGED <<net, sock, broken, work, bounds, netHistory>>

\* A node that has connected with an earlier description is told the later one.
Reply(s, n) ==
  /\ Serving(n, s) /\ sess[s].pc[n] = "reply"
  /\ sess' = Sent(n, SocketAt(n, sess[s].addr[n]) \ broken,
                  [verb |-> "update", net |-> desc[n]], Turn(s, n, "read", NoNet))
  /\ disturbed' = (disturbed \/ (author = n /\ NodeAt(n, sess[s].addr[n]) # Peer(s, n)))
  /\ UNCHANGED <<net, sock, broken, work, bounds, removed, parted, author>>

-----------------------------------------------------------------------------
(* Joining: the handshake with a zero UUID, then 0x101 *)

\* The user of n has allowed it, with ServerNetAllowJoin, for one request.  Bound: a
\* node that forgot the net asks only where it is not listed any more, since here a
\* node has one entry on a list (the code would append a second one).
JoinRequest(x, n) ==
  /\ n \in online /\ x \notin online /\ desc[x] = NoNet /\ x # n /\ ~Listed(n, x)
  /\ joining[n] = None
  /\ \A k \in Nodes : joining[k] # None => joining[k].node # x
  /\ joining' = [joining EXCEPT ![n] = [node |-> x, pc |-> "serve", net |-> NoNet]]
  /\ UNCHANGED <<desc, saved, online, self, leaving, sock, sess, broken, edit, bounds, netHistory>>

\* mx_node + 1
NextIndex(list) == Max({list[k].index : k \in DOMAIN list}) + 1

JoinServed(n) ==
  /\ n \in online /\ joining[n] # None /\ joining[n].pc = "serve"
  /\ Listed(n, n)
  /\ Tick(n)
  /\ LET list == Append(desc[n].list, Entry(joining[n].node, NextIndex(desc[n].list)))
         d == [time |-> clock', list |-> list]
     IN  /\ desc' = [desc EXCEPT ![n] = d]
         /\ joining' = [joining EXCEPT ![n].pc = "answer", ![n].net = d]
  /\ UNCHANGED <<saved, online, self, leaving, sock, sess, broken, edit, events, removed,
                 parted, disturbed>>

\* The server is not on its own list any more (or, a bound, the time has run out).
JoinDenied(n) ==
  /\ n \in online /\ joining[n] # None /\ joining[n].pc = "serve"
  /\ ~Listed(n, n) \/ clock = MaxTime
  /\ joining' = [joining EXCEPT ![n] = None]
  /\ UNCHANGED <<net, sock, sess, broken, edit, bounds, netHistory>>

\* JoinThread of the new node stores the net it was told; the answer may be lost.
JoinAnswered(n) ==
  /\ n \in online /\ joining[n] # None /\ joining[n].pc = "answer"
  /\ \/ /\ desc' = [desc EXCEPT ![joining[n].node] = joining[n].net]
        /\ UNCHANGED events
     \/ Event /\ UNCHANGED desc
  /\ joining' = [joining EXCEPT ![n].pc = "spread"]
  /\ UNCHANGED <<saved, online, self, leaving, sock, sess, broken, edit, clock, netHistory>>

\* The answer cannot be written: the exception ends the session, and nobody is told.
JoinUnanswered(n) ==
  /\ n \in online /\ joining[n] # None /\ joining[n].pc = "answer"
  /\ Event
  /\ joining' = [joining EXCEPT ![n] = None]
  /\ disturbed' = (disturbed \/ author = n)
  /\ UNCHANGED <<net, sock, sess, broken, edit, clock, removed, parted, author>>

JoinSpread(n) ==
  /\ n \in online /\ joining[n] # None /\ joining[n].pc = "spread"
  /\ sess' = Sent(n, Broadcast(n), [verb |-> "update", net |-> joining[n].net], sess)
  /\ joining' = [joining EXCEPT ![n] = None]
  /\ UNCHANGED <<net, sock, broken, edit, bounds, netHistory>>

-----------------------------------------------------------------------------
(* ServerNetNodeRemove: copy and edit, time, broadcast, update *)

\* The copy, without the first entry that has the address of m
RemoveNode(n, m) ==
  /\ n \in online /\ edit[n] = NoNet /\ Listed(n, m) /\ clock < MaxTime
  /\ LET old == desc[n].list
         k   == SelectInSeq(old, LAMBDA e : e.index = IndexOf(n, m))
     IN  edit' = [edit EXCEPT ![n] =
                    [time |-> 0, sent |-> FALSE, list |-> Selected(old, DOMAIN old \ {k})]]
  /\ UNCHANGED <<net, sock, sess, broken, joining, bounds, netHistory>>

\* The time of the change: what has become of the description since it was copied is
\* not looked at.
RemoveStamp(n) ==
  /\ n \in online /\ edit[n] # NoNet /\ ~Stamped(n)
  /\ Tick(n)
  /\ edit' = [edit EXCEPT ![n] = [time |-> clock', sent |-> FALSE, list |-> @.list]]
  /\ removed' = removed \cup {n}
  /\ UNCHANGED <<net, sock, sess, broken, joining, events, parted, disturbed>>

\* An exception on the way (or, a bound, the time has run out).
RemoveAbandoned(n) ==
  /\ n \in online /\ edit[n] # NoNet /\ ~Stamped(n)
  /\ edit' = [edit EXCEPT ![n] = NoNet]
  /\ UNCHANGED <<net, sock, sess, broken, joining, bounds, netHistory>>

RemovalOf(n) == [time |-> edit[n].time, list |-> edit[n].list]

RemoveSpread(n) ==
  /\ n \in online /\ Stamped(n) /\ ~edit[n].sent
  /\ sess' = Sent(n, Broadcast(n), [verb |-> "update", net |-> RemovalOf(n)], sess)
  /\ edit' = [edit EXCEPT ![n].sent = TRUE]
  /\ UNCHANGED <<net, sock, broken, joining, bounds, netHistory>>

RemoveUpdate(n) ==
  /\ n \in online /\ Stamped(n) /\ edit[n].sent
  /\ Update(n, RemovalOf(n))
  /\ disturbed' = (disturbed \/ edit[n].time < desc[n].time)
  /\ edit' = [edit EXCEPT ![n] = NoNet]
  /\ UNCHANGED <<saved, online, self, sess, broken, joining, bounds, removed, author>>

-----------------------------------------------------------------------------

SessionStep(s) ==
  \/ HandshakeAccepted(s) \/ HandshakeRefused(s) \/ HandshakeStranded(s)
  \/ HandshakeLost(s) \/ HandshakeFinished(s)
  \/ \E n \in Ends(s) : SessionEnds(s, n) \/ Receive(s, n) \/ Adopt(s, n) \/ Spread(s, n)
                        \/ Reply(s, n)

JoinStep(n) == JoinServed(n) \/ JoinDenied(n) \/ JoinAnswered(n) \/ JoinUnanswered(n)
               \/ JoinSpread(n)
RemovalStep(n) == RemoveStamp(n) \/ RemoveAbandoned(n) \/ RemoveSpread(n) \/ RemoveUpdate(n)

NetNext ==
  \/ \E s \in DOMAIN sess : SessionStep(s) \/ ConnectionFails(s)
  \/ \E n \in Nodes :
       \/ JoinStep(n) \/ RemovalStep(n) \/ Leave(n)
       \/ ServerNetConnect(n) \/ ServerNetDisconnect(n) \/ ServerNetForget(n)
       \/ ServerShutdown(n) \/ Crash(n)
       \/ \E m \in Nodes : Reconnect(n, m) \/ JoinRequest(m, n) \/ RemoveNode(n, m)

NetSpec == NetInit /\ [][NetNext]_netVars

-----------------------------------------------------------------------------
(* Properties *)

Entries      == [node : Nodes, index : Nat \ {0}]
Descriptions == [time : 0..MaxTime, list : Seq(Entries)]
Messages     == [verb : {"connect", "update"}, net : Descriptions]
Requests     == [node : Nodes, pc : {"serve", "answer", "spread"}, net : Descriptions]
Removals     == [time : 0..MaxTime, sent : BOOLEAN, list : Seq(Entries)]

ASSUME RequestAssumption == None \notin Requests

\* A thread that serves its connection, and one that does not, or not yet.
Working == {"read", "adopt", "adopt and spread", "spread", "reply"}
Labels  == Working \cup {"new", "ask", "answered", "closed"}

SessionsOf(n, m) ==
  [from : {n}, to : {m}, pc : [{n, m} -> Labels], addr : [{n, m} -> Nat],
   work : [{n, m} -> Descriptions], box : [{n, m} -> Seq(Messages)]]

NetTypeOK ==
  /\ desc \in [Nodes -> Descriptions] /\ saved \in [Nodes -> Descriptions]
  /\ online \subseteq Nodes /\ leaving \subseteq online
  /\ sock \in [Nodes -> [Nodes -> DOMAIN sess \cup {None}]]
  /\ \A n, m \in Nodes : sock[n][m] # None => n \in online /\ Listed(n, m)
  /\ \A s \in DOMAIN sess : /\ sess[s].from \in Nodes /\ sess[s].to \in Nodes \ {sess[s].from}
                             /\ sess[s] \in SessionsOf(sess[s].from, sess[s].to)
  /\ broken \subseteq DOMAIN sess /\ parted \subseteq SUBSET Nodes
  /\ joining \in [Nodes -> Requests \cup {None}] /\ edit \in [Nodes -> Removals \cup {NoNet}]
  /\ \A n \in Nodes : joining[n] # None \/ edit[n] # NoNet => n \in online

\* Nothing is under way: every thread waits for a message and there is none.
Settled ==
  /\ \A s \in DOMAIN sess : \A n \in Ends(s) :
       \/ sess[s].pc[n] = "closed"
       \/ sess[s].pc[n] = "read" /\ sess[s].box[n] = <<>> /\ s \notin broken
          /\ sess[s].pc[Peer(s, n)] = "read"
  /\ leaving = {}
  /\ \A n \in Nodes : joining[n] = None /\ edit[n] = NoNet

\* The nodes of S are connected to each other: a thread serves the entry of each.
Meshed(S) ==
  \A n, m \in S : n # m => sock[n][m] # None /\ sess[sock[n][m]].pc[n] # "closed"

\* When the nodes on the latest list are connected to each other and nothing is under
\* way, they all have this list: the change has reached every one of them, however it
\* crossed with the handshakes.  The others pass a change on only when it comes with a
\* handshake, so this rests on its author (see disturbed).
Converged ==
  \A n \in online :
    LET members == Members(desc[n].list)
    IN  Settled /\ ~disturbed /\ desc[n].time = clock /\ members \subseteq online
          /\ Meshed(members)
        => \A m \in members : desc[m].time = clock /\ Members(desc[m].list) = members

\* The two ends of a session agree on it: what a node keeps as its connection to
\* another one is a session both serve, so that neither waits for the other.
SocketsPaired ==
  Settled => \A n, m \in online :
    sock[n][m] # None /\ {n, m} \notin parted
      => sess[sock[n][m]].pc[n] = "read" /\ sock[m][n] = sock[n][m]

\* A node that finds itself off its own list, by whatever way it has learnt it, has left
\* the net when everything is quiet.
ExclusionObeyed == Settled => \A n \in online : Listed(n, n)

-----------------------------------------------------------------------------
(* What the documents say, and the code does not do *)

\* docs/en/server_panel.txt: "The join will automatically synchronized with the other
\* nodes of the net."
JoinSynchronised ==
  Settled /\ Meshed(online) /\ removed = {}
    => \A x \in Nodes, n \in online : desc[x] # NoNet => Listed(n, x)

=============================================================================
