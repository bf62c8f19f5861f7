--------------------------- MODULE ServerLifecycle ---------------------------
(***************************************************************************)
(* How one server (srvrnet.cxx, srvrsrvc.cxx) switches a net on and off.   *)
(* ServerNetConnect creates a ListenerThread and a ReconnectionThread;     *)
(* these create a ClientThread for each connection.  Each thread counts    *)
(* itself in service_counter, and the one that counts down to zero         *)
(* switches the net off and opens net_shutdown_sync.  The user's thread    *)
(* and LeaveCurrentNetThread may both disconnect, and the rent of          *)
(* computation, whose semaphore SwitchedToNet takes inside net_sync, may   *)
(* still be sending under that semaphore.                                  *)
(*                                                                         *)
(* The server knows one net.  What is said over the connections is left to *)
(* NetTopology and ComputationRent.  A thread can always be created.       *)
(***************************************************************************)
EXTENDS Integers, Sequences, FiniteSets, SequencesExt

CONSTANTS Sessions,    \* the connections made, each once
          MaxSwitches, \* bound on how often the net is switched on
          MaxMishaps   \* bound on the mishaps of one behaviour; it is not followed any more
                       \* when there are more

None == "none"

ASSUME LifecycleAssumption ==
  /\ IsFiniteSet(Sessions) /\ Sessions \cap {"listener", "recon", "worker", None} = {}
  /\ MaxSwitches \in Nat \ {0} /\ MaxMishaps \in Nat

VARIABLES
  status,    \* net_status: 0 off, 1 on, 2 going off
  counter,   \* service_counter
  gate,      \* value of net_shutdown_sync
  named,     \* net_uuid is that of the net, not zero
  known,     \* the net on known_nets: "member" with the own node on its list, "excluded"
             \* without it, or "unknown"
  switches,  \* how often ServerNetConnect has succeeded
  pc,        \* where the listener, the reconnection thread and each ClientThread stand
  last,      \* what the thread that has counted down to zero has still to do
  clients,   \* sessions on the list of clients
  knocks,    \* loopback connections the listener has not accepted yet
  pos,       \* where the user's thread and LeaveCurrentNetThread stand
  quits,     \* the user's thread runs ServerShutdown
  copied,    \* LeaveCurrentNetThread has copied the UUID of the net, not zero
  worker,    \* the WorkerThread of the rent
  rentLock,  \* what holds ComputationRentClass::_sync while it sends
  writer,    \* what holds net_sync in a write to a peer that does not read
  active,    \* ServerServiceCallback::active
  pollers,   \* its status threads: TRUE for those alive; `thread` is the latest
  stranded,  \* sessions that were registered and never got a thread
  mishaps    \* what has gone wrong, see below

(***************************************************************************)
(* The mishaps: "uncounted", the counter came to zero while a thread that  *)
(* was created had not counted itself; "overtaken", the net was switched   *)
(* on before the last thread had cleaned up; "stale", net_status was set   *)
(* to 2 after it had changed from the 1 that was read; "deaf", the         *)
(* loopback connection failed; "outlived", a rent that was being started   *)
(* was alive when the net was switched on; "doubled", so was a status      *)
(* thread; "switched", the user switched the net or forgot it while        *)
(* LeaveCurrentNetThread was at work, or the net was going off already     *)
(* when the node was excluded.                                             *)
(***************************************************************************)

net     == <<status, counter, gate, named, known, switches, last>>
threads == <<pc, clients, knocks, stranded>>
users   == <<pos, quits, copied>>
service == <<worker, rentLock, writer, active, pollers>>
vars    == <<net, threads, users, service, mishaps>>

Threads == {"listener", "recon"} \cup Sessions
Users   == {"ui", "leaver"}
\* net_sync is held while ServerNetConnect waits for other semaphores, and by a write that
\* blocks; everything else releases it within the step that takes it.
NetFree  == pos["ui"] \notin {"connecting", "allowing"} /\ writer = None
RentFree == rentLock = None
Leaving  == pos["leaver"] \notin {"none", "ended"}

\* A write is over, whether it had blocked or not.
Written(w) == writer' = IF writer = w THEN None ELSE writer

Goto(x, label)  == pc' = [pc EXCEPT ![x] = label]
Move(u, label)  == pos' = [pos EXCEPT ![u] = label]
Mishap(k, when) == mishaps' = IF when THEN mishaps \cup {k} ELSE mishaps

Init ==
  /\ status = 0 /\ counter = 0 /\ gate = 1
  /\ named = FALSE /\ known = "member" /\ switches = 0 /\ last = "none"
  /\ pc = [x \in Threads |-> IF x \in Sessions THEN "unused" ELSE "ended"]
  /\ clients = {} /\ knocks = 0 /\ stranded = {}
  /\ pos = [u \in Users |-> IF u = "ui" THEN "idle" ELSE "none"]
  /\ quits = FALSE /\ copied = FALSE
  /\ worker = "none" /\ rentLock = None /\ writer = None /\ active = FALSE /\ pollers = <<>>
  /\ mishaps = {}

-----------------------------------------------------------------------------
(* The user's thread: ServerNetConnect, ServerNetCreate, ServerNetForget *)

\* Up to net_shutdown_sync->Wait(), with net_sync taken.  The threads see nothing of the
\* steps before net_status is 1.
ServerNetConnect ==
  /\ pos["ui"] = "idle" /\ status = 0 /\ known = "member" /\ switches < MaxSwitches
  /\ status' = 1 /\ named' = TRUE /\ switches' = switches + 1
  /\ pc' = [pc EXCEPT !["listener"] = "created", !["recon"] = "created"]
  /\ Move("ui", "connecting")
  /\ mishaps' = mishaps \cup {k \in {"overtaken", "outlived", "switched"} :
       \/ k = "overtaken" /\ last # "none"
       \/ k = "outlived"  /\ worker \in {"starting", "reporting"}
       \/ k = "switched"  /\ Leaving}
  /\ UNCHANGED <<counter, gate, known, last, clients, knocks, stranded, quits, copied, service>>

\* CreateSocket, Bind or Listen fails, or the own node is not on the list.
ConnectFails ==
  /\ pos["ui"] = "idle" /\ status = 0 /\ known # "unknown"
  /\ named' = FALSE
  /\ Mishap("switched", Leaving)
  /\ UNCHANGED <<status, counter, gate, known, switches, last, threads, users, service>>

\* The wait, and SwitchedToNet up to AllowTasks
ConnectWaits ==
  /\ pos["ui"] = "connecting" /\ gate > 0
  /\ gate' = gate - 1
  /\ active' = TRUE /\ pollers' = Append(pollers, TRUE)
  /\ Mishap("doubled", \E i \in DOMAIN pollers : pollers[i])
  /\ Move("ui", "allowing")
  /\ UNCHANGED <<status, counter, named, known, switches, last, threads, quits, copied,
                 worker, rentLock, writer>>

AllowTasks ==
  /\ pos["ui"] = "allowing" /\ RentFree
  /\ Move("ui", "idle")
  /\ UNCHANGED <<net, threads, quits, copied, service, mishaps>>

ServerNetCreate ==
  /\ pos["ui"] = "idle" /\ known = "unknown" /\ ~Leaving
  /\ known' = "member"
  /\ Move("leaver", "none")
  /\ UNCHANGED <<status, counter, gate, named, switches, last, threads, quits, copied, service,
                 mishaps>>

\* Of the net with the UUID `net`, unless it is the current one
Forgotten(uuid) == IF uuid /\ ~named /\ status # 2 THEN "unknown" ELSE known

ServerNetForget ==
  /\ pos["ui"] = "idle" /\ known' = Forgotten(TRUE) /\ known' # known
  /\ Mishap("switched", Leaving)
  /\ UNCHANGED <<status, counter, gate, named, switches, last, threads, users, service>>

-----------------------------------------------------------------------------
(* ServerNetDisconnect, called by the user's thread or by LeaveCurrentNetThread *)

AfterDisconnect(u) == IF u = "leaver" \/ quits' THEN "gate" ELSE "idle"

\* net_status is read here and set in the next step.
Decide(u) == Move(u, IF status = 1 THEN "decided" ELSE AfterDisconnect(u))

ServerNetDisconnect ==
  /\ pos["ui"] = "idle" /\ status = 1
  /\ UNCHANGED quits
  /\ Decide("ui")
  /\ Mishap("switched", Leaving)
  /\ UNCHANGED <<net, threads, copied, service>>

ServerShutdown ==
  /\ pos["ui"] = "idle"
  /\ quits' = TRUE
  /\ Decide("ui")
  /\ Mishap("switched", Leaving)
  /\ UNCHANGED <<net, threads, copied, service>>

\* SwitchingFromNet up to KillHost
SetStatus(u) ==
  /\ pos[u] = "decided"
  /\ status' = 2 /\ active' = FALSE
  /\ Move(u, "killing")
  /\ Mishap("stale", status # 1)
  /\ UNCHANGED <<counter, gate, named, known, switches, last, threads, quits, copied, worker,
                 rentLock, writer, pollers>>

KillHost(u) ==
  /\ pos[u] = "killing" /\ RentFree
  /\ worker' = IF worker = "ready" THEN "none" ELSE worker
  /\ Move(u, "waking")
  /\ UNCHANGED <<net, threads, quits, copied, rentLock, writer, active, pollers, mishaps>>

\* The listener is there to be woken; a variant without the loopback connection.
NotWoken == knocks
Woken    == IF pc["listener"] \in {"ending", "ended"} THEN knocks ELSE knocks + 1

Wake(u) ==
  /\ pos[u] = "waking"
  /\ \/ knocks' = Woken /\ UNCHANGED mishaps
     \/ mishaps' = mishaps \cup {"deaf"} /\ UNCHANGED knocks
  /\ UNCHANGED quits
  /\ Move(u, AfterDisconnect(u))
  /\ UNCHANGED <<net, pc, clients, stranded, copied, service>>

\* net_shutdown_sync->Wait() and Open()
PassGate(u) ==
  /\ pos[u] = "gate" /\ gate > 0
  /\ Move(u, IF u = "ui" THEN "delete" ELSE "forget")
  /\ UNCHANGED <<net, threads, quits, copied, service, mishaps>>

\* ServerServiceShutdown deletes the callback, which waits for the latest status thread.
ServerServiceShutdown ==
  /\ pos["ui"] = "delete"
  /\ pollers # <<>> => ~Last(pollers)
  /\ Move("ui", "gone")
  /\ UNCHANGED <<net, threads, quits, copied, service, mishaps>>

\* LeaveCurrentNetThread: copy the UUID, disconnect, wait, forget.
LeaverCopies ==
  /\ pos["leaver"] = "copy" /\ NetFree
  /\ copied' = named
  /\ Move("leaver", "disconnect")
  /\ UNCHANGED <<net, threads, quits, service, mishaps>>

LeaverDisconnects ==
  /\ pos["leaver"] = "disconnect"
  /\ UNCHANGED quits
  /\ Decide("leaver")
  /\ UNCHANGED <<net, threads, copied, service, mishaps>>

LeaverForgets ==
  /\ pos["leaver"] = "forget" /\ NetFree
  /\ known' = Forgotten(copied) /\ copied' = FALSE
  /\ Move("leaver", "ended")
  /\ UNCHANGED <<status, counter, gate, named, switches, last, threads, quits, service, mishaps>>

-----------------------------------------------------------------------------
(* Counting: the start and the end of every thread *)

Start(x) ==
  /\ pc[x] = "created"
  /\ counter' = counter + 1
  /\ Goto(x, CASE x = "listener" -> "accept" [] x = "recon" -> "list" [] OTHER -> "run")
  /\ UNCHANGED <<status, gate, named, known, switches, last, clients, knocks, stranded, users,
                 service, mishaps>>

\* dec is zero; a variant that is off by one.
OneLeft(dec)   == dec <= 1
NoneLeft(dec)  == dec = 0

\* ServiceShutdown, InterlockedDecrement
End(x) ==
  /\ pc[x] = "ending"
  /\ counter' = counter - 1
  /\ Goto(x, "ended")
  /\ last' = IF NoneLeft(counter') THEN "switch off" ELSE last
  /\ Mishap("uncounted", NoneLeft(counter') /\ \E y \in Threads : pc[y] = "created")
  /\ UNCHANGED <<status, gate, named, known, switches, clients, knocks, stranded, users, service>>

SwitchOff ==
  /\ last = "switch off"
  /\ status' = 0 /\ last' = "clean up"
  /\ UNCHANGED <<counter, gate, named, known, switches, threads, users, service, mishaps>>

CleanUp ==
  /\ last = "clean up"
  /\ named' = FALSE /\ gate' = gate + 1 /\ last' = "none"
  /\ UNCHANGED <<status, counter, known, switches, threads, users, service, mishaps>>

-----------------------------------------------------------------------------
(* ListenerThread and ReconnectionThread *)

\* Accept returns the loopback connection: nothing can be read from it, or it is time.
AcceptKnock ==
  /\ pc["listener"] = "accept" /\ knocks > 0
  /\ knocks' = knocks - 1
  /\ Goto("listener", IF status = 2 THEN "closing" ELSE "accept")
  /\ UNCHANGED <<net, clients, stranded, users, service, mishaps>>

Accept ==
  /\ pc["listener"] = "accept"
  /\ \E s \in Sessions : pc[s] = "unused"
  /\ Goto("listener", IF status = 2 THEN "closing" ELSE "handshake")
  /\ UNCHANGED <<net, clients, knocks, stranded, users, service, mishaps>>

\* The thread that runs x goes on once the thread of session s has been created.
RunClientThread(x, label, s) == pc' = [pc EXCEPT ![x] = label, ![s] = "created"]

\* A client of a service that is known is put on the list, with the next free instance.
RegisterClient(s) == clients \cup {s}

\* PerformIncomingHandshake, for a node or for a client
HandshakeDone(s) ==
  /\ pc["listener"] = "handshake" /\ pc[s] = "unused" /\ NetFree
  /\ RunClientThread("listener", "accept", s)
  /\ clients' \in {clients, RegisterClient(s)}
  /\ UNCHANGED <<net, knocks, stranded, users, service, mishaps>>

\* It throws, before the client is on the list or when it is sent the answer.
HandshakeThrows(s) ==
  /\ pc["listener"] = "handshake" /\ pc[s] = "unused" /\ NetFree
  /\ pc' = [pc EXCEPT !["listener"] = IF status = 2 THEN "closing" ELSE "accept",
                      ![s] = "ended"]
  /\ \/ clients' = RegisterClient(s) /\ stranded' = stranded \cup {s}
     \/ UNCHANGED <<clients, stranded>>
  /\ UNCHANGED <<net, knocks, users, service, mishaps>>

CloseListener ==
  /\ pc["listener"] = "closing" /\ NetFree
  /\ knocks' = 0
  /\ Goto("listener", "ending")
  /\ UNCHANGED <<net, clients, stranded, users, service, mishaps>>

\* The nodes without a connection, and then the first look at net_status
List ==
  /\ pc["recon"] = "list" /\ NetFree
  /\ Goto("recon", IF status = 1 THEN "dial" ELSE "ending")
  /\ UNCHANGED <<net, clients, knocks, stranded, users, service, mishaps>>

\* The next node on the list cannot be reached, or it is asked; after the last one the
\* thread naps.
Dial ==
  /\ pc["recon"] = "dial"
  /\ \/ \E s \in Sessions : pc[s] = "unused" /\ status = 1 /\ NetFree /\ Goto("recon", "ask")
     \/ Goto("recon", "nap")
  /\ UNCHANGED <<net, clients, knocks, stranded, users, service, mishaps>>

\* The answer is read without a limit of time.
Answered(s) ==
  /\ pc["recon"] = "ask" /\ pc[s] = "unused" /\ NetFree
  /\ \/ RunClientThread("recon", "dial", s)
     \/ pc' = [pc EXCEPT !["recon"] = "dial", ![s] = "ended"]
  /\ UNCHANGED <<net, clients, knocks, stranded, users, service, mishaps>>

Nap ==
  /\ pc["recon"] = "nap"
  /\ Goto("recon", IF status = 1 THEN "list" ELSE "ending")
  /\ UNCHANGED <<net, clients, knocks, stranded, users, service, mishaps>>

-----------------------------------------------------------------------------
(* ClientThread *)

\* InternalGetMessage looks at net_status once a second, and when a message comes; it reads
\* the rest of a message without a limit of time, and the handler does not look again.
NoticeStop(s) ==
  /\ pc[s] = "run" /\ status = 2
  /\ Goto(s, "closing")
  /\ UNCHANGED <<net, clients, knocks, stranded, users, service, mishaps>>

MessageComes(s) ==
  /\ pc[s] = "run" /\ status # 2
  /\ Goto(s, "reading")
  /\ UNCHANGED <<net, clients, knocks, stranded, users, service, mishaps>>

\* It is one for this server, whose handler may write to its peer without a limit of time as
\* well (0x10101), one to be passed on, or 0x411.
MessageRead(s) ==
  /\ pc[s] = "reading"
  /\ \E label \in {"run", "forwarding", "renting"} : Goto(s, label)
  /\ UNCHANGED <<net, clients, knocks, stranded, users, service, mishaps>>

PeerCloses(s) ==
  /\ pc[s] = "reading" \/ (pc[s] = "run" /\ status # 2)
  /\ Goto(s, "closing")
  /\ UNCHANGED <<net, clients, knocks, stranded, users, service, mishaps>>

Forward(s) ==
  /\ pc[s] = "forwarding" /\ (NetFree \/ writer = s)
  /\ Goto(s, "run") /\ Written(s)
  /\ UNCHANGED <<net, clients, knocks, stranded, users, worker, rentLock, active, pollers, mishaps>>

\* The entry on the list of clients is removed; a variant that leaves it.
StillListed(s) == clients
Unlisted(s)    == clients \ {s}

CloseSession(s) ==
  /\ pc[s] = "closing" /\ NetFree
  /\ clients' = Unlisted(s)
  /\ Goto(s, "ending")
  /\ UNCHANGED <<net, knocks, stranded, users, service, mishaps>>

\* UpdateNetNodesWithNet with a list that the own node is not on: from another node
\* (0x102, 0x103), or by ServerNetNodeRemove.
Excluded ==
  /\ NetFree /\ known = "member" /\ pos["leaver"] = "none"
  /\ \/ \E s \in Sessions : pc[s] = "reading"
     \/ pos["ui"] = "idle" /\ status = 1
  /\ known' = "excluded"
  /\ Move("leaver", "copy")
  /\ Mishap("switched", pos["ui"] # "idle" \/ status # 1)
  /\ UNCHANGED <<status, counter, gate, named, switches, last, threads, quits, copied, service>>

\* 0x411: the rent is accepted, or refused with the semaphore held while it is sent.
PerformRent(s) ==
  /\ pc[s] = "renting" /\ RentFree
  /\ \/ /\ worker = "none"
        /\ worker' = "starting" /\ Goto(s, "run") /\ UNCHANGED rentLock
     \/ /\ Goto(s, "refusing") /\ rentLock' = s
        /\ UNCHANGED worker
  /\ UNCHANGED <<net, clients, knocks, stranded, users, writer, active, pollers, mishaps>>

\* ServerSendMessage returns at once unless net_status is 1, and else takes net_sync.
CanSend(w) == status # 1 \/ NetFree \/ writer = w

RentRefused(s) ==
  /\ pc[s] = "refusing" /\ CanSend(s)
  /\ rentLock' = None /\ Written(s)
  /\ Goto(s, "run")
  /\ UNCHANGED <<net, clients, knocks, stranded, users, worker, active, pollers, mishaps>>

-----------------------------------------------------------------------------
(* The rent's WorkerThread, and the status threads of ServerServiceCallback *)

WorkerLocks ==
  /\ worker = "starting" /\ RentFree
  /\ worker' = "reporting" /\ rentLock' = "worker"
  /\ UNCHANGED <<net, threads, users, writer, active, pollers, mishaps>>

\* The host has started, or has not.
WorkerReports ==
  /\ worker = "reporting" /\ CanSend("worker")
  /\ worker' \in {"ready", "none"} /\ rentLock' = None /\ Written("worker")
  /\ UNCHANGED <<net, threads, users, active, pollers, mishaps>>

HostExits ==
  /\ worker = "ready" /\ RentFree
  /\ worker' = "none"
  /\ UNCHANGED <<net, threads, users, rentLock, writer, active, pollers, mishaps>>

\* It looks at `active` once a second.
PollerEnds(i) ==
  /\ pollers[i] /\ ~active
  /\ pollers' = [pollers EXCEPT ![i] = FALSE]
  /\ UNCHANGED <<net, threads, users, worker, rentLock, writer, active, mishaps>>

-----------------------------------------------------------------------------
(* A write under net_sync to a peer that does not read has no limit of time either: it  *)
(* may end (Forward, RentRefused, WorkerReports), or not.                               *)

WriteBlocks(w) ==
  /\ NetFree
  /\ \/ w \in Sessions /\ pc[w] = "forwarding"
     \/ w \in Sessions /\ pc[w] = "refusing" /\ status = 1
     \/ w = "worker" /\ worker = "reporting" /\ status = 1
  /\ writer' = w
  /\ UNCHANGED <<net, threads, users, worker, rentLock, active, pollers, mishaps>>

-----------------------------------------------------------------------------

\* What each thread does of itself
Listener   == Start("listener") \/ AcceptKnock \/ CloseListener \/ End("listener")
Recon      == Start("recon") \/ List \/ Dial \/ Nap \/ End("recon")
Client(s)  ==
  \/ Start(s) \/ NoticeStop(s) \/ Forward(s) \/ PerformRent(s) \/ RentRefused(s)
  \/ CloseSession(s) \/ End(s)
LastThread == SwitchOff \/ CleanUp
Worker     == WorkerLocks \/ WorkerReports
Disconnecting(u) == SetStatus(u) \/ KillHost(u) \/ Wake(u) \/ PassGate(u)
User       == Disconnecting("ui") \/ ConnectWaits \/ AllowTasks \/ ServerServiceShutdown
Leaver     == Disconnecting("leaver") \/ LeaverCopies \/ LeaverDisconnects \/ LeaverForgets

Service ==
  \/ Listener \/ Recon \/ LastThread \/ Worker \/ User \/ Leaver
  \/ \E s \in Sessions : Client(s)
  \/ \E i \in DOMAIN pollers : PollerEnds(i)

Environment ==
  \/ ServerNetConnect \/ ConnectFails \/ ServerNetCreate \/ ServerNetForget
  \/ ServerNetDisconnect \/ ServerShutdown
  \/ Accept \/ Excluded \/ HostExits
  \/ \E s \in Sessions : \/ HandshakeDone(s) \/ HandshakeThrows(s) \/ Answered(s)
                         \/ MessageComes(s) \/ MessageRead(s) \/ PeerCloses(s)
  \/ \E w \in Sessions \cup {"worker"} : WriteBlocks(w)

\* Threads that are not counted share everything with those of the next connection;
\* what becomes of them is not followed, nor what threads do when the program has ended.
Halted ==
  \/ "uncounted" \in mishaps \/ pos["ui"] = "gone"
  \/ Cardinality(mishaps) > MaxMishaps

Next == ~Halted /\ (Service \/ Environment)

Spec == Init /\ [][Next]_vars

\* Threads run.  Nothing is assumed of the user, of the other end of a connection, or of
\* the host.
Fairness ==
  /\ WF_vars(~Halted /\ Listener) /\ WF_vars(~Halted /\ Recon)
  /\ \A s \in Sessions : WF_vars(~Halted /\ writer # s /\ Client(s))
  /\ WF_vars(~Halted /\ LastThread) /\ WF_vars(~Halted /\ writer # "worker" /\ Worker)
  /\ WF_vars(~Halted /\ User) /\ WF_vars(~Halted /\ Leaver)

FairSpec == Spec /\ Fairness

-----------------------------------------------------------------------------
(* Properties *)

\* net_shutdown_sync is a number, and as long as no thread is "uncounted" a binary semaphore.
\* That mishap ends the behaviour: from there on the code may open it a second time.
TypeOK ==
  /\ status \in 0..2 /\ counter \in 0..Cardinality(Threads)
  /\ gate \in Nat /\ ("uncounted" \notin mishaps => gate <= 1)
  /\ named \in BOOLEAN /\ known \in {"member", "excluded", "unknown"}
  /\ switches \in 0..MaxSwitches /\ last \in {"none", "switch off", "clean up"}
  /\ pc \in [Threads -> {"unused", "created", "accept", "handshake", "list", "dial", "ask",
                         "nap", "run", "reading", "forwarding", "renting", "refusing",
                         "closing", "ending", "ended"}]
  /\ stranded \subseteq clients /\ clients \subseteq Sessions /\ knocks \in 0..2
  /\ pos \in [Users -> {"idle", "connecting", "allowing", "none", "copy", "disconnect",
                        "decided", "killing", "waking", "gate", "forget", "delete", "gone",
                        "ended"}]
  /\ quits \in BOOLEAN /\ copied \in BOOLEAN /\ active \in BOOLEAN
  /\ worker \in {"none", "starting", "reporting", "ready"}
  /\ rentLock \in Sessions \cup {None, "worker"}
  /\ writer \in Sessions \cup {None, "worker"}
  /\ pollers \in Seq(BOOLEAN)

\* A net that is off has no threads left, no clients but those that never got a thread,
\* and its semaphore has been opened once.
ThreadsGone ==
  status = 0 /\ "uncounted" \notin mishaps =>
    /\ \A x \in Threads : pc[x] \in {"unused", "ended"}
    /\ clients \subseteq stranded
    /\ gate = (IF last = "none" THEN 1 ELSE 0)

\* The net that is on is the one net_uuid names.
OnIsNamed == status = 1 /\ "overtaken" \notin mishaps => named

\* LeaveCurrentNetThread has forgotten the net that excluded the node.
LeaverHasForgotten ==
  pos["leaver"] = "ended" /\ mishaps \cap {"switched", "overtaken"} = {} => known = "unknown"

\* When the program ends nothing of the net is left, nor a status thread, which would
\* use the callback that has been deleted.
ShutdownIsLast ==
  pos["ui"] = "gone" =>
    /\ "stale" \notin mishaps => status = 0
    /\ "doubled" \notin mishaps => \A i \in DOMAIN pollers : ~pollers[i]

\* However connecting, disconnecting, being excluded and the ends of the threads cross,
\* the net that is switched off is cleaned up, and once.  The mishaps are the exceptions.
OffIsClean == ThreadsGone /\ OnIsNamed /\ LeaverHasForgotten /\ ShutdownIsLast

\* Switching the net on or off comes to an end, unless from some time on there is always a
\* peer that is silent or one of four mishaps has happened: the counter takes the last
\* thread to the end whatever the order, and no two of the semaphores are waited for
\* crosswise.  Silent is a peer that is read from, in a handshake or in the middle of a
\* message, or written to under net_sync: neither has a limit of time.
Switching == status = 2 \/ pos["ui"] \in {"connecting", "allowing"}
Silent    ==
  \/ pc["listener"] = "handshake" \/ pc["recon"] = "ask"
  \/ \E s \in Sessions : pc[s] = "reading"
  \/ writer # None

SwitchEnds ==
  []<>~Silent =>
    (Switching ~> ~Switching \/ Halted \/ mishaps \cap {"stale", "deaf", "outlived"} # {})

=============================================================================
