------------------------- MODULE ServerLifecycleProofs -------------------------
(***************************************************************************)
(* Proofs about a server that switches a net on and off, for any finite    *)
(* set of connections, any number of switches and of mishaps.              *)
(***************************************************************************)
EXTENDS ServerLifecycle, FiniteSetTheorems, TLAPS

(* The inductive invariant *)

\* Threads that have counted themselves, and those that have not ended
Counted   == {x \in Threads : pc[x] \notin {"unused", "created", "ended"}}
NoneAlive == \A x \in Threads : pc[x] \in {"unused", "ended"}

\* TypeOK but for the bounds of the numbers, and which labels a thread can have
ListenerLabels == {"created", "accept", "handshake", "closing", "ending", "ended"}
ReconLabels    == {"created", "list", "dial", "ask", "nap", "ending", "ended"}
Labels         == ListenerLabels \cup ReconLabels \cup 
                    {"unused", "run", "reading", "forwarding", "renting", "refusing"}

Labelled ==
  pc \in [Threads -> Labels] /\ pc["listener"] \in ListenerLabels /\ pc["recon"] \in ReconLabels

LeaverPlaces == {"none", "copy", "disconnect", "decided", "killing", "waking", "gate", "forget",
                 "ended"}
Places       == LeaverPlaces \cup {"idle", "connecting", "allowing", "delete", "gone"}

Positioned == pos \in [Users -> Places] /\ pos["leaver"] \in LeaverPlaces

Numbers ==
  /\ status \in 0..2 /\ counter \in Nat /\ gate \in {0, 1} /\ knocks \in Nat
  /\ switches \in 0..MaxSwitches

Sorts ==
  /\ named \in BOOLEAN /\ known \in {"member", "excluded", "unknown"}
  /\ last \in {"none", "switch off", "clean up"}
  /\ clients \subseteq Sessions
  /\ quits \in BOOLEAN /\ copied \in BOOLEAN /\ active \in BOOLEAN
  /\ worker \in {"none", "starting", "reporting", "ready"}
  /\ rentLock \in Sessions \cup {None, "worker"}
  /\ writer \in Sessions \cup {None, "worker"}
  /\ pollers \in Seq(BOOLEAN)

Shapes == Labelled /\ Positioned /\ Numbers /\ Sorts

\* service_counter is the number of the threads that have counted themselves.
Tallied == counter = Cardinality(Counted)

One(b)     == IF b THEN 1 ELSE 0
Connecting == pos["ui"] = "connecting"

\* Each time the net is switched on the semaphore is taken once, and opened once when the
\* last thread has cleaned up.
Balanced ==
  /\ gate = 1 + One(Connecting) - One(~NoneAlive) - One(last # "none")
  /\ last # "none" => NoneAlive \/ Connecting

\* What net_status says of the threads, of the last one's work and of net_uuid
Opening == {"created", "accept", "handshake"}

StatusSays ==
  /\ status = 0 => NoneAlive
  /\ status = 1 => pc["listener"] \in Opening
  /\ last = "switch off" => status # 0 /\ NoneAlive
  /\ NoneAlive /\ last # "switch off" /\ status # 0 => "stale" \in mishaps
  /\ status = 0 /\ last = "none" => ~named
  /\ last = "clean up" /\ status = 1 => "overtaken" \in mishaps

\* Once a thread was created after the others had been counted down to zero, these two
\* hold no longer.
Ordered == "uncounted" \notin mishaps => Balanced /\ StatusSays

UsersSay ==
  /\ pos["ui"] \in {"connecting", "allowing"} =>
       status = 1 /\ pos["leaver"] \in {"none", "ended"}
  /\ \A u \in Users : pos[u] \in {"killing", "waking"} => status # 1
  /\ known = "member" => pos["leaver"] = "none"
  /\ pos["ui"] = "delete" => NoneAlive /\ last = "none"

\* A loopback connection was made only by one who had found the net on, and there is
\* none from before the listener started.
Waking(u) == pos[u] \in {"decided", "killing", "waking"}

FewKnocks ==
  /\ status = 1 \/ pc["listener"] \in {"ending", "ended"} => knocks = 0
  /\ knocks + One(Waking("ui")) + One(Waking("leaver")) <= 2

\* The labels of a session whose thread has counted itself and not left its loop for good
Serving == {"run", "reading", "forwarding", "renting", "refusing", "closing"}

ClientsKnown ==
  /\ \A s \in clients : s \in stranded \/ pc[s] \in {"created"} \cup Serving
  /\ \A s \in stranded : s \in clients /\ pc[s] = "ended"

\* Only the latest status thread can be alive.
OnePoller == "doubled" \notin mishaps => \A i \in 1..Len(pollers) : i # Len(pollers) => ~pollers[i]

\* While nobody interferes, LeaveCurrentNetThread finds the net it has to forget.
LeaverSure ==
  "uncounted" \notin mishaps /\ Leaving /\ mishaps \cap {"switched", "overtaken"} = {} =>
    /\ pos["ui"] = "idle"
    /\ pos["leaver"] = "copy" => status = 1 /\ named
    /\ pos["leaver"] \in {"disconnect", "decided"} => status = 1
    /\ pos["leaver"] # "copy" => copied
    /\ pos["leaver"] \in {"killing", "waking", "gate"} =>
         \/ status = 2 /\ ~NoneAlive /\ last = "none"
         \/ last = "switch off"
         \/ status = 0
    /\ pos["leaver"] = "forget" => status = 0 /\ last = "none"

LifeInv ==
  /\ Shapes /\ Tallied /\ Ordered /\ UsersSay /\ FewKnocks /\ ClientsKnown /\ OnePoller
  /\ LeaverSure /\ OnIsNamed /\ LeaverHasForgotten /\ ShutdownIsLast

-----------------------------------------------------------------------------
(* The counted threads *)

\* There are finitely many of them.
LEMMA CountedFinite ==
  /\ IsFiniteSet(Threads) /\ IsFiniteSet(Counted)
  /\ Cardinality(Counted) \in 0..Cardinality(Threads)
<1>1. IsFiniteSet({"listener"}) /\ IsFiniteSet({"recon"})
  BY FS_Singleton
<1>2. IsFiniteSet({"listener"} \cup {"recon"})
  BY <1>1, FS_Union
<1>3. {"listener"} \cup {"recon"} = {"listener", "recon"}
  OBVIOUS
<1>4. IsFiniteSet(Threads)
  BY <1>2, <1>3, FS_Union, LifecycleAssumption DEF Threads
<1>5. Counted \in SUBSET Threads
  BY DEF Counted
<1>6. IsFiniteSet(Counted) /\ Cardinality(Counted) <= Cardinality(Threads)
  BY <1>4, <1>5, FS_Subset
<1>7. Cardinality(Counted) \in Nat /\ Cardinality(Threads) \in Nat
  BY <1>4, <1>6, FS_CardinalityType
<1> QED
  BY <1>4, <1>6, <1>7

\* Start: one more is counted.
LEMMA OneMore ==
  ASSUME Labelled, Tallied, NEW x \in Threads, NEW label, pc[x] = "created",
         label \notin {"unused", "created", "ended"}, pc' = [pc EXCEPT ![x] = label],
         counter' = counter + 1
  PROVE  Tallied'
<1>1. Counted' = Counted \cup {x} /\ x \notin Counted
  BY DEF Counted, Labelled
<1> QED
  BY <1>1, CountedFinite, FS_AddElement DEF Tallied

\* End: one less is counted; when none is left, the others have ended or only been created.
LEMMA OneLess ==
  ASSUME Labelled, Tallied, NEW x \in Threads, pc[x] = "ending",
         pc' = [pc EXCEPT ![x] = "ended"], counter' = counter - 1
  PROVE  /\ Tallied' /\ counter' \in Nat
         /\ counter' = 0 <=> \A y \in Threads : pc'[y] \in {"unused", "created", "ended"}
<1>1. Counted' = Counted \ {x} /\ x \in Counted
  BY DEF Counted, Labelled
<1>2. Tallied' /\ IsFiniteSet(Counted')
  BY <1>1, CountedFinite, FS_RemoveElement DEF Tallied
<1>3. counter' \in Nat /\ (counter' = 0 <=> Counted' = {})
  BY <1>2, FS_EmptySet, FS_CardinalityType DEF Tallied
<1> QED
  BY <1>2, <1>3 DEF Counted

\* Any other step leaves the threads counted that were.
LEMMA SameCount ==
  ASSUME Tallied, UNCHANGED counter,
         \A x \in Threads : pc'[x] \in {"unused", "created", "ended"}
                              <=> pc[x] \in {"unused", "created", "ended"}
  PROVE  Tallied'
<1>1. Counted' = Counted
  BY DEF Counted
<1> QED
  BY <1>1 DEF Tallied

\* A thread goes to a label of its own.
LEMMA Relabelled ==
  ASSUME Labelled, NEW x \in Threads, NEW label \in Labels, pc' = [pc EXCEPT ![x] = label],
         x = "listener" => label \in ListenerLabels, x = "recon" => label \in ReconLabels
  PROVE  /\ Labelled' /\ pc'[x] = label
         /\ \A y \in Threads : y # x => pc'[y] = pc[y]
<1>1. "listener" \in Threads /\ "recon" \in Threads
  BY DEF Threads
<1> QED
  BY <1>1 DEF Labelled

\* One that only moves a counted thread on is such a step, after which threads are alive.
LEMMA Moved ==
  ASSUME Labelled, Tallied, UNCHANGED counter, NEW x \in Threads, NEW label \in Labels,
         pc[x] \notin {"unused", "created", "ended"},
         label \notin {"unused", "created", "ended"}, pc' = [pc EXCEPT ![x] = label],
         x = "listener" => label \in ListenerLabels, x = "recon" => label \in ReconLabels
  PROVE  /\ Tallied' /\ Labelled' /\ ~NoneAlive /\ ~NoneAlive'
         /\ pc'[x] = label /\ \A y \in Threads : y # x => pc'[y] = pc[y]
<1>1. Labelled' /\ pc'[x] = label /\ \A y \in Threads : y # x => pc'[y] = pc[y]
  BY Relabelled
<1>2. Tallied'
  BY <1>1, SameCount
<1> QED
  BY <1>1, <1>2 DEF NoneAlive

-----------------------------------------------------------------------------
(* What the threads of a net do *)

\* A step of theirs touches neither the users nor the net, keeps some thread alive if one
\* is, and keeps a listener that is open while the net is on.
LEMMA ThreadFrame ==
  ASSUME LifeInv,
         UNCHANGED <<status, gate, named, known, switches, last, users, active, pollers,
                     mishaps>>,
         NoneAlive' <=> NoneAlive,
         status = 1 /\ pc["listener"] \in Opening => pc'["listener"] \in Opening
  PROVE  /\ Ordered' /\ UsersSay' /\ OnePoller' /\ LeaverSure'
         /\ OnIsNamed' /\ LeaverHasForgotten' /\ ShutdownIsLast'
<1>1. Ordered'
  BY DEF LifeInv, Ordered, Balanced, StatusSays, Connecting, users, One
<1>2. UsersSay'
  BY DEF LifeInv, UsersSay, users
<1>3. OnePoller'
  BY DEF LifeInv, OnePoller
<1>4. LeaverSure'
  BY DEF LifeInv, LeaverSure, Leaving, users
<1>5. OnIsNamed' /\ LeaverHasForgotten' /\ ShutdownIsLast'
  BY DEF LifeInv, OnIsNamed, LeaverHasForgotten, ShutdownIsLast, users
<1> QED
  BY <1>1, <1>2, <1>3, <1>4, <1>5

\* What else there is to a step of theirs: who is on the list of clients, and how many
\* loopback connections wait.
LEMMA ThreadStep ==
  ASSUME LifeInv,
         UNCHANGED <<status, gate, named, known, switches, last, users, active, pollers,
                     mishaps>>,
         Tallied', Labelled', counter' \in Nat,
         NoneAlive' <=> NoneAlive,
         status = 1 /\ pc["listener"] \in Opening => pc'["listener"] \in Opening,
         clients' \subseteq Sessions, ClientsKnown',
         knocks' \in Nat, knocks' <= knocks,
         pc'["listener"] \in {"ending", "ended"} /\ status # 1 => knocks' = 0,
         worker' \in {"none", "starting", "reporting", "ready"},
         rentLock' \in Sessions \cup {None, "worker"},
         writer' \in Sessions \cup {None, "worker"}
  PROVE  LifeInv'
<1>1. Positioned' /\ Numbers' /\ Sorts'
  BY DEF LifeInv, Shapes, Positioned, Numbers, Sorts, users
<1>2. FewKnocks'
  <2>1. /\ UNCHANGED <<One(Waking("ui")), One(Waking("leaver"))>>
        /\ One(Waking("ui")) \in Nat /\ One(Waking("leaver")) \in Nat
    BY DEF One, Waking, users
  <2> QED
    BY <2>1 DEF LifeInv, Shapes, Numbers, FewKnocks
<1> QED
  BY <1>1, <1>2, ThreadFrame DEF LifeInv, Shapes

\* A thread that counts itself
LEMMA StartStep ==
  ASSUME LifeInv, NEW x \in Threads, Start(x)
  PROVE  LifeInv'
<1> DEFINE label == CASE x = "listener" -> "accept" [] x = "recon" -> "list" [] OTHER -> "run"
<1>1. /\ Labelled /\ Tallied /\ pc[x] = "created" /\ counter' = counter + 1
      /\ pc' = [pc EXCEPT ![x] = label]
      /\ label \in {"accept", "list", "run"}
      /\ x = "listener" => label = "accept"
      /\ x = "recon" => label = "list"
      /\ x \notin {"listener", "recon"} => label = "run"
  BY LifecycleAssumption DEF LifeInv, Shapes, Start, Goto, Threads
<1> HIDE DEF label
<1>2. Labelled' /\ pc'[x] = label /\ \A y \in Threads : y # x => pc'[y] = pc[y]
  BY <1>1, Relabelled DEF Labels, ListenerLabels, ReconLabels
<1>3. Tallied' /\ counter' \in Nat
  <2>1. label \notin {"unused", "created", "ended"}
    BY <1>1
  <2>2. Tallied'
    BY <1>1, <2>1, OneMore
  <2>3. counter \in Nat
    BY DEF LifeInv, Shapes, Numbers
  <2> QED
    BY <1>1, <2>2, <2>3
<1>4. ~NoneAlive /\ ~NoneAlive'
  BY <1>1, <1>2 DEF NoneAlive
<1>5. ClientsKnown'
  BY <1>1, <1>2, LifecycleAssumption
  DEF LifeInv, Shapes, Sorts, Start, ClientsKnown, Serving, Threads
<1>6. /\ "listener" \in Threads
      /\ pc["listener"] \in Opening => pc'["listener"] \in Opening
      /\ pc'["listener"] \in {"ending", "ended"} => pc'["listener"] = pc["listener"]
  BY <1>1, <1>2 DEF Threads, Opening
<1>7. /\ UNCHANGED <<status, gate, named, known, switches, last, users, active, pollers,
                     mishaps, clients, knocks, worker, rentLock, writer>>
      /\ clients \subseteq Sessions /\ knocks \in Nat
      /\ worker \in {"none", "starting", "reporting", "ready"}
      /\ rentLock \in Sessions \cup {None, "worker"}
      /\ writer \in Sessions \cup {None, "worker"}
      /\ pc["listener"] \in {"ending", "ended"} => knocks = 0
  BY DEF LifeInv, Shapes, Numbers, Sorts, FewKnocks, Start, service
<1> QED
  BY <1>2, <1>3, <1>4, <1>5, <1>6, <1>7, ThreadStep

\* A step of one thread that has counted itself, and that leaves the rent as it is
LEMMA MoveStep ==
  ASSUME LifeInv, NEW x \in Threads, NEW label \in Labels,
         UNCHANGED <<net, users, service, mishaps>>,
         pc[x] \notin {"unused", "created", "ended"},
         label \notin {"unused", "created", "ended"}, pc' = [pc EXCEPT ![x] = label],
         x = "listener" => label \in ListenerLabels, x = "recon" => label \in ReconLabels,
         x = "listener" /\ status = 1 /\ pc[x] \in Opening => label \in Opening,
         x = "listener" /\ label \in {"ending", "ended"} => knocks' = 0,
         knocks' \in Nat, knocks' <= knocks,
         clients' \subseteq Sessions, ClientsKnown'
  PROVE  LifeInv'
<1>1. /\ Tallied' /\ Labelled' /\ ~NoneAlive /\ ~NoneAlive'
      /\ pc'[x] = label /\ \A y \in Threads : y # x => pc'[y] = pc[y]
  BY Moved DEF LifeInv, Shapes, net
<1>2. "listener" \in Threads
  BY DEF Threads
<1>3. pc'["listener"] \in {"ending", "ended"} => knocks' = 0
  BY <1>1, <1>2 DEF LifeInv, Shapes, Numbers, FewKnocks
<1>4. status = 1 /\ pc["listener"] \in Opening => pc'["listener"] \in Opening
  BY <1>1, <1>2
<1> QED
  BY <1>1, <1>3, <1>4, ThreadStep DEF LifeInv, Shapes, Numbers, Sorts, net, service

\* The list of clients is none of the listener's and the reconnection thread's business,
\* when they go from one label to another.
LEMMA ClientsStay ==
  ASSUME LifeInv, NEW x \in Threads, UNCHANGED <<clients, stranded>>,
         \A y \in Threads : y # x => pc'[y] = pc[y],
         \/ x \in {"listener", "recon"}
         \/ /\ pc[x] \in {"created"} \cup Serving
            /\ pc'[x] \in {"created"} \cup Serving
  PROVE  ClientsKnown'
BY LifecycleAssumption DEF LifeInv, Shapes, Sorts, ClientsKnown, Threads, Serving

\* The listener takes a loopback connection.
LEMMA AcceptKnockStep == LifeInv /\ AcceptKnock => LifeInv'
<1> SUFFICES ASSUME LifeInv, AcceptKnock PROVE LifeInv'
  OBVIOUS
<1> DEFINE label == IF status = 2 THEN "closing" ELSE "accept"
<1>1. /\ pc["listener"] = "accept" /\ pc' = [pc EXCEPT !["listener"] = label]
      /\ label \in {"closing", "accept"} /\ (status = 1 => label = "accept")
  BY DEF AcceptKnock, Goto
<1> HIDE DEF label
<1>2. "listener" \in Threads /\ \A y \in Threads : y # "listener" => pc'[y] = pc[y]
  BY <1>1 DEF LifeInv, Shapes, Labelled, Threads
<1>3. ClientsKnown'
  BY <1>2, ClientsStay DEF AcceptKnock
<1>4. clients' \subseteq Sessions
  BY DEF LifeInv, Shapes, Sorts, AcceptKnock
<1>5. knocks \in Nat /\ knocks' \in Nat /\ knocks' <= knocks
  BY DEF LifeInv, Shapes, Numbers, AcceptKnock
<1>6. /\ label \in Labels /\ label \in ListenerLabels
      /\ label \notin {"unused", "created", "ended", "ending"}
      /\ status = 1 => label \in Opening
      /\ pc["listener"] \notin {"unused", "created", "ended"}
  BY <1>1 DEF Opening, Labels, ListenerLabels
<1> QED
  BY <1>1, <1>2, <1>3, <1>4, <1>6, <1>5, MoveStep DEF AcceptKnock

\* Accept returns a connection, to be closed or to be shaken hands with.
LEMMA AcceptStep == LifeInv /\ Accept => LifeInv'
<1> SUFFICES ASSUME LifeInv, Accept PROVE LifeInv'
  OBVIOUS
<1> DEFINE label == IF status = 2 THEN "closing" ELSE "handshake"
<1>1. /\ pc["listener"] = "accept" /\ pc' = [pc EXCEPT !["listener"] = label]
      /\ label \in {"closing", "handshake"} /\ (status = 1 => label = "handshake")
  BY DEF Accept, Goto
<1> HIDE DEF label
<1>2. "listener" \in Threads /\ \A y \in Threads : y # "listener" => pc'[y] = pc[y]
  BY <1>1 DEF LifeInv, Shapes, Labelled, Threads
<1>3. ClientsKnown'
  BY <1>2, ClientsStay DEF Accept
<1>4. clients' \subseteq Sessions
  BY DEF LifeInv, Shapes, Sorts, Accept
<1>5. knocks \in Nat /\ knocks' \in Nat /\ knocks' <= knocks
  BY DEF LifeInv, Shapes, Numbers, Accept
<1>6. /\ label \in Labels /\ label \in ListenerLabels
      /\ label \notin {"unused", "created", "ended", "ending"}
      /\ status = 1 => label \in Opening
      /\ pc["listener"] \notin {"unused", "created", "ended"}
  BY <1>1 DEF Opening, Labels, ListenerLabels
<1> QED
  BY <1>1, <1>2, <1>3, <1>4, <1>6, <1>5, MoveStep DEF Accept

\* The listener closes, and with it the loopback connections nobody accepted.
LEMMA CloseListenerStep == LifeInv /\ CloseListener => LifeInv'
<1> SUFFICES ASSUME LifeInv, CloseListener PROVE LifeInv'
  OBVIOUS
<1>1. pc["listener"] = "closing" /\ pc' = [pc EXCEPT !["listener"] = "ending"]
  BY DEF CloseListener, Goto
<1>2. "listener" \in Threads /\ \A y \in Threads : y # "listener" => pc'[y] = pc[y]
  BY <1>1 DEF LifeInv, Shapes, Labelled, Threads
<1>3. ClientsKnown'
  BY <1>2, ClientsStay DEF CloseListener
<1>4. clients' \subseteq Sessions
  BY DEF LifeInv, Shapes, Sorts, CloseListener
<1>5. knocks \in Nat /\ knocks' = 0 /\ knocks' \in Nat /\ knocks' <= knocks
  BY DEF LifeInv, Shapes, Numbers, CloseListener
<1>6. "ending" \in Labels /\ "ending" \in ListenerLabels /\ "closing" \notin Opening
  BY DEF Opening, Labels, ListenerLabels
<1> QED
  BY <1>1, <1>2, <1>3, <1>4, <1>6, <1>5, MoveStep DEF CloseListener

\* The reconnection thread goes on, or ends.
LEMMA ReconMoves ==
  ASSUME LifeInv, NEW label \in {"list", "dial", "ask", "nap", "ending"},
         pc["recon"] \in {"list", "dial", "ask", "nap"}, Goto("recon", label),
         UNCHANGED <<net, clients, knocks, stranded, users, service, mishaps>>
  PROVE  LifeInv'
<1>1. pc' = [pc EXCEPT !["recon"] = label]
  BY DEF Goto
<1>2. "recon" \in Threads /\ \A y \in Threads : y # "recon" => pc'[y] = pc[y]
  BY <1>1 DEF LifeInv, Shapes, Labelled, Threads
<1>3. ClientsKnown'
  BY <1>2, ClientsStay
<1>4. clients' \subseteq Sessions
  BY DEF LifeInv, Shapes, Sorts
<1>5. knocks' \in Nat /\ knocks' <= knocks
  BY DEF LifeInv, Shapes, Numbers
<1>6. label \in Labels /\ label \in ReconLabels
  BY DEF Labels, ReconLabels
<1> QED
  BY <1>1, <1>2, <1>3, <1>4, <1>5, <1>6, MoveStep

\* The reconnection thread lists the nodes without a connection.
LEMMA ListStep == LifeInv /\ List => LifeInv'
<1> SUFFICES ASSUME LifeInv, List PROVE LifeInv'
  OBVIOUS
<1>1. CASE status = 1
  BY <1>1, ReconMoves DEF List
<1>2. CASE status # 1
  BY <1>2, ReconMoves DEF List
<1> QED
  BY <1>1, <1>2

\* It asks the next node on the list, goes on to the one after, or naps.
LEMMA DialStep == LifeInv /\ Dial => LifeInv'
BY ReconMoves DEF Dial

\* After the nap it looks at net_status.
LEMMA NapStep == LifeInv /\ Nap => LifeInv'
<1> SUFFICES ASSUME LifeInv, Nap PROVE LifeInv'
  OBVIOUS
<1>1. CASE status = 1
  BY <1>1, ReconMoves DEF Nap
<1>2. CASE status # 1
  BY <1>2, ReconMoves DEF Nap
<1> QED
  BY <1>1, <1>2

\* A thread of the net makes the thread of a session, or gives the session up.
LEMMA MakeStep ==
  ASSUME LifeInv, NEW x \in {"listener", "recon"}, NEW s \in Sessions,
         NEW label \in Labels, NEW new \in {"created", "ended"},
         pc[x] \notin {"unused", "created", "ended"}, pc[s] = "unused",
         label \notin {"unused", "created", "ended", "ending"},
         x = "listener" => label \in ListenerLabels, x = "recon" => label \in ReconLabels,
         x = "listener" /\ status = 1 => label \in Opening,
         pc' = [pc EXCEPT ![x] = label, ![s] = new],
         UNCHANGED <<net, knocks, users, service, mishaps>>,
         \/ clients' = clients /\ stranded' = stranded
         \/ clients' = RegisterClient(s) /\ new = "created" /\ stranded' = stranded
         \/ clients' = RegisterClient(s) /\ new = "ended" /\ stranded' = stranded \cup {s}
  PROVE  LifeInv'
<1>1. /\ x \in Threads /\ s \in Threads /\ s # x /\ s \notin {"listener", "recon"}
      /\ "listener" \in Threads /\ "recon" \in Threads /\ Sessions \subseteq Threads
  BY LifecycleAssumption DEF Threads
<1>2. /\ pc'[x] = label /\ pc'[s] = new
      /\ \A y \in Threads : y # x /\ y # s => pc'[y] = pc[y]
      /\ pc' \in [Threads -> Labels]
  BY <1>1 DEF LifeInv, Shapes, Labelled, Labels, ListenerLabels
<1>3. Labelled'
  BY <1>1, <1>2 DEF LifeInv, Shapes, Labelled
<1>4. Tallied'
  BY <1>1, <1>2, SameCount DEF LifeInv, net
<1>5. ~NoneAlive /\ ~NoneAlive'
  BY <1>1, <1>2 DEF NoneAlive
<1>6. clients' \subseteq Sessions
  BY DEF LifeInv, Shapes, Sorts, RegisterClient
<1>7. ClientsKnown'
  <2>1. /\ s \notin clients /\ s \notin stranded /\ x \notin clients
        /\ clients \subseteq Threads /\ stranded \subseteq clients
    <3>1. clients \subseteq Sessions
      BY DEF LifeInv, Shapes, Sorts
    <3>2. \A y \in stranded : y \in clients /\ pc[y] = "ended"
      BY DEF LifeInv, ClientsKnown
    <3>3. s \notin clients
      BY <3>2 DEF LifeInv, ClientsKnown, Serving
    <3> QED
      BY <1>1, <3>1, <3>2, <3>3, LifecycleAssumption
  <2>2. \A y \in clients : pc'[y] = pc[y]
    BY <1>2, <2>1
  <2>3. clients' = clients /\ stranded' = stranded => ClientsKnown'
    BY <2>1, <2>2 DEF LifeInv, ClientsKnown
  <2>4. clients' = RegisterClient(s) /\ new = "created" /\ stranded' = stranded => ClientsKnown'
    BY <1>2, <2>1, <2>2 DEF LifeInv, ClientsKnown, RegisterClient
  <2>5. clients' = RegisterClient(s) /\ new = "ended" /\ stranded' = stranded \cup {s}
          => ClientsKnown'
    BY <1>2, <2>1, <2>2 DEF LifeInv, ClientsKnown, RegisterClient
  <2> QED
    BY <2>3, <2>4, <2>5
<1>8. counter' \in Nat /\ knocks' \in Nat /\ knocks' <= knocks
  BY DEF LifeInv, Shapes, Numbers, net
<1>9. /\ status = 1 /\ pc["listener"] \in Opening => pc'["listener"] \in Opening
      /\ pc'["listener"] \in {"ending", "ended"} => pc'["listener"] = pc["listener"]
  BY <1>1, <1>2
<1>10. pc'["listener"] \in {"ending", "ended"} => knocks' = 0
  BY <1>9 DEF LifeInv, FewKnocks
<1>11. /\ worker' \in {"none", "starting", "reporting", "ready"}
       /\ rentLock' \in Sessions \cup {None, "worker"}
       /\ writer' \in Sessions \cup {None, "worker"}
  BY DEF LifeInv, Shapes, Sorts, service
<1> QED
  BY <1>3, <1>4, <1>5, <1>6, <1>7, <1>8, <1>9, <1>10, <1>11, ThreadStep DEF net, service

\* A connection that was accepted gets its thread.
LEMMA HandshakeDoneStep ==
  ASSUME LifeInv, NEW s \in Sessions, HandshakeDone(s)
  PROVE  LifeInv'
<1>1. /\ pc["listener"] = "handshake" /\ pc[s] = "unused"
      /\ pc' = [pc EXCEPT !["listener"] = "accept", ![s] = "created"]
      /\ clients' = clients \/ clients' = RegisterClient(s)
      /\ UNCHANGED <<net, knocks, stranded, users, service, mishaps>>
  BY DEF HandshakeDone, RunClientThread
<1>2. "accept" \in Labels /\ "accept" \in ListenerLabels /\ "accept" \in Opening
  BY DEF Labels, ListenerLabels, Opening
<1> QED
  BY <1>1, <1>2, MakeStep

\* A handshake that throws leaves the session without a thread, and maybe on the list.
LEMMA HandshakeThrowsStep ==
  ASSUME LifeInv, NEW s \in Sessions, HandshakeThrows(s)
  PROVE  LifeInv'
<1> DEFINE label == IF status = 2 THEN "closing" ELSE "accept"
<1>1. /\ pc["listener"] = "handshake" /\ pc[s] = "unused"
      /\ pc' = [pc EXCEPT !["listener"] = label, ![s] = "ended"]
      /\ label \in {"closing", "accept"} /\ (status = 1 => label = "accept")
  BY DEF HandshakeThrows
<1> HIDE DEF label
<1>2. /\ label \in Labels /\ label \in ListenerLabels /\ (status = 1 => label \in Opening)
      /\ label \notin {"unused", "created", "ended", "ending"}
  BY <1>1 DEF Labels, ListenerLabels, Opening
<1> QED
  BY <1>1, <1>2, MakeStep DEF HandshakeThrows

\* A node that was asked has answered, or has not.
LEMMA AnsweredStep ==
  ASSUME LifeInv, NEW s \in Sessions, Answered(s)
  PROVE  LifeInv'
BY MakeStep DEF Answered, RunClientThread, Labels, ReconLabels

\* A thread of a session goes on.
LEMMA SessionMoves ==
  ASSUME LifeInv, NEW s \in Sessions, NEW label \in Serving,
         pc[s] \in Serving, Goto(s, label),
         UNCHANGED <<net, clients, knocks, stranded, users, active, pollers, mishaps>>,
         worker' \in {"none", "starting", "reporting", "ready"},
         rentLock' \in Sessions \cup {None, "worker"},
         writer' \in Sessions \cup {None, "worker"}
  PROVE  LifeInv'
<1>1. pc' = [pc EXCEPT ![s] = label]
  BY DEF Goto
<1>2. s \in Threads /\ "listener" \in Threads /\ s \notin {"listener", "recon"}
  BY LifecycleAssumption DEF Threads
<1>3. /\ label \in Labels /\ label \notin {"unused", "created", "ended"}
      /\ pc[s] \notin {"unused", "created", "ended"} /\ UNCHANGED counter
  BY DEF Labels, ListenerLabels, Serving, net
<1>4. /\ Tallied' /\ Labelled' /\ ~NoneAlive /\ ~NoneAlive'
      /\ pc'[s] = label /\ \A y \in Threads : y # s => pc'[y] = pc[y]
  BY <1>1, <1>2, <1>3, Moved DEF LifeInv, Shapes
<1>5. ClientsKnown'
  BY <1>2, <1>4, ClientsStay
<1>6. clients' \subseteq Sessions
  BY DEF LifeInv, Shapes, Sorts
<1>7. counter' \in Nat /\ knocks' \in Nat /\ knocks' <= knocks
  BY DEF LifeInv, Shapes, Numbers, net
<1>8. /\ status = 1 /\ pc["listener"] \in Opening => pc'["listener"] \in Opening
      /\ pc'["listener"] \in {"ending", "ended"} => knocks' = 0
  BY <1>2, <1>4 DEF LifeInv, FewKnocks
<1> QED
  BY <1>4, <1>5, <1>6, <1>7, <1>8, ThreadStep DEF net

\* The net is going off, a message comes and is read, or the connection is closed.
LEMMA SessionStep ==
  ASSUME LifeInv, NEW s \in Sessions,
         NoticeStop(s) \/ MessageComes(s) \/ MessageRead(s) \/ PeerCloses(s)
  PROVE  LifeInv'
<1>1. PICK label \in Serving : Goto(s, label)
  BY DEF NoticeStop, MessageComes, MessageRead, PeerCloses, Serving
<1>2. /\ pc[s] \in Serving
      /\ UNCHANGED <<net, clients, knocks, stranded, users, service, mishaps>>
  BY DEF NoticeStop, MessageComes, MessageRead, PeerCloses, Serving
<1> QED
  BY <1>1, <1>2, SessionMoves DEF LifeInv, Shapes, Sorts, service

\* A message has been passed on, or the refusal has been sent and the rent's semaphore is
\* free.
LEMMA WrittenStep ==
  ASSUME LifeInv, NEW s \in Sessions, Forward(s) \/ RentRefused(s)
  PROVE  LifeInv'
<1>1. "run" \in Serving /\ pc[s] \in Serving
  BY DEF Forward, RentRefused, Serving
<1>2. rentLock' \in Sessions \cup {None, "worker"} /\ writer' \in Sessions \cup {None, "worker"}
  BY DEF Forward, RentRefused, Written, LifeInv, Shapes, Sorts
<1> QED
  BY <1>1, <1>2, SessionMoves DEF Forward, RentRefused, LifeInv, Shapes, Sorts

\* The rent goes on, with no thread of the net.
LEMMA RentMoves ==
  ASSUME LifeInv, UNCHANGED <<net, threads, users, active, pollers, mishaps>>,
         worker' \in {"none", "starting", "reporting", "ready"},
         rentLock' \in Sessions \cup {None, "worker"},
         writer' \in Sessions \cup {None, "worker"}
  PROVE  LifeInv'
<1>1. Tallied' /\ Labelled' /\ ClientsKnown' /\ (NoneAlive' <=> NoneAlive)
  BY DEF LifeInv, Shapes, Tallied, Counted, Labelled, ClientsKnown, NoneAlive, net, threads
<1>2. clients' \subseteq Sessions
  BY DEF LifeInv, Shapes, Sorts, threads
<1>3. counter' \in Nat /\ knocks' \in Nat /\ knocks' <= knocks
  BY DEF LifeInv, Shapes, Numbers, net, threads
<1>4. /\ status = 1 /\ pc["listener"] \in Opening => pc'["listener"] \in Opening
      /\ pc'["listener"] \in {"ending", "ended"} => knocks' = 0
  BY DEF LifeInv, FewKnocks, threads
<1> QED
  BY <1>1, <1>2, <1>3, <1>4, ThreadStep DEF net

\* The rent is accepted, or refused under its semaphore.
LEMMA PerformRentStep ==
  ASSUME LifeInv, NEW s \in Sessions, PerformRent(s)
  PROVE  LifeInv'
<1>1. {"run", "refusing"} \subseteq Serving /\ pc[s] \in Serving
  BY DEF PerformRent, Serving
<1>2. CASE worker' = "starting" /\ Goto(s, "run") /\ UNCHANGED rentLock
  BY <1>1, <1>2, SessionMoves DEF PerformRent, LifeInv, Shapes, Sorts
<1>3. CASE Goto(s, "refusing") /\ rentLock' = s /\ UNCHANGED worker
  BY <1>1, <1>3, SessionMoves DEF PerformRent, LifeInv, Shapes, Sorts
<1> QED
  BY <1>2, <1>3 DEF PerformRent

\* A write blocks.
LEMMA WriteBlocksStep ==
  ASSUME LifeInv, NEW w \in Sessions \cup {"worker"}, WriteBlocks(w)
  PROVE  LifeInv'
BY RentMoves DEF WriteBlocks, LifeInv, Shapes, Sorts

\* The rent's WorkerThread, and the end of the host
LEMMA WorkerStep == LifeInv /\ (Worker \/ HostExits) => LifeInv'
<1>1. LifeInv /\ WorkerLocks => LifeInv'
  BY RentMoves DEF WorkerLocks, LifeInv, Shapes, Sorts
<1>2. LifeInv /\ WorkerReports => LifeInv'
  BY RentMoves DEF WorkerReports, Written, LifeInv, Shapes, Sorts
<1>3. LifeInv /\ HostExits => LifeInv'
  BY RentMoves DEF HostExits, LifeInv, Shapes, Sorts
<1> QED
  BY <1>1, <1>2, <1>3 DEF Worker

\* A session is closed, and not on the list of clients any more.
LEMMA CloseSessionStep ==
  ASSUME LifeInv, NEW s \in Sessions, CloseSession(s)
  PROVE  LifeInv'
<1>1. pc[s] = "closing" /\ pc' = [pc EXCEPT ![s] = "ending"] /\ clients' = clients \ {s}
  BY DEF CloseSession, Goto, Unlisted
<1>2. s \in Threads /\ s \notin {"listener", "recon"}
  BY LifecycleAssumption DEF Threads
<1>3. /\ pc'[s] = "ending" /\ \A y \in Threads : y # s => pc'[y] = pc[y]
      /\ clients \subseteq Sessions /\ Sessions \subseteq Threads
  BY <1>1, <1>2 DEF LifeInv, Shapes, Labelled, Sorts, Threads
<1>4. ClientsKnown'
  <2>1. s \notin stranded
    BY <1>1 DEF LifeInv, ClientsKnown
  <2> QED
    BY <1>1, <1>3, <2>1 DEF LifeInv, ClientsKnown, CloseSession
<1>5. knocks' \in Nat /\ knocks' <= knocks
  BY DEF LifeInv, Shapes, Numbers, CloseSession
<1>6. "ending" \in Labels
  BY DEF Labels, ListenerLabels
<1> QED
  BY <1>1, <1>2, <1>3, <1>4, <1>5, <1>6, MoveStep DEF CloseSession

-----------------------------------------------------------------------------
(* The end of a thread, and what the last one does *)

\* A thread counts itself out.  If none is left, either all have ended, or one was created
\* that had not counted itself, which is the mishap.
LEMMA EndStep ==
  ASSUME LifeInv, "uncounted" \notin mishaps, NEW x \in Threads, End(x)
  PROVE  LifeInv'
<1>1. /\ pc[x] = "ending" /\ pc' = [pc EXCEPT ![x] = "ended"] /\ counter' = counter - 1
      /\ last' = IF counter' = 0 THEN "switch off" ELSE last
      /\ UNCHANGED <<status, gate, named, known, switches, clients, knocks, stranded, pos,
                     quits, copied, worker, rentLock, writer, active, pollers>>
  BY DEF End, Goto, NoneLeft, users, service
<1>2. /\ Labelled' /\ pc'[x] = "ended" /\ \A y \in Threads : y # x => pc'[y] = pc[y]
  BY <1>1, Relabelled DEF LifeInv, Shapes, Labels, ListenerLabels, ReconLabels
<1>3. /\ Tallied' /\ counter' \in Nat
      /\ counter' = 0 <=> \A y \in Threads : pc'[y] \in {"unused", "created", "ended"}
  BY <1>1, OneLess DEF LifeInv, Shapes
<1>4. /\ \A k : k # "uncounted" => (k \in mishaps' <=> k \in mishaps)
      /\ "uncounted" \notin mishaps' /\ counter' = 0 => \A y \in Threads : pc[y] # "created"
  BY DEF End, Mishap, NoneLeft
<1>5. ~NoneAlive
  BY <1>1 DEF NoneAlive
<1>6. "uncounted" \notin mishaps' => (NoneAlive' <=> counter' = 0)
  BY <1>2, <1>3, <1>4 DEF NoneAlive
<1>7. Balanced /\ StatusSays
  BY DEF LifeInv, Ordered
<1>8. status # 0 /\ last # "switch off"
  BY <1>5, <1>7 DEF StatusSays
<1>9. "listener" \in Threads /\ Sessions \subseteq Threads
  BY DEF Threads
<1>10. status = 1 => x # "listener" /\ pc'["listener"] \in Opening /\ ~NoneAlive'
  BY <1>1, <1>2, <1>7, <1>9 DEF StatusSays, Opening, NoneAlive
<1>11. last # "none" => status = 1
  BY <1>5, <1>7 DEF LifeInv, Balanced, UsersSay, Connecting
<1>12. Ordered'
  <2> SUFFICES ASSUME "uncounted" \notin mishaps' PROVE Balanced' /\ StatusSays'
    BY DEF Ordered
  <2>1. CASE counter' = 0
    <3>1. NoneAlive' /\ status # 1 /\ last = "none" /\ last' = "switch off" /\ UNCHANGED status
      BY <1>1, <1>6, <1>10, <1>11, <2>1
    <3>2. Balanced'
      <4>1. gate = 1 + One(Connecting) - 1 - 0
        BY <1>5, <1>7, <3>1 DEF Balanced, One
      <4>2. One(~NoneAlive') = 0 /\ One(last' # "none") = 1
        BY <3>1 DEF One
      <4>3. gate' = gate /\ Connecting' = Connecting
        BY <1>1 DEF Connecting
      <4>4. gate' = 1 + One(Connecting') - 0 - 1
        BY <4>1, <4>3 DEF One
      <4>5. gate' = 1 + One(Connecting') - One(~NoneAlive') - One(last' # "none")
        BY <4>2, <4>4
      <4> QED
        BY <3>1, <4>5 DEF Balanced
    <3>3. StatusSays'
      BY <1>8, <3>1 DEF StatusSays
    <3> QED
      BY <3>2, <3>3
  <2>2. CASE counter' # 0
    <3>1. ~NoneAlive' /\ UNCHANGED <<status, last, gate, named, pos>>
      BY <1>1, <1>6, <2>2
    <3>2. Balanced'
      BY <1>5, <1>7, <3>1 DEF Balanced, Connecting, One
    <3>3. StatusSays'
      BY <1>4, <1>7, <1>8, <1>10, <3>1 DEF StatusSays
    <3> QED
      BY <3>2, <3>3
  <2> QED
    BY <2>1, <2>2
<1>13. UsersSay'
  BY <1>1, <1>5 DEF LifeInv, UsersSay
<1>14. FewKnocks'
  <2>1. pc'["listener"] \in {"ending", "ended"} => pc["listener"] \in {"ending", "ended"}
    BY <1>1, <1>2, <1>9
  <2> QED
    BY <1>1, <2>1 DEF LifeInv, FewKnocks, Waking
<1>15. ClientsKnown'
  <2>1. x \notin clients /\ x \notin stranded /\ clients \subseteq Threads
    BY <1>1, <1>9 DEF LifeInv, Shapes, Sorts, ClientsKnown, Serving
  <2> QED
    BY <1>1, <1>2, <2>1 DEF LifeInv, ClientsKnown
<1>16. LeaverSure'
  <2> SUFFICES ASSUME "uncounted" \notin mishaps', Leaving, UNCHANGED pos,
                      mishaps \cap {"switched", "overtaken"} = {}
               PROVE  LeaverSure'
    BY <1>1, <1>4 DEF LeaverSure, Leaving
  <2>1. CASE counter' = 0
    BY <1>1, <1>5, <1>8, <1>10, <1>6, <2>1 DEF LifeInv, LeaverSure, Leaving
  <2>2. CASE counter' # 0
    BY <1>1, <1>5, <1>6, <1>8, <2>2 DEF LifeInv, LeaverSure, Leaving
  <2> QED
    BY <2>1, <2>2
<1>17. OnePoller' /\ OnIsNamed' /\ LeaverHasForgotten' /\ ShutdownIsLast'
  BY <1>1, <1>4 DEF LifeInv, OnePoller, OnIsNamed, LeaverHasForgotten, ShutdownIsLast
<1>18. Positioned' /\ Numbers'
  BY <1>1, <1>3 DEF LifeInv, Shapes, Positioned, Numbers
<1>19. Sorts'
  BY <1>1 DEF LifeInv, Shapes, Sorts
<1> QED
  BY <1>2, <1>3, <1>12, <1>13, <1>14, <1>15, <1>16, <1>17, <1>18, <1>19 DEF LifeInv, Shapes

\* A step in which no thread of the net does anything
LEMMA PcStays ==
  ASSUME LifeInv, UNCHANGED <<counter, pc, clients, stranded>>
  PROVE  Tallied' /\ Labelled' /\ ClientsKnown' /\ (NoneAlive' <=> NoneAlive)
BY DEF LifeInv, Shapes, Tallied, Counted, Labelled, ClientsKnown, NoneAlive

\* What holds of the listener when no thread is alive
LEMMA ListenerEnded ==
  LifeInv /\ NoneAlive => pc["listener"] = "ended" /\ knocks = 0
BY DEF LifeInv, Shapes, Labelled, ListenerLabels, NoneAlive, FewKnocks, Threads

\* The net that is on has a thread; so has the one that is being switched on.
LEMMA OnIsAlive ==
  LifeInv /\ "uncounted" \notin mishaps =>
    /\ status = 1 => ~NoneAlive
    /\ pos["ui"] \in {"connecting", "allowing"} => ~NoneAlive
BY ListenerEnded DEF LifeInv, Ordered, StatusSays, UsersSay, Opening

\* The last thread switches the net off ...
LEMMA SwitchOffStep == LifeInv /\ "uncounted" \notin mishaps /\ SwitchOff => LifeInv'
<1> SUFFICES ASSUME LifeInv, "uncounted" \notin mishaps, SwitchOff PROVE LifeInv'
  OBVIOUS
<1>1. /\ last = "switch off" /\ status' = 0 /\ last' = "clean up"
      /\ UNCHANGED <<counter, gate, named, known, switches, pc, clients, knocks, stranded, pos,
                     quits, copied, worker, rentLock, writer, active, pollers, mishaps>>
  BY DEF SwitchOff, threads, users, service
<1>2. status' # 1 /\ status' \in 0..2
  <2>1. status' = 0
    BY <1>1
  <2> QED
    BY <2>1
<1>3. Balanced /\ StatusSays
  BY DEF LifeInv, Ordered
<1>4. NoneAlive /\ status # 0
  BY <1>1, <1>3 DEF StatusSays
<1>5. status # 1 /\ pos["ui"] \notin {"connecting", "allowing"}
  BY <1>4, OnIsAlive
<1>6. Tallied' /\ Labelled' /\ ClientsKnown' /\ NoneAlive'
  BY <1>1, <1>4, PcStays
<1>7. Ordered'
  <2>1. Balanced'
    BY <1>1, <1>3, <1>6, <1>4 DEF Balanced, Connecting, One
  <2>2. StatusSays'
    BY <1>1, <1>6, <1>2 DEF StatusSays
  <2> QED
    BY <2>1, <2>2 DEF Ordered
<1>8. UsersSay'
  BY <1>1, <1>5, <1>2 DEF LifeInv, UsersSay
<1>9. FewKnocks'
  BY <1>1, <1>4, ListenerEnded DEF LifeInv, FewKnocks, Waking
<1>10. LeaverSure'
  BY <1>1, <1>5 DEF LifeInv, LeaverSure, Leaving
<1>11. OnePoller' /\ OnIsNamed' /\ LeaverHasForgotten' /\ ShutdownIsLast'
  BY <1>1, <1>2 DEF LifeInv, OnePoller, OnIsNamed, LeaverHasForgotten, ShutdownIsLast
<1>12. Positioned' /\ Numbers'
  BY <1>1, <1>2 DEF LifeInv, Shapes, Positioned, Numbers
<1>13. Sorts'
  BY <1>1 DEF LifeInv, Shapes, Sorts
<1> QED
  BY <1>6, <1>7, <1>8, <1>9, <1>10, <1>11, <1>12, <1>13 DEF LifeInv, Shapes

\* ... and cleans up.
LEMMA CleanUpStep == LifeInv /\ "uncounted" \notin mishaps /\ CleanUp => LifeInv'
<1> SUFFICES ASSUME LifeInv, "uncounted" \notin mishaps, CleanUp PROVE LifeInv'
  OBVIOUS
<1>1. /\ last = "clean up" /\ named' = FALSE /\ gate' = gate + 1 /\ last' = "none"
      /\ UNCHANGED <<status, counter, known, switches, pc, clients, knocks, stranded, pos,
                     quits, copied, worker, rentLock, writer, active, pollers, mishaps>>
  BY DEF CleanUp, threads, users, service
<1>2. Balanced /\ StatusSays
  BY DEF LifeInv, Ordered
<1>3. Connecting <=> ~NoneAlive
  BY <1>1, <1>2, OnIsAlive DEF Balanced, Connecting
<1>4. gate = 0 /\ gate' = 1
  <2>1. gate = 1 + One(Connecting) - One(~NoneAlive) - 1
    BY <1>1, <1>2 DEF Balanced, One
  <2>2. One(Connecting) = One(~NoneAlive) /\ One(Connecting) \in 0..1
    BY <1>3 DEF One
  <2>3. gate' = gate + 1
    BY <1>1
  <2> QED
    BY <2>1, <2>2, <2>3
<1>5. Tallied' /\ Labelled' /\ ClientsKnown' /\ (NoneAlive' <=> NoneAlive)
  BY <1>1, PcStays
<1>6. Ordered'
  <2>1. Connecting' <=> ~NoneAlive'
    BY <1>1, <1>3, <1>5 DEF Connecting
  <2>2. Balanced'
    <3>1. One(Connecting') = One(~NoneAlive') /\ One(Connecting') \in 0..1
      BY <2>1 DEF One
    <3>2. gate' = 1 + One(Connecting') - One(~NoneAlive') - 0
      BY <1>4, <3>1
    <3>3. last' = "none"
      BY <1>1
    <3> QED
      BY <3>2, <3>3 DEF Balanced, One
  <2>3. StatusSays'
    BY <1>1, <1>2, <1>5 DEF StatusSays
  <2> QED
    BY <2>2, <2>3 DEF Ordered
<1>7. UsersSay'
  BY <1>1 DEF LifeInv, UsersSay
<1>8. FewKnocks'
  BY <1>1 DEF LifeInv, FewKnocks, Waking
<1>9. LeaverSure'
  BY <1>1, <1>2 DEF LifeInv, LeaverSure, Leaving, StatusSays
<1>10. OnePoller' /\ OnIsNamed' /\ LeaverHasForgotten' /\ ShutdownIsLast'
  BY <1>1, <1>2 DEF LifeInv, OnePoller, OnIsNamed, LeaverHasForgotten, ShutdownIsLast, StatusSays
<1>11. Positioned' /\ Numbers'
  BY <1>1, <1>4 DEF LifeInv, Shapes, Positioned, Numbers
<1>12. Sorts'
  BY <1>1 DEF LifeInv, Shapes, Sorts
<1> QED
  BY <1>5, <1>6, <1>7, <1>8, <1>9, <1>10, <1>11, <1>12 DEF LifeInv, Shapes

-----------------------------------------------------------------------------
(* What the user's thread and LeaveCurrentNetThread do *)

\* They go from one place to another.
LEMMA Moves ==
  ASSUME LifeInv, NEW u \in Users, NEW place \in Places, u = "leaver" => place \in LeaverPlaces,
         Move(u, place)
  PROVE  /\ Positioned' /\ pos'[u] = place
         /\ u = "ui" => pos'["leaver"] = pos["leaver"]
         /\ u = "leaver" => pos'["ui"] = pos["ui"]
<1>1. pos' = [pos EXCEPT ![u] = place] /\ "ui" \in Users /\ "leaver" \in Users
  BY DEF Move, Users
<1> QED
  BY <1>1 DEF LifeInv, Shapes, Positioned

\* Mishaps are never taken back.
LEMMA MishapAdds ==
  ASSUME NEW k, NEW when, Mishap(k, when)
  PROVE  /\ mishaps \subseteq mishaps' /\ mishaps' \subseteq mishaps \cup {k}
         /\ when => k \in mishaps'
BY DEF Mishap

\* What holds of the net still does when a user's step leaves it as it is.
LEMMA NetStays ==
  ASSUME LifeInv,
         UNCHANGED <<status, counter, gate, named, switches, last, pc, clients, stranded>>,
         pos'["ui"] = "connecting" <=> pos["ui"] = "connecting",
         mishaps \subseteq mishaps', "uncounted" \in mishaps' => "uncounted" \in mishaps
  PROVE  /\ Tallied' /\ Labelled' /\ ClientsKnown' /\ (NoneAlive' <=> NoneAlive)
         /\ Ordered' /\ OnIsNamed'
<1>1. Tallied' /\ Labelled' /\ ClientsKnown' /\ (NoneAlive' <=> NoneAlive)
  BY PcStays
<1>2. Balanced => Balanced'
  BY <1>1 DEF Balanced, Connecting, One
<1>3. StatusSays => StatusSays'
  BY <1>1 DEF StatusSays
<1> QED
  BY <1>1, <1>2, <1>3 DEF LifeInv, Ordered, OnIsNamed

\* The user switches nothing while LeaveCurrentNetThread is at work, or it is disturbed.
LEMMA LeaverUndisturbed ==
  ASSUME LifeInv, "uncounted" \notin mishaps, mishaps \subseteq mishaps',
         pos'["leaver"] = pos["leaver"],
         pos["ui"] # "idle" \/ ~Leaving \/ "switched" \in mishaps'
  PROVE  LeaverSure'
<1> SUFFICES ASSUME Leaving', mishaps' \cap {"switched", "overtaken"} = {} PROVE FALSE
  BY DEF LeaverSure
<1>1. Leaving /\ mishaps \cap {"switched", "overtaken"} = {} /\ "switched" \notin mishaps'
  BY DEF Leaving
<1> QED
  BY <1>1 DEF LifeInv, LeaverSure

\* Those that do not touch the numbers
LEMMA NumbersStay ==
  ASSUME LifeInv, UNCHANGED <<status, counter, gate, knocks, switches>>
  PROVE  Numbers'
BY DEF LifeInv, Shapes, Numbers

\* ConnectWaits
LEMMA ConnectWaitsStep == LifeInv /\ "uncounted" \notin mishaps /\ ConnectWaits => LifeInv'
<1> SUFFICES ASSUME LifeInv, "uncounted" \notin mishaps, ConnectWaits PROVE LifeInv'
  OBVIOUS
<1>1. /\ pos["ui"] = "connecting" /\ Move("ui", "allowing") /\ pollers' = Append(pollers, TRUE)
      /\ active' = TRUE
      /\ Mishap("doubled", \E i \in DOMAIN pollers : pollers[i])
  BY DEF ConnectWaits
<1>2. UNCHANGED <<status, counter, named, known, switches, last, pc, clients, knocks, stranded,
                  quits, copied, worker, rentLock, writer>>
  BY DEF ConnectWaits, threads
<1>3. gate > 0 /\ gate' = gate - 1
  BY DEF ConnectWaits
<1>4. /\ Positioned' /\ pos'["ui"] = "allowing" /\ pos'["leaver"] = pos["leaver"]
  BY <1>1, Moves DEF Users, Places
<1>5. /\ mishaps \subseteq mishaps' /\ mishaps' \subseteq mishaps \cup {"doubled"}
      /\ (\E i \in DOMAIN pollers : pollers[i]) => "doubled" \in mishaps'
  BY <1>1, MishapAdds
<1>6. Tallied' /\ Labelled' /\ ClientsKnown' /\ (NoneAlive' <=> NoneAlive)
  BY <1>2, PcStays
<1>7. pollers \in Seq(BOOLEAN)
  BY DEF LifeInv, Shapes, Sorts
<1>8. Balanced /\ StatusSays /\ status = 1 /\ ~NoneAlive
  BY <1>1, OnIsAlive DEF LifeInv, Ordered, UsersSay
<1>9. gate = 1 /\ last = "none"
  <2>1. gate = 1 + 1 - 1 - One(last # "none")
    BY <1>1, <1>8 DEF Balanced, Connecting, One
  <2> QED
    BY <1>3, <2>1 DEF One
<1>10. gate' = 0
  BY <1>3, <1>9
<1>11. Ordered'
  <2>1. One(Connecting') = 0 /\ One(~NoneAlive') = 1 /\ One(last' # "none") = 0
    BY <1>2, <1>4, <1>6, <1>8, <1>9 DEF Connecting, One
  <2>2. gate' = 1 + One(Connecting') - One(~NoneAlive') - One(last' # "none")
    BY <1>10, <2>1
  <2>3. Balanced'
    BY <1>2, <1>9, <2>2 DEF Balanced
  <2>4. StatusSays'
    BY <1>2, <1>5, <1>6, <1>8 DEF StatusSays
  <2> QED
    BY <2>3, <2>4 DEF Ordered
<1>12. UsersSay'
  BY <1>1, <1>2, <1>4, <1>6 DEF LifeInv, UsersSay, Users
<1>13. FewKnocks'
  <2>1. One(Waking("ui"))' = One(Waking("ui")) /\ One(Waking("leaver"))' = One(Waking("leaver"))
    BY <1>1, <1>4 DEF Waking, One
  <2> QED
    BY <1>2, <2>1 DEF LifeInv, FewKnocks
<1>14. OnePoller'
  <2>1. /\ Len(pollers) \in Nat /\ Len(pollers') = Len(pollers) + 1
        /\ \A i \in 1..Len(pollers) : pollers'[i] = pollers[i]
    BY <1>1, <1>7
  <2>2. DOMAIN pollers = 1..Len(pollers)
    BY <1>7
  <2> QED
    BY <1>5, <2>1, <2>2 DEF OnePoller
<1>15. LeaverSure'
  BY <1>1, <1>4, <1>5, LeaverUndisturbed
<1>16. OnIsNamed' /\ LeaverHasForgotten' /\ ShutdownIsLast'
  BY <1>2, <1>4, <1>5 DEF LifeInv, OnIsNamed, LeaverHasForgotten, ShutdownIsLast
<1>17. Numbers'
  <2>1. gate' \in {0, 1}
    BY <1>10
  <2> QED
    BY <1>2, <2>1 DEF LifeInv, Shapes, Numbers
<1>18. Sorts'
  <2>1. pollers' \in Seq(BOOLEAN)
    BY <1>1, <1>7
  <2> QED
    BY <1>1, <1>2, <2>1 DEF LifeInv, Shapes, Sorts
<1> QED
  BY <1>4, <1>6, <1>11, <1>12, <1>13, <1>14, <1>15, <1>16, <1>17, <1>18 DEF LifeInv, Shapes

\* Nobody has begun to disconnect.
LEMMA KnocksStay ==
  ASSUME LifeInv, UNCHANGED <<status, pc, knocks>>,
         Waking("ui")' => Waking("ui"), Waking("leaver")' => Waking("leaver")
  PROVE  FewKnocks'
<1>1. /\ One(Waking("ui"))' <= One(Waking("ui")) /\ One(Waking("leaver"))' <= One(Waking("leaver"))
      /\ One(Waking("ui")) \in 0..1 /\ One(Waking("leaver")) \in 0..1
      /\ One(Waking("ui"))' \in 0..1 /\ One(Waking("leaver"))' \in 0..1
  BY DEF One
<1>2. knocks \in Nat
  BY DEF LifeInv, Shapes, Numbers
<1> QED
  BY <1>1, <1>2 DEF LifeInv, FewKnocks

\* A step of the user's thread that leaves the net, the rest of the service and the place of
\* LeaveCurrentNetThread as they are; only ServerNetConnect begins to connect.
LEMMA UiStep ==
  ASSUME LifeInv, "uncounted" \notin mishaps, NEW place \in Places, Move("ui", place),
         UNCHANGED <<status, counter, gate, named, known, switches, last, pc, clients, knocks,
                     stranded, copied, pollers, mishaps>>,
         Sorts', pos["ui"] \notin {"idle", "connecting"}, place \notin {"connecting", "gone"},
         place = "allowing" => pos["ui"] = "allowing",
         place = "delete" => NoneAlive /\ last = "none",
         place \in {"killing", "waking"} => status # 1,
         place \in {"decided", "killing", "waking"} => Waking("ui")
  PROVE  LifeInv'
<1>1. /\ Positioned' /\ pos'["ui"] = place /\ pos'["leaver"] = pos["leaver"]
  BY Moves DEF Users, LifeInv, Shapes, Positioned
<1>2. /\ Tallied' /\ Labelled' /\ ClientsKnown' /\ (NoneAlive' <=> NoneAlive)
      /\ Ordered' /\ OnIsNamed'
  BY <1>1, NetStays
<1>3. UsersSay'
  BY <1>1, <1>2 DEF LifeInv, UsersSay, Users
<1>4. FewKnocks'
  BY <1>1, KnocksStay DEF Waking
<1>5. OnePoller' /\ LeaverHasForgotten' /\ ShutdownIsLast'
  BY <1>1 DEF LifeInv, OnePoller, LeaverHasForgotten, ShutdownIsLast
<1>6. LeaverSure'
  BY <1>1, LeaverUndisturbed
<1>7. Numbers'
  BY NumbersStay
<1> QED
  BY <1>1, <1>2, <1>3, <1>4, <1>5, <1>6, <1>7 DEF LifeInv, Shapes

\* ServerNetConnect allows tasks, and is done.
LEMMA AllowTasksStep == LifeInv /\ "uncounted" \notin mishaps /\ AllowTasks => LifeInv'
<1> SUFFICES ASSUME LifeInv, "uncounted" \notin mishaps, AllowTasks PROVE LifeInv'
  OBVIOUS
<1>1. /\ pos["ui"] = "allowing" /\ Move("ui", "idle")
      /\ UNCHANGED <<status, counter, gate, named, known, switches, last, pc, clients, knocks,
                     stranded, quits, copied, worker, rentLock, writer, active, pollers, mishaps>>
  BY DEF AllowTasks, net, threads, service
<1>2. Sorts'
  BY <1>1 DEF LifeInv, Shapes, Sorts
<1>3. "idle" \in Places
  BY DEF Places
<1> QED
  BY <1>1, <1>2, <1>3, UiStep

\* ServerNetDisconnect and ServerShutdown read net_status.
LEMMA DecidesStep ==
  LifeInv /\ "uncounted" \notin mishaps /\ (ServerNetDisconnect \/ ServerShutdown) => LifeInv'
<1> SUFFICES ASSUME LifeInv, "uncounted" \notin mishaps, ServerNetDisconnect \/ ServerShutdown
             PROVE  LifeInv'
  OBVIOUS
<1> DEFINE place == IF status = 1 THEN "decided" ELSE AfterDisconnect("ui")
<1>1. /\ pos["ui"] = "idle" /\ Move("ui", place) /\ Mishap("switched", Leaving)
      /\ UNCHANGED <<status, counter, gate, named, known, switches, last, pc, clients, knocks,
                     stranded, copied, worker, rentLock, writer, active, pollers>>
      /\ quits' \in BOOLEAN
  BY DEF ServerNetDisconnect, ServerShutdown, Decide, net, threads, service, LifeInv, Shapes,
         Sorts
<1>2. place \in {"decided", "idle", "gate"} /\ (place = "decided" => status = 1)
  BY DEF AfterDisconnect
<1> HIDE DEF place
<1>3. /\ Positioned' /\ pos'["ui"] = place /\ pos'["leaver"] = pos["leaver"]
  BY <1>1, <1>2, Moves DEF Users, Places, LeaverPlaces
<1>4. /\ mishaps \subseteq mishaps' /\ mishaps' \subseteq mishaps \cup {"switched"}
      /\ Leaving => "switched" \in mishaps'
  BY <1>1, MishapAdds
<1>5. /\ Tallied' /\ Labelled' /\ ClientsKnown' /\ (NoneAlive' <=> NoneAlive)
      /\ Ordered' /\ OnIsNamed'
  BY <1>1, <1>2, <1>3, <1>4, NetStays
<1>6. UsersSay'
  BY <1>1, <1>2, <1>3, <1>5 DEF LifeInv, UsersSay, Users
<1>7. FewKnocks'
  <2>1. CASE place = "decided"
    <3>1. status = 1 /\ knocks = 0
      BY <1>2, <2>1 DEF LifeInv, FewKnocks
    <3>2. One(Waking("ui"))' \in 0..1 /\ One(Waking("leaver"))' \in 0..1
      BY DEF One
    <3>3. UNCHANGED <<status, pc, knocks>>
      BY <1>1
    <3> QED
      BY <3>1, <3>2, <3>3 DEF FewKnocks
  <2>2. CASE place # "decided"
    BY <1>1, <1>2, <1>3, <2>2, KnocksStay DEF Waking
  <2> QED
    BY <2>1, <2>2
<1>8. OnePoller' /\ LeaverHasForgotten' /\ ShutdownIsLast'
  BY <1>1, <1>2, <1>3, <1>4 DEF LifeInv, OnePoller, LeaverHasForgotten, ShutdownIsLast
<1>9. LeaverSure'
  BY <1>1, <1>3, <1>4, LeaverUndisturbed
<1>10. Numbers'
  BY <1>1, NumbersStay
<1>11. Sorts'
  BY <1>1 DEF LifeInv, Shapes, Sorts
<1> QED
  BY <1>3, <1>5, <1>6, <1>7, <1>8, <1>9, <1>10, <1>11 DEF LifeInv, Shapes

\* ServerNetConnect fails, when the net is off.
LEMMA ConnectFailsStep == LifeInv /\ "uncounted" \notin mishaps /\ ConnectFails => LifeInv'
<1> SUFFICES ASSUME LifeInv, "uncounted" \notin mishaps, ConnectFails PROVE LifeInv'
  OBVIOUS
<1>1. /\ pos["ui"] = "idle" /\ named' = FALSE /\ Mishap("switched", Leaving)
      /\ UNCHANGED <<counter, gate, known, switches, last, pc, clients, knocks, stranded, pos,
                     quits, copied, worker, rentLock, writer, active, pollers>>
  BY DEF ConnectFails, threads, users, service
<1>2. status = 0 /\ UNCHANGED status
  BY DEF ConnectFails
<1>3. /\ mishaps \subseteq mishaps' /\ mishaps' \subseteq mishaps \cup {"switched"}
      /\ Leaving => "switched" \in mishaps'
  BY <1>1, MishapAdds
<1>4. Tallied' /\ Labelled' /\ ClientsKnown' /\ (NoneAlive' <=> NoneAlive)
  BY <1>1, PcStays
<1>5. Ordered'
  <2>1. Balanced => Balanced'
    BY <1>1, <1>4 DEF Balanced, Connecting, One
  <2>2. StatusSays => StatusSays'
    BY <1>1, <1>2, <1>3, <1>4 DEF StatusSays
  <2> QED
    BY <1>3, <2>1, <2>2 DEF LifeInv, Ordered
<1>6. UsersSay'
  BY <1>1, <1>2, <1>4 DEF LifeInv, UsersSay
<1>7. FewKnocks'
  BY <1>1, <1>2, KnocksStay DEF Waking
<1>8. status' # 1
  BY <1>2
<1>9. OnePoller' /\ OnIsNamed' /\ LeaverHasForgotten' /\ ShutdownIsLast'
  BY <1>1, <1>3, <1>8 DEF LifeInv, OnePoller, OnIsNamed, LeaverHasForgotten, ShutdownIsLast
<1>10. LeaverSure'
  BY <1>1, <1>3, LeaverUndisturbed
<1>11. Numbers'
  BY <1>1, <1>2, NumbersStay
<1>12. Sorts' /\ Positioned'
  BY <1>1 DEF LifeInv, Shapes, Sorts, Positioned
<1> QED
  BY <1>4, <1>5, <1>6, <1>7, <1>9, <1>10, <1>11, <1>12 DEF LifeInv, Shapes

\* ServerNetForget and ServerNetCreate change what is known of the net.
LEMMA ForgetStep == LifeInv /\ "uncounted" \notin mishaps /\ ServerNetForget => LifeInv'
<1> SUFFICES ASSUME LifeInv, "uncounted" \notin mishaps, ServerNetForget PROVE LifeInv'
  OBVIOUS
<1>1. /\ pos["ui"] = "idle" /\ known' = "unknown" /\ Mishap("switched", Leaving)
      /\ UNCHANGED <<status, counter, gate, named, switches, last, pc, clients, knocks, stranded,
                     pos, quits, copied, worker, rentLock, writer, active, pollers>>
  BY DEF ServerNetForget, Forgotten, threads, users, service
<1>2. /\ mishaps \subseteq mishaps' /\ mishaps' \subseteq mishaps \cup {"switched"}
      /\ Leaving => "switched" \in mishaps'
  BY <1>1, MishapAdds
<1>3. /\ Tallied' /\ Labelled' /\ ClientsKnown' /\ (NoneAlive' <=> NoneAlive)
      /\ Ordered' /\ OnIsNamed'
  BY <1>1, <1>2, NetStays
<1>4. UsersSay'
  BY <1>1, <1>3 DEF LifeInv, UsersSay
<1>5. FewKnocks'
  BY <1>1, KnocksStay DEF Waking
<1>6. OnePoller' /\ LeaverHasForgotten' /\ ShutdownIsLast'
  BY <1>1, <1>2 DEF LifeInv, OnePoller, LeaverHasForgotten, ShutdownIsLast
<1>7. LeaverSure'
  BY <1>1, <1>2, LeaverUndisturbed
<1>8. Numbers'
  BY <1>1, NumbersStay
<1>9. Sorts' /\ Positioned'
  BY <1>1 DEF LifeInv, Shapes, Sorts, Positioned
<1> QED
  BY <1>3, <1>4, <1>5, <1>6, <1>7, <1>8, <1>9 DEF LifeInv, Shapes

\* ServerNetCreate: the node is a member of the net again.
LEMMA CreateStep == LifeInv /\ "uncounted" \notin mishaps /\ ServerNetCreate => LifeInv'
<1> SUFFICES ASSUME LifeInv, "uncounted" \notin mishaps, ServerNetCreate PROVE LifeInv'
  OBVIOUS
<1>1. /\ pos["ui"] = "idle" /\ ~Leaving /\ known' = "member" /\ Move("leaver", "none")
      /\ UNCHANGED <<status, counter, gate, named, switches, last, pc, clients, knocks, stranded,
                     quits, copied, worker, rentLock, writer, active, pollers, mishaps>>
  BY DEF ServerNetCreate, threads, service
<1>2. Positioned' /\ pos'["leaver"] = "none" /\ pos'["ui"] = "idle"
  BY <1>1, Moves DEF Users, Places, LeaverPlaces
<1>3. /\ Tallied' /\ Labelled' /\ ClientsKnown' /\ (NoneAlive' <=> NoneAlive)
      /\ Ordered' /\ OnIsNamed'
  BY <1>1, <1>2, NetStays
<1>4. UsersSay'
  BY <1>1, <1>2, <1>3 DEF LifeInv, UsersSay, Users
<1>5. FewKnocks'
  BY <1>1, <1>2, KnocksStay DEF Waking
<1>6. OnePoller' /\ LeaverHasForgotten' /\ ShutdownIsLast' /\ LeaverSure'
  BY <1>1, <1>2
  DEF LifeInv, OnePoller, LeaverHasForgotten, ShutdownIsLast, LeaverSure, Leaving
<1>7. Numbers'
  BY <1>1, NumbersStay
<1>8. Sorts'
  BY <1>1 DEF LifeInv, Shapes, Sorts
<1> QED
  BY <1>2, <1>3, <1>4, <1>5, <1>6, <1>7, <1>8 DEF LifeInv, Shapes

\* ServerServiceShutdown: the latest status thread has ended, and only it was left.
LEMMA ServiceShutdownStep ==
  LifeInv /\ "uncounted" \notin mishaps /\ ServerServiceShutdown => LifeInv'
<1> SUFFICES ASSUME LifeInv, "uncounted" \notin mishaps, ServerServiceShutdown PROVE LifeInv'
  OBVIOUS
<1>1. /\ pos["ui"] = "delete" /\ Move("ui", "gone") /\ (pollers # <<>> => ~Last(pollers))
      /\ UNCHANGED <<status, counter, gate, named, known, switches, last, pc, clients, knocks,
                     stranded, quits, copied, worker, rentLock, writer, active, pollers, mishaps>>
  BY DEF ServerServiceShutdown, net, threads, service
<1>2. Positioned' /\ pos'["ui"] = "gone" /\ pos'["leaver"] = pos["leaver"]
  BY <1>1, Moves DEF Users, Places
<1>3. /\ Tallied' /\ Labelled' /\ ClientsKnown' /\ (NoneAlive' <=> NoneAlive)
      /\ Ordered' /\ OnIsNamed'
  BY <1>1, <1>2, NetStays
<1>4. UsersSay'
  BY <1>1, <1>2, <1>3 DEF LifeInv, UsersSay, Users
<1>5. FewKnocks'
  BY <1>1, <1>2, KnocksStay DEF Waking
<1>6. LeaverSure'
  BY <1>1, <1>2, LeaverUndisturbed
<1>7. OnePoller' /\ LeaverHasForgotten'
  BY <1>1, <1>2 DEF LifeInv, OnePoller, LeaverHasForgotten
<1>8. ShutdownIsLast'
  <2>1. "stale" \notin mishaps => status = 0
    BY <1>1 DEF LifeInv, UsersSay, Ordered, StatusSays
  <2>2. pollers \in Seq(BOOLEAN)
    BY DEF LifeInv, Shapes, Sorts
  <2>3. ASSUME "doubled" \notin mishaps, NEW i \in DOMAIN pollers PROVE ~pollers[i]
    <3>1. i \in 1..Len(pollers) /\ pollers # <<>>
      BY <2>2
    <3>2. i # Len(pollers) => ~pollers[i]
      BY <2>3, <3>1 DEF LifeInv, OnePoller
    <3>3. ~pollers[Len(pollers)]
      BY <1>1, <3>1 DEF Last
    <3> QED
      BY <3>2, <3>3
  <2> QED
    BY <1>1, <2>1, <2>3 DEF ShutdownIsLast
<1>9. Numbers'
  BY <1>1, NumbersStay
<1>10. Sorts'
  BY <1>1 DEF LifeInv, Shapes, Sorts
<1> QED
  BY <1>2, <1>3, <1>4, <1>5, <1>6, <1>7, <1>8, <1>9, <1>10 DEF LifeInv, Shapes

\* A step of LeaveCurrentNetThread that leaves the net and the threads as they are
LEMMA LeaverStep ==
  ASSUME LifeInv, "uncounted" \notin mishaps, NEW place \in LeaverPlaces, Move("leaver", place),
         UNCHANGED <<status, counter, gate, named, switches, last, pc, clients, knocks, stranded,
                     pollers, mishaps>>,
         Sorts', Leaving, known' = "member" => known = "member",
         place \in {"killing", "waking"} => status # 1,
         place \in {"decided", "killing", "waking"} => Waking("leaver"),
         LeaverSure', LeaverHasForgotten'
  PROVE  LifeInv'
<1>1. /\ Positioned' /\ pos'["leaver"] = place /\ pos'["ui"] = pos["ui"]
  BY Moves DEF Users, Places
<1>2. /\ Tallied' /\ Labelled' /\ ClientsKnown' /\ (NoneAlive' <=> NoneAlive)
      /\ Ordered' /\ OnIsNamed'
  BY <1>1, NetStays
<1>3. UsersSay'
  BY <1>1, <1>2 DEF LifeInv, UsersSay, Users, Leaving
<1>4. FewKnocks'
  BY <1>1, KnocksStay DEF Waking
<1>5. OnePoller' /\ ShutdownIsLast'
  BY <1>1 DEF LifeInv, OnePoller, ShutdownIsLast
<1>6. Numbers'
  BY NumbersStay
<1> QED
  BY <1>1, <1>2, <1>3, <1>4, <1>5, <1>6 DEF LifeInv, Shapes

\* ServerNetDisconnect, from here on by either of the two: net_status is set.
LEMMA SetStatusStep ==
  ASSUME LifeInv, "uncounted" \notin mishaps, NEW u \in Users, SetStatus(u)
  PROVE  LifeInv'
<1>1. /\ pos[u] = "decided" /\ Move(u, "killing") /\ active' = FALSE
      /\ Mishap("stale", status # 1)
      /\ UNCHANGED <<counter, gate, named, known, switches, last, pc, clients, knocks, stranded,
                     quits, copied, worker, rentLock, writer, pollers>>
  BY DEF SetStatus, threads
<1>2. status' = 2
  BY DEF SetStatus
<1>3. status' # 0 /\ status' # 1 /\ status' \in 0..2
  BY <1>2
<1>4. /\ Positioned' /\ pos'[u] = "killing"
      /\ u = "ui" => pos'["leaver"] = pos["leaver"]
      /\ u = "leaver" => pos'["ui"] = pos["ui"]
      /\ u \in {"ui", "leaver"}
  BY <1>1, Moves DEF Users, Places, LeaverPlaces
<1>5. /\ mishaps \subseteq mishaps' /\ mishaps' \subseteq mishaps \cup {"stale"}
      /\ status # 1 => "stale" \in mishaps'
  BY <1>1, MishapAdds
<1>6. Tallied' /\ Labelled' /\ ClientsKnown' /\ (NoneAlive' <=> NoneAlive)
  BY <1>1, PcStays
<1>7. pos["ui"] \notin {"connecting", "allowing"} /\ pos'["ui"] \notin {"connecting", "allowing"}
  BY <1>1, <1>4 DEF LifeInv, UsersSay
<1>8. Balanced /\ StatusSays /\ (status = 1 => ~NoneAlive)
  BY OnIsAlive DEF LifeInv, Ordered
<1>9. Ordered'
  <2>1. Balanced'
    BY <1>1, <1>6, <1>7, <1>8 DEF Balanced, Connecting, One
  <2>2. StatusSays'
    BY <1>1, <1>3, <1>5, <1>6, <1>8 DEF StatusSays
  <2> QED
    BY <2>1, <2>2 DEF Ordered
<1>10. UsersSay'
  BY <1>1, <1>3, <1>4, <1>6, <1>7 DEF LifeInv, UsersSay
<1>11. FewKnocks'
  <2>1. Waking("ui")' = Waking("ui") /\ Waking("leaver")' = Waking("leaver")
    BY <1>1, <1>4 DEF Waking
  <2>2. One(Waking("ui"))' = One(Waking("ui")) /\ One(Waking("leaver"))' = One(Waking("leaver"))
    BY <2>1 DEF One
  <2> QED
    BY <1>1, <1>3, <2>2 DEF LifeInv, FewKnocks
<1>12. OnePoller' /\ OnIsNamed' /\ LeaverHasForgotten'
  BY <1>1, <1>3, <1>4, <1>5 DEF LifeInv, OnePoller, OnIsNamed, LeaverHasForgotten
<1>13. ShutdownIsLast'
  <2>1. pos["ui"] = "gone" => "stale" \in mishaps'
    <3>1. status = 0 => status # 1
      OBVIOUS
    <3> QED
      BY <1>5, <3>1 DEF LifeInv, ShutdownIsLast
  <2> QED
    BY <1>1, <1>4, <1>5, <2>1 DEF LifeInv, ShutdownIsLast
<1>14. LeaverSure'
  <2>1. CASE u = "ui"
    BY <1>1, <1>4, <1>5, <2>1, LeaverUndisturbed
  <2>2. CASE u = "leaver"
    <3> SUFFICES ASSUME mishaps' \cap {"switched", "overtaken"} = {}
                 PROVE  LeaverSure'
      BY DEF LeaverSure
    <3>1. pos["ui"] = "idle" /\ status = 1 /\ copied
      BY <1>1, <1>5, <2>2 DEF LifeInv, LeaverSure, Leaving
    <3>2. ~NoneAlive' /\ last' = "none"
      BY <1>1, <1>6, <1>8, <3>1 DEF Balanced, Connecting
    <3> QED
      BY <1>1, <1>2, <1>4, <2>2, <3>1, <3>2 DEF LeaverSure
  <2> QED
    BY <1>4, <2>1, <2>2
<1>15. Numbers'
  BY <1>1, <1>3 DEF LifeInv, Shapes, Numbers
<1>16. Sorts'
  BY <1>1 DEF LifeInv, Shapes, Sorts
<1> QED
  BY <1>4, <1>6, <1>9, <1>10, <1>11, <1>12, <1>13, <1>14, <1>15, <1>16 DEF LifeInv, Shapes

\* KillHost
LEMMA KillHostStep ==
  ASSUME LifeInv, "uncounted" \notin mishaps, NEW u \in Users, KillHost(u)
  PROVE  LifeInv'
<1>1. /\ pos[u] = "killing" /\ Move(u, "waking")
      /\ worker' \in {"none", worker}
      /\ UNCHANGED <<status, counter, gate, named, known, switches, last, pc, clients, knocks,
                     stranded, quits, copied, rentLock, writer, active, pollers, mishaps>>
  BY DEF KillHost, net, threads
<1>2. status # 1 /\ Waking(u)
  BY <1>1 DEF LifeInv, UsersSay, Waking
<1>3. Sorts'
  BY <1>1 DEF LifeInv, Shapes, Sorts
<1>4. CASE u = "ui"
  BY <1>1, <1>2, <1>3, <1>4, UiStep DEF Places, LeaverPlaces
<1>5. CASE u = "leaver"
  <2>1. pos'["leaver"] = "waking" /\ pos'["ui"] = pos["ui"]
    BY <1>1, <1>5, Moves DEF LeaverPlaces, Places
  <2>2. NoneAlive' <=> NoneAlive
    BY <1>1, PcStays
  <2>3. LeaverSure' /\ LeaverHasForgotten'
    BY <1>1, <1>5, <2>1, <2>2 DEF LifeInv, LeaverSure, LeaverHasForgotten, Leaving
  <2>4. Leaving /\ "waking" \in LeaverPlaces
    BY <1>1, <1>5 DEF Leaving, LeaverPlaces
  <2> QED
    BY <1>1, <1>2, <1>3, <1>5, <2>3, <2>4, LeaverStep
<1> QED
  BY <1>4, <1>5 DEF Users

\* The loopback connection: one more knock, for one who is not waking the listener any more.
LEMMA WakeStep ==
  ASSUME LifeInv, "uncounted" \notin mishaps, NEW u \in Users, Wake(u)
  PROVE  LifeInv'
<1>1. /\ pos[u] = "waking" /\ Move(u, AfterDisconnect(u))
      /\ UNCHANGED <<status, counter, gate, named, known, switches, last, pc, clients, stranded,
                     quits, copied, worker, rentLock, writer, active, pollers>>
      /\ mishaps \subseteq mishaps' /\ mishaps' \subseteq mishaps \cup {"deaf"}
  BY DEF Wake, net, service
<1>2. /\ AfterDisconnect(u) \in {"idle", "gate"}
      /\ u = "leaver" => AfterDisconnect(u) = "gate"
  BY DEF AfterDisconnect
<1>3. /\ Positioned' /\ pos'[u] = AfterDisconnect(u)
      /\ u = "ui" => pos'["leaver"] = pos["leaver"]
      /\ u = "leaver" => pos'["ui"] = pos["ui"]
      /\ u \in {"ui", "leaver"}
  BY <1>1, <1>2, Moves DEF Users, Places, LeaverPlaces
<1>4. pos'["ui"] = "connecting" <=> pos["ui"] = "connecting"
  BY <1>1, <1>2, <1>3
<1>5. /\ Tallied' /\ Labelled' /\ ClientsKnown' /\ (NoneAlive' <=> NoneAlive)
      /\ Ordered' /\ OnIsNamed'
  BY <1>1, <1>4, NetStays
<1>6. UsersSay'
  BY <1>1, <1>2, <1>3, <1>5 DEF LifeInv, UsersSay, Users
<1>7. knocks' \in {knocks, Woken} /\ status # 1
  BY <1>1 DEF Wake, LifeInv, UsersSay
<1>8. /\ knocks \in Nat /\ knocks' \in Nat /\ knocks' <= knocks + 1
      /\ pc["listener"] \in {"ending", "ended"} => knocks' = knocks
  BY <1>7 DEF LifeInv, Shapes, Numbers, Woken
<1>9. FewKnocks'
  <2>1. Waking(u) /\ ~Waking(u)' /\ (Waking("ui")' => Waking("ui"))
        /\ (Waking("leaver")' => Waking("leaver"))
    BY <1>1, <1>2, <1>3 DEF Waking
  <2>2. One(Waking("ui"))' + One(Waking("leaver"))' <= One(Waking("ui")) + One(Waking("leaver")) - 1
    BY <1>3, <2>1 DEF One
  <2>3. /\ One(Waking("ui"))' \in 0..1 /\ One(Waking("leaver"))' \in 0..1
        /\ One(Waking("ui")) \in 0..1 /\ One(Waking("leaver")) \in 0..1
    BY DEF One
  <2>4. knocks + One(Waking("ui")) + One(Waking("leaver")) <= 2
    BY DEF LifeInv, FewKnocks
  <2>5. knocks' + One(Waking("ui"))' + One(Waking("leaver"))' <= 2
    BY <1>8, <2>2, <2>3, <2>4
  <2>6. status' # 1 /\ (pc'["listener"] \in {"ending", "ended"} => knocks' = 0)
    BY <1>1, <1>7, <1>8 DEF LifeInv, FewKnocks
  <2> QED
    BY <2>5, <2>6 DEF FewKnocks
<1>10. OnePoller' /\ LeaverHasForgotten' /\ ShutdownIsLast'
  BY <1>1, <1>2, <1>3 DEF LifeInv, OnePoller, LeaverHasForgotten, ShutdownIsLast
<1>11. LeaverSure'
  <2>1. CASE u = "ui"
    BY <1>1, <1>3, <2>1, LeaverUndisturbed
  <2>2. CASE u = "leaver"
    BY <1>1, <1>2, <1>3, <1>5, <2>2 DEF LifeInv, LeaverSure, Leaving
  <2> QED
    BY <1>3, <2>1, <2>2
<1>12. Numbers'
  BY <1>1, <1>8 DEF LifeInv, Shapes, Numbers
<1>13. Sorts'
  BY <1>1 DEF LifeInv, Shapes, Sorts
<1> QED
  BY <1>3, <1>5, <1>6, <1>9, <1>10, <1>11, <1>12, <1>13 DEF LifeInv, Shapes

\* net_shutdown_sync is open for one who is not connecting: no thread is left, and the last
\* one has cleaned up.
LEMMA PassGateStep ==
  ASSUME LifeInv, "uncounted" \notin mishaps, NEW u \in Users, PassGate(u)
  PROVE  LifeInv'
<1>1. /\ pos[u] = "gate" /\ Move(u, IF u = "ui" THEN "delete" ELSE "forget")
      /\ UNCHANGED <<status, counter, gate, named, known, switches, last, pc, clients, knocks,
                     stranded, quits, copied, worker, rentLock, writer, active, pollers, mishaps>>
  BY DEF PassGate, net, threads, service
<1>2. gate > 0
  BY DEF PassGate
<1>3. ~Connecting
  BY <1>1 DEF LifeInv, UsersSay, Connecting, Users
<1>4. NoneAlive /\ last = "none"
  <2>1. gate = 1 + 0 - One(~NoneAlive) - One(last # "none")
    BY <1>3 DEF LifeInv, Ordered, Balanced, One
  <2> QED
    BY <1>2, <2>1 DEF One
<1>5. Sorts'
  BY <1>1 DEF LifeInv, Shapes, Sorts
<1>6. CASE u = "ui"
  <2>1. Move("ui", "delete") /\ "delete" \in Places
    BY <1>1, <1>6 DEF Places
  <2> QED
    BY <1>1, <1>4, <1>5, <1>6, <2>1, UiStep
<1>7. CASE u = "leaver"
  <2>1. Move("leaver", "forget") /\ "forget" \in LeaverPlaces /\ Leaving
    BY <1>1, <1>7 DEF LeaverPlaces, Leaving
  <2>2. pos'["leaver"] = "forget" /\ pos'["ui"] = pos["ui"]
    BY <2>1, Moves DEF LeaverPlaces, Places, Users
  <2>3. LeaverSure' /\ LeaverHasForgotten'
    BY <1>1, <1>4, <1>7, <2>2 DEF LifeInv, LeaverSure, LeaverHasForgotten, Leaving
  <2> QED
    BY <1>1, <1>5, <2>1, <2>3, LeaverStep
<1> QED
  BY <1>6, <1>7 DEF Users

\* LeaveCurrentNetThread copies net_uuid ...
LEMMA LeaverCopiesStep == LifeInv /\ "uncounted" \notin mishaps /\ LeaverCopies => LifeInv'
<1> SUFFICES ASSUME LifeInv, "uncounted" \notin mishaps, LeaverCopies PROVE LifeInv'
  OBVIOUS
<1>1. /\ pos["leaver"] = "copy" /\ copied' = named /\ Move("leaver", "disconnect")
      /\ UNCHANGED <<status, counter, gate, named, known, switches, last, pc, clients, knocks,
                     stranded, quits, worker, rentLock, writer, active, pollers, mishaps>>
  BY DEF LeaverCopies, net, threads, service
<1>2. pos'["leaver"] = "disconnect" /\ pos'["ui"] = pos["ui"] /\ "disconnect" \in LeaverPlaces
  BY <1>1, Moves DEF LeaverPlaces, Places, Users
<1>3. Sorts'
  BY <1>1 DEF LifeInv, Shapes, Sorts
<1>4. LeaverSure' /\ LeaverHasForgotten' /\ Leaving
  BY <1>1, <1>2 DEF LifeInv, LeaverSure, LeaverHasForgotten, Leaving
<1> QED
  BY <1>1, <1>2, <1>3, <1>4, LeaverStep

\* ... disconnects ...
LEMMA LeaverDisconnectsStep ==
  LifeInv /\ "uncounted" \notin mishaps /\ LeaverDisconnects => LifeInv'
<1> SUFFICES ASSUME LifeInv, "uncounted" \notin mishaps, LeaverDisconnects PROVE LifeInv'
  OBVIOUS
<1> DEFINE place == IF status = 1 THEN "decided" ELSE "gate"
<1>1. /\ pos["leaver"] = "disconnect" /\ Move("leaver", place)
      /\ UNCHANGED <<status, counter, gate, named, known, switches, last, pc, clients, knocks,
                     stranded, quits, copied, worker, rentLock, writer, active, pollers, mishaps>>
  BY DEF LeaverDisconnects, Decide, AfterDisconnect, net, threads, service
<1>2. place \in {"decided", "gate"} /\ (place = "decided" <=> status = 1)
  OBVIOUS
<1> HIDE DEF place
<1>3. Positioned' /\ pos'["leaver"] = place /\ pos'["ui"] = pos["ui"]
  BY <1>1, <1>2, Moves DEF Users, Places, LeaverPlaces
<1>4. /\ Tallied' /\ Labelled' /\ ClientsKnown' /\ (NoneAlive' <=> NoneAlive)
      /\ Ordered' /\ OnIsNamed'
  BY <1>1, <1>3, NetStays
<1>5. UsersSay'
  BY <1>1, <1>2, <1>3, <1>4 DEF LifeInv, UsersSay, Users
<1>6. FewKnocks'
  <2>1. CASE place = "decided"
    <3>1. status = 1 /\ knocks = 0
      BY <1>2, <2>1 DEF LifeInv, FewKnocks
    <3>2. One(Waking("ui"))' \in 0..1 /\ One(Waking("leaver"))' \in 0..1
      BY DEF One
    <3>3. UNCHANGED <<status, pc, knocks>>
      BY <1>1
    <3> QED
      BY <3>1, <3>2, <3>3 DEF FewKnocks
  <2>2. CASE place # "decided"
    BY <1>1, <1>2, <1>3, <2>2, KnocksStay DEF Waking
  <2> QED
    BY <2>1, <2>2
<1>7. OnePoller' /\ LeaverHasForgotten' /\ ShutdownIsLast'
  BY <1>1, <1>2, <1>3 DEF LifeInv, OnePoller, LeaverHasForgotten, ShutdownIsLast
<1>8. LeaverSure'
  BY <1>1, <1>2, <1>3 DEF LifeInv, LeaverSure, Leaving
<1>9. Numbers'
  BY <1>1, NumbersStay
<1>10. Sorts'
  BY <1>1 DEF LifeInv, Shapes, Sorts
<1> QED
  BY <1>3, <1>4, <1>5, <1>6, <1>7, <1>8, <1>9, <1>10 DEF LifeInv, Shapes

\* ... and forgets the net, which is off and not the current one any more.
LEMMA LeaverForgetsStep == LifeInv /\ "uncounted" \notin mishaps /\ LeaverForgets => LifeInv'
<1> SUFFICES ASSUME LifeInv, "uncounted" \notin mishaps, LeaverForgets PROVE LifeInv'
  OBVIOUS
<1>1. /\ pos["leaver"] = "forget" /\ known' = Forgotten(copied) /\ copied' = FALSE
      /\ Move("leaver", "ended")
      /\ UNCHANGED <<status, counter, gate, named, switches, last, pc, clients, knocks,
                     stranded, quits, worker, rentLock, writer, active, pollers, mishaps>>
  BY DEF LeaverForgets, threads, service
<1>2. pos'["leaver"] = "ended" /\ pos'["ui"] = pos["ui"] /\ "ended" \in LeaverPlaces
  BY <1>1, Moves DEF LeaverPlaces, Places, Users
<1>3. known' \in {known, "unknown"}
  BY <1>1 DEF Forgotten
<1>4. Sorts'
  BY <1>1, <1>3 DEF LifeInv, Shapes, Sorts
<1>5. LeaverSure' /\ Leaving
  BY <1>1, <1>2 DEF LeaverSure, Leaving
<1>6. LeaverHasForgotten'
  <2> SUFFICES ASSUME mishaps \cap {"switched", "overtaken"} = {} PROVE known' = "unknown"
    BY <1>1 DEF LeaverHasForgotten
  <2>1. status = 0 /\ last = "none" /\ copied
    BY <1>1 DEF LifeInv, LeaverSure, Leaving
  <2>2. ~named /\ status # 2
    BY <2>1 DEF LifeInv, Ordered, StatusSays
  <2> QED
    BY <1>1, <2>1, <2>2 DEF Forgotten
<1> QED
  BY <1>1, <1>2, <1>3, <1>4, <1>5, <1>6, LeaverStep

\* LeaveCurrentNetThread is started while the net is on, or going off.
LEMMA ExcludedStep == LifeInv /\ "uncounted" \notin mishaps /\ Excluded => LifeInv'
<1> SUFFICES ASSUME LifeInv, "uncounted" \notin mishaps, Excluded PROVE LifeInv'
  OBVIOUS
<1>1. /\ NetFree /\ pos["leaver"] = "none" /\ known' = "excluded" /\ Move("leaver", "copy")
      /\ Mishap("switched", pos["ui"] # "idle" \/ status # 1)
      /\ UNCHANGED <<status, counter, gate, named, switches, last, pc, clients, knocks,
                     stranded, quits, copied, worker, rentLock, writer, active, pollers>>
  BY DEF Excluded, threads, service
<1>2. Positioned' /\ pos'["leaver"] = "copy" /\ pos'["ui"] = pos["ui"]
  BY <1>1, Moves DEF LeaverPlaces, Places, Users
<1>3. /\ mishaps \subseteq mishaps' /\ mishaps' \subseteq mishaps \cup {"switched"}
      /\ pos["ui"] # "idle" \/ status # 1 => "switched" \in mishaps'
  BY <1>1, MishapAdds
<1>4. status # 0
  <2>1. CASE \E s \in Sessions : pc[s] = "reading"
    <3>1. ~NoneAlive
      BY <2>1 DEF NoneAlive, Threads
    <3> QED
      BY <3>1 DEF LifeInv, Ordered, StatusSays
  <2>2. CASE pos["ui"] = "idle" /\ status = 1
    BY <2>2
  <2> QED
    BY <2>1, <2>2 DEF Excluded
<1>5. /\ Tallied' /\ Labelled' /\ ClientsKnown' /\ (NoneAlive' <=> NoneAlive)
      /\ Ordered' /\ OnIsNamed'
  BY <1>1, <1>2, <1>3, NetStays
<1>6. UsersSay'
  BY <1>1, <1>2, <1>5 DEF LifeInv, UsersSay, Users, NetFree
<1>7. FewKnocks'
  BY <1>1, <1>2, KnocksStay DEF Waking
<1>8. OnePoller' /\ LeaverHasForgotten' /\ ShutdownIsLast'
  BY <1>1, <1>2, <1>3 DEF LifeInv, OnePoller, LeaverHasForgotten, ShutdownIsLast
<1>9. LeaverSure'
  BY <1>1, <1>2, <1>3, <1>4 DEF LifeInv, OnIsNamed, LeaverSure
<1>10. Numbers'
  BY <1>1, NumbersStay
<1>11. Sorts'
  BY <1>1 DEF LifeInv, Shapes, Sorts
<1> QED
  BY <1>2, <1>5, <1>6, <1>7, <1>8, <1>9, <1>10, <1>11 DEF LifeInv, Shapes

\* A status thread ends.
LEMMA PollerEndsStep ==
  ASSUME LifeInv, "uncounted" \notin mishaps, NEW i \in DOMAIN pollers, PollerEnds(i)
  PROVE  LifeInv'
<1>1. /\ pollers' = [pollers EXCEPT ![i] = FALSE]
      /\ UNCHANGED <<status, counter, gate, named, known, switches, last, pc, clients, knocks,
                     stranded, pos, quits, copied, worker, rentLock, writer, active, mishaps>>
  BY DEF PollerEnds, net, threads, users
<1>2. pollers \in Seq(BOOLEAN)
  BY DEF LifeInv, Shapes, Sorts
<1>3. /\ pollers' \in Seq(BOOLEAN) /\ Len(pollers') = Len(pollers)
      /\ DOMAIN pollers' = DOMAIN pollers
      /\ \A j \in DOMAIN pollers : pollers'[j] => pollers[j]
  BY <1>1, <1>2
<1>4. /\ Tallied' /\ Labelled' /\ ClientsKnown' /\ (NoneAlive' <=> NoneAlive)
      /\ Ordered' /\ OnIsNamed'
  BY <1>1, NetStays
<1>5. UsersSay' /\ LeaverHasForgotten' /\ LeaverSure'
  BY <1>1, <1>4 DEF LifeInv, UsersSay, LeaverHasForgotten, LeaverSure, Leaving
<1>6. FewKnocks'
  BY <1>1, KnocksStay DEF Waking
<1>7. OnePoller'
  <2>1. DOMAIN pollers = 1..Len(pollers)
    BY <1>2
  <2> QED
    BY <1>1, <1>3, <2>1 DEF LifeInv, OnePoller
<1>8. ShutdownIsLast'
  BY <1>1, <1>3 DEF LifeInv, ShutdownIsLast
<1>9. Numbers'
  BY <1>1, NumbersStay
<1>10. Sorts' /\ Positioned'
  BY <1>1, <1>3 DEF LifeInv, Shapes, Sorts, Positioned
<1> QED
  BY <1>4, <1>5, <1>6, <1>7, <1>8, <1>9, <1>10 DEF LifeInv, Shapes

\* ServerNetConnect makes the listener and the reconnection thread, when no thread is left;
\* the last one may still have to clean up.
LEMMA ConnectStep == LifeInv /\ "uncounted" \notin mishaps /\ ServerNetConnect => LifeInv'
<1> SUFFICES ASSUME LifeInv, "uncounted" \notin mishaps, ServerNetConnect PROVE LifeInv'
  OBVIOUS
<1>1. /\ pos["ui"] = "idle" /\ known = "member" /\ named' = TRUE /\ Move("ui", "connecting")
      /\ pc' = [pc EXCEPT !["listener"] = "created", !["recon"] = "created"]
      /\ UNCHANGED <<counter, gate, known, last, clients, knocks, stranded, quits, copied, worker,
                     rentLock, writer, active, pollers>>
  BY DEF ServerNetConnect, service
<1>2. status = 0 /\ status' = 1 /\ switches < MaxSwitches /\ switches' = switches + 1
  BY DEF ServerNetConnect
<1>3. status' # 0 /\ status' \in 0..2 /\ switches' \in 0..MaxSwitches
  BY <1>2, LifecycleAssumption DEF LifeInv, Shapes, Numbers
<1>4. /\ mishaps \subseteq mishaps' /\ "uncounted" \notin mishaps'
      /\ last # "none" => "overtaken" \in mishaps'
      /\ "stale" \in mishaps' => "stale" \in mishaps
      /\ "doubled" \in mishaps' => "doubled" \in mishaps
  BY DEF ServerNetConnect
<1>5. Balanced /\ StatusSays /\ NoneAlive
  BY <1>2 DEF LifeInv, Ordered, StatusSays
<1>6. Positioned' /\ pos'["ui"] = "connecting" /\ pos'["leaver"] = pos["leaver"]
  BY <1>1, Moves DEF Users, Places
<1>7. pos["leaver"] = "none" /\ ~Leaving
  BY <1>1 DEF LifeInv, UsersSay, Leaving
<1>8. "listener" \in Threads /\ "recon" \in Threads /\ "listener" # "recon"
  BY DEF Threads
<1>9. /\ pc'["listener"] = "created" /\ pc'["recon"] = "created"
      /\ \A y \in Threads : y \notin {"listener", "recon"} => pc'[y] = pc[y]
      /\ Labelled'
  BY <1>1, <1>8 DEF LifeInv, Shapes, Labelled, Labels, ListenerLabels, ReconLabels
<1>10. ~NoneAlive'
  BY <1>8, <1>9 DEF NoneAlive
<1>11. Tallied'
  <2>1. \A x \in Threads : pc'[x] \in {"unused", "created", "ended"}
                             <=> pc[x] \in {"unused", "created", "ended"}
    BY <1>5, <1>8, <1>9 DEF NoneAlive
  <2> QED
    BY <1>1, <2>1, SameCount DEF LifeInv
<1>12. ClientsKnown'
  <2>1. \A y \in clients : pc'[y] = pc[y]
    BY <1>9, LifecycleAssumption DEF LifeInv, Shapes, Sorts, Threads
  <2> QED
    BY <1>1, <2>1 DEF LifeInv, ClientsKnown
<1>13. Ordered'
  <2>1. ~Connecting /\ Connecting'
    BY <1>1, <1>6 DEF Connecting
  <2>2. gate = 1 + 0 - 0 - One(last # "none") /\ One(last # "none") \in 0..1
    BY <1>5, <2>1 DEF Balanced, One
  <2>3. gate' = gate /\ last' = last
    BY <1>1
  <2>4. gate' = 1 + 1 - 1 - One(last' # "none")
    BY <2>2, <2>3
  <2>5. Balanced'
    BY <1>10, <2>1, <2>4 DEF Balanced, One
  <2>6. StatusSays'
    <3>1. last' # "switch off" /\ (last' = "clean up" => "overtaken" \in mishaps')
      BY <1>2, <1>4, <1>5, <2>3 DEF StatusSays
    <3> QED
      BY <1>3, <1>9, <1>10, <3>1 DEF StatusSays, Opening
  <2> QED
    BY <2>5, <2>6 DEF Ordered
<1>14. UsersSay'
  BY <1>2, <1>6, <1>7 DEF UsersSay, Users
<1>15. FewKnocks'
  <2>1. knocks' = 0
    BY <1>1, <1>5, ListenerEnded
  <2>2. One(Waking("ui"))' \in 0..1 /\ One(Waking("leaver"))' \in 0..1
    BY DEF One
  <2> QED
    BY <2>1, <2>2 DEF FewKnocks
<1>16. OnePoller' /\ OnIsNamed' /\ LeaverHasForgotten'
  BY <1>1, <1>4, <1>6, <1>7 DEF LifeInv, OnePoller, OnIsNamed, LeaverHasForgotten
<1>17. ShutdownIsLast' /\ LeaverSure'
  BY <1>6, <1>7 DEF ShutdownIsLast, LeaverSure, Leaving
<1>18. Numbers'
  <2>1. counter' \in Nat /\ gate' \in {0, 1} /\ knocks' \in Nat
    BY <1>1 DEF LifeInv, Shapes, Numbers
  <2> QED
    BY <1>3, <2>1 DEF Numbers
<1>19. Sorts'
  BY <1>1 DEF LifeInv, Shapes, Sorts
<1> QED
  BY <1>6, <1>9, <1>11, <1>12, <1>13, <1>14, <1>15, <1>16, <1>17, <1>18, <1>19
  DEF LifeInv, Shapes

-----------------------------------------------------------------------------
(* The theorems *)

\* The net is off, and nothing has been created.
LEMMA InitHolds == Init => LifeInv
<1> SUFFICES ASSUME Init PROVE LifeInv
  OBVIOUS
<1>1. "listener" \in Threads /\ "recon" \in Threads /\ "listener" \notin Sessions
      /\ "recon" \notin Sessions
  BY LifecycleAssumption DEF Threads
<1>2. /\ pc["listener"] = "ended" /\ pc["recon"] = "ended" /\ NoneAlive
      /\ pos["ui"] = "idle" /\ pos["leaver"] = "none"
  BY <1>1 DEF Init, NoneAlive, Users
<1>3. Labelled
  BY <1>2 DEF Init, Labelled, Labels, ListenerLabels, ReconLabels
<1>4. Positioned
  BY <1>2 DEF Init, Positioned, Places, LeaverPlaces
<1>5. Numbers
  BY LifecycleAssumption DEF Init, Numbers
<1>6. Sorts
  <2>1. <<>> \in Seq(BOOLEAN)
    OBVIOUS
  <2> QED
    BY <2>1 DEF Init, Sorts
<1>7. Tallied
  <2>1. Counted = {}
    BY <1>2 DEF Counted, NoneAlive
  <2> QED
    BY <2>1, FS_EmptySet DEF Init, Tallied
<1>8. Balanced
  <2>1. One(Connecting) = 0 /\ One(~NoneAlive) = 0 /\ One(last # "none") = 0 /\ gate = 1
    BY <1>2 DEF Init, Connecting, One
  <2> QED
    BY <1>2, <2>1 DEF Balanced
<1>9. StatusSays
  BY <1>2 DEF Init, StatusSays
<1>10. FewKnocks
  <2>1. One(Waking("ui")) = 0 /\ One(Waking("leaver")) = 0 /\ knocks = 0
    BY <1>2 DEF Init, Waking, One
  <2> QED
    BY <2>1 DEF FewKnocks
<1>11. UsersSay /\ ClientsKnown /\ LeaverSure
  BY <1>2 DEF Init, UsersSay, ClientsKnown, LeaverSure, Leaving, Users
<1>12. OnePoller
  BY DEF Init, OnePoller
<1>13. status # 1
  BY DEF Init
<1>14. OnIsNamed /\ LeaverHasForgotten /\ ShutdownIsLast
  BY <1>2, <1>13 DEF OnIsNamed, LeaverHasForgotten, ShutdownIsLast
<1> QED
  BY <1>3, <1>4, <1>5, <1>6, <1>7, <1>8, <1>9, <1>10, <1>11, <1>12, <1>14
  DEF LifeInv, Shapes, Ordered

\* Every step keeps the invariant; none follows the mishap "uncounted".
LEMMA NextHolds == LifeInv /\ [Next]_vars => LifeInv'
<1> SUFFICES ASSUME LifeInv, [Next]_vars PROVE LifeInv'
  OBVIOUS
<1>1. CASE Next
  <2>1. "uncounted" \notin mishaps
    BY <1>1 DEF Next, Halted
  <2>2. "listener" \in Threads /\ "recon" \in Threads /\ \A s \in Sessions : s \in Threads
    BY DEF Threads
  <2>3. CASE Listener
    BY <2>1, <2>2, <2>3, StartStep, AcceptKnockStep, CloseListenerStep, EndStep DEF Listener
  <2>4. CASE Recon
    BY <2>1, <2>2, <2>4, StartStep, ListStep, DialStep, NapStep, EndStep DEF Recon
  <2>5. ASSUME NEW s \in Sessions, Client(s) PROVE LifeInv'
    BY <2>1, <2>2, <2>5, StartStep, SessionStep, WrittenStep, PerformRentStep, CloseSessionStep,
       EndStep
    DEF Client
  <2>6. CASE LastThread
    BY <2>1, <2>6, SwitchOffStep, CleanUpStep DEF LastThread
  <2>7. CASE Worker \/ HostExits
    BY <2>7, WorkerStep
  <2>8. ASSUME NEW u \in Users, Disconnecting(u) PROVE LifeInv'
    BY <2>1, <2>8, SetStatusStep, KillHostStep, WakeStep, PassGateStep DEF Disconnecting
  <2>9. CASE User
    BY <2>1, <2>8, <2>9, ConnectWaitsStep, AllowTasksStep, ServiceShutdownStep DEF User, Users
  <2>10. CASE Leaver
    BY <2>1, <2>8, <2>10, LeaverCopiesStep, LeaverDisconnectsStep, LeaverForgetsStep
    DEF Leaver, Users
  <2>11. ASSUME NEW i \in DOMAIN pollers, PollerEnds(i) PROVE LifeInv'
    BY <2>1, <2>11, PollerEndsStep
  <2>12. CASE ServerNetConnect \/ ConnectFails \/ ServerNetCreate \/ ServerNetForget
    BY <2>1, <2>12, ConnectStep, ConnectFailsStep, CreateStep, ForgetStep
  <2>13. CASE ServerNetDisconnect \/ ServerShutdown
    BY <2>1, <2>13, DecidesStep
  <2>14. CASE Accept \/ Excluded
    BY <2>1, <2>14, AcceptStep, ExcludedStep
  <2>15. ASSUME NEW s \in Sessions,
                \/ HandshakeDone(s) \/ HandshakeThrows(s) \/ Answered(s)
                \/ MessageComes(s) \/ MessageRead(s) \/ PeerCloses(s)
         PROVE  LifeInv'
    BY <2>15, HandshakeDoneStep, HandshakeThrowsStep, AnsweredStep, SessionStep
  <2>18. ASSUME NEW w \in Sessions \cup {"worker"}, WriteBlocks(w) PROVE LifeInv'
    BY <2>18, WriteBlocksStep
  <2>16. CASE Service
    BY <2>3, <2>4, <2>5, <2>6, <2>7, <2>9, <2>10, <2>11, <2>16 DEF Service
  <2>17. CASE Environment
    BY <2>7, <2>12, <2>13, <2>14, <2>15, <2>17, <2>18 DEF Environment
  <2> QED
    BY <1>1, <2>16, <2>17 DEF Next
<1>2. CASE UNCHANGED vars
  <2>1. UNCHANGED <<net, threads, users, active, pollers, mishaps, worker, rentLock, writer>>
    BY <1>2 DEF vars, service
  <2> QED
    BY <2>1, RentMoves DEF LifeInv, Shapes, Sorts
<1> QED
  BY <1>1, <1>2

\* The invariant holds of every behaviour.
THEOREM LifeInvariant == Spec => []LifeInv
<1>1. Init => LifeInv
  BY InitHolds
<1>2. LifeInv /\ [Next]_vars => LifeInv'
  BY NextHolds
<1> QED
  BY <1>1, <1>2, PTL DEF Spec

\* Type correctness: service_counter never counts more threads than there are, and never goes
\* below zero; two loopback connections are the most that ever wait to be accepted, however
\* often the net is switched; and net_shutdown_sync is a binary semaphore as long as no
\* thread is "uncounted".  There the specification stops, and the code may open it twice.
THEOREM TypeCorrect == Spec => []TypeOK
<1>1. LifeInv => TypeOK
  <2> SUFFICES ASSUME LifeInv PROVE TypeOK
    OBVIOUS
  <2>1. counter \in 0..Cardinality(Threads)
    BY CountedFinite DEF LifeInv, Tallied
  <2>2. knocks \in 0..2
    <3>1. One(Waking("ui")) \in 0..1 /\ One(Waking("leaver")) \in 0..1 /\ knocks \in Nat
      BY DEF One, LifeInv, Shapes, Numbers
    <3> QED
      BY <3>1 DEF LifeInv, FewKnocks
  <2>3. status \in 0..2 /\ gate \in Nat /\ gate <= 1 /\ switches \in 0..MaxSwitches
    BY DEF LifeInv, Shapes, Numbers
  <2>4. /\ pc \in [Threads -> {"unused", "created", "accept", "handshake", "list", "dial",
                               "ask", "nap", "run", "reading", "forwarding", "renting",
                               "refusing", "closing", "ending", "ended"}]
        /\ pos \in [Users -> {"idle", "connecting", "allowing", "none", "copy", "disconnect",
                              "decided", "killing", "waking", "gate", "forget", "delete",
                              "gone", "ended"}]
    BY DEF LifeInv, Shapes, Labelled, Labels, ListenerLabels, ReconLabels, Positioned, Places,
           LeaverPlaces
  <2>5. stranded \subseteq clients
    BY DEF LifeInv, ClientsKnown
  <2> QED
    BY <2>1, <2>2, <2>3, <2>4, <2>5 DEF LifeInv, Shapes, Sorts, TypeOK
<1> QED
  BY <1>1, LifeInvariant, PTL

\* The net that is switched off is cleaned up once: its threads have ended, its clients are
\* off the list, the semaphore is open, and LeaveCurrentNetThread and the end of the program
\* find what they wait for.
THEOREM OffIsCleanHolds == Spec => []OffIsClean
<1>1. LifeInv => OffIsClean
  <2> SUFFICES ASSUME LifeInv PROVE OffIsClean
    OBVIOUS
  <2>1. ThreadsGone
    <3> SUFFICES ASSUME status = 0, "uncounted" \notin mishaps
                 PROVE  /\ \A x \in Threads : pc[x] \in {"unused", "ended"}
                        /\ clients \subseteq stranded
                        /\ gate = (IF last = "none" THEN 1 ELSE 0)
      BY DEF ThreadsGone
    <3>1. Balanced /\ NoneAlive
      BY DEF LifeInv, Ordered, StatusSays
    <3>2. ~Connecting
      BY <3>1, OnIsAlive DEF Connecting
    <3>3. clients \subseteq stranded
      BY <3>1 DEF LifeInv, ClientsKnown, Serving, NoneAlive, Shapes, Sorts, Threads
    <3>4. gate = 1 + 0 - 0 - One(last # "none")
      BY <3>1, <3>2 DEF Balanced, One
    <3>5. gate = (IF last = "none" THEN 1 ELSE 0)
      BY <3>4 DEF One
    <3> QED
      BY <3>1, <3>3, <3>5 DEF NoneAlive
  <2> QED
    BY <2>1 DEF LifeInv, OffIsClean
<1> QED
  BY <1>1, LifeInvariant, PTL

=============================================================================
