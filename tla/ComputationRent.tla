--------------------------- MODULE ComputationRent ---------------------------
(***************************************************************************)
(* ComputationRentClass of a node server (srvrsrvc.cxx): the node rents    *)
(* itself to one computation at a time.  A rent starts a worker thread     *)
(* that unpacks or compiles the kernel, launches the host process, waits   *)
(* for the host to report, answers the client, waits for the process to    *)
(* end and resets the shared fields.  KillHost resets them from outside.   *)
(*                                                                         *)
(* A rent is named by the address of the client that asks for it, and so   *)
(* are its worker and its host.  The repeated HostIsStarting notices, the  *)
(* progress figures and the forwarding of KillHost to the other nodes are  *)
(* left out.                                                               *)
(***************************************************************************)
EXTENDS Integers, Sequences, FiniteSets

CONSTANTS Rents,     \* the clients, each asking once
          NoRent,    \* the zero address, the null process, the null package
          MaxKills   \* bound on the calls of KillHost

ASSUME RentAssumption == NoRent \notin Rents /\ MaxKills \in Nat

VARIABLES state,      \* _state: 0 idle, 1 starting, 2 ready
          process,    \* _process
          client,     \* _client
          localhost,  \* _localhost
          data,       \* _data: whose package waits to be fetched
          allowed,    \* _allowed
          pc,         \* where the worker of each rent stands
          host,       \* the host process of each rent
          reports,    \* hosts whose 0x10411 the server has yet to handle
          answers,    \* the final 0x10411 answers sent to each address
          kills,      \* calls of KillHost so far
          killed,     \* rents whose host KillHost has terminated
          overlapped  \* a rent was accepted before the worker of a killed one ended

shared == <<state, process, client, localhost, data>>
history == <<kills, killed, overlapped>>
vars == <<shared, allowed, pc, host, reports, answers, history>>

Addresses == Rents \cup {NoRent}
Alive == {r \in Rents : pc[r] \in {"fetch", "prepare", "poll", "register", "wait", "final"}}
Live(r) == host[r] \in {"starting", "up"}
Crashed == \E r \in Rents : pc[r] = "crashed"

Init ==
  /\ state = 0 /\ process = NoRent /\ client = NoRent /\ localhost = NoRent
  /\ data = NoRent /\ allowed = FALSE
  /\ pc = [r \in Rents |-> "new"] /\ host = [r \in Rents |-> "none"]
  /\ reports = {} /\ answers = [a \in Addresses |-> <<>>]
  /\ kills = 0 /\ killed = {} /\ overlapped = FALSE

\* SendRentResponce; sent to the zero address it reaches every other node
Answer(a, what) == answers' = [answers EXCEPT ![a] = Append(@, what)]

Goto(r, label) == pc' = [pc EXCEPT ![r] = label]

\* _state = 0, _client = _localhost = 0; a variant that forgets the addresses
ResetState == state' = 0 /\ UNCHANGED <<client, localhost>>
ResetOwner == state' = 0 /\ client' = NoRent /\ localhost' = NoRent

-----------------------------------------------------------------------------
(* PerformRent: the request 0x411 *)

\* a variant that looks at the process only
BusyProcess == process # NoRent
Busy        == state # 0 \/ process # NoRent

RentRefused(r) ==
  /\ pc[r] = "new"
  /\ Busy \/ ~allowed
  /\ Answer(r, IF Busy THEN "busy" ELSE "discarded")
  /\ Goto(r, "gone")
  /\ UNCHANGED <<shared, allowed, host, reports, history>>

RentAccepted(r) ==
  /\ pc[r] = "new" /\ ~Busy /\ allowed
  /\ client' = r /\ data' = r /\ state' = 1
  /\ Goto(r, "fetch")
  /\ overlapped' = (overlapped \/ Alive \cap killed # {})
  /\ UNCHANGED <<process, localhost, allowed, host, reports, answers, kills, killed>>

\* CreateThread fails
RentFails(r) ==
  /\ pc[r] = "new" /\ ~Busy /\ allowed
  /\ client' = NoRent /\ data' = NoRent
  /\ Answer(r, "failed")
  /\ Goto(r, "gone")
  /\ UNCHANGED <<state, process, localhost, allowed, host, reports, history>>

-----------------------------------------------------------------------------
(* WorkerThread *)

\* The worker takes the package; a null package is dereferenced at once.
Fetch(r) ==
  /\ pc[r] = "fetch"
  /\ data' = NoRent
  /\ Goto(r, IF data = NoRent THEN "crashed" ELSE "prepare")
  /\ UNCHANGED <<state, process, client, localhost, allowed, host, reports, answers, history>>

\* No asset fits, extraction, compilation or CreateCommandProcess fails: the answer
\* goes to whoever _client names now.
WorkerFails(r) ==
  /\ pc[r] = "prepare"
  /\ Answer(client, "failed")
  /\ ResetOwner
  /\ Goto(r, "gone")
  /\ UNCHANGED <<process, data, allowed, host, reports, history>>

Launch(r) ==
  /\ pc[r] = "prepare"
  /\ host' = [host EXCEPT ![r] = "starting"]
  /\ Goto(r, "poll")
  /\ UNCHANGED <<shared, allowed, reports, answers, history>>

\* process->Exited(); variants that never and that always give up
NeverExited(r)  == FALSE
LostPatience(r) == TRUE
Exited(r)       == host[r] = "exited"

\* The loop that waits for the host to report.
PollReady(r) ==
  /\ pc[r] = "poll" /\ state = 2
  /\ Goto(r, "register")
  /\ UNCHANGED <<shared, allowed, host, reports, answers, history>>

PollFails(r) ==
  /\ pc[r] = "poll" /\ state = 1 /\ Exited(r)
  /\ Answer(client, "failed")
  /\ ResetOwner
  /\ Goto(r, "gone")
  /\ UNCHANGED <<process, data, allowed, host, reports, history>>

Register(r) ==
  /\ pc[r] = "register"
  /\ process' = r /\ state' = 2
  /\ Answer(client, "started")
  /\ Goto(r, "wait")
  /\ UNCHANGED <<client, localhost, data, allowed, host, reports, history>>

\* process->Wait() returns ...
HostGone(r) ==
  /\ pc[r] = "wait" /\ host[r] = "exited"
  /\ Goto(r, "final")
  /\ UNCHANGED <<shared, allowed, host, reports, answers, history>>

\* ... and the fields are reset, whoever they belong to by now.
FinalReset(r) ==
  /\ pc[r] = "final"
  /\ process' = NoRent /\ data' = NoRent
  /\ ResetOwner
  /\ Goto(r, "gone")
  /\ UNCHANGED <<allowed, host, reports, answers, history>>

-----------------------------------------------------------------------------
(* The host process, seen from the server *)

HostReports(r) ==
  /\ host[r] = "starting"
  /\ host' = [host EXCEPT ![r] = "up"]
  /\ reports' = reports \cup {r}
  /\ UNCHANGED <<shared, allowed, pc, answers, history>>

\* The computation ends, or the process fails, before or after it has reported.
HostExits(r) ==
  /\ Live(r)
  /\ host' = [host EXCEPT ![r] = "exited"]
  /\ UNCHANGED <<shared, allowed, pc, reports, answers, history>>

HandleHostStarted(h) ==
  /\ h \in reports
  /\ reports' = reports \ {h}
  /\ IF state = 1 THEN localhost' = h /\ state' = 2 ELSE UNCHANGED <<localhost, state>>
  /\ UNCHANGED <<process, client, data, allowed, pc, host, answers, history>>

-----------------------------------------------------------------------------
(* KillHost and AllowTasks *)

\* a variant that does not ask whether the worker has registered the process
KillableEarly == state = 2
Killable      == state = 2 /\ process # NoRent

KillHost ==
  /\ kills < MaxKills
  /\ kills' = kills + 1
  /\ IF Killable
     THEN /\ host' = [r \in Rents |-> IF r = process THEN "exited" ELSE host[r]]
          /\ killed' = killed \cup ({process} \cap Rents)
          /\ process' = NoRent /\ data' = NoRent
          /\ ResetOwner
     ELSE UNCHANGED <<shared, host, killed>>
  /\ UNCHANGED <<allowed, pc, reports, answers, overlapped>>

AllowTasks(allow) ==
  /\ allowed' = allow
  /\ UNCHANGED <<shared, pc, host, reports, answers, history>>

WorkerStep(r) ==
  \/ Fetch(r) \/ WorkerFails(r) \/ Launch(r) \/ PollReady(r) \/ PollFails(r)
  \/ Register(r) \/ HostGone(r) \/ FinalReset(r)

Next ==
  \/ /\ ~Crashed
     /\ \/ \E r \in Rents : \/ RentRefused(r) \/ RentAccepted(r) \/ RentFails(r)
                            \/ WorkerStep(r)
                            \/ HostReports(r) \/ HostExits(r) \/ HandleHostStarted(r)
        \/ KillHost
        \/ \E allow \in BOOLEAN : AllowTasks(allow)
  \/ Crashed /\ UNCHANGED vars   \* the server process is gone

Spec == Init /\ [][Next]_vars

\* Threads run, a launched host reports or exits, and its report is handled.
Fairness ==
  \A r \in Rents : /\ WF_vars(~Crashed /\ WorkerStep(r))
                   /\ WF_vars(~Crashed /\ host[r] = "starting" /\ (HostReports(r) \/ HostExits(r)))
                   /\ WF_vars(~Crashed /\ HandleHostStarted(r))

FairSpec == Spec /\ Fairness

-----------------------------------------------------------------------------
(* Properties *)

TypeOK ==
  /\ state \in 0..2
  /\ state = 0 => client = NoRent /\ localhost = NoRent
  /\ process \in Addresses /\ client \in Addresses /\ localhost \in Addresses
  /\ data \in Addresses /\ allowed \in BOOLEAN
  /\ pc \in [Rents -> {"new", "fetch", "prepare", "poll", "register", "wait", "final",
                       "gone", "crashed"}]
  /\ host \in [Rents -> {"none", "starting", "up", "exited"}]
  /\ reports \subseteq Rents
  /\ answers \in [Addresses -> Seq({"busy", "discarded", "failed", "started"})]
  /\ kills \in 0..MaxKills /\ killed \subseteq Rents /\ overlapped \in BOOLEAN

\* The five shared fields always describe the one worker whose host was not killed:
\* an idle node has none, a busy node has exactly the worker of _client.  It holds as
\* long as no rent came between KillHost and the end of the killed host's worker.
OwnerIsUnique ==
  ~overlapped =>
    LET active == Alive \ killed
    IN  /\ ~Crashed
        /\ IF state = 0 THEN active = {} ELSE active = {client}
        /\ process # NoRent => process = client
        /\ \A r \in active : pc[r] = "fetch" => data = r

\* Until then a client gets one final answer, and none goes to the zero address,
\* which would reach every other node as the report of a host.
AnsweredOnce ==
  ~overlapped => /\ answers[NoRent] = <<>>
                 /\ \A r \in Rents : Len(answers[r]) <= 1

\* A report that outlives its host can be taken for that of the next one, but until
\* then a client is never given the address of another client's live host.
NoForeignHost ==
  ~overlapped /\ state = 2 /\ localhost # client => ~Live(localhost)

\* A client whose rent is accepted is told the outcome.
AcceptedIsAnswered ==
  \A r \in Rents : pc[r] = "fetch" ~> (answers[r] # <<>> \/ overlapped)

\* When its host has ended the rent ends, and the node can be rented again.
RentEnds ==
  \A r \in Rents : host[r] = "exited" ~> (pc[r] = "gone" \/ overlapped)

-----------------------------------------------------------------------------
(* What the documents say, and the code does not do *)

\* docs/en/computation.txt: "The server declines if it is already involved into
\* another spreaded Computation".
OneComputation == Cardinality({r \in Rents : Live(r)}) <= 1

=============================================================================
