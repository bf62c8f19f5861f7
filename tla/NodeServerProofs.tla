-------------------------- MODULE NodeServerProofs --------------------------
(***************************************************************************)
(* Proofs about a node server: the rent of a node, for any set of clients  *)
(* and any number of calls of KillHost, and the net of nodes, for any set  *)
(* of nodes, any bounds, and any requests the user makes within them.      *)
(* The two components share no state here, and each has its own theorems.  *)
(***************************************************************************)
EXTENDS ComputationRent, NetTopology, SequenceLemmas, WellFoundedInduction

(* The inductive invariant, beside TypeOK *)

\* The process the server knows of has a worker that waits for its end.
ProcessHasWorker == process # NoRent => pc[process] \in {"wait", "final"}

\* A host that was killed has exited, and its worker had registered it.
KilledHasExited == \A r \in killed : pc[r] \in {"wait", "final", "gone"} /\ host[r] = "exited"

\* A live host has a worker that has launched it and not yet missed it.
HostHasWorker == \A r \in Rents : Live(r) => pc[r] \in {"poll", "register", "wait"}

\* The fields describe the only worker there is, or those there are had their host killed.
Owner ==
  /\ \A r \in Rents : pc[r] # "crashed" /\ (pc[r] = "fetch" => data = r)
  /\ state = 0 => \A r \in Alive : r \in killed
  /\ state # 0 => /\ client \in Rents \ killed
                  /\ \A r \in Rents : r \in Alive <=> r = client
  /\ process # NoRent => process = client

\* The host has reported when its worker goes on, and its address is known.
HostKnown ==
  /\ state = 2 => localhost \in Rents
  /\ \A r \in Rents : pc[r] = "register" => state = 2

\* A client is answered when its worker registers the host or ends, and not before.
Unanswered ==
  /\ answers[NoRent] = <<>>
  /\ \A r \in Rents : IF pc[r] \in {"new", "fetch", "prepare", "poll", "register"}
                      THEN answers[r] = <<>> ELSE Len(answers[r]) <= 1

RentInv ==
  /\ TypeOK /\ ProcessHasWorker /\ KilledHasExited /\ HostHasWorker
  /\ ~overlapped => Owner /\ HostKnown /\ Unanswered

-----------------------------------------------------------------------------
(* Types *)

\* One answer more is sent to some address.
LEMMA AnswerTyped ==
  ASSUME NEW a \in Addresses, NEW what \in {"busy", "discarded", "failed", "started"},
         TypeOK, Answer(a, what)
  PROVE  /\ answers' \in [Addresses -> Seq({"busy", "discarded", "failed", "started"})]
         /\ Len(answers'[a]) = Len(answers[a]) + 1 /\ Len(answers[a]) \in Nat
         /\ \A b \in Addresses \ {a} : answers'[b] = answers[b]
  <1> DEFINE W == {"busy", "discarded", "failed", "started"}
  <1>1. answers \in [Addresses -> Seq(W)] /\ answers[a] \in Seq(W)
    BY DEF TypeOK
  <1>2. Append(answers[a], what) \in Seq(W) /\ Len(answers[a]) \in Nat
        /\ Len(Append(answers[a], what)) = Len(answers[a]) + 1
    BY <1>1, AppendRecord, LenProperties
  <1>3. answers' = [answers EXCEPT ![a] = Append(answers[a], what)]
    BY DEF Answer
  <1>. HIDE DEF W
  <1>4. answers' \in [Addresses -> Seq(W)]
    BY <1>1, <1>2, <1>3
  <1>5. answers'[a] = Append(answers[a], what) /\ \A b \in Addresses \ {a} : answers'[b] = answers[b]
    BY <1>1, <1>3
  <1>. QED
    BY <1>2, <1>4, <1>5 DEF W

\* Every step keeps the types.
LEMMA TypeStep == TypeOK /\ RentAssumption /\ [Next]_vars => TypeOK'
  <1>. SUFFICES ASSUME TypeOK, RentAssumption, [Next]_vars
                PROVE  TypeOK'
    OBVIOUS
  <1>. USE DEF Goto, shared, history
  <1>0. client \in Addresses /\ NoRent \in Addresses /\ \A r \in Rents : r \in Addresses
    BY DEF TypeOK, Addresses
  <1>1. ASSUME NEW r \in Rents, RentRefused(r) \/ RentFails(r)
        PROVE  TypeOK'
    <2>1. PICK what \in {"busy", "discarded", "failed"} : Answer(r, what)
      BY <1>1 DEF RentRefused, RentFails
    <2>2. answers' \in [Addresses -> Seq({"busy", "discarded", "failed", "started"})]
      BY <1>0, <2>1, AnswerTyped
    <2>. QED
      BY <1>0, <1>1, <2>2 DEF RentRefused, RentFails, TypeOK, Busy
  <1>2. ASSUME NEW r \in Rents, RentAccepted(r)
        PROVE  TypeOK'
    BY <1>0, <1>2 DEF RentAccepted, TypeOK
  <1>3. ASSUME NEW r \in Rents, Fetch(r) \/ Launch(r) \/ PollReady(r) \/ HostGone(r)
        PROVE  TypeOK'
    BY <1>0, <1>3 DEF Fetch, Launch, PollReady, HostGone, TypeOK
  <1>4. ASSUME NEW r \in Rents, WorkerFails(r) \/ PollFails(r)
        PROVE  TypeOK'
    <2>1. Answer(client, "failed")
      BY <1>4 DEF WorkerFails, PollFails
    <2>2. answers' \in [Addresses -> Seq({"busy", "discarded", "failed", "started"})]
      BY <1>0, <2>1, AnswerTyped
    <2>3. CASE WorkerFails(r)
      BY <1>0, <2>2, <2>3 DEF WorkerFails, ResetOwner, TypeOK
    <2>4. CASE PollFails(r)
      BY <1>0, <2>2, <2>4 DEF PollFails, ResetOwner, TypeOK
    <2>. QED
      BY <1>4, <2>3, <2>4
  <1>5. ASSUME NEW r \in Rents, Register(r)
        PROVE  TypeOK'
    <2>1. Answer(client, "started")
      BY <1>5 DEF Register
    <2>2. answers' \in [Addresses -> Seq({"busy", "discarded", "failed", "started"})]
      BY <1>0, <2>1, AnswerTyped
    <2>. QED
      BY <1>0, <1>5, <2>2 DEF Register, TypeOK
  <1>6. ASSUME NEW r \in Rents, FinalReset(r)
        PROVE  TypeOK'
    BY <1>0, <1>6 DEF FinalReset, ResetOwner, TypeOK
  <1>7. ASSUME NEW r \in Rents, HostReports(r) \/ HostExits(r) \/ HandleHostStarted(r)
        PROVE  TypeOK'
    <2>1. CASE HostReports(r) \/ HostExits(r)
      BY <1>0, <2>1 DEF HostReports, HostExits, TypeOK
    <2>2. CASE HandleHostStarted(r)
      BY <1>0, <2>2 DEF HandleHostStarted, TypeOK
    <2>. QED
      BY <1>7, <2>1, <2>2
  <1>8. ASSUME KillHost
        PROVE  TypeOK'
    BY <1>0, <1>8 DEF KillHost, Killable, ResetOwner, TypeOK, RentAssumption, Addresses
  <1>9. ASSUME NEW allow \in BOOLEAN, AllowTasks(allow)
        PROVE  TypeOK'
    BY <1>9 DEF AllowTasks, TypeOK
  <1>10. CASE UNCHANGED vars
    BY <1>10 DEF vars, TypeOK
  <1>. QED
    BY <1>1, <1>2, <1>3, <1>4, <1>5, <1>6, <1>7, <1>8, <1>9, <1>10 DEF Next, WorkerStep

-----------------------------------------------------------------------------
(* Workers and their hosts *)

Links == ProcessHasWorker /\ KilledHasExited /\ HostHasWorker

\* Every step keeps the host processes with their workers, also when rents overlap.
LEMMA LinksStep == TypeOK /\ Links /\ RentAssumption /\ [Next]_vars => Links'
  <1>. SUFFICES ASSUME TypeOK, Links, RentAssumption, [Next]_vars
                PROVE  Links'
    OBVIOUS
  <1>. USE DEF Goto, shared, history, Links, ProcessHasWorker, KilledHasExited, HostHasWorker, Live
  <1>0. /\ pc \in [Rents -> {"new", "fetch", "prepare", "poll", "register", "wait", "final",
                             "gone", "crashed"}]
        /\ host \in [Rents -> {"none", "starting", "up", "exited"}]
        /\ process \in Rents \cup {NoRent} /\ killed \subseteq Rents /\ NoRent \notin Rents
    BY DEF TypeOK, Addresses, RentAssumption
  <1>1. ASSUME NEW r \in Rents, RentRefused(r) \/ RentFails(r) \/ RentAccepted(r)
        PROVE  Links'
    BY <1>0, <1>1 DEF RentRefused, RentFails, RentAccepted
  <1>2. ASSUME NEW r \in Rents, Fetch(r) \/ PollReady(r) \/ HostGone(r)
        PROVE  Links'
    BY <1>0, <1>2 DEF Fetch, PollReady, HostGone
  <1>3. ASSUME NEW r \in Rents, Launch(r)
        PROVE  Links'
    BY <1>0, <1>3 DEF Launch
  <1>4. ASSUME NEW r \in Rents, WorkerFails(r) \/ PollFails(r)
        PROVE  Links'
    BY <1>0, <1>4 DEF WorkerFails, PollFails, Exited
  <1>5. ASSUME NEW r \in Rents, Register(r)
        PROVE  Links'
    BY <1>0, <1>5 DEF Register
  <1>6. ASSUME NEW r \in Rents, FinalReset(r)
        PROVE  Links'
    BY <1>0, <1>6 DEF FinalReset
  <1>7. ASSUME NEW r \in Rents, HostReports(r) \/ HostExits(r) \/ HandleHostStarted(r)
        PROVE  Links'
    BY <1>0, <1>7 DEF HostReports, HostExits, HandleHostStarted
  <1>8. ASSUME KillHost
        PROVE  Links'
    BY <1>0, <1>8 DEF KillHost, Killable
  <1>9. ASSUME NEW allow \in BOOLEAN, AllowTasks(allow)
        PROVE  Links'
    BY <1>9 DEF AllowTasks
  <1>10. CASE UNCHANGED vars
    BY <1>10 DEF vars
  <1>. QED
    BY <1>1, <1>2, <1>3, <1>4, <1>5, <1>6, <1>7, <1>8, <1>9, <1>10 DEF Next, WorkerStep

-----------------------------------------------------------------------------
(* The owner of the fields, and the answers *)

Sound == ~overlapped => Owner /\ HostKnown /\ Unanswered

\* The client of a rent is answered while its worker registers the host or ends.
LEMMA AnsweredNow ==
  ASSUME TypeOK, Unanswered, RentAssumption, NEW r \in Rents, NEW label \in {"wait", "gone"},
         pc' = [pc EXCEPT ![r] = label],
         Len(answers'[r]) = 1, \A a \in Addresses \ {r} : answers'[a] = answers[a]
  PROVE  Unanswered'
  <1>1. NoRent # r /\ NoRent \in Addresses /\ \A v \in Rents : v \in Addresses
    BY DEF RentAssumption, Addresses
  <1>2. answers'[NoRent] = <<>>
    BY <1>1 DEF Unanswered
  <1>3. ASSUME NEW v \in Rents
        PROVE  IF pc'[v] \in {"new", "fetch", "prepare", "poll", "register"}
               THEN answers'[v] = <<>> ELSE Len(answers'[v]) <= 1
    <2>1. CASE v = r
      <3>1. pc'[v] = label /\ Len(answers'[v]) = 1
        BY <2>1, Zenon DEF TypeOK
      <3>2. label \notin {"new", "fetch", "prepare", "poll", "register"}
        OBVIOUS
      <3>. QED
        BY <3>1, <3>2
    <2>2. CASE v # r
      <3>1. pc'[v] = pc[v] /\ answers'[v] = answers[v]
        BY <1>1, <2>2 DEF TypeOK
      <3>. QED
        BY <3>1 DEF Unanswered
    <2>. QED
      BY <2>1, <2>2
  <1>. QED
    BY <1>2, <1>3 DEF Unanswered

\* Until a rent overlaps the worker of a killed one, every step keeps the fields with the
\* one worker, the address of its host known, and one answer for each client.
LEMMA SoundStep == TypeOK /\ Links /\ Sound /\ RentAssumption /\ [Next]_vars => Sound'
  <1>. SUFFICES ASSUME TypeOK, Links, Sound, RentAssumption, [Next]_vars, ~overlapped'
                PROVE  Owner' /\ HostKnown' /\ Unanswered'
    BY DEF Sound
  <1>. USE DEF Goto, shared, history, Alive
  <1>0. /\ pc \in [Rents -> {"new", "fetch", "prepare", "poll", "register", "wait", "final",
                             "gone", "crashed"}]
        /\ host \in [Rents -> {"none", "starting", "up", "exited"}]
        /\ process \in Rents \cup {NoRent} /\ client \in Rents \cup {NoRent}
        /\ reports \subseteq Rents /\ killed \subseteq Rents /\ NoRent \notin Rents
        /\ state \in 0..2 /\ (state = 0 => client = NoRent)
    BY DEF TypeOK, Addresses, RentAssumption
  <1>a. ~overlapped
    BY DEF Next, RentRefused, RentAccepted, RentFails, WorkerStep, Fetch, WorkerFails, Launch,
           PollReady, PollFails, Register, HostGone, FinalReset, HostReports, HostExits,
           HandleHostStarted, KillHost, AllowTasks, vars
  <1>b. Owner /\ HostKnown /\ Unanswered /\ Links
    BY <1>a DEF Sound
  <1>c. /\ process # NoRent => pc[process] \in {"wait", "final"}
        /\ \A r \in killed : pc[r] \in {"wait", "final", "gone"}
    BY <1>b DEF Links, ProcessHasWorker, KilledHasExited
  <1>d. \A r \in Rents : pc[r] \in {"fetch", "prepare", "poll", "register"} => r = client
          /\ state # 0
    BY <1>0, <1>b, <1>c DEF Owner
  <1>1. ASSUME NEW r \in Rents, RentRefused(r) \/ RentFails(r)
        PROVE  Owner' /\ HostKnown' /\ Unanswered'
    <2>1. pc[r] = "new" /\ pc' = [pc EXCEPT ![r] = "gone"]
      BY <1>1 DEF RentRefused, RentFails
    <2>2. PICK what \in {"busy", "discarded", "failed"} : Answer(r, what)
      BY <1>1 DEF RentRefused, RentFails
    <2>3. Unanswered'
      <3>1. /\ Len(answers'[r]) = Len(answers[r]) + 1 /\ answers[r] = <<>>
            /\ \A b \in Addresses \ {r} : answers'[b] = answers[b]
        BY <1>b, <2>1, <2>2, AnswerTyped DEF Addresses, Unanswered
      <3>2. Len(answers'[r]) = 1
        BY <3>1
      <3>. QED
        BY <1>b, <2>1, <3>1, <3>2, AnsweredNow
    <2>4. Owner' /\ HostKnown'
      BY <1>0, <1>1, <1>b, <1>d, <2>1 DEF RentRefused, RentFails, Busy, Owner, HostKnown
    <2>. QED
      BY <2>3, <2>4
  <1>2. ASSUME NEW r \in Rents, RentAccepted(r)
        PROVE  Owner' /\ HostKnown' /\ Unanswered'
    <2>1. \A v \in Rents : v \notin Alive
      BY <1>0, <1>2, <1>b DEF RentAccepted, Busy, Owner
    <2>2. r \notin killed
      BY <1>2, <1>c DEF RentAccepted
    <2>3. Owner' /\ HostKnown'
      BY <1>0, <1>2, <1>b, <2>1, <2>2 DEF RentAccepted, Busy, Owner, HostKnown
    <2>. QED
      BY <1>0, <1>2, <1>b, <2>3 DEF RentAccepted, Unanswered
  <1>3. ASSUME NEW r \in Rents, Fetch(r) \/ Launch(r) \/ PollReady(r) \/ HostGone(r)
        PROVE  Owner' /\ HostKnown' /\ Unanswered'
    <2>1. Owner' /\ HostKnown'
      BY <1>0, <1>3, <1>b, <1>d DEF Fetch, Launch, PollReady, HostGone, Owner, HostKnown
    <2>. QED
      BY <1>0, <1>3, <1>b, <2>1 DEF Fetch, Launch, PollReady, HostGone, Unanswered, Owner
  <1>4. ASSUME NEW r \in Rents, WorkerFails(r) \/ PollFails(r)
        PROVE  Owner' /\ HostKnown' /\ Unanswered'
    <2>1. pc[r] \in {"prepare", "poll"} /\ pc' = [pc EXCEPT ![r] = "gone"] /\ ResetOwner
          /\ Answer(client, "failed") /\ UNCHANGED <<process, data, killed>>
      BY <1>4 DEF WorkerFails, PollFails
    <2>2. client = r /\ process = NoRent
      BY <1>0, <1>b, <1>c, <1>d, <2>1 DEF Owner
    <2>3. Unanswered'
      <3>1. /\ Len(answers'[r]) = Len(answers[r]) + 1 /\ answers[r] = <<>>
            /\ \A b \in Addresses \ {r} : answers'[b] = answers[b]
        BY <1>b, <2>1, <2>2, AnswerTyped DEF Addresses, Unanswered
      <3>2. Len(answers'[r]) = 1
        BY <3>1
      <3>. QED
        BY <1>b, <2>1, <3>1, <3>2, AnsweredNow
    <2>4. Owner' /\ HostKnown'
      BY <1>0, <1>b, <1>d, <2>1, <2>2 DEF ResetOwner, Owner, HostKnown
    <2>. QED
      BY <2>3, <2>4
  <1>5. ASSUME NEW r \in Rents, Register(r)
        PROVE  Owner' /\ HostKnown' /\ Unanswered'
    <2>1. client = r /\ state = 2
      BY <1>5, <1>b, <1>d DEF Register, HostKnown
    <2>2. Unanswered'
      <3>1. /\ Len(answers'[r]) = Len(answers[r]) + 1 /\ answers[r] = <<>>
            /\ \A b \in Addresses \ {r} : answers'[b] = answers[b]
        BY <1>5, <1>b, <2>1, AnswerTyped DEF Addresses, Unanswered, Register
      <3>2. Len(answers'[r]) = 1
        BY <3>1
      <3>. QED
        BY <1>5, <1>b, <3>1, <3>2, AnsweredNow DEF Register
    <2>3. Owner' /\ HostKnown'
      BY <1>0, <1>5, <1>b, <2>1 DEF Register, Owner, HostKnown
    <2>. QED
      BY <2>2, <2>3
  <1>6. ASSUME NEW r \in Rents, FinalReset(r)
        PROVE  Owner' /\ HostKnown' /\ Unanswered'
    <2>1. \A v \in Rents : pc[v] \notin {"fetch", "register"}
      BY <1>0, <1>6, <1>b, <1>d DEF FinalReset, Owner
    <2>2. Owner' /\ HostKnown'
      BY <1>0, <1>6, <1>b, <2>1 DEF FinalReset, ResetOwner, Owner, HostKnown
    <2>. QED
      BY <1>0, <1>6, <1>b, <2>2 DEF FinalReset, Unanswered
  <1>7. ASSUME NEW r \in Rents, HostReports(r) \/ HostExits(r) \/ HandleHostStarted(r)
        PROVE  Owner' /\ HostKnown' /\ Unanswered'
    BY <1>0, <1>7, <1>b DEF HostReports, HostExits, HandleHostStarted, Owner, HostKnown, Unanswered
  <1>8. ASSUME KillHost
        PROVE  Owner' /\ HostKnown' /\ Unanswered'
    <2>1. CASE Killable
      <3>1. process = client /\ client \in Rents /\ pc[client] \in {"wait", "final"}
        BY <1>0, <1>b, <1>c, <2>1 DEF Killable, Owner
      <3>. QED
        BY <1>0, <1>8, <1>b, <1>d, <2>1, <3>1 DEF KillHost, ResetOwner, Owner, HostKnown, Unanswered
    <2>2. CASE ~Killable
      BY <1>8, <1>b, <2>2 DEF KillHost, Owner, HostKnown, Unanswered
    <2>. QED
      BY <2>1, <2>2
  <1>9. ASSUME NEW allow \in BOOLEAN, AllowTasks(allow)
        PROVE  Owner' /\ HostKnown' /\ Unanswered'
    BY <1>9, <1>b DEF AllowTasks, Owner, HostKnown, Unanswered
  <1>10. CASE UNCHANGED vars
    BY <1>10, <1>b DEF vars, Owner, HostKnown, Unanswered
  <1>. QED
    BY <1>1, <1>2, <1>3, <1>4, <1>5, <1>6, <1>7, <1>8, <1>9, <1>10 DEF Next, WorkerStep

-----------------------------------------------------------------------------

\* The invariant holds throughout.
LEMMA RentInvariant == Spec => []RentInv
  <1>1. Init => RentInv
    <2>. SUFFICES ASSUME Init PROVE RentInv
      OBVIOUS
    <2>1. <<>> \in Seq({"busy", "discarded", "failed", "started"})
      BY EmptySeq
    <2>2. TypeOK
      <3>1. NoRent \in Addresses
        BY DEF Addresses
      <3>2. answers \in [Addresses -> Seq({"busy", "discarded", "failed", "started"})]
        BY <2>1 DEF Init
      <3>3. kills \in 0..MaxKills
        BY RentAssumption DEF RentAssumption, Init
      <3>4. /\ pc \in [Rents -> {"new", "fetch", "prepare", "poll", "register", "wait", "final",
                                 "gone", "crashed"}]
            /\ host \in [Rents -> {"none", "starting", "up", "exited"}]
        BY DEF Init
      <3>5. /\ state \in 0..2
            /\ state = 0 => client = NoRent /\ localhost = NoRent
        BY DEF Init
      <3>6. /\ process \in Addresses /\ client \in Addresses /\ localhost \in Addresses
            /\ data \in Addresses
        BY <3>1 DEF Init
      <3>7. allowed \in BOOLEAN
        BY Zenon DEF Init
      <3>8. reports \subseteq Rents /\ killed \subseteq Rents /\ overlapped \in BOOLEAN
        BY DEF Init
      <3>. QED
        BY <3>2, <3>3, <3>4, <3>5, <3>6, <3>7, <3>8 DEF TypeOK
    <2>3. ProcessHasWorker /\ KilledHasExited /\ HostHasWorker
      BY DEF Init, ProcessHasWorker, KilledHasExited, HostHasWorker, Live
    <2>4. Owner /\ HostKnown /\ Unanswered
      BY RentAssumption DEF Init, Owner, Alive, HostKnown, Unanswered, Addresses
    <2>. QED
      BY <2>2, <2>3, <2>4 DEF RentInv
  <1>2. RentInv /\ [Next]_vars => RentInv'
    BY TypeStep, LinksStep, SoundStep, RentAssumption DEF RentInv, Links, Sound
  <1>. QED
    BY <1>1, <1>2, PTL DEF Spec

\* Every variable keeps its type, and a node that is idle names no client and no host.
THEOREM TypeCorrect == Spec => []TypeOK
  BY RentInvariant, PTL DEF RentInv

\* Until a rent overlaps the worker of a killed one, the shared fields describe the one
\* worker whose host was not killed.
THEOREM OneOwner == Spec => []OwnerIsUnique
  <1>1. RentInv => OwnerIsUnique
    <2>. SUFFICES ASSUME RentInv, ~overlapped
                  PROVE  /\ ~Crashed
                         /\ IF state = 0 THEN Alive \ killed = {} ELSE Alive \ killed = {client}
                         /\ process # NoRent => process = client
                         /\ \A r \in Alive \ killed : pc[r] = "fetch" => data = r
      BY DEF OwnerIsUnique
    <2>1. Owner
      BY DEF RentInv
    <2>. QED
      BY <2>1 DEF Owner, Crashed, Alive
  <1>. QED
    BY <1>1, RentInvariant, PTL

\* Until then each client is answered once at most, and nobody else by mistake.
THEOREM OneAnswer == Spec => []AnsweredOnce
  <1>1. RentInv => AnsweredOnce
    <2>. SUFFICES ASSUME RentInv, ~overlapped
                  PROVE  answers[NoRent] = <<>> /\ \A r \in Rents : Len(answers[r]) <= 1
      BY DEF AnsweredOnce
    <2>1. Unanswered
      BY DEF RentInv
    <2>2. Len(<<>>) = 0
      OBVIOUS
    <2>. QED
      BY <2>1, <2>2 DEF Unanswered
  <1>. QED
    BY <1>1, RentInvariant, PTL

\* Until then no client is given the address of another client's live host.
THEOREM OwnHost == Spec => []NoForeignHost
  <1>1. RentInv => NoForeignHost
    <2>. SUFFICES ASSUME RentInv, ~overlapped, state = 2, localhost # client, Live(localhost)
                  PROVE  FALSE
      BY DEF NoForeignHost
    <2>1. Owner /\ HostKnown /\ HostHasWorker
      BY DEF RentInv
    <2>2. localhost \in Alive
      BY <2>1 DEF HostKnown, HostHasWorker, Alive
    <2>. QED
      BY <2>1, <2>2 DEF Owner, Alive
  <1>. QED
    BY <1>1, RentInvariant, PTL

-----------------------------------------------------------------------------
(* Choosing from a sequence *)

\* A set of natural numbers has a least one.
LEMMA LeastOf ==
  ASSUME NEW S, S \subseteq Nat, S # {}
  PROVE  \E x \in S : \A y \in S : x <= y
  <1> DEFINE R == OpToRel(<, Nat)
  <1>1. IsWellFoundedOn(R, Nat)
    BY NatLessThanWellFounded
  <1>2. \A x, y \in Nat : x < y => <<x, y>> \in R
    BY DEF OpToRel
  <1>. HIDE DEF R
  <1>3. \E x \in S : \A y \in S : <<y, x>> \notin R
    BY <1>1, WFMin
  <1>4. PICK x \in S : \A y \in S : <<y, x>> \notin R
    BY <1>3
  <1>5. ASSUME NEW y \in S
        PROVE  x <= y
    <2>1. x \in Nat /\ y \in Nat /\ <<y, x>> \notin R
      BY <1>4
    <2>2. ~(y < x)
      BY <1>2, <2>1
    <2>. QED
      BY <2>1, <2>2
  <1>. QED
    BY <1>5

\* What chosen is in Selected: a function that obeys the recursion.
Chosen(s, K, g, n) ==
  /\ DOMAIN g = 0..n
  /\ g[0] = <<>>
  /\ \A k \in 1..n : g[k] = IF k \in K THEN Append(g[k - 1], s[k]) ELSE g[k - 1]

\* There is such a choice for every length.
LEMMA ChosenExists ==
  ASSUME NEW S, NEW s \in Seq(S), NEW K
  PROVE  \A n \in 0..Len(s) : \E g : Chosen(s, K, g, n)
  <1> DEFINE Bad == {n \in 0..Len(s) : ~ \E g : Chosen(s, K, g, n)}
  <1>0. Len(s) \in Nat
    BY LenProperties
  <1>1. SUFFICES ASSUME Bad # {}
                 PROVE  FALSE
    OBVIOUS
  <1>2. PICK n \in Bad : \A m \in Bad : n <= m
    <2>1. Bad \subseteq Nat
      BY <1>0
    <2>. QED
      BY <2>1, <1>1, LeastOf
  <1>3. CASE n = 0
    <2>1. Chosen(s, K, [k \in 0..0 |-> <<>>], 0)
      BY DEF Chosen
    <2>. QED
      BY <1>2, <1>3, <2>1
  <1>4. CASE n # 0
    <2>1. n \in 1..Len(s) /\ n - 1 \in 0..Len(s) /\ n - 1 \notin Bad
      BY <1>0, <1>2, <1>4
    <2>2. PICK g : Chosen(s, K, g, n - 1)
      BY <2>1
    <2> DEFINE h == [k \in 0..n |-> IF k < n THEN g[k]
                                    ELSE IF n \in K THEN Append(g[n - 1], s[n]) ELSE g[n - 1]]
    <2>3. Chosen(s, K, h, n)
      <3>1. DOMAIN h = 0..n /\ h[0] = <<>>
        BY <2>1, <2>2, <1>0 DEF Chosen
      <3>2. ASSUME NEW k \in 1..n
            PROVE  h[k] = IF k \in K THEN Append(h[k - 1], s[k]) ELSE h[k - 1]
        BY <2>1, <2>2, <1>0 DEF Chosen
      <3>. QED
        BY <3>1, <3>2 DEF Chosen
    <2>. QED
      BY <1>2, <2>3
  <1>. QED
    BY <1>3, <1>4

\* Selected is the choice over the whole sequence.
LEMMA SelectedIs ==
  ASSUME NEW S, NEW s \in Seq(S), NEW K
  PROVE  \E g : Chosen(s, K, g, Len(s)) /\ Selected(s, K) = g[Len(s)]
  <1> DEFINE f == CHOOSE h : h = [k \in 0..Len(s) |->
        IF k = 0 THEN <<>>
        ELSE IF k \in K THEN Append(h[k - 1], s[k]) ELSE h[k - 1]]
  <1>0. Len(s) \in Nat
    BY LenProperties
  <1>1. PICK g : Chosen(s, K, g, Len(s))
    BY <1>0, ChosenExists
  <1>2. \E h : h = [k \in 0..Len(s) |->
        IF k = 0 THEN <<>>
        ELSE IF k \in K THEN Append(h[k - 1], s[k]) ELSE h[k - 1]]
    <2> DEFINE h == [k \in 0..Len(s) |-> g[k]]
    <2>1. \A k \in 0..Len(s) : h[k] =
        IF k = 0 THEN <<>>
        ELSE IF k \in K THEN Append(h[k - 1], s[k]) ELSE h[k - 1]
      <3>1. h[0] = <<>>
        BY <1>0, <1>1 DEF Chosen
      <3>2. ASSUME NEW k \in 0..Len(s), k # 0
            PROVE  h[k] = IF k \in K THEN Append(h[k - 1], s[k]) ELSE h[k - 1]
        <4>1. k \in 1..Len(s) /\ k - 1 \in 0..Len(s)
          BY <1>0, <3>2
        <4>2. h[k] = g[k] /\ h[k - 1] = g[k - 1]
          BY <4>1, <3>2
        <4>. QED
          BY <1>1, <4>1, <4>2 DEF Chosen
      <3>. HIDE DEF h
      <3>. QED
        BY <3>1, <3>2
    <2>. QED
      BY <2>1
  <1>3. f = [k \in 0..Len(s) |->
        IF k = 0 THEN <<>>
        ELSE IF k \in K THEN Append(f[k - 1], s[k]) ELSE f[k - 1]]
    BY <1>2
  <1>4. Selected(s, K) = f[Len(s)]
    BY DEF Selected
  <1>5. Chosen(s, K, f, Len(s))
    <2>. HIDE DEF f
    <2>1. DOMAIN f = 0..Len(s)
      BY <1>3
    <2>2. \A k \in 0..Len(s) : f[k] = IF k = 0 THEN <<>>
            ELSE IF k \in K THEN Append(f[k - 1], s[k]) ELSE f[k - 1]
      BY <1>3
    <2>3. f[0] = <<>>
      BY <1>0, <2>2
    <2>4. \A k \in 1..Len(s) : k \in 0..Len(s) /\ k # 0
      BY <1>0
    <2>. QED
      BY <2>1, <2>2, <2>3, <2>4 DEF Chosen
  <1>. QED
    BY <1>4, <1>5

\* Selected keeps the elements at the places in K, and nothing else.
LEMMA SelectedKeeps ==
  ASSUME NEW S, NEW s \in Seq(S), NEW K
  PROVE  /\ Selected(s, K) \in Seq(S)
         /\ \A i \in DOMAIN Selected(s, K) :
              \E k \in DOMAIN s : k \in K /\ s[k] = Selected(s, K)[i]
         /\ \A k \in DOMAIN s : k \in K =>
              \E i \in DOMAIN Selected(s, K) : Selected(s, K)[i] = s[k]
  <1>0. Len(s) \in Nat /\ DOMAIN s = 1..Len(s) /\ \A k \in 1..Len(s) : s[k] \in S
    BY LenProperties
  <1>1. PICK g : Chosen(s, K, g, Len(s)) /\ Selected(s, K) = g[Len(s)]
    BY SelectedIs
  <1> DEFINE Good(n) == /\ g[n] \in Seq(S)
                        /\ \A i \in DOMAIN g[n] : \E k \in 1..n : k \in K /\ s[k] = g[n][i]
                        /\ \A k \in 1..n : k \in K => \E i \in DOMAIN g[n] : g[n][i] = s[k]
             Bad == {n \in 0..Len(s) : ~Good(n)}
  <1>2. ASSUME Bad = {}
        PROVE  Good(Len(s))
    <2>. HIDE DEF Good
    <2>. QED
      BY <1>0, <1>2
  <1>2a. SUFFICES ASSUME Bad # {}
                  PROVE  FALSE
    BY <1>0, <1>1, <1>2
  <1>3. PICK n \in Bad : \A m \in Bad : n <= m
    <2>. HIDE DEF Good
    <2>1. Bad \subseteq Nat
      BY <1>0
    <2>. QED
      BY <2>1, <1>2a, LeastOf
  <1>4. CASE n = 0
    <2>1. g[0] = <<>>
      BY <1>1 DEF Chosen
    <2>2. <<>> \in Seq(S) /\ DOMAIN <<>> = {}
      OBVIOUS
    <2>3. Good(0)
      BY <2>1, <2>2
    <2>. QED
      BY <1>3, <1>4, <2>3
  <1>5. CASE n # 0
    <2>1. n \in 1..Len(s) /\ n - 1 \in 0..Len(s) /\ n - 1 \notin Bad
      <3>. HIDE DEF Good
      <3>. QED
        BY <1>0, <1>3, <1>5
    <2>2. Good(n - 1)
      <3>. HIDE DEF Good
      <3>. QED
        BY <2>1
    <2>3. g[n] = IF n \in K THEN Append(g[n - 1], s[n]) ELSE g[n - 1]
      BY <1>1, <2>1 DEF Chosen
    <2>4. \A k : k \in 1..n <=> k \in 1..n - 1 \/ k = n
      BY <2>1, <1>0
    <2>5. CASE n \notin K
      <3>1. Good(n)
        BY <2>2, <2>3, <2>4, <2>5
      <3>. QED
        BY <3>1, <1>3
    <2>6. CASE n \in K
      <3>1. /\ g[n - 1] \in Seq(S) /\ s[n] \in S /\ g[n] = Append(g[n - 1], s[n])
        BY <2>2, <2>3, <2>6, <1>0, <2>1
      <3>2. /\ g[n] \in Seq(S) /\ DOMAIN g[n] = 1..Len(g[n - 1]) + 1
            /\ DOMAIN g[n - 1] = 1..Len(g[n - 1]) /\ Len(g[n - 1]) \in Nat
        BY <3>1, AppendRecord, LenProperties
      <3>3. \A i \in 1..Len(g[n - 1]) + 1 :
              g[n][i] = IF i <= Len(g[n - 1]) THEN g[n - 1][i] ELSE s[n]
        BY <3>1, AppendRecord
      <3>4. ASSUME NEW i \in DOMAIN g[n]
            PROVE  \E k \in 1..n : k \in K /\ s[k] = g[n][i]
        <4>1. CASE i = Len(g[n - 1]) + 1
          <5>1. g[n][Len(g[n - 1]) + 1] = s[n]
            BY <3>2, <3>3
          <5>2. n \in 1..n
            BY <1>0, <2>1
          <5>. QED
            BY <2>6, <4>1, <5>1, <5>2
        <4>2. CASE i # Len(g[n - 1]) + 1
          <5>1. i \in DOMAIN g[n - 1] /\ g[n][i] = g[n - 1][i]
            BY <3>2, <3>3, <4>2
          <5>. QED
            BY <2>2, <2>4, <5>1
        <4>. QED
          BY <4>1, <4>2
      <3>5. ASSUME NEW k \in 1..n, k \in K
            PROVE  \E i \in DOMAIN g[n] : g[n][i] = s[k]
        <4>1. CASE k = n
          <5>1. Len(g[n - 1]) + 1 \in DOMAIN g[n] /\ g[n][Len(g[n - 1]) + 1] = s[n]
            BY <3>2, <3>3
          <5>. QED
            BY <4>1, <5>1
        <4>2. CASE k # n
          <5>1. PICK i \in DOMAIN g[n - 1] : g[n - 1][i] = s[k]
            BY <2>2, <2>4, <3>5, <4>2
          <5>2. i \in DOMAIN g[n] /\ g[n][i] = g[n - 1][i]
            BY <3>2, <3>3
          <5>. QED
            BY <5>1, <5>2
        <4>. QED
          BY <4>1, <4>2
      <3>6. Good(n)
        BY <3>2, <3>4, <3>5
      <3>. QED
        BY <3>6, <1>3
    <2>. QED
      BY <2>5, <2>6
  <1>. QED
    BY <1>4, <1>5

-----------------------------------------------------------------------------
(* Lists of nodes *)

\* A set of natural numbers contains its least element.
LEMMA Lowest ==
  ASSUME NEW S, S \subseteq Nat, S # {}
  PROVE  Min(S) \in S
  BY LeastOf DEF Min

\* The entries of a list have a node and an index.
LEMMA EntryIs ==
  ASSUME NEW list \in Seq(Entries)
  PROVE  /\ Len(list) \in Nat /\ DOMAIN list = 1..Len(list)
         /\ \A k \in 1..Len(list) : list[k].node \in Nodes /\ list[k].index \in Nat
  <1>1. \A k \in 1..Len(list) : list[k] \in Entries
    BY ElementOfSeq
  <1>2. \A e \in Entries : e.node \in Nodes /\ e.index \in Nat
    BY DEF Entries
  <1>. QED
    BY <1>1, <1>2, LenProperties

\* A list has a highest index.
LEMMA HighestIndex ==
  ASSUME NEW list \in Seq(Entries), list # <<>>
  PROVE  Max({list[k].index : k \in DOMAIN list}) \in Nat
  <1> DEFINE Above(n) == {b \in Nat : \A k \in 1..n : list[k].index <= b}
             Bad == {n \in 0..Len(list) : Above(n) = {}}
             top == {list[k].index : k \in DOMAIN list}
  <1>0. /\ Len(list) \in Nat /\ Len(list) # 0 /\ DOMAIN list = 1..Len(list)
        /\ \A k \in 1..Len(list) : list[k].index \in Nat
    BY EntryIs, EmptySeq
  <1>1. Bad = {}
    <2>1. SUFFICES ASSUME Bad # {}
                   PROVE  FALSE
      OBVIOUS
    <2>2. PICK n \in Bad : \A m \in Bad : n <= m
      <3>1. Bad \subseteq Nat
        BY <1>0
      <3>. HIDE DEF Bad
      <3>. QED
        BY <3>1, <2>1, LeastOf
    <2>3. n # 0
      <3>1. 0 \in Above(0)
        OBVIOUS
      <3>. QED
        BY <2>2, <3>1
    <2>4. n \in 1..Len(list) /\ n - 1 \in 0..Len(list) /\ n - 1 \notin Bad
      <3>1. n \in 0..Len(list)
        BY <2>2
      <3>2. n \in 1..Len(list) /\ n - 1 \in 0..Len(list) /\ ~(n <= n - 1)
        BY <1>0, <2>3, <3>1
      <3>. HIDE DEF Bad
      <3>. QED
        BY <2>2, <3>2
    <2>5. PICK b \in Nat : \A k \in 1..n - 1 : list[k].index <= b
      BY <2>4
    <2>6. PICK c \in Nat : b <= c /\ list[n].index <= c
      <3>1. list[n].index \in Nat
        BY <1>0, <2>4
      <3>2. CASE b <= list[n].index
        BY <3>1, <3>2
      <3>3. CASE list[n].index <= b
        BY <3>1, <3>3
      <3>. QED
        BY <3>1, <3>2, <3>3
    <2>7. \A k \in 1..n : list[k].index <= c
      <3>1. ASSUME NEW k \in 1..n
            PROVE  list[k].index <= c
        <4>1. k \in 1..n - 1 \/ k = n
          BY <2>4, <1>0
        <4>2. list[k].index \in Nat
          BY <1>0, <2>4
        <4>. QED
          BY <4>1, <4>2, <2>5, <2>6
      <3>. QED
        BY <3>1
    <2>8. c \in Above(n)
      BY <2>7
    <2>. QED
      BY <2>2, <2>8
  <1>2. Above(Len(list)) # {}
    <2>. HIDE DEF Above
    <2>. QED
      BY <1>0, <1>1
  <1>3. PICK b \in Above(Len(list)) : \A c \in Above(Len(list)) : b <= c
    <2>1. Above(Len(list)) \subseteq Nat
      OBVIOUS
    <2>. HIDE DEF Above
    <2>. QED
      BY <2>1, <1>2, LeastOf
  <1>4. b \in Nat /\ \A k \in 1..Len(list) : list[k].index <= b
    BY <1>3
  <1>5. \E k \in 1..Len(list) : list[k].index = b
    <2>1. SUFFICES ASSUME \A k \in 1..Len(list) : list[k].index # b
                   PROVE  FALSE
      OBVIOUS
    <2>2. \A k \in 1..Len(list) : list[k].index <= b - 1
      BY <1>0, <1>4, <2>1
    <2>3. b - 1 \in Nat
      BY <1>0, <1>4, <2>2
    <2>4. b - 1 \in Above(Len(list))
      BY <2>2, <2>3
    <2>. QED
      BY <1>3, <1>4, <2>4
  <1>6. b \in top /\ \A x \in top : b >= x
    BY <1>0, <1>4, <1>5
  <1>. QED
    BY <1>4, <1>6, <1>0 DEF Max

\* A node on the list has an index there.
LEMMA IndexFound ==
  ASSUME NEW n, NEW m,
         desc[n].list \in Seq(Entries), Listed(n, m)
  PROVE  IndexOf(n, m) \in Nat
  <1> DEFINE list == desc[n].list
             found == {i \in 1..Len(list) : list[i].node = m}
  <1>1. /\ Len(list) \in Nat /\ DOMAIN list = 1..Len(list)
        /\ \A k \in 1..Len(list) : list[k].index \in Nat
    BY EntryIs
  <1>2. found \subseteq Nat /\ found # {}
    BY <1>1 DEF Listed, Members
  <1>3. Min(found) \in found
    <2>. HIDE DEF found
    <2>. QED
      BY <1>2, Lowest
  <1>4. IndexOf(n, m) = list[Min(found)].index
    BY <1>2 DEF IndexOf, SelectInSeq
  <1>. QED
    BY <1>1, <1>3, <1>4

\* NodeAt finds a node of the list, or none.
LEMMA NodeFound ==
  ASSUME NEW n, NEW i,
         desc[n].list \in Seq(Entries)
  PROVE  NodeAt(n, i) \in Nodes \cup {None}
  <1> DEFINE list == desc[n].list
             found == {k \in 1..Len(list) : list[k].index = i}
             k == SelectInSeq(list, LAMBDA e : e.index = i)
  <1>1. /\ Len(list) \in Nat
        /\ \A j \in 1..Len(list) : list[j].node \in Nodes
    BY EntryIs
  <1>2. k = IF found # {} THEN Min(found) ELSE 0
    BY DEF SelectInSeq
  <1>3. k = 0 \/ k \in 1..Len(list)
    <2>1. CASE found # {}
      <3>1. found \subseteq Nat
        BY <1>1
      <3>2. Min(found) \in found
        <4>. HIDE DEF found
        <4>. QED
          BY <2>1, <3>1, Lowest
      <3>. QED
        BY <1>2, <2>1, <3>2
    <2>2. CASE found = {}
      BY <1>2, <2>2
    <2>. QED
      BY <2>1, <2>2
  <1>4. NodeAt(n, i) = IF k = 0 THEN None ELSE list[k].node
    BY DEF NodeAt
  <1>. HIDE DEF k
  <1>. QED
    BY <1>1, <1>3, <1>4

\* The nodes of a part of a list.
LEMMA SelectedMembers ==
  ASSUME NEW list \in Seq(Entries), NEW K
  PROVE  /\ Selected(list, K) \in Seq(Entries)
         /\ \A x : x \in Members(Selected(list, K))
                     <=> \E k \in DOMAIN list : k \in K /\ list[k].node = x
  <1> DEFINE chosen == Selected(list, K)
  <1>1. /\ chosen \in Seq(Entries)
        /\ \A i \in DOMAIN chosen : \E k \in DOMAIN list : k \in K /\ list[k] = chosen[i]
        /\ \A k \in DOMAIN list : k \in K => \E i \in DOMAIN chosen : chosen[i] = list[k]
    BY SelectedKeeps
  <1>. HIDE DEF chosen
  <1>2. ASSUME NEW x
        PROVE  x \in Members(chosen) <=> \E k \in DOMAIN list : k \in K /\ list[k].node = x
    BY <1>1 DEF Members
  <1>. USE DEF chosen
  <1>. QED
    BY <1>1, <1>2

\* After UpdateNetNodesWithNet the list has the nodes it was given.
LEMMA MergedMembers ==
  ASSUME NEW old \in Seq(Entries),
         NEW with \in Seq(Entries)
  PROVE  /\ Merge(old, with) \in Seq(Entries)
         /\ Members(Merge(old, with)) = Members(with)
  <1> DEFINE kept  == {k \in DOMAIN old : old[k].node \in Members(with)}
             fresh == {k \in DOMAIN with : /\ with[k].node \notin Members(old)
                                           /\ \A j \in 1..k - 1 : with[j].node # with[k].node}
             a == Selected(old, kept)
             b == Selected(with, fresh)
             both == a \o b
  <1>1. Merge(old, with) = both
    BY DEF Merge
  <1>2. a \in Seq(Entries) /\ b \in Seq(Entries)
    BY SelectedMembers
  <1>3. \A x : x \in Members(a) <=> \E k \in DOMAIN old : k \in kept /\ old[k].node = x
    <2>. HIDE DEF kept
    <2>. QED
      BY SelectedMembers
  <1>4. \A x : x \in Members(b) <=> \E k \in DOMAIN with : k \in fresh /\ with[k].node = x
    <2>. HIDE DEF fresh
    <2>. QED
      BY SelectedMembers
  <1>5. /\ DOMAIN with = 1..Len(with) /\ Len(with) \in Nat
    BY LenProperties
  <1>6. ASSUME NEW x, x \in Members(with), x \notin Members(old)
        PROVE  \E k \in DOMAIN with : k \in fresh /\ with[k].node = x
    <2> DEFINE places == {k \in 1..Len(with) : with[k].node = x}
    <2>1. places \subseteq Nat /\ places # {}
      BY <1>5, <1>6 DEF Members
    <2>2. PICK k \in places : \A j \in places : k <= j
      <3>. HIDE DEF places
      <3>. QED
        BY <2>1, LeastOf
    <2>3. \A j \in 1..k - 1 : with[j].node # x
      BY <1>5, <2>2
    <2>. QED
      BY <1>5, <1>6, <2>2, <2>3
  <1>7. \A x : x \in Members(both) <=> x \in Members(a) \/ x \in Members(b)
    <2>. HIDE DEF a, b
    <2>1. /\ both \in Seq(Entries)
          /\ Len(both) = Len(a) + Len(b)
          /\ \A i \in 1..Len(a) + Len(b) : both[i] = IF i <= Len(a) THEN a[i] ELSE b[i - Len(a)]
      BY <1>2, ConcatProperties
    <2>2. /\ DOMAIN a = 1..Len(a) /\ Len(a) \in Nat /\ DOMAIN b = 1..Len(b) /\ Len(b) \in Nat
          /\ DOMAIN both = 1..Len(a) + Len(b)
      BY <1>2, <2>1, LenProperties
    <2>. HIDE DEF both
    <2>3. ASSUME NEW x, x \in Members(a)
          PROVE  x \in Members(both)
      <3>1. PICK i \in 1..Len(a) : a[i].node = x
        BY <2>2, <2>3 DEF Members
      <3>2. i \in 1..Len(a) + Len(b) /\ both[i] = a[i]
        BY <2>1, <2>2, <3>1
      <3>. QED
        BY <2>2, <3>1, <3>2 DEF Members
    <2>4. ASSUME NEW x, x \in Members(b)
          PROVE  x \in Members(both)
      <3>1. PICK i \in 1..Len(b) : b[i].node = x
        BY <2>2, <2>4 DEF Members
      <3> DEFINE p == Len(a)
                 q == Len(b)
      <3>2. /\ i + p \in 1..p + q /\ ~(i + p <= p) /\ (i + p) - p = i
        <4>1. p \in Nat /\ q \in Nat /\ i \in 1..q
          BY <2>2
        <4>. HIDE DEF p, q
        <4>. QED
          BY <4>1
      <3>3. both[i + p] = b[i]
        BY <2>1, <3>2
      <3>. QED
        BY <2>2, <3>1, <3>2, <3>3 DEF Members
    <2>5. ASSUME NEW x, x \in Members(both)
          PROVE  x \in Members(a) \/ x \in Members(b)
      <3>1. PICK i \in 1..Len(a) + Len(b) : both[i].node = x
        BY <2>2, <2>5 DEF Members
      <3> DEFINE p == Len(a)
                 q == Len(b)
      <3>2. (i \in 1..p /\ i <= p) \/ (i - p \in 1..q /\ ~(i <= p))
        <4>1. p \in Nat /\ q \in Nat /\ i \in 1..p + q
          BY <2>2
        <4>. HIDE DEF p, q
        <4>. QED
          BY <4>1
      <3>3. both[i] = IF i <= p THEN a[i] ELSE b[i - p]
        BY <2>1
      <3>. QED
        BY <2>2, <3>1, <3>2, <3>3 DEF Members
    <2>. QED
      BY <2>3, <2>4, <2>5
  <1>8. \A x : x \in Members(both) <=> x \in Members(with)
    <2>1. ASSUME NEW x
          PROVE  x \in Members(a) <=> x \in Members(with) /\ x \in Members(old)
      BY <1>3 DEF Members
    <2>2. ASSUME NEW x
          PROVE  x \in Members(b) <=> x \in Members(with) /\ x \notin Members(old)
      <3>1. ASSUME x \in Members(b)
            PROVE  x \in Members(with) /\ x \notin Members(old)
        <4>1. PICK k \in DOMAIN with : k \in fresh /\ with[k].node = x
          BY <1>4, <3>1
        <4>2. with[k].node \notin Members(old)
          BY <4>1
        <4>. QED
          BY <4>1, <4>2 DEF Members
      <3>2. ASSUME x \in Members(with), x \notin Members(old)
            PROVE  x \in Members(b)
        <4>1. \E k \in DOMAIN with : k \in fresh /\ with[k].node = x
          BY <1>6, <3>2
        <4>. HIDE DEF fresh, b
        <4>. QED
          BY <1>4, <4>1
      <3>. HIDE DEF fresh, b
      <3>. QED
        BY <3>1, <3>2
    <2>. HIDE DEF a, b, both
    <2>. QED
      BY <1>7, <2>1, <2>2
  <1>9. both \in Seq(Entries)
    <2>. HIDE DEF a, b
    <2>. QED
      BY <1>2, ConcatProperties
  <1>. HIDE DEF both
  <1>. QED
    BY <1>1, <1>8, <1>9

-----------------------------------------------------------------------------
(* Sessions: the effect of what a thread does with them *)

\* All the sessions there may be, each with fields for its two ends.
AllSessions == UNION {UNION {SessionsOf(n, m) : m \in Nodes \ {n}} : n \in Nodes}

\* The ends of the sessions are those of sess.
Alike(G) ==
  /\ DOMAIN G = DOMAIN sess
  /\ \A t \in DOMAIN sess : G[t].from = sess[t].from /\ G[t].to = sess[t].to

\* What a thread has in hand and what it has still to read.
LEMMA SessionIs ==
  ASSUME NEW x \in AllSessions
  PROVE  /\ x.from \in Nodes /\ x.to \in Nodes /\ x.from # x.to
         /\ x.pc \in [{x.from, x.to} -> Labels]
         /\ x.addr \in [{x.from, x.to} -> Nat]
         /\ x.work \in [{x.from, x.to} -> Descriptions]
         /\ x.box \in [{x.from, x.to} -> Seq(Messages)]
         /\ x = [from |-> x.from, to |-> x.to, pc |-> x.pc, addr |-> x.addr,
                 work |-> x.work, box |-> x.box]
  <1>1. PICK n \in Nodes : \E m \in Nodes \ {n} : x \in SessionsOf(n, m)
    BY DEF AllSessions
  <1>. QED
    BY <1>1 DEF SessionsOf

\* A record of fields of the right types is a session.
LEMMA SessionMade ==
  ASSUME NEW n \in Nodes, NEW m \in Nodes, n # m,
         NEW p \in [{n, m} -> Labels], NEW a \in [{n, m} -> Nat],
         NEW w \in [{n, m} -> Descriptions], NEW b \in [{n, m} -> Seq(Messages)]
  PROVE  [from |-> n, to |-> m, pc |-> p, addr |-> a, work |-> w, box |-> b] \in AllSessions
  <1>1. [from |-> n, to |-> m, pc |-> p, addr |-> a, work |-> w, box |-> b] \in SessionsOf(n, m)
    BY DEF SessionsOf
  <1>. QED
    BY <1>1 DEF AllSessions

\* A function like a sequence is a sequence of the same length.
LEMMA SameLength ==
  ASSUME NEW S, NEW F \in Seq(S), NEW G, DOMAIN G = DOMAIN F,
         G = [t \in DOMAIN G |-> G[t]], \A t \in DOMAIN F : G[t] \in S
  PROVE  G \in Seq(S)
  <1>1. Len(F) \in Nat /\ DOMAIN F = 1..Len(F)
    BY LenProperties
  <1>2. G \in [1..Len(F) -> S]
    BY <1>1
  <1>. QED
    BY <1>1, <1>2, SeqDef

\* What a session of sess holds, by its ends.
LEMMA FieldsTyped ==
  ASSUME sess \in Seq(AllSessions), NEW t \in DOMAIN sess
  PROVE  /\ sess[t] \in AllSessions /\ Ends(t) \subseteq Nodes
         /\ sess[t].from \in Nodes /\ sess[t].to \in Nodes /\ sess[t].from # sess[t].to
         /\ \A n \in Ends(t) : /\ sess[t].pc[n] \in Labels /\ sess[t].addr[n] \in Nat
                               /\ sess[t].work[n] \in Descriptions
                               /\ sess[t].box[n] \in Seq(Messages)
                               /\ Peer(t, n) \in Ends(t) /\ Peer(t, n) # n
                               /\ Peer(t, Peer(t, n)) = n /\ Ends(t) = {n, Peer(t, n)}
  <1>1. sess[t] \in AllSessions
    BY ElementOfSeq, LenProperties
  <1>2. /\ sess[t].from \in Nodes /\ sess[t].to \in Nodes /\ sess[t].from # sess[t].to
        /\ sess[t].pc \in [Ends(t) -> Labels]
        /\ sess[t].addr \in [Ends(t) -> Nat]
        /\ sess[t].work \in [Ends(t) -> Descriptions]
        /\ sess[t].box \in [Ends(t) -> Seq(Messages)]
    BY <1>1, SessionIs DEF Ends
  <1>3. \A n \in Ends(t) : /\ Peer(t, n) \in Ends(t) /\ Peer(t, n) # n
                           /\ Peer(t, Peer(t, n)) = n /\ Ends(t) = {n, Peer(t, n)}
    BY <1>2 DEF Ends, Peer
  <1>4. Ends(t) \subseteq Nodes
    BY <1>2 DEF Ends
  <1>. QED
    BY <1>1, <1>2, <1>3, <1>4

\* Turn changes the label and the work of one thread.
LEMMA TurnEffect ==
  ASSUME sess \in Seq(AllSessions), NEW s \in DOMAIN sess, NEW n \in Ends(s),
         NEW label \in Labels, NEW w \in Descriptions, NEW G, G = Turn(s, n, label, w)
  PROVE  /\ G \in Seq(AllSessions) /\ Alike(G)
         /\ \A t \in DOMAIN sess : \A e \in Ends(t) :
              /\ G[t].pc[e] = IF t = s /\ e = n THEN label ELSE sess[t].pc[e]
              /\ G[t].work[e] = IF t = s /\ e = n THEN w ELSE sess[t].work[e]
              /\ G[t].box[e] = sess[t].box[e]
  <1> DEFINE x == sess[s]
             y == [from |-> x.from, to |-> x.to, pc |-> [x.pc EXCEPT ![n] = label],
                   addr |-> x.addr, work |-> [x.work EXCEPT ![n] = w], box |-> x.box]
  <1>1. /\ x \in AllSessions /\ n \in {x.from, x.to}
        /\ x.from \in Nodes /\ x.to \in Nodes /\ x.from # x.to
        /\ x.pc \in [{x.from, x.to} -> Labels]
        /\ x.addr \in [{x.from, x.to} -> Nat]
        /\ x.work \in [{x.from, x.to} -> Descriptions]
        /\ x.box \in [{x.from, x.to} -> Seq(Messages)]
        /\ x = [from |-> x.from, to |-> x.to, pc |-> x.pc, addr |-> x.addr,
                 work |-> x.work, box |-> x.box]
    BY FieldsTyped, SessionIs DEF Ends
  <1>2. /\ G = [t \in DOMAIN G |-> G[t]] /\ DOMAIN G = DOMAIN sess
        /\ \A t \in DOMAIN sess : G[t] = IF t = s THEN y ELSE sess[t]
    <2>1. G = [t \in DOMAIN G |-> G[t]] /\ DOMAIN G = DOMAIN sess
      BY DEF Turn
    <2>2. \A t \in DOMAIN sess : t # s => G[t] = sess[t]
      BY DEF Turn
    <2>3. G[s] = [[x EXCEPT !.pc[n] = label] EXCEPT !.work[n] = w]
      BY DEF Turn
    <2>4. G[s] = y
      BY <1>1, <2>3
    <2>. QED
      BY <2>1, <2>2, <2>4
  <1>3. y \in AllSessions
    <2>1. /\ [x.pc EXCEPT ![n] = label] \in [{x.from, x.to} -> Labels]
          /\ [x.work EXCEPT ![n] = w] \in [{x.from, x.to} -> Descriptions]
      BY <1>1
    <2>. QED
      BY <1>1, <2>1, SessionMade
  <1>4. /\ y.from = x.from /\ y.to = x.to /\ y.box = x.box
        /\ \A e \in Ends(s) : /\ y.pc[e] = IF e = n THEN label ELSE x.pc[e]
                              /\ y.work[e] = IF e = n THEN w ELSE x.work[e]
    BY <1>1 DEF Ends
  <1>. HIDE DEF y
  <1>5. \A t \in DOMAIN sess : G[t] \in AllSessions
    BY <1>2, <1>3, FieldsTyped
  <1>6. G \in Seq(AllSessions)
    BY <1>2, <1>5, SameLength
  <1>7. Alike(G)
    BY <1>4, <1>2 DEF Alike
  <1>. QED
    BY <1>4, <1>2, <1>6, <1>7

\* Sent appends one message to what the peers of n have still to read.
LEMMA SentEffect ==
  ASSUME sess \in Seq(AllSessions), NEW F \in Seq(AllSessions), Alike(F),
         NEW n \in Nodes, NEW S, NEW m \in Messages, NEW G, G = Sent(n, S, m, F)
  PROVE  /\ G \in Seq(AllSessions) /\ Alike(G)
         /\ \A t \in DOMAIN sess : \A e \in Ends(t) :
              /\ G[t].pc[e] = F[t].pc[e]
              /\ G[t].work[e] = F[t].work[e]
              /\ G[t].box[e] = IF t \in S /\ e = Peer(t, n) THEN Append(F[t].box[e], m)
                                                           ELSE F[t].box[e]
  <1> DEFINE y(t) == [from |-> F[t].from, to |-> F[t].to, pc |-> F[t].pc,
                      addr |-> F[t].addr, work |-> F[t].work,
                      box |-> [F[t].box EXCEPT ![Peer(t, n)] = Append(@, m)]]
  <1>1. DOMAIN F = DOMAIN sess /\ DOMAIN G = DOMAIN sess /\ G = [t \in DOMAIN G |-> G[t]]
    BY DEF Alike, Sent
  <1>2. ASSUME NEW t \in DOMAIN sess
        PROVE  /\ F[t] \in AllSessions /\ F[t].from = sess[t].from /\ F[t].to = sess[t].to
               /\ F[t].from \in Nodes /\ F[t].to \in Nodes /\ F[t].from # F[t].to
               /\ F[t].pc \in [{F[t].from, F[t].to} -> Labels]
               /\ F[t].addr \in [{F[t].from, F[t].to} -> Nat]
               /\ F[t].work \in [{F[t].from, F[t].to} -> Descriptions]
               /\ F[t].box \in [{F[t].from, F[t].to} -> Seq(Messages)]
               /\ F[t] = [from |-> F[t].from, to |-> F[t].to, pc |-> F[t].pc,
                          addr |-> F[t].addr, work |-> F[t].work, box |-> F[t].box]
    <2>1. F[t] \in AllSessions
      BY <1>1, ElementOfSeq, LenProperties
    <2>. QED
      BY <2>1, SessionIs DEF Alike
  <1>3. ASSUME NEW t \in DOMAIN sess, t \in S
        PROVE  /\ G[t] = y(t) /\ y(t) \in AllSessions
               /\ \A e \in Ends(t) : y(t).box[e] = IF e = Peer(t, n) THEN Append(F[t].box[e], m)
                                                                  ELSE F[t].box[e]
    <2>1. G[t] = [F[t] EXCEPT !.box[Peer(t, n)] = Append(@, m)]
      BY <1>1, <1>3 DEF Sent
    <2>2. Peer(t, n) \in {F[t].from, F[t].to} /\ {F[t].from, F[t].to} = Ends(t)
      BY <1>2 DEF Peer, Ends
    <2>3. Append(F[t].box[Peer(t, n)], m) \in Seq(Messages)
      BY <1>2, <2>2, AppendProperties, ZenonT(30)
    <2>4. [F[t].box EXCEPT ![Peer(t, n)] = Append(@, m)] \in [{F[t].from, F[t].to} -> Seq(Messages)]
      BY <1>2, <2>3
    <2>5. y(t) \in AllSessions
      BY <1>2, <2>4, SessionMade
    <2>6. G[t] = y(t)
      BY <1>2, <2>1
    <2>7. \A e \in Ends(t) : y(t).box[e] = IF e = Peer(t, n) THEN Append(F[t].box[e], m)
                                                                  ELSE F[t].box[e]
      BY <1>2, <2>2
    <2>. QED
      BY <2>5, <2>6, <2>7
  <1>4. \A t \in DOMAIN sess : t \notin S => G[t] = F[t]
    BY <1>1 DEF Sent
  <1>5. \A t \in DOMAIN sess : /\ y(t).from = F[t].from /\ y(t).to = F[t].to
                               /\ y(t).pc = F[t].pc /\ y(t).work = F[t].work
    OBVIOUS
  <1>. HIDE DEF y
  <1>6. ASSUME NEW t \in DOMAIN sess
        PROVE  G[t] \in AllSessions /\ G[t].from = sess[t].from /\ G[t].to = sess[t].to
    <2>1. CASE t \in S
      <3>1. G[t] = y(t) /\ y(t) \in AllSessions
        BY <1>3, <2>1
      <3>2. y(t).from = sess[t].from /\ y(t).to = sess[t].to
        BY <1>2, <1>5
      <3>. QED
        BY <3>1, <3>2
    <2>2. CASE t \notin S
      <3>1. G[t] = F[t]
        BY <1>4, <2>2
      <3>. QED
        BY <1>2, <3>1
    <2>. QED
      BY <2>1, <2>2
  <1>7. G \in Seq(AllSessions)
    BY <1>1, <1>6, SameLength
  <1>8. Alike(G)
    BY <1>1, <1>6 DEF Alike
  <1>. QED
    BY <1>3, <1>4, <1>5, <1>7, <1>8

\* A session with the ends of one of sess.
LEMMA SessionRemade ==
  ASSUME sess \in Seq(AllSessions), NEW s \in DOMAIN sess,
         NEW p \in [Ends(s) -> Labels], NEW a \in [Ends(s) -> Nat],
         NEW w \in [Ends(s) -> Descriptions], NEW b \in [Ends(s) -> Seq(Messages)]
  PROVE  [from |-> sess[s].from, to |-> sess[s].to, pc |-> p, addr |-> a, work |-> w, box |-> b]
           \in AllSessions
  <1> DEFINE n == sess[s].from
             m == sess[s].to
  <1>1. n \in Nodes /\ m \in Nodes /\ n # m
    BY FieldsTyped
  <1>2. Ends(s) = {n, m}
    BY DEF Ends
  <1>3. /\ p \in [{n, m} -> Labels] /\ a \in [{n, m} -> Nat]
        /\ w \in [{n, m} -> Descriptions] /\ b \in [{n, m} -> Seq(Messages)]
    BY <1>2
  <1>. HIDE DEF n, m
  <1>4. [from |-> n, to |-> m, pc |-> p, addr |-> a, work |-> w, box |-> b] \in AllSessions
    BY <1>1, <1>3, SessionMade
  <1>. QED
    BY <1>4 DEF n, m

\* A table of sessions in which each one has kept its type.
LEMMA SessionsTyped ==
  ASSUME sess \in Seq(AllSessions), NEW G, Alike(G),
         G = [t \in DOMAIN G |-> G[t]], \A t \in DOMAIN sess : G[t] \in AllSessions
  PROVE  G \in Seq(AllSessions)
  BY SameLength DEF Alike

\* The parts of a session, as functions of its ends.
LEMMA SessionParts ==
  ASSUME sess \in Seq(AllSessions), NEW F \in Seq(AllSessions), Alike(F), NEW s \in DOMAIN sess
  PROVE  /\ F[s].pc \in [Ends(s) -> Labels] /\ F[s].addr \in [Ends(s) -> Nat]
         /\ F[s].work \in [Ends(s) -> Descriptions] /\ F[s].box \in [Ends(s) -> Seq(Messages)]
         /\ F[s] = [from |-> F[s].from, to |-> F[s].to, pc |-> F[s].pc, addr |-> F[s].addr,
                    work |-> F[s].work, box |-> F[s].box]
  <1>1. F[s] \in AllSessions
    BY ElementOfSeq, LenProperties DEF Alike
  <1>2. {F[s].from, F[s].to} = Ends(s)
    BY DEF Alike, Ends
  <1>. QED
    BY <1>1, <1>2, SessionIs

\* The sessions are those they are.
LEMMA SelfAlike == Alike(sess)
  BY DEF Alike

\* Receive takes the first message out of the box.
Taken(s, n, F) == [F EXCEPT ![s].box[n] = Tail(@)]

\* The effect of reading a message on the fields of all sessions.
LEMMA TakenEffect ==
  ASSUME sess \in Seq(AllSessions), NEW s \in DOMAIN sess, NEW n \in Ends(s),
         NEW label \in Labels, NEW w \in Descriptions, sess[s].box[n] # <<>>,
         NEW G, G = Taken(s, n, Turn(s, n, label, w))
  PROVE  /\ G \in Seq(AllSessions) /\ Alike(G)
         /\ \A t \in DOMAIN sess : \A e \in Ends(t) :
              /\ G[t].pc[e] = IF t = s /\ e = n THEN label ELSE sess[t].pc[e]
              /\ G[t].work[e] = IF t = s /\ e = n THEN w ELSE sess[t].work[e]
              /\ G[t].box[e] = IF t = s /\ e = n THEN Tail(sess[t].box[e]) ELSE sess[t].box[e]
  <1> DEFINE F == Turn(s, n, label, w)
  <1>1. /\ F \in Seq(AllSessions) /\ Alike(F)
        /\ \A t \in DOMAIN sess : \A e \in Ends(t) :
              /\ F[t].pc[e] = IF t = s /\ e = n THEN label ELSE sess[t].pc[e]
              /\ F[t].work[e] = IF t = s /\ e = n THEN w ELSE sess[t].work[e]
              /\ F[t].box[e] = sess[t].box[e]
    BY TurnEffect
  <1>. HIDE DEF F
  <1> DEFINE b == [F[s].box EXCEPT ![n] = Tail(@)]
  <1>2. /\ F[s].pc \in [Ends(s) -> Labels] /\ F[s].addr \in [Ends(s) -> Nat]
        /\ F[s].work \in [Ends(s) -> Descriptions] /\ F[s].box \in [Ends(s) -> Seq(Messages)]
        /\ F[s] = [from |-> F[s].from, to |-> F[s].to, pc |-> F[s].pc, addr |-> F[s].addr,
                    work |-> F[s].work, box |-> F[s].box]
    BY <1>1, SessionParts
  <1>3. F[s].box[n] = sess[s].box[n] /\ DOMAIN F = DOMAIN sess
    BY <1>1 DEF Alike
  <1>4. Tail(F[s].box[n]) \in Seq(Messages)
    BY <1>2, <1>3, HeadTailProperties
  <1>5. b \in [Ends(s) -> Seq(Messages)]
    BY <1>2, <1>4
  <1>6. G = [F EXCEPT ![s].box[n] = Tail(@)]
    BY DEF F, Taken
  <1>7. /\ G = [t \in DOMAIN G |-> G[t]] /\ DOMAIN G = DOMAIN F
        /\ \A t \in DOMAIN F : t # s => G[t] = F[t]
    BY <1>6
  <1>8. G[s] = [F[s] EXCEPT !.box = b]
    BY <1>6, <1>3
  <1>9. G[s] = [from |-> F[s].from, to |-> F[s].to, pc |-> F[s].pc, addr |-> F[s].addr,
                work |-> F[s].work, box |-> b]
    <2>. HIDE DEF b
    <2>. QED
      BY <1>2, <1>8
  <1>10. \A e \in Ends(s) : b[e] = IF e = n THEN Tail(sess[s].box[e]) ELSE sess[s].box[e]
    BY <1>1, <1>2
  <1>. HIDE DEF b
  <1>11. /\ G[s].from = F[s].from /\ G[s].to = F[s].to
         /\ G[s].pc = F[s].pc /\ G[s].work = F[s].work /\ G[s].box = b
    BY <1>9
  <1>12. Alike(G)
    BY <1>1, <1>7, <1>11 DEF Alike
  <1>13. G[s] \in AllSessions
    <2>1. F[s].from = sess[s].from /\ F[s].to = sess[s].to
      BY <1>1 DEF Alike
    <2>2. [from |-> sess[s].from, to |-> sess[s].to, pc |-> F[s].pc, addr |-> F[s].addr,
           work |-> F[s].work, box |-> b] \in AllSessions
      BY <1>2, <1>5, SessionRemade
    <2>. QED
      BY <1>9, <2>1, <2>2
  <1>14. \A t \in DOMAIN sess : G[t] \in AllSessions
    <2>1. \A t \in DOMAIN sess : F[t] \in AllSessions
      BY <1>1, <1>3, ElementOfSeq, LenProperties
    <2>. QED
      BY <1>3, <1>7, <1>13, <2>1
  <1>15. G \in Seq(AllSessions)
    BY <1>7, <1>12, <1>14, SessionsTyped
  <1>16. ASSUME NEW t \in DOMAIN sess, NEW e \in Ends(t)
         PROVE  /\ G[t].pc[e] = IF t = s /\ e = n THEN label ELSE sess[t].pc[e]
                /\ G[t].work[e] = IF t = s /\ e = n THEN w ELSE sess[t].work[e]
                /\ G[t].box[e] = IF t = s /\ e = n THEN Tail(sess[t].box[e]) ELSE sess[t].box[e]
    <2>1. CASE t = s
      <3>1. e \in Ends(s)
        BY <2>1
      <3>2. /\ G[s].pc[e] = F[s].pc[e] /\ G[s].work[e] = F[s].work[e]
            /\ G[s].box[e] = IF e = n THEN Tail(sess[s].box[e]) ELSE sess[s].box[e]
        BY <1>10, <1>11, <3>1
      <3>3. /\ F[s].pc[e] = IF e = n THEN label ELSE sess[s].pc[e]
            /\ F[s].work[e] = IF e = n THEN w ELSE sess[s].work[e]
        BY <1>1, <3>1
      <3>. QED
        BY <2>1, <3>2, <3>3
    <2>2. CASE t # s
      BY <1>1, <1>3, <1>7, <2>2
    <2>. QED
      BY <2>1, <2>2
  <1>. QED
    BY <1>12, <1>15, <1>16

\* Close closes the threads of one node.
Closed(n) ==
  [s \in DOMAIN sess |->
     IF n \in Ends(s) THEN [sess[s] EXCEPT !.pc[n] = "closed"] ELSE sess[s]]

\* The effect of closing all connections of a node.
LEMMA CloseEffect ==
  ASSUME sess \in Seq(AllSessions), NEW n, NEW G, G = Closed(n)
  PROVE  /\ G \in Seq(AllSessions) /\ Alike(G)
         /\ \A t \in DOMAIN sess : \A e \in Ends(t) :
              /\ G[t].pc[e] = IF e = n THEN "closed" ELSE sess[t].pc[e]
              /\ G[t].work[e] = sess[t].work[e]
              /\ G[t].box[e] = sess[t].box[e]
  <1>1. ASSUME NEW t \in DOMAIN sess
        PROVE  /\ G[t] \in AllSessions /\ G[t].from = sess[t].from /\ G[t].to = sess[t].to
               /\ \A e \in Ends(t) : /\ G[t].pc[e] = IF e = n THEN "closed" ELSE sess[t].pc[e]
                                     /\ G[t].work[e] = sess[t].work[e]
                                     /\ G[t].box[e] = sess[t].box[e]
    <2> DEFINE x == sess[t]
               p == [x.pc EXCEPT ![n] = "closed"]
    <2>1. /\ x \in AllSessions /\ x.from \in Nodes /\ x.to \in Nodes /\ x.from # x.to
          /\ Ends(t) = {x.from, x.to}
      BY FieldsTyped DEF Ends
    <2>2. /\ x.pc \in [Ends(t) -> Labels] /\ x.addr \in [Ends(t) -> Nat]
          /\ x.work \in [Ends(t) -> Descriptions] /\ x.box \in [Ends(t) -> Seq(Messages)]
          /\ x = [from |-> x.from, to |-> x.to, pc |-> x.pc, addr |-> x.addr,
                    work |-> x.work, box |-> x.box]
      BY SessionParts, SelfAlike
    <2>3. CASE n \in Ends(t)
      <3>1. G[t] = [x EXCEPT !.pc = p]
        BY <2>3 DEF Closed
      <3>2. p \in [Ends(t) -> Labels] /\ \A e \in Ends(t) : p[e] = IF e = n THEN "closed"
            ELSE x.pc[e]
        BY <2>2, <2>3 DEF Labels
      <3>. HIDE DEF p
      <3>3. G[t] = [from |-> x.from, to |-> x.to, pc |-> p, addr |-> x.addr,
                    work |-> x.work, box |-> x.box]
        BY <2>2, <3>1
      <3>4. G[t] \in AllSessions
        <4>1. [from |-> sess[t].from, to |-> sess[t].to, pc |-> p, addr |-> x.addr,
               work |-> x.work, box |-> x.box] \in AllSessions
          <5> DEFINE a == x.addr
                     w == x.work
                     b == x.box
          <5>1. /\ a \in [Ends(t) -> Nat] /\ w \in [Ends(t) -> Descriptions]
                /\ b \in [Ends(t) -> Seq(Messages)]
            BY <2>2
          <5>. HIDE DEF a, w, b
          <5>2. [from |-> sess[t].from, to |-> sess[t].to, pc |-> p, addr |-> a,
                 work |-> w, box |-> b] \in AllSessions
            BY <3>2, <5>1, SessionRemade
          <5>. QED
            BY <5>2 DEF a, w, b
        <4>. QED
          BY <3>3, <4>1
      <3>. QED
        BY <3>2, <3>3, <3>4
    <2>4. CASE n \notin Ends(t)
      BY <2>1, <2>4 DEF Closed
    <2>. QED
      BY <2>3, <2>4
  <1>2. G = [t \in DOMAIN G |-> G[t]] /\ DOMAIN G = DOMAIN sess
    BY DEF Closed
  <1>3. \A t \in DOMAIN sess : G[t] \in AllSessions
    BY <1>1
  <1>4. G \in Seq(AllSessions)
    BY <1>2, <1>3, SameLength
  <1>5. Alike(G)
    BY <1>1, <1>2 DEF Alike
  <1>. QED
    BY <1>1, <1>4, <1>5

\* A step of the handshake changes the labels of both ends.
PairTurn(s, p, q, a) ==
  [sess EXCEPT ![s] =
     [from |-> sess[s].from, to |-> sess[s].to,
      pc |-> [[sess[s].pc EXCEPT ![sess[s].to] = p] EXCEPT ![sess[s].from] = q],
      addr |-> a, work |-> sess[s].work, box |-> sess[s].box]]

\* The effect of a turn of both ends of one session.
LEMMA PairEffect ==
  ASSUME sess \in Seq(AllSessions), NEW s \in DOMAIN sess,
         NEW p \in Labels, NEW q \in Labels, NEW a \in [Ends(s) -> Nat],
         NEW G, G = PairTurn(s, p, q, a)
  PROVE  /\ G \in Seq(AllSessions) /\ Alike(G)
         /\ \A t \in DOMAIN sess : \A e \in Ends(t) :
              /\ G[t].pc[e] = IF t # s THEN sess[t].pc[e] ELSE IF e = sess[s].to THEN p ELSE q
              /\ G[t].work[e] = sess[t].work[e]
              /\ G[t].box[e] = sess[t].box[e]
  <1> DEFINE n == sess[s].from
             m == sess[s].to
             c == [[sess[s].pc EXCEPT ![m] = p] EXCEPT ![n] = q]
  <1>0. /\ G = [t \in DOMAIN G |-> G[t]] /\ DOMAIN G = DOMAIN sess
        /\ \A t \in DOMAIN sess : t # s => G[t] = sess[t]
        /\ G[s] = [from |-> sess[s].from, to |-> sess[s].to, pc |-> c,
                   addr |-> a, work |-> sess[s].work, box |-> sess[s].box]
    BY DEF PairTurn
  <1>1. /\ sess[s].pc \in [Ends(s) -> Labels]
        /\ sess[s].work \in [Ends(s) -> Descriptions] /\ sess[s].box \in [Ends(s) -> Seq(Messages)]
    BY SessionParts, SelfAlike
  <1>2. n # m /\ Ends(s) = {n, m}
    BY FieldsTyped DEF Ends
  <1>3. c \in [Ends(s) -> Labels]
    BY <1>1, <1>2
  <1>4. \A e \in Ends(s) : c[e] = IF e = m THEN p ELSE q
    BY <1>1, <1>2
  <1>. HIDE DEF c
  <1>5. G[s] = [from |-> sess[s].from, to |-> sess[s].to, pc |-> c,
                addr |-> a, work |-> sess[s].work, box |-> sess[s].box]
    BY <1>0
  <1>6. /\ G[s].from = sess[s].from /\ G[s].to = sess[s].to
        /\ G[s].pc = c /\ G[s].work = sess[s].work /\ G[s].box = sess[s].box
    BY <1>5
  <1>7. Alike(G)
    BY <1>0, <1>6 DEF Alike
  <1>8. G[s] \in AllSessions
    <2> DEFINE w == sess[s].work
               b == sess[s].box
    <2>1. w \in [Ends(s) -> Descriptions] /\ b \in [Ends(s) -> Seq(Messages)]
      BY <1>1
    <2>2. G[s] = [from |-> sess[s].from, to |-> sess[s].to, pc |-> c, addr |-> a,
                  work |-> w, box |-> b]
      BY <1>5
    <2>. HIDE DEF w, b
    <2>3. [from |-> sess[s].from, to |-> sess[s].to, pc |-> c, addr |-> a,
           work |-> w, box |-> b] \in AllSessions
      BY <1>3, <2>1, SessionRemade
    <2>. QED
      BY <2>2, <2>3
  <1>9. \A t \in DOMAIN sess : G[t] \in AllSessions
    BY <1>0, <1>8, FieldsTyped
  <1>10. G \in Seq(AllSessions)
    BY <1>0, <1>7, <1>9, SessionsTyped
  <1>. QED
    BY <1>0, <1>4, <1>6, <1>7, <1>10

-----------------------------------------------------------------------------
(* Types *)

\* The types of what the nodes know, and of what they work on.
DescriptionsTyped ==
  /\ desc \in [Nodes -> Descriptions] /\ saved \in [Nodes -> Descriptions]
  /\ self \in [Nodes -> Nat]
  /\ joining \in [Nodes -> Requests \cup {None}] /\ edit \in [Nodes -> Removals \cup {NoNet}]

\* The types of the sessions and of the entries.
ConnectionsTyped ==
  /\ sess \in Seq(AllSessions)
  /\ sock \in [Nodes -> [Nodes -> DOMAIN sess \cup {None}]]
  /\ broken \subseteq DOMAIN sess

\* Only a node that is online has connections, work, or a thread that leaves.
OnlineOnly ==
  /\ online \subseteq Nodes /\ leaving \subseteq online
  /\ \A n, m \in Nodes : sock[n][m] # None => n \in online /\ Listed(n, m)
  /\ \A n \in Nodes : joining[n] # None \/ edit[n] # NoNet => n \in online

\* The types of the clock, the bounds and the history.
CountersTyped ==
  /\ clock \in 1..MaxTime /\ events \in 0..MaxEvents
  /\ removed \subseteq Nodes /\ parted \subseteq SUBSET Nodes
  /\ author \in Nodes \cup {None} /\ disturbed \in BOOLEAN

NetTyped == DescriptionsTyped /\ ConnectionsTyped /\ OnlineOnly /\ CountersTyped

\* A request names its own new node; until it is answered the node has no net and is off.
Joins ==
  /\ \A n, k \in Nodes :
       joining[n] # None /\ joining[k] # None /\ joining[n].node = joining[k].node => n = k
  /\ \A n \in Nodes : joining[n] # None /\ joining[n].pc # "spread" =>
       desc[joining[n].node] = NoNet /\ joining[n].node \notin online
  /\ \A n \in Nodes : joining[n] # None /\ joining[n].pc = "answer" =>
       joining[n].node \in Members(joining[n].net.list)

-----------------------------------------------------------------------------
(* Data *)

\* The description of a node that is in no net.
LEMMA NothingTyped == TopologyAssumption => NoNet \in Descriptions /\ Members(NoNet.list) = {}
    /\ NoNet.time = 0
  <1>1. <<>> \in Seq(Entries) /\ DOMAIN <<>> = {}
    OBVIOUS
  <1>. QED
    BY <1>1 DEF NoNet, Descriptions, TopologyAssumption, Members

\* A time and a list make a description.
LEMMA DescriptionMade ==
  ASSUME NEW time \in 0..MaxTime, NEW list \in Seq(Entries)
  PROVE  [time |-> time, list |-> list] \in Descriptions
  BY DEF Descriptions

\* A description has a time and a list.
LEMMA DescriptionIs ==
  ASSUME NEW d \in Descriptions
  PROVE  d.time \in 0..MaxTime /\ d.list \in Seq(Entries)
  BY DEF Descriptions

\* A removal under way has a time and a list, and is not the mark that there is none.
LEMMA RemovalIs ==
  ASSUME NEW e \in Removals
  PROVE  e.time \in 0..MaxTime /\ e.list \in Seq(Entries) /\ e.sent \in BOOLEAN /\ e # NoNet
  BY DEF Removals, NoNet

\* A join request names a node, and has a net once it is served.
LEMMA RequestIs ==
  ASSUME NEW r \in Requests, TopologyAssumption
  PROVE  r.node \in Nodes /\ r.pc \in {"serve", "answer", "spread"} /\ r.net \in Descriptions
  BY DEF Requests

\* The description that a node works on, or is asked to store.
LEMMA WorkTyped ==
  ASSUME TopologyAssumption, DescriptionsTyped, NEW n \in Nodes
  PROVE  /\ desc[n] \in Descriptions /\ desc[n].time \in 0..MaxTime /\ desc[n].list \in Seq(Entries)
         /\ saved[n] \in Descriptions
         /\ edit[n] # NoNet => /\ RemovalOf(n) \in Descriptions /\ edit[n].time \in 0..MaxTime
                               /\ edit[n] \in Removals /\ edit[n].list \in Seq(Entries)
         /\ joining[n] # None => /\ joining[n] \in Requests /\ joining[n].net \in Descriptions
                                 /\ joining[n].node \in Nodes
                                 /\ joining[n].pc \in {"serve", "answer", "spread"}
  <1>1. desc[n] \in Descriptions /\ saved[n] \in Descriptions
    BY DEF DescriptionsTyped
  <1>2. edit[n] # NoNet => edit[n] \in Removals
    BY DEF DescriptionsTyped
  <1>3. joining[n] # None => joining[n] \in Requests
    BY DEF DescriptionsTyped
  <1>4. edit[n] # NoNet => RemovalOf(n) \in Descriptions /\ edit[n].time \in 0..MaxTime
          /\ edit[n].list \in Seq(Entries)
    BY <1>2, RemovalIs, DescriptionMade DEF RemovalOf
  <1>. QED
    BY <1>1, <1>2, <1>3, <1>4, DescriptionIs, RequestIs

\* The list that Update makes of a description.
LEMMA UpdateEffect ==
  ASSUME TopologyAssumption, DescriptionsTyped, NEW n \in Nodes, NEW d \in Descriptions,
         Update(n, d)
  PROVE  \E list \in Seq(Entries) :
           /\ Members(list) = Members(d.list)
           /\ desc' = [desc EXCEPT ![n] = [time |-> d.time, list |-> list]]
           /\ [time |-> d.time, list |-> list] \in Descriptions
           /\ sock' = [sock EXCEPT ![n] = [m \in Nodes |->
                    IF m \in Members(d.list) THEN sock[n][m] ELSE None]]
           /\ parted' = parted \cup {{n, m} : m \in {k \in Nodes \ Members(d.list) : sock[n][k] # None}}
           /\ leaving' = IF n \notin Members(d.list) THEN leaving \cup {n} ELSE leaving
  <1> DEFINE list == Merge(desc[n].list, d.list)
  <1>1. list \in Seq(Entries) /\ Members(list) = Members(d.list)
    BY WorkTyped, DescriptionIs, MergedMembers
  <1>2. [time |-> d.time, list |-> list] \in Descriptions
    BY <1>1, DescriptionIs, DescriptionMade
  <1>3. /\ desc' = [desc EXCEPT ![n] = [time |-> d.time, list |-> list]]
        /\ sock' = [sock EXCEPT ![n] = [m \in Nodes |->
                    IF m \in Members(list) THEN sock[n][m] ELSE None]]
        /\ parted' = parted \cup {{n, m} : m \in {k \in Nodes \ Members(list) : sock[n][k] # None}}
        /\ leaving' = IF n \notin Members(list) THEN leaving \cup {n} ELSE leaving
    BY DEF Update, Excluded
  <1>. HIDE DEF list
  <1>. QED
    BY <1>1, <1>2, <1>3

\* ServerNetJoin appends the new node.
LEMMA AppendedMembers ==
  ASSUME TopologyAssumption, NEW list \in Seq(Entries), list # <<>>, NEW x \in Nodes
  PROVE  /\ Append(list, Entry(x, NextIndex(list))) \in Seq(Entries)
         /\ Members(Append(list, Entry(x, NextIndex(list)))) = Members(list) \cup {x}
  <1> DEFINE e == Entry(x, NextIndex(list))
             all == Append(list, e)
  <1>1. NextIndex(list) \in Nat \ {0}
    <2>1. Max({list[k].index : k \in DOMAIN list}) \in Nat
      BY HighestIndex
    <2>. QED
      BY <2>1 DEF NextIndex
  <1>2. e \in Entries /\ e.node = x
    BY <1>1 DEF Entry, Entries
  <1>. HIDE DEF e
  <1>3. /\ all \in Seq(Entries) /\ Len(all) = Len(list) + 1
        /\ \A i \in 1..Len(list) + 1 : all[i] = IF i <= Len(list) THEN list[i] ELSE e
    BY <1>2, AppendRecord
  <1>4. /\ Len(list) \in Nat /\ DOMAIN list = 1..Len(list) /\ DOMAIN all = 1..Len(list) + 1
    BY <1>3, LenProperties
  <1>5. \A i \in DOMAIN list : i \in DOMAIN all /\ all[i] = list[i]
    BY <1>3, <1>4
  <1>6. Len(list) + 1 \in DOMAIN all /\ all[Len(list) + 1] = e
    BY <1>3, <1>4
  <1>7. \A i \in DOMAIN all : (i \in DOMAIN list /\ all[i] = list[i]) \/ all[i] = e
    BY <1>3, <1>4
  <1>. HIDE DEF all
  <1>8. Members(all) = Members(list) \cup {x}
    BY <1>2, <1>5, <1>6, <1>7 DEF Members
  <1>. QED
    BY <1>3, <1>8 DEF e, all

-----------------------------------------------------------------------------
(* The effect of a handshake *)

\* In F, session k from n to m has been added to the sessions.
Called(F, k, n, m) ==
  /\ k \notin DOMAIN sess /\ DOMAIN F = DOMAIN sess \cup {k} /\ k # None
  /\ \A t \in DOMAIN sess : F[t] = sess[t]
  /\ n # m /\ F[k].from = n /\ F[k].to = m
  /\ F[k].pc[n] = "ask" /\ F[k].pc[m] = "new"
  /\ \A e \in {n, m} : F[k].work[e] = NoNet /\ F[k].box[e] = <<>>

\* A new session is the last one.
LEMMA ReconnectEffect ==
  ASSUME TopologyAssumption, DescriptionsTyped, ConnectionsTyped,
         NEW n \in Nodes, NEW m \in Nodes, Reconnect(n, m)
  PROVE  sess' \in Seq(AllSessions) /\ \E k : Called(sess', k, n, m)
  <1> DEFINE p == [e \in {n, m} |-> IF e = n THEN "ask" ELSE "new"]
             a == [e \in {n, m} |-> IF e = n THEN IndexOf(n, m) ELSE 0]
             w == [e \in {n, m} |-> NoNet]
             b == [e \in {n, m} |-> <<>>]
             x == [from |-> n, to |-> m, pc |-> p, addr |-> a, work |-> w, box |-> b]
             k == Len(sess) + 1
  <1>1. sess' = Append(sess, x) /\ n # m /\ Listed(n, m)
    BY DEF Reconnect
  <1>2. x \in AllSessions
    <2>1. IndexOf(n, m) \in Nat
      BY <1>1, WorkTyped, IndexFound
    <2>2. p \in [{n, m} -> Labels] /\ a \in [{n, m} -> Nat]
      BY <2>1 DEF Labels
    <2>3. w \in [{n, m} -> Descriptions] /\ b \in [{n, m} -> Seq(Messages)]
      <3>1. <<>> \in Seq(Messages)
        OBVIOUS
      <3>. QED
        BY <3>1, NothingTyped
    <2>. HIDE DEF p, a, w, b
    <2>. QED
      BY <1>1, <2>2, <2>3, SessionMade
  <1>3. /\ x.from = n /\ x.to = m /\ x.pc[n] = "ask" /\ x.pc[m] = "new"
        /\ \A e \in {n, m} : x.work[e] = NoNet /\ x.box[e] = <<>>
    BY <1>1
  <1>. HIDE DEF x
  <1>4. /\ sess' \in Seq(AllSessions) /\ Len(sess') = Len(sess) + 1
        /\ \A i \in 1..Len(sess) + 1 : sess'[i] = IF i <= Len(sess) THEN sess[i] ELSE x
    BY <1>1, <1>2, AppendRecord DEF ConnectionsTyped
  <1>5. Len(sess) \in Nat /\ DOMAIN sess = 1..Len(sess) /\ DOMAIN sess' = 1..Len(sess) + 1
    BY <1>4, LenProperties DEF ConnectionsTyped
  <1>6. k \notin DOMAIN sess /\ DOMAIN sess' = DOMAIN sess \cup {k}
    BY <1>5
  <1>7. sess'[k] = x /\ \A t \in DOMAIN sess : sess'[t] = sess[t]
    BY <1>4, <1>5
  <1>8. k # None
    BY <1>5 DEF TopologyAssumption
  <1>. HIDE DEF k
  <1>9. Called(sess', k, n, m)
    BY <1>1, <1>3, <1>6, <1>7, <1>8 DEF Called
  <1>. QED
    BY <1>4, <1>9

\* What the sessions are after the node called has answered.
LEMMA AcceptedEffect ==
  ASSUME TopologyAssumption, DescriptionsTyped, ConnectionsTyped,
         NEW s \in DOMAIN sess, HandshakeAccepted(s)
  PROVE  \E q \in {"answered", "closed"} :
           /\ sess' \in Seq(AllSessions) /\ Alike(sess')
           /\ \A t \in DOMAIN sess : \A e \in Ends(t) :
                /\ sess'[t].pc[e] = IF t # s THEN sess[t].pc[e]
                                    ELSE IF e = sess[s].to THEN "read" ELSE q
                /\ sess'[t].work[e] = sess[t].work[e]
                /\ sess'[t].box[e] = sess[t].box[e]
  <1> DEFINE x == sess[s]
             n == x.from
             m == x.to
             q == IF SameAddresses(s) THEN "answered" ELSE "closed"
             a == [x.addr EXCEPT ![m] = IndexOf(m, n)]
  <1>1. /\ n \in Nodes /\ m \in Nodes /\ n # m /\ Ends(s) = {n, m}
        /\ Listed(m, n)
    BY FieldsTyped DEF HandshakeAccepted, ConnectNode, Ends, ConnectionsTyped
  <1>2. sess' = [sess EXCEPT ![s].pc[m] = "read", ![s].addr[m] = IndexOf(m, n), ![s].pc[n] = q]
    BY DEF HandshakeAccepted
  <1>3. a \in [Ends(s) -> Nat]
    <2>1. IndexOf(m, n) \in Nat
      BY <1>1, WorkTyped, IndexFound
    <2>2. x.addr \in [Ends(s) -> Nat]
      BY SessionParts, SelfAlike DEF ConnectionsTyped
    <2>. QED
      BY <2>1, <2>2
  <1>4. q \in {"answered", "closed"} /\ q \in Labels
    BY DEF Labels
  <1>. HIDE DEF q
  <1>5. /\ sess' = [t \in DOMAIN sess' |-> sess'[t]] /\ DOMAIN sess' = DOMAIN sess
        /\ \A t \in DOMAIN sess : t # s => sess'[t] = sess[t]
    BY <1>2
  <1>6. sess'[s] = [[[x EXCEPT !.pc[m] = "read"] EXCEPT !.addr[m] = IndexOf(m, n)]
        EXCEPT !.pc[n] = q]
    BY <1>2
  <1>7. sess'[s] = [from |-> sess[s].from, to |-> sess[s].to,
        pc |-> [[sess[s].pc EXCEPT ![sess[s].to] = "read"] EXCEPT ![sess[s].from] = q],
                    addr |-> a, work |-> sess[s].work, box |-> sess[s].box]
    <2>1. x = [from |-> x.from, to |-> x.to, pc |-> x.pc, addr |-> x.addr,
               work |-> x.work, box |-> x.box]
      BY SessionParts, SelfAlike DEF ConnectionsTyped
    <2>. QED
      BY <1>6, <2>1
  <1> DEFINE p == "read"
  <1>8. p \in Labels
    BY DEF Labels, Working
  <1>10. sess' = PairTurn(s, p, q, a)
    BY <1>5, <1>7 DEF PairTurn
  <1>. HIDE DEF a, p
  <1>9. /\ sess' \in Seq(AllSessions) /\ Alike(sess')
        /\ \A t \in DOMAIN sess : \A e \in Ends(t) :
             /\ sess'[t].pc[e] = IF t # s THEN sess[t].pc[e] ELSE IF e = sess[s].to THEN p ELSE q
             /\ sess'[t].work[e] = sess[t].work[e]
             /\ sess'[t].box[e] = sess[t].box[e]
    <2>1. p \in Labels /\ q \in Labels /\ a \in [Ends(s) -> Nat]
      BY <1>3, <1>4, <1>8
    <2>. QED
      BY <2>1, <1>10, PairEffect DEF ConnectionsTyped
  <1>. QED
    BY <1>4, <1>9 DEF p

\* What they are after it has refused, or could not write its answer.
LEMMA RefusedEffect ==
  ASSUME TopologyAssumption, ConnectionsTyped,
         NEW s \in DOMAIN sess, HandshakeRefused(s) \/ HandshakeStranded(s)
  PROVE  /\ sess' \in Seq(AllSessions) /\ Alike(sess')
         /\ \A t \in DOMAIN sess : \A e \in Ends(t) :
              /\ sess'[t].pc[e] = IF t # s THEN sess[t].pc[e] ELSE "closed"
              /\ sess'[t].work[e] = sess[t].work[e]
              /\ sess'[t].box[e] = sess[t].box[e]
  <1> DEFINE x == sess[s]
             n == x.from
             m == x.to
  <1>1. sess' = [sess EXCEPT ![s].pc[m] = "closed", ![s].pc[n] = "closed"]
    BY DEF HandshakeRefused, HandshakeStranded
  <1>2. x.addr \in [Ends(s) -> Nat]
    BY SessionParts, SelfAlike DEF ConnectionsTyped
  <1>3. "closed" \in Labels
    BY DEF Labels
  <1>4. /\ sess' = [t \in DOMAIN sess' |-> sess'[t]] /\ DOMAIN sess' = DOMAIN sess
        /\ \A t \in DOMAIN sess : t # s => sess'[t] = sess[t]
    BY <1>1
  <1>5. sess'[s] = [[x EXCEPT !.pc[m] = "closed"] EXCEPT !.pc[n] = "closed"]
    BY <1>1
  <1>6. sess'[s] = [from |-> sess[s].from, to |-> sess[s].to,
        pc |-> [[sess[s].pc EXCEPT ![sess[s].to] = "closed"] EXCEPT ![sess[s].from] = "closed"],
                    addr |-> x.addr, work |-> x.work, box |-> x.box]
    <2>1. x = [from |-> x.from, to |-> x.to, pc |-> x.pc, addr |-> x.addr,
               work |-> x.work, box |-> x.box]
      BY SessionParts, SelfAlike DEF ConnectionsTyped
    <2>. QED
      BY <1>5, <2>1
  <1> DEFINE a == x.addr
             p == "closed"
             q == "closed"
  <1>7. sess'[s] = [from |-> sess[s].from, to |-> sess[s].to,
                    pc |-> [[sess[s].pc EXCEPT ![sess[s].to] = p] EXCEPT ![sess[s].from] = q],
                    addr |-> a, work |-> sess[s].work, box |-> sess[s].box]
    BY <1>6
  <1>8. a \in [Ends(s) -> Nat] /\ p \in Labels /\ q \in Labels
    BY <1>2, <1>3
  <1>10. sess' = PairTurn(s, p, q, a)
    BY <1>4, <1>7 DEF PairTurn
  <1>. HIDE DEF a, p, q
  <1>9. /\ sess' \in Seq(AllSessions) /\ Alike(sess')
        /\ \A t \in DOMAIN sess : \A e \in Ends(t) :
             /\ sess'[t].pc[e] = IF t # s THEN sess[t].pc[e] ELSE IF e = sess[s].to THEN p ELSE q
             /\ sess'[t].work[e] = sess[t].work[e]
             /\ sess'[t].box[e] = sess[t].box[e]
    BY <1>8, <1>10, PairEffect, SMTT(30) DEF ConnectionsTyped
  <1>. QED
    BY <1>9 DEF p, q

\* A thread that ends, or gives up.
LEMMA ClosedEffect ==
  ASSUME TopologyAssumption, ConnectionsTyped,
         NEW s \in DOMAIN sess, NEW n \in Ends(s), sess' = Turn(s, n, "closed", NoNet)
  PROVE  /\ sess' \in Seq(AllSessions) /\ Alike(sess')
         /\ \A t \in DOMAIN sess : \A e \in Ends(t) :
              /\ sess'[t].pc[e] = IF t = s /\ e = n THEN "closed" ELSE sess[t].pc[e]
              /\ sess'[t].work[e] = IF t = s /\ e = n THEN NoNet ELSE sess[t].work[e]
              /\ sess'[t].box[e] = sess[t].box[e]
  <1>1. "closed" \in Labels /\ NoNet \in Descriptions
    BY NothingTyped DEF Labels
  <1>. QED
    BY <1>1, TurnEffect DEF ConnectionsTyped

\* A thread that sends, and then waits for a message.
LEMMA SendEffect ==
  ASSUME TopologyAssumption, ConnectionsTyped,
         NEW s \in DOMAIN sess, NEW n \in Ends(s), NEW S, NEW m \in Messages,
         sess' = Sent(n, S, m, Turn(s, n, "read", NoNet))
  PROVE  /\ sess' \in Seq(AllSessions) /\ Alike(sess')
         /\ \A t \in DOMAIN sess : \A e \in Ends(t) :
              /\ sess'[t].pc[e] = IF t = s /\ e = n THEN "read" ELSE sess[t].pc[e]
              /\ sess'[t].work[e] = IF t = s /\ e = n THEN NoNet ELSE sess[t].work[e]
              /\ sess'[t].box[e] = IF t \in S /\ e = Peer(t, n) THEN Append(sess[t].box[e], m)
                                                               ELSE sess[t].box[e]
  <1> DEFINE F == Turn(s, n, "read", NoNet)
  <1>1. "read" \in Labels /\ NoNet \in Descriptions /\ n \in Nodes
    BY NothingTyped, FieldsTyped DEF Labels, Working, ConnectionsTyped
  <1>2. /\ F \in Seq(AllSessions) /\ Alike(F)
        /\ \A t \in DOMAIN sess : \A e \in Ends(t) :
             /\ F[t].pc[e] = IF t = s /\ e = n THEN "read" ELSE sess[t].pc[e]
             /\ F[t].work[e] = IF t = s /\ e = n THEN NoNet ELSE sess[t].work[e]
             /\ F[t].box[e] = sess[t].box[e]
    BY <1>1, TurnEffect DEF ConnectionsTyped
  <1>3. sess' = Sent(n, S, m, F)
    OBVIOUS
  <1>. HIDE DEF F
  <1>4. /\ sess' \in Seq(AllSessions) /\ Alike(sess')
        /\ \A t \in DOMAIN sess : \A e \in Ends(t) :
              /\ sess'[t].pc[e] = F[t].pc[e]
              /\ sess'[t].work[e] = F[t].work[e]
              /\ sess'[t].box[e] = IF t \in S /\ e = Peer(t, n) THEN Append(F[t].box[e], m)
                                                             ELSE F[t].box[e]
    BY <1>1, <1>2, <1>3, SentEffect DEF ConnectionsTyped
  <1>. QED
    BY <1>2, <1>4

\* The two messages with their description.
ConnectWith(d) == [verb |-> "connect", net |-> d]
UpdateWith(d)  == [verb |-> "update", net |-> d]

\* The caller keeps the session, and sends its own description on it.
LEMMA FinishedEffect ==
  ASSUME TopologyAssumption, DescriptionsTyped, ConnectionsTyped,
         NEW s \in DOMAIN sess, HandshakeFinished(s),
         s \notin broken /\ ConnectNode(sess[s].from, sess[s].to)
  PROVE  /\ sess' \in Seq(AllSessions) /\ Alike(sess')
         /\ \A t \in DOMAIN sess : \A e \in Ends(t) :
              /\ sess'[t].pc[e] = IF t = s /\ e = sess[s].from THEN "read" ELSE sess[t].pc[e]
              /\ sess'[t].work[e] = IF t = s /\ e = sess[s].from THEN NoNet ELSE sess[t].work[e]
              /\ sess'[t].box[e] = IF t = s /\ e = sess[s].to
                                   THEN Append(sess[t].box[e], ConnectWith(desc[sess[s].from]))
                                   ELSE sess[t].box[e]
         /\ ConnectWith(desc[sess[s].from]) \in Messages
  <1> DEFINE n == sess[s].from
             S == {s}
             m == ConnectWith(desc[n])
  <1>1. n \in Ends(s) /\ n \in Nodes /\ Peer(s, n) = sess[s].to
    BY FieldsTyped DEF Ends, Peer, ConnectionsTyped
  <1>2. m \in Messages
    BY <1>1, WorkTyped DEF Messages, ConnectWith
  <1>3. sess' = Sent(n, S, m, Turn(s, n, "read", NoNet))
    BY DEF HandshakeFinished, ConnectWith
  <1>4. \A t : t \in S <=> t = s
    OBVIOUS
  <1>. HIDE DEF m, S, n
  <1>5. /\ sess' \in Seq(AllSessions) /\ Alike(sess')
        /\ \A t \in DOMAIN sess : \A e \in Ends(t) :
             /\ sess'[t].pc[e] = IF t = s /\ e = n THEN "read" ELSE sess[t].pc[e]
             /\ sess'[t].work[e] = IF t = s /\ e = n THEN NoNet ELSE sess[t].work[e]
             /\ sess'[t].box[e] = IF t \in S /\ e = Peer(t, n) THEN Append(sess[t].box[e], m)
                                                              ELSE sess[t].box[e]
    BY <1>1, <1>2, <1>3, SendEffect
  <1>6. \A t \in DOMAIN sess : \A e \in Ends(t) :
          sess'[t].box[e] = IF t = s /\ e = sess[s].to THEN Append(sess[t].box[e], m)
                                                      ELSE sess[t].box[e]
    BY <1>1, <1>4, <1>5
  <1>. QED
    BY <1>2, <1>5, <1>6 DEF m, n

-----------------------------------------------------------------------------
(* The kinds of steps, and the types of the descriptions *)

\* The steps that leave the descriptions and the nodes as they are.
HandshakeStep(s) ==
  \/ HandshakeAccepted(s) \/ HandshakeRefused(s) \/ HandshakeStranded(s)
  \/ HandshakeLost(s) \/ HandshakeFinished(s)
TalkStep(s, n) == SessionEnds(s, n) \/ Receive(s, n) \/ Spread(s, n) \/ Reply(s, n)
CallStep(n) == \E m \in Nodes : Reconnect(n, m)
Quiet == UNCHANGED <<net, broken, work, bounds, removed, author>>

CloseStep(n) == ServerNetDisconnect(n) \/ ServerShutdown(n) \/ Crash(n) \/ Leave(n)

\* A handshake leaves the descriptions and the work of the nodes alone.
LEMMA HandshakeQuiet == \A s : HandshakeStep(s) => Quiet
  BY DEF HandshakeStep, Quiet, HandshakeAccepted, HandshakeRefused, HandshakeStranded,
         HandshakeLost, HandshakeFinished, netHistory

\* So does a thread that reads, passes on, replies or ends.
LEMMA TalkQuiet == \A s, n : TalkStep(s, n) => Quiet
  <1>1. \A s, n : SessionEnds(s, n) => Quiet
    BY DEF SessionEnds, Quiet
  <1>2. \A s, n : Receive(s, n) => Quiet
    BY ZenonT(30) DEF Receive, Quiet
  <1>3. \A s, n : Spread(s, n) => Quiet
    BY DEF Spread, Quiet, netHistory
  <1>4. \A s, n : Reply(s, n) => Quiet
    BY DEF Reply, Quiet
  <1>. QED
    BY <1>1, <1>2, <1>3, <1>4 DEF TalkStep

\* So does the call of another node.
LEMMA CallQuiet == \A n : CallStep(n) => Quiet
  BY DEF CallStep, Quiet, Reconnect, netHistory

\* The steps of the net, sorted by what they change.
LEMMA NetSteps ==
  ASSUME [NetNext]_netVars
  PROVE  \/ UNCHANGED netVars
         \/ \E s \in DOMAIN sess :
              \/ HandshakeStep(s) \/ ConnectionFails(s)
              \/ \E n \in Ends(s) : TalkStep(s, n) \/ Adopt(s, n)
         \/ \E n \in Nodes :
              \/ CallStep(n) \/ CloseStep(n) \/ ServerNetConnect(n) \/ ServerNetForget(n)
              \/ JoinServed(n) \/ JoinDenied(n) \/ JoinAnswered(n) \/ JoinUnanswered(n)
              \/ JoinSpread(n)
              \/ RemoveStamp(n) \/ RemoveAbandoned(n) \/ RemoveSpread(n) \/ RemoveUpdate(n)
              \/ \E m \in Nodes : JoinRequest(m, n) \/ RemoveNode(n, m)
  BY DEF NetNext, SessionStep, JoinStep, RemovalStep, HandshakeStep, TalkStep, CallStep, CloseStep

-----------------------------------------------------------------------------
(* Types *)

\* Every step keeps the types of the descriptions.
LEMMA DescriptionsStep ==
  ASSUME TopologyAssumption, NetTyped, [NetNext]_netVars
  PROVE  DescriptionsTyped'
  <1>. USE DEF NetTyped
  <1>1. CASE UNCHANGED <<desc, saved, self, joining, edit>>
    BY <1>1 DEF DescriptionsTyped
  <1>2. ASSUME Quiet
        PROVE  DescriptionsTyped'
    BY <1>1, <1>2 DEF Quiet, net, work
  <1>3. ASSUME NEW s \in DOMAIN sess, ConnectionFails(s)
        PROVE  DescriptionsTyped'
    BY <1>1, <1>3 DEF ConnectionFails, net, work
  <1>4. ASSUME NEW s \in DOMAIN sess, NEW n \in Ends(s), Adopt(s, n)
        PROVE  DescriptionsTyped'
    <2>1. n \in Nodes /\ sess[s].work[n] \in Descriptions /\ Update(n, sess[s].work[n])
      BY <1>4, FieldsTyped DEF Adopt, ConnectionsTyped
    <2>2. PICK d \in Descriptions : desc' = [desc EXCEPT ![n] = d]
      BY <2>1, UpdateEffect
    <2>3. UNCHANGED <<saved, self, joining, edit>>
      BY <1>4 DEF Adopt, work
    <2>. QED
      BY <2>2, <2>3 DEF DescriptionsTyped
  <1>5. ASSUME NEW n \in Nodes, CloseStep(n)
        PROVE  DescriptionsTyped'
    <2>1. CASE ServerNetDisconnect(n)
      BY <1>1, <2>1 DEF ServerNetDisconnect, work
    <2>2. CASE ServerShutdown(n)
      <3>1. UNCHANGED <<desc, self, joining, edit>> /\ saved' = [saved EXCEPT ![n] = desc[n]]
        BY <2>2 DEF ServerShutdown, work
      <3>. QED
        BY <3>1 DEF DescriptionsTyped
    <2>3. CASE Crash(n)
      <3>1. /\ UNCHANGED <<saved, self>> /\ desc' = [desc EXCEPT ![n] = saved[n]]
            /\ joining' = [joining EXCEPT ![n] = None] /\ edit' = [edit EXCEPT ![n] = NoNet]
        BY <2>3 DEF Crash
      <3>. QED
        BY <3>1 DEF DescriptionsTyped
    <2>4. CASE Leave(n)
      <3>1. /\ UNCHANGED <<saved, self, joining>> /\ edit' = [edit EXCEPT ![n] = NoNet]
            /\ desc' = [desc EXCEPT ![n] = NoNet]
        BY <2>4 DEF Leave
      <3>. QED
        BY <3>1, NothingTyped DEF DescriptionsTyped
    <2>. QED
      BY <1>5, <2>1, <2>2, <2>3, <2>4 DEF CloseStep
  <1>6. ASSUME NEW n \in Nodes, ServerNetConnect(n)
        PROVE  DescriptionsTyped'
    <2>1. UNCHANGED <<desc, saved, joining, edit>> /\ self' = [self EXCEPT ![n] = IndexOf(n, n)]
      BY <1>6 DEF ServerNetConnect, work
    <2>2. IndexOf(n, n) \in Nat
      BY <1>6, WorkTyped, IndexFound DEF ServerNetConnect
    <2>. QED
      BY <2>1, <2>2 DEF DescriptionsTyped
  <1>7. ASSUME NEW n \in Nodes, ServerNetForget(n)
        PROVE  DescriptionsTyped'
    <2>1. UNCHANGED <<saved, self, joining, edit>> /\ desc' = [desc EXCEPT ![n] = NoNet]
      BY <1>7 DEF ServerNetForget, work
    <2>. QED
      BY <2>1, NothingTyped DEF DescriptionsTyped
  <1>8. ASSUME NEW n \in Nodes, JoinServed(n)
        PROVE  DescriptionsTyped'
    <2> DEFINE list == Append(desc[n].list, Entry(joining[n].node, NextIndex(desc[n].list)))
               d == [time |-> clock', list |-> list]
    <2>1. joining[n] \in Requests /\ joining[n].node \in Nodes
      BY <1>8, WorkTyped DEF JoinServed
    <2>2. desc[n].list \in Seq(Entries) /\ desc[n].list # <<>>
      BY <1>8, WorkTyped DEF JoinServed, Listed, Members
    <2>3. list \in Seq(Entries)
      BY <2>1, <2>2, AppendedMembers
    <2>4. clock' \in 0..MaxTime
      BY <1>8 DEF JoinServed, Tick, CountersTyped, TopologyAssumption
    <2>5. /\ desc' = [desc EXCEPT ![n] = d] /\ UNCHANGED <<saved, self, edit>>
          /\ joining' = [joining EXCEPT ![n].pc = "answer", ![n].net = d]
      BY <1>8 DEF JoinServed
    <2>6. d \in Descriptions
      BY <2>3, <2>4, DescriptionMade
    <2>. HIDE DEF d
    <2>7. [[joining[n] EXCEPT !.pc = "answer"] EXCEPT !.net = d] \in Requests
      BY <2>1, <2>6 DEF Requests
    <2>8. joining' \in [Nodes -> Requests \cup {None}]
      BY <2>5, <2>7 DEF DescriptionsTyped
    <2>. QED
      BY <2>5, <2>6, <2>8 DEF DescriptionsTyped
  <1>9. ASSUME NEW n \in Nodes, JoinDenied(n) \/ JoinUnanswered(n) \/ JoinSpread(n)
        PROVE  DescriptionsTyped'
    <2>1. UNCHANGED <<desc, saved, self, edit>> /\ joining' = [joining EXCEPT ![n] = None]
      BY <1>9 DEF JoinDenied, JoinUnanswered, JoinSpread, net
    <2>. QED
      BY <2>1 DEF DescriptionsTyped
  <1>10. ASSUME NEW n \in Nodes, JoinAnswered(n)
         PROVE  DescriptionsTyped'
    <2>1. joining[n] \in Requests /\ joining[n].net \in Descriptions
      BY <1>10, WorkTyped DEF JoinAnswered
    <2>2. /\ UNCHANGED <<saved, self, edit>>
          /\ joining' = [joining EXCEPT ![n].pc = "spread"]
          /\ desc' = [desc EXCEPT ![joining[n].node] = joining[n].net] \/ UNCHANGED desc
      BY <1>10 DEF JoinAnswered
    <2>3. [joining[n] EXCEPT !.pc = "spread"] \in Requests
      BY <2>1 DEF Requests
    <2>4. joining' \in [Nodes -> Requests \cup {None}]
      BY <2>2, <2>3 DEF DescriptionsTyped
    <2>5. desc' \in [Nodes -> Descriptions]
      BY <2>1, <2>2 DEF DescriptionsTyped
    <2>. QED
      BY <2>2, <2>4, <2>5 DEF DescriptionsTyped
  <1>11. ASSUME NEW n \in Nodes, RemoveSpread(n)
         PROVE  DescriptionsTyped'
    <2>1. edit[n] \in Removals
      BY <1>11, WorkTyped DEF RemoveSpread, Stamped
    <2>2. UNCHANGED <<desc, saved, self, joining>> /\ edit' = [edit EXCEPT ![n].sent = TRUE]
      BY <1>11 DEF RemoveSpread, net
    <2>3. [edit[n] EXCEPT !.sent = TRUE] \in Removals
      BY <2>1 DEF Removals
    <2>. QED
      BY <2>2, <2>3 DEF DescriptionsTyped
  <1>12. ASSUME NEW n \in Nodes, RemoveUpdate(n)
         PROVE  DescriptionsTyped'
    <2>1. RemovalOf(n) \in Descriptions /\ Update(n, RemovalOf(n))
      BY <1>12, WorkTyped DEF RemoveUpdate, Stamped
    <2>2. PICK d \in Descriptions : desc' = [desc EXCEPT ![n] = d]
      BY <2>1, UpdateEffect
    <2>3. UNCHANGED <<saved, self, joining>> /\ edit' = [edit EXCEPT ![n] = NoNet]
      BY <1>12 DEF RemoveUpdate
    <2>. QED
      BY <2>2, <2>3 DEF DescriptionsTyped
  <1>13. ASSUME NEW n \in Nodes, NEW m \in Nodes, JoinRequest(m, n)
         PROVE  DescriptionsTyped'
    <2> DEFINE r == [node |-> m, pc |-> "serve", net |-> NoNet]
    <2>1. r \in Requests
      BY NothingTyped DEF Requests
    <2>2. UNCHANGED <<desc, saved, self, edit>> /\ joining' = [joining EXCEPT ![n] = r]
      BY <1>13 DEF JoinRequest
    <2>. HIDE DEF r
    <2>. QED
      BY <2>1, <2>2 DEF DescriptionsTyped
  <1>14. ASSUME NEW n \in Nodes, NEW m \in Nodes, RemoveNode(n, m)
         PROVE  DescriptionsTyped'
    <2> DEFINE old == desc[n].list
               K == DOMAIN old \ {SelectInSeq(old, LAMBDA e : e.index = IndexOf(n, m))}
               r == [time |-> 0, sent |-> FALSE, list |-> Selected(old, K)]
    <2>1. Selected(old, K) \in Seq(Entries)
      <3>1. old \in Seq(Entries)
        BY WorkTyped
      <3>. HIDE DEF old, K
      <3>. QED
        BY <3>1, SelectedMembers
    <2>3. UNCHANGED <<desc, saved, self, joining>> /\ edit' = [edit EXCEPT ![n] = r]
      BY <1>14 DEF RemoveNode, net
    <2>. HIDE DEF K
    <2>4. r \in Removals
      BY <2>1 DEF Removals, TopologyAssumption
    <2>. HIDE DEF r
    <2>. QED
      BY <2>3, <2>4 DEF DescriptionsTyped
  <1>16. ASSUME NEW n \in Nodes, RemoveStamp(n)
         PROVE  DescriptionsTyped'
    <2>1. edit[n] \in Removals
      BY <1>16 DEF RemoveStamp, DescriptionsTyped
    <2>2. clock' \in 0..MaxTime
      BY <1>16 DEF RemoveStamp, Tick, CountersTyped, TopologyAssumption
    <2>3. /\ UNCHANGED <<desc, saved, self, joining>>
          /\ edit' = [edit EXCEPT ![n] = [time |-> clock', sent |-> FALSE, list |-> @.list]]
      BY <1>16 DEF RemoveStamp, net
    <2>4. [time |-> clock', sent |-> FALSE, list |-> edit[n].list] \in Removals
      BY <2>1, <2>2 DEF Removals
    <2>. QED
      BY <2>3, <2>4 DEF DescriptionsTyped
  <1>17. ASSUME NEW n \in Nodes, RemoveAbandoned(n)
         PROVE  DescriptionsTyped'
    <2>1. UNCHANGED <<desc, saved, self, joining>> /\ edit' = [edit EXCEPT ![n] = NoNet]
      BY <1>17 DEF RemoveAbandoned, net
    <2>. QED
      BY <2>1 DEF DescriptionsTyped
  <1>15. CASE UNCHANGED netVars
    BY <1>1, <1>15 DEF netVars, net, work
  <1>. QED
    BY <1>2, <1>3, <1>4, <1>5, <1>6, <1>7, <1>8, <1>9, <1>10, <1>11, <1>12, <1>13, <1>14, <1>15,
       <1>16, <1>17, NetSteps, HandshakeQuiet, TalkQuiet, CallQuiet

-----------------------------------------------------------------------------
(* The effect of the messages *)

(* What the steps of a thread do to its session. *)

\* What a thread does next with the message it has read.
LabelFor(m, d) ==
  IF Later(m.net, d)
  THEN IF m.verb = "connect" THEN "adopt and spread" ELSE "adopt"
  ELSE IF m.verb = "connect" /\ Earlier(m.net, d) THEN "reply" ELSE "read"

\* What the sessions are after a thread has read a message.
LEMMA ReceiveEffect ==
  ASSUME NetTyped, NEW s \in DOMAIN sess, NEW n \in Ends(s), Receive(s, n)
  PROVE  /\ Head(sess[s].box[n]) \in Messages
         /\ sess' \in Seq(AllSessions) /\ Alike(sess')
         /\ \A t \in DOMAIN sess : \A e \in Ends(t) :
              /\ sess'[t].pc[e] = IF t = s /\ e = n THEN LabelFor(Head(sess[s].box[n]), desc[n])
                                                    ELSE sess[t].pc[e]
              /\ sess'[t].work[e] = IF t = s /\ e = n THEN Head(sess[s].box[n]).net
                                                      ELSE sess[t].work[e]
              /\ sess'[t].box[e] = IF t = s /\ e = n THEN Tail(sess[t].box[e]) ELSE sess[t].box[e]
  <1> DEFINE m == Head(sess[s].box[n])
             label == LabelFor(m, desc[n])
             w == m.net
  <1>1. sess[s].box[n] # <<>>
    BY DEF Receive
  <1>2. m \in Messages
    BY <1>1, FieldsTyped, HeadTailProperties DEF NetTyped, ConnectionsTyped
  <1>3. w \in Descriptions
    BY <1>2 DEF Messages
  <1>4. label \in Labels
    BY DEF LabelFor, Labels, Working
  <1>5. sess' = Taken(s, n, Turn(s, n, label, w))
    BY DEF Receive, LabelFor, Taken
  <1>. HIDE DEF label, w
  <1>6. /\ sess' \in Seq(AllSessions) /\ Alike(sess')
        /\ \A t \in DOMAIN sess : \A e \in Ends(t) :
             /\ sess'[t].pc[e] = IF t = s /\ e = n THEN label ELSE sess[t].pc[e]
             /\ sess'[t].work[e] = IF t = s /\ e = n THEN w ELSE sess[t].work[e]
             /\ sess'[t].box[e] = IF t = s /\ e = n THEN Tail(sess[t].box[e]) ELSE sess[t].box[e]
    BY <1>1, <1>3, <1>4, <1>5, TakenEffect DEF NetTyped, ConnectionsTyped
  <1>. QED
    BY <1>2, <1>6 DEF label, w

\* What they are after a thread has adopted a description.
LEMMA AdoptEffect ==
  ASSUME TopologyAssumption, NetTyped, NEW s \in DOMAIN sess, NEW n \in Ends(s), Adopt(s, n)
  PROVE  /\ sess' \in Seq(AllSessions) /\ Alike(sess')
         /\ sess'[s].pc[n] \in {"read", "spread"}
         /\ sess'[s].work[n] = NoNet \/ sess'[s].work[n] = sess[s].work[n]
         /\ \A t \in DOMAIN sess : \A e \in Ends(t) :
              /\ t # s \/ e # n => /\ sess'[t].pc[e] = sess[t].pc[e]
                                   /\ sess'[t].work[e] = sess[t].work[e]
              /\ sess'[t].box[e] = sess[t].box[e]
  <1> DEFINE label == IF sess[s].pc[n] = "adopt" THEN "read" ELSE "spread"
             w == IF sess[s].pc[n] = "adopt" THEN NoNet ELSE sess[s].work[n]
  <1>1. w \in Descriptions
    BY NothingTyped, FieldsTyped DEF NetTyped, ConnectionsTyped
  <1>2. label \in Labels /\ label \in {"read", "spread"}
    BY DEF Labels, Working
  <1>3. sess' = Turn(s, n, label, w)
    BY DEF Adopt
  <1>4. w = NoNet \/ w = sess[s].work[n]
    OBVIOUS
  <1>. HIDE DEF label, w
  <1>5. label \in Labels
    BY <1>2
  <1>6. /\ sess' \in Seq(AllSessions) /\ Alike(sess')
        /\ \A t \in DOMAIN sess : \A e \in Ends(t) :
             /\ sess'[t].pc[e] = IF t = s /\ e = n THEN label ELSE sess[t].pc[e]
             /\ sess'[t].work[e] = IF t = s /\ e = n THEN w ELSE sess[t].work[e]
             /\ sess'[t].box[e] = sess[t].box[e]
    BY <1>1, <1>3, <1>5, TurnEffect DEF NetTyped, ConnectionsTyped
  <1>. QED
    BY <1>2, <1>4, <1>6

\* An update that a thread sends before it waits for a message again.
LEMMA UpdateSent ==
  ASSUME TopologyAssumption, NetTyped, NEW s \in DOMAIN sess, NEW n \in Ends(s),
         NEW S, NEW d \in Descriptions,
         sess' = Sent(n, S, UpdateWith(d), Turn(s, n, "read", NoNet))
  PROVE  /\ sess' \in Seq(AllSessions) /\ Alike(sess')
         /\ \A t \in DOMAIN sess : \A e \in Ends(t) :
              /\ sess'[t].pc[e] = IF t = s /\ e = n THEN "read" ELSE sess[t].pc[e]
              /\ sess'[t].work[e] = IF t = s /\ e = n THEN NoNet ELSE sess[t].work[e]
              /\ sess'[t].box[e] = IF t \in S /\ e = Peer(t, n)
                                   THEN Append(sess[t].box[e], UpdateWith(d))
                                   ELSE sess[t].box[e]
  <1> DEFINE m == UpdateWith(d)
  <1>1. m \in Messages
    BY DEF Messages, UpdateWith
  <1>2. sess' = Sent(n, S, m, Turn(s, n, "read", NoNet))
    OBVIOUS
  <1>. HIDE DEF m
  <1>3. /\ sess' \in Seq(AllSessions) /\ Alike(sess')
        /\ \A t \in DOMAIN sess : \A e \in Ends(t) :
              /\ sess'[t].pc[e] = IF t = s /\ e = n THEN "read" ELSE sess[t].pc[e]
              /\ sess'[t].work[e] = IF t = s /\ e = n THEN NoNet ELSE sess[t].work[e]
              /\ sess'[t].box[e] = IF t \in S /\ e = Peer(t, n) THEN Append(sess[t].box[e], m)
                                                               ELSE sess[t].box[e]
    BY <1>1, <1>2, SendEffect DEF NetTyped
  <1>. QED
    BY <1>3 DEF m

\* What they are after a thread has passed on what it adopted.
LEMMA SpreadEffect ==
  ASSUME TopologyAssumption, NetTyped, NEW s \in DOMAIN sess, NEW n \in Ends(s), Spread(s, n)
  PROVE  /\ sess' \in Seq(AllSessions) /\ Alike(sess')
         /\ \A t \in DOMAIN sess : \A e \in Ends(t) :
              /\ sess'[t].pc[e] = IF t = s /\ e = n THEN "read" ELSE sess[t].pc[e]
              /\ sess'[t].work[e] = IF t = s /\ e = n THEN NoNet ELSE sess[t].work[e]
              /\ sess'[t].box[e] = IF t \in Broadcast(n) /\ e = Peer(t, n)
                                   THEN Append(sess[t].box[e], UpdateWith(sess[s].work[n]))
                                   ELSE sess[t].box[e]
  <1> DEFINE d == sess[s].work[n]
  <1>1. d \in Descriptions
    BY FieldsTyped DEF NetTyped, ConnectionsTyped
  <1>2. sess' = Sent(n, Broadcast(n), UpdateWith(d), Turn(s, n, "read", NoNet))
    BY DEF Spread, UpdateWith
  <1>. HIDE DEF d
  <1>3. /\ sess' \in Seq(AllSessions) /\ Alike(sess')
        /\ \A t \in DOMAIN sess : \A e \in Ends(t) :
              /\ sess'[t].pc[e] = IF t = s /\ e = n THEN "read" ELSE sess[t].pc[e]
              /\ sess'[t].work[e] = IF t = s /\ e = n THEN NoNet ELSE sess[t].work[e]
              /\ sess'[t].box[e] = IF t \in Broadcast(n) /\ e = Peer(t, n)
                                   THEN Append(sess[t].box[e], UpdateWith(d))
                                   ELSE sess[t].box[e]
    BY <1>1, <1>2, UpdateSent
  <1>. QED
    BY <1>3 DEF d

\* What they are after a thread has replied.
LEMMA ReplyEffect ==
  ASSUME TopologyAssumption, NetTyped, NEW s \in DOMAIN sess, NEW n \in Ends(s), Reply(s, n)
  PROVE  /\ sess' \in Seq(AllSessions) /\ Alike(sess')
         /\ \A t \in DOMAIN sess : \A e \in Ends(t) :
              /\ sess'[t].pc[e] = IF t = s /\ e = n THEN "read" ELSE sess[t].pc[e]
              /\ sess'[t].work[e] = IF t = s /\ e = n THEN NoNet ELSE sess[t].work[e]
              /\ sess'[t].box[e] =
                   IF t \in SocketAt(n, sess[s].addr[n]) \ broken /\ e = Peer(t, n)
                   THEN Append(sess[t].box[e], UpdateWith(desc[n]))
                   ELSE sess[t].box[e]
  <1> DEFINE S == SocketAt(n, sess[s].addr[n]) \ broken
             d == desc[n]
  <1>1. d \in Descriptions
    BY FieldsTyped, WorkTyped DEF NetTyped, ConnectionsTyped
  <1>2. sess' = Sent(n, S, UpdateWith(d), Turn(s, n, "read", NoNet))
    BY DEF Reply, UpdateWith
  <1>. HIDE DEF d, S
  <1>3. /\ sess' \in Seq(AllSessions) /\ Alike(sess')
        /\ \A t \in DOMAIN sess : \A e \in Ends(t) :
              /\ sess'[t].pc[e] = IF t = s /\ e = n THEN "read" ELSE sess[t].pc[e]
              /\ sess'[t].work[e] = IF t = s /\ e = n THEN NoNet ELSE sess[t].work[e]
              /\ sess'[t].box[e] = IF t \in S /\ e = Peer(t, n)
                                   THEN Append(sess[t].box[e], UpdateWith(d))
                                   ELSE sess[t].box[e]
    BY <1>1, <1>2, UpdateSent
  <1>. QED
    BY <1>3 DEF d, S

\* A message sent by no thread of a session.
LEMMA SentAlone ==
  ASSUME sess \in Seq(AllSessions), NEW n \in Nodes, NEW S, NEW m \in Messages,
         sess' = Sent(n, S, m, sess)
  PROVE  /\ sess' \in Seq(AllSessions) /\ Alike(sess')
         /\ \A t \in DOMAIN sess : \A e \in Ends(t) :
              /\ sess'[t].pc[e] = sess[t].pc[e]
              /\ sess'[t].work[e] = sess[t].work[e]
              /\ sess'[t].box[e] = IF t \in S /\ e = Peer(t, n)
                                   THEN Append(sess[t].box[e], m) ELSE sess[t].box[e]
  <1>1. Alike(sess)
    BY SelfAlike
  <1>. QED
    BY <1>1, SentEffect

\* The broadcast of a change that n has made itself.
LEMMA JoinSpreadEffect ==
  ASSUME TopologyAssumption, NetTyped, NEW n \in Nodes, JoinSpread(n)
  PROVE  /\ joining[n].net \in Descriptions
         /\ sess' \in Seq(AllSessions) /\ Alike(sess')
         /\ \A t \in DOMAIN sess : \A e \in Ends(t) :
              /\ sess'[t].pc[e] = sess[t].pc[e]
              /\ sess'[t].work[e] = sess[t].work[e]
              /\ sess'[t].box[e] = IF t \in Broadcast(n) /\ e = Peer(t, n)
                                   THEN Append(sess[t].box[e], UpdateWith(joining[n].net))
                                   ELSE sess[t].box[e]
  <1> DEFINE m == UpdateWith(joining[n].net)
             S == Broadcast(n)
  <1>1. joining[n].net \in Descriptions
    BY WorkTyped DEF JoinSpread, NetTyped
  <1>2. m \in Messages
    BY <1>1 DEF Messages, UpdateWith
  <1>3. sess' = Sent(n, S, m, sess)
    BY DEF JoinSpread, UpdateWith
  <1>4. sess \in Seq(AllSessions)
    BY DEF NetTyped, ConnectionsTyped
  <1>. HIDE DEF m, S
  <1>5. /\ sess' \in Seq(AllSessions) /\ Alike(sess')
        /\ \A t \in DOMAIN sess : \A e \in Ends(t) :
              /\ sess'[t].pc[e] = sess[t].pc[e]
              /\ sess'[t].work[e] = sess[t].work[e]
              /\ sess'[t].box[e] = IF t \in S /\ e = Peer(t, n)
                                   THEN Append(sess[t].box[e], m) ELSE sess[t].box[e]
    BY <1>2, <1>3, <1>4, SentAlone
  <1>. QED
    BY <1>1, <1>5 DEF m, S

\* What they are after a removal was told to all.
LEMMA RemoveSpreadEffect ==
  ASSUME TopologyAssumption, NetTyped, NEW n \in Nodes, RemoveSpread(n)
  PROVE  /\ RemovalOf(n) \in Descriptions
         /\ sess' \in Seq(AllSessions) /\ Alike(sess')
         /\ \A t \in DOMAIN sess : \A e \in Ends(t) :
              /\ sess'[t].pc[e] = sess[t].pc[e]
              /\ sess'[t].work[e] = sess[t].work[e]
              /\ sess'[t].box[e] = IF t \in Broadcast(n) /\ e = Peer(t, n)
                                   THEN Append(sess[t].box[e], UpdateWith(RemovalOf(n)))
                                   ELSE sess[t].box[e]
  <1> DEFINE m == UpdateWith(RemovalOf(n))
             S == Broadcast(n)
  <1>1. RemovalOf(n) \in Descriptions
    BY WorkTyped DEF RemoveSpread, Stamped, NetTyped
  <1>2. m \in Messages
    BY <1>1 DEF Messages, UpdateWith
  <1>3. sess' = Sent(n, S, m, sess)
    BY DEF RemoveSpread, UpdateWith
  <1>4. sess \in Seq(AllSessions)
    BY DEF NetTyped, ConnectionsTyped
  <1>. HIDE DEF m, S
  <1>5. /\ sess' \in Seq(AllSessions) /\ Alike(sess')
        /\ \A t \in DOMAIN sess : \A e \in Ends(t) :
              /\ sess'[t].pc[e] = sess[t].pc[e]
              /\ sess'[t].work[e] = sess[t].work[e]
              /\ sess'[t].box[e] = IF t \in S /\ e = Peer(t, n)
                                   THEN Append(sess[t].box[e], m) ELSE sess[t].box[e]
    BY <1>2, <1>3, <1>4, SentAlone
  <1>. QED
    BY <1>1, <1>5 DEF m, S

-----------------------------------------------------------------------------
(* The types of the connections *)

\* What the steps that close the threads of a node have in common.
LEMMA CloseSteps ==
  ASSUME NEW n, CloseStep(n)
  PROVE  /\ Close(n) /\ UNCHANGED <<self, broken, clock, removed, parted, author>>
         /\ leaving' = leaving \ {n}
         /\ joining' = [joining EXCEPT ![n] = None] \/ (joining[n] = None /\ UNCHANGED joining)
         /\ edit' = [edit EXCEPT ![n] = NoNet] \/ (edit[n] = NoNet /\ UNCHANGED edit)
         /\ desc' = desc \/ desc' = [desc EXCEPT ![n] = saved[n]]
              \/ desc' = [desc EXCEPT ![n] = NoNet]
         /\ saved' = saved \/ saved' = [saved EXCEPT ![n] = desc[n]]
  <1>1. CASE ServerNetDisconnect(n)
    BY <1>1 DEF ServerNetDisconnect, Idle, ThreadsIdle, work, netHistory
  <1>2. CASE ServerShutdown(n)
    BY <1>2 DEF ServerShutdown, Idle, ThreadsIdle, work, netHistory
  <1>3. CASE Crash(n)
    BY <1>3 DEF Crash
  <1>4. CASE Leave(n)
    BY <1>4 DEF Leave, ThreadsIdle, bounds
  <1>. QED
    BY <1>1, <1>2, <1>3, <1>4 DEF CloseStep

\* What they are after a node has closed its connections.
LEMMA ClosedSessions ==
  ASSUME NetTyped, NEW n, Close(n)
  PROVE  /\ sess' \in Seq(AllSessions) /\ Alike(sess')
         /\ \A t \in DOMAIN sess : \A e \in Ends(t) :
              /\ sess'[t].pc[e] = IF e = n THEN "closed" ELSE sess[t].pc[e]
              /\ sess'[t].work[e] = sess[t].work[e]
              /\ sess'[t].box[e] = sess[t].box[e]
         /\ online' = online \ {n} /\ sock' = [sock EXCEPT ![n] = [m \in Nodes |-> None]]
  <1>1. sess \in Seq(AllSessions)
    BY DEF NetTyped, ConnectionsTyped
  <1>2. sess' = Closed(n)
    BY DEF Close, Closed
  <1>3. online' = online \ {n} /\ sock' = [sock EXCEPT ![n] = [m \in Nodes |-> None]]
    BY DEF Close, FreedEntries
  <1>. QED
    BY <1>1, <1>2, <1>3, CloseEffect

\* Every step keeps the types of the connections.
LEMMA ConnectionsStep ==
  ASSUME TopologyAssumption, NetTyped, [NetNext]_netVars
  PROVE  ConnectionsTyped'
  <1> DEFINE Socks == [Nodes -> [Nodes -> DOMAIN sess \cup {None}]]
  <1>0. sess \in Seq(AllSessions) /\ sock \in Socks /\ broken \subseteq DOMAIN sess
    BY DEF NetTyped, ConnectionsTyped
  <1>1. CASE UNCHANGED <<sess, sock, broken>>
    BY <1>0, <1>1 DEF ConnectionsTyped
  <1>2. ASSUME sess' \in Seq(AllSessions), Alike(sess'), UNCHANGED broken, sock' \in Socks
        PROVE  ConnectionsTyped'
    BY <1>0, <1>2 DEF ConnectionsTyped, Alike
  <1>3. ASSUME NEW n \in Nodes, NEW f \in [Nodes -> DOMAIN sess \cup {None}]
        PROVE  [sock EXCEPT ![n] = f] \in Socks
    BY <1>0
  <1>4. ASSUME NEW n \in Nodes, CallStep(n)
        PROVE  ConnectionsTyped'
    <2>1. PICK m \in Nodes : Reconnect(n, m)
      BY <1>4 DEF CallStep
    <2>2. sess' \in Seq(AllSessions) /\ DOMAIN sess \subseteq DOMAIN sess'
      <3>1. sess' \in Seq(AllSessions) /\ \E k : Called(sess', k, n, m)
        BY <2>1, ReconnectEffect DEF NetTyped
      <3>. QED
        BY <3>1 DEF Called
    <2>3. UNCHANGED <<sock, broken>>
      BY <2>1 DEF Reconnect
    <2>. QED
      BY <1>0, <2>2, <2>3 DEF ConnectionsTyped
  <1>5. ASSUME NEW s \in DOMAIN sess, HandshakeStep(s)
        PROVE  ConnectionsTyped'
    <2> DEFINE n == sess[s].from
               m == sess[s].to
    <2>0. n \in Nodes /\ m \in Nodes /\ n \in Ends(s)
      BY <1>0, FieldsTyped DEF Ends
    <2>1. UNCHANGED broken
      BY <1>5, HandshakeQuiet DEF Quiet
    <2>2. CASE HandshakeAccepted(s)
      <3>1. sess' \in Seq(AllSessions) /\ Alike(sess')
        BY <2>2, AcceptedEffect DEF NetTyped
      <3>2. sock' = [sock EXCEPT ![m][n] = s]
        BY <2>2 DEF HandshakeAccepted
      <3>3. sock' \in Socks
        BY <1>0, <2>0, <3>2
      <3>. QED
        BY <1>2, <2>1, <3>1, <3>3
    <2>3. CASE HandshakeRefused(s)
      <3>1. sess' \in Seq(AllSessions) /\ Alike(sess')
        BY <2>3, RefusedEffect DEF NetTyped
      <3>2. UNCHANGED sock
        BY <2>3 DEF HandshakeRefused
      <3>. QED
        BY <1>0, <1>2, <2>1, <3>1, <3>2
    <2>4. CASE HandshakeStranded(s)
      <3>1. sess' \in Seq(AllSessions) /\ Alike(sess')
        BY <2>4, RefusedEffect DEF NetTyped
      <3>2. sock' = [sock EXCEPT ![m][n] = s]
        BY <2>4 DEF HandshakeStranded
      <3>3. sock' \in Socks
        BY <1>0, <2>0, <3>2
      <3>. QED
        BY <1>2, <2>1, <3>1, <3>3
    <2>5. CASE HandshakeLost(s)
      <3>1. sess' = Turn(s, n, "closed", NoNet) /\ UNCHANGED sock
        BY <2>5 DEF HandshakeLost
      <3>2. sess' \in Seq(AllSessions) /\ Alike(sess')
        BY <2>0, <3>1, ClosedEffect DEF NetTyped
      <3>. QED
        BY <1>0, <1>2, <2>1, <3>1, <3>2
    <2>6. CASE HandshakeFinished(s) /\ s \notin broken /\ ConnectNode(n, m)
      <3>1. sess' \in Seq(AllSessions) /\ Alike(sess')
        BY <2>6, FinishedEffect DEF NetTyped
      <3>2. sock' = [sock EXCEPT ![n][m] = s]
        BY <2>6 DEF HandshakeFinished
      <3>3. sock' \in Socks
        BY <1>0, <2>0, <3>2
      <3>. QED
        BY <1>2, <2>1, <3>1, <3>3
    <2>7. CASE HandshakeFinished(s) /\ ~(s \notin broken /\ ConnectNode(n, m))
      <3>1. sess' = Turn(s, n, "closed", NoNet) /\ UNCHANGED sock
        BY <2>7 DEF HandshakeFinished
      <3>2. sess' \in Seq(AllSessions) /\ Alike(sess')
        BY <2>0, <3>1, ClosedEffect DEF NetTyped
      <3>. QED
        BY <1>0, <1>2, <2>1, <3>1, <3>2
    <2>. QED
      BY <1>5, <2>2, <2>3, <2>4, <2>5, <2>6, <2>7 DEF HandshakeStep
  <1>6. ASSUME NEW s \in DOMAIN sess, NEW n \in Ends(s), TalkStep(s, n)
        PROVE  ConnectionsTyped'
    <2>0. n \in Nodes
      BY <1>0, FieldsTyped
    <2>1. UNCHANGED broken
      BY <1>6, TalkQuiet DEF Quiet
    <2>2. CASE SessionEnds(s, n)
      <3>1. /\ sess' = Turn(s, n, "closed", NoNet)
            /\ sock' = [sock EXCEPT ![n] = [m \in Nodes |->
                          IF NodeAt(n, sess[s].addr[n]) = m THEN None ELSE sock[n][m]]]
        BY <2>2 DEF SessionEnds, FreedEntry
      <3>2. sess' \in Seq(AllSessions) /\ Alike(sess')
        BY <3>1, ClosedEffect DEF NetTyped
      <3>3. sock' \in Socks
        BY <1>0, <2>0, <3>1
      <3>. QED
        BY <1>2, <2>1, <3>2, <3>3
    <2>3. CASE Receive(s, n)
      <3>1. sess' \in Seq(AllSessions) /\ Alike(sess')
        BY <2>3, ReceiveEffect
      <3>2. UNCHANGED sock
        BY <2>3 DEF Receive
      <3>. QED
        BY <1>0, <1>2, <2>1, <3>1, <3>2
    <2>4. CASE Spread(s, n)
      <3>1. sess' \in Seq(AllSessions) /\ Alike(sess')
        BY <2>4, SpreadEffect
      <3>2. UNCHANGED sock
        BY <2>4 DEF Spread
      <3>. QED
        BY <1>0, <1>2, <2>1, <3>1, <3>2
    <2>5. CASE Reply(s, n)
      <3>1. sess' \in Seq(AllSessions) /\ Alike(sess')
        BY <2>5, ReplyEffect
      <3>2. UNCHANGED sock
        BY <2>5 DEF Reply
      <3>. QED
        BY <1>0, <1>2, <2>1, <3>1, <3>2
    <2>. QED
      BY <1>6, <2>2, <2>3, <2>4, <2>5 DEF TalkStep
  <1>7. ASSUME NEW s \in DOMAIN sess, NEW n \in Ends(s), Adopt(s, n)
        PROVE  ConnectionsTyped'
    <2>1. n \in Nodes /\ sess[s].work[n] \in Descriptions
      BY <1>0, FieldsTyped
    <2>2. Update(n, sess[s].work[n]) /\ UNCHANGED broken
      BY <1>7 DEF Adopt
    <2>3. sess' \in Seq(AllSessions) /\ Alike(sess')
      BY <1>7, AdoptEffect
    <2>4. sock' = [sock EXCEPT ![n] = [m \in Nodes |->
                    IF m \in Members(sess[s].work[n].list) THEN sock[n][m] ELSE None]]
      BY <2>1, <2>2, UpdateEffect DEF NetTyped
    <2>5. sock' \in Socks
      BY <1>0, <2>1, <2>4
    <2>. QED
      BY <1>2, <2>2, <2>3, <2>5
  <1>8. ASSUME NEW s \in DOMAIN sess, ConnectionFails(s)
        PROVE  ConnectionsTyped'
    BY <1>0, <1>8 DEF ConnectionFails, ConnectionsTyped
  <1>9. ASSUME NEW n \in Nodes, CloseStep(n)
        PROVE  ConnectionsTyped'
    <2>1. /\ sess' \in Seq(AllSessions) /\ Alike(sess')
          /\ sock' = [sock EXCEPT ![n] = [m \in Nodes |-> None]] /\ UNCHANGED broken
      BY <1>9, CloseSteps, ClosedSessions
    <2>2. sock' \in Socks
      BY <1>0, <2>1
    <2>. QED
      BY <1>2, <2>1, <2>2
  <1>10. ASSUME NEW n \in Nodes, ServerNetConnect(n)
         PROVE  ConnectionsTyped'
    <2>1. sock' = [sock EXCEPT ![n] = [m \in Nodes |-> None]] /\ UNCHANGED <<sess, broken>>
      BY <1>10 DEF ServerNetConnect
    <2>2. sock' \in Socks
      BY <1>0, <2>1
    <2>. QED
      BY <1>0, <2>1, <2>2 DEF ConnectionsTyped
  <1>11. ASSUME NEW n \in Nodes, JoinSpread(n) \/ RemoveSpread(n)
         PROVE  ConnectionsTyped'
    <2>1. sess' \in Seq(AllSessions) /\ Alike(sess')
      BY <1>11, JoinSpreadEffect, RemoveSpreadEffect
    <2>2. UNCHANGED <<sock, broken>>
      BY <1>11 DEF JoinSpread, RemoveSpread
    <2>. QED
      BY <1>0, <1>2, <2>1, <2>2
  <1>12. ASSUME NEW n \in Nodes, RemoveUpdate(n)
         PROVE  ConnectionsTyped'
    <2>1. RemovalOf(n) \in Descriptions
      BY <1>12, WorkTyped DEF RemoveUpdate, Stamped, NetTyped
    <2>2. Update(n, RemovalOf(n)) /\ UNCHANGED <<sess, broken>>
      BY <1>12 DEF RemoveUpdate
    <2>3. sock' = [sock EXCEPT ![n] = [m \in Nodes |->
                    IF m \in Members(RemovalOf(n).list) THEN sock[n][m] ELSE None]]
      BY <2>1, <2>2, UpdateEffect DEF NetTyped
    <2>4. sock' \in Socks
      BY <1>0, <2>3
    <2>. QED
      BY <1>0, <2>2, <2>4 DEF ConnectionsTyped
  <1>13. ASSUME NEW n \in Nodes, NEW m \in Nodes,
                \/ ServerNetForget(n) \/ JoinServed(n) \/ JoinDenied(n) \/ JoinAnswered(n)
                \/ JoinUnanswered(n) \/ JoinRequest(m, n) \/ RemoveNode(n, m)
                \/ RemoveStamp(n) \/ RemoveAbandoned(n)
         PROVE  ConnectionsTyped'
    <2>1. UNCHANGED <<sess, sock, broken>>
      BY <1>13 DEF ServerNetForget, JoinServed, JoinDenied, JoinAnswered, JoinUnanswered,
                   JoinRequest, RemoveNode, RemoveStamp, RemoveAbandoned
    <2>. QED
      BY <1>1, <2>1
  <1>14. CASE UNCHANGED netVars
    BY <1>1, <1>14 DEF netVars
  <1>. HIDE DEF Socks
  <1>. QED
    BY <1>4, <1>5, <1>6, <1>7, <1>8, <1>9, <1>10, <1>11, <1>12, <1>13, <1>14, NetSteps

-----------------------------------------------------------------------------
(* The types of the rest *)

\* Every step keeps the types of the clock, the bounds and the history.
LEMMA CountersStep ==
  ASSUME TopologyAssumption, NetTyped, [NetNext]_netVars
  PROVE  CountersTyped'
  <1>0. /\ clock \in 1..MaxTime /\ events \in 0..MaxEvents
        /\ removed \subseteq Nodes /\ parted \subseteq SUBSET Nodes
        /\ author \in Nodes \cup {None} /\ disturbed \in BOOLEAN
        /\ MaxTime \in Nat /\ MaxEvents \in Nat /\ sess \in Seq(AllSessions)
    BY DEF NetTyped, CountersTyped, TopologyAssumption, ConnectionsTyped
  <1>1. CASE UNCHANGED <<clock, events, removed, parted, author, disturbed>>
    BY <1>0, <1>1 DEF CountersTyped
  <1>2. ASSUME Event
        PROVE  events' \in 0..MaxEvents
    BY <1>0, <1>2 DEF Event
  <1>3. ASSUME NEW n \in Nodes, Tick(n)
        PROVE  clock' \in 1..MaxTime /\ author' \in Nodes \cup {None}
    BY <1>0, <1>3 DEF Tick
  <1>4. ASSUME NEW n \in Nodes, CallStep(n)
        PROVE  CountersTyped'
    BY <1>1, <1>4 DEF CallStep, Reconnect, bounds, netHistory
  <1>5. ASSUME NEW s \in DOMAIN sess, HandshakeStep(s)
        PROVE  CountersTyped'
    <2>1. UNCHANGED <<clock, events, removed, author>>
      BY <1>5, HandshakeQuiet DEF Quiet, bounds
    <2>2. {sess[s].to, sess[s].from} \in SUBSET Nodes
      BY <1>0, FieldsTyped
    <2>3. parted' \subseteq SUBSET Nodes
      <3>1. UNCHANGED parted \/ parted' = parted \cup {{sess[s].to, sess[s].from}}
        BY <1>5 DEF HandshakeStep, HandshakeAccepted, HandshakeRefused, HandshakeStranded,
                    HandshakeLost, HandshakeFinished, netHistory
      <3>. QED
        BY <1>0, <2>2, <3>1
    <2>4. disturbed' \in BOOLEAN
      <3>1. UNCHANGED disturbed \/ disturbed' = (disturbed \/ Removing(sess[s].from))
        BY <1>5 DEF HandshakeStep, HandshakeAccepted, HandshakeRefused, HandshakeStranded,
                    HandshakeLost, HandshakeFinished, netHistory
      <3>. QED
        BY <1>0, <3>1
    <2>. QED
      BY <1>0, <2>1, <2>3, <2>4 DEF CountersTyped
  <1>6. ASSUME NEW s \in DOMAIN sess, NEW n \in Ends(s), TalkStep(s, n)
        PROVE  CountersTyped'
    <2>1. UNCHANGED <<clock, events, removed, author>>
      BY <1>6, TalkQuiet DEF Quiet, bounds
    <2>2. n \in Nodes
      BY <1>0, FieldsTyped
    <2>3. parted' \subseteq SUBSET Nodes
      <3>1. CASE SessionEnds(s, n)
        <4>1. PICK K \in SUBSET Nodes : parted' = parted \cup {{n, m} : m \in K}
          BY <3>1 DEF SessionEnds
        <4>. QED
          BY <1>0, <2>2, <4>1
      <3>2. CASE Receive(s, n) \/ Spread(s, n) \/ Reply(s, n)
        BY <1>0, <3>2 DEF Receive, Spread, Reply, netHistory
      <3>. QED
        BY <1>6, <3>1, <3>2 DEF TalkStep
    <2>4. disturbed' \in BOOLEAN
      <3>1. CASE SessionEnds(s, n) \/ Spread(s, n)
        BY <1>0, <3>1 DEF SessionEnds, Spread, netHistory
      <3>2. CASE Receive(s, n)
        BY <3>2 DEF Receive
      <3>3. CASE Reply(s, n)
        BY <3>3 DEF Reply
      <3>. QED
        BY <1>6, <3>1, <3>2, <3>3 DEF TalkStep
    <2>. QED
      BY <1>0, <2>1, <2>3, <2>4 DEF CountersTyped
  <1>7. ASSUME NEW n \in Nodes, NEW d \in Descriptions, Update(n, d)
        PROVE  parted' \subseteq SUBSET Nodes
    <2>1. PICK K \in SUBSET Nodes : parted' = parted \cup {{n, m} : m \in K}
      BY <1>7 DEF Update
    <2>. QED
      BY <1>0, <2>1
  <1>8. ASSUME NEW s \in DOMAIN sess, NEW n \in Ends(s), Adopt(s, n)
        PROVE  CountersTyped'
    <2>1. n \in Nodes /\ sess[s].work[n] \in Descriptions
      BY <1>0, FieldsTyped
    <2>2. UNCHANGED <<clock, events, removed, author>> /\ Update(n, sess[s].work[n])
      BY <1>8 DEF Adopt, bounds
    <2>3. disturbed' \in BOOLEAN
      BY <1>8 DEF Adopt
    <2>. QED
      BY <1>0, <1>7, <2>1, <2>2, <2>3 DEF CountersTyped
  <1>9. ASSUME NEW n \in Nodes, RemoveUpdate(n)
        PROVE  CountersTyped'
    <2>1. RemovalOf(n) \in Descriptions
      BY <1>9, WorkTyped DEF RemoveUpdate, Stamped, NetTyped
    <2>2. UNCHANGED <<clock, events, removed, author>> /\ Update(n, RemovalOf(n))
      BY <1>9 DEF RemoveUpdate, bounds
    <2>3. disturbed' \in BOOLEAN
      BY <1>9 DEF RemoveUpdate
    <2>. QED
      BY <1>0, <1>7, <2>1, <2>2, <2>3 DEF CountersTyped
  <1>10. ASSUME NEW s \in DOMAIN sess, ConnectionFails(s)
         PROVE  CountersTyped'
    BY <1>0, <1>2, <1>10 DEF ConnectionFails, CountersTyped, netHistory
  <1>11. ASSUME NEW n \in Nodes, CloseStep(n)
         PROVE  CountersTyped'
    <2>1. UNCHANGED <<clock, removed, parted, author>>
      BY <1>11, CloseSteps
    <2>2. events' \in 0..MaxEvents
      BY <1>0, <1>2, <1>11 DEF CloseStep, ServerNetDisconnect, ServerShutdown, Crash, Leave, bounds
    <2>3. disturbed' \in BOOLEAN
      BY <1>0, <1>11 DEF CloseStep, ServerNetDisconnect, ServerShutdown, Crash, Leave, netHistory
    <2>. QED
      BY <1>0, <2>1, <2>2, <2>3 DEF CountersTyped
  <1>12. ASSUME NEW n \in Nodes,
                \/ ServerNetConnect(n) \/ JoinDenied(n) \/ JoinSpread(n) \/ RemoveSpread(n)
         PROVE  CountersTyped'
    <2>1. UNCHANGED <<bounds, netHistory>>
      BY <1>12 DEF ServerNetConnect, JoinDenied, JoinSpread, RemoveSpread
    <2>. QED
      BY <1>1, <2>1 DEF bounds, netHistory
  <1>13. ASSUME NEW n \in Nodes, ServerNetForget(n)
         PROVE  CountersTyped'
    BY <1>0, <1>2, <1>13 DEF ServerNetForget, CountersTyped
  <1>14. ASSUME NEW n \in Nodes, JoinServed(n)
         PROVE  CountersTyped'
    <2>1. Tick(n) /\ UNCHANGED <<events, removed, parted, disturbed>>
      BY <1>14 DEF JoinServed
    <2>. QED
      BY <1>0, <1>3, <2>1 DEF CountersTyped
  <1>15. ASSUME NEW n \in Nodes, JoinAnswered(n)
         PROVE  CountersTyped'
    <2>1. UNCHANGED <<clock, removed, parted, author, disturbed>>
      BY <1>15 DEF JoinAnswered, netHistory
    <2>2. events' \in 0..MaxEvents
      BY <1>0, <1>2, <1>15 DEF JoinAnswered
    <2>. QED
      BY <1>0, <2>1, <2>2 DEF CountersTyped
  <1>16. ASSUME NEW n \in Nodes, NEW m \in Nodes, JoinRequest(m, n)
         PROVE  CountersTyped'
    BY <1>1, <1>16 DEF JoinRequest, bounds, netHistory
  <1>17. ASSUME NEW n \in Nodes, NEW m \in Nodes, RemoveNode(n, m) \/ RemoveAbandoned(n)
         PROVE  CountersTyped'
    BY <1>1, <1>17 DEF RemoveNode, RemoveAbandoned, bounds, netHistory
  <1>19. ASSUME NEW n \in Nodes, RemoveStamp(n)
         PROVE  CountersTyped'
    <2>1. Tick(n) /\ UNCHANGED <<events, parted, disturbed>> /\ removed' = removed \cup {n}
      BY <1>19 DEF RemoveStamp
    <2>. QED
      BY <1>0, <1>3, <2>1 DEF CountersTyped
  <1>20. ASSUME NEW n \in Nodes, JoinUnanswered(n)
         PROVE  CountersTyped'
    BY <1>0, <1>2, <1>20 DEF JoinUnanswered, CountersTyped
  <1>18. CASE UNCHANGED netVars
    BY <1>1, <1>18 DEF netVars, bounds, netHistory
  <1>. QED
    BY <1>4, <1>5, <1>6, <1>8, <1>9, <1>10, <1>11, <1>12, <1>13, <1>14, <1>15, <1>16, <1>17,
       <1>18, <1>19, <1>20, NetSteps

-----------------------------------------------------------------------------

\* Only a node that is online has connections and work, after every step.
LEMMA OnlineStep ==
  ASSUME TopologyAssumption, NetTyped, Joins, [NetNext]_netVars
  PROVE  OnlineOnly'
  <1> DEFINE Entries0 == \A n, m \in Nodes : sock[n][m] # None => n \in online /\ Listed(n, m)
             Tasks0 == \A n \in Nodes : joining[n] # None \/ edit[n] # NoNet => n \in online
  <1>0. /\ online \subseteq Nodes /\ leaving \subseteq online /\ Entries0 /\ Tasks0
        /\ sess \in Seq(AllSessions)
        /\ desc \in [Nodes -> Descriptions]
        /\ sock \in [Nodes -> [Nodes -> DOMAIN sess \cup {None}]]
    BY DEF NetTyped, OnlineOnly, ConnectionsTyped, DescriptionsTyped
  <1>1. CASE UNCHANGED <<online, leaving, sock, desc, joining, edit>>
    BY <1>0, <1>1 DEF OnlineOnly, Listed
  <1>2. ASSUME UNCHANGED <<online, leaving, desc, joining, edit>>,
               NEW n \in online, NEW m \in Nodes, NEW s, Listed(n, m),
               sock' = [sock EXCEPT ![n][m] = s]
        PROVE  OnlineOnly'
    BY <1>0, <1>2 DEF OnlineOnly, Listed
  <1>3. ASSUME NEW n \in Nodes, CallStep(n)
        PROVE  OnlineOnly'
    BY <1>1, <1>3 DEF CallStep, Reconnect, net, work
  <1>4. ASSUME NEW s \in DOMAIN sess, HandshakeStep(s)
        PROVE  OnlineOnly'
    <2> DEFINE n == sess[s].from
               m == sess[s].to
    <2>0. n \in Nodes /\ m \in Nodes
      BY <1>0, FieldsTyped
    <2>1. UNCHANGED <<online, leaving, desc, joining, edit>>
      BY <1>4, HandshakeQuiet DEF Quiet, net, work
    <2>2. CASE HandshakeAccepted(s) \/ HandshakeStranded(s)
      <3>1. m \in online /\ Listed(m, n) /\ sock' = [sock EXCEPT ![m][n] = s]
        BY <2>2 DEF HandshakeAccepted, HandshakeStranded, Serving, ConnectNode
      <3>. QED
        BY <1>2, <2>0, <2>1, <3>1
    <2>3. CASE HandshakeFinished(s) /\ s \notin broken /\ ConnectNode(n, m)
      <3>1. n \in online /\ Listed(n, m) /\ sock' = [sock EXCEPT ![n][m] = s]
        BY <2>3 DEF HandshakeFinished, Serving, ConnectNode
      <3>. QED
        BY <1>2, <2>0, <2>1, <3>1
    <2>4. CASE \/ HandshakeRefused(s) \/ HandshakeLost(s)
               \/ HandshakeFinished(s) /\ ~(s \notin broken /\ ConnectNode(n, m))
      <3>1. UNCHANGED sock
        BY <2>4 DEF HandshakeRefused, HandshakeLost, HandshakeFinished
      <3>. QED
        BY <1>1, <2>1, <3>1
    <2>. QED
      BY <1>4, <2>2, <2>3, <2>4 DEF HandshakeStep
  <1>5. ASSUME NEW s \in DOMAIN sess, NEW n \in Ends(s), TalkStep(s, n)
        PROVE  OnlineOnly'
    <2>0. n \in Nodes
      BY <1>0, FieldsTyped
    <2>1. UNCHANGED <<online, leaving, desc, joining, edit>>
      BY <1>5, TalkQuiet DEF Quiet, net, work
    <2>2. CASE SessionEnds(s, n)
      <3>1. sock' = [sock EXCEPT ![n] = [m \in Nodes |->
                          IF NodeAt(n, sess[s].addr[n]) = m THEN None ELSE sock[n][m]]]
        BY <2>2 DEF SessionEnds, FreedEntry
      <3>2. \A k, m \in Nodes : sock'[k][m] # None => sock[k][m] # None
        BY <1>0, <2>0, <3>1
      <3>. QED
        BY <1>0, <2>1, <3>2 DEF OnlineOnly, Listed
    <2>3. CASE Receive(s, n) \/ Spread(s, n) \/ Reply(s, n)
      BY <1>1, <2>1, <2>3 DEF Receive, Spread, Reply
    <2>. QED
      BY <1>5, <2>2, <2>3 DEF TalkStep
  <1>6. ASSUME NEW n \in online, NEW d \in Descriptions, Update(n, d),
               UNCHANGED <<online, joining>>, edit' = edit \/ edit' = [edit EXCEPT ![n] = NoNet]
        PROVE  OnlineOnly'
    <2>0. n \in Nodes
      BY <1>0, <1>6
    <2>1. PICK list \in Seq(Entries) :
            /\ Members(list) = Members(d.list)
            /\ desc' = [desc EXCEPT ![n] = [time |-> d.time, list |-> list]]
            /\ sock' = [sock EXCEPT ![n] = [m \in Nodes |->
                     IF m \in Members(d.list) THEN sock[n][m] ELSE None]]
            /\ leaving' = IF n \notin Members(d.list) THEN leaving \cup {n} ELSE leaving
      BY <1>6, <2>0, UpdateEffect DEF NetTyped
    <2>2. leaving' \subseteq online'
      BY <1>0, <1>6, <2>1
    <2>3. \A k \in Nodes : desc'[k].list = IF k = n THEN list ELSE desc[k].list
      BY <1>0, <2>1
    <2>4. ASSUME NEW k \in Nodes, NEW m \in Nodes, sock'[k][m] # None
          PROVE  k \in online' /\ Listed(k, m)'
      <3>1. CASE k = n
        <4>1. m \in Members(list)
          BY <1>0, <2>0, <2>1, <2>4, <3>1
        <4>. QED
          BY <1>6, <2>3, <3>1, <4>1 DEF Listed
      <3>2. CASE k # n
        BY <1>0, <1>6, <2>0, <2>1, <2>3, <2>4, <3>2 DEF Listed
      <3>. QED
        BY <3>1, <3>2
    <2>5. Tasks0'
      <3>1. \A k \in Nodes : edit'[k] # NoNet => edit[k] # NoNet
        BY <1>6 DEF NetTyped, DescriptionsTyped
      <3>. QED
        BY <1>0, <1>6, <3>1
    <2>. QED
      BY <1>0, <1>6, <2>2, <2>4, <2>5 DEF OnlineOnly
  <1>7. ASSUME NEW s \in DOMAIN sess, NEW n \in Ends(s), Adopt(s, n)
        PROVE  OnlineOnly'
    <2>1. sess[s].work[n] \in Descriptions
      BY <1>0, FieldsTyped
    <2>2. n \in online /\ UNCHANGED <<online, joining, edit>> /\ Update(n, sess[s].work[n])
      BY <1>7 DEF Adopt, Serving, work
    <2>. QED
      BY <1>6, <2>1, <2>2
  <1>8. ASSUME NEW n \in Nodes, RemoveUpdate(n)
        PROVE  OnlineOnly'
    <2>1. RemovalOf(n) \in Descriptions
      BY <1>8, WorkTyped DEF RemoveUpdate, Stamped, NetTyped
    <2>2. /\ n \in online /\ UNCHANGED <<online, joining>> /\ edit' = [edit EXCEPT ![n] = NoNet]
          /\ Update(n, RemovalOf(n))
      BY <1>8 DEF RemoveUpdate
    <2>. QED
      BY <1>6, <2>1, <2>2
  <1>9. ASSUME NEW s \in DOMAIN sess, ConnectionFails(s)
        PROVE  OnlineOnly'
    BY <1>1, <1>9 DEF ConnectionFails, net, work
  <1>10. ASSUME NEW n \in Nodes, CloseStep(n)
         PROVE  OnlineOnly'
    <2>1. /\ online' = online \ {n} /\ sock' = [sock EXCEPT ![n] = [m \in Nodes |-> None]]
          /\ leaving' = leaving \ {n}
      BY <1>10, CloseSteps, ClosedSessions
    <2>2. /\ joining' = [joining EXCEPT ![n] = None] \/ (joining[n] = None /\ UNCHANGED joining)
          /\ edit' = [edit EXCEPT ![n] = NoNet] \/ (edit[n] = NoNet /\ UNCHANGED edit)
          /\ desc' = desc \/ desc' = [desc EXCEPT ![n] = saved[n]]
               \/ desc' = [desc EXCEPT ![n] = NoNet]
      BY <1>10, CloseSteps
    <2>3. \A k \in Nodes : k # n => desc'[k] = desc[k]
      BY <1>0, <2>2
    <2>4. Entries0'
      <3>1. \A m \in Nodes : sock'[n][m] = None
        BY <1>0, <2>1
      <3>2. \A k \in Nodes : k # n => sock'[k] = sock[k]
        BY <1>0, <2>1
      <3>. QED
        BY <1>0, <2>1, <2>3, <3>1, <3>2 DEF Listed
    <2>5. Tasks0'
      BY <1>0, <2>1, <2>2 DEF NetTyped, DescriptionsTyped
    <2>. QED
      BY <1>0, <2>1, <2>4, <2>5 DEF OnlineOnly
  <1>11. ASSUME NEW n \in Nodes, ServerNetConnect(n)
         PROVE  OnlineOnly'
    <2>1. /\ online' = online \cup {n} /\ sock' = [sock EXCEPT ![n] = [m \in Nodes |-> None]]
          /\ UNCHANGED <<leaving, desc, joining, edit>>
      BY <1>11 DEF ServerNetConnect, work
    <2>2. Entries0'
      <3>1. \A m \in Nodes : sock'[n][m] = None
        BY <1>0, <2>1
      <3>2. \A k \in Nodes : k # n => sock'[k] = sock[k]
        BY <1>0, <2>1
      <3>. QED
        BY <1>0, <2>1, <3>1, <3>2 DEF Listed
    <2>. QED
      BY <1>0, <2>1, <2>2 DEF OnlineOnly
  <1>12. ASSUME NEW n \in Nodes, ServerNetForget(n)
         PROVE  OnlineOnly'
    <2>1. /\ n \notin online /\ desc' = [desc EXCEPT ![n] = NoNet]
          /\ UNCHANGED <<online, leaving, sock, joining, edit>>
      BY <1>12 DEF ServerNetForget, work
    <2>2. \A k \in Nodes : k # n => desc'[k] = desc[k]
      BY <1>0, <2>1
    <2>3. Entries0'
      BY <1>0, <2>1, <2>2 DEF Listed
    <2>. QED
      BY <1>0, <2>1, <2>3 DEF OnlineOnly
  <1>13. ASSUME NEW n \in Nodes, JoinServed(n)
         PROVE  OnlineOnly'
    <2> DEFINE list == Append(desc[n].list, Entry(joining[n].node, NextIndex(desc[n].list)))
    <2>1. /\ n \in online /\ joining[n] # None /\ desc[n].list # <<>>
          /\ desc' = [desc EXCEPT ![n] = [time |-> clock', list |-> list]]
          /\ UNCHANGED <<online, leaving, sock, edit>>
      BY <1>13 DEF JoinServed, Listed, Members
    <2>2. \A k \in Nodes : k # n => joining'[k] = joining[k]
      BY <1>13 DEF JoinServed, NetTyped, DescriptionsTyped
    <2>3. Members(desc[n].list) \subseteq Members(list)
      BY <2>1, WorkTyped, AppendedMembers DEF NetTyped
    <2>. HIDE DEF list
    <2>4. desc'[n].list = list /\ \A k \in Nodes : k # n => desc'[k] = desc[k]
      BY <1>0, <2>1
    <2>5. Entries0'
      <3>1. ASSUME NEW k \in Nodes, NEW m \in Nodes, Listed(k, m)
            PROVE  Listed(k, m)'
        BY <2>3, <2>4, <3>1 DEF Listed
      <3>. QED
        BY <1>0, <2>1, <3>1
    <2>6. Tasks0'
      BY <1>0, <2>1, <2>2
    <2>. QED
      BY <1>0, <2>1, <2>5, <2>6 DEF OnlineOnly
  <1>14. ASSUME NEW n \in Nodes, JoinDenied(n) \/ JoinUnanswered(n) \/ JoinSpread(n)
         PROVE  OnlineOnly'
    <2>1. /\ UNCHANGED <<online, leaving, sock, desc, edit>>
          /\ joining' = [joining EXCEPT ![n] = None]
      BY <1>14 DEF JoinDenied, JoinUnanswered, JoinSpread, net
    <2>2. Tasks0'
      BY <1>0, <2>1 DEF NetTyped, DescriptionsTyped
    <2>. QED
      BY <1>0, <2>1, <2>2 DEF OnlineOnly, Listed
  <1>15. ASSUME NEW n \in Nodes, JoinAnswered(n)
         PROVE  OnlineOnly'
    <2> DEFINE x == joining[n].node
    <2>1. /\ n \in online /\ joining[n] # None /\ joining[n].pc = "answer"
          /\ desc' = [desc EXCEPT ![x] = joining[n].net] \/ UNCHANGED desc
          /\ joining' = [joining EXCEPT ![n].pc = "spread"]
          /\ UNCHANGED <<online, leaving, sock, edit>>
      BY <1>15 DEF JoinAnswered
    <2>2. x \in Nodes /\ x \notin online
      BY <2>1, WorkTyped DEF NetTyped, Joins
    <2>. HIDE DEF x
    <2>3. \A k \in Nodes : k \in online => desc'[k] = desc[k]
      BY <1>0, <2>1, <2>2
    <2>4. Entries0'
      BY <1>0, <2>1, <2>3 DEF Listed
    <2>5. Tasks0'
      BY <1>0, <2>1 DEF NetTyped, DescriptionsTyped
    <2>. QED
      BY <1>0, <2>1, <2>4, <2>5 DEF OnlineOnly
  <1>16. ASSUME NEW n \in Nodes, RemoveSpread(n)
         PROVE  OnlineOnly'
    <2>1. /\ n \in online /\ UNCHANGED <<online, leaving, sock, desc, joining>>
          /\ edit' = [edit EXCEPT ![n].sent = TRUE]
      BY <1>16 DEF RemoveSpread, net
    <2>2. Tasks0'
      BY <1>0, <2>1 DEF NetTyped, DescriptionsTyped
    <2>. QED
      BY <1>0, <2>1, <2>2 DEF OnlineOnly, Listed
  <1>17. ASSUME NEW n \in Nodes, NEW m \in Nodes, JoinRequest(m, n)
         PROVE  OnlineOnly'
    <2>1. /\ n \in online /\ UNCHANGED <<online, leaving, sock, desc, edit>>
          /\ \A k \in Nodes : k # n => joining'[k] = joining[k]
      BY <1>17 DEF JoinRequest, NetTyped, DescriptionsTyped
    <2>2. Tasks0'
      BY <1>0, <2>1
    <2>. QED
      BY <1>0, <2>1, <2>2 DEF OnlineOnly, Listed
  <1>18. ASSUME NEW n \in Nodes, NEW m \in Nodes,
                RemoveNode(n, m) \/ RemoveStamp(n) \/ RemoveAbandoned(n)
         PROVE  OnlineOnly'
    <2>1. /\ n \in online /\ UNCHANGED <<online, leaving, sock, desc, joining>>
          /\ \A k \in Nodes : k # n => edit'[k] = edit[k]
      BY <1>18 DEF RemoveNode, RemoveStamp, RemoveAbandoned, net, NetTyped, DescriptionsTyped
    <2>2. Tasks0'
      BY <1>0, <2>1
    <2>. QED
      BY <1>0, <2>1, <2>2 DEF OnlineOnly, Listed
  <1>19. CASE UNCHANGED netVars
    BY <1>1, <1>19 DEF netVars, net, work
  <1>. HIDE DEF Entries0, Tasks0
  <1>. QED
    BY <1>3, <1>4, <1>5, <1>7, <1>8, <1>9, <1>10, <1>11, <1>12, <1>13, <1>14, <1>15, <1>16, <1>17,
       <1>18, <1>19, NetSteps

-----------------------------------------------------------------------------
(* Joins *)

\* A node that is off and has no net gets one only with the answer to its request.
LEMMA OfflineStep ==
  ASSUME TopologyAssumption, NetTyped, [NetNext]_netVars,
         NEW x \in Nodes, x \notin online, desc[x] = NoNet
  PROVE  \/ x \notin online' /\ desc'[x] = NoNet
         \/ \E n \in Nodes : JoinAnswered(n) /\ joining[n].node = x
  <1>0. desc \in [Nodes -> Descriptions] /\ sess \in Seq(AllSessions)
    BY DEF NetTyped, DescriptionsTyped, ConnectionsTyped
  <1>1. CASE UNCHANGED <<desc, online>>
    BY <1>1
  <1>2. ASSUME Quiet
        PROVE  UNCHANGED <<desc, online>>
    BY <1>2 DEF Quiet, net
  <1>3. ASSUME NEW n \in Nodes, NEW m \in Nodes,
               \/ JoinDenied(n) \/ JoinUnanswered(n) \/ JoinSpread(n) \/ RemoveSpread(n)
               \/ JoinRequest(m, n) \/ RemoveNode(n, m) \/ RemoveStamp(n) \/ RemoveAbandoned(n)
        PROVE  UNCHANGED <<desc, online>>
    BY <1>3 DEF JoinDenied, JoinUnanswered, JoinSpread, RemoveSpread, JoinRequest, RemoveNode,
                RemoveStamp, RemoveAbandoned, net
  <1>4. ASSUME NEW s, ConnectionFails(s)
        PROVE  UNCHANGED <<desc, online>>
    BY <1>4 DEF ConnectionFails, net
  <1>5. ASSUME NEW n \in Nodes, n \in online, NEW d, desc' = [desc EXCEPT ![n] = d],
               UNCHANGED online
        PROVE  x \notin online' /\ desc'[x] = NoNet
    BY <1>0, <1>5
  <1>6. ASSUME NEW s \in DOMAIN sess, NEW n \in Ends(s), Adopt(s, n)
        PROVE  x \notin online' /\ desc'[x] = NoNet
    BY <1>0, <1>5, <1>6, FieldsTyped DEF Adopt, Serving, Update
  <1>7. ASSUME NEW n \in Nodes, RemoveUpdate(n)
        PROVE  x \notin online' /\ desc'[x] = NoNet
    BY <1>5, <1>7 DEF RemoveUpdate, Update
  <1>8. ASSUME NEW n \in Nodes, JoinServed(n)
        PROVE  x \notin online' /\ desc'[x] = NoNet
    BY <1>5, <1>8 DEF JoinServed
  <1>9. ASSUME NEW n \in Nodes, CloseStep(n)
        PROVE  x \notin online' /\ desc'[x] = NoNet
    <2>1. online' = online \ {n}
      BY <1>9, CloseSteps, ClosedSessions
    <2>2. \/ UNCHANGED desc \/ desc' = [desc EXCEPT ![n] = NoNet]
          \/ n \in online /\ desc' = [desc EXCEPT ![n] = saved[n]]
      BY <1>9 DEF CloseStep, ServerNetDisconnect, ServerShutdown, Crash, Leave
    <2>. QED
      BY <1>0, <2>1, <2>2
  <1>10. ASSUME NEW n \in Nodes, ServerNetConnect(n)
         PROVE  x \notin online' /\ desc'[x] = NoNet
    <2>1. desc[n] # NoNet
      BY <1>10, NothingTyped DEF ServerNetConnect, Listed
    <2>2. online' = online \cup {n} /\ UNCHANGED desc
      BY <1>10 DEF ServerNetConnect
    <2>. QED
      BY <2>1, <2>2
  <1>11. ASSUME NEW n \in Nodes, ServerNetForget(n)
         PROVE  x \notin online' /\ desc'[x] = NoNet
    BY <1>0, <1>11 DEF ServerNetForget
  <1>12. ASSUME NEW n \in Nodes, JoinAnswered(n), joining[n].node # x
         PROVE  x \notin online' /\ desc'[x] = NoNet
    BY <1>0, <1>12 DEF JoinAnswered
  <1>13. CASE UNCHANGED netVars
    BY <1>1, <1>13 DEF netVars, net
  <1>. QED
    BY <1>1, <1>2, <1>3, <1>4, <1>6, <1>7, <1>8, <1>9, <1>10, <1>11, <1>12, <1>13,
       NetSteps, HandshakeQuiet, TalkQuiet, CallQuiet

\* The requests that a step leaves as they are.
LEMMA RequestSteps ==
  ASSUME NetTyped, [NetNext]_netVars
  PROVE  \/ UNCHANGED joining
         \/ \E n \in Nodes : \/ joining' = [joining EXCEPT ![n] = None] /\ ~JoinAnswered(n)
                             \/ JoinServed(n) \/ JoinAnswered(n)
                             \/ \E m \in Nodes : JoinRequest(m, n)
  <1>1. ASSUME Quiet
        PROVE  UNCHANGED joining
    BY <1>1 DEF Quiet, work
  <1>2. ASSUME NEW s, NEW n, ConnectionFails(s) \/ Adopt(s, n)
        PROVE  UNCHANGED joining
    BY <1>2 DEF ConnectionFails, Adopt, work
  <1>3. ASSUME NEW n \in Nodes, NEW m,
               \/ ServerNetConnect(n) \/ ServerNetForget(n) \/ RemoveSpread(n) \/ RemoveUpdate(n)
               \/ RemoveNode(n, m) \/ RemoveStamp(n) \/ RemoveAbandoned(n)
        PROVE  UNCHANGED joining
    BY <1>3 DEF ServerNetConnect, ServerNetForget, RemoveSpread, RemoveUpdate, RemoveNode,
                RemoveStamp, RemoveAbandoned, work
  <1>4. ASSUME NEW n \in Nodes,
               JoinDenied(n) \/ JoinUnanswered(n) \/ JoinSpread(n) \/ CloseStep(n)
        PROVE  UNCHANGED joining \/ joining' = [joining EXCEPT ![n] = None]
    BY <1>4, CloseSteps DEF JoinDenied, JoinUnanswered, JoinSpread
  <1>5. CASE UNCHANGED netVars
    BY <1>5 DEF netVars, work
  <1>. QED
    BY <1>1, <1>2, <1>3, <1>4, <1>5, NetSteps, HandshakeQuiet, TalkQuiet, CallQuiet

\* Every step keeps the rules of the joins.
LEMMA JoinsStep ==
  ASSUME TopologyAssumption, NetTyped, Joins, [NetNext]_netVars
  PROVE  Joins'
  <1>0. joining \in [Nodes -> Requests \cup {None}] /\ desc \in [Nodes -> Descriptions]
    BY DEF NetTyped, DescriptionsTyped
  <1>a. \A n \in Nodes : joining[n] # None =>
          /\ joining[n].node \in Nodes /\ joining[n] \in Requests
          /\ joining[n].pc \in {"serve", "answer", "spread"}
    BY WorkTyped DEF NetTyped
  <1>b. \A n \in Nodes : JoinAnswered(n) =>
          joining[n] # None /\ joining[n].pc = "answer"
              /\ joining'[n] = [joining[n] EXCEPT !.pc = "spread"]
    BY <1>0 DEF JoinAnswered
  <1>c. ASSUME NEW n \in Nodes, JoinAnswered(n)
        PROVE  joining'[n].pc = "spread" /\ joining'[n].node = joining[n].node
    <2>1. joining[n] \in Requests /\ joining'[n] = [joining[n] EXCEPT !.pc = "spread"]
      BY <1>a, <1>b, <1>c
    <2>. QED
      BY <2>1 DEF Requests
  <1>1. ASSUME NEW n \in Nodes, joining[n] # None, joining[n].pc # "spread", ~JoinAnswered(n)
        PROVE  desc'[joining[n].node] = NoNet /\ joining[n].node \notin online'
    <2>1. desc[joining[n].node] = NoNet /\ joining[n].node \notin online
      BY <1>1 DEF Joins
    <2>2. ASSUME NEW k \in Nodes, JoinAnswered(k), joining[k].node = joining[n].node
          PROVE  FALSE
      BY <1>1, <1>b, <2>2 DEF Joins
    <2>. QED
      BY <1>1, <1>a, <2>1, <2>2, OfflineStep
  <1>2. ASSUME \A n \in Nodes : joining'[n] # None =>
                 ~JoinAnswered(n) /\ joining[n] # None /\ joining'[n] = joining[n]
        PROVE  Joins'
    BY <1>1, <1>2 DEF Joins
  <1>3. CASE UNCHANGED joining
    BY <1>2, <1>3, <1>b, <1>c
  <1>4. ASSUME NEW c \in Nodes, joining' = [joining EXCEPT ![c] = None], ~JoinAnswered(c)
        PROVE  Joins'
    <2>1. \A n \in Nodes : n # c => joining'[n] = joining[n]
      BY <1>0, <1>4
    <2>2. joining'[c] = None
      BY <1>0, <1>4
    <2>3. \A n \in Nodes : n # c => ~JoinAnswered(n)
      BY <1>b, <1>c, <2>1
    <2>. QED
      BY <1>2, <2>1, <2>2, <2>3
  <1>5. ASSUME NEW c \in Nodes, JoinServed(c)
        PROVE  Joins'
    <2> DEFINE list == Append(desc[c].list, Entry(joining[c].node, NextIndex(desc[c].list)))
    <2>1. /\ joining[c] # None /\ joining[c].pc = "serve" /\ desc[c].list # <<>>
          /\ joining' = [joining EXCEPT ![c].pc = "answer",
             ![c].net = [time |-> clock', list |-> list]]
      BY <1>5 DEF JoinServed, Listed, Members
    <2>2. joining[c] \in Requests /\ joining[c].node \in Nodes
      BY <1>a, <2>1
    <2>3. joining[c].node \in Members(list)
      BY <2>1, <2>2, WorkTyped, AppendedMembers DEF NetTyped
    <2>. HIDE DEF list
    <2>4. joining'[c] = [[joining[c] EXCEPT !.pc = "answer"]
          EXCEPT !.net = [time |-> clock', list |-> list]]
      BY <1>0, <2>1
    <2>5. /\ joining'[c].node = joining[c].node /\ joining'[c].net.list = list
      BY <2>2, <2>4 DEF Requests
    <2>6. \A n \in Nodes : n # c => joining'[n] = joining[n]
      BY <1>0, <2>1
    <2>7. \A n \in Nodes : ~JoinAnswered(n)
      <3>1. ~JoinAnswered(c)
        BY <1>b, <2>1
      <3>. QED
        BY <1>b, <1>c, <2>6, <3>1
    <2>8. \A n \in Nodes : joining'[n] # None => joining[n] # None
            /\ joining'[n].node = joining[n].node
      BY <2>1, <2>5, <2>6
    <2>9. \A n, k \in Nodes :
            joining'[n] # None /\ joining'[k] # None /\ joining'[n].node = joining'[k].node => n = k
      BY <2>8 DEF Joins
    <2>10. \A n \in Nodes : joining'[n] # None /\ joining'[n].pc # "spread" =>
             desc'[joining'[n].node] = NoNet /\ joining'[n].node \notin online'
      <3>1. desc'[joining[c].node] = NoNet /\ joining[c].node \notin online'
        BY <1>1, <2>1, <2>7
      <3>2. \A n \in Nodes : n # c /\ joining'[n] # None /\ joining'[n].pc # "spread" =>
             desc'[joining'[n].node] = NoNet /\ joining'[n].node \notin online'
        BY <1>1, <2>6, <2>7
      <3>. QED
        BY <2>5, <3>1, <3>2
    <2>11. \A n \in Nodes : joining'[n] # None /\ joining'[n].pc = "answer" =>
             joining'[n].node \in Members(joining'[n].net.list)
      BY <2>3, <2>5, <2>6 DEF Joins
    <2>. QED
      BY <2>9, <2>10, <2>11 DEF Joins
  <1>6. ASSUME NEW c \in Nodes, JoinAnswered(c)
        PROVE  Joins'
    <2>1. joining[c] # None /\ joining'[c].pc = "spread" /\ joining'[c].node = joining[c].node
      BY <1>6, <1>b, <1>c
    <2>2. \A n \in Nodes : n # c => joining'[n] = joining[n]
      BY <1>0, <1>6 DEF JoinAnswered
    <2>3. \A n \in Nodes : n # c => ~JoinAnswered(n)
      BY <1>b, <1>c, <2>2
    <2>4. \A n, k \in Nodes :
            joining'[n] # None /\ joining'[k] # None /\ joining'[n].node = joining'[k].node => n = k
      BY <2>1, <2>2 DEF Joins
    <2>5. \A n \in Nodes : joining'[n] # None /\ joining'[n].pc # "spread" =>
             desc'[joining'[n].node] = NoNet /\ joining'[n].node \notin online'
      BY <1>1, <2>1, <2>2, <2>3
    <2>6. \A n \in Nodes : joining'[n] # None /\ joining'[n].pc = "answer" =>
             joining'[n].node \in Members(joining'[n].net.list)
      <3>1. "spread" # "answer"
        OBVIOUS
      <3>. QED
        BY <2>1, <2>2, <3>1 DEF Joins
    <2>. QED
      BY <2>4, <2>5, <2>6 DEF Joins
  <1>7. ASSUME NEW c \in Nodes, NEW m \in Nodes, JoinRequest(m, c)
        PROVE  Joins'
    <2>1. /\ m \notin online /\ desc[m] = NoNet /\ joining[c] = None
          /\ \A k \in Nodes : joining[k] # None => joining[k].node # m
          /\ UNCHANGED <<desc, online>>
      BY <1>7 DEF JoinRequest
    <2>2. joining'[c] = [node |-> m, pc |-> "serve", net |-> NoNet]
      BY <1>0, <1>7 DEF JoinRequest
    <2>3. joining'[c].node = m /\ joining'[c].pc = "serve"
      BY <2>2
    <2>4. \A n \in Nodes : n # c => joining'[n] = joining[n]
      BY <1>0, <1>7 DEF JoinRequest
    <2>5. \A n, k \in Nodes :
            joining'[n] # None /\ joining'[k] # None /\ joining'[n].node = joining'[k].node => n = k
      BY <2>1, <2>3, <2>4 DEF Joins
    <2>6. \A n \in Nodes : joining'[n] # None /\ joining'[n].pc # "spread" =>
             desc'[joining'[n].node] = NoNet /\ joining'[n].node \notin online'
      BY <2>1, <2>3, <2>4 DEF Joins
    <2>7. \A n \in Nodes : joining'[n] # None /\ joining'[n].pc = "answer" =>
             joining'[n].node \in Members(joining'[n].net.list)
      <3>1. "serve" # "answer"
        OBVIOUS
      <3>. QED
        BY <2>3, <2>4, <3>1 DEF Joins
    <2>. QED
      BY <2>5, <2>6, <2>7 DEF Joins
  <1>. QED
    BY <1>3, <1>4, <1>5, <1>6, <1>7, RequestSteps

-----------------------------------------------------------------------------
(* The net has its types *)

\* They hold when no node has switched the net on.
LEMMA NetInitTyped ==
  ASSUME TopologyAssumption, NetInit
  PROVE  NetTyped /\ Joins
  <1> DEFINE first == FirstDesc(Founders)
  <1>1. /\ Founders \in Seq(Nodes) /\ None \notin Nodes /\ MaxTime \in Nat /\ MaxTime >= 1
        /\ MaxEvents \in Nat
    BY DEF TopologyAssumption
  <1>2. Len(Founders) \in Nat /\ DOMAIN Founders = 1..Len(Founders)
    BY <1>1, LenProperties
  <1>3. \A k \in 1..Len(Founders) : Founders[k] \in Nodes
    BY <1>1, ElementOfSeq
  <1>4. first \in Descriptions
    <2> DEFINE list == [k \in DOMAIN Founders |-> Entry(Founders[k], k)]
    <2>1. \A k \in 1..Len(Founders) : Entry(Founders[k], k) \in Entries
      BY <1>2, <1>3 DEF Entry, Entries
    <2>2. list \in [1..Len(Founders) -> Entries]
      BY <1>2, <2>1
    <2>3. list \in Seq(Entries)
      BY <1>2, <2>2, SeqDef
    <2>. HIDE DEF list
    <2>4. [time |-> 1, list |-> list] \in Descriptions
      BY <1>1, <2>3 DEF Descriptions
    <2>. QED
      BY <2>4 DEF FirstDesc, list
  <1>. HIDE DEF first
  <1>5. /\ desc = [n \in Nodes |-> IF n \in ToSet(Founders) THEN first ELSE NoNet]
        /\ saved = desc /\ online = {} /\ leaving = {} /\ broken = {} /\ sess = <<>>
        /\ self = [n \in Nodes |-> 0] /\ sock = [n \in Nodes |-> [m \in Nodes |-> None]]
        /\ joining = [n \in Nodes |-> None] /\ edit = [n \in Nodes |-> NoNet]
        /\ clock = 1 /\ events = 0
        /\ removed = {} /\ parted = {} /\ author = None /\ disturbed = FALSE
    BY DEF NetInit, Founded, AllOff, first
  <1>6. NoNet \in Descriptions
    BY NothingTyped
  <1>7. DescriptionsTyped
    BY <1>4, <1>5, <1>6 DEF DescriptionsTyped
  <1>8. ConnectionsTyped
    BY <1>5 DEF ConnectionsTyped
  <1>9. OnlineOnly
    BY <1>5 DEF OnlineOnly
  <1>10. CountersTyped
    <2>1. clock \in 1..MaxTime /\ events \in 0..MaxEvents
      BY <1>1, <1>5
    <2>2. disturbed \in BOOLEAN
      BY <1>5
    <2>3. removed \subseteq Nodes /\ parted \subseteq SUBSET Nodes /\ author \in Nodes \cup {None}
      BY <1>5
    <2>. QED
      BY <2>1, <2>2, <2>3 DEF CountersTyped
  <1>11. Joins
    BY <1>5 DEF Joins
  <1>. QED
    BY <1>7, <1>8, <1>9, <1>10, <1>11 DEF NetTyped

\* Every step keeps all the types.
LEMMA NetTypedStep ==
  ASSUME TopologyAssumption, NetTyped, Joins, [NetNext]_netVars
  PROVE  NetTyped' /\ Joins'
  BY DescriptionsStep, ConnectionsStep, OnlineStep, CountersStep, JoinsStep DEF NetTyped

\* The types in the form in which they are checked.
LEMMA NetTypedImplies ==
  ASSUME TopologyAssumption, NetTyped
  PROVE  NetTypeOK
  <1>1. \A s \in DOMAIN sess : /\ sess[s].from \in Nodes /\ sess[s].to \in Nodes \ {sess[s].from}
                               /\ sess[s] \in SessionsOf(sess[s].from, sess[s].to)
    <2>1. ASSUME NEW s \in DOMAIN sess
          PROVE  /\ sess[s].from \in Nodes /\ sess[s].to \in Nodes \ {sess[s].from}
                 /\ sess[s] \in SessionsOf(sess[s].from, sess[s].to)
      <3>1. sess[s] \in AllSessions
        BY FieldsTyped DEF NetTyped, ConnectionsTyped
      <3>2. PICK n \in Nodes : \E m \in Nodes \ {n} : sess[s] \in SessionsOf(n, m)
        BY <3>1 DEF AllSessions
      <3>3. PICK m \in Nodes \ {n} : sess[s] \in SessionsOf(n, m)
        BY <3>2
      <3>4. sess[s].from = n /\ sess[s].to = m
        BY <3>3 DEF SessionsOf
      <3>. QED
        BY <3>3, <3>4
    <2>. QED
      BY <2>1
  <1>. QED
    BY <1>1 DEF NetTypeOK, NetTyped, DescriptionsTyped, ConnectionsTyped, OnlineOnly, CountersTyped

\* Every variable keeps its type: sockets are held only by nodes that are online and
\* for nodes on their lists, and every session has its fields for its two ends.
THEOREM NetTypeCorrect == NetSpec => []NetTypeOK
  <1>1. NetInit => NetTyped /\ Joins
    BY TopologyAssumption, NetInitTyped
  <1>2. NetTyped /\ Joins /\ [NetNext]_netVars => NetTyped' /\ Joins'
    BY TopologyAssumption, NetTypedStep
  <1>3. NetTyped => NetTypeOK
    BY TopologyAssumption, NetTypedImplies
  <1>. QED
    BY <1>1, <1>2, <1>3, PTL DEF NetSpec

-----------------------------------------------------------------------------
(* A node is on its own list, or leaves *)

\* A node that has a net is on its own list, or is about to leave it; what it has saved
\* lists it too.
OwnAt(n) ==
  /\ n \in online => Listed(n, n) \/ n \in leaving
  /\ n \notin online => desc[n] = NoNet \/ Listed(n, n)
  /\ saved[n] = NoNet \/ n \in Members(saved[n].list)

OwnEntry == \A n \in Nodes : OwnAt(n)

\* The founders are on their own lists.
LEMMA OwnInit ==
  ASSUME TopologyAssumption, NetInit
  PROVE  OwnEntry
  <1>1. ASSUME NEW n \in Nodes
        PROVE  desc[n] = NoNet \/ Listed(n, n)
    <2>1. CASE n \in ToSet(Founders)
      <3>1. PICK k \in DOMAIN Founders : Founders[k] = n
        BY <2>1 DEF ToSet
      <3>2. desc[n] = FirstDesc(Founders)
        BY <2>1 DEF NetInit, Founded
      <3>3. desc[n].list = [i \in DOMAIN Founders |-> Entry(Founders[i], i)]
        BY <3>2 DEF FirstDesc
      <3>4. k \in DOMAIN desc[n].list /\ desc[n].list[k].node = n
        BY <3>1, <3>3 DEF Entry
      <3>. QED
        BY <3>4 DEF Listed, Members
    <2>2. CASE n \notin ToSet(Founders)
      BY <2>2 DEF NetInit, Founded
    <2>. QED
      BY <2>1, <2>2
  <1>2. online = {} /\ saved = desc
    BY DEF NetInit, Founded, AllOff
  <1>. QED
    BY <1>1, <1>2 DEF OwnEntry, OwnAt, Listed

\* Every step keeps a node on its own list, or has it leave.
LEMMA OwnStep ==
  ASSUME TopologyAssumption, NetTyped, Joins, OwnEntry, [NetNext]_netVars
  PROVE  OwnEntry'
  <1>0. /\ desc \in [Nodes -> Descriptions] /\ saved \in [Nodes -> Descriptions]
        /\ sess \in Seq(AllSessions)
    BY DEF NetTyped, DescriptionsTyped, ConnectionsTyped
  <1>a. \A n \in Nodes : OwnAt(n)
    BY DEF OwnEntry
  <1>b. ASSUME NEW n \in Nodes, desc'[n] = desc[n], saved'[n] = saved[n],
               n \in online' <=> n \in online, n \in leaving' <=> n \in leaving
        PROVE  OwnAt(n)'
    BY <1>a, <1>b DEF OwnAt, Listed
  <1>1. CASE UNCHANGED <<desc, saved, online, leaving>>
    BY <1>b, <1>1 DEF OwnEntry
  <1>2. ASSUME Quiet
        PROVE  OwnEntry'
    BY <1>1, <1>2 DEF Quiet, net
  <1>3. ASSUME NEW n \in Nodes, NEW m \in Nodes,
               \/ JoinDenied(n) \/ JoinUnanswered(n) \/ JoinSpread(n) \/ RemoveSpread(n)
               \/ JoinRequest(m, n) \/ RemoveNode(n, m) \/ RemoveStamp(n) \/ RemoveAbandoned(n)
        PROVE  OwnEntry'
    <2>1. UNCHANGED <<desc, saved, online, leaving>>
      BY <1>3 DEF JoinDenied, JoinUnanswered, JoinSpread, RemoveSpread, JoinRequest, RemoveNode,
                  RemoveStamp, RemoveAbandoned, net
    <2>. QED
      BY <1>1, <2>1
  <1>4. ASSUME NEW s, ConnectionFails(s)
        PROVE  OwnEntry'
    BY <1>1, <1>4 DEF ConnectionFails, net
  <1>5. ASSUME NEW n \in Nodes, NEW d \in Descriptions, Update(n, d), n \in online,
               UNCHANGED <<saved, online>>
        PROVE  OwnEntry'
    <2>1. PICK list \in Seq(Entries) :
            /\ Members(list) = Members(d.list)
            /\ desc' = [desc EXCEPT ![n] = [time |-> d.time, list |-> list]]
            /\ leaving' = IF n \notin Members(d.list) THEN leaving \cup {n} ELSE leaving
      BY <1>5, UpdateEffect DEF NetTyped
    <2>2. desc'[n].list = list /\ \A k \in Nodes : k # n => desc'[k] = desc[k]
      BY <1>0, <2>1
    <2>3. OwnAt(n)'
      BY <1>a, <1>5, <2>1, <2>2 DEF OwnAt, Listed
    <2>4. \A k \in Nodes : k # n => OwnAt(k)'
      BY <1>b, <1>5, <2>1, <2>2
    <2>. QED
      BY <2>3, <2>4 DEF OwnEntry
  <1>6. ASSUME NEW s \in DOMAIN sess, NEW n \in Ends(s), Adopt(s, n)
        PROVE  OwnEntry'
    BY <1>0, <1>5, <1>6, FieldsTyped DEF Adopt, Serving
  <1>7. ASSUME NEW n \in Nodes, RemoveUpdate(n)
        PROVE  OwnEntry'
    BY <1>5, <1>7, WorkTyped DEF RemoveUpdate, Stamped, NetTyped
  <1>8. ASSUME NEW n \in Nodes, JoinServed(n)
        PROVE  OwnEntry'
    <2> DEFINE list == Append(desc[n].list, Entry(joining[n].node, NextIndex(desc[n].list)))
    <2>1. /\ Listed(n, n) /\ joining[n] # None /\ n \in online /\ desc[n].list # <<>>
          /\ desc' = [desc EXCEPT ![n] = [time |-> clock', list |-> list]]
          /\ UNCHANGED <<saved, online, leaving>>
      BY <1>8 DEF JoinServed, Listed, Members
    <2>2. Members(list) = Members(desc[n].list) \cup {joining[n].node}
      BY <2>1, WorkTyped, AppendedMembers DEF NetTyped
    <2>. HIDE DEF list
    <2>3. desc'[n].list = list /\ \A k \in Nodes : k # n => desc'[k] = desc[k]
      BY <1>0, <2>1
    <2>4. OwnAt(n)'
      BY <1>a, <2>1, <2>2, <2>3 DEF OwnAt, Listed
    <2>5. \A k \in Nodes : k # n => OwnAt(k)'
      BY <1>b, <2>1, <2>3
    <2>. QED
      BY <2>4, <2>5 DEF OwnEntry
  <1>9. ASSUME NEW n \in Nodes, JoinAnswered(n)
        PROVE  OwnEntry'
    <2>0. PICK x \in Nodes : x = joining[n].node
      BY <1>9, WorkTyped DEF JoinAnswered, NetTyped
    <2>1. /\ desc' = [desc EXCEPT ![x] = joining[n].net] \/ UNCHANGED desc
          /\ joining[n] # None /\ joining[n].pc = "answer"
          /\ UNCHANGED <<saved, online, leaving>>
      BY <1>9, <2>0 DEF JoinAnswered
    <2>2. x \notin online /\ x \in Members(joining[n].net.list)
      BY <2>0, <2>1 DEF Joins
    <2>3. CASE UNCHANGED desc
      BY <1>1, <2>1, <2>3
    <2>4. CASE desc' = [desc EXCEPT ![x] = joining[n].net]
      <3>1. desc'[x].list = joining[n].net.list /\ \A k \in Nodes : k # x => desc'[k] = desc[k]
        BY <1>0, <2>2, <2>4
      <3>2. OwnAt(x)'
        BY <1>a, <2>1, <2>2, <3>1 DEF OwnAt, Listed
      <3>3. \A k \in Nodes : k # x => OwnAt(k)'
        BY <1>b, <2>1, <3>1
      <3>. QED
        BY <3>2, <3>3 DEF OwnEntry
    <2>. QED
      BY <2>1, <2>3, <2>4
  <1>10. ASSUME NEW n \in Nodes, CloseStep(n)
         PROVE  OwnEntry'
    <2>1. online' = online \ {n} /\ leaving' = leaving \ {n}
      BY <1>10, CloseSteps, ClosedSessions
    <2>2. \/ n \in online \ leaving /\ UNCHANGED <<desc, saved>>
          \/ n \notin leaving /\ UNCHANGED desc /\ saved' = [saved EXCEPT ![n] = desc[n]]
          \/ UNCHANGED saved /\ desc' = [desc EXCEPT ![n] = saved[n]]
          \/ UNCHANGED saved /\ desc' = [desc EXCEPT ![n] = NoNet]
      BY <1>10 DEF CloseStep, ServerNetDisconnect, ServerShutdown, Crash, Leave
    <2>3. \A k \in Nodes : k # n => desc'[k] = desc[k] /\ saved'[k] = saved[k]
      BY <1>0, <2>2
    <2>4. \/ n \notin leaving /\ desc'[n] = desc[n] /\ (saved'[n] = saved[n] \/ saved'[n] = desc[n])
          \/ saved'[n] = saved[n] /\ (desc'[n] = saved[n] \/ desc'[n] = NoNet)
      BY <1>0, <2>2
    <2>5. OwnAt(n)'
      BY <1>a, <2>1, <2>4 DEF OwnAt, Listed
    <2>6. \A k \in Nodes : k # n => OwnAt(k)'
      BY <1>b, <2>1, <2>3
    <2>. QED
      BY <2>5, <2>6 DEF OwnEntry
  <1>11. ASSUME NEW n \in Nodes, ServerNetConnect(n)
         PROVE  OwnEntry'
    <2>1. Listed(n, n) /\ online' = online \cup {n} /\ UNCHANGED <<desc, saved, leaving>>
      BY <1>11 DEF ServerNetConnect
    <2>2. OwnAt(n)'
      BY <1>a, <2>1 DEF OwnAt, Listed
    <2>3. \A k \in Nodes : k # n => OwnAt(k)'
      BY <1>b, <2>1
    <2>. QED
      BY <2>2, <2>3 DEF OwnEntry
  <1>12. ASSUME NEW n \in Nodes, ServerNetForget(n)
         PROVE  OwnEntry'
    <2>1. n \notin online /\ desc' = [desc EXCEPT ![n] = NoNet] /\ UNCHANGED <<saved, online,
          leaving>>
      BY <1>12 DEF ServerNetForget
    <2>2. desc'[n] = NoNet /\ \A k \in Nodes : k # n => desc'[k] = desc[k]
      BY <1>0, <2>1
    <2>3. OwnAt(n)'
      BY <1>a, <2>1, <2>2 DEF OwnAt, Listed
    <2>4. \A k \in Nodes : k # n => OwnAt(k)'
      BY <1>b, <2>1, <2>2
    <2>. QED
      BY <2>3, <2>4 DEF OwnEntry
  <1>13. CASE UNCHANGED netVars
    BY <1>1, <1>13 DEF netVars, net
  <1>. QED
    BY <1>2, <1>3, <1>4, <1>6, <1>7, <1>8, <1>9, <1>10, <1>11, <1>12, <1>13,
       NetSteps, HandshakeQuiet, TalkQuiet, CallQuiet

\* A node that has adopted a description without itself (UpdateNetNodesWithNet) runs
\* LeaveCurrentNetThread: when nothing is under way, every node that is online is on
\* its own list.
THEOREM ExclusionHolds == NetSpec => []ExclusionObeyed
  <1>1. NetInit => NetTyped /\ Joins /\ OwnEntry
    BY TopologyAssumption, NetInitTyped, OwnInit
  <1>2. NetTyped /\ Joins /\ OwnEntry /\ [NetNext]_netVars => NetTyped' /\ Joins' /\ OwnEntry'
    BY TopologyAssumption, NetTypedStep, OwnStep
  <1>3. NetTyped /\ OwnEntry => ExclusionObeyed
    BY DEF ExclusionObeyed, Settled, OwnEntry, OwnAt, NetTyped, OnlineOnly
  <1>. QED
    BY <1>1, <1>2, <1>3, PTL DEF NetSpec

-----------------------------------------------------------------------------
(* Threads *)

\* The threads of a node that is off have ended; a caller waits until it is answered.
Threads ==
  \A s \in DOMAIN sess :
    /\ \A n \in Ends(s) : n \notin online => sess[s].pc[n] = "closed"
    /\ sess[s].pc[sess[s].to] = "new" => sess[s].pc[sess[s].from] \in {"ask", "closed"}

\* The two ends of a session.
LEMMA EndsAre ==
  ASSUME sess \in Seq(AllSessions), NEW t \in DOMAIN sess
  PROVE  /\ Ends(t) = {sess[t].from, sess[t].to} /\ sess[t].from # sess[t].to
         /\ sess[t].from \in Ends(t) /\ sess[t].to \in Ends(t) /\ Ends(t) \subseteq Nodes
         /\ Peer(t, sess[t].from) = sess[t].to /\ Peer(t, sess[t].to) = sess[t].from
  BY FieldsTyped DEF Ends, Peer

\* The ends of a session never change.
LEMMA EndsStay ==
  ASSUME sess \in Seq(AllSessions), Alike(sess')
  PROVE  /\ DOMAIN sess' = DOMAIN sess
         /\ \A t \in DOMAIN sess : /\ Ends(t)' = Ends(t)
                                   /\ sess'[t].from = sess[t].from /\ sess'[t].to = sess[t].to
         /\ \A t \in DOMAIN sess : \A e, f : f = Peer(t, e) => (f = Peer(t, e))'
  BY DEF Alike, Ends, Peer

\* A step that keeps the sessions, and ends the threads of the nodes it switches off.
LEMMA ThreadsKept ==
  ASSUME NetTyped, Threads, Alike(sess'),
         \A t \in DOMAIN sess : \A e \in Ends(t) :
           /\ \/ sess'[t].pc[e] = sess[t].pc[e] /\ (e \in online' \/ e \notin online)
              \/ sess'[t].pc[e] = "closed"
              \/ e \in online' /\ sess[t].pc[e] \notin {"new", "ask", "closed"}
                               /\ sess'[t].pc[e] # "new"
  PROVE  Threads'
  <1>0. sess \in Seq(AllSessions)
    BY DEF NetTyped, ConnectionsTyped
  <1>1. ASSUME NEW t \in DOMAIN sess
        PROVE  /\ \A n \in Ends(t) : n \notin online' => sess'[t].pc[n] = "closed"
               /\ sess'[t].pc[sess[t].to] = "new" => sess'[t].pc[sess[t].from] \in {"ask", "closed"}
    <2>1. /\ \A n \in Ends(t) : n \notin online => sess[t].pc[n] = "closed"
          /\ sess[t].pc[sess[t].to] = "new" => sess[t].pc[sess[t].from] \in {"ask", "closed"}
      BY DEF Threads
    <2>2. sess[t].from \in Ends(t) /\ sess[t].to \in Ends(t)
      BY <1>0, EndsAre
    <2>3. \A n \in Ends(t) : n \notin online' => sess'[t].pc[n] = "closed"
      BY <2>1
    <2>4. sess'[t].pc[sess[t].to] = "new" => sess[t].pc[sess[t].to] = "new"
      <3>1. "closed" # "new"
        OBVIOUS
      <3>. QED
        BY <2>2, <3>1
    <2>5. sess[t].pc[sess[t].from] \in {"ask", "closed"}
            => sess'[t].pc[sess[t].from] \in {"ask", "closed"}
      BY <2>2
    <2>. QED
      BY <2>1, <2>3, <2>4, <2>5
  <1>. QED
    BY <1>0, <1>1, EndsStay DEF Threads

\* Every step keeps the rules of the threads.
LEMMA ThreadsStep ==
  ASSUME TopologyAssumption, NetTyped, Threads, [NetNext]_netVars
  PROVE  Threads'
  <1>0. sess \in Seq(AllSessions) /\ Alike(sess)
    BY SelfAlike DEF NetTyped, ConnectionsTyped
  <1>a. DescriptionsTyped /\ ConnectionsTyped
    BY DEF NetTyped
  <1>1. ASSUME UNCHANGED sess, \A n \in Nodes : n \in online' \/ n \notin online
        PROVE  Threads'
    <2>1. Alike(sess')
      BY <1>1 DEF Alike
    <2>. QED
      BY <1>0, <1>1, <2>1, EndsAre, ThreadsKept
  <1>2. ASSUME Quiet
        PROVE  UNCHANGED online
    BY <1>2 DEF Quiet, net
  <1>3. ASSUME NEW n \in Nodes, CallStep(n)
        PROVE  Threads'
    <2>1. PICK m \in Nodes : Reconnect(n, m)
      BY <1>3 DEF CallStep
    <2>a. PICK k : Called(sess', k, n, m)
      BY <1>a, <2>1, ReconnectEffect
    <2>2. /\ DOMAIN sess' = DOMAIN sess \cup {k}
          /\ \A t \in DOMAIN sess : sess'[t] = sess[t]
          /\ n # m /\ sess'[k].from = n /\ sess'[k].to = m
          /\ sess'[k].pc[n] = "ask" /\ sess'[k].pc[m] = "new"
      BY <2>a DEF Called
    <2>3. UNCHANGED online /\ n \in online /\ m \in online
      BY <2>1 DEF Reconnect, net
    <2>4. ASSUME NEW t \in DOMAIN sess
          PROVE  /\ \A e \in Ends(t)' : e \notin online' => sess'[t].pc[e] = "closed"
                 /\ sess'[t].pc[sess'[t].to] = "new"
                      => sess'[t].pc[sess'[t].from] \in {"ask", "closed"}
      <3>1. sess'[t] = sess[t] /\ Ends(t)' = Ends(t)
        BY <2>2 DEF Ends
      <3>. QED
        BY <2>3, <3>1 DEF Threads
    <2>5. /\ \A e \in Ends(k)' : e \notin online' => sess'[k].pc[e] = "closed"
          /\ sess'[k].pc[sess'[k].to] = "new" => sess'[k].pc[sess'[k].from] \in {"ask", "closed"}
      <3>1. Ends(k)' = {n, m}
        BY <2>2 DEF Ends
      <3>. QED
        BY <2>2, <2>3, <3>1
    <2>. QED
      BY <2>2, <2>4, <2>5 DEF Threads
  <1>4. ASSUME NEW s \in DOMAIN sess, HandshakeStep(s)
        PROVE  Threads'
    <2> DEFINE n == sess[s].from
               m == sess[s].to
    <2>0. /\ n \in Ends(s) /\ m \in Ends(s) /\ n # m /\ Ends(s) = {n, m}
      BY <1>0, EndsAre
    <2>1. UNCHANGED online
      BY <1>4, <1>2, HandshakeQuiet
    <2>2. CASE HandshakeAccepted(s)
      <3>1. PICK q \in {"answered", "closed"} :
              /\ Alike(sess')
              /\ \A t \in DOMAIN sess : \A e \in Ends(t) :
                   sess'[t].pc[e] = IF t # s THEN sess[t].pc[e] ELSE IF e = m THEN "read" ELSE q
        BY <2>2, AcceptedEffect DEF NetTyped
      <3>2. m \in online /\ sess[s].pc[n] = "ask"
        BY <2>2 DEF HandshakeAccepted, Serving
      <3>3. n \in online
        BY <2>0, <3>2 DEF Threads
      <3>4. /\ \A t \in DOMAIN sess : t # s => \A e \in Ends(t) : sess'[t].pc[e] = sess[t].pc[e]
            /\ sess'[s].pc[m] = "read" /\ sess'[s].pc[n] = q
        BY <2>0, <3>1
      <3>5. ASSUME NEW t \in DOMAIN sess, NEW e \in Ends(t), e \notin online'
            PROVE  sess'[t].pc[e] = "closed"
        BY <2>0, <2>1, <3>2, <3>3, <3>4, <3>5 DEF Threads
      <3>6. ASSUME NEW t \in DOMAIN sess, sess'[t].pc[sess[t].to] = "new"
            PROVE  sess'[t].pc[sess[t].from] \in {"ask", "closed"}
        <4>1. t # s
          BY <3>4, <3>6
        <4>. QED
          BY <1>0, <3>4, <3>6, <4>1, EndsAre DEF Threads
      <3>. QED
        BY <1>0, <3>1, <3>5, <3>6, EndsStay DEF Threads
    <2>3. CASE HandshakeRefused(s) \/ HandshakeStranded(s)
      <3>1. /\ Alike(sess')
            /\ \A t \in DOMAIN sess : \A e \in Ends(t) :
                 sess'[t].pc[e] = IF t # s THEN sess[t].pc[e] ELSE "closed"
        BY <2>3, RefusedEffect DEF NetTyped
      <3>. QED
        BY <2>1, <3>1, ThreadsKept
    <2>4. CASE HandshakeLost(s)
      <3>1. sess' = Turn(s, n, "closed", NoNet)
        BY <2>4 DEF HandshakeLost
      <3>2. /\ Alike(sess')
            /\ \A t \in DOMAIN sess : \A e \in Ends(t) :
                 sess'[t].pc[e] = IF t = s /\ e = n THEN "closed" ELSE sess[t].pc[e]
        BY <2>0, <3>1, ClosedEffect DEF NetTyped
      <3>. QED
        BY <2>1, <3>2, ThreadsKept
    <2>5. CASE HandshakeFinished(s) /\ s \notin broken /\ ConnectNode(n, m)
      <3>1. /\ Alike(sess')
            /\ \A t \in DOMAIN sess : \A e \in Ends(t) :
                 sess'[t].pc[e] = IF t = s /\ e = n THEN "read" ELSE sess[t].pc[e]
        BY <1>a, <2>5, FinishedEffect
      <3>2. n \in online /\ sess[s].pc[n] = "answered"
        BY <2>5 DEF HandshakeFinished, Serving
      <3>. QED
        BY <2>1, <3>1, <3>2, ThreadsKept
    <2>6. CASE HandshakeFinished(s) /\ ~(s \notin broken /\ ConnectNode(n, m))
      <3>1. sess' = Turn(s, n, "closed", NoNet)
        BY <2>6 DEF HandshakeFinished
      <3>2. /\ Alike(sess')
            /\ \A t \in DOMAIN sess : \A e \in Ends(t) :
                 sess'[t].pc[e] = IF t = s /\ e = n THEN "closed" ELSE sess[t].pc[e]
        BY <2>0, <3>1, ClosedEffect DEF NetTyped
      <3>. QED
        BY <2>1, <3>2, ThreadsKept
    <2>. QED
      BY <1>4, <2>2, <2>3, <2>4, <2>5, <2>6 DEF HandshakeStep
  <1>5. ASSUME NEW s \in DOMAIN sess, NEW n \in Ends(s), UNCHANGED online, n \in online,
               Alike(sess'),
               sess[s].pc[n] \notin {"new", "ask", "closed"}, sess'[s].pc[n] # "new",
               \A t \in DOMAIN sess : \A e \in Ends(t) :
                 t # s \/ e # n => sess'[t].pc[e] = sess[t].pc[e]
        PROVE  Threads'
    BY <1>5, ThreadsKept
  <1>6. ASSUME NEW s \in DOMAIN sess, NEW n \in Ends(s), TalkStep(s, n)
        PROVE  Threads'
    <2>1. UNCHANGED online
      BY <1>6, <1>2, TalkQuiet
    <2>2. n \in online /\ sess[s].pc[n] \notin {"new", "ask", "closed"}
      BY <1>6 DEF TalkStep, SessionEnds, Receive, Spread, Reply, Serving
    <2>3. CASE SessionEnds(s, n)
      <3>1. sess' = Turn(s, n, "closed", NoNet)
        BY <2>3 DEF SessionEnds
      <3>2. /\ Alike(sess')
            /\ \A t \in DOMAIN sess : \A e \in Ends(t) :
                 sess'[t].pc[e] = IF t = s /\ e = n THEN "closed" ELSE sess[t].pc[e]
        BY <3>1, ClosedEffect DEF NetTyped
      <3>. QED
        BY <2>1, <3>2, ThreadsKept
    <2>4. CASE Receive(s, n)
      <3>1. /\ Alike(sess')
            /\ \A t \in DOMAIN sess : \A e \in Ends(t) :
                 sess'[t].pc[e] = IF t = s /\ e = n THEN LabelFor(Head(sess[s].box[n]), desc[n])
                                                    ELSE sess[t].pc[e]
        BY <2>4, ReceiveEffect
      <3>2. sess'[s].pc[n] # "new"
        BY <3>1 DEF LabelFor
      <3>. QED
        BY <1>5, <2>1, <2>2, <3>1, <3>2
    <2>5. CASE Spread(s, n) \/ Reply(s, n)
      <3>1. /\ Alike(sess')
            /\ \A t \in DOMAIN sess : \A e \in Ends(t) :
                 sess'[t].pc[e] = IF t = s /\ e = n THEN "read" ELSE sess[t].pc[e]
        <4>1. CASE Spread(s, n)
          BY <4>1, SpreadEffect
        <4>2. CASE Reply(s, n)
          BY <4>2, ReplyEffect
        <4>. QED
          BY <2>5, <4>1, <4>2
      <3>2. sess'[s].pc[n] # "new"
        BY <3>1
      <3>. QED
        BY <1>5, <2>1, <2>2, <3>1, <3>2
    <2>. QED
      BY <1>6, <2>3, <2>4, <2>5 DEF TalkStep
  <1>7. ASSUME NEW s \in DOMAIN sess, NEW n \in Ends(s), Adopt(s, n)
        PROVE  Threads'
    <2>1. UNCHANGED online /\ n \in online /\ sess[s].pc[n] \notin {"new", "ask", "closed"}
      BY <1>7 DEF Adopt, Serving
    <2>2. /\ Alike(sess') /\ sess'[s].pc[n] \in {"read", "spread"}
          /\ \A t \in DOMAIN sess : \A e \in Ends(t) :
               t # s \/ e # n => sess'[t].pc[e] = sess[t].pc[e]
      BY <1>7, AdoptEffect
    <2>3. sess'[s].pc[n] # "new"
      BY <2>2
    <2>. QED
      BY <1>5, <2>1, <2>2, <2>3
  <1>8. ASSUME NEW n \in Nodes, CloseStep(n)
        PROVE  Threads'
    <2>1. /\ Alike(sess') /\ online' = online \ {n}
          /\ \A t \in DOMAIN sess : \A e \in Ends(t) :
               sess'[t].pc[e] = IF e = n THEN "closed" ELSE sess[t].pc[e]
      BY <1>8, CloseSteps, ClosedSessions
    <2>. QED
      BY <2>1, ThreadsKept
  <1>9. ASSUME NEW n \in Nodes, JoinSpread(n) \/ RemoveSpread(n)
        PROVE  Threads'
    <2>1. /\ Alike(sess')
          /\ \A t \in DOMAIN sess : \A e \in Ends(t) : sess'[t].pc[e] = sess[t].pc[e]
      BY <1>9, JoinSpreadEffect, RemoveSpreadEffect
    <2>2. UNCHANGED online
      BY <1>9 DEF JoinSpread, RemoveSpread, net
    <2>. QED
      BY <2>1, <2>2, ThreadsKept
  <1>10. ASSUME NEW s, ConnectionFails(s)
         PROVE  Threads'
    BY <1>1, <1>10 DEF ConnectionFails, net
  <1>11. ASSUME NEW n \in Nodes, NEW m \in Nodes,
                \/ ServerNetConnect(n) \/ ServerNetForget(n) \/ JoinServed(n) \/ JoinDenied(n)
                \/ JoinAnswered(n) \/ JoinUnanswered(n) \/ RemoveUpdate(n) \/ JoinRequest(m, n)
                \/ RemoveNode(n, m) \/ RemoveStamp(n) \/ RemoveAbandoned(n)
         PROVE  Threads'
    <2>1. UNCHANGED sess /\ (UNCHANGED online \/ online' = online \cup {n})
      BY <1>11 DEF ServerNetConnect, ServerNetForget, JoinServed, JoinDenied, JoinAnswered,
                   JoinUnanswered, RemoveUpdate, JoinRequest, RemoveNode, RemoveStamp,
                   RemoveAbandoned, net
    <2>. QED
      BY <1>1, <2>1
  <1>12. CASE UNCHANGED netVars
    BY <1>1, <1>12 DEF netVars, net
  <1>. QED
    BY <1>3, <1>4, <1>6, <1>7, <1>8, <1>9, <1>10, <1>11, <1>12, NetSteps

-----------------------------------------------------------------------------
(* Entries and threads belong together *)

\* The entry of a node holds a session with it, and, unless they have parted, a thread
\* serves the session that the entry holds, and only this one.
EntryHeld(n, m) ==
  sock[n][m] # None => /\ Ends(sock[n][m]) = {n, m}
                       /\ {n, m} \notin parted => sess[sock[n][m]].pc[n] \in Working
EntryServed(t, e) ==
  sess[t].pc[e] \in Working /\ Ends(t) \notin parted => sock[e][Peer(t, e)] = t

Paired ==
  /\ \A n, m \in Nodes : EntryHeld(n, m)
  /\ \A t \in DOMAIN sess : \A e \in Ends(t) : EntryServed(t, e)

\* What is to be shown of a step that adds no session.
LEMMA PairedKept ==
  ASSUME NetTyped, Alike(sess'), sock' \in [Nodes -> [Nodes -> DOMAIN sess \cup {None}]],
         \A n, m \in Nodes : sock'[n][m] # None =>
           /\ Ends(sock'[n][m]) = {n, m}
           /\ {n, m} \notin parted' => sess'[sock'[n][m]].pc[n] \in Working,
         \A t \in DOMAIN sess : \A e \in Ends(t) :
           sess'[t].pc[e] \in Working /\ Ends(t) \notin parted' => sock'[e][Peer(t, e)] = t
  PROVE  Paired'
  <1>0. sess \in Seq(AllSessions)
    BY DEF NetTyped, ConnectionsTyped
  <1>1. ASSUME NEW n \in Nodes, NEW m \in Nodes
        PROVE  EntryHeld(n, m)'
    <2>1. PICK t \in DOMAIN sess \cup {None} : t = sock'[n][m]
      OBVIOUS
    <2>2. CASE t = None
      BY <2>1, <2>2 DEF EntryHeld
    <2>3. CASE t # None
      <3>1. t \in DOMAIN sess /\ Ends(t) = {n, m} /\ ({n, m} \notin parted'
              => sess'[t].pc[n] \in Working)
        BY <2>1, <2>3
      <3>2. Ends(t)' = Ends(t)
        BY <1>0, <3>1, EndsStay
      <3>3. Ends(sock[n][m])' = {n, m}
        BY <2>1, <3>1, <3>2 DEF Ends
      <3>. QED
        BY <2>1, <3>1, <3>3 DEF EntryHeld
    <2>. QED
      BY <2>2, <2>3
  <1>2. ASSUME NEW t \in DOMAIN sess, NEW e \in Ends(t)
        PROVE  EntryServed(t, e)'
    <2>1. Ends(t)' = Ends(t)
      BY <1>0, EndsStay
    <2>2. PICK f : f = Peer(t, e)
      OBVIOUS
    <2>3. Peer(t, e)' = f
      BY <1>0, <2>2, EndsStay
    <2>. QED
      BY <2>1, <2>2, <2>3 DEF EntryServed
  <1>3. DOMAIN sess' = DOMAIN sess /\ \A t \in DOMAIN sess : Ends(t)' = Ends(t)
    BY <1>0, EndsStay
  <1>. QED
    BY <1>1, <1>2, <1>3 DEF Paired

\* A step after which the same threads serve the same entries.
LEMMA PairedSame ==
  ASSUME NetTyped, Paired, Alike(sess'), UNCHANGED <<sock, parted>>,
         \A t \in DOMAIN sess : \A e \in Ends(t) :
           sess'[t].pc[e] \in Working <=> sess[t].pc[e] \in Working
  PROVE  Paired'
  <1>1. sock \in [Nodes -> [Nodes -> DOMAIN sess \cup {None}]]
    BY DEF NetTyped, ConnectionsTyped
  <1>2. ASSUME NEW n \in Nodes, NEW m \in Nodes, sock[n][m] # None
        PROVE  /\ Ends(sock[n][m]) = {n, m}
               /\ {n, m} \notin parted => sess'[sock[n][m]].pc[n] \in Working
    <2>1. sock[n][m] \in DOMAIN sess
      BY <1>1, <1>2
    <2>2. /\ Ends(sock[n][m]) = {n, m} /\ n \in Ends(sock[n][m])
          /\ {n, m} \notin parted => sess[sock[n][m]].pc[n] \in Working
      BY <1>2 DEF Paired, EntryHeld
    <2>. QED
      BY <2>1, <2>2
  <1>3. \A t \in DOMAIN sess : \A e \in Ends(t) :
           sess'[t].pc[e] \in Working /\ Ends(t) \notin parted' => sock'[e][Peer(t, e)] = t
    BY DEF Paired, EntryServed
  <1>. QED
    BY <1>1, <1>2, <1>3, PairedKept

\* A node has dropped some entries; those that a thread served have parted.
LEMMA PairedDropped ==
  ASSUME NetTyped, Paired, Alike(sess'), NEW n \in Nodes, NEW K \in SUBSET Nodes,
         sock' = [sock EXCEPT ![n] = [m \in Nodes |-> IF m \in K THEN sock[n][m] ELSE None]],
         parted' = parted \cup {{n, m} : m \in {k \in Nodes \ K : sock[n][k] # None}},
         \A t \in DOMAIN sess : \A e \in Ends(t) :
           sess'[t].pc[e] \in Working <=> sess[t].pc[e] \in Working
  PROVE  Paired'
  <1>0. sess \in Seq(AllSessions) /\ sock \in [Nodes -> [Nodes -> DOMAIN sess \cup {None}]]
        /\ None \notin Nat
    BY TopologyAssumption DEF NetTyped, ConnectionsTyped, TopologyAssumption
  <1>1. sock' \in [Nodes -> [Nodes -> DOMAIN sess \cup {None}]]
    BY <1>0
  <1>2. \A k, m \in Nodes : sock'[k][m] = IF k = n /\ m \notin K THEN None ELSE sock[k][m]
    BY <1>0
  <1>3. ASSUME NEW k \in Nodes, NEW m \in Nodes, sock'[k][m] # None
        PROVE  /\ Ends(sock'[k][m]) = {k, m}
               /\ {k, m} \notin parted' => sess'[sock'[k][m]].pc[k] \in Working
    <2>1. PICK t \in DOMAIN sess : t = sock[k][m] /\ t = sock'[k][m] /\ t # None
      BY <1>0, <1>2, <1>3
    <2>2. /\ Ends(t) = {k, m} /\ k \in Ends(t)
          /\ {k, m} \notin parted => sess[t].pc[k] \in Working
      BY <2>1 DEF Paired, EntryHeld
    <2>. QED
      BY <2>1, <2>2
  <1>4. ASSUME NEW t \in DOMAIN sess, NEW e \in Ends(t),
               sess'[t].pc[e] \in Working, Ends(t) \notin parted'
        PROVE  sock'[e][Peer(t, e)] = t
    <2>1. e \in Nodes /\ Peer(t, e) \in Nodes /\ Ends(t) = {e, Peer(t, e)} /\ t # None
      BY <1>0, FieldsTyped, LenProperties, SMTT(30)
    <2>2. sock[e][Peer(t, e)] = t
      BY <1>4 DEF Paired, EntryServed
    <2>3. e = n => Peer(t, e) \in K
      BY <1>4, <2>1, <2>2
    <2>. QED
      BY <1>2, <2>1, <2>2, <2>3
  <1>. QED
    BY <1>1, <1>3, <1>4, PairedKept

\* No entry has a socket at first.
LEMMA PairedInit ==
  ASSUME NetInit
  PROVE  Paired
  BY DEF NetInit, AllOff, Paired, EntryHeld

\* Every step keeps entries and threads together, or counts the pair as parted.
LEMMA PairedStep ==
  ASSUME TopologyAssumption, NetTyped, Threads, Paired, [NetNext]_netVars
  PROVE  Paired'
  <1>0. /\ sess \in Seq(AllSessions) /\ Alike(sess) /\ None \notin Nat
        /\ sock \in [Nodes -> [Nodes -> DOMAIN sess \cup {None}]]
    BY SelfAlike DEF NetTyped, ConnectionsTyped, TopologyAssumption
  <1>a. DescriptionsTyped /\ ConnectionsTyped /\ DOMAIN sess \subseteq Nat
    BY <1>0, LenProperties DEF NetTyped
  <1>b. /\ {"new", "ask", "answered", "closed"} \cap Working = {}
        /\ "read" \in Working /\ "spread" \in Working
    BY DEF Working
  <1>1. CASE UNCHANGED <<sess, sock, parted>>
    <2>1. Alike(sess')
      BY <1>0, <1>1 DEF Alike
    <2>. QED
      BY <1>1, <2>1, PairedSame
  <1>2. ASSUME NEW n \in Nodes, CallStep(n)
        PROVE  Paired'
    <2>1. PICK m \in Nodes : Reconnect(n, m)
      BY <1>2 DEF CallStep
    <2>a. PICK c : Called(sess', c, n, m)
      BY <1>a, <2>1, ReconnectEffect
    <2>2. /\ DOMAIN sess' = DOMAIN sess \cup {c}
          /\ \A t \in DOMAIN sess : sess'[t] = sess[t]
          /\ n # m /\ sess'[c].from = n /\ sess'[c].to = m
          /\ sess'[c].pc[n] = "ask" /\ sess'[c].pc[m] = "new"
      BY <2>a DEF Called
    <2>3. UNCHANGED <<sock, parted>>
      BY <2>1 DEF Reconnect, netHistory
    <2>4. \A t \in DOMAIN sess : Ends(t)' = Ends(t)
      BY <2>2 DEF Ends
    <2>5. ASSUME NEW k \in Nodes, NEW l \in Nodes
          PROVE  EntryHeld(k, l)'
      <3>1. PICK t \in DOMAIN sess \cup {None} : t = sock[k][l] /\ t = sock'[k][l]
        BY <1>0, <2>3
      <3>2. CASE t = None
        BY <3>1, <3>2 DEF EntryHeld
      <3>3. CASE t # None
        <4>1. /\ t \in DOMAIN sess /\ Ends(t) = {k, l}
              /\ {k, l} \notin parted => sess[t].pc[k] \in Working
          BY <3>1, <3>3 DEF Paired, EntryHeld
        <4>2. Ends(sock[k][l])' = {k, l} /\ sess'[t] = sess[t]
          BY <2>2, <3>1, <4>1 DEF Ends
        <4>. QED
          BY <2>3, <3>1, <4>1, <4>2 DEF EntryHeld
      <3>. QED
        BY <3>2, <3>3
    <2>6. ASSUME NEW t \in DOMAIN sess, NEW e \in Ends(t)
          PROVE  EntryServed(t, e)'
      <3>1. sess'[t] = sess[t]
        BY <2>2
      <3>2. PICK f : f = Peer(t, e)
        OBVIOUS
      <3>3. Peer(t, e)' = f
        BY <3>1, <3>2 DEF Peer
      <3>. QED
        BY <2>3, <2>4, <3>1, <3>2, <3>3 DEF EntryServed, Paired
    <2>7. \A e \in Ends(c)' : EntryServed(c, e)'
      <3>1. Ends(c)' = {n, m}
        BY <2>2 DEF Ends
      <3>. QED
        BY <1>b, <2>2, <3>1 DEF EntryServed
    <2>. QED
      BY <2>2, <2>4, <2>5, <2>6, <2>7 DEF Paired
  \* A session s gets a socket at its end n, and there a thread or the mark that it has none.
  <1>3. ASSUME NEW s \in DOMAIN sess, NEW n \in Ends(s), NEW m \in Ends(s), n # m,
               sock[n][m] = None, sock' = [sock EXCEPT ![n][m] = s], Alike(sess'),
               parted \subseteq parted',
               sess'[s].pc[n] \in Working \/ {n, m} \in parted',
               sess[s].pc[m] \notin Working => sess'[s].pc[m] \notin Working,
               sess[s].pc[m] \in Working => sess'[s].pc[m] \in Working,
               \A t \in DOMAIN sess : t # s =>
                 \A e \in Ends(t) : sess'[t].pc[e] \in Working <=> sess[t].pc[e] \in Working
        PROVE  Paired'
    <2>1. n \in Nodes /\ m \in Nodes /\ Ends(s) = {n, m} /\ Peer(s, n) = m /\ Peer(s, m) = n
      BY <1>0, <1>3, FieldsTyped
    <2>2. sock' \in [Nodes -> [Nodes -> DOMAIN sess \cup {None}]]
      BY <1>0, <1>3, <2>1
    <2>3. \A k, l \in Nodes : sock'[k][l] = IF k = n /\ l = m THEN s ELSE sock[k][l]
      BY <1>0, <1>3, <2>1
    <2>4. ASSUME NEW k \in Nodes, NEW l \in Nodes, sock'[k][l] # None
          PROVE  /\ Ends(sock'[k][l]) = {k, l}
                 /\ {k, l} \notin parted' => sess'[sock'[k][l]].pc[k] \in Working
      <3>1. CASE k = n /\ l = m
        BY <1>3, <2>1, <2>3, <3>1
      <3>2. CASE ~(k = n /\ l = m)
        <4>1. PICK t \in DOMAIN sess : t = sock[k][l] /\ t = sock'[k][l] /\ t # None
          BY <1>0, <2>3, <2>4, <3>2
        <4>2. /\ Ends(t) = {k, l} /\ k \in Ends(t)
              /\ {k, l} \notin parted => sess[t].pc[k] \in Working
          BY <4>1 DEF Paired, EntryHeld
        <4>3. t = s => k = m
          BY <1>3, <2>1, <3>2, <4>2
        <4>. QED
          BY <1>3, <4>1, <4>2, <4>3
      <3>. QED
        BY <3>1, <3>2
    <2>5. ASSUME NEW t \in DOMAIN sess, NEW e \in Ends(t),
                 sess'[t].pc[e] \in Working, Ends(t) \notin parted'
          PROVE  sock'[e][Peer(t, e)] = t
      <3>1. e \in Nodes /\ Peer(t, e) \in Nodes /\ Peer(t, e) # e /\ t # None
        BY <1>0, <1>a, FieldsTyped
      <3>2. CASE t = s /\ e = n
        BY <2>1, <2>3, <3>2
      <3>3. CASE ~(t = s /\ e = n)
        <4>1. sess[t].pc[e] \in Working /\ Ends(t) \notin parted
          <5>1. CASE t = s
            <6>1. e = m
              BY <2>1, <3>3, <5>1
            <6>. QED
              BY <1>3, <2>5, <5>1, <6>1
          <5>2. CASE t # s
            BY <1>3, <2>5, <5>2
          <5>. QED
            BY <5>1, <5>2
        <4>2. sock[e][Peer(t, e)] = t
          BY <4>1 DEF Paired, EntryServed
        <4>3. ~(e = n /\ Peer(t, e) = m)
          BY <1>3, <3>1, <4>2
        <4>. QED
          BY <2>3, <3>1, <4>2, <4>3
      <3>. QED
        BY <3>2, <3>3
    <2>. QED
      BY <1>3, <2>2, <2>4, <2>5, PairedKept
  <1>4. ASSUME NEW s \in DOMAIN sess, HandshakeStep(s)
        PROVE  Paired'
    <2>0. PICK n \in Ends(s), m \in Ends(s) : /\ n = sess[s].from /\ m = sess[s].to /\ n # m
                                              /\ Ends(s) = {n, m} /\ Ends(s) \subseteq Nodes
      BY <1>0, EndsAre
    <2>1. CASE HandshakeAccepted(s)
      <3>1. PICK q \in {"answered", "closed"} :
              /\ Alike(sess')
              /\ \A t \in DOMAIN sess : \A e \in Ends(t) :
                   sess'[t].pc[e] = IF t # s THEN sess[t].pc[e] ELSE IF e = sess[s].to
                     THEN "read" ELSE q
        BY <1>a, <2>1, AcceptedEffect
      <3>2. /\ sess[s].pc[n] = "ask" /\ sock[m][n] = None
            /\ sock' = [sock EXCEPT ![m][n] = s] /\ UNCHANGED parted
        BY <2>0, <2>1 DEF HandshakeAccepted, ConnectNode, netHistory
      <3>3. /\ sess'[s].pc[m] \in Working /\ sess'[s].pc[n] \notin Working
            /\ sess[s].pc[n] \notin Working
        BY <1>b, <2>0, <3>1, <3>2
      <3>4. \A t \in DOMAIN sess : t # s =>
                 \A e \in Ends(t) : sess'[t].pc[e] \in Working <=> sess[t].pc[e] \in Working
        BY <3>1
      <3>. QED
        BY <1>3, <2>0, <3>1, <3>2, <3>3, <3>4
    <2>2. ASSUME HandshakeRefused(s) \/ HandshakeStranded(s)
          PROVE  /\ Alike(sess')
                 /\ sess'[s].pc[n] \notin Working /\ sess'[s].pc[m] \notin Working
                 /\ \A t \in DOMAIN sess : \A e \in Ends(t) :
                      sess'[t].pc[e] \in Working <=> sess[t].pc[e] \in Working
      <3>1. /\ Alike(sess')
            /\ \A t \in DOMAIN sess : \A e \in Ends(t) :
                 sess'[t].pc[e] = IF t # s THEN sess[t].pc[e] ELSE "closed"
        BY <2>2, RefusedEffect DEF NetTyped
      <3>2. sess[s].pc[m] = "new"
        BY <2>0, <2>2 DEF HandshakeRefused, HandshakeStranded
      <3>3. sess[s].pc[n] \in {"ask", "closed"}
        BY <2>0, <3>2 DEF Threads
      <3>4. /\ sess[s].pc[n] \notin Working /\ sess[s].pc[m] \notin Working
            /\ sess'[s].pc[n] \notin Working /\ sess'[s].pc[m] \notin Working
        BY <1>b, <2>0, <3>1, <3>2, <3>3
      <3>. QED
        BY <2>0, <3>1, <3>4
    <2>3. CASE HandshakeRefused(s)
      <3>1. UNCHANGED <<sock, parted>>
        BY <2>3 DEF HandshakeRefused, netHistory
      <3>. QED
        BY <2>2, <2>3, <3>1, PairedSame
    <2>4. CASE HandshakeStranded(s)
      <3>1. /\ sock[m][n] = None /\ sock' = [sock EXCEPT ![m][n] = s]
            /\ parted' = parted \cup {{m, n}}
        BY <2>0, <2>4 DEF HandshakeStranded, ConnectNode
      <3>2. parted \subseteq parted' /\ {m, n} \in parted'
        BY <3>1
      <3>. QED
        BY <1>3, <2>0, <2>2, <2>4, <3>1, <3>2
    <2>5. ASSUME sess' = Turn(s, n, "closed", NoNet), sess[s].pc[n] \notin Working,
                 UNCHANGED <<sock, parted>>
          PROVE  Paired'
      <3>1. /\ Alike(sess')
            /\ \A t \in DOMAIN sess : \A e \in Ends(t) :
                 sess'[t].pc[e] = IF t = s /\ e = n THEN "closed" ELSE sess[t].pc[e]
        BY <2>5, ClosedEffect DEF NetTyped
      <3>. QED
        BY <1>b, <2>5, <3>1, PairedSame
    <2>6. CASE HandshakeLost(s)
      <3>1. /\ sess' = Turn(s, n, "closed", NoNet) /\ sess[s].pc[n] = "ask"
            /\ UNCHANGED <<sock, parted>>
        BY <2>0, <2>6 DEF HandshakeLost, netHistory
      <3>. QED
        BY <1>b, <2>5, <3>1
    <2>7. CASE HandshakeFinished(s) /\ s \notin broken /\ ConnectNode(n, m)
      <3>1. /\ Alike(sess')
            /\ \A t \in DOMAIN sess : \A e \in Ends(t) :
                 sess'[t].pc[e] = IF t = s /\ e = sess[s].from THEN "read" ELSE sess[t].pc[e]
        BY <1>a, <2>0, <2>7, FinishedEffect
      <3>2. /\ sock[n][m] = None /\ sock' = [sock EXCEPT ![n][m] = s] /\ UNCHANGED parted
        BY <2>0, <2>7 DEF HandshakeFinished, ConnectNode
      <3>3. sess'[s].pc[n] \in Working /\ sess'[s].pc[m] = sess[s].pc[m]
        BY <1>b, <2>0, <3>1
      <3>4. \A t \in DOMAIN sess : t # s =>
                 \A e \in Ends(t) : sess'[t].pc[e] \in Working <=> sess[t].pc[e] \in Working
        BY <3>1
      <3>. QED
        BY <1>3, <2>0, <3>1, <3>2, <3>3, <3>4
    <2>8. CASE HandshakeFinished(s) /\ ~(s \notin broken /\ ConnectNode(n, m))
      <3>1. /\ sess' = Turn(s, n, "closed", NoNet) /\ sess[s].pc[n] = "answered"
            /\ UNCHANGED <<sock, parted>>
        BY <2>0, <2>8 DEF HandshakeFinished
      <3>. QED
        BY <1>b, <2>5, <3>1
    <2>. QED
      BY <1>4, <2>1, <2>3, <2>4, <2>6, <2>7, <2>8 DEF HandshakeStep
  <1>5. ASSUME NEW s \in DOMAIN sess, NEW n \in Ends(s), SessionEnds(s, n)
        PROVE  Paired'
    <2>1. /\ sess' = Turn(s, n, "closed", NoNet)
          /\ sock' = [sock EXCEPT ![n] = [m \in Nodes |->
                        IF NodeAt(n, sess[s].addr[n]) = m THEN None ELSE sock[n][m]]]
          /\ parted' = parted \cup {{n, m} : m \in {k \in Nodes :
                   (sock[n][k] = s) # (sock[n][k] # None /\ sock'[n][k] = None)}}
      BY <1>5 DEF SessionEnds, FreedEntry
    <2>2. /\ Alike(sess')
          /\ \A t \in DOMAIN sess : \A e \in Ends(t) :
               sess'[t].pc[e] = IF t = s /\ e = n THEN "closed" ELSE sess[t].pc[e]
      BY <2>1, ClosedEffect DEF NetTyped
    <2>3. n \in Nodes
      BY <1>0, FieldsTyped
    <2>4. /\ sock' \in [Nodes -> [Nodes -> DOMAIN sess \cup {None}]]
          /\ \A k \in Nodes : k # n => sock'[k] = sock[k]
          /\ \A m \in Nodes : sock'[n][m] = None \/ sock'[n][m] = sock[n][m]
      BY <1>0, <2>1, <2>3
    <2>5. ASSUME NEW m \in Nodes, {n, m} \notin parted'
          PROVE  {n, m} \notin parted /\ ((sock[n][m] = s) <=> (sock[n][m] # None
                   /\ sock'[n][m] = None))
      BY <2>1, <2>5
    <2>6. ASSUME NEW k \in Nodes, NEW m \in Nodes, sock'[k][m] # None
          PROVE  /\ Ends(sock'[k][m]) = {k, m}
                 /\ {k, m} \notin parted' => sess'[sock'[k][m]].pc[k] \in Working
      <3>1. PICK t \in DOMAIN sess : t = sock[k][m] /\ t = sock'[k][m] /\ t # None
        BY <1>0, <2>4, <2>6
      <3>2. /\ Ends(t) = {k, m} /\ k \in Ends(t)
            /\ {k, m} \notin parted => sess[t].pc[k] \in Working
        BY <3>1 DEF Paired, EntryHeld
      <3>3. {k, m} \notin parted' => ~(t = s /\ k = n)
        BY <2>5, <3>1
      <3>4. parted \subseteq parted'
        BY <2>1
      <3>. QED
        BY <2>2, <3>1, <3>2, <3>3, <3>4
    <2>7. ASSUME NEW t \in DOMAIN sess, NEW e \in Ends(t),
                 sess'[t].pc[e] \in Working, Ends(t) \notin parted'
          PROVE  sock'[e][Peer(t, e)] = t
      <3>1. e \in Nodes /\ Peer(t, e) \in Nodes /\ t # None /\ Ends(t) = {e, Peer(t, e)}
        BY <1>0, <1>a, FieldsTyped
      <3>2. ~(t = s /\ e = n) /\ sess[t].pc[e] \in Working
        BY <1>b, <2>2, <2>7
      <3>3. Ends(t) \notin parted
        BY <2>1, <2>7
      <3>4. sock[e][Peer(t, e)] = t
        BY <3>2, <3>3 DEF Paired, EntryServed
      <3>5. CASE e = n
        BY <2>4, <2>5, <2>7, <3>1, <3>2, <3>4, <3>5
      <3>6. CASE e # n
        BY <2>4, <3>1, <3>4, <3>6
      <3>. QED
        BY <3>5, <3>6
    <2>. QED
      BY <2>2, <2>4, <2>6, <2>7, PairedKept
  <1>6. ASSUME NEW s \in DOMAIN sess, NEW n \in Ends(s), TalkStep(s, n), ~SessionEnds(s, n)
        PROVE  Paired'
    <2>1. sess[s].pc[n] \in Working /\ UNCHANGED <<sock, parted>>
      BY <1>6 DEF TalkStep, Receive, Spread, Reply, netHistory, Working
    <2>2. ASSUME Alike(sess'), sess'[s].pc[n] \in Working,
                 \A t \in DOMAIN sess : \A e \in Ends(t) :
                   t # s \/ e # n => sess'[t].pc[e] = sess[t].pc[e]
          PROVE  Paired'
      BY <2>1, <2>2, PairedSame
    <2>3. CASE Receive(s, n)
      <3>1. /\ Alike(sess')
            /\ \A t \in DOMAIN sess : \A e \in Ends(t) :
                 sess'[t].pc[e] = IF t = s /\ e = n THEN LabelFor(Head(sess[s].box[n]), desc[n])
                                                    ELSE sess[t].pc[e]
        BY <2>3, ReceiveEffect
      <3>2. sess'[s].pc[n] \in Working
        BY <3>1 DEF LabelFor, Working
      <3>. QED
        BY <2>2, <3>1, <3>2
    <2>4. CASE Spread(s, n)
      <3>1. /\ Alike(sess')
            /\ \A t \in DOMAIN sess : \A e \in Ends(t) :
                 sess'[t].pc[e] = IF t = s /\ e = n THEN "read" ELSE sess[t].pc[e]
        BY <2>4, SpreadEffect
      <3>. QED
        BY <1>b, <2>2, <3>1
    <2>5. CASE Reply(s, n)
      <3>1. /\ Alike(sess')
            /\ \A t \in DOMAIN sess : \A e \in Ends(t) :
                 sess'[t].pc[e] = IF t = s /\ e = n THEN "read" ELSE sess[t].pc[e]
        BY <2>5, ReplyEffect
      <3>. QED
        BY <1>b, <2>2, <3>1
    <2>. QED
      BY <1>6, <2>3, <2>4, <2>5 DEF TalkStep
  <1>7. ASSUME NEW n \in Nodes, NEW d \in Descriptions, Update(n, d), Alike(sess'),
               \A t \in DOMAIN sess : \A e \in Ends(t) :
                 sess'[t].pc[e] \in Working <=> sess[t].pc[e] \in Working
        PROVE  Paired'
    <2>1. PICK list \in Seq(Entries) :
           /\ sock' = [sock EXCEPT ![n] = [m \in Nodes |->
                    IF m \in Members(d.list) THEN sock[n][m] ELSE None]]
           /\ parted' = parted \cup {{n, m} : m \in {k \in Nodes \ Members(d.list) : sock[n][k] # None}}
      BY <1>7, UpdateEffect DEF NetTyped
    <2> DEFINE K == Members(d.list)
    <2>2. K \in SUBSET Nodes
      BY <1>7, DescriptionIs, EntryIs DEF Members
    <2>3. /\ sock' = [sock EXCEPT ![n] = [m \in Nodes |-> IF m \in K THEN sock[n][m] ELSE None]]
          /\ parted' = parted \cup {{n, m} : m \in {k \in Nodes \ K : sock[n][k] # None}}
      BY <2>1
    <2>. HIDE DEF K
    <2>. QED
      BY <1>7, <2>2, <2>3, PairedDropped
  <1>8. ASSUME NEW s \in DOMAIN sess, NEW n \in Ends(s), Adopt(s, n)
        PROVE  Paired'
    <2>1. n \in Nodes /\ sess[s].work[n] \in Descriptions
      BY <1>0, FieldsTyped
    <2>2. Update(n, sess[s].work[n]) /\ sess[s].pc[n] \in Working
      BY <1>8 DEF Adopt, Working
    <2>3. /\ Alike(sess') /\ sess'[s].pc[n] \in {"read", "spread"}
          /\ \A t \in DOMAIN sess : \A e \in Ends(t) :
               t # s \/ e # n => sess'[t].pc[e] = sess[t].pc[e]
      BY <1>8, AdoptEffect
    <2>4. \A t \in DOMAIN sess : \A e \in Ends(t) :
                 sess'[t].pc[e] \in Working <=> sess[t].pc[e] \in Working
      BY <1>b, <2>2, <2>3
    <2>. QED
      BY <1>7, <2>1, <2>2, <2>3, <2>4
  <1>9. ASSUME NEW n \in Nodes, RemoveUpdate(n)
        PROVE  Paired'
    <2>1. RemovalOf(n) \in Descriptions
      BY <1>9, WorkTyped DEF RemoveUpdate, Stamped, NetTyped
    <2>2. Update(n, RemovalOf(n)) /\ UNCHANGED sess
      BY <1>9 DEF RemoveUpdate
    <2>3. Alike(sess')
      BY <1>0, <2>2 DEF Alike
    <2>. QED
      BY <1>7, <2>1, <2>2, <2>3
  <1>10. ASSUME NEW n \in Nodes, sock' = [sock EXCEPT ![n] = [m \in Nodes |-> None]],
                UNCHANGED parted,
                Alike(sess'),
                \A t \in DOMAIN sess : \A e \in Ends(t) :
                  /\ e # n => sess'[t].pc[e] = sess[t].pc[e]
                  /\ e = n => sess'[t].pc[e] = "closed"
         PROVE  Paired'
    <2>1. /\ sock' \in [Nodes -> [Nodes -> DOMAIN sess \cup {None}]]
          /\ \A k, m \in Nodes : sock'[k][m] = IF k = n THEN None ELSE sock[k][m]
      BY <1>0, <1>10
    <2>2. ASSUME NEW k \in Nodes, NEW m \in Nodes, sock'[k][m] # None
          PROVE  /\ Ends(sock'[k][m]) = {k, m}
                 /\ {k, m} \notin parted' => sess'[sock'[k][m]].pc[k] \in Working
      <3>1. PICK t \in DOMAIN sess : t = sock[k][m] /\ t = sock'[k][m] /\ t # None /\ k # n
        BY <1>0, <2>1, <2>2
      <3>a. EntryHeld(k, m)
        BY DEF Paired
      <3>2. /\ Ends(t) = {k, m} /\ k \in Ends(t)
            /\ {k, m} \notin parted => sess[t].pc[k] \in Working
        BY <3>1, <3>a DEF EntryHeld
      <3>. QED
        BY <1>10, <3>1, <3>2
    <2>3. ASSUME NEW t \in DOMAIN sess, NEW e \in Ends(t),
                 sess'[t].pc[e] \in Working, Ends(t) \notin parted'
          PROVE  sock'[e][Peer(t, e)] = t
      <3>1. e \in Nodes /\ Peer(t, e) \in Nodes
        BY <1>0, FieldsTyped
      <3>2. e # n /\ sess[t].pc[e] \in Working
        BY <1>b, <1>10, <2>3
      <3>. QED
        BY <1>10, <2>1, <2>3, <3>1, <3>2 DEF Paired, EntryServed
    <2>. QED
      BY <1>10, <2>1, <2>2, <2>3, PairedKept
  <1>11. ASSUME NEW n \in Nodes, CloseStep(n)
         PROVE  Paired'
    <2>1. /\ Alike(sess') /\ sock' = [sock EXCEPT ![n] = [m \in Nodes |-> None]]
          /\ \A t \in DOMAIN sess : \A e \in Ends(t) :
               sess'[t].pc[e] = IF e = n THEN "closed" ELSE sess[t].pc[e]
          /\ UNCHANGED parted
      BY <1>11, CloseSteps, ClosedSessions
    <2>. QED
      BY <1>10, <2>1
  <1>12. ASSUME NEW n \in Nodes, ServerNetConnect(n)
         PROVE  Paired'
    <2>1. /\ sock' = [sock EXCEPT ![n] = [m \in Nodes |-> None]]
          /\ n \notin online /\ UNCHANGED <<sess, parted>>
      BY <1>12 DEF ServerNetConnect, netHistory
    <2>2. Alike(sess')
      BY <1>0, <2>1 DEF Alike
    <2>3. \A t \in DOMAIN sess : \A e \in Ends(t) : e = n => sess[t].pc[e] = "closed"
      BY <2>1 DEF Threads
    <2>. QED
      BY <1>10, <2>1, <2>2, <2>3
  <1>13. ASSUME NEW n \in Nodes, JoinSpread(n) \/ RemoveSpread(n)
         PROVE  Paired'
    <2>1. /\ Alike(sess')
          /\ \A t \in DOMAIN sess : \A e \in Ends(t) : sess'[t].pc[e] = sess[t].pc[e]
      BY <1>13, JoinSpreadEffect, RemoveSpreadEffect
    <2>2. UNCHANGED <<sock, parted>>
      BY <1>13 DEF JoinSpread, RemoveSpread, netHistory
    <2>. QED
      BY <2>1, <2>2, PairedSame
  <1>14. ASSUME NEW s, ConnectionFails(s)
         PROVE  Paired'
    BY <1>1, <1>14 DEF ConnectionFails, netHistory
  <1>15. ASSUME NEW n \in Nodes, NEW m \in Nodes,
                \/ ServerNetForget(n) \/ JoinServed(n) \/ JoinDenied(n) \/ JoinAnswered(n)
                \/ JoinUnanswered(n) \/ JoinRequest(m, n)
                \/ RemoveNode(n, m) \/ RemoveStamp(n) \/ RemoveAbandoned(n)
         PROVE  Paired'
    <2>1. UNCHANGED <<sess, sock, parted>>
      BY <1>15 DEF ServerNetForget, JoinServed, JoinDenied, JoinAnswered, JoinUnanswered,
                   JoinRequest, RemoveNode, RemoveStamp, RemoveAbandoned, netHistory
    <2>. QED
      BY <1>1, <2>1
  <1>16. CASE UNCHANGED netVars
    BY <1>1, <1>16 DEF netVars, netHistory
  <1>. QED
    BY <1>2, <1>4, <1>5, <1>6, <1>8, <1>9, <1>11, <1>12, <1>13, <1>14, <1>15, <1>16, NetSteps
       DEF TalkStep

\* When nothing is under way, the two ends of a session agree on it.
LEMMA PairedWhenSettled ==
  ASSUME TopologyAssumption, NetTyped, Paired
  PROVE  SocketsPaired
  <1>0. /\ sess \in Seq(AllSessions) /\ sock \in [Nodes -> [Nodes -> DOMAIN sess \cup {None}]]
        /\ online \subseteq Nodes
    BY DEF NetTyped, ConnectionsTyped, OnlineOnly
  <1>1. SUFFICES ASSUME Settled, NEW n \in online, NEW m \in online,
                        sock[n][m] # None, {n, m} \notin parted
                 PROVE  sess[sock[n][m]].pc[n] = "read" /\ sock[m][n] = sock[n][m]
    BY DEF SocketsPaired
  <1>2. PICK t \in DOMAIN sess : t = sock[n][m] /\ t # None
    BY <1>0, <1>1
  <1>3. Ends(t) = {n, m} /\ sess[t].pc[n] \in Working
    BY <1>0, <1>1, <1>2 DEF Paired, EntryHeld
  <1>4. n \in Ends(t) /\ m \in Ends(t) /\ Peer(t, n) = m /\ Peer(t, m) = n
    BY <1>0, <1>3, FieldsTyped
  <1>5. sess[t].pc[n] = "read" /\ sess[t].pc[m] = "read"
    BY <1>1, <1>3, <1>4 DEF Settled, Working
  <1>6. sock[m][n] = t
    BY <1>1, <1>3, <1>4, <1>5 DEF Paired, EntryServed, Working
  <1>. QED
    BY <1>2, <1>5, <1>6

\* Unless an entry has parted from its thread (no thread after a failed handshake, an
\* entry dropped or freed from under it), the session a node keeps for another one is the
\* one the other keeps for it, and both have a ClientThread that reads it.
THEOREM PairedHolds == NetSpec => []SocketsPaired
  <1>1. NetInit => NetTyped /\ Joins /\ Threads /\ Paired
    <2>1. NetInit => Threads
      BY DEF NetInit, Threads
    <2>. QED
      BY <2>1, TopologyAssumption, NetInitTyped, PairedInit
  <1>2. NetTyped /\ Joins /\ Threads /\ Paired /\ [NetNext]_netVars
          => NetTyped' /\ Joins' /\ Threads' /\ Paired'
    BY TopologyAssumption, NetTypedStep, ThreadsStep, PairedStep
  <1>3. NetTyped /\ Paired => SocketsPaired
    BY TopologyAssumption, PairedWhenSettled
  <1>. QED
    BY <1>1, <1>2, <1>3, PTL DEF NetSpec

-----------------------------------------------------------------------------
(* Descriptions of the same time list the same nodes *)

\* At time t, a net had the members R[t]; description d is one of those, as of time c.
Fits(R, c, d) == d.time <= c /\ Members(d.list) = R[d.time]

Rolls == [0..MaxTime -> SUBSET Nodes]
BoxFits(R, c, box) == \A k \in DOMAIN box : Fits(R, c, box[k].net)

NodeFits(R, c, n) ==
  /\ Fits(R, c, desc[n]) /\ Fits(R, c, saved[n])
  /\ Stamped(n) => Fits(R, c, RemovalOf(n))
  /\ joining[n] # None => Fits(R, c, joining[n].net)

ThreadFits(R, c, t, e) == Fits(R, c, sess[t].work[e]) /\ BoxFits(R, c, sess[t].box[e])

\* All the descriptions of one time, wherever they are, list the same nodes.
RollOf(R, c) ==
  /\ \A n \in Nodes : NodeFits(R, c, n)
  /\ \A t \in DOMAIN sess : \A e \in Ends(t) : ThreadFits(R, c, t, e)

Agreed == \E R \in Rolls : R[0] = {} /\ RollOf(R, clock)

-----------------------------------------------------------------------------

\* No net, and no message, fits every roll.
LEMMA NothingFits ==
  ASSUME TopologyAssumption, NEW R \in Rolls, R[0] = {}, NEW c \in Nat
  PROVE  Fits(R, c, NoNet) /\ BoxFits(R, c, <<>>)
  <1>1. NoNet.time = 0 /\ Members(NoNet.list) = {}
    BY NothingTyped
  <1>. QED
    BY <1>1 DEF Fits, BoxFits

\* A message that fits may be appended.
LEMMA BoxAppended ==
  ASSUME NEW R, NEW c, NEW box \in Seq(Messages), NEW m \in Messages,
         BoxFits(R, c, box), Fits(R, c, m.net)
  PROVE  BoxFits(R, c, Append(box, m))
  <1>1. /\ Len(Append(box, m)) = Len(box) + 1
        /\ \A i \in 1..Len(box) + 1 : Append(box, m)[i] = IF i <= Len(box) THEN box[i] ELSE m
        /\ Append(box, m) \in Seq(Messages)
    BY AppendRecord
  <1>2. Len(box) \in Nat /\ DOMAIN box = 1..Len(box) /\ DOMAIN Append(box, m) = 1..Len(box) + 1
    BY <1>1, LenProperties
  <1>. QED
    BY <1>1, <1>2 DEF BoxFits

\* The message that is read fits, and so do the others.
LEMMA BoxTail ==
  ASSUME NEW R, NEW c, NEW box \in Seq(Messages), box # <<>>, BoxFits(R, c, box)
  PROVE  BoxFits(R, c, Tail(box)) /\ Fits(R, c, Head(box).net)
  <1>1. /\ Head(box) = box[1] /\ Tail(box) \in Seq(Messages) /\ Len(Tail(box)) = Len(box) - 1
        /\ \A i \in 1..Len(Tail(box)) : Tail(box)[i] = box[i + 1]
    BY HeadTailProperties
  <1>2. /\ Len(box) \in Nat /\ DOMAIN box = 1..Len(box) /\ Len(box) # 0
        /\ DOMAIN Tail(box) = 1..Len(Tail(box))
    BY <1>1, LenProperties, EmptySeq
  <1>. QED
    BY <1>1, <1>2 DEF BoxFits

\* An update leaves a description of the same time with the same nodes.
LEMMA UpdateFits ==
  ASSUME NEW R, NEW c, NEW d, NEW list, Members(list) = Members(d.list), Fits(R, c, d)
  PROVE  Fits(R, c, [time |-> d.time, list |-> list])
  BY DEF Fits

\* A change at the next time joins the roll.
LEMMA RollGrows ==
  ASSUME TopologyAssumption, NEW R \in Rolls, R[0] = {}, NEW c \in 1..MaxTime, c + 1 \in 1..MaxTime,
         NEW M \in SUBSET Nodes
  PROVE  \E Q \in Rolls : /\ Q[0] = {} /\ Q[c + 1] = M
                          /\ \A d \in Descriptions : Fits(R, c, d) => Fits(Q, c + 1, d)
  <1> DEFINE Q == [R EXCEPT ![c + 1] = M]
  <1>1. MaxTime \in Nat
    BY DEF TopologyAssumption
  <1>2. Q \in Rolls
    BY <1>1 DEF Rolls
  <1>3. \A t \in 0..MaxTime : Q[t] = IF t = c + 1 THEN M ELSE R[t]
    BY <1>1 DEF Rolls
  <1>. HIDE DEF Q
  <1>4. Q[0] = {} /\ Q[c + 1] = M
    BY <1>1, <1>3
  <1>5. ASSUME NEW d \in Descriptions, Fits(R, c, d)
        PROVE  Fits(Q, c + 1, d)
    <2>1. d.time \in 0..MaxTime /\ d.time <= c
      BY <1>5, DescriptionIs DEF Fits
    <2>2. Q[d.time] = R[d.time]
      BY <1>1, <1>3, <2>1
    <2>. QED
      BY <1>1, <1>5, <2>1, <2>2 DEF Fits
  <1>. QED
    BY <1>2, <1>4, <1>5

\* A message carries its description.
LEMMA SentNet == \A d : ConnectWith(d).net = d /\ UpdateWith(d).net = d
  BY DEF ConnectWith, UpdateWith

\* The members of a list are nodes.
LEMMA ListMembers ==
  ASSUME NEW list \in Seq(Entries)
  PROVE  Members(list) \in SUBSET Nodes
  BY EntryIs DEF Members

\* All that is known fits a later roll.
LEMMA RollStays ==
  ASSUME NetTyped, NEW R, NEW c, RollOf(R, c), NEW Q, NEW b,
         \A d \in Descriptions : Fits(R, c, d) => Fits(Q, b, d)
  PROVE  RollOf(Q, b)
  <1>0. sess \in Seq(AllSessions)
    BY DEF NetTyped, ConnectionsTyped
  <1>1. ASSUME NEW n \in Nodes
        PROVE  NodeFits(Q, b, n)
    <2>1. NodeFits(R, c, n)
      BY DEF RollOf
    <2>2. /\ desc[n] \in Descriptions /\ saved[n] \in Descriptions
          /\ Stamped(n) => RemovalOf(n) \in Descriptions
          /\ joining[n] # None => joining[n].net \in Descriptions
      BY TopologyAssumption, WorkTyped DEF NetTyped, Stamped
    <2>. QED
      BY <2>1, <2>2 DEF NodeFits
  <1>2. ASSUME NEW t \in DOMAIN sess, NEW e \in Ends(t)
        PROVE  ThreadFits(Q, b, t, e)
    <2>1. ThreadFits(R, c, t, e)
      BY DEF RollOf
    <2>2. sess[t].work[e] \in Descriptions /\ sess[t].box[e] \in Seq(Messages)
      BY <1>0, FieldsTyped
    <2> DEFINE box == sess[t].box[e]
    <2>3. \A k \in DOMAIN box : box[k] \in Messages
      BY <2>2, ElementOfSeq, LenProperties
    <2>4. \A m \in Messages : m.net \in Descriptions
      BY DEF Messages
    <2>. QED
      BY <2>1, <2>2, <2>3, <2>4 DEF ThreadFits, BoxFits
  <1>. QED
    BY <1>1, <1>2 DEF RollOf

\* The founders have one description.
LEMMA AgreedInit ==
  ASSUME TopologyAssumption, NetInit
  PROVE  Agreed
  <1> DEFINE first == FirstDesc(Founders)
             M == Members(first.list)
             R == [t \in 0..MaxTime |-> IF t = 1 THEN M ELSE {}]
  <1>1. NetTyped
    BY NetInitTyped
  <1>2. /\ desc = [n \in Nodes |-> IF n \in ToSet(Founders) THEN first ELSE NoNet]
        /\ saved = desc /\ sess = <<>> /\ clock = 1
        /\ joining = [n \in Nodes |-> None] /\ edit = [n \in Nodes |-> NoNet]
    BY DEF NetInit, Founded
  <1>3. first.time = 1
    BY DEF FirstDesc
  <1>. HIDE DEF first
  <1>4. \A n \in Nodes : desc[n] = first \/ desc[n] = NoNet
    BY <1>2
  <1>5. MaxTime \in Nat /\ MaxTime >= 1
    BY DEF TopologyAssumption
  <1>6. ASSUME NEW n \in Nodes, desc[n] = first
        PROVE  M \in SUBSET Nodes
    BY <1>1, <1>6, WorkTyped, ListMembers DEF NetTyped
  <1>7. CASE \E n \in Nodes : desc[n] = first
    <2>1. R \in Rolls
      BY <1>6, <1>7 DEF Rolls
    <2>2. R[0] = {} /\ R[1] = M
      BY <1>5
    <2>. HIDE DEF R
    <2>3. Fits(R, 1, first) /\ Fits(R, 1, NoNet)
      BY <1>3, <2>1, <2>2, NothingFits DEF Fits
    <2>4. \A n \in Nodes : NodeFits(R, 1, n)
      BY <1>2, <1>4, <2>3 DEF NodeFits, Stamped
    <2>5. RollOf(R, clock)
      BY <1>2, <2>4 DEF RollOf
    <2>. QED
      BY <2>1, <2>2, <2>5 DEF Agreed
  <1>8. CASE \A n \in Nodes : desc[n] # first
    <2> DEFINE Q == [t \in 0..MaxTime |-> {}]
    <2>1. Q \in Rolls /\ Q[0] = {}
      BY <1>5 DEF Rolls
    <2>. HIDE DEF Q
    <2>2. Fits(Q, 1, NoNet)
      BY <2>1, NothingFits
    <2>3. \A n \in Nodes : NodeFits(Q, 1, n)
      BY <1>2, <1>4, <1>8, <2>2 DEF NodeFits, Stamped
    <2>4. RollOf(Q, clock)
      BY <1>2, <2>3 DEF RollOf
    <2>. QED
      BY <2>1, <2>4 DEF Agreed
  <1>. QED
    BY <1>7, <1>8

\* Node n has sent d on the sessions of S.
Mailed(F, S, n, d) ==
  /\ Alike(F)
  /\ \A t \in DOMAIN sess : \A e \in Ends(t) :
       /\ F[t].work[e] = sess[t].work[e] \/ F[t].work[e] = NoNet
       /\ F[t].box[e] = IF t \in S /\ e = Peer(t, n) THEN Append(sess[t].box[e], UpdateWith(d))
                                                    ELSE sess[t].box[e]

\* What the threads have in hand, and have still to read, was known before.
LEMMA ThreadsFit ==
  ASSUME TopologyAssumption, NetTyped, [NetNext]_netVars,
         NEW R \in Rolls, R[0] = {}, NEW c \in Nat, RollOf(R, c)
  PROVE  \A t \in DOMAIN sess' : \A e \in Ends(t)' :
           Fits(R, c, sess'[t].work[e]) /\ BoxFits(R, c, sess'[t].box[e])
  <1>0. sess \in Seq(AllSessions) /\ Fits(R, c, NoNet) /\ BoxFits(R, c, <<>>)
    BY NothingFits DEF NetTyped, ConnectionsTyped
  <1>a. DescriptionsTyped /\ ConnectionsTyped
    BY DEF NetTyped
  <1>b. \A t \in DOMAIN sess : \A e \in Ends(t) :
          /\ Fits(R, c, sess[t].work[e]) /\ BoxFits(R, c, sess[t].box[e])
          /\ sess[t].box[e] \in Seq(Messages)
    BY <1>0, FieldsTyped DEF RollOf, ThreadFits
  <1>c. \A n \in Nodes : /\ Fits(R, c, desc[n])
                         /\ Stamped(n) => Fits(R, c, RemovalOf(n))
                         /\ joining[n] # None => Fits(R, c, joining[n].net)
    BY DEF RollOf, NodeFits
  <1>1. CASE UNCHANGED sess
    BY <1>b, <1>1 DEF Ends
  <1>2. ASSUME Alike(sess'),
               \A t \in DOMAIN sess : \A e \in Ends(t) :
                 /\ sess'[t].work[e] = sess[t].work[e] \/ Fits(R, c, sess'[t].work[e])
                 /\ sess'[t].box[e] = sess[t].box[e] \/ BoxFits(R, c, sess'[t].box[e])
        PROVE  \A t \in DOMAIN sess' : \A e \in Ends(t)' :
                 Fits(R, c, sess'[t].work[e]) /\ BoxFits(R, c, sess'[t].box[e])
    <2>1. \A t \in DOMAIN sess : \A e \in Ends(t) :
            Fits(R, c, sess'[t].work[e]) /\ BoxFits(R, c, sess'[t].box[e])
      BY <1>b, <1>2
    <2>2. DOMAIN sess' = DOMAIN sess /\ \A t \in DOMAIN sess : Ends(t)' = Ends(t)
      BY <1>0, <1>2, EndsStay
    <2>. QED
      BY <2>1, <2>2
  <1>3. ASSUME NEW n \in Nodes, CallStep(n)
        PROVE  \A t \in DOMAIN sess' : \A e \in Ends(t)' :
                 Fits(R, c, sess'[t].work[e]) /\ BoxFits(R, c, sess'[t].box[e])
    <2>1. PICK m \in Nodes : Reconnect(n, m)
      BY <1>3 DEF CallStep
    <2>2. PICK k : Called(sess', k, n, m)
      BY <1>a, <2>1, ReconnectEffect
    <2>3. ASSUME NEW t \in DOMAIN sess, NEW e \in Ends(t)'
          PROVE  Fits(R, c, sess'[t].work[e]) /\ BoxFits(R, c, sess'[t].box[e])
      BY <1>b, <2>2 DEF Called, Ends
    <2>4. ASSUME NEW e \in Ends(k)'
          PROVE  Fits(R, c, sess'[k].work[e]) /\ BoxFits(R, c, sess'[k].box[e])
      <3>1. e \in {n, m}
        BY <2>2 DEF Called, Ends
      <3>2. sess'[k].work[e] = NoNet /\ sess'[k].box[e] = <<>>
        BY <2>2, <3>1 DEF Called
      <3>. QED
        BY <1>0, <3>2
    <2>. QED
      BY <2>2, <2>3, <2>4 DEF Called
  <1>4. ASSUME NEW s \in DOMAIN sess, NEW n \in Ends(s), sess' = Turn(s, n, "closed", NoNet)
        PROVE  \A t \in DOMAIN sess' : \A e \in Ends(t)' :
                 Fits(R, c, sess'[t].work[e]) /\ BoxFits(R, c, sess'[t].box[e])
    <2>1. /\ Alike(sess')
          /\ \A t \in DOMAIN sess : \A e \in Ends(t) :
               /\ sess'[t].work[e] = IF t = s /\ e = n THEN NoNet ELSE sess[t].work[e]
               /\ sess'[t].box[e] = sess[t].box[e]
      BY <1>a, <1>4, ClosedEffect
    <2>. QED
      BY <1>0, <1>2, <2>1
  <1>5. ASSUME NEW s \in DOMAIN sess, HandshakeStep(s)
        PROVE  \A t \in DOMAIN sess' : \A e \in Ends(t)' :
                 Fits(R, c, sess'[t].work[e]) /\ BoxFits(R, c, sess'[t].box[e])
    <2> DEFINE n == sess[s].from
               m == sess[s].to
    <2>0. n \in Ends(s) /\ n \in Nodes
      BY <1>0, EndsAre
    <2>1. CASE HandshakeAccepted(s)
      <3>1. PICK q \in {"answered", "closed"} :
              /\ Alike(sess')
              /\ \A t \in DOMAIN sess : \A e \in Ends(t) :
                   /\ sess'[t].work[e] = sess[t].work[e]
                   /\ sess'[t].box[e] = sess[t].box[e]
        BY <1>a, <2>1, AcceptedEffect
      <3>. QED
        BY <1>2, <3>1
    <2>2. CASE HandshakeRefused(s) \/ HandshakeStranded(s)
      <3>1. /\ Alike(sess')
            /\ \A t \in DOMAIN sess : \A e \in Ends(t) :
                   /\ sess'[t].work[e] = sess[t].work[e]
                   /\ sess'[t].box[e] = sess[t].box[e]
        BY <1>a, <2>2, RefusedEffect
      <3>. QED
        BY <1>2, <3>1
    <2>3. CASE HandshakeLost(s) \/ (HandshakeFinished(s) /\ ~(s \notin broken /\ ConnectNode(n, m)))
      <3>1. sess' = Turn(s, n, "closed", NoNet)
        BY <2>3 DEF HandshakeLost, HandshakeFinished
      <3>. QED
        BY <1>4, <2>0, <3>1
    <2>4. CASE HandshakeFinished(s) /\ s \notin broken /\ ConnectNode(n, m)
      <3>1. /\ Alike(sess') /\ ConnectWith(desc[n]) \in Messages
            /\ \A t \in DOMAIN sess : \A e \in Ends(t) :
                 /\ sess'[t].work[e] = IF t = s /\ e = n THEN NoNet ELSE sess[t].work[e]
                 /\ sess'[t].box[e] = IF t = s /\ e = m
                                      THEN Append(sess[t].box[e], ConnectWith(desc[n]))
                                      ELSE sess[t].box[e]
        BY <1>a, <2>4, FinishedEffect
      <3>2. Fits(R, c, ConnectWith(desc[n]).net)
        BY <1>c, <2>0, SentNet
      <3>3. ASSUME NEW t \in DOMAIN sess, NEW e \in Ends(t)
            PROVE  BoxFits(R, c, Append(sess[t].box[e], ConnectWith(desc[n])))
        BY <1>b, <3>1, <3>2, BoxAppended
      <3>. QED
        BY <1>0, <1>2, <3>1, <3>3
    <2>. QED
      BY <1>5, <2>1, <2>2, <2>3, <2>4 DEF HandshakeStep
  \* An update is sent, by a thread that then waits for a message, or by no thread.
  <1>6. ASSUME NEW d \in Descriptions, NEW S, NEW n, Fits(R, c, d), Mailed(sess', S, n, d)
        PROVE  \A t \in DOMAIN sess' : \A e \in Ends(t)' :
                 Fits(R, c, sess'[t].work[e]) /\ BoxFits(R, c, sess'[t].box[e])
    <2>1. UpdateWith(d) \in Messages
      BY DEF UpdateWith, Messages
    <2>2. Fits(R, c, UpdateWith(d).net)
      BY <1>6, SentNet
    <2>3. ASSUME NEW t \in DOMAIN sess, NEW e \in Ends(t)
          PROVE  BoxFits(R, c, Append(sess[t].box[e], UpdateWith(d)))
      BY <1>b, <2>1, <2>2, BoxAppended
    <2>. QED
      BY <1>0, <1>2, <1>6, <2>3 DEF Mailed
  <1>7. ASSUME NEW s \in DOMAIN sess, NEW n \in Ends(s), TalkStep(s, n)
        PROVE  \A t \in DOMAIN sess' : \A e \in Ends(t)' :
                 Fits(R, c, sess'[t].work[e]) /\ BoxFits(R, c, sess'[t].box[e])
    <2>0. n \in Nodes /\ desc[n] \in Descriptions /\ sess[s].work[n] \in Descriptions
      BY <1>0, <1>a, FieldsTyped, WorkTyped
    <2>1. CASE SessionEnds(s, n)
      <3>1. sess' = Turn(s, n, "closed", NoNet)
        BY <2>1 DEF SessionEnds
      <3>. QED
        BY <1>4, <3>1
    <2>2. CASE Receive(s, n)
      <3>1. /\ Alike(sess')
            /\ \A t \in DOMAIN sess : \A e \in Ends(t) :
                 /\ sess'[t].work[e] = IF t = s /\ e = n THEN Head(sess[s].box[n]).net
                                                         ELSE sess[t].work[e]
                 /\ sess'[t].box[e] = IF t = s /\ e = n THEN Tail(sess[t].box[e])
                    ELSE sess[t].box[e]
        BY <2>2, ReceiveEffect
      <3>2. sess[s].box[n] # <<>>
        BY <2>2 DEF Receive
      <3>3. Fits(R, c, Head(sess[s].box[n]).net) /\ BoxFits(R, c, Tail(sess[s].box[n]))
        BY <1>b, <3>2, BoxTail
      <3>. QED
        BY <1>2, <3>1, <3>3
    <2>3. CASE Spread(s, n)
      <3>1. /\ Alike(sess')
            /\ \A t \in DOMAIN sess : \A e \in Ends(t) :
                 /\ sess'[t].work[e] = IF t = s /\ e = n THEN NoNet ELSE sess[t].work[e]
                 /\ sess'[t].box[e] = IF t \in Broadcast(n) /\ e = Peer(t, n)
                                   THEN Append(sess[t].box[e], UpdateWith(sess[s].work[n]))
                                   ELSE sess[t].box[e]
        BY <2>3, SpreadEffect
      <3>2. Mailed(sess', Broadcast(n), n, sess[s].work[n])
        BY <3>1 DEF Mailed
      <3>. QED
        BY <1>6, <1>b, <2>0, <3>2
    <2>4. CASE Reply(s, n)
      <3>1. /\ Alike(sess')
            /\ \A t \in DOMAIN sess : \A e \in Ends(t) :
                 /\ sess'[t].work[e] = IF t = s /\ e = n THEN NoNet ELSE sess[t].work[e]
                 /\ sess'[t].box[e] = IF t \in SocketAt(n, sess[s].addr[n]) \ broken
                      /\ e = Peer(t, n)
                                   THEN Append(sess[t].box[e], UpdateWith(desc[n]))
                                   ELSE sess[t].box[e]
        BY <2>4, ReplyEffect
      <3>2. Mailed(sess', SocketAt(n, sess[s].addr[n]) \ broken, n, desc[n])
        BY <3>1 DEF Mailed
      <3>. QED
        BY <1>6, <1>c, <2>0, <3>2
    <2>. QED
      BY <1>7, <2>1, <2>2, <2>3, <2>4 DEF TalkStep
  <1>8. ASSUME NEW s \in DOMAIN sess, NEW n \in Ends(s), Adopt(s, n)
        PROVE  \A t \in DOMAIN sess' : \A e \in Ends(t)' :
                 Fits(R, c, sess'[t].work[e]) /\ BoxFits(R, c, sess'[t].box[e])
    <2>1. /\ Alike(sess')
          /\ sess'[s].work[n] = NoNet \/ sess'[s].work[n] = sess[s].work[n]
          /\ \A t \in DOMAIN sess : \A e \in Ends(t) :
               /\ t # s \/ e # n => sess'[t].work[e] = sess[t].work[e]
               /\ sess'[t].box[e] = sess[t].box[e]
      BY <1>8, AdoptEffect
    <2>. QED
      BY <1>0, <1>2, <2>1
  <1>9. ASSUME NEW n \in Nodes, CloseStep(n)
        PROVE  \A t \in DOMAIN sess' : \A e \in Ends(t)' :
                 Fits(R, c, sess'[t].work[e]) /\ BoxFits(R, c, sess'[t].box[e])
    <2>1. /\ Alike(sess')
          /\ \A t \in DOMAIN sess : \A e \in Ends(t) :
               /\ sess'[t].work[e] = sess[t].work[e]
               /\ sess'[t].box[e] = sess[t].box[e]
      BY <1>9, CloseSteps, ClosedSessions
    <2>. QED
      BY <1>2, <2>1
  <1>10. ASSUME NEW n \in Nodes, JoinSpread(n)
         PROVE  \A t \in DOMAIN sess' : \A e \in Ends(t)' :
                 Fits(R, c, sess'[t].work[e]) /\ BoxFits(R, c, sess'[t].box[e])
    <2>1. /\ joining[n].net \in Descriptions /\ Alike(sess')
          /\ \A t \in DOMAIN sess : \A e \in Ends(t) :
               /\ sess'[t].work[e] = sess[t].work[e]
               /\ sess'[t].box[e] = IF t \in Broadcast(n) /\ e = Peer(t, n)
                                   THEN Append(sess[t].box[e], UpdateWith(joining[n].net))
                                   ELSE sess[t].box[e]
      BY <1>10, JoinSpreadEffect
    <2>2. Fits(R, c, joining[n].net)
      BY <1>c, <1>10 DEF JoinSpread
    <2>3. Mailed(sess', Broadcast(n), n, joining[n].net)
      BY <2>1 DEF Mailed
    <2>. QED
      BY <1>6, <2>1, <2>2, <2>3
  <1>11. ASSUME NEW n \in Nodes, RemoveSpread(n)
         PROVE  \A t \in DOMAIN sess' : \A e \in Ends(t)' :
                 Fits(R, c, sess'[t].work[e]) /\ BoxFits(R, c, sess'[t].box[e])
    <2>1. /\ RemovalOf(n) \in Descriptions /\ Alike(sess')
          /\ \A t \in DOMAIN sess : \A e \in Ends(t) :
               /\ sess'[t].work[e] = sess[t].work[e]
               /\ sess'[t].box[e] = IF t \in Broadcast(n) /\ e = Peer(t, n)
                                   THEN Append(sess[t].box[e], UpdateWith(RemovalOf(n)))
                                   ELSE sess[t].box[e]
      BY <1>11, RemoveSpreadEffect
    <2>2. Fits(R, c, RemovalOf(n))
      BY <1>c, <1>11 DEF RemoveSpread, Stamped
    <2>3. Mailed(sess', Broadcast(n), n, RemovalOf(n))
      BY <2>1 DEF Mailed
    <2>. QED
      BY <1>6, <2>1, <2>2, <2>3
  <1>12. ASSUME NEW s, ConnectionFails(s)
         PROVE  UNCHANGED sess
    BY <1>12 DEF ConnectionFails
  <1>13. ASSUME NEW n \in Nodes, NEW m \in Nodes,
                \/ ServerNetConnect(n) \/ ServerNetForget(n) \/ JoinServed(n) \/ JoinDenied(n)
                \/ JoinAnswered(n) \/ JoinUnanswered(n) \/ RemoveUpdate(n) \/ JoinRequest(m, n)
                \/ RemoveNode(n, m) \/ RemoveStamp(n) \/ RemoveAbandoned(n)
         PROVE  UNCHANGED sess
    BY <1>13 DEF ServerNetConnect, ServerNetForget, JoinServed, JoinDenied, JoinAnswered,
                 JoinUnanswered, RemoveUpdate, JoinRequest, RemoveNode, RemoveStamp, RemoveAbandoned
  <1>14. CASE UNCHANGED netVars
    BY <1>1, <1>14 DEF netVars
  <1>. QED
    BY <1>1, <1>3, <1>5, <1>7, <1>8, <1>9, <1>10, <1>11, <1>12, <1>13, <1>14, NetSteps

\* A removal that has only been begun, or is given up, has no time.
LEMMA CopyEffect ==
  ASSUME edit \in [Nodes -> Removals \cup {NoNet}],
         NEW n \in Nodes, NEW m \in Nodes, RemoveNode(n, m) \/ RemoveAbandoned(n)
  PROVE  /\ UNCHANGED <<desc, saved, joining>> /\ ~Stamped(n)'
         /\ \A k \in Nodes : k # n => edit'[k] = edit[k]
  <1>1. UNCHANGED <<desc, saved, joining>>
    BY DEF RemoveNode, RemoveAbandoned, net
  <1>2. CASE RemoveAbandoned(n)
    BY <1>1, <1>2 DEF RemoveAbandoned, Stamped
  <1>3. CASE RemoveNode(n, m)
    <2>1. PICK list : edit' = [edit EXCEPT ![n] = [time |-> 0, sent |-> FALSE, list |-> list]]
      BY <1>3 DEF RemoveNode
    <2>2. edit'[n] = [time |-> 0, sent |-> FALSE, list |-> list]
      BY <2>1
    <2>3. edit'[n].time = 0 /\ \A k \in Nodes : k # n => edit'[k] = edit[k]
      BY <2>1, <2>2
    <2>. QED
      BY <1>1, <2>3 DEF Stamped
  <1>. QED
    BY <1>2, <1>3

\* What the nodes know after a step that makes no change of its own was known before.
LEMMA NodesFit ==
  ASSUME TopologyAssumption, NetTyped, [NetNext]_netVars,
         NEW R \in Rolls, R[0] = {}, NEW c \in Nat, RollOf(R, c),
         ~ \E n \in Nodes : JoinServed(n) \/ RemoveStamp(n)
  PROVE  \A n \in Nodes : NodeFits(R, c, n)'
  <1>0. /\ sess \in Seq(AllSessions) /\ Fits(R, c, NoNet)
        /\ desc \in [Nodes -> Descriptions] /\ saved \in [Nodes -> Descriptions]
        /\ joining \in [Nodes -> Requests \cup {None}] /\ edit \in [Nodes -> Removals \cup {NoNet}]
    BY NothingFits DEF NetTyped, ConnectionsTyped, DescriptionsTyped
  <1>b. \A n \in Nodes : /\ Fits(R, c, desc[n]) /\ Fits(R, c, saved[n])
                         /\ Stamped(n) => Fits(R, c, RemovalOf(n))
                         /\ joining[n] # None => Fits(R, c, joining[n].net)
    BY DEF RollOf, NodeFits
  <1>1. ASSUME \A n \in Nodes :
                 /\ desc'[n] = desc[n] \/ Fits(R, c, desc'[n])
                 /\ saved'[n] = saved[n] \/ Fits(R, c, saved'[n])
                 /\ edit'[n] = edit[n] \/ ~Stamped(n)' \/ Fits(R, c, RemovalOf(n)')
                 /\ joining'[n] = joining[n] \/ joining'[n] = None \/ Fits(R, c, joining'[n].net)
        PROVE  \A n \in Nodes : NodeFits(R, c, n)'
    <2>1. ASSUME NEW n \in Nodes, edit'[n] = edit[n]
          PROVE  RemovalOf(n)' = RemovalOf(n) /\ (Stamped(n)' <=> Stamped(n))
      BY <2>1 DEF RemovalOf, Stamped
    <2>2. ASSUME NEW n \in Nodes
          PROVE  Stamped(n)' => Fits(R, c, RemovalOf(n)')
      BY <1>1, <1>b, <2>1
    <2>. QED
      BY <1>1, <1>b, <2>2 DEF NodeFits
  <1>c. \A n \in Nodes : edit'[n] = NoNet => ~Stamped(n)'
    BY DEF Stamped
  <1>2. CASE UNCHANGED <<desc, saved, edit, joining>>
    BY <1>1, <1>2
  <1>3. ASSUME Quiet
        PROVE  UNCHANGED <<desc, saved, edit, joining>>
    BY <1>3 DEF Quiet, net, work
  <1>4. ASSUME NEW n \in Nodes, NEW s, ConnectionFails(s) \/ ServerNetConnect(n)
        PROVE  UNCHANGED <<desc, saved, edit, joining>>
    BY <1>4 DEF ConnectionFails, ServerNetConnect, net, work
  <1>5. ASSUME NEW n \in Nodes, NEW d \in Descriptions, Update(n, d), Fits(R, c, d)
        PROVE  \A k \in Nodes : desc'[k] = desc[k] \/ Fits(R, c, desc'[k])
    <2>a. DescriptionsTyped
      BY DEF NetTyped
    <2>1. PICK list \in Seq(Entries) :
            /\ Members(list) = Members(d.list)
            /\ desc' = [desc EXCEPT ![n] = [time |-> d.time, list |-> list]]
            /\ [time |-> d.time, list |-> list] \in Descriptions
            /\ leaving' = IF n \notin Members(d.list) THEN leaving \cup {n} ELSE leaving
      BY <1>5, <2>a, UpdateEffect
    <2> DEFINE new == [time |-> d.time, list |-> list]
    <2>2. Fits(R, c, new)
      BY <1>5, <2>1, UpdateFits
    <2>3. desc' = [desc EXCEPT ![n] = new]
      BY <2>1
    <2>. HIDE DEF new
    <2>. QED
      BY <1>0, <2>2, <2>3
  <1>6. ASSUME NEW s \in DOMAIN sess, NEW n \in Ends(s), Adopt(s, n)
        PROVE  \A k \in Nodes : NodeFits(R, c, k)'
    <2>1. n \in Nodes /\ sess[s].work[n] \in Descriptions
      BY <1>0, FieldsTyped
    <2>2. Update(n, sess[s].work[n]) /\ UNCHANGED <<saved, edit, joining>>
      BY <1>6 DEF Adopt, work
    <2>3. Fits(R, c, sess[s].work[n])
      BY DEF RollOf, ThreadFits
    <2>4. \A k \in Nodes : desc'[k] = desc[k] \/ Fits(R, c, desc'[k])
      BY <1>5, <2>1, <2>2, <2>3
    <2>. QED
      BY <1>1, <2>2, <2>4
  <1>7. ASSUME NEW n \in Nodes, RemoveUpdate(n)
        PROVE  \A k \in Nodes : NodeFits(R, c, k)'
    <2>1. RemovalOf(n) \in Descriptions /\ Stamped(n)
      BY <1>7, WorkTyped DEF RemoveUpdate, Stamped, NetTyped
    <2>2. Update(n, RemovalOf(n)) /\ UNCHANGED <<saved, joining>>
            /\ edit' = [edit EXCEPT ![n] = NoNet]
      BY <1>7 DEF RemoveUpdate
    <2>3. \A k \in Nodes : desc'[k] = desc[k] \/ Fits(R, c, desc'[k])
      BY <1>5, <1>b, <2>1, <2>2
    <2>4. \A k \in Nodes : edit'[k] = edit[k] \/ edit'[k] = NoNet
      BY <1>0, <2>2
    <2>. QED
      BY <1>1, <1>c, <2>2, <2>3, <2>4
  <1>8. ASSUME NEW n \in Nodes, CloseStep(n)
        PROVE  \A k \in Nodes : NodeFits(R, c, k)'
    <2>1. /\ joining' = [joining EXCEPT ![n] = None] \/ UNCHANGED joining
          /\ edit' = [edit EXCEPT ![n] = NoNet] \/ UNCHANGED edit
          /\ desc' = desc \/ desc' = [desc EXCEPT ![n] = saved[n]]
               \/ desc' = [desc EXCEPT ![n] = NoNet]
          /\ saved' = saved \/ saved' = [saved EXCEPT ![n] = desc[n]]
      BY <1>8, CloseSteps
    <2>2. \A k \in Nodes : /\ joining'[k] = joining[k] \/ joining'[k] = None
                           /\ edit'[k] = edit[k] \/ edit'[k] = NoNet
      BY <1>0, <2>1
    <2>3. \A k \in Nodes : /\ desc'[k] = desc[k] \/ desc'[k] = saved[k] \/ desc'[k] = NoNet
                           /\ saved'[k] = saved[k] \/ saved'[k] = desc[k]
      BY <1>0, <2>1
    <2>. QED
      BY <1>0, <1>1, <1>b, <1>c, <2>2, <2>3
  <1>9. ASSUME NEW n \in Nodes, ServerNetForget(n)
        PROVE  \A k \in Nodes : NodeFits(R, c, k)'
    <2>1. UNCHANGED <<saved, edit, joining>> /\ desc' = [desc EXCEPT ![n] = NoNet]
      BY <1>9 DEF ServerNetForget, work
    <2>2. \A k \in Nodes : desc'[k] = desc[k] \/ desc'[k] = NoNet
      BY <1>0, <2>1
    <2>. QED
      BY <1>0, <1>1, <2>1, <2>2
  <1>10. ASSUME NEW n \in Nodes, JoinDenied(n) \/ JoinUnanswered(n) \/ JoinSpread(n)
         PROVE  \A k \in Nodes : NodeFits(R, c, k)'
    <2>1. UNCHANGED <<desc, saved, edit>> /\ joining' = [joining EXCEPT ![n] = None]
      BY <1>10 DEF JoinDenied, JoinUnanswered, JoinSpread, net
    <2>2. \A k \in Nodes : joining'[k] = joining[k] \/ joining'[k] = None
      BY <1>0, <2>1
    <2>. QED
      BY <1>1, <2>1, <2>2
  <1>11. ASSUME NEW n \in Nodes, JoinAnswered(n)
         PROVE  \A k \in Nodes : NodeFits(R, c, k)'
    <2>1. /\ UNCHANGED <<saved, edit>> /\ joining[n] # None
          /\ joining' = [joining EXCEPT ![n].pc = "spread"]
          /\ desc' = [desc EXCEPT ![joining[n].node] = joining[n].net] \/ UNCHANGED desc
      BY <1>11 DEF JoinAnswered
    <2>2. joining[n] \in Requests /\ Fits(R, c, joining[n].net)
      BY <1>b, <2>1, WorkTyped DEF NetTyped
    <2>3. joining'[n] = [joining[n] EXCEPT !.pc = "spread"]
      BY <1>0, <2>1
    <2>4. joining'[n].net = joining[n].net
      BY <2>2, <2>3 DEF Requests
    <2>5. \A k \in Nodes : k # n => joining'[k] = joining[k]
      BY <1>0, <2>1
    <2>6. \A k \in Nodes : desc'[k] = desc[k] \/ desc'[k] = joining[n].net
      BY <1>0, <2>1
    <2>. QED
      BY <1>1, <2>1, <2>2, <2>4, <2>5, <2>6
  <1>12. ASSUME NEW n \in Nodes, NEW m \in Nodes, JoinRequest(m, n)
         PROVE  \A k \in Nodes : NodeFits(R, c, k)'
    <2>1. /\ UNCHANGED <<desc, saved, edit>>
          /\ joining' = [joining EXCEPT ![n] = [node |-> m, pc |-> "serve", net |-> NoNet]]
      BY <1>12 DEF JoinRequest
    <2>2. joining'[n] = [node |-> m, pc |-> "serve", net |-> NoNet]
      BY <1>0, <2>1
    <2>3. joining'[n].net = NoNet
      BY <2>2
    <2>4. \A k \in Nodes : k # n => joining'[k] = joining[k]
      BY <1>0, <2>1
    <2>. QED
      BY <1>0, <1>1, <2>1, <2>3, <2>4
  <1>13. ASSUME NEW n \in Nodes, RemoveSpread(n)
         PROVE  \A k \in Nodes : NodeFits(R, c, k)'
    <2>1. /\ UNCHANGED <<desc, saved, joining>> /\ edit[n] # NoNet /\ Stamped(n)
          /\ edit' = [edit EXCEPT ![n].sent = TRUE]
      BY <1>13 DEF RemoveSpread, Stamped, net
    <2>2. edit[n] \in Removals /\ edit'[n] = [edit[n] EXCEPT !.sent = TRUE]
      BY <1>0, <2>1
    <2>3. edit'[n].time = edit[n].time /\ edit'[n].list = edit[n].list
      BY <2>2 DEF Removals
    <2>4. RemovalOf(n)' = RemovalOf(n)
      BY <2>3 DEF RemovalOf
    <2>5. \A k \in Nodes : k # n => edit'[k] = edit[k]
      BY <1>0, <2>1
    <2>6. Fits(R, c, RemovalOf(n)')
      BY <1>b, <2>1, <2>4
    <2>7. \A k \in Nodes : edit'[k] = edit[k] \/ Fits(R, c, RemovalOf(k)')
      BY <2>5, <2>6
    <2>. QED
      BY <1>1, <2>1, <2>7
  <1>15. ASSUME NEW n \in Nodes, NEW m \in Nodes, RemoveNode(n, m) \/ RemoveAbandoned(n)
         PROVE  \A k \in Nodes : NodeFits(R, c, k)'
    <2>1. /\ UNCHANGED <<desc, saved, joining>> /\ ~Stamped(n)'
          /\ \A k \in Nodes : k # n => edit'[k] = edit[k]
      BY <1>0, <1>15, CopyEffect
    <2>. QED
      BY <1>1, <2>1
  <1>14. CASE UNCHANGED netVars
    BY <1>2, <1>14 DEF netVars, net, work
  <1>. QED
    BY <1>2, <1>3, <1>4, <1>6, <1>7, <1>8, <1>9, <1>10, <1>11, <1>12, <1>13, <1>14, <1>15,
       NetSteps, HandshakeQuiet, TalkQuiet, CallQuiet

\* The time passes only with a change.
LEMMA ClockSteps ==
  ASSUME [NetNext]_netVars
  PROVE  \/ UNCHANGED <<clock, author>>
         \/ \E n \in Nodes : Tick(n) /\ (JoinServed(n) \/ RemoveStamp(n))
  <1>1. ASSUME Quiet
        PROVE  UNCHANGED <<clock, author>>
    BY <1>1 DEF Quiet, bounds
  <1>2. ASSUME NEW n, NEW m, NEW s,
               \/ ConnectionFails(s) \/ Adopt(s, n) \/ ServerNetConnect(n) \/ ServerNetForget(n)
               \/ JoinDenied(n) \/ JoinAnswered(n) \/ JoinUnanswered(n) \/ JoinSpread(n)
               \/ RemoveSpread(n) \/ RemoveUpdate(n) \/ JoinRequest(m, n)
               \/ RemoveNode(n, m) \/ RemoveAbandoned(n)
        PROVE  UNCHANGED <<clock, author>>
    BY <1>2 DEF ConnectionFails, Adopt, ServerNetConnect, ServerNetForget, JoinDenied, JoinAnswered,
                JoinUnanswered, JoinSpread, RemoveSpread, RemoveUpdate, JoinRequest, RemoveNode,
                RemoveAbandoned, bounds, netHistory
  <1>3. ASSUME NEW n, CloseStep(n)
        PROVE  UNCHANGED <<clock, author>>
    BY <1>3, CloseSteps
  <1>4. ASSUME NEW n, JoinServed(n) \/ RemoveStamp(n)
        PROVE  Tick(n)
    BY <1>4 DEF JoinServed, RemoveStamp
  <1>5. CASE UNCHANGED netVars
    BY <1>5 DEF netVars, bounds, netHistory
  <1>. QED
    BY <1>1, <1>2, <1>3, <1>4, <1>5, NetSteps, HandshakeQuiet, TalkQuiet, CallQuiet

\* Every step keeps to the roll: only a change at the next time adds to it.
LEMMA AgreedStep ==
  ASSUME TopologyAssumption, NetTyped, Agreed, [NetNext]_netVars
  PROVE  Agreed'
  <1>0. /\ sess \in Seq(AllSessions) /\ clock \in 1..MaxTime /\ MaxTime \in Nat
        /\ desc \in [Nodes -> Descriptions] /\ saved \in [Nodes -> Descriptions]
        /\ joining \in [Nodes -> Requests \cup {None}] /\ edit \in [Nodes -> Removals \cup {NoNet}]
    BY DEF NetTyped, ConnectionsTyped, DescriptionsTyped, CountersTyped, TopologyAssumption
  <1>1. PICK R \in Rolls : R[0] = {} /\ RollOf(R, clock)
    BY DEF Agreed
  <1>2. PICK c \in 1..MaxTime : c = clock
    BY <1>0
  <1>3. RollOf(R, c) /\ c \in Nat
    BY <1>1, <1>2
  <1>4. CASE ~ \E n \in Nodes : JoinServed(n) \/ RemoveStamp(n)
    <2>1. \A t \in DOMAIN sess' : \A e \in Ends(t)' :
            Fits(R, c, sess'[t].work[e]) /\ BoxFits(R, c, sess'[t].box[e])
      BY <1>1, <1>3, ThreadsFit
    <2>2. \A n \in Nodes : NodeFits(R, c, n)'
      BY <1>1, <1>3, <1>4, NodesFit
    <2>3. c = clock'
      BY <1>2, <1>4, ClockSteps
    <2>4. RollOf(R, c)'
      BY <2>1, <2>2 DEF RollOf, ThreadFits
    <2>. QED
      BY <1>1, <2>3, <2>4 DEF Agreed
  <1>5. ASSUME NEW n \in Nodes, Tick(n), NEW M \in SUBSET Nodes, UNCHANGED <<sess, saved>>,
               \A k \in Nodes : /\ \/ desc'[k] = desc[k]
                                   \/ desc'[k].time = clock' /\ Members(desc'[k].list) = M
                                /\ \/ edit'[k] = edit[k]
                                   \/ edit'[k].time = clock' /\ Members(edit'[k].list) = M
                                /\ \/ joining'[k] = joining[k]
                                   \/ joining'[k].net.time = clock'
                                        /\ Members(joining'[k].net.list) = M
        PROVE  Agreed'
    <2>1. clock' = c + 1 /\ c + 1 \in 1..MaxTime
      BY <1>0, <1>2, <1>5 DEF Tick
    <2>2. PICK Q \in Rolls : /\ Q[0] = {} /\ Q[c + 1] = M
                             /\ \A d \in Descriptions : Fits(R, c, d) => Fits(Q, c + 1, d)
      BY <1>1, <1>5, <2>1, RollGrows
    <2>3. RollOf(Q, c + 1)
      BY <1>3, <2>2, RollStays
    <2>4. PICK b : b = c + 1
      OBVIOUS
    <2>5. \A d : d.time = clock' /\ Members(d.list) = M => Fits(Q, b, d)
      BY <2>1, <2>2, <2>4 DEF Fits
    <2>6. ASSUME NEW k \in Nodes
          PROVE  NodeFits(Q, b, k)'
      <3>1. /\ Fits(Q, b, desc[k]) /\ Fits(Q, b, saved[k])
            /\ Stamped(k) => Fits(Q, b, RemovalOf(k))
            /\ joining[k] # None => Fits(Q, b, joining[k].net)
        BY <2>3, <2>4 DEF RollOf, NodeFits
      <3>2. Fits(Q, b, desc'[k]) /\ Fits(Q, b, saved'[k])
        BY <1>5, <2>5, <3>1
      <3>3. joining'[k] # None => Fits(Q, b, joining'[k].net)
        BY <1>5, <2>5, <3>1
      <3>4. Stamped(k)' => Fits(Q, b, RemovalOf(k)')
        <4>1. CASE edit'[k] = edit[k]
          BY <3>1, <4>1 DEF RemovalOf, Stamped
        <4>2. CASE edit'[k].time = clock' /\ Members(edit'[k].list) = M
          <5>1. RemovalOf(k)'.time = clock' /\ Members(RemovalOf(k)'.list) = M
            BY <4>2 DEF RemovalOf
          <5>. QED
            BY <2>5, <5>1
        <4>. QED
          BY <1>5, <4>1, <4>2
      <3>. QED
        BY <3>2, <3>3, <3>4 DEF NodeFits
    <2>7. \A t \in DOMAIN sess' : \A e \in Ends(t)' : ThreadFits(Q, b, t, e)'
      <3>1. \A t \in DOMAIN sess : \A e \in Ends(t) : ThreadFits(Q, b, t, e)
        BY <2>3, <2>4 DEF RollOf
      <3>. QED
        BY <1>5, <3>1 DEF Ends, ThreadFits
    <2>8. RollOf(Q, b)'
      BY <2>6, <2>7 DEF RollOf
    <2>. QED
      BY <2>1, <2>2, <2>4, <2>8 DEF Agreed
  <1>6. ASSUME NEW n \in Nodes, JoinServed(n)
        PROVE  Agreed'
    <2> DEFINE list == Append(desc[n].list, Entry(joining[n].node, NextIndex(desc[n].list)))
               d == [time |-> clock', list |-> list]
    <2>1. /\ joining[n] # None /\ Tick(n) /\ desc[n].list # <<>>
          /\ desc' = [desc EXCEPT ![n] = d] /\ UNCHANGED <<saved, edit, sess>>
          /\ joining' = [joining EXCEPT ![n].pc = "answer", ![n].net = d]
      BY <1>6 DEF JoinServed, Listed, Members
    <2>2. joining[n] \in Requests /\ joining[n].node \in Nodes /\ desc[n].list \in Seq(Entries)
      BY <2>1, WorkTyped DEF NetTyped
    <2>3. PICK M \in SUBSET Nodes : M = Members(list)
      <3>1. list \in Seq(Entries)
        BY <2>1, <2>2, AppendedMembers
      <3>. HIDE DEF list
      <3>. QED
        BY <3>1, ListMembers
    <2>4. d.time = clock' /\ Members(d.list) = M
      BY <2>3
    <2>. HIDE DEF d
    <2>5. desc'[n] = d /\ \A k \in Nodes : k # n => desc'[k] = desc[k]
      BY <1>0, <2>1
    <2>6. joining'[n] = [[joining[n] EXCEPT !.pc = "answer"] EXCEPT !.net = d]
      BY <1>0, <2>1
    <2>7. joining'[n].net = d
      BY <2>2, <2>6 DEF Requests
    <2>8. \A k \in Nodes : k # n => joining'[k] = joining[k]
      BY <1>0, <2>1
    <2>. QED
      BY <1>5, <2>1, <2>4, <2>5, <2>7, <2>8, ZenonT(30)
  <1>7. ASSUME NEW n \in Nodes, RemoveStamp(n)
        PROVE  Agreed'
    <2>1. /\ Tick(n) /\ UNCHANGED <<desc, saved, sess, joining>> /\ edit[n] # NoNet
          /\ edit' = [edit EXCEPT ![n] = [time |-> clock', sent |-> FALSE, list |-> @.list]]
      BY <1>7 DEF RemoveStamp, net
    <2>2. /\ edit[n] \in Removals
          /\ edit'[n] = [time |-> clock', sent |-> FALSE, list |-> edit[n].list]
      BY <1>0, <2>1
    <2>3. edit[n].list \in Seq(Entries) /\ edit'[n].time = clock' /\ edit'[n].list = edit[n].list
      BY <2>2 DEF Removals
    <2>4. PICK M \in SUBSET Nodes : M = Members(edit[n].list)
      BY <2>3, ListMembers
    <2>5. edit'[n].time = clock' /\ Members(edit'[n].list) = M
      BY <2>3, <2>4
    <2>6. \A k \in Nodes : k # n => edit'[k] = edit[k]
      BY <1>0, <2>1
    <2>. QED
      BY <1>5, <2>1, <2>5, <2>6
  <1>. QED
    BY <1>4, <1>6, <1>7

-----------------------------------------------------------------------------
(* What a step does with a thread and its messages *)

\* Message m waits to be read by the thread at the end e of session t.
Awaits(F, t, e, m) == \E k \in DOMAIN F[t].box[e] : F[t].box[e][k] = m

\* No message to this thread is lost, and no "connect" has come.
BoxKept(F, t, e) ==
  /\ \A m : Awaits(sess, t, e, m) => Awaits(F, t, e, m)
  /\ \A m : Awaits(F, t, e, m) /\ m.verb = "connect" => Awaits(sess, t, e, m)

\* The caller keeps the session: a handshake that succeeds.
Introduced(t) ==
  HandshakeFinished(t) /\ t \notin broken /\ ConnectNode(sess[t].from, sess[t].to)

\* What a step does with the thread at the end e of session t.
ThreadTurn(t, e) ==
  \/ Receive(t, e)
  \/ Introduced(t)
  \/ /\ BoxKept(sess', t, e)
     /\ \/ sess'[t].pc[e] = sess[t].pc[e] /\ sess'[t].work[e] = sess[t].work[e]
        \/ sess'[t].pc[e] = "closed"
        \/ Adopt(t, e) \/ Spread(t, e) \/ Reply(t, e) \/ HandshakeAccepted(t)

\* A box to which at most an update is appended.
LEMMA BoxGrown ==
  ASSUME sess \in Seq(AllSessions), NEW t \in DOMAIN sess, NEW e \in Ends(t), NEW F,
         NEW d \in Descriptions,
         \/ F[t].box[e] = sess[t].box[e]
         \/ F[t].box[e] = Append(sess[t].box[e], UpdateWith(d))
  PROVE  BoxKept(F, t, e)
  <1>1. CASE F[t].box[e] = sess[t].box[e]
    BY <1>1 DEF BoxKept, Awaits
  <1>2. CASE F[t].box[e] = Append(sess[t].box[e], UpdateWith(d))
    <2>1. PICK m : m = UpdateWith(d)
      OBVIOUS
    <2>2. m \in Messages /\ m.verb # "connect"
      BY <2>1 DEF UpdateWith, Messages
    <2>3. PICK box \in Seq(Messages) : box = sess[t].box[e]
      BY FieldsTyped
    <2>4. /\ Len(Append(box, m)) = Len(box) + 1
          /\ \A i \in 1..Len(box) + 1 : Append(box, m)[i] = IF i <= Len(box) THEN box[i] ELSE m
          /\ Append(box, m) \in Seq(Messages)
      BY <2>2, <2>3, AppendRecord
    <2>5. /\ Len(box) \in Nat /\ DOMAIN box = 1..Len(box)
          /\ DOMAIN Append(box, m) = 1..Len(box) + 1
      BY <2>3, <2>4, LenProperties
    <2>6. PICK more : more = Append(box, m)
      OBVIOUS
    <2>7. F[t].box[e] = more
      BY <1>2, <2>1, <2>3, <2>6
    <2>8. /\ \A k \in DOMAIN box : k \in DOMAIN more /\ more[k] = box[k]
          /\ \A k \in DOMAIN more : more[k] = m \/ (k \in DOMAIN box /\ more[k] = box[k])
      BY <2>4, <2>5, <2>6
    <2>9. \A x : Awaits(sess, t, e, x) => Awaits(F, t, e, x)
      BY <2>3, <2>7, <2>8 DEF Awaits
    <2>10. \A x : Awaits(F, t, e, x) /\ x.verb = "connect" => Awaits(sess, t, e, x)
      BY <2>2, <2>3, <2>7, <2>8 DEF Awaits
    <2>. QED
      BY <2>9, <2>10 DEF BoxKept
  <1>. QED
    BY <1>1, <1>2

\* A step does with each thread one of these.
LEMMA ThreadTurns ==
  ASSUME TopologyAssumption, NetTyped, [NetNext]_netVars
  PROVE  \A t \in DOMAIN sess : \A e \in Ends(t) : ThreadTurn(t, e)
  <1>0. sess \in Seq(AllSessions) /\ NoNet \in Descriptions
    BY NothingTyped DEF NetTyped, ConnectionsTyped
  <1>a. DescriptionsTyped /\ ConnectionsTyped
    BY DEF NetTyped
  <1>1. ASSUME NEW t \in DOMAIN sess, NEW e \in Ends(t), sess'[t].box[e] = sess[t].box[e],
               \/ sess'[t].pc[e] = sess[t].pc[e] /\ sess'[t].work[e] = sess[t].work[e]
               \/ sess'[t].pc[e] = "closed"
               \/ Adopt(t, e) \/ Spread(t, e) \/ Reply(t, e) \/ HandshakeAccepted(t)
        PROVE  ThreadTurn(t, e)
    <2>1. BoxKept(sess', t, e)
      BY <1>0, <1>1, BoxGrown
    <2>. QED
      BY <1>1, <2>1 DEF ThreadTurn
  <1>2. CASE UNCHANGED sess
    BY <1>1, <1>2
  <1>3. ASSUME NEW n \in Nodes, CallStep(n), NEW t \in DOMAIN sess, NEW e \in Ends(t)
        PROVE  ThreadTurn(t, e)
    <2>1. PICK m \in Nodes : Reconnect(n, m)
      BY <1>3 DEF CallStep
    <2>2. PICK k : Called(sess', k, n, m)
      BY <1>a, <2>1, ReconnectEffect
    <2>3. sess'[t] = sess[t]
      BY <2>2 DEF Called
    <2>. QED
      BY <1>1, <2>3
  <1>4. ASSUME NEW s \in DOMAIN sess, NEW n \in Ends(s), sess' = Turn(s, n, "closed", NoNet),
               NEW t \in DOMAIN sess, NEW e \in Ends(t)
        PROVE  ThreadTurn(t, e)
    <2>1. /\ sess'[t].pc[e] = IF t = s /\ e = n THEN "closed" ELSE sess[t].pc[e]
          /\ sess'[t].work[e] = IF t = s /\ e = n THEN NoNet ELSE sess[t].work[e]
          /\ sess'[t].box[e] = sess[t].box[e]
      BY <1>a, <1>4, ClosedEffect
    <2>. QED
      BY <1>1, <2>1
  <1>5. ASSUME NEW s \in DOMAIN sess, HandshakeStep(s), NEW t \in DOMAIN sess, NEW e \in Ends(t)
        PROVE  ThreadTurn(t, e)
    <2> DEFINE n == sess[s].from
               m == sess[s].to
    <2>0. n \in Ends(s) /\ n \in Nodes /\ n # m
      BY <1>0, EndsAre
    <2>1. CASE HandshakeAccepted(s)
      <3>1. PICK q \in {"answered", "closed"} :
              /\ sess'[t].pc[e] = IF t # s THEN sess[t].pc[e]
                                  ELSE IF e = sess[s].to THEN "read" ELSE q
              /\ sess'[t].work[e] = sess[t].work[e]
              /\ sess'[t].box[e] = sess[t].box[e]
        BY <1>a, <2>1, AcceptedEffect
      <3>2. \/ sess'[t].pc[e] = sess[t].pc[e] /\ sess'[t].work[e] = sess[t].work[e]
            \/ HandshakeAccepted(t)
        BY <2>1, <3>1
      <3>. QED
        BY <1>1, <3>1, <3>2
    <2>2. CASE HandshakeRefused(s) \/ HandshakeStranded(s)
      <3>1. /\ sess'[t].pc[e] = IF t # s THEN sess[t].pc[e] ELSE "closed"
            /\ sess'[t].work[e] = sess[t].work[e]
            /\ sess'[t].box[e] = sess[t].box[e]
        BY <1>a, <2>2, RefusedEffect
      <3>. QED
        BY <1>1, <3>1
    <2>3. CASE HandshakeLost(s) \/ (HandshakeFinished(s) /\ ~(s \notin broken /\ ConnectNode(n, m)))
      <3>1. sess' = Turn(s, n, "closed", NoNet)
        BY <2>3 DEF HandshakeLost, HandshakeFinished
      <3>. QED
        BY <1>4, <2>0, <3>1
    <2>4. CASE HandshakeFinished(s) /\ s \notin broken /\ ConnectNode(n, m)
      <3>1. CASE t = s
        BY <2>4, <3>1 DEF ThreadTurn, Introduced
      <3>2. CASE t # s
        <4>1. \A u \in DOMAIN sess : \A f \in Ends(u) :
                /\ sess'[u].pc[f] = IF u = s /\ f = n THEN "read" ELSE sess[u].pc[f]
                /\ sess'[u].work[f] = IF u = s /\ f = n THEN NoNet ELSE sess[u].work[f]
                /\ sess'[u].box[f] = IF u = s /\ f = m
                                     THEN Append(sess[u].box[f], ConnectWith(desc[n]))
                                     ELSE sess[u].box[f]
          BY <1>a, <2>4, FinishedEffect
        <4>. QED
          BY <1>1, <3>2, <4>1
      <3>. QED
        BY <3>1, <3>2
    <2>. QED
      BY <1>5, <2>1, <2>2, <2>3, <2>4 DEF HandshakeStep
  <1>6. ASSUME NEW d \in Descriptions, NEW S, NEW n, Mailed(sess', S, n, d),
               NEW t \in DOMAIN sess, NEW e \in Ends(t),
               \/ sess'[t].pc[e] = sess[t].pc[e] /\ sess'[t].work[e] = sess[t].work[e]
               \/ Spread(t, e) \/ Reply(t, e)
        PROVE  ThreadTurn(t, e)
    <2>1. BoxKept(sess', t, e)
      <3>1. \/ sess'[t].box[e] = sess[t].box[e]
            \/ sess'[t].box[e] = Append(sess[t].box[e], UpdateWith(d))
        BY <1>6 DEF Mailed
      <3>. QED
        BY <1>0, <3>1, BoxGrown
    <2>. QED
      BY <1>6, <2>1 DEF ThreadTurn
  <1>7. ASSUME NEW s \in DOMAIN sess, NEW n \in Ends(s), TalkStep(s, n),
               NEW t \in DOMAIN sess, NEW e \in Ends(t)
        PROVE  ThreadTurn(t, e)
    <2>0. n \in Nodes /\ desc[n] \in Descriptions /\ sess[s].work[n] \in Descriptions
      BY <1>0, <1>a, FieldsTyped, WorkTyped
    <2>1. CASE SessionEnds(s, n)
      <3>1. sess' = Turn(s, n, "closed", NoNet)
        BY <2>1 DEF SessionEnds
      <3>. QED
        BY <1>4, <3>1
    <2>2. CASE Receive(s, n)
      <3>1. CASE t = s /\ e = n
        BY <2>2, <3>1 DEF ThreadTurn
      <3>2. CASE ~(t = s /\ e = n)
        <4>1. \A u \in DOMAIN sess : \A f \in Ends(u) :
                /\ sess'[u].pc[f] = IF u = s /\ f = n
                                    THEN LabelFor(Head(sess[s].box[n]), desc[n]) ELSE sess[u].pc[f]
                /\ sess'[u].work[f] = IF u = s /\ f = n THEN Head(sess[s].box[n]).net
                                                        ELSE sess[u].work[f]
                /\ sess'[u].box[f] = IF u = s /\ f = n THEN Tail(sess[u].box[f])
                                                       ELSE sess[u].box[f]
          BY <2>2, ReceiveEffect
        <4>. QED
          BY <1>1, <3>2, <4>1
      <3>. QED
        BY <3>1, <3>2
    <2>3. CASE Spread(s, n)
      <3>1. /\ Alike(sess')
            /\ \A u \in DOMAIN sess : \A f \in Ends(u) :
                 /\ sess'[u].pc[f] = IF u = s /\ f = n THEN "read" ELSE sess[u].pc[f]
                 /\ sess'[u].work[f] = IF u = s /\ f = n THEN NoNet ELSE sess[u].work[f]
                 /\ sess'[u].box[f] = IF u \in Broadcast(n) /\ f = Peer(u, n)
                                   THEN Append(sess[u].box[f], UpdateWith(sess[s].work[n]))
                                   ELSE sess[u].box[f]
        BY <2>3, SpreadEffect
      <3>2. Mailed(sess', Broadcast(n), n, sess[s].work[n])
        BY <3>1 DEF Mailed
      <3>3. \/ sess'[t].pc[e] = sess[t].pc[e] /\ sess'[t].work[e] = sess[t].work[e]
            \/ Spread(t, e)
        BY <2>3, <3>1
      <3>. QED
        BY <1>6, <2>0, <3>2, <3>3
    <2>4. CASE Reply(s, n)
      <3>1. /\ Alike(sess')
            /\ \A u \in DOMAIN sess : \A f \in Ends(u) :
                 /\ sess'[u].pc[f] = IF u = s /\ f = n THEN "read" ELSE sess[u].pc[f]
                 /\ sess'[u].work[f] = IF u = s /\ f = n THEN NoNet ELSE sess[u].work[f]
                 /\ sess'[u].box[f] = IF u \in SocketAt(n, sess[s].addr[n]) \ broken
                      /\ f = Peer(u, n)
                                   THEN Append(sess[u].box[f], UpdateWith(desc[n]))
                                   ELSE sess[u].box[f]
        BY <2>4, ReplyEffect
      <3>2. Mailed(sess', SocketAt(n, sess[s].addr[n]) \ broken, n, desc[n])
        BY <3>1 DEF Mailed
      <3>3. \/ sess'[t].pc[e] = sess[t].pc[e] /\ sess'[t].work[e] = sess[t].work[e]
            \/ Reply(t, e)
        BY <2>4, <3>1
      <3>. QED
        BY <1>6, <2>0, <3>2, <3>3
    <2>. QED
      BY <1>7, <2>1, <2>2, <2>3, <2>4 DEF TalkStep
  <1>8. ASSUME NEW s \in DOMAIN sess, NEW n \in Ends(s), Adopt(s, n),
               NEW t \in DOMAIN sess, NEW e \in Ends(t)
        PROVE  ThreadTurn(t, e)
    <2>1. \A u \in DOMAIN sess : \A f \in Ends(u) :
               /\ u # s \/ f # n => /\ sess'[u].pc[f] = sess[u].pc[f]
                                    /\ sess'[u].work[f] = sess[u].work[f]
               /\ sess'[u].box[f] = sess[u].box[f]
      BY <1>8, AdoptEffect
    <2>2. \/ sess'[t].pc[e] = sess[t].pc[e] /\ sess'[t].work[e] = sess[t].work[e]
          \/ Adopt(t, e)
      BY <1>8, <2>1
    <2>. QED
      BY <1>1, <2>1, <2>2
  <1>9. ASSUME NEW n \in Nodes, CloseStep(n), NEW t \in DOMAIN sess, NEW e \in Ends(t)
        PROVE  ThreadTurn(t, e)
    <2>1. \A u \in DOMAIN sess : \A f \in Ends(u) :
               /\ sess'[u].pc[f] = IF f = n THEN "closed" ELSE sess[u].pc[f]
               /\ sess'[u].work[f] = sess[u].work[f]
               /\ sess'[u].box[f] = sess[u].box[f]
      BY <1>9, CloseSteps, ClosedSessions
    <2>. QED
      BY <1>1, <2>1
  <1>10. ASSUME NEW n \in Nodes, JoinSpread(n), NEW t \in DOMAIN sess, NEW e \in Ends(t)
         PROVE  ThreadTurn(t, e)
    <2>1. /\ joining[n].net \in Descriptions /\ Alike(sess')
          /\ \A u \in DOMAIN sess : \A f \in Ends(u) :
               /\ sess'[u].pc[f] = sess[u].pc[f]
               /\ sess'[u].work[f] = sess[u].work[f]
               /\ sess'[u].box[f] = IF u \in Broadcast(n) /\ f = Peer(u, n)
                                   THEN Append(sess[u].box[f], UpdateWith(joining[n].net))
                                   ELSE sess[u].box[f]
      BY <1>10, JoinSpreadEffect
    <2>3. Mailed(sess', Broadcast(n), n, joining[n].net)
      BY <2>1 DEF Mailed
    <2>. QED
      BY <1>6, <2>1, <2>3
  <1>11. ASSUME NEW n \in Nodes, RemoveSpread(n), NEW t \in DOMAIN sess, NEW e \in Ends(t)
         PROVE  ThreadTurn(t, e)
    <2>1. /\ RemovalOf(n) \in Descriptions /\ Alike(sess')
          /\ \A u \in DOMAIN sess : \A f \in Ends(u) :
               /\ sess'[u].pc[f] = sess[u].pc[f]
               /\ sess'[u].work[f] = sess[u].work[f]
               /\ sess'[u].box[f] = IF u \in Broadcast(n) /\ f = Peer(u, n)
                                   THEN Append(sess[u].box[f], UpdateWith(RemovalOf(n)))
                                   ELSE sess[u].box[f]
      BY <1>11, RemoveSpreadEffect
    <2>3. Mailed(sess', Broadcast(n), n, RemovalOf(n))
      BY <2>1 DEF Mailed
    <2>. QED
      BY <1>6, <2>1, <2>3
  <1>12. ASSUME NEW s, ConnectionFails(s)
         PROVE  UNCHANGED sess
    BY <1>12 DEF ConnectionFails
  <1>13. ASSUME NEW n \in Nodes, NEW m \in Nodes,
                \/ ServerNetConnect(n) \/ ServerNetForget(n) \/ JoinServed(n) \/ JoinDenied(n)
                \/ JoinAnswered(n) \/ JoinUnanswered(n) \/ RemoveUpdate(n) \/ JoinRequest(m, n)
                \/ RemoveNode(n, m) \/ RemoveStamp(n) \/ RemoveAbandoned(n)
         PROVE  UNCHANGED sess
    BY <1>13 DEF ServerNetConnect, ServerNetForget, JoinServed, JoinDenied, JoinAnswered,
                 JoinUnanswered, RemoveUpdate, JoinRequest, RemoveNode, RemoveStamp, RemoveAbandoned
  <1>14. CASE UNCHANGED netVars
    BY <1>2, <1>14 DEF netVars
  <1>. QED
    BY <1>2, <1>3, <1>5, <1>7, <1>8, <1>9, <1>10, <1>11, <1>12, <1>13, <1>14, NetSteps

-----------------------------------------------------------------------------
(* The "connect" of a handshake *)

\* A step keeps the sessions there are, and at most adds one.
LEMMA SessionsAlike ==
  ASSUME TopologyAssumption, NetTyped, [NetNext]_netVars
  PROVE  Alike(sess') \/ \E n, m \in Nodes : \E k : Called(sess', k, n, m)
  <1>0. sess \in Seq(AllSessions) /\ NoNet \in Descriptions /\ DescriptionsTyped /\ ConnectionsTyped
    BY NothingTyped DEF NetTyped, ConnectionsTyped
  <1>1. CASE UNCHANGED sess
    BY <1>1 DEF Alike
  <1>2. ASSUME NEW n \in Nodes, CallStep(n)
        PROVE  \E m \in Nodes : \E k : Called(sess', k, n, m)
    <2>1. PICK m \in Nodes : Reconnect(n, m)
      BY <1>2 DEF CallStep
    <2>. QED
      BY <1>0, <2>1, ReconnectEffect
  <1>3. ASSUME NEW s \in DOMAIN sess, NEW n \in Ends(s), sess' = Turn(s, n, "closed", NoNet)
        PROVE  Alike(sess')
    BY <1>0, <1>3, ClosedEffect
  <1>4. ASSUME NEW s \in DOMAIN sess, HandshakeStep(s)
        PROVE  Alike(sess')
    <2> DEFINE n == sess[s].from
               m == sess[s].to
    <2>0. n \in Ends(s)
      BY <1>0, EndsAre
    <2>1. CASE HandshakeAccepted(s)
      BY <1>0, <2>1, AcceptedEffect
    <2>2. CASE HandshakeRefused(s) \/ HandshakeStranded(s)
      BY <1>0, <2>2, RefusedEffect
    <2>3. CASE HandshakeLost(s) \/ (HandshakeFinished(s) /\ ~(s \notin broken /\ ConnectNode(n, m)))
      <3>1. sess' = Turn(s, n, "closed", NoNet)
        BY <2>3 DEF HandshakeLost, HandshakeFinished
      <3>. QED
        BY <1>3, <2>0, <3>1
    <2>4. CASE HandshakeFinished(s) /\ s \notin broken /\ ConnectNode(n, m)
      BY <1>0, <2>4, FinishedEffect
    <2>. QED
      BY <1>4, <2>1, <2>2, <2>3, <2>4 DEF HandshakeStep
  <1>5. ASSUME NEW s \in DOMAIN sess, NEW n \in Ends(s), TalkStep(s, n) \/ Adopt(s, n)
        PROVE  Alike(sess')
    <2>1. CASE SessionEnds(s, n)
      <3>1. sess' = Turn(s, n, "closed", NoNet)
        BY <2>1 DEF SessionEnds
      <3>. QED
        BY <1>3, <3>1
    <2>2. CASE Receive(s, n)
      BY <2>2, ReceiveEffect
    <2>3. CASE Spread(s, n)
      BY <2>3, SpreadEffect
    <2>4. CASE Reply(s, n)
      BY <2>4, ReplyEffect
    <2>5. CASE Adopt(s, n)
      BY <2>5, AdoptEffect
    <2>. QED
      BY <1>5, <2>1, <2>2, <2>3, <2>4, <2>5 DEF TalkStep
  <1>6. ASSUME NEW n \in Nodes, CloseStep(n)
        PROVE  Alike(sess')
    BY <1>6, CloseSteps, ClosedSessions
  <1>7. ASSUME NEW n \in Nodes, JoinSpread(n)
         PROVE  Alike(sess')
    BY <1>7, JoinSpreadEffect
  <1>8. ASSUME NEW n \in Nodes, RemoveSpread(n)
         PROVE  Alike(sess')
    BY <1>8, RemoveSpreadEffect
  <1>9. ASSUME NEW n \in Nodes, NEW m \in Nodes, NEW s,
                \/ ConnectionFails(s)
                \/ ServerNetConnect(n) \/ ServerNetForget(n) \/ JoinServed(n) \/ JoinDenied(n)
                \/ JoinAnswered(n) \/ JoinUnanswered(n) \/ RemoveUpdate(n) \/ JoinRequest(m, n)
                \/ RemoveNode(n, m) \/ RemoveStamp(n) \/ RemoveAbandoned(n)
         PROVE  UNCHANGED sess
    BY <1>9 DEF ConnectionFails, ServerNetConnect, ServerNetForget, JoinServed, JoinDenied,
                JoinAnswered, JoinUnanswered, RemoveUpdate, JoinRequest, RemoveNode,
                RemoveStamp, RemoveAbandoned
  <1>10. CASE UNCHANGED netVars
    BY <1>1, <1>10 DEF netVars
  <1>. QED
    BY <1>1, <1>2, <1>4, <1>5, <1>6, <1>7, <1>8, <1>9, <1>10, NetSteps

\* The ends of a session are the same ever after; a new one has no message, and no thread.
LEMMA SessionsStay ==
  ASSUME TopologyAssumption, NetTyped, [NetNext]_netVars
  PROVE  /\ \A t \in DOMAIN sess :
              /\ t \in DOMAIN sess' /\ Ends(t)' = Ends(t)
              /\ sess'[t].from = sess[t].from /\ sess'[t].to = sess[t].to
              /\ \A e, f : f = Peer(t, e) => (f = Peer(t, e))'
         /\ \A t \in DOMAIN sess' : t \notin DOMAIN sess =>
              \A e \in Ends(t)' : sess'[t].box[e] = <<>> /\ sess'[t].pc[e] \in {"ask", "new"}
  <1>0. sess \in Seq(AllSessions)
    BY DEF NetTyped, ConnectionsTyped
  <1>1. CASE Alike(sess')
    BY <1>0, <1>1, EndsStay
  <1>2. ASSUME NEW n \in Nodes, NEW m \in Nodes, NEW k, Called(sess', k, n, m)
        PROVE  /\ \A t \in DOMAIN sess :
                    /\ t \in DOMAIN sess' /\ Ends(t)' = Ends(t)
                    /\ sess'[t].from = sess[t].from /\ sess'[t].to = sess[t].to
                    /\ \A e, f : f = Peer(t, e) => (f = Peer(t, e))'
               /\ \A t \in DOMAIN sess' : t \notin DOMAIN sess =>
                    \A e \in Ends(t)' : sess'[t].box[e] = <<>> /\ sess'[t].pc[e] \in {"ask", "new"}
    <2>1. ASSUME NEW t \in DOMAIN sess
          PROVE  /\ t \in DOMAIN sess' /\ Ends(t)' = Ends(t)
                 /\ sess'[t].from = sess[t].from /\ sess'[t].to = sess[t].to
                 /\ \A e, f : f = Peer(t, e) => (f = Peer(t, e))'
      <3>1. t \in DOMAIN sess' /\ sess'[t] = sess[t]
        BY <1>2 DEF Called
      <3>. QED
        BY <3>1 DEF Ends, Peer
    <2>2. ASSUME NEW t \in DOMAIN sess', t \notin DOMAIN sess, NEW e \in Ends(t)'
          PROVE  sess'[t].box[e] = <<>> /\ sess'[t].pc[e] \in {"ask", "new"}
      <3>1. t = k /\ e \in {n, m}
        BY <1>2, <2>2 DEF Called, Ends
      <3>. QED
        BY <1>2, <3>1 DEF Called
    <2>. QED
      BY <2>1, <2>2
  <1>. QED
    BY <1>1, <1>2, SessionsAlike

-----------------------------------------------------------------------------

\* A "connect" goes from the caller to the one called, and only after the handshake.
ConnectsOnce ==
  \A t \in DOMAIN sess : \A e \in Ends(t) : \A m : Awaits(sess, t, e, m) /\ m.verb = "connect" =>
    e = sess[t].to /\ sess[t].pc[sess[t].from] \notin {"ask", "answered"}

\* What an appended message adds to a box.
LEMMA AppendedIs ==
  ASSUME NEW box \in Seq(Messages), NEW m \in Messages
  PROVE  /\ \A k \in DOMAIN box : k \in DOMAIN Append(box, m) /\ Append(box, m)[k] = box[k]
         /\ \A k \in DOMAIN Append(box, m) :
              \/ Append(box, m)[k] = m
              \/ k \in DOMAIN box /\ Append(box, m)[k] = box[k]
         /\ \E k \in DOMAIN Append(box, m) : Append(box, m)[k] = m
  <1>1. /\ Len(Append(box, m)) = Len(box) + 1
        /\ \A i \in 1..Len(box) + 1 : Append(box, m)[i] = IF i <= Len(box) THEN box[i] ELSE m
        /\ Append(box, m) \in Seq(Messages)
    BY AppendRecord
  <1>2. /\ Len(box) \in Nat /\ DOMAIN box = 1..Len(box)
        /\ DOMAIN Append(box, m) = 1..Len(box) + 1
    BY <1>1, LenProperties
  <1>. QED
    BY <1>1, <1>2

\* Where a "connect" comes from.
LEMMA ConnectSource ==
  ASSUME TopologyAssumption, NetTyped, [NetNext]_netVars,
         NEW t \in DOMAIN sess', NEW e \in Ends(t)', NEW m, Awaits(sess', t, e, m),
           m.verb = "connect"
  PROVE  /\ t \in DOMAIN sess /\ e \in Ends(t)
         /\ \/ Awaits(sess, t, e, m)
            \/ /\ Introduced(t) /\ e = sess[t].to /\ m = ConnectWith(desc[sess[t].from])
               /\ sess'[t].pc[sess[t].from] = "read"
  <1>0. sess \in Seq(AllSessions) /\ DescriptionsTyped /\ ConnectionsTyped
    BY DEF NetTyped, ConnectionsTyped
  <1>1. t \in DOMAIN sess
    <2>1. CASE t \notin DOMAIN sess
      <3>1. sess'[t].box[e] = <<>>
        BY <2>1, SessionsStay
      <3>. QED
        BY <3>1 DEF Awaits
    <2>. QED
      BY <2>1
  <1>2. e \in Ends(t)
    BY <1>1, SessionsStay
  <1>3. CASE BoxKept(sess', t, e)
    BY <1>1, <1>2, <1>3 DEF BoxKept
  <1>4. CASE Receive(t, e)
    <2>1. sess'[t].box[e] = Tail(sess[t].box[e])
      BY <1>1, <1>2, <1>4, ReceiveEffect
    <2>2. PICK box \in Seq(Messages) : box = sess[t].box[e]
      BY <1>0, <1>1, <1>2, FieldsTyped
    <2>3. box # <<>>
      BY <1>4, <2>2 DEF Receive
    <2>4. /\ Tail(box) \in Seq(Messages) /\ Len(Tail(box)) = Len(box) - 1
          /\ \A i \in 1..Len(Tail(box)) : Tail(box)[i] = box[i + 1]
      BY <2>3, HeadTailProperties
    <2>5. /\ Len(box) \in Nat /\ DOMAIN box = 1..Len(box) /\ DOMAIN Tail(box) = 1..Len(Tail(box))
      BY <2>4, LenProperties
    <2>6. \A i \in DOMAIN Tail(box) : i + 1 \in DOMAIN box /\ Tail(box)[i] = box[i + 1]
      BY <2>4, <2>5
    <2>7. Awaits(sess, t, e, m)
      BY <2>1, <2>2, <2>6 DEF Awaits
    <2>. QED
      BY <1>1, <1>2, <2>7
  <1>5. CASE Introduced(t)
    <2>1. /\ sess'[t].pc[sess[t].from] = "read"
          /\ sess'[t].box[e] = IF e = sess[t].to
                               THEN Append(sess[t].box[e], ConnectWith(desc[sess[t].from]))
                               ELSE sess[t].box[e]
          /\ ConnectWith(desc[sess[t].from]) \in Messages
      <3>1. sess[t].from \in Ends(t)
        BY <1>0, <1>1, EndsAre
      <3>. QED
        BY <1>0, <1>1, <1>2, <1>5, <3>1, FinishedEffect DEF Introduced
    <2>2. CASE e # sess[t].to
      BY <1>1, <1>2, <2>1, <2>2 DEF Awaits
    <2>3. CASE e = sess[t].to
      <3>1. PICK x \in Messages : x = ConnectWith(desc[sess[t].from])
        BY <2>1
      <3>2. PICK box \in Seq(Messages) : box = sess[t].box[e]
        BY <1>0, <1>1, <1>2, FieldsTyped
      <3>5. \A k \in DOMAIN Append(box, x) :
              Append(box, x)[k] = x \/ (k \in DOMAIN box /\ Append(box, x)[k] = box[k])
        BY AppendedIs
      <3>3. PICK more : more = Append(box, x)
        OBVIOUS
      <3>4. sess'[t].box[e] = more
        BY <2>1, <2>3, <3>1, <3>2, <3>3
      <3>6. m = x \/ Awaits(sess, t, e, m)
        BY <3>2, <3>3, <3>4, <3>5 DEF Awaits
      <3>. QED
        BY <1>1, <1>2, <1>5, <2>1, <2>3, <3>1, <3>6
    <2>. QED
      BY <2>2, <2>3
  <1>6. ThreadTurn(t, e)
    BY <1>1, <1>2, ThreadTurns
  <1>. QED
    BY <1>3, <1>4, <1>5, <1>6 DEF ThreadTurn

\* A thread that has ended the handshake does not begin it again.
LEMMA HandshakeOver ==
  ASSUME TopologyAssumption, NetTyped, [NetNext]_netVars, NEW t \in DOMAIN sess, NEW e \in Ends(t),
         e = sess[t].from, sess[t].pc[e] \notin {"ask", "answered"}
  PROVE  sess'[t].pc[e] \notin {"ask", "answered"}
  <1>0. sess \in Seq(AllSessions) /\ DescriptionsTyped /\ ConnectionsTyped
    BY DEF NetTyped, ConnectionsTyped
  <1>1. CASE Receive(t, e)
    <2>1. sess'[t].pc[e] = LabelFor(Head(sess[t].box[e]), desc[e])
      BY <1>1, ReceiveEffect
    <2>. QED
      BY <2>1 DEF LabelFor
  <1>2. CASE Introduced(t)
    <2>1. sess'[t].pc[e] = "read"
      BY <1>0, <1>2, FinishedEffect DEF Introduced
    <2>. QED
      BY <2>1
  <1>3. CASE Adopt(t, e)
    BY <1>3, AdoptEffect
  <1>4. CASE Spread(t, e)
    <2>1. sess'[t].pc[e] = "read"
      BY <1>4, SpreadEffect
    <2>. QED
      BY <2>1
  <1>5. CASE Reply(t, e)
    <2>1. sess'[t].pc[e] = "read"
      BY <1>5, ReplyEffect
    <2>. QED
      BY <2>1
  <1>6. CASE HandshakeAccepted(t)
    BY <1>6 DEF HandshakeAccepted
  <1>7. ThreadTurn(t, e)
    BY ThreadTurns
  <1>. QED
    BY <1>1, <1>2, <1>3, <1>4, <1>5, <1>6, <1>7 DEF ThreadTurn

\* Every step keeps the rule of the "connect".
LEMMA ConnectsStep ==
  ASSUME TopologyAssumption, NetTyped, ConnectsOnce, [NetNext]_netVars
  PROVE  ConnectsOnce'
  <1>0. sess \in Seq(AllSessions)
    BY DEF NetTyped, ConnectionsTyped
  <1>1. ASSUME NEW t \in DOMAIN sess', NEW e \in Ends(t)', NEW m, Awaits(sess', t, e, m),
               m.verb = "connect"
        PROVE  e = sess'[t].to /\ sess'[t].pc[sess'[t].from] \notin {"ask", "answered"}
    <2>1. /\ t \in DOMAIN sess /\ e \in Ends(t)
          /\ \/ Awaits(sess, t, e, m)
             \/ e = sess[t].to /\ sess'[t].pc[sess[t].from] = "read"
      BY <1>1, ConnectSource
    <2>2. sess'[t].to = sess[t].to /\ sess'[t].from = sess[t].from /\ sess[t].from \in Ends(t)
      BY <1>0, <2>1, SessionsStay, EndsAre
    <2>3. CASE Awaits(sess, t, e, m)
      <3>1. e = sess[t].to /\ sess[t].pc[sess[t].from] \notin {"ask", "answered"}
        BY <1>1, <2>1, <2>3 DEF ConnectsOnce
      <3>2. sess'[t].pc[sess[t].from] \notin {"ask", "answered"}
        BY <2>1, <2>2, <3>1, HandshakeOver
      <3>. QED
        BY <2>2, <3>1, <3>2
    <2>. QED
      BY <2>1, <2>2, <2>3
  <1>. QED
    BY <1>1 DEF ConnectsOnce, Awaits

-----------------------------------------------------------------------------
(* Times only grow *)

\* No description anywhere is of a time to come.
LEMMA AgreedTimes ==
  ASSUME TopologyAssumption, NetTyped, Agreed
  PROVE  /\ clock \in Nat
         /\ \A n \in Nodes : desc[n].time \in Nat /\ desc[n].time <= clock
         /\ \A t \in DOMAIN sess : \A e \in Ends(t) : \A m : Awaits(sess, t, e, m) =>
              m \in Messages /\ m.net.time \in Nat /\ m.net.time <= clock
  <1>0. /\ sess \in Seq(AllSessions) /\ clock \in 1..MaxTime /\ MaxTime \in Nat
        /\ desc \in [Nodes -> Descriptions]
    BY DEF NetTyped, ConnectionsTyped, DescriptionsTyped, CountersTyped, TopologyAssumption
  <1>1. PICK R \in Rolls : RollOf(R, clock)
    BY DEF Agreed
  <1>2. \A d \in Descriptions : d.time \in Nat
    BY <1>0, DescriptionIs
  <1>3. ASSUME NEW n \in Nodes
        PROVE  desc[n].time \in Nat /\ desc[n].time <= clock
    BY <1>0, <1>1, <1>2 DEF RollOf, NodeFits, Fits
  <1>4. ASSUME NEW t \in DOMAIN sess, NEW e \in Ends(t), NEW m, Awaits(sess, t, e, m)
        PROVE  m \in Messages /\ m.net.time \in Nat /\ m.net.time <= clock
    <2>1. PICK box \in Seq(Messages) : box = sess[t].box[e]
      BY <1>0, FieldsTyped
    <2>2. PICK k \in DOMAIN box : box[k] = m
      BY <1>4, <2>1 DEF Awaits
    <2>3. m \in Messages
      BY <2>2, ElementOfSeq, LenProperties
    <2>4. m.net \in Descriptions
      BY <2>3 DEF Messages
    <2>5. BoxFits(R, clock, box)
      BY <1>1, <2>1 DEF RollOf, ThreadFits
    <2>6. m.net.time <= clock
      BY <2>2, <2>5 DEF BoxFits, Fits
    <2>. QED
      BY <1>2, <2>3, <2>4, <2>6
  <1>. QED
    BY <1>0, <1>3, <1>4

\* Once a change may be missed, nothing is said of the net any more.
LEMMA DisturbedStays ==
  ASSUME [NetNext]_netVars, disturbed
  PROVE  disturbed'
  <1>1. ASSUME NEW s, HandshakeStep(s)
        PROVE  disturbed'
    BY <1>1 DEF HandshakeStep, HandshakeAccepted, HandshakeRefused, HandshakeStranded,
       HandshakeLost,
                HandshakeFinished, netHistory
  <1>2. ASSUME NEW s, NEW n, TalkStep(s, n) \/ Adopt(s, n)
        PROVE  disturbed'
    BY <1>2 DEF TalkStep, SessionEnds, Receive, Spread, Reply, Adopt, netHistory
  <1>3. ASSUME NEW n, CloseStep(n) \/ CallStep(n)
        PROVE  disturbed'
    BY <1>3 DEF CloseStep, CallStep, ServerNetDisconnect, ServerShutdown, Crash, Leave, Reconnect,
                netHistory
  <1>4. ASSUME NEW n, NEW m, NEW s,
               \/ ConnectionFails(s) \/ ServerNetConnect(n) \/ ServerNetForget(n) \/ JoinServed(n)
               \/ JoinDenied(n) \/ JoinAnswered(n) \/ JoinSpread(n) \/ RemoveSpread(n)
               \/ RemoveUpdate(n) \/ JoinRequest(m, n) \/ RemoveNode(n, m)
               \/ JoinUnanswered(n) \/ RemoveStamp(n) \/ RemoveAbandoned(n)
        PROVE  disturbed'
    BY <1>4 DEF ConnectionFails, ServerNetConnect, ServerNetForget, JoinServed, JoinDenied,
                JoinAnswered, JoinSpread, RemoveSpread, RemoveUpdate, JoinRequest, RemoveNode,
                JoinUnanswered, RemoveStamp, RemoveAbandoned, netHistory
  <1>5. CASE UNCHANGED netVars
    BY <1>5 DEF netVars, netHistory
  <1>. QED
    BY <1>1, <1>2, <1>3, <1>4, <1>5, NetSteps

\* An update gives the description of its node the time it has itself.
LEMMA UpdateTime ==
  ASSUME TopologyAssumption, DescriptionsTyped, NEW n \in Nodes, NEW d \in Descriptions,
         Update(n, d)
  PROVE  desc'[n].time = d.time /\ \A k \in Nodes : k # n => desc'[k] = desc[k]
  <1>1. PICK list : desc' = [desc EXCEPT ![n] = [time |-> d.time, list |-> list]]
    BY UpdateEffect
  <1>. QED
    BY <1>1 DEF DescriptionsTyped

\* A description is replaced by a later one, unless the net is disturbed, or its node
\* closes its connections and is not the author of the latest change.
LEMMA TimeSteps ==
  ASSUME TopologyAssumption, NetTyped, Joins, Agreed, [NetNext]_netVars, NEW n \in Nodes
  PROVE  disturbed' \/ desc'[n].time >= desc[n].time \/ (n \notin online' /\ n # author)
  <1>0. /\ sess \in Seq(AllSessions) /\ clock \in 1..MaxTime /\ DescriptionsTyped
        /\ desc \in [Nodes -> Descriptions] /\ desc[n].time \in Nat /\ desc[n].time <= clock
        /\ MaxTime \in Nat
    BY AgreedTimes DEF NetTyped, ConnectionsTyped, DescriptionsTyped, CountersTyped,
       TopologyAssumption
  <1>1. CASE desc'[n] = desc[n]
    BY <1>0, <1>1
  <1>2. ASSUME UNCHANGED desc
        PROVE  desc'[n] = desc[n]
    BY <1>2
  <1>3. ASSUME NEW k \in Nodes, NEW d \in Descriptions, Update(k, d),
               disturbed' = (disturbed \/ d.time < desc[k].time)
        PROVE  disturbed' \/ desc'[n].time >= desc[n].time
    <2>1. PICK list : desc' = [desc EXCEPT ![k] = [time |-> d.time, list |-> list]]
      BY <1>0, <1>3, UpdateEffect, ZenonT(30)
    <2>2. n # k => desc'[n] = desc[n]
      BY <1>0, <2>1
    <2>3. n = k => desc'[n].time = d.time
      BY <1>0, <2>1
    <2>4. d.time \in 0..MaxTime
      BY DescriptionIs
    <2>5. n = k => disturbed' \/ ~(d.time < desc[n].time)
      BY <1>3
    <2>. QED
      BY <1>0, <2>2, <2>3, <2>4, <2>5
  <1>4. ASSUME NEW s \in DOMAIN sess, NEW k \in Ends(s), Adopt(s, k)
        PROVE  disturbed' \/ desc'[n].time >= desc[n].time
    <2>1. k \in Nodes /\ sess[s].work[k] \in Descriptions
      BY <1>0, FieldsTyped
    <2>2. Update(k, sess[s].work[k]) /\ disturbed' = (disturbed
            \/ sess[s].work[k].time < desc[k].time)
      BY <1>4 DEF Adopt
    <2>. QED
      BY <1>3, <2>1, <2>2
  <1>5. ASSUME NEW k \in Nodes, RemoveUpdate(k)
        PROVE  disturbed' \/ desc'[n].time >= desc[n].time
    <2>1. RemovalOf(k) \in Descriptions
      BY <1>0, <1>5, WorkTyped DEF RemoveUpdate, Stamped
    <2>2. Update(k, RemovalOf(k)) /\ disturbed' = (disturbed \/ RemovalOf(k).time < desc[k].time)
      BY <1>5 DEF RemoveUpdate, RemovalOf
    <2>. QED
      BY <1>3, <2>1, <2>2
  <1>6. ASSUME NEW k \in Nodes, CloseStep(k)
        PROVE  desc'[n] = desc[n] \/ disturbed' \/ (n \notin online' /\ n # author)
    <2>1. online' = online \ {k}
      BY <1>6, CloseSteps DEF Close
    <2>2. CASE n # k
      <3>1. desc' = desc \/ desc' = [desc EXCEPT ![k] = saved[k]]
              \/ desc' = [desc EXCEPT ![k] = NoNet]
        BY <1>6, CloseSteps
      <3>. QED
        BY <1>0, <2>2, <3>1
    <2>3. CASE n = k /\ Leave(k)
      BY <2>1, <2>3 DEF Leave
    <2>4. CASE n = k /\ Crash(k)
      <3>1. desc'[n] = saved[n] /\ disturbed' = (disturbed
              \/ (author = n /\ (saved[n] # desc[n] \/ Stamped(n))))
        BY <1>0, <2>4 DEF Crash
      <3>2. CASE n # author
        BY <2>1, <2>4, <3>2
      <3>3. CASE n = author /\ saved[n] # desc[n]
        BY <3>1, <3>3
      <3>4. CASE saved[n] = desc[n]
        BY <3>1, <3>4
      <3>. QED
        BY <3>2, <3>3, <3>4
    <2>5. CASE ServerNetDisconnect(k) \/ ServerShutdown(k)
      BY <2>5 DEF ServerNetDisconnect, ServerShutdown
    <2>. QED
      BY <1>6, <2>2, <2>3, <2>4, <2>5 DEF CloseStep
  <1>7. ASSUME NEW k \in Nodes, ServerNetForget(k)
        PROVE  desc'[n] = desc[n] \/ disturbed' \/ (n \notin online' /\ n # author)
    BY <1>0, <1>7 DEF ServerNetForget
  <1>8. ASSUME NEW k \in Nodes, JoinServed(k)
        PROVE  desc'[n].time >= desc[n].time
    <2>1. PICK list : desc' = [desc EXCEPT ![k] = [time |-> clock', list |-> list]]
      BY <1>8 DEF JoinServed
    <2>2. clock' = clock + 1
      BY <1>8 DEF JoinServed, Tick
    <2>3. n = k => desc'[n].time = clock'
      BY <1>0, <2>1
    <2>4. n # k => desc'[n] = desc[n]
      BY <1>0, <2>1
    <2>. QED
      BY <1>0, <2>2, <2>3, <2>4
  <1>9. ASSUME NEW k \in Nodes, JoinAnswered(k)
        PROVE  desc'[n].time >= desc[n].time
    <2>1. joining[k] # None /\ joining[k].pc = "answer"
          /\ (desc' = [desc EXCEPT ![joining[k].node] = joining[k].net] \/ UNCHANGED desc)
      BY <1>9 DEF JoinAnswered
    <2>2. desc[joining[k].node] = NoNet /\ joining[k].node \in Nodes
            /\ joining[k].net \in Descriptions
      BY <1>0, <2>1, WorkTyped DEF Joins
    <2>3. CASE n = joining[k].node
      <3>1. desc[n].time = 0 /\ joining[k].net.time \in Nat
        BY <1>0, <2>2, <2>3, NothingTyped, DescriptionIs
      <3>2. desc'[n] = joining[k].net \/ desc'[n] = desc[n]
        BY <1>0, <2>1, <2>3
      <3>. QED
        BY <1>0, <3>1, <3>2
    <2>4. CASE n # joining[k].node
      <3>1. desc'[n] = desc[n]
        BY <1>0, <2>1, <2>4
      <3>. QED
        BY <1>0, <3>1
    <2>. QED
      BY <2>3, <2>4
  <1>10. ASSUME Quiet
         PROVE  UNCHANGED desc
    BY <1>10 DEF Quiet, net
  <1>11. ASSUME NEW k, NEW m, NEW s,
                \/ ConnectionFails(s) \/ ServerNetConnect(k) \/ JoinDenied(k) \/ JoinSpread(k)
                \/ RemoveSpread(k) \/ JoinRequest(m, k) \/ RemoveNode(k, m)
                \/ JoinUnanswered(k) \/ RemoveStamp(k) \/ RemoveAbandoned(k)
         PROVE  UNCHANGED desc
    BY <1>11 DEF ConnectionFails, ServerNetConnect, JoinDenied, JoinSpread, RemoveSpread,
                 JoinRequest, RemoveNode, JoinUnanswered, RemoveStamp, RemoveAbandoned, net
  <1>12. CASE UNCHANGED netVars
    BY <1>1, <1>12 DEF netVars, net
  <1>. QED
    BY <1>1, <1>2, <1>4, <1>5, <1>6, <1>7, <1>8, <1>9, <1>10, <1>11, <1>12, NetSteps,
       HandshakeQuiet, TalkQuiet, CallQuiet

\* A removal that has its time goes on, is carried out, or is given up with the connections
\* of its node.
LEMMA RemovalSteps ==
  ASSUME TopologyAssumption, NetTyped, [NetNext]_netVars, NEW n \in Nodes, Stamped(n)
  PROVE  \/ edit'[n] = edit[n]
         \/ RemoveSpread(n) /\ edit'[n] # NoNet /\ edit'[n].time = edit[n].time
         \/ RemoveUpdate(n) /\ desc'[n].time = edit[n].time
         \/ n \notin online' /\ (n = author => disturbed')
  <1>0. /\ edit \in [Nodes -> Removals \cup {NoNet}] /\ edit[n] \in Removals /\ DescriptionsTyped
        /\ desc \in [Nodes -> Descriptions] /\ edit[n] # NoNet
    BY DEF NetTyped, DescriptionsTyped, Stamped
  <1>a. DescriptionsTyped
    BY <1>0
  <1>1. ASSUME UNCHANGED edit
        PROVE  edit'[n] = edit[n]
    BY <1>1
  <1>2. ASSUME NEW k \in Nodes, RemoveSpread(k)
        PROVE  \/ edit'[n] = edit[n]
               \/ RemoveSpread(n) /\ edit'[n] # NoNet /\ edit'[n].time = edit[n].time
    <2>1. edit' = [edit EXCEPT ![k].sent = TRUE]
      BY <1>2 DEF RemoveSpread
    <2>2. CASE n # k
      BY <1>0, <2>1, <2>2
    <2>3. CASE n = k
      <3>1. edit'[n] = [edit[n] EXCEPT !.sent = TRUE]
        BY <1>0, <2>1, <2>3
      <3>2. edit'[n] \in Removals /\ edit'[n].time = edit[n].time
        BY <1>0, <3>1 DEF Removals
      <3>. QED
        BY <1>2, <2>3, <3>2, RemovalIs
    <2>. QED
      BY <2>2, <2>3
  <1>3. ASSUME NEW k \in Nodes, RemoveUpdate(k)
        PROVE  edit'[n] = edit[n] \/ (RemoveUpdate(n) /\ desc'[n].time = edit[n].time)
    <2>1. edit' = [edit EXCEPT ![k] = NoNet] /\ Update(k, RemovalOf(k))
      BY <1>3 DEF RemoveUpdate
    <2>2. CASE n # k
      BY <1>0, <2>1, <2>2
    <2>3. CASE n = k
      <3>1. PICK d \in Descriptions : d = RemovalOf(n)
        BY <1>0, WorkTyped
      <3>2. Update(n, d)
        BY <2>1, <2>3, <3>1
      <3>4. desc'[n].time = d.time
        BY <1>a, <3>2, UpdateTime
      <3>. QED
        BY <1>3, <2>3, <3>1, <3>4 DEF RemovalOf
    <2>. QED
      BY <2>2, <2>3
  <1>4. ASSUME NEW k \in Nodes, CloseStep(k)
        PROVE  edit'[n] = edit[n] \/ (n \notin online' /\ (n = author => disturbed'))
    <2>1. /\ online' = online \ {k}
          /\ edit' = [edit EXCEPT ![k] = NoNet] \/ UNCHANGED edit
      BY <1>4, CloseSteps DEF Close
    <2>2. CASE n # k \/ UNCHANGED edit
      BY <1>0, <2>1, <2>2
    <2>3. CASE n = k /\ (Crash(k) \/ Leave(k))
      BY <2>1, <2>3 DEF Crash, Leave
    <2>4. CASE n = k /\ (ServerNetDisconnect(k) \/ ServerShutdown(k))
      BY <1>0, <2>4 DEF ServerNetDisconnect, ServerShutdown, Idle
    <2>. QED
      BY <1>4, <2>2, <2>3, <2>4 DEF CloseStep
  <1>5. ASSUME NEW k \in Nodes, NEW m \in Nodes,
               RemoveNode(k, m) \/ RemoveStamp(k) \/ RemoveAbandoned(k)
        PROVE  edit'[n] = edit[n]
    <2>1. ~Stamped(k) /\ \E e : edit' = [edit EXCEPT ![k] = e]
      BY <1>5 DEF RemoveNode, RemoveStamp, RemoveAbandoned, Stamped
    <2>2. n # k
      BY <2>1
    <2>. QED
      BY <1>0, <2>1, <2>2
  <1>6. ASSUME Quiet
        PROVE  UNCHANGED edit
    BY <1>6 DEF Quiet, work
  <1>7. ASSUME NEW k, NEW m, NEW s,
               \/ ConnectionFails(s) \/ Adopt(s, k) \/ ServerNetConnect(k) \/ ServerNetForget(k)
               \/ JoinServed(k) \/ JoinDenied(k) \/ JoinAnswered(k) \/ JoinUnanswered(k)
               \/ JoinSpread(k) \/ JoinRequest(m, k)
        PROVE  UNCHANGED edit
    BY <1>7 DEF ConnectionFails, Adopt, ServerNetConnect, ServerNetForget, JoinServed, JoinDenied,
                JoinAnswered, JoinUnanswered, JoinSpread, JoinRequest, work
  <1>8. CASE UNCHANGED netVars
    BY <1>1, <1>8 DEF netVars, work
  <1>. QED
    BY <1>1, <1>2, <1>3, <1>4, <1>5, <1>6, <1>7, <1>8, NetSteps, HandshakeQuiet, TalkQuiet,
       CallQuiet

-----------------------------------------------------------------------------
(* The author keeps its change *)

\* The author of the latest change has it on its description, or is still to put it there.
Kept ==
  /\ author = None => clock = 1
  /\ ~disturbed /\ author # None =>
       desc[author].time = clock \/ (edit[author] # NoNet /\ edit[author].time = clock)

\* The net a node has sent with its "connect" is not later than the one it has.
Grown ==
  ~disturbed => \A t \in DOMAIN sess : \A m :
    Awaits(sess, t, sess[t].to, m) /\ m.verb = "connect" /\ sess[t].pc[sess[t].from] \in Working
      => m.net.time <= desc[sess[t].from].time

\* No description is of a time to come after a step either.
LEMMA AgreedNext ==
  ASSUME TopologyAssumption, NetTyped, Joins, Agreed, [NetNext]_netVars, NEW n \in Nodes
  PROVE  desc'[n].time \in Nat /\ desc'[n].time <= clock' /\ clock' \in Nat
  <1>1. NetTyped' /\ Agreed'
    BY NetTypedStep, AgreedStep
  <1>2. /\ clock' \in 1..MaxTime /\ MaxTime \in Nat /\ desc' \in [Nodes -> Descriptions]
    BY <1>1 DEF NetTyped, DescriptionsTyped, CountersTyped, TopologyAssumption
  <1>3. desc'[n].time <= clock'
    <2>1. PICK R \in Rolls : RollOf(R, clock)'
      BY <1>1 DEF Agreed
    <2>2. NodeFits(R, clock, n)'
      BY <2>1 DEF RollOf
    <2>. QED
      BY <2>2 DEF NodeFits, Fits
  <1>4. desc'[n].time \in Nat
    BY <1>2, DescriptionIs
  <1>. QED
    BY <1>2, <1>3, <1>4

\* At first nobody has made a change, and no message waits.
LEMMA KeptInit ==
  ASSUME TopologyAssumption, NetInit
  PROVE  Kept /\ Grown /\ ConnectsOnce
  <1>1. author = None /\ clock = 1 /\ sess = <<>>
    BY DEF NetInit, Founded
  <1>. QED
    BY <1>1 DEF Kept, Grown, ConnectsOnce

\* Every step keeps the change at its author.
LEMMA KeptStep ==
  ASSUME TopologyAssumption, NetTyped, Joins, Agreed, Kept, [NetNext]_netVars
  PROVE  Kept'
  <1>0. /\ None \notin Nodes /\ author \in Nodes \cup {None} /\ clock \in 1..MaxTime
        /\ desc \in [Nodes -> Descriptions] /\ edit \in [Nodes -> Removals \cup {NoNet}]
    BY DEF TopologyAssumption, NetTyped, CountersTyped, DescriptionsTyped
  <1>1. CASE UNCHANGED <<clock, author>>
    <2>1. author = None => clock' = 1
      BY <1>1 DEF Kept
    <2>2. ASSUME NEW a \in Nodes, a = author, ~disturbed'
          PROVE  desc'[a].time = clock \/ (edit'[a] # NoNet /\ edit'[a].time = clock)
      <3>1. desc[a].time = clock \/ (edit[a] # NoNet /\ edit[a].time = clock)
        BY <1>0, <2>2, DisturbedStays DEF Kept
      <3>2. CASE desc[a].time = clock
        <4>1. desc'[a].time >= desc[a].time
          BY <2>2, TimeSteps
        <4>2. desc'[a].time \in Nat /\ desc'[a].time <= clock' /\ clock' \in Nat
          BY AgreedNext
        <4>. QED
          BY <1>1, <3>2, <4>1, <4>2
      <3>3. CASE edit[a] # NoNet /\ edit[a].time = clock
        <4>0. Stamped(a)
          BY <1>0, <3>3 DEF Stamped
        <4>1. \/ edit'[a] = edit[a]
              \/ edit'[a] # NoNet /\ edit'[a].time = edit[a].time
              \/ desc'[a].time = edit[a].time
          BY <2>2, <4>0, RemovalSteps
        <4>. QED
          BY <3>3, <4>1
      <3>. QED
        BY <3>1, <3>2, <3>3
    <2>3. author' = author /\ clock' = clock
      BY <1>1
    <2>4. CASE author = None
      BY <2>1, <2>3, <2>4 DEF Kept
    <2>5. CASE author \in Nodes
      <3>1. PICK a \in Nodes : a = author
        BY <2>5
      <3>2. a # None /\ a = author'
        BY <1>0, <2>3, <3>1
      <3>. QED
        BY <2>2, <2>3, <3>1, <3>2 DEF Kept
    <2>. QED
      BY <1>0, <2>4, <2>5
  <1>2. ASSUME NEW n \in Nodes, Tick(n), JoinServed(n) \/ RemoveStamp(n)
        PROVE  Kept'
    <2>1. author' = n /\ n # None
      BY <1>0, <1>2 DEF Tick
    <2>2. CASE JoinServed(n)
      <3>1. PICK list : desc' = [desc EXCEPT ![n] = [time |-> clock', list |-> list]]
        BY <2>2 DEF JoinServed
      <3>2. desc'[n].time = clock'
        BY <1>0, <3>1
      <3>. QED
        BY <2>1, <3>2 DEF Kept
    <2>3. CASE RemoveStamp(n)
      <3>1. PICK list : edit' = [edit EXCEPT ![n] = [time |-> clock', sent |-> FALSE,
                        list |-> list]]
        BY <2>3 DEF RemoveStamp
      <3>2. edit'[n] = [time |-> clock', sent |-> FALSE, list |-> list]
        BY <1>0, <3>1
      <3>3. edit'[n].time = clock'
        BY <3>2
      <3>4. edit'[n] # NoNet
        <4>1. NetTyped'
          BY NetTypedStep
        <4>2. edit'[n] \in Removals \cup {NoNet}
          BY <4>1 DEF NetTyped, DescriptionsTyped
        <4>3. clock' \in 1..MaxTime
          BY <4>1 DEF NetTyped, CountersTyped
        <4>4. NoNet.time = 0
          BY NothingTyped
        <4>. QED
          BY <3>3, <4>3, <4>4
      <3>. QED
        BY <2>1, <3>3, <3>4 DEF Kept
    <2>. QED
      BY <1>2, <2>2, <2>3
  <1>. QED
    BY <1>1, <1>2, ClockSteps

\* A thread that serves its connection is no caller any more that waits for an answer.
LEMMA WorkingBefore ==
  ASSUME TopologyAssumption, NetTyped, [NetNext]_netVars, NEW t \in DOMAIN sess, NEW e \in Ends(t),
         sess'[t].pc[e] \in Working
  PROVE  sess[t].pc[e] \in Working \/ Introduced(t) \/ HandshakeAccepted(t)
  <1>1. ThreadTurn(t, e)
    BY ThreadTurns
  <1>2. Receive(t, e) \/ Adopt(t, e) \/ Spread(t, e) \/ Reply(t, e) => sess[t].pc[e] \in Working
    BY DEF Receive, Adopt, Spread, Reply, Working
  <1>3. sess'[t].pc[e] # "closed"
    BY DEF Working
  <1>. QED
    BY <1>1, <1>2, <1>3 DEF ThreadTurn

\* Every step keeps the description of a caller as late as the one it has sent.
LEMMA GrownStep ==
  ASSUME TopologyAssumption, NetTyped, Joins, Threads, Agreed, ConnectsOnce, Grown,
         [NetNext]_netVars
  PROVE  Grown'
  <1>0. sess \in Seq(AllSessions)
    BY DEF NetTyped, ConnectionsTyped
  <1>1. ASSUME ~disturbed', NEW t \in DOMAIN sess', NEW m, Awaits(sess', t, sess'[t].to, m),
               m.verb = "connect", sess'[t].pc[sess'[t].from] \in Working
        PROVE  m.net.time <= desc'[sess'[t].from].time
    <2>1. PICK e : e = sess'[t].to
      OBVIOUS
    <2>2. e \in Ends(t)'
      BY <2>1 DEF Ends
    <2>3. /\ t \in DOMAIN sess /\ e \in Ends(t)
          /\ \/ Awaits(sess, t, e, m)
             \/ /\ Introduced(t) /\ e = sess[t].to /\ m = ConnectWith(desc[sess[t].from])
                /\ sess'[t].pc[sess[t].from] = "read"
      BY <1>1, <2>1, <2>2, ConnectSource
    <2>4. PICK p \in Ends(t) : p = sess[t].from /\ p \in Nodes /\ p # sess[t].to
      BY <1>0, <2>3, EndsAre
    <2>5. /\ sess'[t].from = p /\ e = sess[t].to /\ p \in Ends(t)'
          /\ sess'[t].pc[p] \in Working
      BY <1>1, <2>1, <2>3, <2>4, SessionsStay
    <2>6. CASE Awaits(sess, t, e, m)
      <3>1. sess[t].pc[p] \notin {"ask", "answered"}
        BY <1>1, <2>3, <2>4, <2>6 DEF ConnectsOnce
      <3>2. ~Introduced(t) /\ ~HandshakeAccepted(t)
        BY <2>4, <3>1 DEF Introduced, HandshakeFinished, HandshakeAccepted
      <3>3. sess[t].pc[p] \in Working
        BY <2>3, <2>4, <2>5, <3>2, WorkingBefore
      <3>4. ~disturbed
        BY <1>1, DisturbedStays
      <3>5. m.net.time <= desc[p].time
        BY <1>1, <2>3, <2>4, <2>5, <2>6, <3>3, <3>4 DEF Grown
      <3>6. m.net.time \in Nat /\ desc[p].time \in Nat
        BY <2>3, <2>4, <2>6, AgreedTimes
      <3>7. desc'[p].time \in Nat
        BY <2>4, AgreedNext
      <3>8. p \in online'
        <4>1. Threads'
          BY ThreadsStep
        <4>2. t \in DOMAIN sess' /\ sess'[t].pc[p] # "closed"
          BY <1>1, <2>5 DEF Working
        <4>. QED
          BY <2>5, <4>1, <4>2 DEF Threads
      <3>9. desc'[p].time >= desc[p].time
        BY <1>1, <2>4, <3>8, TimeSteps
      <3>. QED
        BY <2>5, <3>5, <3>6, <3>7, <3>9
    <2>7. CASE Introduced(t) /\ m = ConnectWith(desc[sess[t].from])
      <3>1. m.net = desc[p]
        BY <2>4, <2>7, SentNet
      <3>2. desc' = desc
        BY <2>7 DEF Introduced, HandshakeFinished, net
      <3>3. desc[p].time \in Nat
        BY <2>4, AgreedTimes
      <3>. QED
        BY <2>5, <3>1, <3>2, <3>3
    <2>. QED
      BY <2>3, <2>6, <2>7
  <1>. QED
    BY <1>1 DEF Grown, Awaits

-----------------------------------------------------------------------------
(* The author is heard *)

\* The author is serving a join, or a removal, with the latest change still to be told.
JoinPending(n) ==
  joining[n] # None /\ joining[n].pc # "serve" /\ joining[n].net.time = clock
RemovalPending(n) == edit[n] # NoNet /\ ~edit[n].sent /\ edit[n].time = clock

\* Node n keeps session t as its connection to m, and both ends serve it.
InTouch(t, n, m) ==
  sock[n][m] = t /\ sess[t].pc[n] \in Working /\ sess[t].pc[m] \in Working

\* Node m has the latest change of n, or it is on its way on session t, or it will be sent.
Heard(t, n, m) ==
  \/ t \in broken
  \/ desc[m].time = clock
  \/ sess[t].pc[m] \in {"adopt", "adopt and spread"} /\ sess[t].work[m].time = clock
  \/ \E x : Awaits(sess, t, m, x) /\ x.net.time = clock
  \/ JoinPending(n)
  \/ RemovalPending(n)
  \/ sess[t].pc[n] = "reply" /\ desc[n].time = clock
  \/ \E x : Awaits(sess, t, n, x) /\ x.verb = "connect"

\* Every node that is in touch with the author hears of its latest change.
AuthorHeard ==
  ~disturbed => \A t \in DOMAIN sess : \A n, m \in Ends(t) :
    n # m /\ n = author /\ InTouch(t, n, m) => Heard(t, n, m)

-----------------------------------------------------------------------------

\* A lost connection is lost for good.
LEMMA BrokenStays ==
  ASSUME [NetNext]_netVars
  PROVE  broken \subseteq broken'
  <1>1. ASSUME Quiet
        PROVE  UNCHANGED broken
    BY <1>1 DEF Quiet
  <1>2. ASSUME NEW s, ConnectionFails(s)
        PROVE  broken \subseteq broken'
    BY <1>2 DEF ConnectionFails
  <1>3. ASSUME NEW n, CloseStep(n)
        PROVE  UNCHANGED broken
    BY <1>3, CloseSteps
  <1>4. ASSUME NEW n, NEW m, NEW s,
               \/ Adopt(s, n) \/ ServerNetConnect(n) \/ ServerNetForget(n) \/ JoinServed(n)
               \/ JoinDenied(n) \/ JoinAnswered(n) \/ JoinSpread(n) \/ RemoveSpread(n)
               \/ RemoveUpdate(n) \/ JoinRequest(m, n) \/ RemoveNode(n, m)
               \/ JoinUnanswered(n) \/ RemoveStamp(n) \/ RemoveAbandoned(n)
        PROVE  UNCHANGED broken
    BY <1>4 DEF Adopt, ServerNetConnect, ServerNetForget, JoinServed, JoinDenied, JoinAnswered,
                JoinSpread, RemoveSpread, RemoveUpdate, JoinRequest, RemoveNode,
                JoinUnanswered, RemoveStamp, RemoveAbandoned
  <1>5. CASE UNCHANGED netVars
    BY <1>5 DEF netVars
  <1>. QED
    BY <1>1, <1>2, <1>3, <1>4, <1>5, NetSteps, HandshakeQuiet, TalkQuiet, CallQuiet

\* What is appended to a box awaits its thread.
LEMMA Delivered ==
  ASSUME sess \in Seq(AllSessions), NEW t \in DOMAIN sess, NEW e \in Ends(t), NEW m \in Messages,
         sess'[t].box[e] = Append(sess[t].box[e], m)
  PROVE  Awaits(sess', t, e, m)
  <1>1. PICK box \in Seq(Messages) : box = sess[t].box[e]
    BY FieldsTyped
  <1>2. PICK more : more = Append(box, m)
    OBVIOUS
  <1>3. \E k \in DOMAIN more : more[k] = m
    BY <1>2, AppendedIs
  <1>4. sess'[t].box[e] = more
    BY <1>1, <1>2
  <1>. QED
    BY <1>3, <1>4 DEF Awaits

\* The message that is read is the first one; the others still wait.
LEMMA ReadFirst ==
  ASSUME sess \in Seq(AllSessions), NEW t \in DOMAIN sess, NEW e \in Ends(t),
         sess[t].box[e] # <<>>, sess'[t].box[e] = Tail(sess[t].box[e]),
         NEW x, Awaits(sess, t, e, x)
  PROVE  x = Head(sess[t].box[e]) \/ Awaits(sess', t, e, x)
  <1>1. PICK box \in Seq(Messages) : box = sess[t].box[e]
    BY FieldsTyped
  <1>2. PICK rest : rest = Tail(box)
    OBVIOUS
  <1>3. box # <<>> /\ sess'[t].box[e] = rest
    BY <1>1, <1>2
  <1>4. /\ Head(box) = box[1] /\ rest \in Seq(Messages) /\ Len(rest) = Len(box) - 1
        /\ \A i \in 1..Len(rest) : rest[i] = box[i + 1]
    BY <1>2, <1>3, HeadTailProperties
  <1>5. /\ Len(box) \in Nat /\ DOMAIN box = 1..Len(box) /\ DOMAIN rest = 1..Len(rest)
    BY <1>4, LenProperties
  <1>6. PICK k \in DOMAIN box : box[k] = x
    BY <1>1 DEF Awaits
  <1>7. CASE k = 1
    BY <1>1, <1>4, <1>6, <1>7
  <1>8. CASE k # 1
    <2>1. k - 1 \in DOMAIN rest /\ rest[k - 1] = x
      BY <1>4, <1>5, <1>6, <1>8
    <2>. QED
      BY <1>3, <2>1 DEF Awaits
  <1>. QED
    BY <1>7, <1>8

\* The steps of a thread when both ends serve the session before and after.
LEMMA TouchTurns ==
  ASSUME TopologyAssumption, NetTyped, [NetNext]_netVars, NEW t \in DOMAIN sess,
         NEW n \in Ends(t), NEW m \in Ends(t), n # m,
         sess[t].pc[n] \in Working, sess[t].pc[m] \in Working, sess'[t].pc[n] \in Working
  PROVE  \/ Receive(t, n)
         \/ /\ BoxKept(sess', t, n)
            /\ \/ sess'[t].pc[n] = sess[t].pc[n] /\ sess'[t].work[n] = sess[t].work[n]
               \/ Adopt(t, n) \/ Spread(t, n) \/ Reply(t, n)
  <1>1. ThreadTurn(t, n)
    BY ThreadTurns
  <1>2. sess[t].from \in {n, m} /\ sess[t].to \in {n, m}
    BY FieldsTyped, EndsAre DEF NetTyped, ConnectionsTyped
  <1>3. sess[t].pc[sess[t].from] \in Working /\ sess[t].pc[sess[t].to] \in Working
    BY <1>2
  <1>4. ~Introduced(t) /\ ~HandshakeAccepted(t)
    BY <1>3 DEF Introduced, HandshakeFinished, HandshakeAccepted, Working
  <1>5. sess'[t].pc[n] # "closed"
    BY DEF Working
  <1>. QED
    BY <1>1, <1>4, <1>5 DEF ThreadTurn

\* What else is needed of a net whose author is heard.
NetSound == NetTyped /\ Joins /\ Threads /\ Agreed /\ ConnectsOnce /\ Kept /\ Grown

\* A step that makes no change, and after which the author and node m are still in touch.
StillInTouch(t, n, m) ==
  /\ NetSound /\ [NetNext]_netVars /\ UNCHANGED <<clock, author>>
  /\ ~disturbed' /\ n # m /\ n = author
  /\ InTouch(t, n, m) /\ InTouch(t, n, m)'

\* Both are online, and what is known of a time stays.
LEMMA TouchOnline ==
  ASSUME TopologyAssumption, NEW t \in DOMAIN sess, NEW n \in Ends(t), NEW m \in Ends(t),
         StillInTouch(t, n, m)
  PROVE  /\ n \in Nodes /\ m \in Nodes /\ n \in online' /\ m \in online' /\ ~disturbed
         /\ m = Peer(t, n) /\ t # None
         /\ \A e \in {n, m} : desc[e].time = clock => desc'[e].time = clock
  <1>0. sess \in Seq(AllSessions) /\ NetTyped /\ None \notin Nat
    BY DEF StillInTouch, NetSound, NetTyped, ConnectionsTyped, TopologyAssumption
  <1>a. n # m
    BY DEF StillInTouch
  <1>1. n \in Nodes /\ m \in Nodes /\ m = Peer(t, n)
    <2>1. Ends(t) \subseteq Nodes /\ Ends(t) = {n, Peer(t, n)}
      BY <1>0, FieldsTyped
    <2>. QED
      BY <1>a, <2>1
  <1>2. t # None
    BY <1>0, LenProperties
  <1>3. ~disturbed
    BY DisturbedStays DEF StillInTouch
  <1>4. n \in online' /\ m \in online'
    <2>1. Threads'
      BY ThreadsStep DEF StillInTouch, NetSound
    <2>2. sess'[t].pc[n] # "closed" /\ sess'[t].pc[m] # "closed"
      BY DEF StillInTouch, InTouch, Working
    <2>3. t \in DOMAIN sess' /\ n \in Ends(t)' /\ m \in Ends(t)'
      BY SessionsStay DEF StillInTouch, NetSound
    <2>. QED
      BY <2>1, <2>2, <2>3 DEF Threads
  <1>5. ASSUME NEW e \in {n, m}, desc[e].time = clock
        PROVE  desc'[e].time = clock
    <2>1. desc'[e].time >= desc[e].time
      BY <1>1, <1>4, TimeSteps DEF StillInTouch, NetSound
    <2>2. desc'[e].time \in Nat /\ desc'[e].time <= clock' /\ clock' \in Nat
      BY <1>1, AgreedNext DEF StillInTouch, NetSound
    <2>3. clock' = clock
      BY DEF StillInTouch
    <2>. QED
      BY <1>5, <2>1, <2>2, <2>3
  <1>. QED
    BY <1>1, <1>2, <1>3, <1>4, <1>5

\* The turns of either thread, when both serve the session.
LEMMA StillTurns ==
  ASSUME TopologyAssumption, NEW t \in DOMAIN sess, NEW n \in Ends(t), NEW m \in Ends(t),
         StillInTouch(t, n, m), NEW e \in {n, m}
  PROVE  \/ Receive(t, e)
         \/ /\ BoxKept(sess', t, e)
            /\ \/ sess'[t].pc[e] = sess[t].pc[e] /\ sess'[t].work[e] = sess[t].work[e]
               \/ Adopt(t, e) \/ Spread(t, e) \/ Reply(t, e)
  BY TouchTurns DEF StillInTouch, NetSound, InTouch

\* A later description that is in hand is adopted.
LEMMA HeardInHand ==
  ASSUME TopologyAssumption, NEW t \in DOMAIN sess, NEW n \in Ends(t), NEW m \in Ends(t),
         StillInTouch(t, n, m), sess[t].pc[m] \in {"adopt", "adopt and spread"},
         sess[t].work[m].time = clock
  PROVE  Heard(t, n, m)'
  <1>0. clock' = clock /\ sess \in Seq(AllSessions) /\ DescriptionsTyped
    BY DEF StillInTouch, NetSound, NetTyped, ConnectionsTyped
  <1>1. CASE sess'[t].pc[m] = sess[t].pc[m] /\ sess'[t].work[m] = sess[t].work[m]
    BY <1>0, <1>1 DEF Heard
  <1>2. CASE Adopt(t, m)
    <2>1. PICK d \in Descriptions : d = sess[t].work[m] /\ m \in Nodes
      BY <1>0, FieldsTyped
    <2>2. Update(m, d)
      BY <1>2, <2>1 DEF Adopt
    <2>3. desc'[m].time = d.time
      BY <1>0, <2>1, <2>2, UpdateTime
    <2>. QED
      BY <1>0, <2>1, <2>3 DEF Heard
  <1>3. CASE Receive(t, m) \/ Spread(t, m) \/ Reply(t, m)
    BY <1>3 DEF Receive, Spread, Reply
  <1>. QED
    BY <1>1, <1>2, <1>3, StillTurns

\* One that has arrived is read.
LEMMA HeardOnTheWay ==
  ASSUME TopologyAssumption, NEW t \in DOMAIN sess, NEW n \in Ends(t), NEW m \in Ends(t),
         StillInTouch(t, n, m), NEW x, Awaits(sess, t, m, x), x.net.time = clock
  PROVE  Heard(t, n, m)'
  <1>0. clock' = clock /\ sess \in Seq(AllSessions) /\ NetTyped /\ Agreed
    BY DEF StillInTouch, NetSound, NetTyped, ConnectionsTyped
  <1>1. CASE Awaits(sess', t, m, x)
    BY <1>0, <1>1 DEF Heard
  <1>2. CASE Receive(t, m)
    <2>1. /\ sess'[t].pc[m] = LabelFor(Head(sess[t].box[m]), desc[m])
          /\ sess'[t].work[m] = Head(sess[t].box[m]).net
          /\ sess'[t].box[m] = Tail(sess[t].box[m])
      BY <1>0, <1>2, ReceiveEffect
    <2>2. sess[t].box[m] # <<>> /\ desc' = desc
      BY <1>2 DEF Receive, net
    <2>3. x = Head(sess[t].box[m]) \/ Awaits(sess', t, m, x)
      BY <1>0, <2>1, <2>2, ReadFirst
    <2>4. CASE x = Head(sess[t].box[m])
      <3>1. sess'[t].pc[m] = LabelFor(x, desc[m]) /\ sess'[t].work[m] = x.net
        BY <2>1, <2>4
      <3>2. CASE Later(x.net, desc[m])
        <4>1. sess'[t].pc[m] \in {"adopt", "adopt and spread"}
          BY <3>1, <3>2 DEF LabelFor
        <4>. QED
          BY <1>0, <3>1, <4>1 DEF Heard
      <3>3. CASE ~Later(x.net, desc[m])
        <4>1. desc[m].time \in Nat /\ desc[m].time <= clock /\ clock \in Nat
          BY <1>0, TouchOnline, AgreedTimes
        <4>2. desc'[m].time = clock
          BY <2>2, <3>3, <4>1 DEF Later
        <4>. QED
          BY <1>0, <4>2 DEF Heard
      <3>. QED
        BY <3>2, <3>3
    <2>. QED
      BY <1>1, <2>3, <2>4
  <1>3. CASE BoxKept(sess', t, m)
    BY <1>1, <1>3 DEF BoxKept
  <1>. QED
    BY <1>2, <1>3, StillTurns

\* A reply to the peer is sent to it.
LEMMA HeardReply ==
  ASSUME TopologyAssumption, NEW t \in DOMAIN sess, NEW n \in Ends(t), NEW m \in Ends(t),
         StillInTouch(t, n, m), sess[t].pc[n] = "reply", desc[n].time = clock
  PROVE  Heard(t, n, m)'
  <1>0. clock' = clock /\ sess \in Seq(AllSessions) /\ NetTyped /\ DescriptionsTyped
    BY DEF StillInTouch, NetSound, NetTyped, ConnectionsTyped
  <1>1. /\ n \in Nodes /\ m \in Nodes /\ m = Peer(t, n) /\ t # None
        /\ desc'[n].time = clock /\ ~disturbed
    BY TouchOnline
  <1>2. CASE sess'[t].pc[n] = sess[t].pc[n]
    BY <1>0, <1>1, <1>2 DEF Heard
  <1>3. CASE Reply(t, n)
    <2>1. disturbed' = (disturbed \/ (author = n /\ NodeAt(n, sess[t].addr[n]) # Peer(t, n)))
      BY <1>3 DEF Reply
    <2>2. NodeAt(n, sess[t].addr[n]) = m
      BY <1>1, <2>1 DEF StillInTouch
    <2>3. SocketAt(n, sess[t].addr[n]) = {sock[n][m]} \ {None}
      BY <1>1, <2>2 DEF SocketAt
    <2>4. t \in SocketAt(n, sess[t].addr[n])
      BY <1>1, <2>3 DEF StillInTouch, InTouch
    <2>5. CASE t \in broken
      <3>1. t \in broken'
        BY <2>5, BrokenStays DEF StillInTouch
      <3>. QED
        BY <3>1 DEF Heard
    <2>6. CASE t \notin broken
      <3>1. sess'[t].box[m] = IF t \in SocketAt(n, sess[t].addr[n]) \ broken /\ m = Peer(t, n)
                              THEN Append(sess[t].box[m], UpdateWith(desc[n])) ELSE sess[t].box[m]
        BY <1>0, <1>3, ReplyEffect
      <3>2. sess'[t].box[m] = Append(sess[t].box[m], UpdateWith(desc[n]))
        BY <1>1, <2>4, <2>6, <3>1
      <3>3. PICK x \in Messages : x = UpdateWith(desc[n])
        <4>1. desc[n] \in Descriptions
          BY <1>0, <1>1, WorkTyped
        <4>. QED
          BY <4>1 DEF UpdateWith, Messages
      <3>4. Awaits(sess', t, m, x)
        BY <1>0, <3>2, <3>3, Delivered
      <3>5. x.net.time = clock'
        BY <1>0, <3>3, SentNet
      <3>. QED
        BY <3>4, <3>5 DEF Heard
    <2>. QED
      BY <2>5, <2>6
  <1>4. CASE Receive(t, n) \/ Adopt(t, n) \/ Spread(t, n)
    BY <1>4 DEF Receive, Adopt, Spread
  <1>. QED
    BY <1>2, <1>3, <1>4, StillTurns

\* A peer that has connected with an earlier description is replied to, and one that is
\* not earlier is the latest.
LEMMA HeardConnect ==
  ASSUME TopologyAssumption, NEW t \in DOMAIN sess, NEW n \in Ends(t), NEW m \in Ends(t),
         StillInTouch(t, n, m), NEW x, Awaits(sess, t, n, x), x.verb = "connect"
  PROVE  Heard(t, n, m)'
  <1>0. /\ clock' = clock /\ sess \in Seq(AllSessions) /\ NetTyped /\ DescriptionsTyped /\ Agreed
        /\ None \notin Nodes
    BY DEF StillInTouch, NetSound, NetTyped, ConnectionsTyped, TopologyAssumption
  <1>1. /\ n \in Nodes /\ m \in Nodes /\ m = Peer(t, n) /\ ~disturbed
    BY TouchOnline
  <1>2. CASE Awaits(sess', t, n, x)
    BY <1>2 DEF Heard
  <1>3. CASE Receive(t, n)
    <2>1. /\ sess'[t].pc[n] = LabelFor(Head(sess[t].box[n]), desc[n])
          /\ sess'[t].box[n] = Tail(sess[t].box[n])
      BY <1>0, <1>3, ReceiveEffect
    <2>2. /\ sess[t].box[n] # <<>> /\ desc' = desc /\ edit' = edit
          /\ disturbed' = (disturbed \/ (Head(sess[t].box[n]).verb = "connect" /\ Removing(n)))
      BY <1>3 DEF Receive, net, work
    <2>3. x = Head(sess[t].box[n]) \/ Awaits(sess', t, n, x)
      BY <1>0, <2>1, <2>2, ReadFirst
    <2>4. CASE x = Head(sess[t].box[n])
      <3>1. ~Removing(n)
        BY <2>2, <2>4 DEF StillInTouch
      <3>2. desc[n].time = clock \/ (edit[n] # NoNet /\ edit[n].time = clock)
        BY <1>0, <1>1 DEF StillInTouch, NetSound, Kept
      <3>3. CASE edit[n] # NoNet /\ edit[n].time = clock
        <4>1. RemovalPending(n)'
          BY <1>0, <2>2, <3>1, <3>3 DEF RemovalPending, Removing
        <4>. QED
          BY <4>1 DEF Heard
      <3>4. CASE desc[n].time = clock
        <4>1. x.net.time \in Nat /\ x.net.time <= clock /\ clock \in Nat
          BY <1>0, AgreedTimes
        <4>2. CASE x.net.time = clock
          <5>1. n = sess[t].to
            BY DEF StillInTouch, NetSound, ConnectsOnce
          <5>2. m = sess[t].from
            BY <1>0, <1>1, <5>1, EndsAre
          <5>3. x.net.time <= desc[m].time
            BY <1>1, <5>1, <5>2 DEF StillInTouch, NetSound, Grown, InTouch
          <5>4. desc[m].time \in Nat /\ desc[m].time <= clock
            BY <1>0, <1>1, AgreedTimes
          <5>5. desc'[m].time = clock'
            BY <1>0, <2>2, <4>1, <4>2, <5>3, <5>4
          <5>. QED
            BY <5>5 DEF Heard
        <4>3. CASE x.net.time # clock
          <5>1. ~Later(x.net, desc[n]) /\ Earlier(x.net, desc[n])
            BY <3>4, <4>1, <4>3 DEF Later, Earlier
          <5>2. sess'[t].pc[n] = "reply"
            BY <2>1, <2>4, <5>1 DEF LabelFor
          <5>. QED
            BY <1>0, <2>2, <3>4, <5>2 DEF Heard
        <4>. QED
          BY <4>2, <4>3
      <3>. QED
        BY <3>2, <3>3, <3>4
    <2>. QED
      BY <1>2, <2>3, <2>4
  <1>4. CASE BoxKept(sess', t, n)
    BY <1>2, <1>4 DEF BoxKept
  <1>. QED
    BY <1>3, <1>4, StillTurns

\* A join that is served goes on: the new node is answered, then the others are told.
LEMMA JoiningSteps ==
  ASSUME TopologyAssumption, NetTyped, [NetNext]_netVars, NEW n \in Nodes,
         joining[n] # None, joining[n].pc # "serve"
  PROVE  \/ joining'[n] = joining[n]
         \/ joining'[n] # None /\ joining'[n].pc # "serve" /\ joining'[n].net = joining[n].net
         \/ JoinSpread(n)
         \/ JoinUnanswered(n)
         \/ n \notin online'
  <1>0. joining \in [Nodes -> Requests \cup {None}] /\ joining[n] \in Requests
    BY DEF NetTyped, DescriptionsTyped
  <1>1. ASSUME UNCHANGED joining
        PROVE  joining'[n] = joining[n]
    BY <1>1
  <1>2. ASSUME NEW k \in Nodes, JoinServed(k) \/ JoinDenied(k)
        PROVE  joining'[n] = joining[n]
    BY <1>0, <1>2 DEF JoinServed, JoinDenied
  <1>3. ASSUME NEW k \in Nodes, JoinSpread(k)
        PROVE  joining'[n] = joining[n] \/ JoinSpread(n)
    BY <1>0, <1>3 DEF JoinSpread
  <1>4. ASSUME NEW k \in Nodes, NEW m \in Nodes, JoinRequest(m, k)
        PROVE  joining'[n] = joining[n]
    BY <1>0, <1>4 DEF JoinRequest
  <1>5. ASSUME NEW k \in Nodes, JoinAnswered(k)
        PROVE  \/ joining'[n] = joining[n]
               \/ joining'[n] # None /\ joining'[n].pc # "serve" /\ joining'[n].net = joining[n].net
    <2>1. joining' = [joining EXCEPT ![k].pc = "spread"]
      BY <1>5 DEF JoinAnswered
    <2>2. CASE k # n
      BY <1>0, <2>1, <2>2
    <2>3. CASE k = n
      <3>1. joining'[n] = [joining[n] EXCEPT !.pc = "spread"]
        BY <1>0, <2>1, <2>3
      <3>2. joining'[n] \in Requests /\ joining'[n].net = joining[n].net
              /\ joining'[n].pc = "spread"
        BY <1>0, <3>1 DEF Requests
      <3>. QED
        BY <3>2, RequestAssumption
    <2>. QED
      BY <2>2, <2>3
  <1>6. ASSUME NEW k \in Nodes, CloseStep(k)
        PROVE  joining'[n] = joining[n] \/ n \notin online'
    <2>1. /\ online' = online \ {k}
          /\ joining' = [joining EXCEPT ![k] = None] \/ UNCHANGED joining
      BY <1>6, CloseSteps DEF Close
    <2>. QED
      BY <1>0, <2>1
  <1>7. ASSUME Quiet
        PROVE  UNCHANGED joining
    BY <1>7 DEF Quiet, work
  <1>8. ASSUME NEW k, NEW m, NEW s,
               \/ ConnectionFails(s) \/ Adopt(s, k) \/ ServerNetConnect(k) \/ ServerNetForget(k)
               \/ RemoveSpread(k) \/ RemoveUpdate(k) \/ RemoveNode(k, m)
               \/ RemoveStamp(k) \/ RemoveAbandoned(k)
        PROVE  UNCHANGED joining
    BY <1>8 DEF ConnectionFails, Adopt, ServerNetConnect, ServerNetForget, RemoveSpread,
                RemoveUpdate, RemoveNode, RemoveStamp, RemoveAbandoned, work
  <1>9. CASE UNCHANGED netVars
    BY <1>9 DEF netVars, work
  <1>10. ASSUME NEW k \in Nodes, JoinUnanswered(k)
         PROVE  joining'[n] = joining[n] \/ JoinUnanswered(n)
    BY <1>0, <1>10 DEF JoinUnanswered
  <1>. QED
    BY <1>1, <1>2, <1>3, <1>4, <1>5, <1>6, <1>7, <1>8, <1>9, <1>10, NetSteps, HandshakeQuiet,
       TalkQuiet, CallQuiet

\* What the author broadcasts is on its way to the peer, unless the connection is lost.
LEMMA HeardBroadcast ==
  ASSUME TopologyAssumption, NEW t \in DOMAIN sess, NEW n \in Ends(t), NEW m \in Ends(t),
         StillInTouch(t, n, m), NEW d \in Descriptions, d.time = clock,
         t \in Broadcast(n) => sess'[t].box[m] = Append(sess[t].box[m], UpdateWith(d))
  PROVE  Heard(t, n, m)'
  <1>0. clock' = clock /\ sess \in Seq(AllSessions)
    BY DEF StillInTouch, NetSound, NetTyped, ConnectionsTyped
  <1>1. CASE t \in broken
    <2>1. t \in broken'
      BY <1>1, BrokenStays DEF StillInTouch
    <2>. QED
      BY <2>1 DEF Heard
  <1>2. CASE t \notin broken
    <2>1. t \in Broadcast(n)
      BY <1>2, TouchOnline DEF Broadcast, StillInTouch, InTouch
    <2>2. PICK x \in Messages : x = UpdateWith(d)
      BY DEF UpdateWith, Messages
    <2>3. Awaits(sess', t, m, x)
      BY <1>0, <2>1, <2>2, Delivered
    <2>4. x.net.time = clock'
      BY <1>0, <2>2, SentNet
    <2>. QED
      BY <2>3, <2>4 DEF Heard
  <1>. QED
    BY <1>1, <1>2

\* A join in service is told to the peer.
LEMMA HeardJoin ==
  ASSUME TopologyAssumption, NEW t \in DOMAIN sess, NEW n \in Ends(t), NEW m \in Ends(t),
         StillInTouch(t, n, m), JoinPending(n)
  PROVE  Heard(t, n, m)'
  <1>0. clock' = clock /\ NetTyped
    BY DEF StillInTouch, NetSound
  <1>1. n \in Nodes /\ n \in online' /\ m = Peer(t, n)
    BY TouchOnline
  <1>2. CASE \/ joining'[n] = joining[n]
             \/ joining'[n] # None /\ joining'[n].pc # "serve" /\ joining'[n].net = joining[n].net
    <2>1. JoinPending(n)'
      BY <1>0, <1>2 DEF JoinPending
    <2>. QED
      BY <2>1 DEF Heard
  <1>3. CASE JoinSpread(n)
    <2>1. /\ joining[n].net \in Descriptions
          /\ sess'[t].box[m] = IF t \in Broadcast(n) /\ m = Peer(t, n)
                               THEN Append(sess[t].box[m], UpdateWith(joining[n].net))
                               ELSE sess[t].box[m]
      BY <1>0, <1>1, <1>3, JoinSpreadEffect
    <2>2. PICK d \in Descriptions : d = joining[n].net
      BY <2>1
    <2>3. t \in Broadcast(n) => sess'[t].box[m] = Append(sess[t].box[m], UpdateWith(d))
      BY <1>1, <2>1, <2>2
    <2>4. d.time = clock
      BY <2>2 DEF JoinPending
    <2>. QED
      BY <2>3, <2>4, HeardBroadcast
  <1>4. joining[n] # None /\ joining[n].pc # "serve" /\ [NetNext]_netVars
    BY DEF JoinPending, StillInTouch
  <1>5. ~JoinUnanswered(n)
    BY DEF JoinUnanswered, StillInTouch
  <1>. QED
    BY <1>0, <1>1, <1>2, <1>3, <1>4, <1>5, JoiningSteps

\* A removal is told to the peer, before the author makes it itself.
LEMMA HeardRemoval ==
  ASSUME TopologyAssumption, NEW t \in DOMAIN sess, NEW n \in Ends(t), NEW m \in Ends(t),
         StillInTouch(t, n, m), RemovalPending(n)
  PROVE  Heard(t, n, m)'
  <1>0. clock' = clock /\ NetTyped /\ DescriptionsTyped
    BY DEF StillInTouch, NetSound, NetTyped
  <1>1. n \in Nodes /\ n \in online' /\ m = Peer(t, n)
    BY TouchOnline
  <1>2. CASE edit'[n] = edit[n]
    <2>1. RemovalPending(n)'
      BY <1>0, <1>2 DEF RemovalPending
    <2>. QED
      BY <2>1 DEF Heard
  <1>3. CASE RemoveSpread(n)
    <2>1. /\ RemovalOf(n) \in Descriptions
          /\ sess'[t].box[m] = IF t \in Broadcast(n) /\ m = Peer(t, n)
                               THEN Append(sess[t].box[m], UpdateWith(RemovalOf(n)))
                               ELSE sess[t].box[m]
      BY <1>0, <1>1, <1>3, RemoveSpreadEffect
    <2>2. PICK d \in Descriptions : d = RemovalOf(n)
      BY <2>1
    <2>3. t \in Broadcast(n) => sess'[t].box[m] = Append(sess[t].box[m], UpdateWith(d))
      BY <1>1, <2>1, <2>2
    <2>4. d.time = clock
      BY <2>2 DEF RemovalPending, RemovalOf
    <2>. QED
      BY <2>3, <2>4, HeardBroadcast
  <1>4. CASE RemoveUpdate(n)
    BY <1>4 DEF RemovalPending, RemoveUpdate
  <1>5. Stamped(n) /\ [NetNext]_netVars
    BY DEF RemovalPending, StillInTouch, NetSound, NetTyped, CountersTyped, Stamped
  <1>. QED
    BY <1>0, <1>1, <1>2, <1>3, <1>4, <1>5, RemovalSteps

\* As long as they are in touch, what has begun to reach the peer goes on.
LEMMA HeardStays ==
  ASSUME TopologyAssumption, NEW t \in DOMAIN sess, NEW n \in Ends(t), NEW m \in Ends(t),
         StillInTouch(t, n, m), Heard(t, n, m)
  PROVE  Heard(t, n, m)'
  <1>0. clock' = clock
    BY DEF StillInTouch
  <1>1. CASE t \in broken
    <2>1. t \in broken'
      BY <1>1, BrokenStays DEF StillInTouch
    <2>. QED
      BY <2>1 DEF Heard
  <1>2. CASE desc[m].time = clock
    <2>1. desc'[m].time = clock'
      BY <1>0, <1>2, TouchOnline
    <2>. QED
      BY <2>1 DEF Heard
  <1>3. CASE sess[t].pc[m] \in {"adopt", "adopt and spread"} /\ sess[t].work[m].time = clock
    BY <1>3, HeardInHand
  <1>4. CASE \E x : Awaits(sess, t, m, x) /\ x.net.time = clock
    BY <1>4, HeardOnTheWay
  <1>5. CASE JoinPending(n)
    BY <1>5, HeardJoin
  <1>6. CASE RemovalPending(n)
    BY <1>6, HeardRemoval
  <1>7. CASE sess[t].pc[n] = "reply" /\ desc[n].time = clock
    BY <1>7, HeardReply
  <1>8. CASE \E x : Awaits(sess, t, n, x) /\ x.verb = "connect"
    BY <1>8, HeardConnect
  <1>. QED
    BY <1>1, <1>2, <1>3, <1>4, <1>5, <1>6, <1>7, <1>8 DEF Heard

\* An entry gets its socket in a handshake.
LEMMA SocketSteps ==
  ASSUME TopologyAssumption, NetTyped, [NetNext]_netVars, NEW n \in Nodes, NEW m \in Nodes,
         NEW t \in DOMAIN sess, sock'[n][m] = t
  PROVE  sock[n][m] = t \/ HandshakeAccepted(t) \/ HandshakeStranded(t) \/ Introduced(t)
  <1>0. /\ sess \in Seq(AllSessions) /\ t # None
        /\ sock \in [Nodes -> [Nodes -> DOMAIN sess \cup {None}]]
    BY LenProperties DEF NetTyped, ConnectionsTyped, TopologyAssumption
  <1>1. CASE UNCHANGED sock
    BY <1>1
  <1>2. ASSUME NEW k, NEW K, sock' = [sock EXCEPT ![k] = [l \in Nodes |-> IF l \in K
               THEN sock[k][l] ELSE None]]
        PROVE  sock[n][m] = t
    BY <1>0, <1>2
  <1>3. ASSUME NEW k, sock' = [sock EXCEPT ![k] = [l \in Nodes |-> None]]
        PROVE  sock[n][m] = t
    BY <1>0, <1>3
  <1>4. ASSUME NEW s \in DOMAIN sess, NEW k, NEW l, sock' = [sock EXCEPT ![k][l] = s]
        PROVE  sock[n][m] = t \/ t = s
    BY <1>0, <1>4
  <1>5. ASSUME NEW s \in DOMAIN sess, HandshakeStep(s)
        PROVE  sock[n][m] = t \/ HandshakeAccepted(t) \/ HandshakeStranded(t) \/ Introduced(t)
    <2>1. CASE HandshakeAccepted(s) \/ HandshakeStranded(s)
      <3>1. sock' = [sock EXCEPT ![sess[s].to][sess[s].from] = s]
        BY <2>1 DEF HandshakeAccepted, HandshakeStranded
      <3>2. sock[n][m] = t \/ t = s
        BY <1>4, <3>1
      <3>. QED
        BY <2>1, <3>2
    <2>2. CASE Introduced(s)
      <3>1. sock' = [sock EXCEPT ![sess[s].from][sess[s].to] = s]
        BY <2>2 DEF Introduced, HandshakeFinished
      <3>2. sock[n][m] = t \/ t = s
        BY <1>4, <3>1
      <3>. QED
        BY <2>2, <3>2
    <2>3. CASE HandshakeRefused(s) \/ HandshakeLost(s) \/ (HandshakeFinished(s) /\ ~Introduced(s))
      <3>1. UNCHANGED sock
        BY <2>3 DEF HandshakeRefused, HandshakeLost, HandshakeFinished, Introduced
      <3>. QED
        BY <1>1, <3>1
    <2>. QED
      BY <1>5, <2>1, <2>2, <2>3 DEF HandshakeStep
  <1>6. ASSUME NEW s, NEW k, SessionEnds(s, k)
        PROVE  sock[n][m] = t
    <2>1. sock' = [sock EXCEPT ![k] = [l \in Nodes |->
                     IF NodeAt(k, sess[s].addr[k]) = l THEN None ELSE sock[k][l]]]
      BY <1>6 DEF SessionEnds, FreedEntry
    <2>. QED
      BY <1>0, <2>1
  <1>7. ASSUME NEW k \in Nodes, NEW d \in Descriptions, Update(k, d)
        PROVE  sock[n][m] = t
    <2>1. DescriptionsTyped
      BY DEF NetTyped
    <2>2. sock' = [sock EXCEPT ![k] = [l \in Nodes |->
                    IF l \in Members(d.list) THEN sock[k][l] ELSE None]]
      BY <1>7, <2>1, UpdateEffect
    <2>. QED
      BY <1>2, <2>2
  <1>8. ASSUME NEW s \in DOMAIN sess, NEW k \in Ends(s), Adopt(s, k)
        PROVE  sock[n][m] = t
    <2>1. k \in Nodes /\ sess[s].work[k] \in Descriptions
      BY <1>0, FieldsTyped
    <2>2. Update(k, sess[s].work[k])
      BY <1>8 DEF Adopt
    <2>. QED
      BY <1>7, <2>1, <2>2
  <1>9. ASSUME NEW k \in Nodes, RemoveUpdate(k)
        PROVE  sock[n][m] = t
    <2>1. RemovalOf(k) \in Descriptions
      BY <1>9, WorkTyped DEF RemoveUpdate, Stamped, NetTyped
    <2>2. Update(k, RemovalOf(k))
      BY <1>9 DEF RemoveUpdate
    <2>. QED
      BY <1>7, <2>1, <2>2
  <1>10. ASSUME NEW k, CloseStep(k) \/ ServerNetConnect(k)
         PROVE  sock[n][m] = t
    <2>1. sock' = [sock EXCEPT ![k] = [l \in Nodes |-> None]]
      BY <1>10, CloseSteps DEF Close, FreedEntries, ServerNetConnect
    <2>. QED
      BY <1>3, <2>1
  <1>11. ASSUME NEW k, NEW l, NEW s,
                \/ ConnectionFails(s) \/ Receive(s, k) \/ Spread(s, k) \/ Reply(s, k) \/ CallStep(k)
                \/ ServerNetForget(k) \/ JoinServed(k) \/ JoinDenied(k) \/ JoinAnswered(k)
                \/ JoinSpread(k) \/ RemoveSpread(k) \/ JoinRequest(l, k) \/ RemoveNode(k, l)
                \/ JoinUnanswered(k) \/ RemoveStamp(k) \/ RemoveAbandoned(k)
         PROVE  UNCHANGED sock
    BY <1>11 DEF ConnectionFails, Receive, Spread, Reply, CallStep, Reconnect, ServerNetForget,
                 JoinServed, JoinDenied, JoinAnswered, JoinUnanswered, JoinSpread,
                 RemoveSpread, JoinRequest, RemoveNode, RemoveStamp, RemoveAbandoned
  <1>12. CASE UNCHANGED netVars
    BY <1>1, <1>12 DEF netVars
  <1>. QED
    BY <1>1, <1>5, <1>6, <1>8, <1>9, <1>10, <1>11, <1>12, NetSteps DEF TalkStep

\* The author gets in touch with a node in a handshake that succeeds.
LEMMA NewTouch ==
  ASSUME TopologyAssumption, NetTyped, [NetNext]_netVars, NEW t \in DOMAIN sess,
         NEW n \in Ends(t), NEW m \in Ends(t), n # m, InTouch(t, n, m)', ~InTouch(t, n, m)
  PROVE  Introduced(t)
  <1>0. sess \in Seq(AllSessions) /\ DescriptionsTyped /\ ConnectionsTyped
    BY DEF NetTyped, ConnectionsTyped
  <1>1. n \in Nodes /\ m \in Nodes
    BY <1>0, FieldsTyped
  <1>2. sess[t].from \in {n, m} /\ sess[t].to \in {n, m} /\ sess[t].from # sess[t].to
        /\ sess[t].from \in Ends(t)
    BY <1>0, EndsAre
  <1>3. sock'[n][m] = t /\ sess'[t].pc[n] \in Working /\ sess'[t].pc[m] \in Working
    BY DEF InTouch
  <1>4. sess'[t].pc[sess[t].from] \in Working
    BY <1>2, <1>3
  <1>5. ~HandshakeAccepted(t)
    <2>1. ASSUME HandshakeAccepted(t)
          PROVE  FALSE
      <3>1. PICK q \in {"answered", "closed"} :
              \A u \in DOMAIN sess : \A e \in Ends(u) :
                sess'[u].pc[e] = IF u # t THEN sess[u].pc[e]
                                 ELSE IF e = sess[t].to THEN "read" ELSE q
        BY <1>0, <2>1, AcceptedEffect, SMTT(30)
      <3>2. sess'[t].pc[sess[t].from] = q
        BY <1>2, <3>1
      <3>. QED
        BY <1>4, <3>2 DEF Working
    <2>. QED
      BY <2>1
  <1>6. CASE sess[t].pc[n] \in Working /\ sess[t].pc[m] \in Working
    <2>1. sock[n][m] # t
      BY <1>6 DEF InTouch
    <2>2. HandshakeStranded(t) \/ Introduced(t)
      BY <1>1, <1>3, <1>5, <2>1, SocketSteps
    <2>3. sess[t].pc[sess[t].to] \in Working
      BY <1>2, <1>6
    <2>4. ~HandshakeStranded(t)
      BY <2>3 DEF HandshakeStranded, Working
    <2>. QED
      BY <2>2, <2>4
  <1>7. ASSUME NEW e \in {n, m}, sess[t].pc[e] \notin Working
        PROVE  Introduced(t)
    BY <1>3, <1>5, <1>7, WorkingBefore
  <1>. QED
    BY <1>6, <1>7

\* Then one of them is the caller, and sends its description.
LEMMA HeardAtFirst ==
  ASSUME TopologyAssumption, NetSound, [NetNext]_netVars, UNCHANGED <<clock, author>>, ~disturbed',
         NEW t \in DOMAIN sess, NEW n \in Ends(t), NEW m \in Ends(t), n # m, n = author,
         Introduced(t)
  PROVE  Heard(t, n, m)'
  <1>0. /\ sess \in Seq(AllSessions) /\ DescriptionsTyped /\ ConnectionsTyped /\ None \notin Nodes
    BY DEF NetSound, NetTyped, ConnectionsTyped, TopologyAssumption
  <1>1. n \in Nodes /\ Ends(t) = {n, m} /\ ~disturbed
    <2>1. Ends(t) \subseteq Nodes /\ Ends(t) = {n, Peer(t, n)}
      BY <1>0, FieldsTyped
    <2>. QED
      BY <2>1, DisturbedStays
  <1>2. /\ ConnectWith(desc[sess[t].from]) \in Messages
        /\ sess'[t].box[sess[t].to] = Append(sess[t].box[sess[t].to],
           ConnectWith(desc[sess[t].from]))
    <2>1. sess[t].to \in Ends(t)
      BY <1>0, EndsAre
    <2>. QED
      BY <1>0, <2>1, FinishedEffect DEF Introduced
  <1>3. PICK x \in Messages : x = ConnectWith(desc[sess[t].from])
    BY <1>2
  <1>4. /\ Awaits(sess', t, sess[t].to, x) /\ x.verb = "connect" /\ x.net = desc[sess[t].from]
    <2>1. sess[t].to \in Ends(t)
      BY <1>0, EndsAre
    <2>2. x.verb = "connect"
      BY <1>3 DEF ConnectWith
    <2>. QED
      BY <1>0, <1>2, <1>3, <2>1, <2>2, Delivered, SentNet
  <1>5. CASE n = sess[t].to
    BY <1>4, <1>5 DEF Heard
  <1>6. CASE n # sess[t].to
    <2>1. n = sess[t].from /\ m = sess[t].to
      BY <1>0, <1>1, <1>6, EndsAre
    <2>2. ~Removing(n)
      BY <2>1 DEF Introduced, HandshakeFinished
    <2>3. edit' = edit /\ desc' = desc /\ clock' = clock
      BY DEF Introduced, HandshakeFinished, net, work
    <2>4. desc[n].time = clock \/ (edit[n] # NoNet /\ edit[n].time = clock)
      BY <1>0, <1>1 DEF NetSound, Kept
    <2>5. CASE edit[n] # NoNet /\ edit[n].time = clock
      <3>1. RemovalPending(n)'
        BY <2>2, <2>3, <2>5 DEF RemovalPending, Removing
      <3>. QED
        BY <3>1 DEF Heard
    <2>6. CASE desc[n].time = clock
      BY <1>4, <2>1, <2>3, <2>6 DEF Heard
    <2>. QED
      BY <2>4, <2>5, <2>6
  <1>. QED
    BY <1>5, <1>6

\* Every step keeps this: a new change is pending, and a new connection begins with a "connect".
LEMMA AuthorHeardStep ==
  ASSUME TopologyAssumption, NetSound, AuthorHeard, [NetNext]_netVars
  PROVE  AuthorHeard'
  <1>0. /\ NetTyped /\ joining \in [Nodes -> Requests \cup {None}]
        /\ edit \in [Nodes -> Removals \cup {NoNet}] /\ desc \in [Nodes -> Descriptions]
    BY DEF NetSound, NetTyped, DescriptionsTyped
  <1>a. /\ clock' \in 1..MaxTime /\ edit' \in [Nodes -> Removals \cup {NoNet}]
        /\ desc' \in [Nodes -> Descriptions]
    <2>1. NetTyped'
      BY NetTypedStep DEF NetSound
    <2>. QED
      BY <2>1 DEF NetTyped, CountersTyped, DescriptionsTyped
  <1>1. ASSUME NEW n \in Nodes, JoinServed(n)
        PROVE  JoinPending(n)'
    <2>1. joining[n] # None /\ joining[n] \in Requests
      BY <1>0, <1>1 DEF JoinServed
    <2>2. \E list : LET d == [time |-> clock', list |-> list]
                    IN  /\ desc' = [desc EXCEPT ![n] = d]
                        /\ joining' = [joining EXCEPT ![n].pc = "answer", ![n].net = d]
      BY <1>1 DEF JoinServed
    <2>3. PICK d : /\ d.time = clock' /\ desc' = [desc EXCEPT ![n] = d]
                   /\ joining' = [joining EXCEPT ![n].pc = "answer", ![n].net = d]
      BY <2>2
    <2>4. d \in Descriptions
      BY <1>0, <1>a, <2>3
    <2>5. joining'[n] = [[joining[n] EXCEPT !.pc = "answer"] EXCEPT !.net = d]
      BY <1>0, <2>3
    <2>6. joining'[n] \in Requests /\ joining'[n].net = d /\ joining'[n].pc = "answer"
      BY <2>1, <2>4, <2>5 DEF Requests
    <2>. QED
      BY <2>3, <2>6, RequestAssumption DEF JoinPending
  <1>2. ASSUME NEW n \in Nodes, RemoveStamp(n)
        PROVE  RemovalPending(n)'
    <2>1. PICK list : edit' = [edit EXCEPT ![n] = [time |-> clock', sent |-> FALSE, list |-> list]]
      BY <1>2 DEF RemoveStamp
    <2>2. edit'[n] = [time |-> clock', sent |-> FALSE, list |-> list]
      BY <1>0, <2>1
    <2>3. edit'[n].time = clock' /\ edit'[n].sent = FALSE
      BY <2>2
    <2>4. edit'[n] # NoNet
      <3>1. NoNet.time = 0
        BY NothingTyped
      <3>. QED
        BY <1>a, <2>3, <3>1
    <2>. QED
      BY <2>3, <2>4 DEF RemovalPending
  <1>3. ASSUME NEW n \in Nodes, Tick(n), JoinServed(n) \/ RemoveStamp(n)
        PROVE  AuthorHeard'
    <2>1. author' = n
      BY <1>3 DEF Tick
    <2>2. JoinPending(n)' \/ RemovalPending(n)'
      BY <1>1, <1>2, <1>3
    <2>. QED
      BY <2>1, <2>2 DEF AuthorHeard, Heard
  <1>4. ASSUME UNCHANGED <<clock, author>>, ~disturbed', NEW t \in DOMAIN sess',
               NEW n \in Ends(t)', NEW m \in Ends(t)', n # m, n = author', InTouch(t, n, m)'
        PROVE  Heard(t, n, m)'
    <2>1. t \in DOMAIN sess
      <3>1. CASE t \notin DOMAIN sess
        <4>1. sess'[t].pc[n] \in {"ask", "new"}
          BY <1>0, <1>4, <3>1, SessionsStay
        <4>. QED
          BY <1>4, <4>1 DEF InTouch, Working
      <3>. QED
        BY <3>1
    <2>2. n \in Ends(t) /\ m \in Ends(t)
      BY <1>0, <2>1, SessionsStay
    <2>3. n = author /\ ~disturbed
      BY <1>4, DisturbedStays
    <2>4. CASE InTouch(t, n, m)
      <3>1. Heard(t, n, m)
        BY <1>4, <2>1, <2>2, <2>3, <2>4 DEF AuthorHeard
      <3>2. StillInTouch(t, n, m)
        BY <1>4, <2>3, <2>4 DEF StillInTouch
      <3>. QED
        BY <2>1, <2>2, <3>1, <3>2, HeardStays
    <2>5. CASE ~InTouch(t, n, m)
      <3>1. Introduced(t)
        BY <1>0, <1>4, <2>1, <2>2, <2>5, NewTouch
      <3>. QED
        BY <1>4, <2>1, <2>2, <2>3, <3>1, HeardAtFirst
    <2>. QED
      BY <2>4, <2>5
  <1>5. CASE UNCHANGED <<clock, author>>
    <2>1. ASSUME ~disturbed', NEW t \in DOMAIN sess'
          PROVE  \A n, m \in Ends(t)' : n # m /\ n = author' /\ InTouch(t, n, m)' => Heard(t, n, m)'
      BY <1>4, <1>5, <2>1
    <2>. QED
      BY <2>1 DEF AuthorHeard
  <1>. QED
    BY <1>3, <1>5, ClockSteps

-----------------------------------------------------------------------------
(* The latest change reaches every node *)

\* When nothing is under way, a node in touch with the author has heard of its change.
LEMMA HeardWhenSettled ==
  ASSUME TopologyAssumption, NetTyped, AuthorHeard, Settled, ~disturbed,
         NEW t \in DOMAIN sess, NEW n \in Ends(t), NEW m \in Ends(t), n # m,
         n = author, sock[n][m] = t, sess[t].pc[n] # "closed"
  PROVE  desc[m].time = clock
  <1>1. /\ Ends(t) \subseteq Nodes /\ Ends(t) = {n, Peer(t, n)}
    BY FieldsTyped DEF NetTyped, ConnectionsTyped
  <1>2. /\ sess[t].pc[n] = "read" /\ sess[t].box[n] = <<>> /\ t \notin broken
        /\ sess[t].pc[m] = "read"
    BY <1>1 DEF Settled
  <1>3. sess[t].box[m] = <<>>
    BY <1>2 DEF Settled
  <1>4. ~JoinPending(n) /\ ~RemovalPending(n)
    BY <1>1 DEF Settled, JoinPending, RemovalPending
  <1>5. \A x : ~Awaits(sess, t, n, x) /\ ~Awaits(sess, t, m, x)
    BY <1>2, <1>3 DEF Awaits
  <1>6. InTouch(t, n, m)
    BY <1>2 DEF InTouch, Working
  <1>7. Heard(t, n, m)
    BY <1>6 DEF AuthorHeard
  <1>. QED
    BY <1>2, <1>4, <1>5, <1>7 DEF Heard

\* Then every node on the list has the latest change.
LEMMA ConvergedWhenSettled ==
  ASSUME TopologyAssumption, NetSound, Paired, OwnEntry, AuthorHeard
  PROVE  Converged
  <1>0. /\ sess \in Seq(AllSessions) /\ sock \in [Nodes -> [Nodes -> DOMAIN sess \cup {None}]]
        /\ online \subseteq Nodes /\ author \in Nodes \cup {None} /\ clock \in 1..MaxTime
        /\ None \notin Nodes /\ NetTyped
    BY DEF NetSound, NetTyped, ConnectionsTyped, OnlineOnly, CountersTyped, TopologyAssumption
  <1>1. PICK R \in Rolls : R[0] = {} /\ RollOf(R, clock)
    BY DEF NetSound, Agreed
  <1>2. \A k \in Nodes : Members(desc[k].list) = R[desc[k].time]
    BY <1>1 DEF RollOf, NodeFits, Fits
  <1>3. \A k \in Nodes : desc[k].time \in Nat /\ desc[k].time <= clock
    BY AgreedTimes DEF NetSound
  <1>4. ASSUME NEW n \in online, Settled, ~disturbed, desc[n].time = clock,
               Members(desc[n].list) \subseteq online, Meshed(Members(desc[n].list)),
               NEW m \in Members(desc[n].list)
        PROVE  desc[m].time = clock
    <2>1. R[clock] = Members(desc[n].list) /\ m \in online /\ m \in Nodes
      BY <1>0, <1>2, <1>4
    <2>2. leaving = {} /\ \A k \in Nodes : joining[k] = None /\ edit[k] = NoNet
      BY <1>4 DEF Settled
    <2>3. CASE author = None
      <3>1. clock = 1
        BY <2>3 DEF NetSound, Kept
      <3>2. m \in Members(desc[m].list)
        BY <2>1, <2>2 DEF OwnEntry, OwnAt, Listed
      <3>3. desc[m].time # 0
        BY <1>1, <1>2, <2>1, <3>2
      <3>. QED
        BY <1>3, <2>1, <3>1, <3>3
    <2>4. CASE author \in Nodes
      <3>1. PICK a \in Nodes : a = author /\ a # None
        BY <1>0, <2>4
      <3>2. desc[a].time = clock
        BY <1>4, <2>2, <3>1 DEF NetSound, Kept
      <3>3. a \in R[clock]
        <4>1. desc[a] # NoNet
          <5>1. NoNet.time = 0
            BY NothingTyped
          <5>. QED
            BY <1>0, <3>2, <5>1
        <4>2. Listed(a, a)
          BY <2>2, <4>1 DEF OwnEntry, OwnAt
        <4>. QED
          BY <1>2, <3>2, <4>2 DEF Listed
      <3>4. CASE m = a
        BY <3>2, <3>4
      <3>5. CASE m # a
        <4>1. sock[a][m] # None /\ sess[sock[a][m]].pc[a] # "closed"
          BY <1>4, <2>1, <3>3, <3>5 DEF Meshed
        <4>2. PICK t \in DOMAIN sess : t = sock[a][m]
          BY <1>0, <2>1, <4>1
        <4>3. Ends(t) = {a, m}
          BY <2>1, <4>1, <4>2 DEF Paired, EntryHeld
        <4>. QED
          BY <1>0, <1>4, <3>1, <3>5, <4>1, <4>2, <4>3, HeardWhenSettled
      <3>. QED
        BY <3>4, <3>5
    <2>. QED
      BY <1>0, <2>3, <2>4
  <1>5. ASSUME NEW n \in online, NEW m \in Nodes, desc[n].time = clock, desc[m].time = clock
        PROVE  Members(desc[m].list) = Members(desc[n].list)
    BY <1>0, <1>2, <1>5
  <1>. QED
    BY <1>0, <1>4, <1>5 DEF Converged

\* The change that was made last reaches all nodes of the net: through the broadcast of
\* its author (0x103), or through the comparison when two nodes connect (0x102), in
\* whatever order broadcasts and handshakes cross.
THEOREM ConvergedHolds == NetSpec => []Converged
  <1> DEFINE NetInv == NetSound /\ Paired /\ OwnEntry /\ AuthorHeard
  <1>1. NetInit => NetInv
    <2>1. NetInit => Threads /\ AuthorHeard
      BY DEF NetInit, Threads, AuthorHeard
    <2>. QED
      BY <2>1, TopologyAssumption, NetInitTyped, OwnInit, PairedInit, AgreedInit, KeptInit
         DEF NetSound
  <1>2. NetInv /\ [NetNext]_netVars => NetInv'
    <2>1. NetInv /\ [NetNext]_netVars => AuthorHeard'
      BY TopologyAssumption, AuthorHeardStep
    <2>2. NetInv /\ [NetNext]_netVars => NetTyped' /\ Joins' /\ Threads' /\ Agreed' /\ ConnectsOnce'
      BY TopologyAssumption, NetTypedStep, ThreadsStep, AgreedStep, ConnectsStep DEF NetSound
    <2>3. NetInv /\ [NetNext]_netVars => Kept' /\ Grown'
      BY TopologyAssumption, KeptStep, GrownStep DEF NetSound
    <2>4. NetInv /\ [NetNext]_netVars => Paired' /\ OwnEntry'
      BY TopologyAssumption, PairedStep, OwnStep DEF NetSound
    <2>. QED
      BY <2>1, <2>2, <2>3, <2>4 DEF NetSound
  <1>3. NetInv => Converged
    BY TopologyAssumption, ConvergedWhenSettled
  <1>. QED
    BY <1>1, <1>2, <1>3, PTL DEF NetSpec

=============================================================================
