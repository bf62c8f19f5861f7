-------------------------- MODULE CompilerHostProofs --------------------------
(***************************************************************************)
(* Proofs about the compiler hosts of a node, for any number of            *)
(* compilations, clients and terminations.                                 *)
(***************************************************************************)
EXTENDS CompilerHost, SequenceLemmas

(* The inductive invariant, beside TypeOK *)

\* An instance that has no work thread has never been listed, found or written to.
Untouched ==
  \A i \in Instances :
    /\ client[i] = None => work[i] = "none" /\ answers[i] = <<>>
    /\ work[i] = "none" => /\ host[i] = "none" /\ status[i] = 0
                           /\ exec[i] = None /\ root[i] = None
                           /\ ~Writing(i) /\ i \notin stoppers

\* A report comes from a process that has ended or is about to, and so does a string.
ReportsAtEnd ==
  /\ \A j \in reports : host[j] \in {"reported", "exited"}
  /\ \A h \in handlers : host[h.from] \in {"reported", "exited"}
  /\ \A i, j \in Instances : exec[i] = j => host[j] \in {"reported", "exited"}

\* The process starts after the sources are unpacked; when the work thread has waited for
\* it, or has terminated it, it runs no more.
HostOver ==
  \A i \in Instances :
    /\ work[i] = "extract" => host[i] = "none"
    /\ work[i] \in {"grace", "exit", "unregister", "end", "last", "gone"} =>
         host[i] \in {"none", "exited"}

\* An instance that is off the list is written to only by threads that had found it.
LetGo ==
  \A i \in Instances :
    /\ status[i] = 3 => work[i] \in {"last", "gone"}
    /\ i \notin late /\ work[i] \in {"end", "last", "gone"} => ~Writing(i) /\ i \notin stoppers
    /\ i \notin late /\ work[i] \in {"last", "gone"} => status[i] = 3

\* Two instances of one client of which a report could still come are known to cross.
OpenAlone ==
  \A i, j \in Instances :
    i # j /\ Open(i) /\ Open(j) /\ client[i] = client[j] => client[i] \in crossed

\* Without that, an instance is written to by the report of its own process.
OwnReport == \A h \in handlers : client[h.to] \notin crossed => h.from = h.to

\* The work thread waits only for a process that has ended or is about to.
WaitEnds ==
  \A i \in Instances : client[i] \notin crossed =>
    /\ status[i] = 1 => host[i] \in {"reported", "exited"}
    /\ work[i] = "decide" /\ host[i] = "run" => status[i] = 2
    /\ work[i] = "join" => host[i] # "run"

\* What the process of i reports in the second string
Root(i) == IF i \in good THEN i ELSE None

Whole(i) == exec[i] = i /\ root[i] = Root(i)

Nothing(i) == exec[i] = None /\ root[i] = None

\* The two strings are a whole report when the status says so or was seen to say so, and
\* that or nothing when nobody is between them; then they are not written between the two
\* reads for the answer.
WholeReports ==
  \A i \in Instances : i \notin late /\ client[i] \notin crossed =>
    /\ exec[i] \in {None, i}
    /\ \A h \in handlers : h.to = i => /\ h.at >= 2 => exec[i] = i
                                       /\ h.at = 3 => root[i] = Root(i)
    /\ status[i] = 1 => Whole(i)
    /\ i \in heard => Whole(i)
    /\ HalfWritten(i) \/ Whole(i) \/ Nothing(i)
    /\ reply[i] = "exec" => seen[i] = root[i] /\ (Whole(i) \/ Nothing(i))

\* The strings are read when the exit task has run, and the client is answered then.
NotAnswered ==
  \A i \in Instances :
    /\ reply[i] # "none" => work[i] \in {"unregister", "end", "last", "gone"}
    /\ reply[i] # "done" /\ work[i] # "none" => answers[i] = <<>>
    /\ i \in heard => work[i] \in {"exit", "unregister", "end", "last", "gone"}

Links == Untouched /\ ReportsAtEnd /\ HostOver /\ LetGo /\ NotAnswered
Reports == OpenAlone /\ OwnReport /\ WaitEnds

HostInv == TypeOK /\ Links /\ Reports /\ WholeReports /\ AnswerIsOwn

-----------------------------------------------------------------------------
(* Types and the list *)

\* An instance that is found is on the list.
LEMMA FoundListed ==
  ASSUME TypeOK, NEW c, NEW i \in Found(c)
  PROVE  i \in Instances /\ Listed(i) /\ client[i] = c
  <1>1. compilers \in Seq(Instances) /\ DOMAIN compilers = 1..Len(compilers)
    BY LenProperties DEF TypeOK
  <1>2. PICK k \in DOMAIN compilers : i = compilers[k] /\ client[compilers[k]] = c
    BY DEF Found
  <1>. QED
    BY <1>1, <1>2, ElementOfSeq DEF Listed, ToSet

\* A compilation that begins is put on the list.
LEMMA ListAppend ==
  ASSUME TypeOK, NEW i \in Instances, ~Listed(i)
  PROVE  LET l == Append(compilers, i)
         IN  /\ l \in Seq(Instances) /\ IsInjective(l)
             /\ ToSet(l) = ToSet(compilers) \cup {i}
  <1>1. /\ compilers \in Seq(Instances) /\ DOMAIN compilers = 1..Len(compilers)
        /\ Len(compilers) \in Nat
    BY LenProperties DEF TypeOK
  <1>2. /\ Append(compilers, i) \in Seq(Instances)
        /\ DOMAIN Append(compilers, i) = 1..Len(compilers) + 1
        /\ \A k \in 1..Len(compilers) + 1 :
             Append(compilers, i)[k] = IF k <= Len(compilers) THEN compilers[k] ELSE i
    BY <1>1, AppendRecord, LenProperties
  <1>3. \A k \in 1..Len(compilers) : compilers[k] # i
    BY <1>1 DEF Listed, ToSet
  <1>4. \A k, m \in 1..Len(compilers) : compilers[k] = compilers[m] => k = m
    BY <1>1 DEF TypeOK, IsInjective
  <1>5. IsInjective(Append(compilers, i))
    BY <1>1, <1>2, <1>3, <1>4 DEF IsInjective
  <1>6. ToSet(Append(compilers, i)) = ToSet(compilers) \cup {i}
    BY <1>1, <1>2 DEF ToSet
  <1>. QED
    BY <1>2, <1>5, <1>6

\* One that unregisters is taken off, and the others stay.
LEMMA ListRemove ==
  ASSUME TypeOK, NEW k \in DOMAIN compilers
  PROVE  LET l == RemoveAt(compilers, k)
         IN  /\ l \in Seq(Instances) /\ IsInjective(l)
             /\ ToSet(l) = ToSet(compilers) \ {compilers[k]}
  <1> DEFINE l == RemoveAt(compilers, k)
             n == Len(compilers)
  <1>1. compilers \in Seq(Instances) /\ DOMAIN compilers = 1..n /\ n \in Nat /\ k \in 1..n
    BY LenProperties DEF TypeOK
  <1>2. /\ l \in Seq(Instances) /\ DOMAIN l = 1..n - 1
        /\ \A m \in 1..n - 1 : l[m] = IF m < k THEN compilers[m] ELSE compilers[m + 1]
    BY <1>1, RemoveRecord, LenProperties
  <1>3. \A m, o \in 1..n : compilers[m] = compilers[o] => m = o
    BY <1>1 DEF TypeOK, IsInjective
  <1>. HIDE DEF l, n
  <1>4. IsInjective(l)
    BY <1>1, <1>2, <1>3 DEF IsInjective
  <1>5. \A e \in ToSet(l) : e \in ToSet(compilers) \ {compilers[k]}
    <2>. SUFFICES ASSUME NEW m \in 1..n - 1 PROVE l[m] \in ToSet(compilers) \ {compilers[k]}
      BY <1>2 DEF ToSet
    <2>1. PICK o \in 1..n : o # k /\ l[m] = compilers[o]
      <3>1. m \in 1..n /\ m + 1 \in 1..n /\ (m < k => m # k) /\ (~(m < k) => m + 1 # k)
        BY <1>1
      <3>2. l[m] = IF m < k THEN compilers[m] ELSE compilers[m + 1]
        BY <1>2
      <3>. QED
        BY <3>1, <3>2
    <2>. QED
      BY <2>1, <1>1, <1>3 DEF ToSet
  <1>6. \A e \in ToSet(compilers) \ {compilers[k]} : e \in ToSet(l)
    <2>. SUFFICES ASSUME NEW m \in 1..n, m # k PROVE compilers[m] \in ToSet(l)
      BY <1>1 DEF ToSet
    <2>1. \E o \in 1..n - 1 : l[o] = compilers[m]
      <3>1. CASE m < k
        BY <3>1, <1>1, <1>2
      <3>2. CASE m > k
        <4>1. m - 1 \in 1..n - 1 /\ ~(m - 1 < k) /\ (m - 1) + 1 = m
          BY <3>2, <1>1
        <4>. QED
          BY <4>1, <1>2
      <3>. QED
        BY <3>1, <3>2, <1>1
    <2>. QED
      BY <2>1, <1>2 DEF ToSet
  <1>. QED
    BY <1>2, <1>4, <1>5, <1>6 DEF l

\* What a step that leaves the list and the answers alone has to keep.
Data ==
  /\ client \in [Instances -> Clients \cup {None}]
  /\ status \in [Instances -> 0..3]
  /\ exec \in [Instances -> Instances \cup {None}]
  /\ root \in [Instances -> Instances \cup {None}]
  /\ watchdog \in [Instances -> {"none", "run", "gone"}]
  /\ reply \in [Instances -> {"none", "root", "exec", "done"}]
  /\ seen \in [Instances -> Instances \cup {None}]
  /\ host \in [Instances -> {"none", "run", "reported", "exited"}]
  /\ good \subseteq Instances /\ reports \subseteq Instances
  /\ handlers \subseteq [from : Instances, to : Instances, at : 1..3]
  /\ stoppers \subseteq Instances /\ stops \in 0..MaxStops
  /\ heard \subseteq Instances /\ stopped \subseteq Instances
  /\ crossed \subseteq Clients /\ late \subseteq Instances

OnList == {"extract", "poll", "decide", "join", "grace", "exit", "unregister"}
Labels == {"none", "end", "last", "gone"} \cup OnList

Lists ==
  /\ compilers \in Seq(Instances) /\ IsInjective(compilers)
  /\ work \in [Instances -> Labels]
  /\ \A i \in Instances : Listed(i) <=> work[i] \in OnList

\* The parts of TypeOK
LEMMA TypeParts == TypeOK <=> Data /\ Lists /\ answers \in [Instances -> Seq(Answers)]
  BY DEF TypeOK, Data, Lists, OnList, Labels

\* An answer is appended.
LEMMA AnswerTyped ==
  ASSUME TypeOK, NEW i \in Instances, NEW e \in Instances \cup {None},
         NEW r \in Instances \cup {None}, Answer(i, e, r)
  PROVE  /\ answers' \in [Instances -> Seq(Answers)]
         /\ answers'[i] = Append(answers[i], [exec |-> e, root |-> r, heard |-> i \in heard])
         /\ \A j \in Instances \ {i} : answers'[j] = answers[j]
  <1> DEFINE a == [exec |-> e, root |-> r, heard |-> i \in heard]
  <1>1. a \in Answers
    <2>1. (i \in heard) \in BOOLEAN
      OBVIOUS
    <2>. QED
      BY <2>1 DEF Answers
  <1>2. answers \in [Instances -> Seq(Answers)] /\ answers[i] \in Seq(Answers)
    BY DEF TypeOK
  <1>3. Append(answers[i], a) \in Seq(Answers)
    BY <1>1, <1>2, AppendRecord
  <1>4. answers' = [answers EXCEPT ![i] = Append(answers[i], a)]
    BY DEF Answer
  <1>. HIDE DEF a
  <1>5. answers' \in [Instances -> Seq(Answers)] /\ answers'[i] = Append(answers[i], a)
        /\ \A j \in Instances \ {i} : answers'[j] = answers[j]
    BY <1>2, <1>3, <1>4
  <1>. QED
    BY <1>5 DEF a

\* What is read is typed.
LEMMA StringsTyped ==
  ASSUME TypeOK, NEW i \in Instances
  PROVE  /\ exec[i] \in Instances \cup {None} /\ root[i] \in Instances \cup {None}
         /\ seen[i] \in Instances \cup {None}
  BY DEF TypeOK

\* The steps of the work thread that change only where it stands, and the process.
Moves(i) ==
  ExtractFails(i) \/ Launch(i) \/ PollEnds(i) \/ Decide(i) \/ HostWait(i) \/ GraceEnds(i)
    \/ Release(i)

\* Every step keeps the types of the data.
LEMMA DataStep == TypeOK /\ CompilerAssumption /\ [Next]_vars => Data'
  <1>. SUFFICES ASSUME TypeOK, CompilerAssumption, [Next]_vars
                PROVE  Data'
    OBVIOUS
  <1>. USE DEF Goto, strings, threads, reading, server, history
  <1>0. Data
    BY TypeParts
  <1>1. ASSUME NEW i \in Instances, NEW c \in Clients, PerformCompilation(i, c) \/ LaunchFails(i, c)
        PROVE  Data'
    BY <1>0, <1>1 DEF PerformCompilation, LaunchFails, Data
  <1>2. ASSUME NEW i \in Instances, Moves(i)
        PROVE  Data'
    BY <1>0, <1>2 DEF Moves, ExtractFails, Launch, PollEnds, Decide, HostWait, GraceEnds, Release,
                      Data
  <1>3. ASSUME NEW i \in Instances, Exit(i) \/ Unregister(i) \/ End(i)
        PROVE  Data'
    BY <1>0, <1>3 DEF Exit, Unregister, End, StatusEnded, Data
  <1>12. ASSUME NEW i \in Instances, ReadRoot(i) \/ ReadExec(i)
         PROVE  Data'
    BY <1>0, <1>12 DEF ReadRoot, ReadExec, Data
  <1>4. ASSUME NEW i \in Instances, WatchdogEnds(i) \/ HostExits(i)
        PROVE  Data'
    BY <1>0, <1>4 DEF WatchdogEnds, HostExits, Data
  <1>5. ASSUME NEW i \in Instances, NEW success \in BOOLEAN, HostReports(i, success)
        PROVE  Data'
    BY <1>0, <1>5 DEF HostReports, Data
  <1>6. ASSUME NEW j \in Instances, Respond(j)
        PROVE  Data'
    <2>1. handlers' \subseteq [from : Instances, to : Instances, at : 1..3]
      BY <1>0, <1>6, FoundListed DEF Respond, Data
    <2>. QED
      BY <1>0, <1>6, <2>1 DEF Respond, Data
  <1>7. ASSUME NEW h \in handlers, HandleMessage(h)
        PROVE  Data'
    <2>1. h \in [from : Instances, to : Instances, at : 1..3]
      BY <1>0 DEF Data
    <2>2. handlers' \subseteq [from : Instances, to : Instances, at : 1..3]
      BY <1>0, <1>7, <2>1 DEF HandleMessage, Data
    <2>3. exec' \in [Instances -> Instances \cup {None}]
      BY <1>0, <1>7, <2>1 DEF HandleMessage, Data
    <2>4. root' \in [Instances -> Instances \cup {None}]
      BY <1>0, <1>7, <2>1 DEF HandleMessage, Data
    <2>5. status' \in [Instances -> 0..3]
      BY <1>0, <1>7, <2>1 DEF HandleMessage, Data
    <2>. QED
      BY <1>0, <1>7, <2>2, <2>3, <2>4, <2>5 DEF HandleMessage, Data
  <1>8. ASSUME NEW c \in Clients, StopRequest(c)
        PROVE  Data'
    BY <1>0, <1>8, FoundListed DEF StopRequest, Data, CompilerAssumption
  <1>9. ASSUME NEW i \in Instances, TerminateCompiler(i)
        PROVE  Data'
    BY <1>0, <1>9 DEF TerminateCompiler, Data
  <1>10. CASE TerminateAll
    <2>1. ToSet(compilers) \subseteq Instances
      BY LenProperties, ElementOfSeq DEF TypeOK, ToSet
    <2>. QED
      BY <1>0, <1>10, <2>1 DEF TerminateAll, Data, CompilerAssumption
  <1>11. CASE UNCHANGED vars
    BY <1>0, <1>11 DEF vars, Data
  <1>. QED
    BY <1>1, <1>2, <1>3, <1>4, <1>5, <1>6, <1>7, <1>8, <1>9, <1>10, <1>11, <1>12
       DEF Next, WorkStep, Moves

\* An instance that begins is not on the list.
LEMMA BeginsUnlisted ==
  ASSUME TypeOK, Untouched, CompilerAssumption, NEW i \in Instances, NEW c \in Clients,
         PerformCompilation(i, c) \/ LaunchFails(i, c)
  PROVE  client[i] = None /\ work[i] = "none" /\ ~Listed(i) /\ c # None
  <1>1. client[i] = None
    BY DEF PerformCompilation, LaunchFails, Instances
  <1>. QED
    BY <1>1 DEF Untouched, TypeOK, CompilerAssumption

\* Every step keeps the list and the positions of the work threads in agreement.
LEMMA ListsStep == TypeOK /\ Untouched /\ CompilerAssumption /\ [Next]_vars => Lists'
  <1>. SUFFICES ASSUME TypeOK, Untouched, CompilerAssumption, [Next]_vars
                PROVE  Lists'
    OBVIOUS
  <1>. USE DEF Goto, strings, threads, reading, server, history
  <1>0. Lists
    BY TypeParts
  <1>1. ASSUME NEW i \in Instances, NEW c \in Clients, PerformCompilation(i, c)
        PROVE  Lists'
    <2>1. ~Listed(i)
      BY <1>1, BeginsUnlisted
    <2>2. /\ compilers' \in Seq(Instances) /\ IsInjective(compilers')
          /\ ToSet(compilers') = ToSet(compilers) \cup {i}
      BY <1>1, <2>1, ListAppend DEF PerformCompilation
    <2>3. work' \in [Instances -> Labels] /\ work' = [work EXCEPT ![i] = "extract"]
      BY <1>0, <1>1 DEF PerformCompilation, Lists, Labels, OnList
    <2>. QED
      BY <1>0, <2>2, <2>3 DEF Lists, Listed, OnList
  <1>2. ASSUME NEW i \in Instances, Unregister(i)
        PROVE  Lists'
    <2>1. PICK k \in DOMAIN compilers : compilers[k] = i /\ compilers' = RemoveAt(compilers, k)
      BY <1>2 DEF Unregister, Unregistered
    <2>2. /\ compilers' \in Seq(Instances) /\ IsInjective(compilers')
          /\ ToSet(compilers') = ToSet(compilers) \ {i}
      BY <2>1, ListRemove
    <2>3. work' \in [Instances -> Labels] /\ work' = [work EXCEPT ![i] = "end"]
      BY <1>0, <1>2 DEF Unregister, Lists, Labels, OnList
    <2>. QED
      BY <1>0, <2>2, <2>3 DEF Lists, Listed, OnList
  <1>3. ASSUME NEW i \in Instances, Moves(i) \/ Exit(i) \/ End(i)
        PROVE  Lists'
    <2>1. compilers' = compilers /\ work' \in [Instances -> Labels]
      BY <1>0, <1>3 DEF Moves, ExtractFails, Launch, PollEnds, Decide, HostWait, GraceEnds,
                        Release, Exit, End, Lists, Labels, OnList
    <2>2. /\ \A j \in Instances \ {i} : work'[j] = work[j]
          /\ work'[i] \in OnList <=> work[i] \in OnList
      BY <1>0, <1>3 DEF Moves, ExtractFails, Launch, PollEnds, Decide, HostWait, GraceEnds,
                        Release, Exit, End, Lists, OnList
    <2>. QED
      BY <1>0, <2>1, <2>2 DEF Lists, Listed
  <1>4. CASE UNCHANGED <<compilers, work>>
    BY <1>0, <1>4 DEF Lists, Listed
  <1>5. \A i \in Instances :
          /\ \A c \in Clients : LaunchFails(i, c) => UNCHANGED <<compilers, work>>
          /\ \A success \in BOOLEAN : HostReports(i, success) => UNCHANGED <<compilers, work>>
          /\ WatchdogEnds(i) \/ HostExits(i) \/ Respond(i) \/ TerminateCompiler(i) =>
               UNCHANGED <<compilers, work>>
          /\ ReadRoot(i) \/ ReadExec(i) => UNCHANGED <<compilers, work>>
    BY DEF ReadRoot, ReadExec, LaunchFails, HostReports, WatchdogEnds, HostExits, Respond, TerminateCompiler
  <1>6. /\ \A h \in handlers : HandleMessage(h) => UNCHANGED <<compilers, work>>
        /\ \A c \in Clients : StopRequest(c) => UNCHANGED <<compilers, work>>
        /\ TerminateAll \/ UNCHANGED vars => UNCHANGED <<compilers, work>>
    BY DEF HandleMessage, StopRequest, TerminateAll, vars
  <1>. QED
    BY <1>1, <1>2, <1>3, <1>4, <1>5, <1>6 DEF Next, WorkStep, Moves

\* Every step keeps the types.
LEMMA TypeStep == TypeOK /\ Untouched /\ CompilerAssumption /\ [Next]_vars => TypeOK'
  <1>. SUFFICES ASSUME TypeOK, Untouched, CompilerAssumption, [Next]_vars
                PROVE  TypeOK'
    OBVIOUS
  <1>0. Data' /\ Lists'
    BY DataStep, ListsStep
  <1>1. ASSUME NEW i \in Instances, Answer(i, exec[i], root[i]) \/ Answer(i, exec[i], seen[i])
        PROVE  answers' \in [Instances -> Seq(Answers)]
    BY <1>1, StringsTyped, AnswerTyped
  <1>2. ASSUME UNCHANGED answers
        PROVE  answers' \in [Instances -> Seq(Answers)]
    BY <1>2 DEF TypeOK
  <1>3. \A i \in Instances :
          /\ \A c \in Clients : PerformCompilation(i, c) => UNCHANGED answers
          /\ \A success \in BOOLEAN : HostReports(i, success) => UNCHANGED answers
          /\ Moves(i) \/ Unregister(i) \/ End(i) => UNCHANGED answers
          /\ Exit(i) \/ ReadRoot(i) => UNCHANGED answers
          /\ WatchdogEnds(i) \/ HostExits(i) \/ Respond(i) \/ TerminateCompiler(i) =>
               UNCHANGED answers
    BY DEF PerformCompilation, HostReports, WatchdogEnds, HostExits, Respond, TerminateCompiler,
           Moves, ExtractFails, Launch, PollEnds, Decide, HostWait, GraceEnds, Release,
           Unregister, End, Exit, ReadRoot
  <1>4. /\ \A h \in handlers : HandleMessage(h) => UNCHANGED answers
        /\ \A c \in Clients : StopRequest(c) => UNCHANGED answers
        /\ TerminateAll \/ UNCHANGED vars => UNCHANGED answers
    BY DEF HandleMessage, StopRequest, TerminateAll, vars
  <1>5. \A i \in Instances :
          /\ (\E c \in Clients : LaunchFails(i, c)) => Answer(i, exec[i], root[i])
          /\ ReadExec(i) => Answer(i, exec[i], seen[i])
    BY DEF LaunchFails, ReadExec
  <1>6. answers' \in [Instances -> Seq(Answers)]
    BY <1>1, <1>2, <1>3, <1>4, <1>5 DEF Next, WorkStep, Moves
  <1>7. TypeOK' <=> Data' /\ Lists' /\ (answers \in [Instances -> Seq(Answers)])'
    BY TypeParts, PTL
  <1>. QED
    BY <1>0, <1>6, <1>7, Zenon DEF Instances, Answers

-----------------------------------------------------------------------------
(* How the parts of an instance hang together *)

\* Next, grouped for the proofs below
LEMMA StepCases ==
  ASSUME [Next]_vars
  PROVE  \/ \E i \in Instances, c \in Clients : PerformCompilation(i, c)
         \/ \E i \in Instances, c \in Clients : LaunchFails(i, c)
         \/ \E i \in Instances : Moves(i)
         \/ \E i \in Instances : Exit(i)
         \/ \E i \in Instances : ReadRoot(i)
         \/ \E i \in Instances : ReadExec(i)
         \/ \E i \in Instances : Unregister(i)
         \/ \E i \in Instances : End(i)
         \/ \E i \in Instances : WatchdogEnds(i)
         \/ \E i \in Instances, success \in BOOLEAN : HostReports(i, success)
         \/ \E i \in Instances : HostExits(i)
         \/ \E i \in Instances : Respond(i)
         \/ \E h \in handlers : HandleMessage(h)
         \/ \E c \in Clients : StopRequest(c)
         \/ \E i \in Instances : TerminateCompiler(i)
         \/ TerminateAll
         \/ UNCHANGED vars
  BY DEF Next, WorkStep, Moves

\* A handler names two instances, and what it does next.
LEMMA HandlerTyped ==
  ASSUME TypeOK, NEW h \in handlers
  PROVE  h.from \in Instances /\ h.to \in Instances /\ h.at \in 1..3
  BY DEF TypeOK

\* After a step of a handler there is no other instance that is written to.
LEMMA HandlerMoves ==
  ASSUME TypeOK, NEW h \in handlers, HandleMessage(h)
  PROVE  \A g \in handlers' : \/ g \in handlers
                              \/ g.from = h.from /\ g.to = h.to /\ g.at = h.at + 1 /\ h.at < 3
  <1>1. h \in [from : Instances, to : Instances, at : 1..3]
    BY DEF TypeOK
  <1>. QED
    BY <1>1 DEF HandleMessage

\* What a step of a handler does to the strings and the status.
LEMMA HandlerWrites ==
  ASSUME TypeOK, NEW h \in handlers, HandleMessage(h)
  PROVE  /\ \A j \in Instances \ {h.to} :
              exec'[j] = exec[j] /\ root'[j] = root[j] /\ status'[j] = status[j]
         /\ exec'[h.to] = IF h.at = 1 /\ ~Gone(h.to) THEN h.from ELSE exec[h.to]
         /\ root'[h.to] = IF h.at = 2 /\ ~Gone(h.to) THEN Root(h.from) ELSE root[h.to]
         /\ status'[h.to] = IF h.at = 3 /\ ~Gone(h.to) THEN 1 ELSE status[h.to]
  <1>1. h.to \in Instances /\ h.at \in {1, 2, 3}
    BY HandlerTyped
  <1>2. /\ exec \in [Instances -> Instances \cup {None}]
        /\ root \in [Instances -> Instances \cup {None}]
        /\ status \in [Instances -> 0..3]
    BY DEF TypeOK
  <1>3. /\ StatusLast[1] = "exec" /\ StatusLast[2] = "root" /\ StatusLast[3] = "status"
    BY DEF StatusLast
  <1>4. exec' = IF h.at = 1 /\ ~Gone(h.to) THEN [exec EXCEPT ![h.to] = h.from] ELSE exec
    BY <1>1, <1>3 DEF HandleMessage
  <1>5. root' = IF h.at = 2 /\ ~Gone(h.to) THEN [root EXCEPT ![h.to] = Root(h.from)] ELSE root
    BY <1>1, <1>3 DEF HandleMessage, Root
  <1>6. status' = IF h.at = 3 /\ ~Gone(h.to) THEN [status EXCEPT ![h.to] = 1] ELSE status
    BY <1>1, <1>3 DEF HandleMessage
  <1>. QED
    BY <1>1, <1>2, <1>4, <1>5, <1>6

\* The instances that are found have a work thread.
LEMMA FoundWorks ==
  ASSUME TypeOK, NEW c, NEW i \in Found(c)
  PROVE  i \in Instances /\ work[i] \in OnList /\ client[i] = c
  BY FoundListed DEF TypeOK, OnList

\* Untouched is kept.
LEMMA UntouchedStep == HostInv /\ CompilerAssumption /\ [Next]_vars => Untouched'
  <1>. SUFFICES ASSUME HostInv, CompilerAssumption, [Next]_vars
                PROVE  Untouched'
    OBVIOUS
  <1>. USE DEF Goto, strings, threads, reading, server, history, Writing
  <1>0. TypeOK /\ Data /\ Lists /\ Untouched /\ NotAnswered
    BY TypeParts DEF HostInv, Links
  <1>1. ASSUME NEW i \in Instances, NEW c \in Clients, PerformCompilation(i, c)
        PROVE  Untouched'
    <2>1. c # None
      BY <1>0, <1>1, BeginsUnlisted
    <2>. QED
      BY <1>0, <1>1, <2>1 DEF PerformCompilation, Untouched, Data, Lists
  <1>2. ASSUME NEW i \in Instances, NEW c \in Clients, LaunchFails(i, c)
        PROVE  Untouched'
    <2>1. c # None /\ \A j \in Instances \ {i} : answers'[j] = answers[j]
      BY <1>0, <1>2, BeginsUnlisted, StringsTyped, AnswerTyped DEF LaunchFails
    <2>. QED
      BY <1>0, <1>2, <2>1 DEF LaunchFails, Untouched, Data
  <1>3. ASSUME NEW i \in Instances, Moves(i) \/ Unregister(i) \/ End(i)
        PROVE  Untouched'
    BY <1>0, <1>3 DEF Moves, ExtractFails, Launch, PollEnds, Decide, HostWait, GraceEnds, Release, Unregister, End,
                      StatusEnded, Untouched, Data, Lists
  <1>4. ASSUME NEW i \in Instances, Exit(i) \/ ReadRoot(i)
        PROVE  Untouched'
    BY <1>0, <1>4 DEF Exit, ReadRoot, Untouched, Lists
  <1>12. ASSUME NEW i \in Instances, ReadExec(i)
         PROVE  Untouched'
    <2>1. \A j \in Instances \ {i} : answers'[j] = answers[j]
      BY <1>0, <1>12, StringsTyped, AnswerTyped DEF ReadExec
    <2>2. work[i] # "none"
      BY <1>0, <1>12 DEF ReadExec, NotAnswered
    <2>. QED
      BY <1>0, <1>12, <2>1, <2>2 DEF ReadExec, Untouched
  <1>5. ASSUME NEW i \in Instances, NEW success \in BOOLEAN,
               WatchdogEnds(i) \/ HostReports(i, success) \/ HostExits(i)
        PROVE  Untouched'
    BY <1>0, <1>5 DEF WatchdogEnds, HostReports, HostExits, Untouched, Data
  <1>6. ASSUME NEW j \in Instances, Respond(j)
        PROVE  Untouched'
    <2>1. \A i \in Instances : work[i] = "none" => i \notin Found(client[j])
      BY <1>0, FoundWorks DEF OnList
    <2>. QED
      BY <1>0, <1>6, <2>1 DEF Respond, Untouched
  <1>7. ASSUME NEW h \in handlers, HandleMessage(h)
        PROVE  Untouched'
    <2>1. h.to \in Instances /\ work[h.to] # "none"
      BY <1>0, <1>7, HandlerTyped DEF Untouched
    <2>2. UNCHANGED <<client, work, answers, host, stoppers>>
      BY <1>7 DEF HandleMessage
    <2>3. \A i \in Instances : Writing(i)' => Writing(i)
      BY <1>0, <1>7, HandlerMoves
    <2>. QED
      BY <1>0, <1>7, <2>1, <2>2, <2>3, HandlerWrites DEF Untouched
  <1>8. ASSUME NEW c \in Clients, StopRequest(c)
        PROVE  Untouched'
    <2>1. \A i \in Instances : work[i] = "none" => i \notin Found(c)
      BY <1>0, FoundWorks DEF OnList
    <2>. QED
      BY <1>0, <1>8, <2>1 DEF StopRequest, Untouched
  <1>9. ASSUME NEW i \in Instances, TerminateCompiler(i)
        PROVE  Untouched'
    BY <1>0, <1>9 DEF TerminateCompiler, Untouched, Data
  <1>10. CASE TerminateAll
    BY <1>0, <1>10 DEF TerminateAll, Untouched, Data, Lists, OnList
  <1>11. CASE UNCHANGED vars
    BY <1>0, <1>11 DEF vars, Untouched
  <1>. QED
    BY <1>1, <1>2, <1>3, <1>4, <1>5, <1>6, <1>7, <1>8, <1>9, <1>10, <1>11, <1>12, StepCases

\* ReportsAtEnd is kept.
LEMMA ReportsAtEndStep == HostInv /\ CompilerAssumption /\ [Next]_vars => ReportsAtEnd'
  <1>. SUFFICES ASSUME HostInv, CompilerAssumption, [Next]_vars
                PROVE  ReportsAtEnd'
    OBVIOUS
  <1>. USE DEF Goto, strings, threads, reading, server, history
  <1>0. TypeOK /\ Data /\ Untouched /\ ReportsAtEnd /\ HostOver
    BY TypeParts DEF HostInv, Links
  <1>1. CASE UNCHANGED <<host, reports, handlers, exec>>
    BY <1>0, <1>1 DEF ReportsAtEnd
  <1>2. ASSUME NEW i \in Instances, Moves(i)
        PROVE  ReportsAtEnd'
    <2>1. /\ UNCHANGED <<reports, handlers, exec>>
          /\ \A j \in Instances : host[j] \in {"reported", "exited"} => host'[j] \in {"reported", "exited"}
      BY <1>0, <1>2 DEF Moves, ExtractFails, Launch, PollEnds, Decide, HostWait, GraceEnds, Release, Data, HostOver
    <2>2. \A h \in handlers : h.from \in Instances
      BY <1>0, HandlerTyped
    <2>. QED
      BY <1>0, <2>1, <2>2 DEF ReportsAtEnd, Data
  <1>3. ASSUME NEW i \in Instances, NEW success \in BOOLEAN, HostReports(i, success) \/ HostExits(i)
        PROVE  ReportsAtEnd'
    <2>1. \A h \in handlers : h.from \in Instances
      BY <1>0, HandlerTyped
    <2>. QED
      BY <1>0, <1>3, <2>1 DEF HostReports, HostExits, ReportsAtEnd, Data
  <1>4. ASSUME NEW j \in Instances, Respond(j)
        PROVE  ReportsAtEnd'
    <2>1. \A h \in handlers' : h \in handlers \/ h.from = j
      BY <1>4 DEF Respond
    <2>. QED
      BY <1>0, <1>4, <2>1 DEF Respond, ReportsAtEnd
  <1>5. ASSUME NEW h \in handlers, HandleMessage(h)
        PROVE  ReportsAtEnd'
    <2>1. \A g \in handlers' : g \in handlers \/ g.from = h.from
      BY <1>0, <1>5, HandlerMoves
    <2>2. \A k \in Instances : exec'[k] = exec[k] \/ exec'[k] = h.from
      BY <1>0, <1>5, HandlerWrites
    <2>3. UNCHANGED <<host, reports>>
      BY <1>5 DEF HandleMessage
    <2>. QED
      BY <1>0, <2>1, <2>2, <2>3 DEF ReportsAtEnd
  <1>6. \A i \in Instances :
          /\ \A c \in Clients : PerformCompilation(i, c) \/ LaunchFails(i, c)
                              => UNCHANGED <<host, reports, handlers, exec>>
          /\ Exit(i) \/ Unregister(i) \/ End(i) \/ WatchdogEnds(i) \/ TerminateCompiler(i)
               => UNCHANGED <<host, reports, handlers, exec>>
          /\ ReadRoot(i) \/ ReadExec(i) => UNCHANGED <<host, reports, handlers, exec>>
    BY DEF ReadRoot, ReadExec, PerformCompilation, LaunchFails, Exit, Unregister, End, WatchdogEnds, TerminateCompiler
  <1>7. (\E c \in Clients : StopRequest(c)) \/ TerminateAll \/ UNCHANGED vars
          => UNCHANGED <<host, reports, handlers, exec>>
    BY DEF StopRequest, TerminateAll, vars
  <1>. QED
    BY <1>1, <1>2, <1>3, <1>4, <1>5, <1>6, <1>7, StepCases

\* HostOver is kept.
LEMMA HostOverStep == HostInv /\ CompilerAssumption /\ [Next]_vars => HostOver'
  <1>. SUFFICES ASSUME HostInv, CompilerAssumption, [Next]_vars
                PROVE  HostOver'
    OBVIOUS
  <1>. USE DEF Goto, strings, threads, reading, server, history
  <1>0. TypeOK /\ Data /\ Lists /\ Untouched /\ HostOver
    BY TypeParts DEF HostInv, Links
  <1>1. CASE UNCHANGED <<host, work>>
    BY <1>0, <1>1 DEF HostOver
  <1>2. ASSUME NEW i \in Instances, Moves(i)
        PROVE  HostOver'
    BY <1>0, <1>2 DEF Moves, ExtractFails, Launch, PollEnds, Decide, HostWait, GraceEnds, Release, Data, Lists, HostOver
  <1>3. ASSUME NEW i \in Instances, NEW c \in Clients, PerformCompilation(i, c)
        PROVE  HostOver'
    <2>1. host[i] = "none"
      BY <1>0, <1>3, BeginsUnlisted DEF Untouched
    <2>. QED
      BY <1>0, <1>3, <2>1 DEF PerformCompilation, Lists, HostOver
  <1>4. ASSUME NEW i \in Instances, Exit(i) \/ Unregister(i) \/ End(i)
        PROVE  HostOver'
    BY <1>0, <1>4 DEF Exit, Unregister, End, Lists, HostOver
  <1>5. ASSUME NEW i \in Instances, NEW success \in BOOLEAN, HostReports(i, success) \/ HostExits(i)
        PROVE  HostOver'
    BY <1>0, <1>5 DEF HostReports, HostExits, Data, HostOver
  <1>6. \A i \in Instances :
          /\ \A c \in Clients : LaunchFails(i, c) => UNCHANGED <<host, work>>
          /\ WatchdogEnds(i) \/ Respond(i) \/ TerminateCompiler(i) => UNCHANGED <<host, work>>
          /\ ReadRoot(i) \/ ReadExec(i) => UNCHANGED <<host, work>>
    BY DEF ReadRoot, ReadExec, LaunchFails, WatchdogEnds, Respond, TerminateCompiler
  <1>7. /\ \A h \in handlers : HandleMessage(h) => UNCHANGED <<host, work>>
        /\ (\E c \in Clients : StopRequest(c)) \/ TerminateAll \/ UNCHANGED vars
             => UNCHANGED <<host, work>>
    BY DEF HandleMessage, StopRequest, TerminateAll, vars
  <1>. QED
    BY <1>1, <1>2, <1>3, <1>4, <1>5, <1>6, <1>7, StepCases

\* NotAnswered is kept.
LEMMA NotAnsweredStep == HostInv /\ CompilerAssumption /\ [Next]_vars => NotAnswered'
  <1>. SUFFICES ASSUME HostInv, CompilerAssumption, [Next]_vars
                PROVE  NotAnswered'
    OBVIOUS
  <1>. USE DEF Goto, strings, threads, reading, server, history
  <1>0. TypeOK /\ Data /\ Lists /\ Untouched /\ NotAnswered
    BY TypeParts DEF HostInv, Links
  <1>1. CASE UNCHANGED <<answers, work, reply, heard>>
    BY <1>0, <1>1 DEF NotAnswered
  <1>2. ASSUME NEW i \in Instances, Moves(i) \/ Unregister(i) \/ End(i) \/ Exit(i)
        PROVE  NotAnswered'
    BY <1>0, <1>2 DEF Moves, ExtractFails, Launch, PollEnds, Decide, HostWait, GraceEnds, Release,
                      Unregister, End, Exit, Lists, Data, NotAnswered
  <1>3. ASSUME NEW i \in Instances, NEW c \in Clients, PerformCompilation(i, c)
        PROVE  NotAnswered'
    <2>1. answers[i] = <<>> /\ work[i] = "none"
      BY <1>0, <1>3, BeginsUnlisted DEF Untouched
    <2>. QED
      BY <1>0, <1>3, <2>1 DEF PerformCompilation, Lists, NotAnswered
  <1>4. ASSUME NEW i \in Instances, ReadRoot(i)
        PROVE  NotAnswered'
    BY <1>0, <1>4 DEF ReadRoot, Data, NotAnswered
  <1>8. ASSUME NEW i \in Instances, ReadExec(i)
        PROVE  NotAnswered'
    <2>1. \A j \in Instances \ {i} : answers'[j] = answers[j]
      BY <1>0, <1>8, StringsTyped, AnswerTyped DEF ReadExec
    <2>. QED
      BY <1>0, <1>8, <2>1 DEF ReadExec, Data, NotAnswered
  <1>5. ASSUME NEW i \in Instances, NEW c \in Clients, LaunchFails(i, c)
        PROVE  NotAnswered'
    <2>1. work[i] = "none" /\ \A j \in Instances \ {i} : answers'[j] = answers[j]
      BY <1>0, <1>5, BeginsUnlisted, StringsTyped, AnswerTyped DEF LaunchFails
    <2>. QED
      BY <1>0, <1>5, <2>1 DEF LaunchFails, NotAnswered
  <1>6. \A i \in Instances :
          /\ \A success \in BOOLEAN :
               HostReports(i, success) => UNCHANGED <<answers, work, reply, heard>>
          /\ HostExits(i) \/ WatchdogEnds(i) \/ Respond(i) \/ TerminateCompiler(i)
               => UNCHANGED <<answers, work, reply, heard>>
    BY DEF HostReports, HostExits, WatchdogEnds, Respond, TerminateCompiler
  <1>7. /\ \A h \in handlers : HandleMessage(h) => UNCHANGED <<answers, work, reply, heard>>
        /\ (\E c \in Clients : StopRequest(c)) \/ TerminateAll \/ UNCHANGED vars
             => UNCHANGED <<answers, work, reply, heard>>
    BY DEF HandleMessage, StopRequest, TerminateAll, vars
  <1>. QED
    BY <1>1, <1>2, <1>3, <1>4, <1>5, <1>6, <1>7, <1>8, StepCases

\* LetGo is kept.
LEMMA LetGoStep == HostInv /\ CompilerAssumption /\ [Next]_vars => LetGo'
  <1>. SUFFICES ASSUME HostInv, CompilerAssumption, [Next]_vars
                PROVE  LetGo'
    OBVIOUS
  <1>. USE DEF Goto, strings, threads, reading, server, history, Writing
  <1>0. TypeOK /\ Data /\ Lists /\ Untouched /\ LetGo
    BY TypeParts DEF HostInv, Links
  <1>1. CASE UNCHANGED <<status, work, late, handlers, stoppers>>
    BY <1>0, <1>1 DEF LetGo
  <1>2. ASSUME NEW i \in Instances, Moves(i) \/ Exit(i)
        PROVE  LetGo'
    BY <1>0, <1>2 DEF Moves, ExtractFails, Launch, PollEnds, Decide, HostWait, GraceEnds, Release, Exit, Lists, Data, LetGo
  <1>10. ASSUME NEW i \in Instances, ReadRoot(i) \/ ReadExec(i)
         PROVE  LetGo'
    BY <1>0, <1>10 DEF ReadRoot, ReadExec, LetGo
  <1>3. ASSUME NEW i \in Instances, Unregister(i) \/ End(i)
        PROVE  LetGo'
    BY <1>0, <1>3 DEF Unregister, End, StatusEnded, Lists, Data, LetGo
  <1>4. ASSUME NEW i \in Instances, NEW c \in Clients, PerformCompilation(i, c)
        PROVE  LetGo'
    <2>1. status[i] = 0
      BY <1>0, <1>4, BeginsUnlisted DEF Untouched
    <2>. QED
      BY <1>0, <1>4, <2>1 DEF PerformCompilation, Lists, LetGo
  <1>5. ASSUME NEW j \in Instances, Respond(j) \/ TerminateCompiler(j)
        PROVE  LetGo'
    <2>1. CASE Respond(j)
      <3>1. \A i \in Instances : i \in Found(client[j]) => work[i] \in OnList
        BY <1>0, FoundWorks
      <3>. QED
        BY <1>0, <2>1, <3>1 DEF Respond, LetGo, OnList
    <2>2. CASE TerminateCompiler(j)
      BY <1>0, <2>2 DEF TerminateCompiler, Data, LetGo
    <2>. QED
      BY <1>5, <2>1, <2>2
  <1>6. ASSUME NEW h \in handlers, HandleMessage(h)
        PROVE  LetGo'
    <2>1. h.to \in Instances /\ \A i \in Instances : Writing(i)' => Writing(i)
      BY <1>0, <1>6, HandlerTyped, HandlerMoves
    <2>2. UNCHANGED <<work, stoppers>> /\ late \subseteq late'
      BY <1>6 DEF HandleMessage
    <2>. QED
      BY <1>0, <1>6, <2>1, <2>2, HandlerWrites DEF LetGo
  <1>7. /\ \A i \in Instances :
             /\ \A c \in Clients : LaunchFails(i, c) => UNCHANGED <<status, work, late, handlers, stoppers>>
             /\ \A success \in BOOLEAN :
                  HostReports(i, success) => UNCHANGED <<status, work, late, handlers, stoppers>>
             /\ HostExits(i) \/ WatchdogEnds(i) => UNCHANGED <<status, work, late, handlers, stoppers>>
        /\ UNCHANGED vars => UNCHANGED <<status, work, late, handlers, stoppers>>
    BY DEF LaunchFails, HostReports, HostExits, WatchdogEnds, vars
  <1>8. CASE TerminateAll
    BY <1>0, <1>8 DEF TerminateAll, Lists, OnList, LetGo
  <1>9. ASSUME NEW c \in Clients, StopRequest(c)
        PROVE  LetGo'
    <2>1. \A i \in Instances : i \in Found(c) => work[i] \in OnList
      BY <1>0, FoundWorks
    <2>. QED
      BY <1>0, <1>9, <2>1 DEF StopRequest, LetGo, OnList
  <1>. QED
    BY <1>1, <1>2, <1>3, <1>4, <1>5, <1>6, <1>7, <1>8, <1>9, <1>10, StepCases

-----------------------------------------------------------------------------
(* Whose report an instance is given *)

\* An instance that begins has no report on its way.
LEMMA BeginsClosed ==
  ASSUME HostInv, CompilerAssumption, NEW i \in Instances, NEW c \in Clients,
         PerformCompilation(i, c) \/ LaunchFails(i, c)
  PROVE  ~Open(i) /\ host[i] = "none"
  <1>1. TypeOK /\ Untouched /\ ReportsAtEnd
    BY DEF HostInv, Links
  <1>. QED
    BY <1>1, BeginsUnlisted DEF Open, Untouched, ReportsAtEnd

\* Instances of one client of which a report could come are known to cross.
LEMMA OpenAloneStep == HostInv /\ CompilerAssumption /\ [Next]_vars => OpenAlone'
  <1>. SUFFICES ASSUME HostInv, CompilerAssumption, [Next]_vars
                PROVE  OpenAlone'
    OBVIOUS
  <1>. USE DEF Goto, strings, threads, reading, server, history
  <1>0. TypeOK /\ Data /\ Lists /\ Untouched /\ HostOver /\ OpenAlone
    BY TypeParts DEF HostInv, Links, Reports
  <1>1. ASSUME UNCHANGED <<client, crossed>>, \A i \in Instances : Open(i)' => Open(i)
        PROVE  OpenAlone'
    BY <1>0, <1>1 DEF OpenAlone
  <1>2. ASSUME NEW i \in Instances, NEW c \in Clients, PerformCompilation(i, c)
        PROVE  OpenAlone'
    <2>1. ~Open(i) /\ ~Listed(i) /\ client' = [client EXCEPT ![i] = c]
      BY <1>0, <1>2, BeginsClosed, BeginsUnlisted DEF PerformCompilation
    <2>2. \A j \in Instances : j # i => (Open(j)' <=> Open(j))
      <3>1. ToSet(compilers') = ToSet(compilers) \cup {i} /\ UNCHANGED <<host, reports>>
        BY <1>0, <1>2, <2>1, ListAppend DEF PerformCompilation
      <3>. QED
        BY <3>1 DEF Open, Listed
    <2>3. \A j \in Instances : Open(j) /\ client[j] = c => c \in crossed'
      BY <1>2 DEF PerformCompilation
    <2>4. crossed \subseteq crossed'
      BY <1>2 DEF PerformCompilation
    <2>. QED
      BY <1>0, <2>1, <2>2, <2>3, <2>4 DEF OpenAlone, Data
  <1>3. ASSUME NEW i \in Instances, NEW c \in Clients, LaunchFails(i, c)
        PROVE  OpenAlone'
    <2>1. ~Open(i) /\ client' = [client EXCEPT ![i] = c] /\ UNCHANGED <<compilers, host, reports, crossed>>
      BY <1>3, BeginsClosed DEF LaunchFails
    <2>2. \A j \in Instances : Open(j)' <=> Open(j)
      BY <2>1 DEF Open, Listed
    <2>. QED
      BY <1>0, <2>1, <2>2 DEF OpenAlone, Data
  <1>4. ASSUME NEW i \in Instances, Moves(i)
        PROVE  OpenAlone'
    <2>1. UNCHANGED <<client, crossed, compilers, reports>>
      BY <1>4 DEF Moves, ExtractFails, Launch, PollEnds, Decide, HostWait, GraceEnds, Release
    <2>2. \A j \in Instances : host'[j] = "run" => host[j] = "run" \/ Listed(j)
      BY <1>0, <1>4 DEF Moves, ExtractFails, Launch, PollEnds, Decide, HostWait, GraceEnds, Release, Data, Lists,
                        OnList
    <2>. QED
      BY <1>1, <2>1, <2>2 DEF Open, Listed
  <1>5. ASSUME NEW i \in Instances, Unregister(i)
        PROVE  OpenAlone'
    <2>1. PICK k \in DOMAIN compilers : compilers[k] = i /\ compilers' = RemoveAt(compilers, k)
      BY <1>5 DEF Unregister, Unregistered
    <2>2. ToSet(compilers') \subseteq ToSet(compilers)
      BY <1>0, <2>1, ListRemove
    <2>3. UNCHANGED <<client, crossed, host, reports>>
      BY <1>5 DEF Unregister
    <2>. QED
      BY <1>1, <2>2, <2>3 DEF Open, Listed
  <1>6. ASSUME NEW i \in Instances, NEW success \in BOOLEAN,
               HostReports(i, success) \/ HostExits(i) \/ Respond(i)
        PROVE  OpenAlone'
    <2>1. UNCHANGED <<client, crossed, compilers>>
      BY <1>6 DEF HostReports, HostExits, Respond
    <2>2. \A j \in Instances : host'[j] = "run" \/ j \in reports' => host[j] = "run" \/ j \in reports
      BY <1>0, <1>6 DEF HostReports, HostExits, Respond, Data
    <2>. QED
      BY <1>1, <2>1, <2>2 DEF Open, Listed
  <1>7. /\ \A i \in Instances :
             /\ Exit(i) \/ End(i) \/ WatchdogEnds(i) \/ TerminateCompiler(i)
                  => UNCHANGED <<client, crossed, compilers, host, reports>>
             /\ ReadRoot(i) \/ ReadExec(i)
                  => UNCHANGED <<client, crossed, compilers, host, reports>>
        /\ \A h \in handlers :
             HandleMessage(h) => UNCHANGED <<client, crossed, compilers, host, reports>>
        /\ (\E c \in Clients : StopRequest(c)) \/ TerminateAll \/ UNCHANGED vars
             => UNCHANGED <<client, crossed, compilers, host, reports>>
    BY DEF Exit, ReadRoot, ReadExec, End, WatchdogEnds, TerminateCompiler, HandleMessage,
           StopRequest, TerminateAll, vars
  <1>8. UNCHANGED <<client, crossed, compilers, host, reports>> => OpenAlone'
    BY <1>1 DEF Open, Listed
  <1>. QED
    BY <1>2, <1>3, <1>4, <1>5, <1>6, <1>7, <1>8, StepCases

\* A report that has found an instance is its own, if its client did not cross.
LEMMA OwnReportStep == HostInv /\ CompilerAssumption /\ [Next]_vars => OwnReport'
  <1>. SUFFICES ASSUME HostInv, CompilerAssumption, [Next]_vars
                PROVE  OwnReport'
    OBVIOUS
  <1>. USE DEF Goto, strings, threads, reading, server, history
  <1>0. TypeOK /\ Data /\ Untouched /\ OpenAlone /\ OwnReport
    BY TypeParts DEF HostInv, Links, Reports
  <1>1. CASE UNCHANGED <<client, crossed, handlers>>
    BY <1>0, <1>1 DEF OwnReport
  <1>2. ASSUME NEW i \in Instances, NEW c \in Clients, PerformCompilation(i, c) \/ LaunchFails(i, c)
        PROVE  OwnReport'
    <2>1. ~Writing(i)
      BY <1>0, <1>2, BeginsUnlisted DEF Untouched
    <2>2. /\ handlers' = handlers /\ crossed \subseteq crossed'
          /\ \A j \in Instances \ {i} : client'[j] = client[j]
      BY <1>0, <1>2 DEF PerformCompilation, LaunchFails, Data
    <2>3. \A h \in handlers : h.to \in Instances /\ h.to # i
      BY <1>0, <2>1, HandlerTyped DEF Writing
    <2>. QED
      BY <1>0, <2>2, <2>3 DEF OwnReport
  <1>3. ASSUME NEW j \in Instances, Respond(j)
        PROVE  OwnReport'
    <2>1. \A i \in Found(client[j]) : client[i] \notin crossed => i = j
      <3>. SUFFICES ASSUME NEW i \in Found(client[j]), client[i] \notin crossed PROVE i = j
        OBVIOUS
      <3>1. i \in Instances /\ Listed(i) /\ client[i] = client[j]
        BY <1>0, FoundListed
      <3>2. Open(i) /\ Open(j)
        BY <1>3, <3>1 DEF Open, Respond
      <3>. QED
        BY <1>0, <3>1, <3>2 DEF OpenAlone
    <2>2. \A h \in handlers' : h \in handlers \/ (h.from = j /\ h.to \in Found(client[j]))
      BY <1>3 DEF Respond
    <2>. QED
      BY <1>0, <1>3, <2>1, <2>2 DEF Respond, OwnReport
  <1>4. ASSUME NEW h \in handlers, HandleMessage(h)
        PROVE  OwnReport'
    <2>1. \A g \in handlers' : g \in handlers \/ (g.from = h.from /\ g.to = h.to)
      BY <1>0, <1>4, HandlerMoves
    <2>2. UNCHANGED <<client, crossed>>
      BY <1>4 DEF HandleMessage
    <2>. QED
      BY <1>0, <2>1, <2>2 DEF OwnReport
  <1>5. \A i \in Instances :
          /\ \A success \in BOOLEAN : HostReports(i, success) => UNCHANGED <<client, crossed, handlers>>
          /\ Moves(i) \/ Exit(i) \/ Unregister(i) \/ End(i)
               => UNCHANGED <<client, crossed, handlers>>
    BY DEF HostReports, Moves, ExtractFails, Launch, PollEnds, Decide, HostWait, GraceEnds, Release, Exit,
           Unregister, End
  <1>6. \A i \in Instances :
          /\ WatchdogEnds(i) \/ HostExits(i) \/ TerminateCompiler(i)
               => UNCHANGED <<client, crossed, handlers>>
          /\ ReadRoot(i) \/ ReadExec(i) => UNCHANGED <<client, crossed, handlers>>
    BY DEF ReadRoot, ReadExec, WatchdogEnds, HostExits, TerminateCompiler
  <1>7. (\E c \in Clients : StopRequest(c)) \/ TerminateAll \/ UNCHANGED vars
          => UNCHANGED <<client, crossed, handlers>>
    BY DEF StopRequest, TerminateAll, vars
  <1>. QED
    BY <1>1, <1>2, <1>3, <1>4, <1>5, <1>6, <1>7, StepCases

\* The work thread does not come to wait for a process that may run for ever.
LEMMA WaitEndsStep == HostInv /\ CompilerAssumption /\ [Next]_vars => WaitEnds'
  <1>. SUFFICES ASSUME HostInv, CompilerAssumption, [Next]_vars
                PROVE  WaitEnds'
    OBVIOUS
  <1>. USE DEF Goto, strings, threads, reading, server, history
  <1>0. /\ TypeOK /\ Data /\ Lists /\ Untouched /\ ReportsAtEnd /\ LetGo
        /\ OwnReport /\ WaitEnds
    BY TypeParts DEF HostInv, Links, Reports
  <1>1. CASE UNCHANGED <<client, crossed, status, host, work>>
    BY <1>0, <1>1 DEF WaitEnds
  <1>2. ASSUME NEW i \in Instances, NEW c \in Clients, PerformCompilation(i, c) \/ LaunchFails(i, c)
        PROVE  WaitEnds'
    <2>1. work[i] = "none" /\ status[i] = 0
      BY <1>0, <1>2, BeginsUnlisted DEF Untouched
    <2>2. crossed \subseteq crossed' /\ UNCHANGED <<status, host>>
      BY <1>2 DEF PerformCompilation, LaunchFails
    <2>3. /\ \A j \in Instances \ {i} : client'[j] = client[j] /\ work'[j] = work[j]
          /\ work'[i] \in {"none", "extract"}
      BY <1>0, <1>2, <2>1 DEF PerformCompilation, LaunchFails, Data, Lists
    <2>. QED
      BY <1>0, <2>1, <2>2, <2>3 DEF WaitEnds
  <1>3. ASSUME NEW i \in Instances, Moves(i)
        PROVE  WaitEnds'
    <2>1. UNCHANGED <<client, crossed, status>>
      BY <1>3 DEF Moves, ExtractFails, Launch, PollEnds, Decide, HostWait, GraceEnds, Release
    <2>2. \A j \in Instances \ {i} : work'[j] = work[j] /\ host'[j] = host[j]
      BY <1>0, <1>3 DEF Moves, ExtractFails, Launch, PollEnds, Decide, HostWait, GraceEnds, Release, Data, Lists
    <2>3. \/ work'[i] \notin {"decide", "join"} /\ (host'[i] = host[i] \/ host'[i] = "exited" \/ status[i] = 0)
          \/ work'[i] = "decide" /\ host'[i] = host[i] /\ (host[i] = "exited" \/ status[i] # 0) /\ work[i] = "poll"
          \/ work'[i] = "join" /\ host'[i] = host[i] /\ status[i] # 2 /\ work[i] = "decide"
      BY <1>0, <1>3 DEF Moves, ExtractFails, Launch, PollEnds, Decide, HostWait, GraceEnds, Release, Terminated,
                        Data, Lists
    <2>4. status[i] \in 0..3 /\ (work[i] = "poll" => status[i] # 3)
      BY <1>0 DEF Data, LetGo
    <2>. QED
      BY <1>0, <2>1, <2>2, <2>3, <2>4 DEF WaitEnds
  <1>4. ASSUME NEW i \in Instances, Exit(i) \/ Unregister(i) \/ End(i)
        PROVE  WaitEnds'
    BY <1>0, <1>4 DEF Exit, Unregister, End, StatusEnded, Data, Lists, WaitEnds
  <1>5. ASSUME NEW i \in Instances, NEW success \in BOOLEAN, HostReports(i, success) \/ HostExits(i)
        PROVE  WaitEnds'
    BY <1>0, <1>5 DEF HostReports, HostExits, Data, WaitEnds
  <1>6. ASSUME NEW h \in handlers, HandleMessage(h)
        PROVE  WaitEnds'
    <2>1. UNCHANGED <<client, crossed, host, work>>
      BY <1>6 DEF HandleMessage
    <2>2. h.to \in Instances /\ (client[h.to] \notin crossed => host[h.to] \in {"reported", "exited"})
      BY <1>0, HandlerTyped DEF OwnReport, ReportsAtEnd
    <2>. QED
      BY <1>0, <1>6, <2>1, <2>2, HandlerWrites DEF WaitEnds
  <1>7. ASSUME NEW i \in Instances, TerminateCompiler(i)
        PROVE  WaitEnds'
    BY <1>0, <1>7 DEF TerminateCompiler, Data, WaitEnds
  <1>8. CASE TerminateAll
    BY <1>0, <1>8 DEF TerminateAll, Data, WaitEnds
  <1>9. /\ \A i \in Instances : WatchdogEnds(i) \/ Respond(i) \/ ReadRoot(i) \/ ReadExec(i)
             => UNCHANGED <<client, crossed, status, host, work>>
        /\ (\E c \in Clients : StopRequest(c)) \/ UNCHANGED vars
             => UNCHANGED <<client, crossed, status, host, work>>
    BY DEF WatchdogEnds, Respond, ReadRoot, ReadExec, StopRequest, vars
  <1>. QED
    BY <1>1, <1>2, <1>3, <1>4, <1>5, <1>6, <1>7, <1>8, <1>9, StepCases

-----------------------------------------------------------------------------
(* What the client is told *)

\* The parts of WholeReports for one instance, which are not claimed of all
WholeReport(i) ==
  /\ exec[i] \in {None, i}
  /\ \A h \in handlers : h.to = i => /\ h.at >= 2 => exec[i] = i
                                     /\ h.at = 3 => root[i] = Root(i)
  /\ status[i] = 1 => Whole(i)
  /\ i \in heard => Whole(i)
  /\ HalfWritten(i) \/ Whole(i) \/ Nothing(i)
  /\ reply[i] = "exec" => seen[i] = root[i] /\ (Whole(i) \/ Nothing(i))

Claimed(i) == i \notin late /\ client[i] \notin crossed

\* A step that touches nothing of them but the history
LEMMA WholeStays ==
  ASSUME NEW i \in Instances, WholeReport(i),
         exec'[i] = exec[i], root'[i] = root[i], i \in good' <=> i \in good,
         status'[i] = 1 => status[i] = 1, i \in heard' => i \in heard \/ status[i] = 1,
         \A h \in handlers' : h.to = i => h \in handlers \/ h.at = 1,
         \A h \in handlers : h.to = i => h \in handlers',
         reply'[i] = "exec" => reply[i] = "exec" /\ seen'[i] = seen[i]
  PROVE  WholeReport(i)'
  <1>1. /\ Whole(i)' <=> Whole(i)
        /\ Nothing(i)' <=> Nothing(i)
        /\ Root(i)' = Root(i)
    BY DEF Whole, Nothing, Root
  <1>2. HalfWritten(i) => HalfWritten(i)'
    BY DEF HalfWritten
  <1>. QED
    BY <1>1, <1>2 DEF WholeReport

\* A half-written report is one that somebody is still writing.
LEMMA WholeReportsStep == HostInv /\ CompilerAssumption /\ [Next]_vars => WholeReports'
  <1>. SUFFICES ASSUME HostInv, CompilerAssumption, [Next]_vars,
                       NEW j \in Instances, Claimed(j)'
                PROVE  WholeReport(j)'
    BY DEF WholeReports, WholeReport, Claimed
  <1>. USE DEF Goto, strings, threads, reading, server, history
  <1>0. /\ TypeOK /\ Data /\ Lists /\ Untouched /\ ReportsAtEnd /\ LetGo /\ HostOver
        /\ OwnReport /\ WaitEnds /\ WholeReports /\ NotAnswered
    BY TypeParts DEF HostInv, Links, Reports
  <1>1. ASSUME Claimed(j) PROVE WholeReport(j)
    BY <1>0, <1>1 DEF WholeReports, WholeReport, Claimed
  <1>2. ASSUME NEW i \in Instances, NEW c \in Clients, PerformCompilation(i, c) \/ LaunchFails(i, c)
        PROVE  WholeReport(j)'
    <2>1. /\ work[i] = "none" /\ status[i] = 0 /\ exec[i] = None /\ root[i] = None /\ ~Writing(i)
          /\ i \notin heard /\ reply[i] = "none"
      BY <1>0, <1>2, BeginsUnlisted DEF Untouched, NotAnswered
    <2>2. /\ crossed \subseteq crossed'
          /\ UNCHANGED <<status, exec, root, handlers, good, late, heard, reply, seen>>
          /\ \A k \in Instances \ {i} : client'[k] = client[k]
      BY <1>0, <1>2 DEF PerformCompilation, LaunchFails, Data
    <2>3. CASE j = i
      BY <2>1, <2>2, <2>3 DEF WholeReport, Writing, Nothing
    <2>4. CASE j # i
      BY <1>1, <2>2, <2>4, WholeStays DEF Claimed
    <2>. QED
      BY <2>3, <2>4
  <1>3. ASSUME NEW i \in Instances, End(i) \/ TerminateCompiler(i)
        PROVE  WholeReport(j)'
    <2>1. UNCHANGED <<exec, root, handlers, good, client, late, crossed, heard, reply, seen>>
      BY <1>3 DEF End, TerminateCompiler
    <2>2. status'[j] = 1 => status[j] = 1
      BY <1>0, <1>3 DEF End, StatusEnded, TerminateCompiler, Data
    <2>. QED
      BY <1>1, <2>1, <2>2, WholeStays DEF Claimed
  <1>4. ASSUME NEW i \in Instances, NEW success \in BOOLEAN, HostReports(i, success)
        PROVE  WholeReport(j)'
    <2>1. /\ UNCHANGED <<exec, root, status, handlers, client, late, crossed, heard, reply, seen>>
          /\ host[i] = "run"
          /\ \A k \in Instances \ {i} : k \in good' <=> k \in good
      BY <1>4 DEF HostReports
    <2>2. Claimed(j) /\ WholeReport(j)
      BY <1>1, <2>1 DEF Claimed
    <2>3. CASE j = i
      <3>1. \A h \in handlers : h.to # j
        BY <1>0, <2>1, <2>2, <2>3 DEF OwnReport, ReportsAtEnd, Claimed
      <3>2. status[j] # 1
        BY <1>0, <2>1, <2>2, <2>3 DEF WaitEnds, Claimed
      <3>3. exec[j] # j
        BY <1>0, <2>1, <2>3 DEF ReportsAtEnd
      <3>4. j \notin heard /\ reply[j] # "exec"
        BY <1>0, <2>1, <2>3 DEF HostOver, NotAnswered
      <3>5. exec[j] = None /\ root[j] = None
        BY <2>2, <3>1, <3>3 DEF WholeReport, HalfWritten, Whole, Nothing
      <3>. QED
        BY <2>1, <3>1, <3>2, <3>4, <3>5 DEF WholeReport, Nothing
    <2>4. CASE j # i
      BY <2>1, <2>2, <2>4, WholeStays
    <2>. QED
      BY <2>3, <2>4
  <1>5. ASSUME NEW i \in Instances, Respond(i)
        PROVE  WholeReport(j)'
    <2>1. UNCHANGED <<exec, root, status, good, client, late, crossed, heard, reply, seen>>
      BY <1>5 DEF Respond
    <2>2. /\ handlers \subseteq handlers'
          /\ \A h \in handlers' : h \in handlers \/ h.at = 1
      BY <1>5 DEF Respond
    <2>. QED
      BY <1>1, <2>1, <2>2, WholeStays DEF Claimed
  <1>6. ASSUME NEW h \in handlers, HandleMessage(h)
        PROVE  WholeReport(j)'
    <2>1. /\ h.to \in Instances /\ h.at \in 1..3
          /\ UNCHANGED <<good, client, crossed, work, watchdog, heard, reply, seen>>
          /\ late \subseteq late' /\ (reply[h.to] = "exec" /\ h.at < 3 => h.to \in late')
      BY <1>0, <1>6, HandlerTyped DEF HandleMessage
    <2>2. /\ \A g \in handlers' : \/ g \in handlers
                                  \/ g.to = h.to /\ g.at = h.at + 1 /\ h.at < 3
          /\ \A g \in handlers : g # h => g \in handlers'
          /\ h.at = 1 => HalfWritten(h.to)'
      <3>1. h \in [from : Instances, to : Instances, at : 1..3]
        BY <1>0 DEF Data
      <3>2. h.at = 1 => /\ [h EXCEPT !.at = h.at + 1] \in handlers'
                        /\ [h EXCEPT !.at = h.at + 1].to = h.to
                        /\ [h EXCEPT !.at = h.at + 1].at = 2
        BY <1>6, <3>1 DEF HandleMessage
      <3>3. h.at = 1 => HalfWritten(h.to)'
        BY <3>2 DEF HalfWritten
      <3>4. \A g \in handlers : g # h => g \in handlers'
        BY <1>6 DEF HandleMessage
      <3>5. \A g \in handlers' : g \in handlers \/ (g.to = h.to /\ g.at = h.at + 1 /\ h.at < 3)
        BY <1>0, <1>6, HandlerMoves
      <3>. QED
        BY <3>3, <3>4, <3>5
    <2>3. Claimed(j) /\ WholeReport(j)
      BY <1>1, <2>1 DEF Claimed
    <2>4. CASE j # h.to
      <3>1. /\ exec'[j] = exec[j] /\ root'[j] = root[j] /\ status'[j] = status[j]
            /\ \A g \in handlers' : g.to = j => g \in handlers
            /\ \A g \in handlers : g.to = j => g \in handlers'
        BY <1>0, <1>6, <2>2, <2>4, HandlerWrites
      <3>. QED
        BY <2>1, <2>3, <3>1, WholeStays
    <2>5. CASE j = h.to
      <3>1. h.from = j /\ ~Gone(j)
        BY <1>0, <2>3, <2>5 DEF OwnReport, LetGo, Writing, Gone, Claimed
      <3>2. /\ exec'[j] = IF h.at = 1 THEN j ELSE exec[j]
            /\ root'[j] = IF h.at = 2 THEN Root(j) ELSE root[j]
            /\ status'[j] = IF h.at = 3 THEN 1 ELSE status[j]
        BY <1>0, <1>6, <2>5, <3>1, HandlerWrites
      <3>3. /\ exec[j] \in {None, j}
            /\ \A g \in handlers : g.to = j => /\ g.at >= 2 => exec[j] = j
                                               /\ g.at = 3 => root[j] = Root(j)
            /\ status[j] = 1 => exec[j] = j /\ root[j] = Root(j)
            /\ j \in heard => exec[j] = j /\ root[j] = Root(j)
        BY <2>3 DEF WholeReport, Whole
      <3>4. Root(j)' = Root(j) /\ (reply'[j] = "exec" => h.at = 3 /\ reply[j] = "exec")
        BY <2>1, <2>5 DEF Root, Claimed
      <3>5. CASE h.at = 1
        <4>1. /\ exec'[j] = j /\ root'[j] = root[j] /\ status'[j] = status[j] /\ HalfWritten(j)'
              /\ reply'[j] # "exec"
          BY <2>2, <2>5, <3>2, <3>4, <3>5
        <4>2. \A g \in handlers' : g.to = j /\ g.at = 3 => root'[j] = Root(j)
          BY <2>2, <3>3, <3>5, <4>1
        <4>. QED
          BY <2>1, <3>3, <3>4, <4>1, <4>2 DEF WholeReport, Whole
      <3>6. CASE h.at = 2
        <4>1. exec'[j] = j /\ root'[j] = Root(j) /\ reply'[j] # "exec"
          BY <2>5, <3>2, <3>3, <3>4, <3>6
        <4>. QED
          BY <3>4, <4>1 DEF WholeReport, Whole
      <3>7. CASE h.at = 3
        <4>1. /\ exec'[j] = j /\ root'[j] = Root(j) /\ root[j] = Root(j)
          BY <2>5, <3>2, <3>3, <3>7
        <4>2. reply[j] = "exec" => seen[j] = root[j]
          BY <2>3 DEF WholeReport
        <4>. QED
          BY <2>1, <3>4, <4>1, <4>2 DEF WholeReport, Whole
      <3>. QED
        BY <2>1, <3>5, <3>6, <3>7
    <2>. QED
      BY <2>4, <2>5
  <1>7. CASE TerminateAll
    <2>1. UNCHANGED <<exec, root, handlers, good, client, late, crossed, heard, reply, seen>>
      BY <1>7 DEF TerminateAll
    <2>2. status'[j] = 1 => status[j] = 1
      BY <1>0, <1>7 DEF TerminateAll, Data
    <2>. QED
      BY <1>1, <2>1, <2>2, WholeStays DEF Claimed
  <1>8. ASSUME NEW i \in Instances, ReadRoot(i)
        PROVE  WholeReport(j)'
    <2>1. /\ UNCHANGED <<exec, root, status, handlers, good, client, crossed, heard>>
          /\ late \subseteq late' /\ (HalfWritten(i) /\ i \notin heard => i \in late')
          /\ \A k \in Instances \ {i} : reply'[k] = reply[k] /\ seen'[k] = seen[k]
          /\ seen'[i] = root[i]
      BY <1>0, <1>8 DEF ReadRoot, Data
    <2>2. Claimed(j) /\ WholeReport(j)
      BY <1>1, <2>1 DEF Claimed
    <2>3. CASE j = i
      <3>1. Whole(j) \/ Nothing(j)
        BY <2>1, <2>2, <2>3 DEF WholeReport, Claimed
      <3>2. /\ Whole(j)' <=> Whole(j)
            /\ Nothing(j)' <=> Nothing(j)
            /\ Root(j)' = Root(j)
            /\ HalfWritten(j)' <=> HalfWritten(j)
        BY <2>1 DEF Whole, Nothing, Root, HalfWritten
      <3>. QED
        BY <2>1, <2>2, <2>3, <3>1, <3>2 DEF WholeReport
    <2>4. CASE j # i
      BY <2>1, <2>2, <2>4, WholeStays
    <2>. QED
      BY <2>3, <2>4
  <1>9. ASSUME NEW i \in Instances, Moves(i) \/ Exit(i) \/ ReadExec(i)
        PROVE  WholeReport(j)'
    <2>1. /\ UNCHANGED <<exec, root, status, handlers, good, client, late, crossed, seen>>
          /\ j \in heard' => j \in heard \/ status[j] = 1
          /\ reply'[j] = "exec" => reply[j] = "exec"
      BY <1>0, <1>9 DEF Moves, ExtractFails, Launch, PollEnds, Decide, HostWait, GraceEnds, Release,
                        Exit, ReadExec, Data
    <2>. QED
      BY <1>1, <2>1, WholeStays DEF Claimed
  <1>10. ASSUME UNCHANGED <<exec, root, status, handlers, good, client, crossed, heard, reply, seen>>,
                late \subseteq late'
         PROVE  WholeReport(j)'
    BY <1>1, <1>10, WholeStays DEF Claimed
  <1>11. \A i \in Instances :
           Unregister(i) \/ WatchdogEnds(i) \/ HostExits(i)
             => /\ UNCHANGED <<exec, root, status, handlers, good, client, crossed, heard, reply,
                               seen>>
                /\ late \subseteq late'
    BY DEF Unregister, WatchdogEnds, HostExits
  <1>12. (\E c \in Clients : StopRequest(c)) \/ UNCHANGED vars
           => /\ UNCHANGED <<exec, root, status, handlers, good, client, crossed, heard, reply,
                             seen>>
              /\ late \subseteq late'
    BY DEF StopRequest, vars
  <1>. QED
    BY <1>2, <1>3, <1>4, <1>5, <1>6, <1>7, <1>8, <1>9, <1>10, <1>11, <1>12, StepCases

\* The first answer appended is the only one.
LEMMA FirstAnswer ==
  ASSUME TypeOK, NEW i \in Instances, NEW e \in Instances \cup {None},
         NEW r \in Instances \cup {None}, Answer(i, e, r), answers[i] = <<>>
  PROVE  /\ Len(answers'[i]) = 1
         /\ Head(answers'[i]) = [exec |-> e, root |-> r, heard |-> i \in heard]
         /\ \A j \in Instances \ {i} : answers'[j] = answers[j]
  <1> DEFINE a == [exec |-> e, root |-> r, heard |-> i \in heard]
  <1>1. answers'[i] = Append(<<>>, a) /\ \A j \in Instances \ {i} : answers'[j] = answers[j]
    BY AnswerTyped
  <1>. HIDE DEF a
  <1>2. <<>> \in Seq({a}) /\ Len(<<>>) = 0
    BY EmptySeq
  <1>3. Append(<<>>, a) \in Seq({a}) /\ Len(Append(<<>>, a)) = 1 /\ Append(<<>>, a)[1] = a
    BY <1>2, AppendRecord
  <1>4. Append(<<>>, a) # <<>>
    BY <1>2, <1>3
  <1>5. Head(Append(<<>>, a)) = a
    BY <1>3, <1>4, TailRecord
  <1>. QED
    BY <1>1, <1>3, <1>5 DEF a

\* The two strings, as they were read, are a whole report, or nothing.
LEMMA AnswerIsOwnStep == HostInv /\ CompilerAssumption /\ [Next]_vars => AnswerIsOwn'
  <1>. SUFFICES ASSUME HostInv, CompilerAssumption, [Next]_vars
                PROVE  AnswerIsOwn'
    OBVIOUS
  <1>. USE DEF Goto, strings, threads, reading, server, history
  <1>0. /\ TypeOK /\ Data /\ Lists /\ Untouched /\ HostOver /\ NotAnswered
        /\ WholeReports /\ AnswerIsOwn
    BY TypeParts DEF HostInv, Links
  <1>1. ASSUME UNCHANGED <<answers, good, client>>, late \subseteq late', crossed \subseteq crossed'
        PROVE  AnswerIsOwn'
    BY <1>0, <1>1 DEF AnswerIsOwn
  <1>2. ASSUME NEW i \in Instances, NEW c \in Clients, PerformCompilation(i, c)
        PROVE  AnswerIsOwn'
    <2>1. answers[i] = <<>>
      BY <1>0, <1>2, BeginsUnlisted DEF Untouched
    <2>2. /\ crossed \subseteq crossed' /\ UNCHANGED <<answers, good, late>>
          /\ \A j \in Instances \ {i} : client'[j] = client[j]
      BY <1>0, <1>2 DEF PerformCompilation, Data
    <2>. QED
      BY <1>0, <2>1, <2>2 DEF AnswerIsOwn
  <1>3. ASSUME NEW i \in Instances, NEW c \in Clients, LaunchFails(i, c)
        PROVE  AnswerIsOwn'
    <2>1. answers[i] = <<>> /\ i \notin heard /\ exec[i] = None /\ root[i] = None
      BY <1>0, <1>3, BeginsUnlisted DEF Untouched, NotAnswered
    <2>2. /\ UNCHANGED <<good, late, crossed>>
          /\ \A j \in Instances \ {i} : client'[j] = client[j]
      BY <1>0, <1>3 DEF LaunchFails, Data
    <2>3. /\ Len(answers'[i]) = 1 /\ \A j \in Instances \ {i} : answers'[j] = answers[j]
          /\ Head(answers'[i]) = [exec |-> None, root |-> None, heard |-> i \in heard]
      BY <1>0, <1>3, <2>1, StringsTyped, FirstAnswer DEF LaunchFails
    <2>4. (i \in heard) = FALSE
      BY <2>1
    <2>5. Head(answers'[i]) = [exec |-> None, root |-> None, heard |-> FALSE]
      BY <2>3, <2>4
    <2>. QED
      BY <1>0, <2>2, <2>3, <2>5 DEF AnswerIsOwn
  <1>4. ASSUME NEW i \in Instances, ReadExec(i)
        PROVE  AnswerIsOwn'
    <2>1. UNCHANGED <<good, client, crossed, late>> /\ reply[i] = "exec"
      BY <1>4 DEF ReadExec
    <2>2. answers[i] = <<>>
      BY <1>0, <2>1 DEF NotAnswered
    <2>. DEFINE a == [exec |-> exec[i], root |-> seen[i], heard |-> i \in heard]
    <2>3. /\ Len(answers'[i]) = 1 /\ \A j \in Instances \ {i} : answers'[j] = answers[j]
          /\ Head(answers'[i]) = a
      BY <1>0, <1>4, <2>2, StringsTyped, FirstAnswer DEF ReadExec
    <2>4. ASSUME i \notin late, client[i] \notin crossed
          PROVE  a \in {[exec |-> i, root |-> IF i \in good THEN i ELSE None, heard |-> a.heard],
                        [exec |-> None, root |-> None, heard |-> FALSE]}
      <3>1. seen[i] = root[i] /\ (Whole(i) \/ Nothing(i)) /\ (i \in heard => Whole(i))
        BY <1>0, <2>1, <2>4 DEF WholeReports
      <3>2. CASE Whole(i)
        BY <3>1, <3>2 DEF Whole, Root
      <3>3. CASE Nothing(i) /\ i \notin heard
        <4>1. (i \in heard) = FALSE
          BY <3>3
        <4>. QED
          BY <3>1, <3>3, <4>1 DEF Nothing
      <3>. QED
        BY <3>1, <3>2, <3>3
    <2>. HIDE DEF a
    <2>. QED
      BY <1>0, <2>1, <2>3, <2>4 DEF AnswerIsOwn
  <1>5. ASSUME NEW i \in Instances, NEW success \in BOOLEAN, HostReports(i, success)
        PROVE  AnswerIsOwn'
    <2>1. /\ UNCHANGED <<answers, client, late, crossed>> /\ host[i] = "run"
          /\ \A j \in Instances \ {i} : j \in good' <=> j \in good
      BY <1>5 DEF HostReports
    <2>2. answers[i] = <<>>
      <3>1. work[i] # "none" /\ work[i] \notin {"unregister", "end", "last", "gone"}
        BY <1>0, <2>1 DEF Untouched, HostOver
      <3>. QED
        BY <1>0, <3>1 DEF NotAnswered
    <2>. QED
      BY <1>0, <2>1, <2>2 DEF AnswerIsOwn
  <1>6. \A i \in Instances :
          /\ Moves(i) \/ Unregister(i) \/ End(i) \/ WatchdogEnds(i) \/ HostExits(i)
               => /\ UNCHANGED <<answers, good, client>>
                  /\ late \subseteq late' /\ crossed \subseteq crossed'
          /\ Respond(i) \/ TerminateCompiler(i) \/ Exit(i) \/ ReadRoot(i)
               => /\ UNCHANGED <<answers, good, client>>
                  /\ late \subseteq late' /\ crossed \subseteq crossed'
    BY DEF Moves, ExtractFails, Launch, PollEnds, Decide, HostWait, GraceEnds, Release, Unregister, End,
           WatchdogEnds, HostExits, Respond, TerminateCompiler, Exit, ReadRoot
  <1>7. /\ \A h \in handlers :
             HandleMessage(h) => /\ UNCHANGED <<answers, good, client>>
                                 /\ late \subseteq late' /\ crossed \subseteq crossed'
        /\ (\E c \in Clients : StopRequest(c)) \/ TerminateAll \/ UNCHANGED vars
             => /\ UNCHANGED <<answers, good, client>>
                /\ late \subseteq late' /\ crossed \subseteq crossed'
    BY DEF HandleMessage, StopRequest, TerminateAll, vars
  <1>. QED
    BY <1>1, <1>2, <1>3, <1>4, <1>5, <1>6, <1>7, StepCases

-----------------------------------------------------------------------------

\* The invariant holds throughout.
LEMMA HostInvariant == Spec => []HostInv
  <1>1. Init => HostInv
    <2>. SUFFICES ASSUME Init PROVE HostInv
      OBVIOUS
    <2>1. /\ <<>> \in Seq(Instances) /\ <<>> \in Seq(Answers) /\ DOMAIN <<>> = {}
      BY EmptySeq
    <2>2. Lists
      <3>1. compilers = <<>> /\ work \in [Instances -> Labels] /\ \A i \in Instances : work[i] = "none"
        BY DEF Init, Labels
      <3>2. IsInjective(compilers) /\ \A i \in Instances : ~Listed(i)
        BY <2>1, <3>1 DEF IsInjective, Listed, ToSet
      <3>. QED
        BY <2>1, <3>1, <3>2 DEF Lists, OnList
    <2>3. Data
      BY CompilerAssumption DEF Init, Data, CompilerAssumption
    <2>4. answers \in [Instances -> Seq(Answers)] /\ \A i \in Instances : answers[i] = <<>>
      BY <2>1 DEF Init
    <2>5. TypeOK
      BY <2>2, <2>3, <2>4, TypeParts
    <2>6. Links
      BY <2>4, CompilerAssumption DEF Init, Links, Untouched, ReportsAtEnd, HostOver, LetGo, NotAnswered,
         Writing, CompilerAssumption, Instances
    <2>7. \A i \in Instances : ~Open(i)
      BY <2>2 DEF Init, Open, Lists, OnList
    <2>8. Reports
      BY <2>7 DEF Init, Reports, OpenAlone, OwnReport, WaitEnds
    <2>9. WholeReports /\ AnswerIsOwn
      BY <2>4 DEF Init, WholeReports, Nothing, AnswerIsOwn
    <2>. QED
      BY <2>5, <2>6, <2>8, <2>9 DEF HostInv
  <1>2. HostInv /\ [Next]_vars => HostInv'
    <2>. SUFFICES ASSUME HostInv, [Next]_vars PROVE HostInv'
      OBVIOUS
    <2>1. TypeOK'
      BY TypeStep, CompilerAssumption DEF HostInv, Links
    <2>2. Links'
      BY UntouchedStep, ReportsAtEndStep, HostOverStep, LetGoStep, NotAnsweredStep,
         CompilerAssumption DEF Links
    <2>3. Reports'
      BY OpenAloneStep, OwnReportStep, WaitEndsStep, CompilerAssumption DEF Reports
    <2>4. WholeReports' /\ AnswerIsOwn'
      BY WholeReportsStep, AnswerIsOwnStep, CompilerAssumption
    <2>. QED
      BY <2>1, <2>2, <2>3, <2>4 DEF HostInv
  <1>. QED
    BY <1>1, <1>2, PTL DEF Spec

\* Every variable keeps its type, and the list holds the instances whose work thread has
\* not unregistered them.
THEOREM TypeCorrect == Spec => []TypeOK
  BY HostInvariant, PTL DEF HostInv

\* A client whose requests do not cross is told once what its own process has reported, as
\* a whole, or nothing.
THEOREM OwnAnswer == Spec => []AnswerIsOwn
  BY HostInvariant, PTL DEF HostInv

\* A work thread that waits for its watchdog thread has left it a status that ends it, so it
\* does not wait for ever, unless a thread of the server still held the instance when it was
\* taken off the list (`late`).
THEOREM WatchdogEndsToo == Spec => []WatchdogWillEnd
  <1>1. HostInv => WatchdogWillEnd
    BY DEF HostInv, Links, LetGo, WatchdogWillEnd
  <1>. QED
    BY <1>1, HostInvariant, PTL

\* The work thread of a terminated instance does not wait for a process that goes on.
THEOREM StopsHold == Spec => []StopIsObeyed
  <1>1. HostInv => StopIsObeyed
    BY DEF HostInv, Reports, WaitEnds, StopIsObeyed
  <1>. QED
    BY <1>1, HostInvariant, PTL

=============================================================================
