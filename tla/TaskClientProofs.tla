--------------------------- MODULE TaskClientProofs ---------------------------
(***************************************************************************)
(* Proofs about the task client, for any number of nodes, notices, reports *)
(* and results.                                                            *)
(***************************************************************************)
EXTENDS TaskClient, SequenceLemmas

(* The inductive invariant, beside TypeOK and the properties *)

\* Until the nodes are listed nothing has been asked, submitted or sent.
NotStarted ==
  start \in {"idle", "listing", "unlisted"} =>
    /\ asked = 0 /\ answered = {} /\ watchdog = "none"
    /\ queue = <<>> /\ tc = "free" /\ mains = <<>> /\ result = "none"

\* Main was sent before there was a result.
ResultAfterMain ==
  /\ result # "none" => mains # <<>>
  /\ \A i \in DOMAIN queue : queue[i].kind = "output" => mains # <<>>

\* The closure that sends has found every node known; what it has not left to send the
\* table to has been sent it.
SendingKnown ==
  tc = "queue" => /\ StartingHosts = {}
                  /\ unsent \subseteq StartedHosts
                  /\ StartedHosts \ unsent \subseteq ToSet(tables)

Choice ==
  /\ NotStarted /\ SendingKnown /\ ResultAfterMain
  /\ MainNeedsAllKnown /\ OnePrimary /\ TableBeforeMain /\ ResultStands

-----------------------------------------------------------------------------
(* Types *)

\* What is sent to one node more, and what is submitted, stays a list.
LEMMA ListsTyped ==
  ASSUME TypeOK
  PROVE  /\ \A n \in Nodes : Append(tables, n) \in Seq(Nodes) /\ Append(mains, n) \in Seq(Nodes)
         /\ \A c \in Closures : Append(queue, c) \in Seq(Closures)
         /\ queue # <<>> => Tail(queue) \in Seq(Closures) /\ Head(queue) \in Closures
  <1>1. tables \in Seq(Nodes) /\ mains \in Seq(Nodes) /\ queue \in Seq(Closures)
    BY DEF TypeOK
  <1>. QED
    BY <1>1, AppendRecord, TailRecord

\* The closures that the two threads submit.
LEMMA ClosuresTyped ==
  /\ \A n \in Nodes, a \in {"starting", "started", "error"} :
       [kind |-> "answer", node |-> n, answer |-> a] \in Closures
  /\ [kind |-> "progress"] \in Closures /\ [kind |-> "output"] \in Closures
  /\ \A c \in Closures : c.kind = "answer" =>
       c.node \in Nodes /\ c.answer \in {"starting", "started", "error"}
  BY DEF Closures

\* The table after an answer has the hosts it had, all of them with a status.
LEMMA TableTyped ==
  ASSUME TypeOK, NEW c \in Closures, c.kind = "answer"
  PROVE  LET h == RecordStatus(c)
         IN  /\ \/ h = [n \in Nodes |-> "none"]
                \/ h \in [Nodes -> {"starting", "started", "error", "timedout"}]
             /\ StartingHosts = {} => h = hosts
  <1>1. c.node \in Nodes /\ c.answer \in {"starting", "started", "error"}
    BY ClosuresTyped
  <1>2. CASE hosts[c.node] = "starting"
    <2>1. hosts \in [Nodes -> {"starting", "started", "error", "timedout"}]
      BY <1>1, <1>2 DEF TypeOK
    <2>2. RecordStatus(c) = [hosts EXCEPT ![c.node] = c.answer]
      BY <1>2 DEF RecordStatus
    <2>3. c.node \in StartingHosts
      BY <1>1, <1>2 DEF StartingHosts
    <2>. QED
      BY <1>1, <1>2, <2>1, <2>2, <2>3
  <1>3. CASE hosts[c.node] # "starting"
    <2>1. RecordStatus(c) = hosts
      BY <1>3 DEF RecordStatus
    <2>. QED
      BY <2>1 DEF TypeOK
  <1>. QED
    BY <1>2, <1>3

\* Every step keeps the types.
LEMMA TypeStep == TypeOK /\ ClientAssumption /\ [Next]_vars => TypeOK'
  <1>. SUFFICES ASSUME TypeOK, ClientAssumption, [Next]_vars
                PROVE  TypeOK'
    OBVIOUS
  <1>. USE DEF calls, net, sent, outcome, Finish, Terminal
  <1>1. CASE Caller
    <2>1. CASE Start
      BY <2>1 DEF Start, TypeOK
    <2>2. CASE ListNodes
      BY <2>2 DEF ListNodes, TypeOK
    <2>7. CASE NoNodes
      BY <2>7 DEF NoNodes, TypeOK
    <2>8. CASE ListFails
      BY <2>8 DEF ListFails, TypeOK
    <2>3. CASE Ask
      <3>1. /\ asked' \in 0..N
            /\ start' \in {"idle", "listing", "asking", "started", "unlisted", "threw"}
            /\ watchdog' # "none" => asked' = N
        BY <2>3 DEF Ask, TypeOK, ClientAssumption
      <3>. QED
        BY <2>3, <3>1 DEF Ask, TypeOK
    <2>4. CASE StartWatchdog
      BY <2>4 DEF StartWatchdog, AllAsked, TypeOK
    <2>5. CASE Wait
      BY <2>5 DEF Wait, TypeOK
    <2>6. CASE Disconnect
      BY <2>6 DEF Disconnect, TypeOK
    <2>. QED
      BY <1>1, <2>1, <2>2, <2>3, <2>4, <2>5, <2>6, <2>7, <2>8 DEF Caller
  <1>2. CASE Dispatch
    <2>1. ASSUME NEW n \in Nodes, NEW a \in {"started", "error"}, ReceiveAnswer(n, a)
          PROVE  TypeOK'
      <3>1. queue' \in Seq(Closures)
        BY <2>1, ListsTyped, ClosuresTyped DEF ReceiveAnswer, Submit
      <3>. QED
        BY <2>1, <3>1 DEF ReceiveAnswer, TypeOK
    <2>2. ASSUME NEW n \in Nodes, ReceiveNotice(n)
          PROVE  TypeOK'
      <3>1. queue' \in Seq(Closures)
        BY <2>2, ListsTyped, ClosuresTyped DEF ReceiveNotice, Submit
      <3>2. notices' \in 0..MaxNotices
        BY <2>2 DEF ReceiveNotice, TypeOK, ClientAssumption
      <3>. QED
        BY <2>2, <3>1, <3>2 DEF ReceiveNotice, TypeOK
    <2>3. CASE ReceiveProgress
      <3>1. queue' \in Seq(Closures)
        BY <2>3, ListsTyped, ClosuresTyped DEF ReceiveProgress, Submit
      <3>2. reports' \in 0..MaxProgress
        BY <2>3 DEF ReceiveProgress, TypeOK, ClientAssumption
      <3>. QED
        BY <2>3, <3>1, <3>2 DEF ReceiveProgress, TypeOK
    <2>4. CASE ReceiveOutput
      <3>1. queue' \in Seq(Closures)
        BY <2>4, ListsTyped, ClosuresTyped DEF ReceiveOutput, Submit
      <3>2. outputs' \in 0..MaxOutputs
        BY <2>4 DEF ReceiveOutput, TypeOK, ClientAssumption
      <3>. QED
        BY <2>4, <3>1, <3>2 DEF ReceiveOutput, TypeOK
    <2>5. CASE LossNoticed
      BY <2>5 DEF LossNoticed, TypeOK
    <2>6. CASE ConnectionLost
      <3>1. status' \in {"idle", "init", "working"} \cup Terminal /\ finish' \in Nat
        BY <2>6 DEF ConnectionLost, TypeOK
      <3>2. finished' \in BOOLEAN
        BY <2>6 DEF ConnectionLost, TypeOK
      <3>. QED
        BY <2>6, <3>1, <3>2 DEF ConnectionLost, TypeOK
    <2>. QED
      BY <1>2, <2>1, <2>2, <2>3, <2>4, <2>5, <2>6 DEF Dispatch
  <1>3. CASE TaskQueue
    <2>1. CASE RunAnswer
      <3>1. Head(queue) \in Closures /\ Tail(queue) \in Seq(Closures)
        BY <2>1, ListsTyped DEF RunAnswer
      <3>2. \/ hosts' = [n \in Nodes |-> "none"]
            \/ hosts' \in [Nodes -> {"starting", "started", "error", "timedout"}]
        BY <2>1, <3>1, TableTyped DEF RunAnswer
      <3>3. queue' \in Seq(Closures)
        BY <2>1, <3>1 DEF RunAnswer
      <3>4. /\ status' \in {"idle", "init", "working"} \cup Terminal
            /\ tc' \in {"free", "queue"} /\ unsent' \subseteq Nodes
            /\ result' \in {"none", "given", "relaunched"}
            /\ finish' \in Nat
        BY <2>1 DEF RunAnswer, TypeOK
      <3>5. finished' \in BOOLEAN
        BY <2>1 DEF RunAnswer, TypeOK
      <3>. QED
        BY <2>1, <3>2, <3>3, <3>4, <3>5 DEF RunAnswer, TypeOK
    <2>2. ASSUME NEW n \in Nodes, SendTable(n)
          PROVE  TypeOK'
      <3>1. tables' \in Seq(Nodes) /\ unsent' \subseteq Nodes
        BY <2>2, ListsTyped DEF SendTable, TypeOK
      <3>. QED
        BY <2>2, <3>1 DEF SendTable, TypeOK
    <2>3. ASSUME NEW n \in Nodes, SendMain(n)
          PROVE  TypeOK'
      <3>1. mains' \in Seq(Nodes)
        BY <2>3, ListsTyped DEF SendMain
      <3>. QED
        BY <2>3, <3>1 DEF SendMain, TypeOK
    <2>4. CASE SendThrows
      BY <2>4 DEF SendThrows, TypeOK
    <2>5. CASE RunProgress
      <3>1. queue' \in Seq(Closures)
        BY <2>5, ListsTyped DEF RunProgress
      <3>. QED
        BY <2>5, <3>1 DEF RunProgress, TypeOK
    <2>6. CASE RunOutput
      <3>1. queue' \in Seq(Closures)
        BY <2>6, ListsTyped DEF RunOutput
      <3>. QED
        BY <2>6, <3>1 DEF RunOutput, TypeOK
    <2>. QED
      BY <1>3, <2>1, <2>2, <2>3, <2>4, <2>5, <2>6 DEF TaskQueue
  <1>4. CASE Watchdog
    <2>. PICK T \in SUBSET Nodes, silent \in BOOLEAN : WatchdogPass(T, silent)
      BY <1>4 DEF Watchdog
    <2>1. \/ hosts' = [n \in Nodes |-> "none"]
          \/ hosts' \in [Nodes -> {"starting", "started", "error", "timedout"}]
      BY DEF WatchdogPass, StartingHosts, TypeOK
    <2>2. /\ status' \in {"idle", "init", "working"} \cup Terminal
          /\ finish' \in Nat /\ watchdog' \in {"run", "ended"} /\ watchdog # "none"
      BY DEF WatchdogPass, TypeOK
    <2>3. finished' \in BOOLEAN
      BY DEF WatchdogPass, TypeOK
    <2>. QED
      BY <2>1, <2>2, <2>3 DEF WatchdogPass, TypeOK
  <1>5. CASE UNCHANGED vars
    BY <1>5 DEF vars, TypeOK
  <1>. QED
    BY <1>1, <1>2, <1>3, <1>4, <1>5 DEF Next

-----------------------------------------------------------------------------
(* The choice of the primary *)

\* What one element more does to the hosts that were sent the table, and Main.
LEMMA SentTo ==
  ASSUME NEW s \in Seq(Nodes), NEW n \in Nodes
  PROVE  /\ ToSet(Append(s, n)) = ToSet(s) \cup {n}
         /\ Append(s, n) # <<>>
         /\ \A i \in DOMAIN Append(s, n) : Append(s, n)[i] = n \/ (i \in DOMAIN s /\ Append(s, n)[i] = s[i])
         /\ 1 \in DOMAIN Append(s, n)
         /\ \A i \in DOMAIN s : 1 \in DOMAIN s /\ s # <<>>
  <1>1. /\ Len(s) \in Nat /\ DOMAIN s = 1..Len(s)
        /\ DOMAIN Append(s, n) = 1..Len(s) + 1 /\ Len(Append(s, n)) = Len(s) + 1
        /\ \A i \in 1..Len(s) + 1 : Append(s, n)[i] = IF i <= Len(s) THEN s[i] ELSE n
    BY AppendRecord, LenProperties
  <1>2. s = <<>> => Len(s) = 0
    BY EmptySeq
  <1>3. Append(s, n) # <<>>
    BY <1>1, EmptySeq
  <1>4. ToSet(Append(s, n)) = ToSet(s) \cup {n}
    BY <1>1 DEF ToSet
  <1>. QED
    BY <1>1, <1>2, <1>3, <1>4

\* What is submitted, a closure that is run, and a launch keep results behind Main.
LEMMA OutputsKept ==
  ASSUME TypeOK, ResultAfterMain, mains # <<>> => mains' # <<>>
  PROVE  /\ queue' = queue /\ result' = result => ResultAfterMain'
         /\ \A c \in Closures :
              /\ queue' = Append(queue, c) /\ result' = result
              /\ c.kind = "output" => mains # <<>>
              => ResultAfterMain'
         /\ /\ queue # <<>> /\ queue' = Tail(queue)
            /\ result' # "none" => result # "none" \/ Head(queue).kind = "output"
            => ResultAfterMain'
  <1>1. queue \in Seq(Closures) /\ Len(queue) \in Nat /\ DOMAIN queue = 1..Len(queue)
    BY LenProperties DEF TypeOK
  <1>2. queue' = queue /\ result' = result => ResultAfterMain'
    BY DEF ResultAfterMain
  <1>3. ASSUME NEW c \in Closures, queue' = Append(queue, c), result' = result,
               c.kind = "output" => mains # <<>>
        PROVE  ResultAfterMain'
    <2>1. /\ DOMAIN queue' = 1..Len(queue) + 1
          /\ \A i \in 1..Len(queue) + 1 : queue'[i] = IF i <= Len(queue) THEN queue[i] ELSE c
      BY <1>1, <1>3, AppendRecord, LenProperties
    <2>2. \A i \in DOMAIN queue' : queue'[i].kind = "output" => mains # <<>>
      BY <1>1, <1>3, <2>1 DEF ResultAfterMain
    <2>. QED
      BY <1>3, <2>2 DEF ResultAfterMain
  <1>4. ASSUME queue # <<>>, queue' = Tail(queue),
               result' # "none" => result # "none" \/ Head(queue).kind = "output"
        PROVE  ResultAfterMain'
    <2>1. /\ DOMAIN queue' = 1..Len(queue) - 1 /\ Len(queue) > 0 /\ Head(queue) = queue[1]
          /\ \A i \in 1..Len(queue) - 1 : queue'[i] = queue[i + 1]
      BY <1>1, <1>4, TailRecord, LenProperties
    <2>2. \A i \in DOMAIN queue' : queue'[i].kind = "output" => mains # <<>>
      BY <1>1, <2>1 DEF ResultAfterMain
    <2>3. result' # "none" => mains # <<>>
      BY <1>1, <1>4, <2>1 DEF ResultAfterMain
    <2>. QED
      BY <2>2, <2>3 DEF ResultAfterMain
  <1>. QED
    BY <1>2, <1>3, <1>4

\* Every step keeps results behind Main.
LEMMA ResultStep == TypeOK /\ ResultAfterMain /\ [Next]_vars => ResultAfterMain'
  <1>. SUFFICES ASSUME TypeOK, ResultAfterMain, [Next]_vars
                PROVE  ResultAfterMain'
    OBVIOUS
  <1>. USE DEF sent, outcome
  <1>1. CASE Caller \/ UNCHANGED vars
    <2>1. UNCHANGED <<queue, result, mains>>
      BY <1>1 DEF Caller, Start, ListNodes, NoNodes, ListFails, Ask, StartWatchdog, Wait,
                  Disconnect, vars
    <2>. QED
      BY <2>1, OutputsKept
  <1>2. CASE Dispatch
    <2>1. UNCHANGED <<result, mains>>
      BY <1>2 DEF Dispatch, ReceiveAnswer, ReceiveNotice, ReceiveProgress, ReceiveOutput,
                  LossNoticed, ConnectionLost
    <2>2. \/ queue' = queue
          \/ \E c \in Closures : queue' = Append(queue, c) /\ (c.kind = "output" => mains # <<>>)
      <3>1. ASSUME NEW n \in Nodes, NEW a \in {"starting", "started", "error"}
            PROVE  [kind |-> "answer", node |-> n, answer |-> a].kind # "output"
        OBVIOUS
      <3>2. [kind |-> "progress"].kind # "output"
        OBVIOUS
      <3>. QED
        BY <1>2, <3>1, <3>2, ClosuresTyped
           DEF Dispatch, ReceiveAnswer, ReceiveNotice, ReceiveProgress, ReceiveOutput,
               LossNoticed, ConnectionLost, Submit
    <2>. QED
      BY <2>1, <2>2, OutputsKept
  <1>3. CASE RunAnswer \/ RunProgress \/ RunOutput
    <2>1. /\ queue # <<>> /\ queue' = Tail(queue) /\ UNCHANGED mains
          /\ result' # "none" => result # "none" \/ Head(queue).kind = "output"
      BY <1>3 DEF RunAnswer, RunProgress, RunOutput
    <2>. QED
      BY <2>1, OutputsKept
  <1>4. ASSUME NEW n \in Nodes, SendTable(n) \/ SendMain(n)
        PROVE  ResultAfterMain'
    <2>1. UNCHANGED <<queue, result>> /\ (UNCHANGED mains \/ mains' = Append(mains, n))
      BY <1>4 DEF SendTable, SendMain
    <2>2. Append(mains, n) # <<>>
      BY SentTo DEF TypeOK
    <2>. QED
      BY <2>1, <2>2, OutputsKept
  <1>5. CASE Watchdog
    <2>1. UNCHANGED <<queue, result, mains>>
      BY <1>5 DEF Watchdog, WatchdogPass
    <2>. QED
      BY <2>1, OutputsKept
  <1>6. CASE SendThrows
    <2>1. UNCHANGED <<queue, result, mains>>
      BY <1>6 DEF SendThrows
    <2>. QED
      BY <2>1, OutputsKept
  <1>. QED
    BY <1>1, <1>2, <1>3, <1>4, <1>5, <1>6 DEF Next, TaskQueue

\* A step that leaves the hosts, the sending and what was sent alone keeps the choice.
LEMMA ChoiceKept ==
  ASSUME Choice, UNCHANGED <<hosts, tc, unsent, sent>>, NotStarted', ResultStands',
         ResultAfterMain'
  PROVE  Choice'
  BY DEF Choice, sent, SendingKnown, MainNeedsAllKnown, OnePrimary, TableBeforeMain,
         StartingHosts, StartedHosts

\* Every step keeps the choice.
LEMMA ChoiceStep == TypeOK /\ Choice /\ ClientAssumption /\ [Next]_vars => Choice'
  <1>. SUFFICES ASSUME TypeOK, Choice, ClientAssumption, [Next]_vars
                PROVE  Choice'
    OBVIOUS
  <1>. USE DEF calls, net, sent, outcome, Finish, Terminal
  <1>0. NotStarted /\ ResultStands /\ ResultAfterMain /\ ResultAfterMain'
    BY ResultStep DEF Choice
  <1>1. CASE Caller
    <2>1. CASE ListNodes
      <3>1. tc = "free" /\ mains = <<>> /\ result = "none" /\ UNCHANGED <<tc, mains, result>>
        BY <1>0, <2>1 DEF ListNodes, NotStarted
      <3>2. NotStarted' /\ SendingKnown' /\ MainNeedsAllKnown' /\ TableBeforeMain'
            /\ ResultStands'
        BY <1>0, <2>1, <3>1 DEF ListNodes, NotStarted, SendingKnown, MainNeedsAllKnown,
                    TableBeforeMain, ResultStands
      <3>3. OnePrimary'
        BY <3>1, EmptySeq DEF OnePrimary
      <3>. QED
        BY <1>0, <3>2, <3>3 DEF Choice
    <2>2. CASE Start \/ NoNodes \/ ListFails \/ Ask \/ StartWatchdog \/ Wait \/ Disconnect
      <3>1. NotStarted' /\ ResultStands' /\ UNCHANGED <<hosts, tc, unsent, sent>>
        BY <1>0, <2>2 DEF Start, NoNodes, ListFails, Ask, StartWatchdog, Wait, Disconnect,
                          NotStarted, ResultStands
      <3>. QED
        BY <1>0, <3>1, ChoiceKept
    <2>. QED
      BY <1>1, <2>1, <2>2 DEF Caller
  <1>2. CASE Dispatch
    <2>1. ASSUME NEW n \in Nodes, n <= asked
          PROVE  start \notin {"idle", "listing", "unlisted"}
      BY <1>0, <2>1 DEF NotStarted, Nodes, ClientAssumption
    <2>2. NotStarted'
      BY <1>0, <1>2, <2>1 DEF Dispatch, ReceiveAnswer, ReceiveNotice, ReceiveProgress,
         ReceiveOutput, Receiving, LossNoticed, ConnectionLost, Submit, NotStarted
    <2>3. ResultStands'
      BY <1>0, <1>2 DEF Dispatch, ReceiveAnswer, ReceiveNotice, ReceiveProgress,
         ReceiveOutput, LossNoticed, ConnectionLost, ResultStands
    <2>4. UNCHANGED <<hosts, tc, unsent, sent>>
      BY <1>2 DEF Dispatch, ReceiveAnswer, ReceiveNotice, ReceiveProgress,
         ReceiveOutput, LossNoticed, ConnectionLost
    <2>. QED
      BY <2>2, <2>3, <2>4, <1>0, ChoiceKept
  <1>3. CASE RunAnswer
    <2>1. Head(queue) \in Closures /\ tc = "free" /\ start \notin {"idle", "listing", "unlisted"}
      BY <1>0, <1>3, ListsTyped DEF RunAnswer, NotStarted
    <2>2. StartingHosts = {} => hosts' = hosts
      BY <1>3, <2>1, TableTyped DEF RunAnswer
    <2>3. mains # <<>> => hosts' = hosts
      BY <2>2 DEF Choice, MainNeedsAllKnown
    <2>4. NotStarted' /\ ResultStands'
      <3>1. CASE result = "given"
        <4>1. mains # <<>> /\ mains \in Seq(Nodes)
          BY <1>0, <3>1 DEF ResultAfterMain, TypeOK
        <4>2. mains[1] \in Nodes /\ hosts[mains[1]] = "started"
          BY <4>1, EmptySeq, ElementOfSeq, LenProperties DEF Choice, MainNeedsAllKnown
        <4>3. {m \in Nodes : RecordStatus(Head(queue))[m] = "started"} # {}
          BY <1>3, <2>3, <4>1, <4>2 DEF RunAnswer
        <4>. QED
          BY <1>0, <1>3, <2>1, <4>3 DEF RunAnswer, NotStarted, ResultStands
      <3>2. CASE result # "given"
        BY <1>0, <1>3, <2>1, <3>2 DEF RunAnswer, NotStarted, ResultStands
      <3>. QED
        BY <3>1, <3>2
    <2>5. SendingKnown'
      BY <1>3, <2>1 DEF RunAnswer, SendingKnown, AllKnown, StartingHosts, StartedHosts
    <2>6. MainNeedsAllKnown' /\ OnePrimary' /\ TableBeforeMain'
      <3>1. CASE mains # <<>>
        BY <1>3, <2>3, <3>1 DEF RunAnswer, Choice, MainNeedsAllKnown, OnePrimary, TableBeforeMain,
           StartingHosts, StartedHosts
      <3>2. CASE mains = <<>>
        BY <1>3, <3>2, EmptySeq DEF RunAnswer, MainNeedsAllKnown, OnePrimary, TableBeforeMain
      <3>. QED
        BY <3>1, <3>2
    <2>. QED
      BY <1>0, <2>4, <2>5, <2>6 DEF Choice
  <1>4. ASSUME NEW n \in Nodes, SendTable(n)
        PROVE  Choice'
    <2>1. tc = "queue" /\ SendingKnown
      BY <1>4 DEF SendTable, Choice
    <2>2. ToSet(tables') = ToSet(tables) \cup {n}
      BY <1>4, SentTo DEF SendTable, TypeOK
    <2>3. SendingKnown'
      BY <1>4, <2>1, <2>2 DEF SendTable, SendingKnown, StartingHosts, StartedHosts
    <2>4. TableBeforeMain'
      BY <1>4, <2>2 DEF SendTable, Choice, TableBeforeMain, StartedHosts
    <2>5. NotStarted' /\ ResultStands' /\ MainNeedsAllKnown' /\ OnePrimary'
      BY <1>0, <1>4 DEF SendTable, Choice, NotStarted, ResultStands, MainNeedsAllKnown,
                        OnePrimary, StartingHosts, StartedHosts
    <2>. QED
      BY <1>0, <2>3, <2>4, <2>5 DEF Choice
  <1>5. ASSUME NEW n \in Nodes, SendMain(n)
        PROVE  Choice'
    <2>1. /\ tc = "queue" /\ SendingKnown /\ unsent = {}
          /\ n \in StartedHosts /\ \A m \in StartedHosts : n <= m
      BY <1>5 DEF SendMain, TableSent, Least, Choice
    <2>2. UNCHANGED <<hosts, tables>> /\ mains' = Append(mains, n) /\ tc' = "free"
      BY <1>5 DEF SendMain
    <2>3. /\ \A i \in DOMAIN mains' : mains'[i] = n \/ (i \in DOMAIN mains /\ mains'[i] = mains[i])
          /\ 1 \in DOMAIN mains' /\ \A i \in DOMAIN mains : mains # <<>> /\ 1 \in DOMAIN mains
      BY <2>2, SentTo DEF TypeOK
    <2>4. \A i \in DOMAIN mains : mains[i] = n
      <3>. SUFFICES ASSUME NEW i \in DOMAIN mains PROVE mains[i] = n
        OBVIOUS
      <3>1. mains[i] \in Nodes /\ hosts[mains[i]] = "started"
        BY <2>3, ElementOfSeq, LenProperties DEF TypeOK, Choice, MainNeedsAllKnown
      <3>2. mains[i] <= n /\ n <= mains[i]
        BY <2>1, <3>1 DEF Choice, OnePrimary, StartedHosts
      <3>. QED
        BY <3>1, <3>2 DEF Nodes, ClientAssumption
    <2>5. \A i \in DOMAIN mains' : mains'[i] = n
      BY <2>3, <2>4
    <2>6. MainNeedsAllKnown' /\ OnePrimary' /\ TableBeforeMain'
      BY <2>1, <2>2, <2>3, <2>5 DEF MainNeedsAllKnown, OnePrimary, TableBeforeMain, SendingKnown,
                                    StartingHosts, StartedHosts
    <2>7. NotStarted' /\ ResultStands' /\ SendingKnown'
      BY <1>0, <1>5, <2>1 DEF SendMain, NotStarted, ResultStands, SendingKnown
    <2>. QED
      BY <1>0, <2>6, <2>7 DEF Choice
  <1>6. CASE SendThrows
    BY <1>0, <1>6 DEF SendThrows, Choice, NotStarted, ResultStands, SendingKnown,
                MainNeedsAllKnown, OnePrimary, TableBeforeMain, StartingHosts, StartedHosts
  <1>7. CASE RunProgress \/ RunOutput
    <2>1. NotStarted' /\ ResultStands' /\ UNCHANGED <<hosts, tc, unsent, sent>>
      BY <1>0, <1>7 DEF RunProgress, RunOutput, Reporting, NotStarted, ResultStands
    <2>. QED
      BY <1>0, <2>1, ChoiceKept
  <1>8. ASSUME NEW T \in SUBSET Nodes, NEW silent \in BOOLEAN, WatchdogPass(T, silent)
        PROVE  Choice'
    <2>1. T \subseteq StartingHosts /\ tc = "free" /\ tc' = "free" /\ UNCHANGED <<tables, mains>>
      BY <1>8 DEF WatchdogPass
    <2>2. NotStarted' /\ ResultStands' /\ SendingKnown'
      BY <1>0, <1>8, <2>1 DEF WatchdogPass, GiveUp, NotStarted, ResultStands, SendingKnown
    <2>3. CASE mains # <<>>
      <3>1. hosts' = hosts
        BY <1>8, <2>1, <2>3 DEF WatchdogPass, TypeOK, Choice, MainNeedsAllKnown
      <3>. QED
        BY <1>0, <2>1, <2>2, <3>1 DEF Choice, MainNeedsAllKnown, OnePrimary, TableBeforeMain,
                                StartingHosts, StartedHosts
    <2>4. CASE mains = <<>>
      BY <1>0, <2>1, <2>2, <2>4, EmptySeq DEF Choice, MainNeedsAllKnown, OnePrimary, TableBeforeMain
    <2>. QED
      BY <2>3, <2>4
  <1>10. CASE UNCHANGED vars
    <2>1. NotStarted' /\ ResultStands' /\ UNCHANGED <<hosts, tc, unsent, sent>>
      BY <1>0, <1>10 DEF vars, NotStarted, ResultStands
    <2>. QED
      BY <1>0, <2>1, ChoiceKept
  <1>. QED
    BY <1>1, <1>2, <1>3, <1>4, <1>5, <1>6, <1>7, <1>8, <1>10 DEF Next, TaskQueue, Watchdog

\* The invariant holds throughout.
LEMMA ChoiceInvariant == Spec => [](TypeOK /\ Choice)
  <1>1. Init => TypeOK /\ Choice
    <2>. SUFFICES ASSUME Init PROVE TypeOK /\ Choice
      OBVIOUS
    <2>1. <<>> \in Seq(Closures) /\ <<>> \in Seq(Nodes) /\ DOMAIN <<>> = {}
      BY EmptySeq
    <2>2. finished \in BOOLEAN
      BY Zenon DEF Init
    <2>3. TypeOK
      BY <2>1, <2>2, ClientAssumption DEF Init, TypeOK, ClientAssumption
    <2>4. Choice
      BY <2>1 DEF Init, Choice, NotStarted, SendingKnown, MainNeedsAllKnown, OnePrimary,
                  TableBeforeMain, ResultStands, ResultAfterMain
    <2>. QED
      BY <2>3, <2>4
  <1>2. TypeOK /\ Choice /\ [Next]_vars => TypeOK' /\ Choice'
    BY TypeStep, ChoiceStep, ClientAssumption
  <1>. QED
    BY <1>1, <1>2, PTL DEF Spec

\* Every variable keeps its type, and the table has a status for all nodes or for none.
THEOREM TypeCorrect == Spec => []TypeOK
  BY ChoiceInvariant, PTL

\* Main is sent only when every node is known, and to a host that has started.
THEOREM MainComesLast == Spec => []MainNeedsAllKnown
  BY ChoiceInvariant, PTL DEF Choice

\* However often the closure of a late answer or notice launches the computation again, the
\* primary is the same host.
THEOREM SamePrimary == Spec => []OnePrimary
  BY ChoiceInvariant, PTL DEF Choice

\* Whenever Main has been sent, every host of the table has been sent the table.
THEOREM TableComesFirst == Spec => []TableBeforeMain
  BY ChoiceInvariant, PTL DEF Choice

\* A result and its progress stand until a late 0x10411 launches the computation again,
\* whatever was queued before it, and whether or not the connection or the hosts are lost.
THEOREM ResultIsFinal == Spec => []ResultStands
  BY ChoiceInvariant, PTL DEF Choice

=============================================================================
