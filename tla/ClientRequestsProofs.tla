------------------------- MODULE ClientRequestsProofs -------------------------
(***************************************************************************)
(* Proofs about the requests of the client library, for any calls, nodes   *)
(* and clients of the nodes.                                               *)
(***************************************************************************)
EXTENDS ClientRequests, SequenceLemmas

(* The inductive invariant, beside TypeOK and CallbacksBalanced *)

\* A call is given answers of its kind.
KindsMatch == \A c \in Calls : \A a \in result[c] : Kind[a.call] = Kind[c]

\* A call that has not begun, or has returned, waits for nothing.
WaitsOver ==
  \A c \in Calls :
    /\ pc[c] \in {"new", "returned"} => waits[c] = 0
    /\ pc[c] = "new" => asked[c] = {} /\ result[c] = {}

Balance == TypeOK /\ KindsMatch /\ WaitsOver /\ CallbacksBalanced

-----------------------------------------------------------------------------
(* What the steps do to the callbacks of each call *)

\* A call's callbacks are finitely many.
LEMMA OwedFinite ==
  ASSUME TypeOK, NEW c
  PROVE  /\ IsFiniteSet(Owed(c)) /\ Cardinality(Owed(c)) \in Nat
         /\ Owed(c) \subseteq 1..Len(handlers) /\ Len(handlers) \in Nat
  <1>1. handlers \in Seq(Calls) /\ Owed(c) = Places(handlers, {c})
    BY DEF TypeOK, Owed, Places
  <1>. QED
    BY <1>1, PlacesFinite, LenProperties

\* RegisterOneTimeCallback adds one for the call.
LEMMA OwedRegistered ==
  ASSUME TypeOK, NEW c \in Calls, handlers' = Append(handlers, c)
  PROVE  /\ handlers' \in Seq(Calls)
         /\ \A d : Cardinality(Owed(d)') = Cardinality(Owed(d)) + (IF c = d THEN 1 ELSE 0)
  <1>1. handlers \in Seq(Calls)
    BY DEF TypeOK
  <1>2. \A d : Owed(d) = Places(handlers, {d}) /\ Owed(d)' = Places(Append(handlers, c), {d})
    BY DEF Owed, Places
  <1>3. \A d : Cardinality(Places(Append(handlers, c), {d})) =
               Cardinality(Places(handlers, {d})) + (IF c \in {d} THEN 1 ELSE 0)
    BY <1>1, PlacesAppend
  <1>. QED
    BY <1>1, <1>2, <1>3, AppendRecord

\* run_once takes the one that was called.
LEMMA OwedRemoved ==
  ASSUME TypeOK, NEW i \in DOMAIN handlers, handlers' = HandlerRemoved(i)
  PROVE  /\ handlers' \in Seq(Calls)
         /\ \A d : Cardinality(Owed(d)') =
                     Cardinality(Owed(d)) - (IF handlers[i] = d THEN 1 ELSE 0)
  <1>1. handlers \in Seq(Calls) /\ i \in 1..Len(handlers)
    BY LenProperties DEF TypeOK
  <1>2. \A d : Owed(d) = Places(handlers, {d}) /\ Owed(d)' = Places(RemoveAt(handlers, i), {d})
    BY DEF Owed, Places, HandlerRemoved
  <1>3. \A d : Cardinality(Places(RemoveAt(handlers, i), {d})) =
               Cardinality(Places(handlers, {d})) - (IF handlers[i] \in {d} THEN 1 ELSE 0)
    BY <1>1, PlacesRemove
  <1>. QED
    BY <1>1, <1>2, <1>3, RemoveRecord DEF HandlerRemoved

\* Expiration takes the first n.
LEMMA OwedExpired ==
  ASSUME TypeOK, NEW n \in 0..Len(handlers),
         handlers' = SubSeq(handlers, n + 1, Len(handlers))
  PROVE  /\ handlers' \in Seq(Calls)
         /\ \A d : /\ Cardinality({i \in Owed(d) : i <= n}) \in Nat
                   /\ Cardinality(Owed(d)') =
                        Cardinality(Owed(d)) - Cardinality({i \in Owed(d) : i <= n})
  <1>1. handlers \in Seq(Calls)
    BY DEF TypeOK
  <1>2. \A d : /\ Owed(d) = Places(handlers, {d})
               /\ Owed(d)' = Places(SubSeq(handlers, n + 1, Len(handlers)), {d})
    BY DEF Owed, Places
  <1>3. \A C : /\ Cardinality({i \in Places(handlers, C) : i <= n}) \in Nat
               /\ Cardinality(Places(SubSeq(handlers, n + 1, Len(handlers)), C)) =
                    Cardinality(Places(handlers, C))
                      - Cardinality({i \in Places(handlers, C) : i <= n})
    BY <1>1, PlacesSuffix
  <1>. QED
    BY <1>1, <1>2, <1>3, SuffixOf

\* A semaphore that is opened some times more keeps its type.
LEMMA PlusNat == \A m, n \in Nat : m + n \in Nat
  OBVIOUS

\* Woken adds that many to the semaphores.
LEMMA SemWoken ==
  ASSUME TypeOK, NEW n \in 0..Len(handlers), CallbacksExpire(n)
  PROVE  /\ sem' \in [Calls -> Nat]
         /\ \A d \in Calls : pc[d] # "threw" =>
              sem'[d] = sem[d] + Cardinality({i \in Owed(d) : i <= n})
  <1>1. handlers' = SubSeq(handlers, n + 1, Len(handlers)) /\ sem' = Woken(n)
    BY DEF CallbacksExpire
  <1>2. \A d : Cardinality({i \in Owed(d) : i <= n}) \in Nat
    BY <1>1, OwedExpired
  <1>3. sem \in [Calls -> Nat]
    BY DEF TypeOK
  <1>4. \A d \in Calls : sem'[d] = IF pc[d] = "threw" THEN sem[d]
                                   ELSE sem[d] + Cardinality({i \in Owed(d) : i <= n})
    BY <1>1 DEF Woken, Gone
  <1>5. sem' = [d \in Calls |-> sem'[d]]
    BY <1>1 DEF Woken
  <1>6. ASSUME NEW d \in Calls
        PROVE  sem'[d] \in Nat
    <2>1. sem[d] \in Nat /\ Cardinality({i \in Owed(d) : i <= n}) \in Nat
      BY <1>2, <1>3
    <2>. QED
      BY <1>4, <2>1, Zenon, PlusNat
  <1>. QED
    BY <1>4, <1>5, <1>6

\* A call that can go on waiting has something to wait for.
LEMMA SomethingToWaitFor ==
  ASSUME Balance, NEW c \in Calls, Wait(c)
  PROVE  sem[c] \in Nat \ {0} /\ waits[c] \in Nat \ {0}
  <1>1. sem[c] \in Nat /\ waits[c] \in Nat /\ Cardinality(Owed(c)) \in Nat
    BY OwedFinite DEF Balance, TypeOK
  <1>2. sem[c] + Cardinality(Owed(c)) = waits[c] /\ sem[c] > 0
    BY <1>1 DEF Balance, CallbacksBalanced, Wait
  <1>. QED
    BY <1>1, <1>2

-----------------------------------------------------------------------------
(* Types *)

\* What the nodes answer: a list of nodes has nodes on it, with the home node.
LEMMA AnswerFacts ==
  ASSUME RequestAssumption, NEW a \in Answers
  PROVE  /\ a.call \in Calls /\ a.node \in Nodes
         /\ Kind[a.call] = "nodes" => a.data \subseteq Nodes /\ Home \in a.data
  BY DEF RequestAssumption, Answers, Answer, Payload, NetNodes

\* The nodes a call for endpoints asks are those it has been given a list of.
LEMMA NodesListed ==
  ASSUME Balance, RequestAssumption, NEW c \in Calls, EnumerateEndpoints(c)
  PROVE  todo' \in [Calls -> SUBSET Nodes] /\ todo'[c] # {}
  <1>1. Lister[c] \in Calls /\ Kind[Lister[c]] = "nodes"
    BY DEF RequestAssumption, EnumerateEndpoints, Of
  <1>2. result[Lister[c]] \subseteq Answers /\ \A a \in result[Lister[c]] : Kind[a.call] = "nodes"
    BY <1>1 DEF Balance, KindsMatch, TypeOK
  <1>3. \A a \in result[Lister[c]] : a.data \subseteq Nodes /\ Home \in a.data
    BY <1>2, AnswerFacts
  <1>4. PICK a : a \in result[Lister[c]]
    BY DEF EnumerateEndpoints
  <1> DEFINE D == UNION {b.data : b \in result[Lister[c]]}
  <1>5. D \in SUBSET Nodes
    BY <1>3
  <1>6. Home \in D
    BY <1>3, <1>4
  <1>7. todo' = [todo EXCEPT ![c] = D] /\ todo \in [Calls -> SUBSET Nodes]
    BY DEF EnumerateEndpoints, Balance, TypeOK
  <1>. HIDE DEF D
  <1>. QED
    BY <1>5, <1>6, <1>7

\* Every step keeps the types, and the answers to their kind.
LEMMA TypeStep ==
  Balance /\ RequestAssumption /\ [Next]_vars => TypeOK' /\ KindsMatch'
  <1>. SUFFICES ASSUME Balance, RequestAssumption, [Next]_vars
                PROVE  TypeOK' /\ KindsMatch'
    OBVIOUS
  <1>0. TypeOK /\ KindsMatch
    BY DEF Balance
  <1>1. ASSUME NEW c \in Calls, Make(c) \/ Enumerate(c)
        PROVE  TypeOK' /\ KindsMatch'
    <2>1. RegisterOneTimeCallback(c) /\ handlers' = Append(handlers, c)
      BY <1>1 DEF Make, EnumerateNodes, QueryNodeStatus, EnumerateEndpoints, Enumerate,
                  RegisterOneTimeCallback
    <2>2. handlers' \in Seq(Calls)
      BY <1>0, <2>1, OwedRegistered
    <2>3. crossed' \subseteq Calls
      BY <1>0, <2>1 DEF RegisterOneTimeCallback, Cross, TypeOK, Listening, Answered, Alike, Of
    <2>4. /\ todo' \in [Calls -> SUBSET Nodes] /\ todo'[c] # {}
          /\ \A d \in Calls \ {c} : todo'[d] = todo[d]
      <3>1. CASE EnumerateNodes(c)
        BY <1>0, <3>1 DEF EnumerateNodes, TypeOK, RequestAssumption
      <3>2. CASE QueryNodeStatus(c)
        BY <1>0, <3>2 DEF QueryNodeStatus, TypeOK, RequestAssumption, Of
      <3>3. CASE EnumerateEndpoints(c)
        BY <1>0, <3>3, NodesListed DEF EnumerateEndpoints, TypeOK
      <3>4. CASE Enumerate(c)
        BY <1>0, <3>4 DEF Enumerate, TypeOK
      <3>. QED
        BY <1>1, <3>1, <3>2, <3>3, <3>4 DEF Make
    <2>5. sem' \in [Calls -> Nat] /\ waits' \in [Calls -> Nat]
      <3>1. CASE EnumerateEndpoints(c)
        BY <1>0, <3>1 DEF EnumerateEndpoints, TypeOK
      <3>2. CASE UNCHANGED <<sem, waits>>
        BY <1>0, <3>2 DEF TypeOK
      <3>. QED
        BY <1>1, <3>1, <3>2 DEF Make, EnumerateNodes, QueryNodeStatus, Enumerate
    <2>6. TypeOK'
      BY <1>0, <2>1, <2>2, <2>3, <2>4, <2>5 DEF RegisterOneTimeCallback, TypeOK
    <2>. QED
      BY <1>0, <2>1, <2>6 DEF RegisterOneTimeCallback, KindsMatch
  <1>2. ASSUME NEW c \in Calls, Send(c)
        PROVE  TypeOK' /\ KindsMatch'
    <2>1. PICK n \in todo[c], online \in SUBSET (Nodes \ {Home}) :
            /\ todo' = [todo EXCEPT ![c] = @ \ {n}]
            /\ asked' = [asked EXCEPT ![c] = @ \cup {n}]
            /\ net' \in {net, net \cup {Answer(c, n, online)}}
      BY <1>2 DEF Send
    <2>2. n \in Nodes /\ todo[c] \in SUBSET Nodes /\ IsFiniteSet(todo[c])
      BY <1>0, FS_Subset DEF TypeOK, RequestAssumption
    <2>3. IsLast(c) \/ todo[c] \ {n} # {}
      <3>1. CASE todo[c] = {n}
        BY <3>1, FS_Singleton DEF IsLast
      <3>2. CASE todo[c] # {n}
        BY <3>2, <2>1
      <3>. QED
        BY <3>1, <3>2
    <2>4. net' \subseteq Answers
      <3>1. Answer(c, n, online) \in Answers
        BY <2>2 DEF Answers
      <3>. QED
        BY <1>0, <2>1, <3>1 DEF TypeOK
    <2>5. crossed' \subseteq Calls
      BY <1>0, <1>2 DEF Send, Cross, TypeOK, Listening, Alike, Of
    <2>6. /\ todo' \in [Calls -> SUBSET Nodes] /\ asked' \in [Calls -> SUBSET Nodes]
          /\ waits' \in [Calls -> Nat]
      BY <1>0, <1>2, <2>1, <2>2 DEF Send, TypeOK
    <2>7. pc' = [pc EXCEPT ![c] = IF IsLast(c) THEN "wait" ELSE "ask"]
      BY <1>2 DEF Send
    <2>8. \A d \in Calls : pc'[d] \in {"ask", "send"} => todo'[d] # {}
      BY <1>0, <2>1, <2>3, <2>7 DEF TypeOK
    <2>9. TypeOK'
      BY <1>0, <1>2, <2>4, <2>5, <2>6, <2>7, <2>8 DEF Send, TypeOK
    <2>. QED
      BY <1>0, <1>2, <2>9 DEF Send, KindsMatch
  <1>3. ASSUME NEW c \in Calls, SendThrows(c)
        PROVE  TypeOK' /\ KindsMatch'
    BY <1>0, <1>3 DEF SendThrows, TypeOK, KindsMatch, past
  <1>4. ASSUME NEW c \in Calls, Wait(c)
        PROVE  TypeOK' /\ KindsMatch'
    <2>1. sem[c] \in Nat \ {0} /\ waits[c] \in Nat \ {0}
      BY <1>4, SomethingToWaitFor
    <2>2. sem' \in [Calls -> Nat] /\ waits' \in [Calls -> Nat]
      BY <1>0, <1>4, <2>1 DEF Wait, TypeOK
    <2>. QED
      BY <1>0, <1>4, <2>2 DEF Wait, TypeOK, KindsMatch, past
  <1>5. ASSUME NEW a \in net, Deliver(a)
        PROVE  TypeOK' /\ KindsMatch'
    <2>0. net' \subseteq Answers /\ a \in Answers /\ UNCHANGED <<call, link, dispatch, past>>
      BY <1>0, <1>5 DEF Deliver, TypeOK
    <2>1. CASE HandlersFor(a) = {} /\ UNCHANGED <<sem, result, handlers, crashed>>
      BY <1>0, <2>0, <2>1 DEF TypeOK, KindsMatch, call, past
    <2>2. ASSUME NEW i \in HandlersFor(a), handlers' = HandlerRemoved(i),
                 IF Gone(handlers[i]) THEN crashed' = TRUE /\ UNCHANGED <<sem, result>>
                 ELSE /\ result' = [result EXCEPT ![handlers[i]] = Taken(handlers[i], a)]
                      /\ sem' = [sem EXCEPT ![handlers[i]] = @ + 1]
                      /\ UNCHANGED crashed
          PROVE  TypeOK' /\ KindsMatch'
      <3>1. i \in DOMAIN handlers /\ Kind[handlers[i]] = Kind[a.call]
        BY DEF HandlersFor
      <3>2. handlers[i] \in Calls /\ handlers' \in Seq(Calls)
        BY <1>0, <2>2, <3>1, OwedRemoved, ElementOfSeq, LenProperties DEF TypeOK
      <3>3. Taken(handlers[i], a) \subseteq result[handlers[i]] \cup {a}
        BY <3>2 DEF Taken, NodeEnumTakes, NodeStatusTakes, ServiceEnumTakes, RequestAssumption
      <3>4. \/ UNCHANGED <<sem, result>> /\ crashed' = TRUE
            \/ /\ result' = [result EXCEPT ![handlers[i]] = Taken(handlers[i], a)]
               /\ sem' = [sem EXCEPT ![handlers[i]] = @ + 1]
               /\ UNCHANGED crashed
        BY <2>2
      <3>5. /\ result' \in [Calls -> SUBSET Answers] /\ KindsMatch'
            /\ sem' \in [Calls -> Nat] /\ crashed' \in BOOLEAN
        <4>1. CASE UNCHANGED <<sem, result>> /\ crashed' = TRUE
          BY <1>0, <4>1 DEF TypeOK, KindsMatch
        <4>2. CASE /\ result' = [result EXCEPT ![handlers[i]] = Taken(handlers[i], a)]
                   /\ sem' = [sem EXCEPT ![handlers[i]] = @ + 1]
                   /\ UNCHANGED crashed
          <5>1. Taken(handlers[i], a) \in SUBSET Answers
            BY <1>0, <2>0, <3>2, <3>3 DEF TypeOK
          <5>2. \A b \in Taken(handlers[i], a) : Kind[b.call] = Kind[handlers[i]]
            BY <1>0, <3>1, <3>2, <3>3 DEF KindsMatch
          <5>3. result' \in [Calls -> SUBSET Answers]
            BY <1>0, <3>2, <4>2, <5>1 DEF TypeOK
          <5>4. sem' \in [Calls -> Nat] /\ crashed' \in BOOLEAN
            BY <1>0, <3>2, <4>2 DEF TypeOK
          <5>5. KindsMatch'
            BY <1>0, <3>2, <4>2, <5>2 DEF TypeOK, KindsMatch
          <5>. QED
            BY <5>3, <5>4, <5>5
        <4>. QED
          BY <3>4, <4>1, <4>2
      <3>. QED
        BY <1>0, <2>0, <3>2, <3>5 DEF TypeOK, call, past
    <2>. QED
      BY <1>5, <2>1, <2>2 DEF Deliver
  <1>6. ASSUME NEW n \in 0..Len(handlers), CallbacksExpire(n),
               dispatch' \in {dispatch, "ended"}
        PROVE  TypeOK' /\ KindsMatch'
    <2>1. sem' \in [Calls -> Nat] /\ handlers' \in Seq(Calls)
      BY <1>0, <1>6, SemWoken, OwedExpired DEF CallbacksExpire
    <2>2. \A i \in 1..n : handlers[i] \in Calls
      BY <1>0, ElementOfSeq, LenProperties DEF TypeOK
    <2>3. expired' \subseteq Calls /\ crashed' \in BOOLEAN
      BY <1>0, <1>6, <2>2 DEF CallbacksExpire, TypeOK
    <2>. QED
      BY <1>0, <1>6, <2>1, <2>3 DEF CallbacksExpire, TypeOK, KindsMatch, call
  <1>7. ASSUME ExpireSome
        PROVE  TypeOK' /\ KindsMatch'
    <2>1. PICK n \in DOMAIN handlers : CallbacksExpire(n) /\ dispatch' = dispatch
      BY <1>7 DEF ExpireSome, Expire
    <2>2. n \in 0..Len(handlers)
      BY <1>0, <2>1, LenProperties DEF TypeOK
    <2>. QED
      BY <1>6, <2>1, <2>2
  <1>8. ASSUME FinalPass
        PROVE  TypeOK' /\ KindsMatch'
    <2>1. Len(handlers) \in 0..Len(handlers)
      BY <1>0, LenProperties DEF TypeOK
    <2>. QED
      BY <1>6, <1>8, <2>1 DEF FinalPass
  <1>9. ASSUME LossNoticed \/ Connect \/ Disconnect \/ Break \/ UNCHANGED vars
        PROVE  TypeOK' /\ KindsMatch'
    BY <1>0, <1>9 DEF LossNoticed, Connect, Disconnect, Break, vars, TypeOK, KindsMatch, call, past
  <1>. QED
    BY <1>1, <1>2, <1>3, <1>4, <1>5, <1>7, <1>8, <1>9 DEF Next, Caller

-----------------------------------------------------------------------------
(* The balance *)

\* Every step keeps what opens the semaphore of a call equal to what the call waits for.
LEMMA BalanceStep ==
  Balance /\ RequestAssumption /\ [Next]_vars => WaitsOver' /\ CallbacksBalanced'
  <1>. SUFFICES ASSUME Balance, RequestAssumption, [Next]_vars
                PROVE  WaitsOver' /\ CallbacksBalanced'
    OBVIOUS
  <1>0. TypeOK /\ WaitsOver /\ CallbacksBalanced
    BY DEF Balance
  <1> DEFINE Extra(d) == IF pc[d] = "send" THEN 1 ELSE 0
             Even(d) == sem[d] + Cardinality(Owed(d)) = waits[d] + Extra(d)
  <1>a. /\ \A d \in Calls : sem[d] \in Nat /\ waits[d] \in Nat
        /\ \A d : Cardinality(Owed(d)) \in Nat
    BY <1>0, OwedFinite DEF TypeOK
  <1>b. \A d \in Calls : pc[d] # "threw" => Even(d)
    BY <1>0 DEF CallbacksBalanced
  <1>c. SUFFICES /\ WaitsOver'
                 /\ \A d \in Calls : pc'[d] # "threw" => Even(d)'
    BY DEF CallbacksBalanced
  <1>d. UNCHANGED handlers => \A d : Owed(d)' = Owed(d)
    BY DEF Owed
  <1>1. ASSUME NEW c \in Calls, Make(c) \/ Enumerate(c)
        PROVE  WaitsOver' /\ \A d \in Calls : pc'[d] # "threw" => Even(d)'
    <2>1. /\ handlers' = Append(handlers, c) /\ pc' = [pc EXCEPT ![c] = "send"]
          /\ UNCHANGED <<asked, result>>
      BY <1>1 DEF Make, EnumerateNodes, QueryNodeStatus, EnumerateEndpoints, Enumerate,
                  RegisterOneTimeCallback
    <2>2. \A d : Cardinality(Owed(d)') = Cardinality(Owed(d)) + (IF c = d THEN 1 ELSE 0)
      BY <1>0, <2>1, OwedRegistered
    <2>3. pc[c] \in {"new", "ask"}
      BY <1>1 DEF Make, EnumerateNodes, QueryNodeStatus, EnumerateEndpoints, Enumerate
    <2>4. /\ \A d \in Calls \ {c} : sem'[d] = sem[d] /\ waits'[d] = waits[d]
          /\ sem'[c] + Cardinality(Owed(c)) = waits'[c]
          /\ sem'[c] \in Nat /\ waits'[c] \in Nat
      <3>1. sem[c] + Cardinality(Owed(c)) = waits[c]
        BY <1>a, <1>b, <2>3
      <3>2. CASE UNCHANGED <<sem, waits>>
        BY <1>a, <3>1, <3>2
      <3>3. CASE EnumerateEndpoints(c)
        <4>1. waits[c] = 0 /\ Cardinality(Owed(c)) = 0
          BY <1>0, <1>a, <3>1, <3>3 DEF EnumerateEndpoints, WaitsOver
        <4>. QED
          BY <1>0, <3>3, <4>1 DEF EnumerateEndpoints, TypeOK
      <3>. QED
        BY <1>1, <3>2, <3>3 DEF Make, EnumerateNodes, QueryNodeStatus, Enumerate
    <2>5. \A d \in Calls : pc'[d] = IF d = c THEN "send" ELSE pc[d]
      BY <1>0, <2>1 DEF TypeOK
    <2>6. WaitsOver'
      BY <1>0, <2>1, <2>4, <2>5 DEF WaitsOver
    <2>7. ASSUME NEW d \in Calls, pc'[d] # "threw"
          PROVE  Even(d)'
      <3>1. CASE d = c
        BY <1>a, <2>2, <2>4, <2>5, <3>1
      <3>2. CASE d # c
        BY <1>a, <1>b, <2>2, <2>4, <2>5, <2>7, <3>2
      <3>. QED
        BY <3>1, <3>2
    <2>. QED
      BY <2>6, <2>7
  <1>2. ASSUME NEW c \in Calls, Send(c)
        PROVE  WaitsOver' /\ \A d \in Calls : pc'[d] # "threw" => Even(d)'
    <2>1. /\ pc[c] = "send" /\ UNCHANGED <<sem, result, handlers>>
          /\ pc' = [pc EXCEPT ![c] = IF IsLast(c) THEN "wait" ELSE "ask"]
          /\ waits' = [waits EXCEPT ![c] = @ + 1]
          /\ \A d \in Calls \ {c} : asked'[d] = asked[d]
      BY <1>0, <1>2 DEF Send, TypeOK
    <2>2. /\ pc'[c] \in {"wait", "ask"} /\ waits'[c] = waits[c] + 1
          /\ \A d \in Calls \ {c} : pc'[d] = pc[d] /\ waits'[d] = waits[d]
      BY <1>0, <2>1 DEF TypeOK
    <2>3. WaitsOver'
      BY <1>0, <2>1, <2>2 DEF WaitsOver
    <2>4. ASSUME NEW d \in Calls, pc'[d] # "threw"
          PROVE  Even(d)'
      <3>1. CASE d = c
        BY <1>a, <1>b, <1>d, <2>1, <2>2, <3>1
      <3>2. CASE d # c
        BY <1>a, <1>b, <1>d, <2>1, <2>2, <2>4, <3>2
      <3>. QED
        BY <3>1, <3>2
    <2>. QED
      BY <2>3, <2>4
  <1>3. ASSUME NEW c \in Calls, SendThrows(c)
        PROVE  WaitsOver' /\ \A d \in Calls : pc'[d] # "threw" => Even(d)'
    <2>1. /\ pc' = [pc EXCEPT ![c] = "threw"]
          /\ UNCHANGED <<sem, waits, handlers, asked, result>>
      BY <1>3 DEF SendThrows
    <2>2. \A d \in Calls : pc'[d] = IF d = c THEN "threw" ELSE pc[d]
      BY <1>0, <2>1 DEF TypeOK
    <2>. QED
      BY <1>0, <1>b, <1>d, <2>1, <2>2 DEF WaitsOver
  <1>4. ASSUME NEW c \in Calls, Wait(c)
        PROVE  WaitsOver' /\ \A d \in Calls : pc'[d] # "threw" => Even(d)'
    <2>1. sem[c] \in Nat \ {0} /\ waits[c] \in Nat \ {0}
      BY <1>4, SomethingToWaitFor
    <2>2. /\ pc[c] = "wait" /\ UNCHANGED <<handlers, asked, result>>
          /\ pc'[c] = (IF waits[c] = 1 THEN "returned" ELSE "wait")
          /\ sem'[c] = sem[c] - 1 /\ waits'[c] = waits[c] - 1
          /\ \A d \in Calls \ {c} : pc'[d] = pc[d] /\ sem'[d] = sem[d] /\ waits'[d] = waits[d]
      BY <1>0, <1>4 DEF Wait, TypeOK
    <2>3. WaitsOver'
      BY <1>0, <2>1, <2>2 DEF WaitsOver
    <2>4. ASSUME NEW d \in Calls, pc'[d] # "threw"
          PROVE  Even(d)'
      <3>1. CASE d = c
        <4>1. pc'[c] # "send" /\ Owed(c)' = Owed(c)
          BY <1>d, <2>2
        <4>2. sem[c] + Cardinality(Owed(c)) = waits[c]
          <5>1. Even(c) /\ Extra(c) = 0
            BY <1>b, <1>4 DEF Wait
          <5>. QED
            BY <1>a, <5>1
        <4>. QED
          BY <1>a, <2>1, <2>2, <3>1, <4>1, <4>2
      <3>2. CASE d # c
        BY <1>a, <1>b, <1>d, <2>2, <2>4, <3>2
      <3>. QED
        BY <3>1, <3>2
    <2>. QED
      BY <2>3, <2>4
  <1>5. ASSUME NEW a \in net, Deliver(a)
        PROVE  WaitsOver' /\ \A d \in Calls : pc'[d] # "threw" => Even(d)'
    <2>1. UNCHANGED <<pc, waits, asked>>
      BY <1>5 DEF Deliver, call
    <2>2. CASE UNCHANGED <<sem, result, handlers>>
      BY <1>0, <1>b, <1>d, <2>1, <2>2 DEF WaitsOver
    <2>3. ASSUME NEW i \in HandlersFor(a), handlers' = HandlerRemoved(i),
                 \/ Gone(handlers[i]) /\ UNCHANGED <<sem, result>>
                 \/ /\ result' = [result EXCEPT ![handlers[i]] = Taken(handlers[i], a)]
                    /\ sem' = [sem EXCEPT ![handlers[i]] = @ + 1]
          PROVE  WaitsOver' /\ \A d \in Calls : pc'[d] # "threw" => Even(d)'
      <3> DEFINE c == handlers[i]
      <3>1. i \in DOMAIN handlers /\ c \in Calls
        BY <1>0, ElementOfSeq, LenProperties DEF HandlersFor, TypeOK
      <3>2. \A d : Cardinality(Owed(d)') = Cardinality(Owed(d)) - (IF c = d THEN 1 ELSE 0)
        BY <1>0, <2>3, <3>1, OwedRemoved
      <3>3. \A d \in Calls \ {c} : sem'[d] = sem[d] /\ result'[d] = result[d]
        BY <1>0, <2>3, <3>1 DEF TypeOK
      <3>4. pc[c] # "threw" => sem'[c] = sem[c] + 1
        BY <1>0, <2>3, <3>1 DEF TypeOK, Gone
      <3>5. Cardinality(Owed(c)) # 0
        <4>1. i \in Owed(c) /\ IsFiniteSet(Owed(c))
          BY <1>0, <3>1, OwedFinite DEF Owed
        <4>. QED
          BY <4>1, FS_EmptySet
      <3>. HIDE DEF c
      <3>6. pc[c] # "new"
        BY <1>0, <1>a, <1>b, <3>1, <3>5 DEF WaitsOver
      <3>7. WaitsOver'
        BY <1>0, <2>1, <3>3, <3>6 DEF WaitsOver
      <3>8. ASSUME NEW d \in Calls, pc'[d] # "threw"
            PROVE  Even(d)'
        <4>1. CASE d = c
          BY <1>a, <1>b, <2>1, <3>2, <3>4, <3>8, <4>1
        <4>2. CASE d # c
          BY <1>a, <1>b, <2>1, <3>2, <3>3, <3>8, <4>2
        <4>. QED
          BY <4>1, <4>2
      <3>. QED
        BY <3>7, <3>8
    <2>4. \/ UNCHANGED <<sem, result, handlers>>
          \/ \E i \in HandlersFor(a) :
               /\ handlers' = HandlerRemoved(i)
               /\ \/ Gone(handlers[i]) /\ UNCHANGED <<sem, result>>
                  \/ /\ result' = [result EXCEPT ![handlers[i]] = Taken(handlers[i], a)]
                     /\ sem' = [sem EXCEPT ![handlers[i]] = @ + 1]
      BY <1>5 DEF Deliver
    <2>. QED
      BY <2>2, <2>3, <2>4
  <1>6. ASSUME NEW n \in 0..Len(handlers), CallbacksExpire(n)
        PROVE  WaitsOver' /\ \A d \in Calls : pc'[d] # "threw" => Even(d)'
    <2>1. UNCHANGED <<pc, waits, asked, result>>
      BY <1>6 DEF CallbacksExpire, call
    <2>2. WaitsOver'
      BY <1>0, <2>1 DEF WaitsOver
    <2>3. ASSUME NEW d \in Calls, pc'[d] # "threw"
          PROVE  Even(d)'
      <3> DEFINE k == Cardinality({i \in Owed(d) : i <= n})
      <3>1. k \in Nat /\ Cardinality(Owed(d)') = Cardinality(Owed(d)) - k
        BY <1>0, <1>6, OwedExpired DEF CallbacksExpire
      <3>2. sem'[d] = sem[d] + k
        BY <1>0, <1>6, <2>1, <2>3, SemWoken
      <3>. HIDE DEF k
      <3>. QED
        BY <1>a, <1>b, <2>1, <2>3, <3>1, <3>2
    <2>. QED
      BY <2>2, <2>3
  <1>7. ASSUME ExpireSome
        PROVE  WaitsOver' /\ \A d \in Calls : pc'[d] # "threw" => Even(d)'
    <2>1. PICK n \in DOMAIN handlers : CallbacksExpire(n)
      BY <1>7 DEF ExpireSome, Expire
    <2>2. n \in 0..Len(handlers)
      BY <1>0, <2>1, LenProperties DEF TypeOK
    <2>. QED
      BY <1>6, <2>1, <2>2
  <1>8. ASSUME FinalPass
        PROVE  WaitsOver' /\ \A d \in Calls : pc'[d] # "threw" => Even(d)'
    <2>1. Len(handlers) \in 0..Len(handlers)
      BY <1>0, LenProperties DEF TypeOK
    <2>. QED
      BY <1>6, <1>8, <2>1 DEF FinalPass
  <1>9. ASSUME LossNoticed \/ Connect \/ Disconnect \/ Break \/ UNCHANGED vars
        PROVE  WaitsOver' /\ \A d \in Calls : pc'[d] # "threw" => Even(d)'
    <2>1. UNCHANGED <<pc, sem, waits, asked, result, handlers>>
      BY <1>9 DEF LossNoticed, Connect, Disconnect, Break, vars, call
    <2>. QED
      BY <1>0, <1>b, <1>d, <2>1 DEF WaitsOver
  <1>. QED
    BY <1>1, <1>2, <1>3, <1>4, <1>5, <1>7, <1>8, <1>9 DEF Next, Caller

\* At first nobody waits and nothing is registered.
LEMMA BalanceInit == Init => Balance
  <1>. SUFFICES ASSUME Init PROVE Balance
    OBVIOUS
  <1>1. <<>> \in Seq(Calls)
    BY EmptySeq
  <1>2. \A c : Owed(c) = {} /\ Cardinality(Owed(c)) = 0
    BY FS_EmptySet DEF Init, Owed
  <1>3. TypeOK
    BY <1>1 DEF Init, TypeOK
  <1>4. CallbacksBalanced
    BY <1>2 DEF Init, CallbacksBalanced
  <1>. QED
    BY <1>3, <1>4 DEF Init, Balance, KindsMatch, WaitsOver

\* The invariant holds throughout.
LEMMA BalanceInvariant == Spec => []Balance
  <1>1. Balance /\ [Next]_vars => Balance'
    BY TypeStep, BalanceStep, RequestAssumption DEF Balance
  <1>. QED
    BY BalanceInit, <1>1, PTL DEF Spec

\* Every variable keeps its type, and a call that asks has a node left to ask.
THEOREM TypeCorrect == Spec => []TypeOK
  BY BalanceInvariant, PTL DEF Balance

\* Answers, expirations, the loss of the connection and calls that throw leave every call
\* with as many callbacks and openings of its semaphore as it has still to wait for.
THEOREM BalanceHolds == Spec => []CallbacksBalanced
  BY BalanceInvariant, PTL DEF Balance

-----------------------------------------------------------------------------
(* Whose answers a call is given *)

\* An answer under way, and a callback of another call that would take it, have made both
\* calls overlap.
OwnOnly ==
  /\ \A c \in Calls \ crossed : \A a \in result[c] : a.call = c
  /\ \A a \in net, c \in Calls :
       Owed(c) # {} /\ Kind[c] = Kind[a.call] /\ c # a.call => {c, a.call} \subseteq crossed

\* A call asks a node once, and has one answer of it, under way or given.
AskedOnce ==
  /\ \A c \in Calls : asked[c] \cap todo[c] = {}
  /\ \A c \in Calls : Kind[c] # "endpoints" => \E n \in Nodes : asked[c] \cup todo[c] \subseteq {n}
  /\ \A a \in net : a.node \in asked[a.call]
  /\ \A a, b \in net : a.call = b.call /\ a.node = b.node => a = b
  /\ \A c \in Calls \ crossed :
       /\ \A a \in result[c] : a.node \in asked[c]
       /\ \A a \in net, b \in result[c] : a.call = c => a.node # b.node

\* The nodes whose answers a call was given
From(c) == {a.node : a \in result[c]}

\* For each node that was asked there is an answer or a callback.
AllAnswered ==
  \A c \in Calls \ (crossed \cup expired) :
    pc[c] # "threw" =>
      Cardinality(From(c)) + Cardinality(Owed(c)) =
        Cardinality(asked[c]) + (IF pc[c] = "send" THEN 1 ELSE 0)

Own == OwnOnly /\ AskedOnce /\ AllAnswered

\* A call has no callback left when their number has come to zero.
LEMMA NoneOwed ==
  ASSUME TypeOK
  PROVE  \A c : Owed(c) = {} <=> Cardinality(Owed(c)) = 0
  BY OwedFinite, FS_EmptySet

\* The same after a step.
LEMMA NoneOwedAfter ==
  ASSUME handlers' \in Seq(Calls)
  PROVE  \A c : Owed(c)' = {} <=> Cardinality(Owed(c)') = 0
  <1>1. \A c : Owed(c)' = Places(handlers', {c})
    BY DEF Owed, Places
  <1>2. \A c : IsFiniteSet(Places(handlers', {c}))
    BY PlacesFinite
  <1>. QED
    BY <1>1, <1>2, FS_EmptySet

\* A call that has been given its own answers was given them by nodes it has asked.
LEMMA FromAsked ==
  ASSUME TypeOK, AskedOnce, RequestAssumption, NEW c \in Calls \ crossed
  PROVE  /\ From(c) \subseteq asked[c]
         /\ IsFiniteSet(From(c)) /\ Cardinality(From(c)) \in Nat
         /\ IsFiniteSet(asked[c]) /\ Cardinality(asked[c]) \in Nat
  <1>1. From(c) \subseteq asked[c] /\ asked[c] \subseteq Nodes
    BY DEF From, AskedOnce, TypeOK
  <1>2. IsFiniteSet(Nodes)
    BY DEF RequestAssumption
  <1>3. IsFiniteSet(asked[c]) /\ IsFiniteSet(From(c))
    BY <1>1, <1>2, FS_Subset
  <1>. QED
    BY <1>1, <1>3, FS_CardinalityType

\* A callback is registered: a call that may take the answer to another one has crossed.
LEMMA OwnRegistered ==
  ASSUME Balance, Own, RequestAssumption, NEW c \in Calls, Make(c) \/ Enumerate(c)
  PROVE  Own'
  <1>0. TypeOK /\ OwnOnly /\ AskedOnce /\ AllAnswered /\ WaitsOver
    BY DEF Balance, Own
  <1>1. RegisterOneTimeCallback(c) /\ handlers' = Append(handlers, c)
    BY DEF Make, EnumerateNodes, QueryNodeStatus, EnumerateEndpoints, Enumerate,
           RegisterOneTimeCallback
  <1> DEFINE D == Listening(c) \cup Answered(c)
  <1>2. /\ UNCHANGED <<asked, result, net, expired>>
        /\ crossed' = crossed \cup D \cup (IF D = {} THEN {} ELSE {c})
        /\ pc' = [pc EXCEPT ![c] = "send"]
    BY <1>1 DEF RegisterOneTimeCallback, Cross
  <1>3. \A d : Cardinality(Owed(d)') = Cardinality(Owed(d)) + (IF c = d THEN 1 ELSE 0)
    BY <1>0, <1>1, OwedRegistered
  <1>4. \A d : Owed(d)' # {} => d = c \/ Owed(d) # {}
    <2>1. \A d : Cardinality(Owed(d)) \in Nat
      BY <1>0, OwedFinite
    <2>2. \A d : Owed(d) = {} <=> Cardinality(Owed(d)) = 0
      BY <1>0, NoneOwed
    <2>3. \A d : Owed(d)' = {} <=> Cardinality(Owed(d)') = 0
      BY <1>0, <1>1, OwedRegistered, NoneOwedAfter
    <2>. QED
      BY <1>3, <2>1, <2>2, <2>3
  <1>5. OwnOnly'
    <2>1. \A d \in Calls \ crossed' : \A a \in result'[d] : a.call = d
      BY <1>0, <1>2 DEF OwnOnly
    <2>2. ASSUME NEW a \in net', NEW d \in Calls, Owed(d)' # {}, Kind[d] = Kind[a.call],
                 d # a.call
          PROVE  {d, a.call} \subseteq crossed'
      <3>1. CASE d = c
        <4>1. a \in net /\ a.call \in Answered(c)
          BY <1>0, <1>2, <2>2, <3>1, AnswerFacts DEF Answered, Alike, Of, TypeOK
        <4>. QED
          BY <1>2, <3>1, <4>1
      <3>2. CASE d # c
        BY <1>0, <1>2, <1>4, <2>2, <3>2 DEF OwnOnly
      <3>. QED
        BY <3>1, <3>2
    <2>. QED
      BY <2>1, <2>2 DEF OwnOnly
  <1>6. AskedOnce'
    <2>1. \/ todo' = todo
          \/ /\ asked[c] = {}
             /\ \A d \in Calls \ {c} : todo'[d] = todo[d]
             /\ Kind[c] # "endpoints" => \E n \in Nodes : todo'[c] \subseteq {n}
      <3>1. CASE EnumerateNodes(c)
        BY <1>0, <3>1 DEF EnumerateNodes, TypeOK, WaitsOver, RequestAssumption
      <3>2. CASE QueryNodeStatus(c)
        BY <1>0, <3>2 DEF QueryNodeStatus, TypeOK, WaitsOver, RequestAssumption, Of
      <3>3. CASE EnumerateEndpoints(c)
        BY <1>0, <3>3 DEF EnumerateEndpoints, TypeOK, WaitsOver
      <3>4. CASE Enumerate(c)
        BY <3>4 DEF Enumerate
      <3>. QED
        BY <3>1, <3>2, <3>3, <3>4 DEF Make
    <2>2. \A d \in Calls : asked'[d] \cap todo'[d] = {}
      BY <1>0, <1>2, <2>1 DEF AskedOnce
    <2>3. ASSUME NEW d \in Calls, Kind[d] # "endpoints"
          PROVE  \E n \in Nodes : asked'[d] \cup todo'[d] \subseteq {n}
      BY <1>0, <1>2, <2>1, <2>3 DEF AskedOnce
    <2>. QED
      BY <1>0, <1>2, <2>2, <2>3 DEF AskedOnce
  <1>7. AllAnswered'
    <2>. SUFFICES ASSUME NEW d \in Calls \ (crossed' \cup expired'), pc'[d] # "threw"
                  PROVE  Cardinality(From(d)') + Cardinality(Owed(d)') =
                           Cardinality(asked'[d]) + (IF pc'[d] = "send" THEN 1 ELSE 0)
      BY DEF AllAnswered
    <2>1. d \in Calls \ crossed /\ d \notin expired /\ asked'[d] = asked[d] /\ From(d)' = From(d)
      BY <1>2 DEF From
    <2>2. /\ Cardinality(From(d)) \in Nat /\ Cardinality(asked[d]) \in Nat
          /\ Cardinality(Owed(d)) \in Nat
      BY <1>0, <2>1, FromAsked, OwedFinite
    <2>3. pc[c] \in {"new", "ask"}
      BY DEF Make, EnumerateNodes, QueryNodeStatus, EnumerateEndpoints, Enumerate
    <2>4. CASE d = c
      <3>1. Cardinality(From(c)) + Cardinality(Owed(c)) = Cardinality(asked[c])
        BY <1>0, <2>1, <2>2, <2>3, <2>4 DEF AllAnswered
      <3>2. pc'[c] = "send" /\ Cardinality(Owed(c)') = Cardinality(Owed(c)) + 1
        BY <1>0, <1>2, <1>3 DEF TypeOK
      <3>. QED
        BY <2>1, <2>2, <2>4, <3>1, <3>2
    <2>5. CASE d # c
      <3>1. pc'[d] = pc[d] /\ Cardinality(Owed(d)') = Cardinality(Owed(d))
        BY <1>0, <1>2, <1>3, <2>2, <2>5 DEF TypeOK
      <3>. QED
        BY <1>0, <2>1, <2>2, <3>1 DEF AllAnswered
    <2>. QED
      BY <2>4, <2>5
  <1>. QED
    BY <1>5, <1>6, <1>7 DEF Own

\* A request is sent: its answer is the only one of that node, and a call whose callback
\* may take it has crossed.
LEMMA OwnSent ==
  ASSUME Balance, Own, RequestAssumption, NEW c \in Calls, Send(c)
  PROVE  Own'
  <1>0. TypeOK /\ OwnOnly /\ AskedOnce /\ AllAnswered
    BY DEF Balance, Own
  <1>1. PICK n \in todo[c], online \in SUBSET (Nodes \ {Home}) :
          /\ todo' = [todo EXCEPT ![c] = @ \ {n}]
          /\ asked' = [asked EXCEPT ![c] = @ \cup {n}]
          /\ net' \in {net, net \cup {Answer(c, n, online)}}
    BY DEF Send
  <1> DEFINE A == Answer(c, n, online)
  <1>2. A.call = c /\ A.node = n
    BY DEF Answer
  <1>. HIDE DEF A
  <1>3. /\ UNCHANGED <<result, handlers, expired>> /\ pc[c] = "send"
        /\ crossed' = crossed \cup Listening(c) \cup (IF Listening(c) = {} THEN {} ELSE {c})
        /\ pc' = [pc EXCEPT ![c] = IF IsLast(c) THEN "wait" ELSE "ask"]
    BY DEF Send, Cross
  <1>4. n \notin asked[c]
    BY <1>0, <1>1 DEF AskedOnce
  <1>5. /\ asked'[c] = asked[c] \cup {n} /\ todo'[c] = todo[c] \ {n}
        /\ \A d \in Calls \ {c} : asked'[d] = asked[d] /\ todo'[d] = todo[d]
    BY <1>0, <1>1 DEF TypeOK
  <1>6. net \subseteq net' /\ net' \subseteq net \cup {A}
    BY <1>1 DEF A
  <1>7. \A d : Owed(d)' = Owed(d)
    BY <1>3 DEF Owed
  <1>8. \A a \in net : a.call \in Calls
    BY <1>0, AnswerFacts DEF TypeOK
  <1>9. OwnOnly'
    <2>1. \A d \in Calls \ crossed' : \A a \in result'[d] : a.call = d
      BY <1>0, <1>3 DEF OwnOnly
    <2>2. ASSUME NEW a \in net', NEW d \in Calls, Owed(d)' # {}, Kind[d] = Kind[a.call],
                 d # a.call
          PROVE  {d, a.call} \subseteq crossed'
      <3>1. CASE a \in net
        BY <1>0, <1>3, <1>7, <2>2, <3>1 DEF OwnOnly
      <3>2. CASE a = A
        <4>1. d \in Listening(c)
          BY <1>2, <1>7, <2>2, <3>2 DEF Listening, Alike, Of
        <4>. QED
          BY <1>2, <1>3, <3>2, <4>1
      <3>. QED
        BY <1>6, <3>1, <3>2
    <2>. QED
      BY <2>1, <2>2 DEF OwnOnly
  <1>10. AskedOnce'
    <2>1. \A d \in Calls : asked'[d] \cap todo'[d] = {}
      BY <1>0, <1>5 DEF AskedOnce
    <2>2. \A d \in Calls : asked'[d] \cup todo'[d] = asked[d] \cup todo[d]
      BY <1>1, <1>5
    <2>3. \A d \in Calls :
            Kind[d] # "endpoints" => \E m \in Nodes : asked'[d] \cup todo'[d] \subseteq {m}
      BY <1>0, <2>2 DEF AskedOnce
    <2>4. \A a \in net' : a.node \in asked'[a.call]
      BY <1>0, <1>2, <1>5, <1>6, <1>8 DEF AskedOnce
    <2>5. \A a \in net : a.call = c => a.node # n
      BY <1>0, <1>4 DEF AskedOnce
    <2>6. \A a, b \in net' : a.call = b.call /\ a.node = b.node => a = b
      BY <1>0, <1>2, <1>6, <2>5 DEF AskedOnce
    <2>7. ASSUME NEW d \in Calls \ crossed'
          PROVE  /\ \A a \in result'[d] : a.node \in asked'[d]
                 /\ \A a \in net', b \in result'[d] : a.call = d => a.node # b.node
      <3>1. d \in Calls \ crossed /\ result'[d] = result[d] /\ asked[d] \subseteq asked'[d]
        BY <1>3, <1>5
      <3>2. \A b \in result[d] : b.node \in asked[d]
        BY <1>0, <3>1 DEF AskedOnce
      <3>3. \A a \in net, b \in result[d] : a.call = d => a.node # b.node
        BY <1>0, <3>1 DEF AskedOnce
      <3>4. \A b \in result[d] : A.call = d => A.node # b.node
        BY <1>2, <1>4, <3>2
      <3>. QED
        BY <1>6, <3>1, <3>2, <3>3, <3>4
    <2>. QED
      BY <2>1, <2>3, <2>4, <2>6, <2>7 DEF AskedOnce
  <1>11. AllAnswered'
    <2>. SUFFICES ASSUME NEW d \in Calls \ (crossed' \cup expired'), pc'[d] # "threw"
                  PROVE  Cardinality(From(d)') + Cardinality(Owed(d)') =
                           Cardinality(asked'[d]) + (IF pc'[d] = "send" THEN 1 ELSE 0)
      BY DEF AllAnswered
    <2>1. d \in Calls \ crossed /\ d \notin expired /\ From(d)' = From(d) /\ Owed(d)' = Owed(d)
      BY <1>3, <1>7 DEF From
    <2>2. /\ Cardinality(From(d)) \in Nat /\ Cardinality(asked[d]) \in Nat
          /\ IsFiniteSet(asked[d]) /\ Cardinality(Owed(d)) \in Nat
      BY <1>0, <2>1, FromAsked, OwedFinite
    <2>3. CASE d = c
      <3>1. Cardinality(From(c)) + Cardinality(Owed(c)) = Cardinality(asked[c]) + 1
        BY <1>0, <1>3, <2>1, <2>3 DEF AllAnswered
      <3>2. Cardinality(asked'[c]) = Cardinality(asked[c]) + 1
        <4>1. Cardinality(asked[c] \cup {n}) = Cardinality(asked[c]) + 1
          BY <1>4, <2>2, <2>3, FS_AddElement
        <4>. QED
          BY <1>5, <4>1, Zenon
      <3>3. pc'[c] # "send"
        BY <1>0, <1>3 DEF TypeOK
      <3>. QED
        BY <2>1, <2>2, <2>3, <3>1, <3>2, <3>3
    <2>4. CASE d # c
      <3>1. pc'[d] = pc[d] /\ asked'[d] = asked[d]
        BY <1>0, <1>3, <1>5, <2>4 DEF TypeOK
      <3>. QED
        BY <1>0, <2>1, <3>1 DEF AllAnswered
    <2>. QED
      BY <2>3, <2>4
  <1>. QED
    BY <1>9, <1>10, <1>11 DEF Own

\* An answer is given to a call: when it is another call's, both have crossed.
LEMMA OwnDelivered ==
  ASSUME Balance, Own, RequestAssumption, NEW a \in net, Deliver(a)
  PROVE  Own'
  <1>0. TypeOK /\ KindsMatch /\ OwnOnly /\ AskedOnce /\ AllAnswered
    BY DEF Balance, Own
  <1>1. UNCHANGED <<pc, todo, asked, waits, crossed, expired>> /\ net' = net \ {a}
    BY DEF Deliver, call, past
  <1>2. a.call \in Calls
    BY <1>0, AnswerFacts DEF TypeOK
  <1>3. CASE UNCHANGED <<result, handlers>>
    <2>1. \A d : Owed(d)' = Owed(d) /\ From(d)' = From(d)
      BY <1>3 DEF Owed, From
    <2>2. OwnOnly'
      BY <1>0, <1>1, <1>3, <2>1 DEF OwnOnly
    <2>3. AskedOnce'
      BY <1>0, <1>1, <1>3 DEF AskedOnce
    <2>4. AllAnswered'
      BY <1>0, <1>1, <2>1 DEF AllAnswered
    <2>. QED
      BY <2>2, <2>3, <2>4 DEF Own
  <1>4. ASSUME NEW i \in HandlersFor(a), NEW c, c = handlers[i], handlers' = HandlerRemoved(i),
               \/ Gone(c) /\ UNCHANGED result
               \/ result' = [result EXCEPT ![c] = Taken(c, a)]
        PROVE  Own'
    <2>1. i \in DOMAIN handlers /\ c \in Calls /\ Kind[c] = Kind[a.call]
      BY <1>0, <1>4, ElementOfSeq, LenProperties DEF HandlersFor, TypeOK
    <2>2. \A d : Cardinality(Owed(d)') = Cardinality(Owed(d)) - (IF c = d THEN 1 ELSE 0)
      BY <1>0, <1>4, <2>1, OwedRemoved
    <2>3. \A d : Owed(d)' # {} => Owed(d) # {}
      <3>1. \A d : Cardinality(Owed(d)) \in Nat
        BY <1>0, OwedFinite
      <3>2. \A d : Owed(d)' = {} <=> Cardinality(Owed(d)') = 0
        BY <1>0, <1>4, <2>1, OwedRemoved, NoneOwedAfter
      <3>3. \A d : Owed(d) = {} => i \notin Owed(d) /\ Cardinality(Owed(d)) = 0
        BY <1>0, NoneOwed
      <3>4. \A d : c = d => i \in Owed(d)
        BY <1>4, <2>1 DEF Owed
      <3>. QED
        BY <2>2, <3>1, <3>2, <3>3, <3>4
    <2>4. Owed(c) # {}
      BY <1>4, <2>1 DEF Owed
    <2>5. c \in crossed \/ a.call = c
      BY <1>0, <2>1, <2>4 DEF OwnOnly
    <2>6. \/ pc[c] = "threw" /\ result' = result
          \/ result' = [result EXCEPT ![c] = Taken(c, a)]
      BY <1>4 DEF Gone
    <2>7. Taken(c, a) = IF Kind[c] = "endpoints" THEN result[c] \cup {a} ELSE {a}
      BY <2>1 DEF Taken, NodeEnumTakes, NodeStatusTakes, ServiceEnumTakes, RequestAssumption
    <2>8. /\ \A d \in Calls \ {c} : result'[d] = result[d]
          /\ result'[c] \subseteq result[c] \cup {a}
      BY <1>0, <2>1, <2>6, <2>7 DEF TypeOK
    <2>9. OwnOnly'
      <3>1. \A d \in Calls \ crossed' : \A b \in result'[d] : b.call = d
        BY <1>0, <1>1, <2>5, <2>8 DEF OwnOnly
      <3>2. \A b \in net', d \in Calls :
              Owed(d)' # {} /\ Kind[d] = Kind[b.call] /\ d # b.call => {d, b.call} \subseteq crossed'
        BY <1>0, <1>1, <2>3 DEF OwnOnly
      <3>. QED
        BY <3>1, <3>2 DEF OwnOnly
    <2>10. AskedOnce'
      <3>1. ASSUME NEW d \in Calls \ crossed'
            PROVE  /\ \A b \in result'[d] : b.node \in asked'[d]
                   /\ \A e \in net', b \in result'[d] : e.call = d => e.node # b.node
        <4>1. /\ \A b \in result[d] : b.node \in asked[d]
              /\ \A e \in net, b \in result[d] : e.call = d => e.node # b.node
          BY <1>0, <1>1 DEF AskedOnce
        <4>2. CASE d = c
          <5>1. a.call = c /\ a.node \in asked[c]
            BY <1>0, <1>1, <2>5, <4>2 DEF AskedOnce
          <5>2. \A e \in net \ {a} : e.call = c => e.node # a.node
            BY <1>0, <5>1 DEF AskedOnce
          <5>. QED
            BY <1>1, <2>8, <4>1, <4>2, <5>1, <5>2
        <4>3. CASE d # c
          BY <1>1, <2>8, <4>1, <4>3
        <4>. QED
          BY <4>2, <4>3
      <3>. QED
        BY <1>0, <1>1, <3>1 DEF AskedOnce
    <2>11. AllAnswered'
      <3>. SUFFICES ASSUME NEW d \in Calls \ (crossed' \cup expired'), pc'[d] # "threw"
                    PROVE  Cardinality(From(d)') + Cardinality(Owed(d)') =
                             Cardinality(asked'[d]) + (IF pc'[d] = "send" THEN 1 ELSE 0)
        BY DEF AllAnswered
      <3>1. d \in Calls \ crossed /\ d \notin expired /\ pc'[d] = pc[d] /\ asked'[d] = asked[d]
        BY <1>1
      <3>2. /\ Cardinality(From(d)) \in Nat /\ Cardinality(asked[d]) \in Nat
            /\ IsFiniteSet(From(d)) /\ IsFiniteSet(asked[d]) /\ Cardinality(Owed(d)) \in Nat
        BY <1>0, <3>1, FromAsked, OwedFinite
      <3>3. Cardinality(From(d)) + Cardinality(Owed(d)) =
              Cardinality(asked[d]) + (IF pc[d] = "send" THEN 1 ELSE 0)
        BY <1>0, <1>1, <3>1 DEF AllAnswered
      <3>4. CASE d = c
        <4>1. a.call = c /\ result'[c] = Taken(c, a)
          BY <1>0, <1>1, <2>1, <2>5, <2>6, <3>1, <3>4 DEF TypeOK
        <4>2. \A b \in result[c] : b.node # a.node
          BY <1>0, <3>1, <3>4, <4>1 DEF AskedOnce
        <4>3. a.node \notin From(c)
          BY <4>2 DEF From
        <4>4. Kind[c] # "endpoints" => From(c) = {}
          <5>. SUFFICES ASSUME Kind[c] # "endpoints" PROVE From(c) = {}
            OBVIOUS
          <5>1. PICK n \in Nodes : asked[c] \cup todo[c] \subseteq {n}
            BY <1>0, <2>1 DEF AskedOnce
          <5>2. a.node \in asked[c] /\ asked[c] \cap todo[c] = {}
            BY <1>0, <2>1, <4>1 DEF AskedOnce
          <5>3. asked[c] = {n} /\ todo[c] = {}
            BY <5>1, <5>2
          <5>4. Cardinality(asked[c]) = 1 /\ pc[c] # "send"
            BY <1>0, <2>1, <5>3, FS_Singleton DEF TypeOK
          <5>5. Cardinality(Owed(c)) # 0
            BY <1>0, <2>4, NoneOwed
          <5>6. Cardinality(From(c)) = 0
            BY <3>2, <3>3, <3>4, <5>4, <5>5
          <5>. QED
            BY <3>2, <3>4, <5>6, FS_EmptySet
        <4>5. From(c)' = From(c) \cup {a.node}
          <5>1. CASE Kind[c] = "endpoints"
            BY <2>7, <4>1, <5>1 DEF From
          <5>2. CASE Kind[c] # "endpoints"
            BY <2>7, <4>1, <4>4, <5>2 DEF From
          <5>. QED
            BY <5>1, <5>2
        <4>6. Cardinality(From(c) \cup {a.node}) = Cardinality(From(c)) + 1
          BY <3>2, <3>4, <4>3, FS_AddElement
        <4>7. Cardinality(From(c)') = Cardinality(From(c)) + 1
          BY <4>5, <4>6, Zenon
        <4>8. Cardinality(Owed(c)') = Cardinality(Owed(c)) - 1
          BY <2>2
        <4>. QED
          BY <3>1, <3>2, <3>3, <3>4, <4>7, <4>8
      <3>5. CASE d # c
        <4>1. From(d)' = From(d)
          BY <2>8, <3>1, <3>5 DEF From
        <4>2. Cardinality(Owed(d)') = Cardinality(Owed(d))
          BY <2>2, <3>2, <3>5
        <4>. QED
          BY <3>1, <3>3, <4>1, <4>2
      <3>. QED
        BY <3>4, <3>5
    <2>. QED
      BY <2>9, <2>10, <2>11 DEF Own
  <1>5. \/ UNCHANGED <<result, handlers>>
        \/ \E i \in HandlersFor(a) :
             /\ handlers' = HandlerRemoved(i)
             /\ \/ Gone(handlers[i]) /\ UNCHANGED result
                \/ result' = [result EXCEPT ![handlers[i]] = Taken(handlers[i], a)]
    BY DEF Deliver
  <1>. QED
    BY <1>3, <1>4, <1>5

\* Callbacks expire: the calls that lose one are not owed all answers any more.
LEMMA OwnExpired ==
  ASSUME Balance, Own, RequestAssumption, NEW n \in 0..Len(handlers), CallbacksExpire(n)
  PROVE  Own'
  <1>0. TypeOK /\ OwnOnly /\ AskedOnce /\ AllAnswered
    BY DEF Balance, Own
  <1>1. /\ UNCHANGED <<pc, todo, asked, result, net, crossed>>
        /\ handlers' = SubSeq(handlers, n + 1, Len(handlers))
        /\ expired' = expired \cup {handlers[i] : i \in 1..n}
    BY DEF CallbacksExpire, call
  <1> DEFINE k(d) == Cardinality({i \in Owed(d) : i <= n})
  <1>2. /\ handlers' \in Seq(Calls)
        /\ \A d : /\ k(d) \in Nat /\ Cardinality(Owed(d)) \in Nat
                  /\ Cardinality(Owed(d)') = Cardinality(Owed(d)) - k(d)
    BY <1>0, <1>1, OwedExpired, OwedFinite
  <1>3. \A d : Owed(d)' # {} => Owed(d) # {}
    <2>. HIDE DEF k
    <2>1. \A d : Cardinality(Owed(d)') = 0 => Owed(d)' = {}
      BY <1>2, NoneOwedAfter
    <2>2. ASSUME NEW d, Owed(d) = {}
          PROVE  Owed(d)' = {}
      <3>1. Cardinality(Owed(d)) = 0
        BY <1>0, <2>2, NoneOwed
      <3>2. k(d) = 0
        BY <2>2, FS_EmptySet DEF k
      <3>. QED
        BY <1>2, <2>1, <3>1, <3>2
    <2>. QED
      BY <2>2
  <1>4. OwnOnly'
    BY <1>0, <1>1, <1>3 DEF OwnOnly
  <1>5. AskedOnce'
    BY <1>0, <1>1 DEF AskedOnce
  <1>6. AllAnswered'
    <2>. SUFFICES ASSUME NEW d \in Calls \ (crossed' \cup expired'), pc'[d] # "threw"
                  PROVE  Cardinality(From(d)') + Cardinality(Owed(d)') =
                           Cardinality(asked'[d]) + (IF pc'[d] = "send" THEN 1 ELSE 0)
      BY DEF AllAnswered
    <2>1. {i \in Owed(d) : i <= n} = {}
      <3>1. Owed(d) \subseteq 1..Len(handlers) /\ Len(handlers) \in Nat
        BY <1>0, OwedFinite
      <3>2. \A i \in 1..n : handlers[i] # d
        BY <1>1
      <3>. QED
        BY <3>1, <3>2 DEF Owed
    <2>2. k(d) = 0
      BY <2>1, FS_EmptySet
    <2>. HIDE DEF k
    <2>3. Cardinality(Owed(d)') = Cardinality(Owed(d)) /\ From(d)' = From(d)
      BY <1>1, <1>2, <2>2 DEF From
    <2>. QED
      BY <1>0, <1>1, <2>3 DEF AllAnswered
  <1>. QED
    BY <1>4, <1>5, <1>6 DEF Own

\* Every step keeps the answers with their calls.
LEMMA OwnStep ==
  Balance /\ Own /\ RequestAssumption /\ [Next]_vars => Own'
  <1>. SUFFICES ASSUME Balance, Own, RequestAssumption, [Next]_vars
                PROVE  Own'
    OBVIOUS
  <1>0. TypeOK /\ OwnOnly /\ AskedOnce /\ AllAnswered
    BY DEF Balance, Own
  <1>1. ASSUME NEW c \in Calls, SendThrows(c) \/ Wait(c)
        PROVE  Own'
    <2>1. /\ UNCHANGED <<asked, todo, result, handlers, net, crossed, expired>>
          /\ pc[c] \in {"send", "wait"}
          /\ \/ pc' = [pc EXCEPT ![c] = "threw"]
             \/ pc[c] = "wait" /\ pc' = [pc EXCEPT ![c] = IF waits[c] = 1 THEN "returned" ELSE "wait"]
      BY <1>1 DEF SendThrows, Wait, past
    <2>2. \A d \in Calls : pc'[d] # "threw" => (pc'[d] = "send" <=> pc[d] = "send") /\ pc[d] # "threw"
      BY <1>0, <2>1 DEF TypeOK
    <2>3. \A d : Owed(d)' = Owed(d) /\ From(d)' = From(d)
      BY <2>1 DEF Owed, From
    <2>4. OwnOnly' /\ AskedOnce'
      BY <1>0, <2>1, <2>3 DEF OwnOnly, AskedOnce
    <2>5. AllAnswered'
      BY <1>0, <2>1, <2>2, <2>3 DEF AllAnswered
    <2>. QED
      BY <2>4, <2>5 DEF Own
  <1>2. ASSUME ExpireSome
        PROVE  Own'
    <2>1. PICK n \in DOMAIN handlers : CallbacksExpire(n)
      BY <1>2 DEF ExpireSome, Expire
    <2>2. n \in 0..Len(handlers)
      BY <1>0, <2>1, LenProperties DEF TypeOK
    <2>. QED
      BY <2>1, <2>2, OwnExpired
  <1>3. ASSUME FinalPass
        PROVE  Own'
    <2>1. Len(handlers) \in 0..Len(handlers)
      BY <1>0, LenProperties DEF TypeOK
    <2>. QED
      BY <1>3, <2>1, OwnExpired DEF FinalPass
  <1>4. ASSUME LossNoticed \/ Connect \/ Disconnect \/ Break \/ UNCHANGED vars
        PROVE  Own'
    <2>1. UNCHANGED <<pc, asked, todo, result, handlers, net, crossed, expired>>
      BY <1>4 DEF LossNoticed, Connect, Disconnect, Break, vars, call, past
    <2>2. \A d : Owed(d)' = Owed(d) /\ From(d)' = From(d)
      BY <2>1 DEF Owed, From
    <2>3. OwnOnly' /\ AskedOnce'
      BY <1>0, <2>1, <2>2 DEF OwnOnly, AskedOnce
    <2>4. AllAnswered'
      BY <1>0, <2>1, <2>2 DEF AllAnswered
    <2>. QED
      BY <2>3, <2>4 DEF Own
  <1>. QED
    BY <1>1, <1>2, <1>3, <1>4, OwnRegistered, OwnSent, OwnDelivered DEF Next, Caller

\* At first there are no answers.
LEMMA OwnInit == Init /\ RequestAssumption => Own
  <1>. SUFFICES ASSUME Init, RequestAssumption PROVE Own
    OBVIOUS
  <1>1. \A c \in Calls : From(c) = {} /\ Owed(c) = {} /\ asked[c] = {} /\ todo[c] = {}
    BY DEF Init, From, Owed
  <1>2. AskedOnce
    BY <1>1 DEF Init, AskedOnce, RequestAssumption
  <1>3. AllAnswered
    BY <1>1, FS_EmptySet DEF Init, AllAnswered
  <1>. QED
    BY <1>2, <1>3 DEF Init, Own, OwnOnly

\* A call that has not overlapped with the answer to another one of its kind has its own
\* answers only, and when it returns without an expiration the answers of all nodes it has
\* asked.
LEMMA OwnMeans ==
  ASSUME Balance, Own, RequestAssumption
  PROVE  AnswerIsOwn
  <1>0. TypeOK /\ WaitsOver /\ CallbacksBalanced /\ OwnOnly /\ AskedOnce /\ AllAnswered
    BY DEF Balance, Own
  <1>. SUFFICES ASSUME NEW c \in Calls \ crossed
                PROVE  /\ \A a \in result[c] : a.call = c
                       /\ pc[c] = "returned" /\ c \notin expired => From(c) = asked[c]
    BY DEF AnswerIsOwn, From
  <1>1. \A a \in result[c] : a.call = c
    BY <1>0 DEF OwnOnly
  <1>2. ASSUME pc[c] = "returned", c \notin expired
        PROVE  From(c) = asked[c]
    <2>1. /\ From(c) \subseteq asked[c] /\ IsFiniteSet(asked[c])
          /\ Cardinality(From(c)) \in Nat /\ Cardinality(asked[c]) \in Nat
      BY <1>0, FromAsked
    <2>2. sem[c] \in Nat /\ Cardinality(Owed(c)) \in Nat /\ waits[c] = 0
      BY <1>0, <1>2, OwedFinite DEF TypeOK, WaitsOver
    <2>3. sem[c] + Cardinality(Owed(c)) = 0
      BY <1>0, <1>2, <2>2 DEF CallbacksBalanced
    <2>4. Cardinality(From(c)) + Cardinality(Owed(c)) = Cardinality(asked[c])
      BY <1>0, <1>2, <2>1, <2>2 DEF AllAnswered
    <2>5. Cardinality(From(c)) = Cardinality(asked[c])
      BY <2>1, <2>2, <2>3, <2>4
    <2>. QED
      BY <2>1, <2>5, FS_Subset
  <1>. QED
    BY <1>1, <1>2

\* The answers a call is given are its own, however calls, late answers and expirations
\* cross, unless it has overlapped with the answer to another call of its kind.
THEOREM OwnAnswers == Spec => []AnswerIsOwn
  <1>1. Init => Balance /\ Own
    BY BalanceInit, OwnInit, RequestAssumption
  <1>2. Balance /\ Own /\ [Next]_vars => (Balance /\ Own)'
    BY TypeStep, BalanceStep, OwnStep, RequestAssumption DEF Balance
  <1>3. Balance /\ Own => AnswerIsOwn
    BY OwnMeans, RequestAssumption
  <1>. QED
    BY <1>1, <1>2, <1>3, PTL DEF Spec

=============================================================================
