------------------------- MODULE HostEnvironmentProofs -------------------------
(***************************************************************************)
(* Proofs about the hosts of one computation, for any finite sets of hosts *)
(* and tasks, any number of workers, and any connections that may break.   *)
(***************************************************************************)
EXTENDS HostEnvironment, SequenceLemmas

(* The inductive invariant, beside TypeOK *)

\* Where a task can be: in a message from f to h, or (then f is h) with host h
Boxes == {"wire", "closures", "pool", "running", "hand"}

At(t, b, f, h) ==
  \/ b = "wire" /\ Among(t, wire[<<f, h>>])
  \/ b = "closures" /\ f = h /\ Among(t, closures[h])
  \/ b = "pool" /\ f = h /\ t \in pool[h]
  \/ b = "running" /\ f = h /\ t \in running[h]
  \/ b = "hand" /\ f = h /\ t = hand[h]

Nowhere(t) == \A b \in Boxes, f \in Senders, h \in Hosts : ~At(t, b, f, h)

\* A task is in one box ...
Alone(t) ==
  \A b, c \in Boxes, f, g \in Senders, h, i \in Hosts :
    At(t, b, f, h) /\ At(t, c, g, i) => b = c /\ f = g /\ h = i

\* ... and at one place of a queue.
IsTask(m, t) == m.kind = "task" /\ m.task = t
Once(t, s)   == \A i, j \in DOMAIN s : IsTask(s[i], t) /\ IsTask(s[j], t) => i = j

Placed ==
  \A t \in Tasks :
    /\ Alone(t)
    /\ \A f \in Senders, h \in Hosts : Once(t, wire[<<f, h>>])
    /\ \A h \in Hosts : Once(t, closures[h])
    /\ t \notin created \/ t \in done => Nowhere(t)

\* The client sends tables and tasks only.
Has(s, k) == \E i \in DOMAIN s : s[i].kind = k

EmployerSays ==
  \A h \in Hosts : ~Has(wire[<<Employer, h>>], "status") /\ ~Has(wire[<<Employer, h>>], "stop")

\* Until the primary has the table there is no task but Main, which is behind the table.
Follows(s) ==
  \A i \in DOMAIN s : s[i].kind = "task" => \E j \in DOMAIN s : j < i /\ s[j].kind = "table"

TableFirst ==
  Primary \notin table =>
    /\ created = {Main}
    /\ \A b \in Boxes, f \in Senders, h \in Hosts :
         At(Main, b, f, h) => h = Primary /\ (b = "closures" \/ (b = "wire" /\ f = Employer))
    /\ Follows(closures[Primary])
    /\ Primary \in up => Has(closures[Primary], "table") \/ Follows(wire[<<Employer, Primary>>])

\* Nothing ends, fails or is called off without it being known.
EndKnown ==
  ~Ending =>
    /\ up = Hosts /\ interrupt = {}
    /\ \A h \in Hosts : main[h] \in {"loop", "dequeue", "send"} /\ wedged[h] = None
    /\ \A h \in Hosts : ~Has(closures[h], "failed")
    /\ \A f \in Senders, h \in Hosts : ~Has(wire[<<f, h>>], "stop")

\* What TypeOK leaves to the other variables; a host that leaves its loop disconnects.
Shapes ==
  /\ \A h \in Hosts : main[h] \in {"closing", "joining", "ended"} => h \notin up
  /\ wedged \in [Hosts -> Tasks \cup {None}]
  /\ target \in [Hosts -> Hosts \cup {None}]
  /\ hand \in [Hosts -> Tasks \cup {None}]

HostInv == TypeOK /\ Shapes /\ Placed /\ EmployerSays /\ TableFirst /\ EndKnown

-----------------------------------------------------------------------------
(* Messages, closures and queues of them *)

\* What the fields of a message are.
LEMMA Fields ==
  /\ TableMsg.kind = "table" /\ StopMsg.kind = "stop"
  /\ \A t : TaskMsg(t).kind = "task" /\ TaskMsg(t).task = t
  /\ \A n : StatusMsg(n).kind = "status" /\ StatusMsg(n).pending = n
  BY DEF TableMsg, StopMsg, TaskMsg, StatusMsg

\* What can be sent.
LEMMA MessageKinds ==
  /\ TableMsg \in Messages /\ StopMsg \in Messages
  /\ \A t \in Tasks : TaskMsg(t) \in Messages
  /\ \A n \in Counts : StatusMsg(n) \in Messages
  /\ \A m \in Messages :
       /\ m.kind \in {"table", "stop", "task", "status"}
       /\ m.kind = "table" => m = TableMsg
       /\ m.kind = "task" => m.task \in Tasks /\ m = TaskMsg(m.task)
       /\ m.kind = "status" => m.pending \in Counts
  <1>1. \A m \in Messages : \/ m = TableMsg \/ m = StopMsg
                            \/ \E t \in Tasks : m = TaskMsg(t)
                            \/ \E n \in Counts : m = StatusMsg(n)
    BY DEF Messages
  <1>2. ASSUME NEW m \in Messages
        PROVE  /\ m.kind \in {"table", "stop", "task", "status"}
               /\ m.kind = "table" => m = TableMsg
               /\ m.kind = "task" => m.task \in Tasks /\ m = TaskMsg(m.task)
               /\ m.kind = "status" => m.pending \in Counts
    <2>1. CASE m = TableMsg \/ m = StopMsg
      BY <2>1, Fields
    <2>2. CASE \E t \in Tasks : m = TaskMsg(t)
      BY <2>2, Fields
    <2>3. CASE \E n \in Counts : m = StatusMsg(n)
      BY <2>3, Fields
    <2>. QED
      BY <1>1, <2>1, <2>2, <2>3
  <1>3. /\ TableMsg \in Messages /\ StopMsg \in Messages
        /\ \A t \in Tasks : TaskMsg(t) \in Messages
        /\ \A n \in Counts : StatusMsg(n) \in Messages
    BY DEF Messages
  <1>. QED
    BY <1>2, <1>3

\* What can be left for async_dispatch.
LEMMA ClosureKinds ==
  /\ TableMsg \in Closures /\ [kind |-> "failed"] \in Closures
  /\ \A t \in Tasks \ Unknown : TaskMsg(t) \in Closures
  /\ \A n \in Counts, f \in Hosts : [kind |-> "status", pending |-> n, from |-> f] \in Closures
  /\ \A c \in Closures :
       /\ c.kind \in {"table", "failed", "task", "status"}
       /\ c.kind = "task" => c.task \in Tasks \ Unknown
       /\ c.kind = "status" => c.pending \in Counts /\ c.from \in Hosts
  <1> DEFINE S == [kind : {"status"}, pending : Counts, from : Hosts]
  <1>1. \A c \in S : c.kind = "status" /\ c.pending \in Counts /\ c.from \in Hosts
    OBVIOUS
  <1>2. \A n \in Counts, f \in Hosts : [kind |-> "status", pending |-> n, from |-> f] \in S
    OBVIOUS
  <1>3. Closures = {TableMsg, [kind |-> "failed"]} \cup {TaskMsg(t) : t \in Tasks \ Unknown} \cup S
    BY DEF Closures
  <1>. HIDE DEF S
  <1>4. \A c \in Closures : \/ c = TableMsg \/ c = [kind |-> "failed"]
                            \/ \E t \in Tasks \ Unknown : c = TaskMsg(t)
                            \/ c \in S
    BY <1>3
  <1>5. ASSUME NEW c \in Closures
        PROVE  /\ c.kind \in {"table", "failed", "task", "status"}
               /\ c.kind = "task" => c.task \in Tasks \ Unknown
               /\ c.kind = "status" => c.pending \in Counts /\ c.from \in Hosts
    <2>1. CASE c = TableMsg
      BY <2>1, Fields
    <2>2. CASE c = [kind |-> "failed"]
      BY <2>2
    <2>3. CASE \E t \in Tasks \ Unknown : c = TaskMsg(t)
      BY <2>3, Fields
    <2>4. CASE c \in S
      BY <2>4, <1>1
    <2>. QED
      BY <1>4, <2>1, <2>2, <2>3, <2>4
  <1>6. /\ TableMsg \in Closures /\ [kind |-> "failed"] \in Closures
        /\ \A t \in Tasks \ Unknown : TaskMsg(t) \in Closures
        /\ \A n \in Counts, f \in Hosts : [kind |-> "status", pending |-> n, from |-> f] \in Closures
    BY <1>2, <1>3
  <1>. QED
    BY <1>5, <1>6

\* Nothing is in an empty queue.
LEMMA Empty ==
  /\ \A t : ~Among(t, <<>>) /\ Once(t, <<>>)
  /\ \A k : ~Has(<<>>, k)
  /\ Follows(<<>>)
  <1>1. DOMAIN <<>> = {}
    OBVIOUS
  <1>. QED
    BY <1>1 DEF Among, Once, Has, Follows

\* A message that joins a queue.
LEMMA Joined ==
  ASSUME NEW S, NEW s \in Seq(S), NEW e \in S
  PROVE  /\ \A t : Among(t, Append(s, e)) <=> Among(t, s) \/ IsTask(e, t)
         /\ \A t : Once(t, s) /\ ~(Among(t, s) /\ IsTask(e, t)) => Once(t, Append(s, e))
         /\ \A k : Has(Append(s, e), k) <=> Has(s, k) \/ e.kind = k
         /\ Follows(s) /\ (e.kind = "task" => Has(s, "table")) => Follows(Append(s, e))
  <1>1. /\ DOMAIN s = 1..Len(s) /\ Len(s) \in Nat
        /\ DOMAIN Append(s, e) = 1..Len(s) + 1
        /\ \A i \in 1..Len(s) + 1 : Append(s, e)[i] = IF i <= Len(s) THEN s[i] ELSE e
    BY AppendRecord, LenProperties
  <1>2. ASSUME NEW t
        PROVE  /\ Among(t, Append(s, e)) <=> Among(t, s) \/ IsTask(e, t)
               /\ Once(t, s) /\ ~(Among(t, s) /\ IsTask(e, t)) => Once(t, Append(s, e))
    BY <1>1 DEF Among, Once, IsTask
  <1>3. ASSUME NEW k
        PROVE  Has(Append(s, e), k) <=> Has(s, k) \/ e.kind = k
    <2>1. /\ \A i \in 1..Len(s) : i \in 1..Len(s) + 1 /\ Append(s, e)[i] = s[i]
          /\ Len(s) + 1 \in 1..Len(s) + 1 /\ Append(s, e)[Len(s) + 1] = e
          /\ \A i \in 1..Len(s) + 1 : i \in 1..Len(s) \/ i = Len(s) + 1
      BY <1>1
    <2>. QED
      BY <1>1, <2>1 DEF Has
  <1>4. Follows(s) /\ (e.kind = "task" => Has(s, "table")) => Follows(Append(s, e))
    BY <1>1 DEF Has, Follows
  <1>. QED
    BY <1>2, <1>3, <1>4

\* The first message leaves it.
LEMMA Left ==
  ASSUME NEW S, NEW s \in Seq(S), s # <<>>
  PROVE  /\ \A t : Among(t, s) <=> Among(t, Tail(s)) \/ IsTask(Head(s), t)
         /\ \A t : Once(t, s) => Once(t, Tail(s))
         /\ \A t : Once(t, s) /\ IsTask(Head(s), t) => ~Among(t, Tail(s))
         /\ \A k : Has(s, k) <=> Has(Tail(s), k) \/ Head(s).kind = k
         /\ Follows(s) => Head(s).kind # "task"
         /\ Follows(s) /\ Head(s).kind # "table" => Follows(Tail(s))
  <1>1. /\ DOMAIN s = 1..Len(s) /\ Len(s) \in Nat /\ Len(s) > 0 /\ Head(s) = s[1]
        /\ DOMAIN Tail(s) = 1..Len(s) - 1
        /\ \A i \in 1..Len(s) - 1 : Tail(s)[i] = s[i + 1]
    BY TailRecord, LenProperties
  <1>2. \A i \in 1..Len(s) - 1 : i + 1 \in 1..Len(s) /\ i + 1 # 1
    BY <1>1
  <1>3. \A i \in 1..Len(s) : i # 1 => i - 1 \in 1..Len(s) - 1 /\ Tail(s)[i - 1] = s[i]
    BY <1>1
  <1>4. ASSUME NEW t
        PROVE  /\ Among(t, s) <=> Among(t, Tail(s)) \/ IsTask(Head(s), t)
               /\ Once(t, s) => Once(t, Tail(s))
               /\ Once(t, s) /\ IsTask(Head(s), t) => ~Among(t, Tail(s))
    <2>1. Among(t, s) => Among(t, Tail(s)) \/ IsTask(Head(s), t)
      BY <1>1, <1>3 DEF Among, IsTask
    <2>2. Among(t, Tail(s)) \/ IsTask(Head(s), t) => Among(t, s)
      BY <1>1, <1>2 DEF Among, IsTask
    <2>3. Once(t, s) => Once(t, Tail(s))
      BY <1>1, <1>2 DEF Once
    <2>4. Once(t, s) /\ IsTask(Head(s), t) => ~Among(t, Tail(s))
      BY <1>1, <1>2 DEF Once, Among, IsTask
    <2>. QED
      BY <2>1, <2>2, <2>3, <2>4
  <1>5. ASSUME NEW k
        PROVE  Has(s, k) <=> Has(Tail(s), k) \/ Head(s).kind = k
    <2>1. Has(s, k) => Has(Tail(s), k) \/ Head(s).kind = k
      BY <1>1, <1>3 DEF Has
    <2>2. Has(Tail(s), k) \/ Head(s).kind = k => Has(s, k)
      BY <1>1, <1>2 DEF Has
    <2>. QED
      BY <2>1, <2>2
  <1>6. Follows(s) => Head(s).kind # "task"
    BY <1>1 DEF Follows
  <1>7. Follows(s) /\ Head(s).kind # "table" => Follows(Tail(s))
    <2>. SUFFICES ASSUME Follows(s), Head(s).kind # "table",
                         NEW i \in 1..Len(s) - 1, Tail(s)[i].kind = "task"
                  PROVE  \E j \in 1..Len(s) - 1 : j < i /\ Tail(s)[j].kind = "table"
      BY <1>1 DEF Follows
    <2>1. PICK j \in 1..Len(s) : j < i + 1 /\ s[j].kind = "table"
      BY <1>1, <1>2 DEF Follows
    <2>2. j # 1
      BY <2>1, <1>1
    <2>. QED
      BY <2>1, <2>2, <1>1, <1>3
  <1>. QED
    BY <1>4, <1>5, <1>6, <1>7

\* LeaveLoop keeps the closure that is being run, if any.
LEMMA Cropped ==
  ASSUME NEW S, NEW s \in Seq(S), s # <<>>, NEW n \in {0, 1}
  PROVE  /\ SubSeq(s, 1, n) \in Seq(S)
         /\ \A t : Among(t, SubSeq(s, 1, n)) => Among(t, s)
         /\ \A t : Once(t, SubSeq(s, 1, n))
         /\ Follows(s) => Follows(SubSeq(s, 1, n))
  <1>1. Len(s) \in Nat /\ Len(s) > 0 /\ DOMAIN s = 1..Len(s)
    BY TailRecord, LenProperties
  <1>2. \A i \in 1..n : s[i] \in S
    BY <1>1, ElementOfSeq
  <1>3. /\ SubSeq(s, 1, n) \in Seq(S)
        /\ Len(SubSeq(s, 1, n)) = IF 1 <= n THEN n - 1 + 1 ELSE 0
        /\ \A i \in 1..n - 1 + 1 : SubSeq(s, 1, n)[i] = s[1 + i - 1]
    BY <1>1, <1>2, SubSeqProperties
  <1>4. DOMAIN SubSeq(s, 1, n) = 1..n
    BY <1>3, LenProperties
  <1>5. \A i \in DOMAIN SubSeq(s, 1, n) : i = 1 /\ SubSeq(s, 1, n)[i] = s[i] /\ i \in DOMAIN s
    BY <1>1, <1>3, <1>4
  <1>. QED
    BY <1>1, <1>3, <1>5 DEF Among, Once, Follows

-----------------------------------------------------------------------------
(* The wires *)

\* What is under way between two processes is a sequence of messages.
LEMMA Wires ==
  ASSUME TypeOK, NEW f \in Senders, NEW h \in Hosts
  PROVE  wire[<<f, h>>] \in Seq(Messages) /\ <<f, h>> \in Senders \X Hosts
  BY DEF TypeOK

\* SendMessage leaves the message with each host that has a connection.
LEMMA Posted ==
  ASSUME TypeOK, NEW h \in Hosts, NEW G, NEW m \in Messages
  PROVE  /\ Post(h, G, m) \in [Senders \X Hosts -> Seq(Messages)]
         /\ \A f \in Senders, g \in Hosts :
              ~(f = h /\ g \in G \cap up) => Post(h, G, m)[<<f, g>>] = wire[<<f, g>>]
  <1>1. DOMAIN wire = Senders \X Hosts /\ \A p \in Senders \X Hosts : wire[p] \in Seq(Messages)
    BY DEF TypeOK
  <1>2. \A p \in Senders \X Hosts : Append(wire[p], m) \in Seq(Messages)
    BY <1>1, AppendRecord
  <1>3. \A f \in Senders, g \in Hosts :
          <<f, g>> \in Senders \X Hosts /\ <<f, g>>[1] = f /\ <<f, g>>[2] = g
    OBVIOUS
  <1>. QED
    BY <1>1, <1>2, <1>3 DEF Post

\* Of a host without a connection there is nothing left on the way to it.
LEMMA CutOff ==
  ASSUME TypeOK, NEW h \in Hosts
  PROVE  /\ Cut(wire, h) \in [Senders \X Hosts -> Seq(Messages)]
         /\ \A f \in Senders, g \in Hosts :
              Cut(wire, h)[<<f, g>>] = IF g = h THEN <<>> ELSE wire[<<f, g>>]
  <1>1. DOMAIN wire = Senders \X Hosts /\ \A p \in Senders \X Hosts : wire[p] \in Seq(Messages)
    BY DEF TypeOK
  <1>2. \A f \in Senders, g \in Hosts :
          <<f, g>> \in Senders \X Hosts /\ <<f, g>>[1] = f /\ <<f, g>>[2] = g
    OBVIOUS
  <1>3. <<>> \in Seq(Messages)
    OBVIOUS
  <1>. QED
    BY <1>1, <1>2, <1>3 DEF Cut

\* Where a message that is sent can be found.
LEMMA PostedTasks ==
  ASSUME TypeOK, NEW h \in Hosts, NEW G, NEW m \in Messages
  PROVE  \A f \in Senders, g \in Hosts :
           /\ \A t : Among(t, Post(h, G, m)[<<f, g>>]) <=>
                       Among(t, wire[<<f, g>>]) \/ (f = h /\ g \in G \cap up /\ IsTask(m, t))
           /\ \A t : Once(t, wire[<<f, g>>]) /\ ~(Among(t, wire[<<f, g>>]) /\ IsTask(m, t))
                       => Once(t, Post(h, G, m)[<<f, g>>])
           /\ \A k : Has(Post(h, G, m)[<<f, g>>], k) => Has(wire[<<f, g>>], k) \/ (f = h /\ m.kind = k)
  <1>. SUFFICES ASSUME NEW f \in Senders, NEW g \in Hosts
                PROVE  /\ \A t : Among(t, Post(h, G, m)[<<f, g>>]) <=>
                                   Among(t, wire[<<f, g>>]) \/ (f = h /\ g \in G \cap up /\ IsTask(m, t))
                       /\ \A t : Once(t, wire[<<f, g>>]) /\ ~(Among(t, wire[<<f, g>>]) /\ IsTask(m, t))
                                   => Once(t, Post(h, G, m)[<<f, g>>])
                       /\ \A k : Has(Post(h, G, m)[<<f, g>>], k) =>
                                   Has(wire[<<f, g>>], k) \/ (f = h /\ m.kind = k)
    OBVIOUS
  <1>1. wire[<<f, g>>] \in Seq(Messages)
    BY Wires
  <1>2. CASE f = h /\ g \in G \cap up
    <2> DEFINE s == wire[<<f, g>>]
    <2>1. Post(h, G, m)[<<f, g>>] = Append(s, m)
      BY <1>2 DEF Post, TypeOK
    <2>. HIDE DEF s
    <2>2. s \in Seq(Messages)
      BY <1>1 DEF s
    <2>3. /\ \A t : Among(t, Append(s, m)) <=> Among(t, s) \/ IsTask(m, t)
          /\ \A t : Once(t, s) /\ ~(Among(t, s) /\ IsTask(m, t)) => Once(t, Append(s, m))
          /\ \A k : Has(Append(s, m), k) <=> Has(s, k) \/ m.kind = k
      BY <2>2, Joined
    <2>. QED
      BY <1>2, <2>1, <2>3 DEF s
  <1>3. CASE ~(f = h /\ g \in G \cap up)
    <2>1. Post(h, G, m)[<<f, g>>] = wire[<<f, g>>]
      BY <1>3, Posted
    <2>. QED
      BY <1>3, <2>1
  <1>. QED
    BY <1>2, <1>3

-----------------------------------------------------------------------------
(* How a task moves in a step *)

NoNew(t) == \A b \in Boxes, f \in Senders, h \in Hosts : At(t, b, f, h)' => At(t, b, f, h)
Fixed(t) == \A b \in Boxes, f \in Senders, h \in Hosts : At(t, b, f, h)' <=> At(t, b, f, h)
Gone(t)  == Nowhere(t)'
Enters(t, c, g, i) ==
  \A e \in Boxes, k \in Senders, l \in Hosts :
    At(t, e, k, l)' => At(t, e, k, l) \/ (e = c /\ k = g /\ l = i)
Goes(t, c, g, i) ==
  \A b \in Boxes, f \in Senders, h \in Hosts : At(t, b, f, h)' => b = c /\ f = g /\ h = i

\* A task that enters none of the boxes.
LEMMA NothingNew ==
  ASSUME NEW t,
         \A f \in Senders, h \in Hosts : Among(t, wire'[<<f, h>>]) => Among(t, wire[<<f, h>>]),
         \A h \in Hosts : Among(t, closures'[h]) => Among(t, closures[h]),
         \A h \in Hosts : t \in pool'[h] => t \in pool[h],
         \A h \in Hosts : t \in running'[h] => t \in running[h],
         \A h \in Hosts : t = hand'[h] => t = hand[h]
  PROVE  NoNew(t)
  <1>. SUFFICES ASSUME NEW b \in Boxes, NEW f \in Senders, NEW h \in Hosts, At(t, b, f, h)'
                PROVE  At(t, b, f, h)
    BY DEF NoNew
  <1>1. b \in {"wire", "closures", "pool", "running", "hand"}
    BY DEF Boxes
  <1>2. /\ At(t, "wire", f, h)' => At(t, "wire", f, h)
        /\ At(t, "closures", f, h)' => At(t, "closures", f, h)
        /\ At(t, "pool", f, h)' => At(t, "pool", f, h)
        /\ At(t, "running", f, h)' => At(t, "running", f, h)
        /\ At(t, "hand", f, h)' => At(t, "hand", f, h)
    BY DEF At, Among
  <1>. QED
    BY <1>1, <1>2

\* A task that stays in its box.
LEMMA NothingMoves ==
  ASSUME NEW t,
         \A f \in Senders, h \in Hosts : Among(t, wire'[<<f, h>>]) <=> Among(t, wire[<<f, h>>]),
         \A h \in Hosts : Among(t, closures'[h]) <=> Among(t, closures[h]),
         \A h \in Hosts : t \in pool'[h] <=> t \in pool[h],
         \A h \in Hosts : t \in running'[h] <=> t \in running[h],
         \A h \in Hosts : t = hand'[h] <=> t = hand[h]
  PROVE  Fixed(t)
  <1>. SUFFICES ASSUME NEW b \in Boxes, NEW f \in Senders, NEW h \in Hosts
                PROVE  At(t, b, f, h)' <=> At(t, b, f, h)
    BY DEF Fixed
  <1>1. b \in {"wire", "closures", "pool", "running", "hand"}
    BY DEF Boxes
  <1>2. /\ At(t, "wire", f, h)' <=> At(t, "wire", f, h)
        /\ At(t, "closures", f, h)' <=> At(t, "closures", f, h)
        /\ At(t, "pool", f, h)' <=> At(t, "pool", f, h)
        /\ At(t, "running", f, h)' <=> At(t, "running", f, h)
        /\ At(t, "hand", f, h)' <=> At(t, "hand", f, h)
    BY DEF At, Among
  <1>. QED
    BY <1>1, <1>2

\* A task that is in one box stays there or is gone.
LEMMA StaysOrGoes ==
  ASSUME NEW t, Alone(t), NoNew(t)
  PROVE  Fixed(t) \/ Gone(t)
  <1>1. CASE \E b \in Boxes, f \in Senders, h \in Hosts : At(t, b, f, h)'
    <2>1. PICK b \in Boxes, f \in Senders, h \in Hosts : At(t, b, f, h)'
      BY <1>1
    <2>2. At(t, b, f, h)
      BY <2>1 DEF NoNew
    <2>. QED
      BY <2>1, <2>2 DEF Fixed, NoNew, Alone
  <1>2. CASE ~\E b \in Boxes, f \in Senders, h \in Hosts : At(t, b, f, h)'
    BY <1>2 DEF Gone, Nowhere
  <1>. QED
    BY <1>1, <1>2

\* A task that leaves its box is at most in the box it is put into.
LEMMA Shifted ==
  ASSUME NEW t, Alone(t),
         NEW b \in Boxes, NEW f \in Senders, NEW h \in Hosts,
         At(t, b, f, h), ~At(t, b, f, h)',
         NEW c, NEW g, NEW i,
         Enters(t, c, g, i)
  PROVE  Goes(t, c, g, i)
  BY DEF Alone, Goes, Enters

\* What a step has to show of the tasks: none is in two boxes, or at two places of a queue,
\* and those that are not created or done are nowhere.
LEMMA PlacedKept ==
  ASSUME Placed,
         \A t \in Tasks :
           /\ \/ Fixed(t) \/ Gone(t)
              \/ \E c \in Boxes, g \in Senders, i \in Hosts : Goes(t, c, g, i) /\ t \in created' /\ t \notin done'
           /\ \/ Gone(t)
              \/ (t \in created => t \in created') /\ (t \in done' => t \in done)
           /\ \A f \in Senders, h \in Hosts : Once(t, wire'[<<f, h>>])
           /\ \A h \in Hosts : Once(t, closures'[h])
  PROVE  Placed'
  <1>. SUFFICES ASSUME NEW t \in Tasks
                PROVE  /\ Alone(t)'
                       /\ \A f \in Senders, h \in Hosts : Once(t, wire'[<<f, h>>])
                       /\ \A h \in Hosts : Once(t, closures'[h])
                       /\ t \notin created' \/ t \in done' => Nowhere(t)'
    BY DEF Placed, Once
  <1>0. Alone(t) /\ (t \notin created \/ t \in done => Nowhere(t))
    BY DEF Placed
  <1>1. CASE Fixed(t)
    <2>1. Alone(t)'
      BY <1>0, <1>1 DEF Alone, Fixed
    <2>2. t \notin created' \/ t \in done' => Nowhere(t)'
      BY <1>0, <1>1 DEF Nowhere, Fixed, Gone
    <2>. QED
      BY <2>1, <2>2
  <1>2. CASE Gone(t)
    BY <1>2 DEF Gone, Nowhere, Alone
  <1>3. CASE \E c \in Boxes, g \in Senders, i \in Hosts : Goes(t, c, g, i) /\ t \in created' /\ t \notin done'
    BY <1>3 DEF Goes, Alone
  <1>. QED
    BY <1>1, <1>2, <1>3

-----------------------------------------------------------------------------
(* What Computation sees of a step *)

Runs(t) == \E h \in Hosts : t \in running[h]
Stay(t) == (Runs(t)' <=> Runs(t)) /\ (Nowhere(t)' <=> Nowhere(t))

\* A step in which tasks are neither created nor begun nor done, and none is lost unless
\* the computation ends.
Quiet ==
  /\ created' = created /\ done' = done
  /\ \A t \in Tasks : Stay(t) \/ (Gone(t) /\ Ending')
  /\ Ending => Ending'

\* A task is with a host or on the way to one when it is in one of the boxes.
LEMMA Located ==
  ASSUME TypeOK, NEW t
  PROVE  Holders(t) # {} \/ Sent(t) # {} <=> ~Nowhere(t)
  <1>1. \A h \in Hosts : h \in Senders
    BY DEF Senders
  <1>2. Sent(t) # {} <=> \E f \in Senders, h \in Hosts : Among(t, wire[<<f, h>>])
    <2>1. DOMAIN wire = Senders \X Hosts
      BY DEF TypeOK
    <2>2. \A p \in Senders \X Hosts : \E f \in Senders, h \in Hosts : p = <<f, h>>
      OBVIOUS
    <2>3. \A f \in Senders, h \in Hosts : <<f, h>> \in Senders \X Hosts
      OBVIOUS
    <2>4. Sent(t) # {} <=> \E p \in Senders \X Hosts : Among(t, wire[p])
      BY <2>1 DEF Sent
    <2>. QED
      BY <2>2, <2>3, <2>4
  <1>3. Holders(t) # {} <=> \E h \in Hosts : \/ Among(t, closures[h]) \/ t \in pool[h]
                                             \/ t \in running[h] \/ t = hand[h]
    <2>1. ASSUME NEW h \in Hosts
          PROVE  HeldBy(t, h) # {} <=> \/ Among(t, closures[h]) \/ t \in pool[h]
                                       \/ t \in running[h] \/ t = hand[h]
      <3>1. /\ 1 \in HeldBy(t, h) <=> Among(t, closures[h])
            /\ 2 \in HeldBy(t, h) <=> t \in pool[h]
            /\ 3 \in HeldBy(t, h) <=> t \in running[h]
            /\ 4 \in HeldBy(t, h) <=> t = hand[h]
            /\ \A k \in HeldBy(t, h) : k = 1 \/ k = 2 \/ k = 3 \/ k = 4
        <4>1. \A k \in 1..4 : k = 1 \/ k = 2 \/ k = 3 \/ k = 4
          OBVIOUS
        <4>2. HeldBy(t, h) \subseteq 1..4
          BY DEF HeldBy
        <4>3. 1 \in HeldBy(t, h) <=> Among(t, closures[h])
          BY DEF HeldBy
        <4>4. 2 \in HeldBy(t, h) <=> t \in pool[h]
          BY DEF HeldBy
        <4>5. 3 \in HeldBy(t, h) <=> t \in running[h]
          BY DEF HeldBy
        <4>6. 4 \in HeldBy(t, h) <=> t = hand[h]
          BY DEF HeldBy
        <4>. QED
          BY <4>1, <4>2, <4>3, <4>4, <4>5, <4>6
      <3>. QED
        BY <3>1
    <2>. QED
      BY <2>1 DEF Holders
  <1>4. (\E h \in Hosts : Among(t, closures[h])) => ~Nowhere(t)
    BY <1>1 DEF Nowhere, At, Boxes, Among
  <1>5. (\E h \in Hosts : t \in pool[h]) => ~Nowhere(t)
    BY <1>1 DEF Nowhere, At, Boxes, Among
  <1>6. (\E h \in Hosts : t \in running[h]) => ~Nowhere(t)
    BY <1>1 DEF Nowhere, At, Boxes, Among
  <1>7. (\E h \in Hosts : t = hand[h]) => ~Nowhere(t)
    BY <1>1 DEF Nowhere, At, Boxes, Among
  <1>8. (\E f \in Senders, h \in Hosts : Among(t, wire[<<f, h>>])) => ~Nowhere(t)
    BY DEF Nowhere, At, Boxes, Among
  <1>9. ASSUME NEW b \in Boxes, NEW f \in Senders, NEW h \in Hosts, At(t, b, f, h)
        PROVE  \/ Among(t, wire[<<f, h>>]) \/ Among(t, closures[h]) \/ t \in pool[h]
               \/ t \in running[h] \/ t = hand[h]
    BY <1>9 DEF At
  <1>10. ~Nowhere(t) => \E b \in Boxes, f \in Senders, h \in Hosts : At(t, b, f, h)
    BY DEF Nowhere
  <1>11. ~Nowhere(t) => \/ \E f \in Senders, h \in Hosts : Among(t, wire[<<f, h>>])
                        \/ \E h \in Hosts : \/ Among(t, closures[h]) \/ t \in pool[h]
                                            \/ t \in running[h] \/ t = hand[h]
    BY <1>9, <1>10
  <1>. QED
    BY <1>2, <1>3, <1>4, <1>5, <1>6, <1>7, <1>8, <1>11

\* The phases, by the boxes.
LEMMA PhaseIs ==
  TypeOK => \A t \in Tasks :
    PhaseOf(t) = IF t \notin created THEN "new"
                 ELSE IF t \in done THEN "done"
                 ELSE IF Runs(t) THEN "running"
                 ELSE IF ~Nowhere(t) THEN "waiting" ELSE "lost"
  BY Located DEF PhaseOf, Runs

\* The same after a step.
LEMMA PhaseAfter ==
  TypeOK' => \A t \in Tasks :
    PhaseOf(t)' = IF t \notin created' THEN "new"
                  ELSE IF t \in done' THEN "done"
                  ELSE IF Runs(t)' THEN "running"
                  ELSE IF ~Nowhere(t)' THEN "waiting" ELSE "lost"
  <1>1. (TypeOK => \A t \in Tasks :
           PhaseOf(t) = IF t \notin created THEN "new"
                        ELSE IF t \in done THEN "done"
                        ELSE IF Runs(t) THEN "running"
                        ELSE IF ~Nowhere(t) THEN "waiting" ELSE "lost")'
    BY PhaseIs, PTL
  <1>. QED
    BY <1>1

\* A quiet step is the end of the computation, or nothing.
LEMMA QuietStep ==
  ASSUME TypeOK, TypeOK', Quiet
  PROVE  [Promise!Next]_(Promise!vars)
  <1>1. ASSUME NEW t \in Tasks
        PROVE  PhaseOf(t)' = PhaseOf(t) \/ (PhaseOf(t)' = "lost" /\ PhaseOf(t) # "done" /\ Ending')
    <2>1. created' = created /\ done' = done /\ (Stay(t) \/ (Gone(t) /\ Ending'))
      BY DEF Quiet
    <2>2. PhaseOf(t) = IF t \notin created THEN "new"
                       ELSE IF t \in done THEN "done"
                       ELSE IF Runs(t) THEN "running"
                       ELSE IF ~Nowhere(t) THEN "waiting" ELSE "lost"
      BY PhaseIs
    <2>3. PhaseOf(t)' = IF t \notin created' THEN "new"
                        ELSE IF t \in done' THEN "done"
                        ELSE IF Runs(t)' THEN "running"
                        ELSE IF ~Nowhere(t)' THEN "waiting" ELSE "lost"
      BY PhaseAfter
    <2>4. CASE Stay(t)
      BY <2>1, <2>2, <2>3, <2>4 DEF Stay
    <2>5. CASE Gone(t) /\ Ending'
      <3>1. ~Runs(t)'
        BY <2>5 DEF Gone, Nowhere, At, Runs, Boxes, Senders
      <3>2. Nowhere(t)'
        BY <2>5 DEF Gone
      <3>. QED
        BY <2>1, <2>2, <2>3, <2>5, <3>1, <3>2
    <2>. QED
      BY <2>1, <2>4, <2>5
  <1>2. ASSUME NEW t \in Tasks
        PROVE  PhaseOf(t)' \in Promise!Phases
    BY PhaseAfter DEF Promise!Phases
  <1>3. Ending \in BOOLEAN /\ Ending' \in BOOLEAN
    BY DEF Ending, TypeOK
  <1>4. CASE Ending'
    <2>1. Ending' = TRUE
      BY <1>3, <1>4
    <2>2. Promise!End
      BY <1>1, <1>2, <2>1 DEF Promise!End
    <2>. QED
      BY <2>2 DEF Promise!Next
  <1>5. CASE ~Ending'
    <2>1. Ending' = Ending
      BY <1>3, <1>5 DEF Quiet
    <2>2. [t \in Tasks |-> PhaseOf(t)]' = [t \in Tasks |-> PhaseOf(t)]
      BY <1>1, <1>5
    <2>. QED
      BY <2>1, <2>2 DEF Promise!vars
  <1>. QED
    BY <1>4, <1>5

\* A step in which one task changes its phase.
LEMMA OneChanges ==
  ASSUME NEW t \in Tasks,
         \A u \in Tasks \ {t} : PhaseOf(u)' = PhaseOf(u)
  PROVE  [u \in Tasks |-> PhaseOf(u)]' = [[u \in Tasks |-> PhaseOf(u)] EXCEPT ![t] = PhaseOf(t)']
  OBVIOUS

-----------------------------------------------------------------------------
(* Steps by which no task enters a box *)

\* A task that stays in its box is as it was.
LEMMA FixedStays ==
  ASSUME NEW t, Fixed(t)
  PROVE  Stay(t)
  <1>1. Nowhere(t)' <=> Nowhere(t)
    BY DEF Fixed, Nowhere
  <1>2. \A h \in Hosts : h \in Senders /\ "running" \in Boxes
    BY DEF Senders, Boxes
  <1>3. \A h \in Hosts : t \in running'[h] <=> t \in running[h]
    <2>1. \A h \in Hosts : At(t, "running", h, h) <=> t \in running[h]
      BY DEF At
    <2>2. \A h \in Hosts : At(t, "running", h, h)' <=> t \in running'[h]
      BY DEF At
    <2>. QED
      BY <1>2, <2>1, <2>2 DEF Fixed
  <1>. QED
    BY <1>1, <1>3 DEF Stay, Runs

\* What is known of the tasks after such a step.
LEMMA Dropped ==
  ASSUME HostInv, \A t \in Tasks : NoNew(t), created' = created, done' = done,
         \A t \in Tasks : /\ \A f \in Senders, h \in Hosts : Once(t, wire'[<<f, h>>])
                          /\ \A h \in Hosts : Once(t, closures'[h]),
         Ending => Ending', (\A t \in Tasks : Fixed(t)) \/ Ending'
  PROVE  Placed' /\ Quiet
  <1>1. Placed
    BY DEF HostInv
  <1>2. \A t \in Tasks : Fixed(t) \/ Gone(t)
    BY <1>1, StaysOrGoes DEF Placed
  <1>3. Placed'
    BY <1>1, <1>2, PlacedKept
  <1>4. Quiet
    BY <1>2, FixedStays DEF Quiet
  <1>. QED
    BY <1>3, <1>4

\* And of the table.
LEMMA TableKept ==
  ASSUME HostInv, NoNew(Main), created' = created, table \subseteq table',
         Follows(closures[Primary]) => Follows(closures'[Primary]),
         up' \subseteq up,
         \/ Primary \notin up'
         \/ Has(closures[Primary], "table") \/ Follows(wire[<<Employer, Primary>>]) =>
              Has(closures'[Primary], "table") \/ Follows(wire'[<<Employer, Primary>>])
  PROVE  TableFirst'
  <1>. SUFFICES ASSUME Primary \notin table'
                PROVE  TableFirst'
    BY DEF TableFirst
  <1>1. /\ created = {Main}
        /\ \A b \in Boxes, f \in Senders, h \in Hosts :
             At(Main, b, f, h) => h = Primary /\ (b = "closures" \/ (b = "wire" /\ f = Employer))
        /\ Follows(closures[Primary])
        /\ Primary \in up => Has(closures[Primary], "table") \/ Follows(wire[<<Employer, Primary>>])
    BY DEF HostInv, TableFirst
  <1>2. \A b \in Boxes, f \in Senders, h \in Hosts :
          At(Main, b, f, h)' => h = Primary /\ (b = "closures" \/ (b = "wire" /\ f = Employer))
    BY <1>1 DEF NoNew
  <1>3. /\ Follows(closures'[Primary])
        /\ Primary \in up' => Has(closures'[Primary], "table") \/ Follows(wire'[<<Employer, Primary>>])
    BY <1>1
  <1>. QED
    BY <1>1, <1>2, <1>3 DEF TableFirst, Follows, Has

\* A host that goes down, that ends or that hangs is a sign of the end.
LEMMA EndsIfDown ==
  ASSUME EndKnown, NEW h \in Hosts,
         h \notin up \/ h \in interrupt \/ main[h] \in {"closing", "joining", "ended"} \/ wedged[h] # None
  PROVE  Ending
  BY DEF EndKnown

\* The process of a host goes down.
LEMMA DieStep ==
  ASSUME HostInv, NEW h \in Hosts, Die(h), wedged[h] = None, Ending', disturbed' \in BOOLEAN
  PROVE  HostInv' /\ Quiet
  <1>1. TypeOK /\ Shapes /\ Placed /\ EmployerSays
    BY DEF HostInv
  <1>2. /\ wire' \in [Senders \X Hosts -> Seq(Messages)]
        /\ \A f \in Senders, g \in Hosts : wire'[<<f, g>>] = IF g = h THEN <<>> ELSE wire[<<f, g>>]
    BY <1>1, CutOff DEF Die
  <1>3. /\ \A g \in Hosts : closures'[g] = IF g = h THEN <<>> ELSE closures[g]
        /\ \A g \in Hosts : pool'[g] = IF g = h THEN {} ELSE pool[g]
        /\ \A g \in Hosts : running'[g] = IF g = h THEN {} ELSE running[g]
        /\ \A g \in Hosts : hand'[g] = IF g = h THEN None ELSE hand[g]
        /\ created' = created /\ done' = done /\ table' = table
    BY <1>1 DEF Die, TypeOK, Shapes, env
  <1>4. \A t \in Tasks : NoNew(t)
    <2>. TAKE t \in Tasks
    <2>1. t # None
      BY HostAssumption
    <2>. QED
      BY <1>2, <1>3, <2>1, Empty, NothingNew
  <1>5. \A t \in Tasks : /\ \A f \in Senders, g \in Hosts : Once(t, wire'[<<f, g>>])
                         /\ \A g \in Hosts : Once(t, closures'[g])
    BY <1>1, <1>2, <1>3, Empty DEF Placed
  <1>6. Placed' /\ Quiet
    BY <1>3, <1>4, <1>5, Dropped
  <1>7. TypeOK' /\ Shapes'
    <2>1. closures' \in [Hosts -> Seq(Closures)]
      BY <1>1 DEF Die, TypeOK
    <2>. QED
      BY <1>1, <1>2, <2>1 DEF Die, TypeOK, Shapes, env
  <1>8. EmployerSays'
    BY <1>1, <1>2, Empty DEF EmployerSays, Senders, Has
  <1>9. TableFirst'
    <2>1. Employer \in Senders /\ Primary \in Hosts /\ Main \in Tasks
      BY HostAssumption DEF Senders
    <2>2. up' = up \ {h}
      BY DEF Die
    <2>. QED
      BY <1>2, <1>3, <1>4, <2>1, <2>2, Empty, TableKept
  <1>. QED
    BY <1>6, <1>7, <1>8, <1>9 DEF HostInv, EndKnown

\* async_dispatch takes its next closure.
LEMMA Taken ==
  ASSUME TypeOK, NEW h \in Hosts, closures[h] # <<>>
  PROVE  /\ Head(closures[h]) \in Closures
         /\ ClosuresLeft(h) \in [Hosts -> Seq(Closures)]
         /\ \A g \in Hosts : g # h => ClosuresLeft(h)[g] = closures[g]
         /\ \A g \in Hosts, t \in Tasks :
              /\ Among(t, ClosuresLeft(h)[g]) => Among(t, closures[g])
              /\ Head(closures[h]).kind # "task" => (Among(t, ClosuresLeft(h)[g]) <=> Among(t, closures[g]))
              /\ Once(t, closures[g]) => Once(t, ClosuresLeft(h)[g])
         /\ \A g \in Hosts : \A k :
              /\ Has(ClosuresLeft(h)[g], k) => Has(closures[g], k)
              /\ Head(closures[h]).kind # k => (Has(ClosuresLeft(h)[g], k) <=> Has(closures[g], k))
         /\ \A g \in Hosts : Follows(closures[g]) /\ (g = h => Head(closures[h]).kind # "table")
                               => Follows(ClosuresLeft(h)[g])
         /\ Follows(closures[h]) => Head(closures[h]).kind # "task"
         /\ \A t : Head(closures[h]).kind = "task" /\ Head(closures[h]).task = t =>
                     Among(t, closures[h]) /\ (Once(t, closures[h]) => ~Among(t, ClosuresLeft(h)[h]))
  <1> DEFINE s == closures[h]
  <1>1. s \in Seq(Closures) /\ s # <<>>
    BY DEF TypeOK
  <1>2. Head(s) \in Closures /\ Tail(s) \in Seq(Closures)
    BY <1>1, TailRecord
  <1>3. /\ ClosuresLeft(h) \in [Hosts -> Seq(Closures)]
        /\ ClosuresLeft(h)[h] = Tail(s)
        /\ \A g \in Hosts : g # h => ClosuresLeft(h)[g] = closures[g]
    BY <1>2 DEF ClosuresLeft, TypeOK
  <1>4. /\ \A t : Among(t, s) <=> Among(t, Tail(s)) \/ IsTask(Head(s), t)
        /\ \A t : Once(t, s) => Once(t, Tail(s))
        /\ \A t : Once(t, s) /\ IsTask(Head(s), t) => ~Among(t, Tail(s))
        /\ \A k : Has(s, k) <=> Has(Tail(s), k) \/ Head(s).kind = k
        /\ Follows(s) => Head(s).kind # "task"
        /\ Follows(s) /\ Head(s).kind # "table" => Follows(Tail(s))
    <2>. HIDE DEF s
    <2>. QED
      BY <1>1, Left
  <1> DEFINE T == Tail(s)
             m == Head(s)
             L == ClosuresLeft(h)
  <1>5. m \in Closures /\ L \in [Hosts -> Seq(Closures)] /\ s = closures[h] /\ L[h] = T
    BY <1>2, <1>3
  <1>. HIDE DEF s, T, m, L
  <1>6. \A g \in Hosts : g # h => L[g] = closures[g]
    BY <1>3 DEF L
  <1>7. /\ \A t : Among(t, s) <=> Among(t, T) \/ IsTask(m, t)
        /\ \A t : Once(t, s) => Once(t, T)
        /\ \A t : Once(t, s) /\ IsTask(m, t) => ~Among(t, T)
        /\ \A k : Has(s, k) <=> Has(T, k) \/ m.kind = k
        /\ Follows(s) => m.kind # "task"
        /\ Follows(s) /\ m.kind # "table" => Follows(T)
    BY <1>4 DEF T, m
  <1>8. \A g \in Hosts, t \in Tasks :
          /\ Among(t, L[g]) => Among(t, closures[g])
          /\ m.kind # "task" => (Among(t, L[g]) <=> Among(t, closures[g]))
          /\ Once(t, closures[g]) => Once(t, L[g])
    BY <1>5, <1>6, <1>7 DEF IsTask
  <1>9. \A g \in Hosts : \A k :
          /\ Has(L[g], k) => Has(closures[g], k)
          /\ m.kind # k => (Has(L[g], k) <=> Has(closures[g], k))
    BY <1>5, <1>6, <1>7
  <1>10. \A g \in Hosts : Follows(closures[g]) /\ (g = h => m.kind # "table") => Follows(L[g])
    BY <1>5, <1>6, <1>7
  <1>11. \A t : m.kind = "task" /\ m.task = t => Among(t, s) /\ (Once(t, s) => ~Among(t, L[h]))
    BY <1>5, <1>7 DEF IsTask
  <1>. QED
    BY <1>5, <1>6, <1>7, <1>8, <1>9, <1>10, <1>11 DEF L, m, s

\* A host calls the computation off, or ends in the attempt; cls is what is left for
\* async_dispatch.
LEMMA TerminateStep ==
  ASSUME HostInv, NEW h \in Hosts, wedged[h] = None,
         NEW cls, cls \in [Hosts -> Seq(Closures)],
         \A g \in Hosts, t \in Tasks :
           /\ Among(t, cls[g]) => Among(t, closures[g])
           /\ Once(t, closures[g]) => Once(t, cls[g]),
         Follows(closures[Primary]) => Follows(cls[Primary]),
         Has(closures[Primary], "table") => Has(cls[Primary], "table"),
         Terminate(h, cls)
  PROVE  HostInv' /\ Quiet
  <1>1. TypeOK /\ Shapes /\ Placed /\ EmployerSays /\ EndKnown
    BY DEF HostInv
  <1>2. CASE h \in up \/ OtherHosts(h) = {}
    <2>1. /\ closures' = cls
          /\ interrupt' = interrupt \cup {h}
          /\ wire' = Post(h, OtherHosts(h), StopMsg)
          /\ stopper' = IF stopper = None /\ h \in table THEN h ELSE stopper
          /\ disturbed' = (disturbed \/ h \notin table)
          /\ UNCHANGED <<up, env, work, loop, created, done, failed>>
      BY <1>2 DEF Terminate
    <2>2. /\ up' = up /\ table' = table /\ view' = view /\ pool' = pool /\ running' = running
          /\ wedged' = wedged /\ main' = main /\ target' = target /\ hand' = hand
          /\ created' = created /\ done' = done /\ failed' = failed
      BY <2>1 DEF env, work, loop
    <2>3. StopMsg \in Messages /\ StopMsg.kind = "stop" /\ \A t : ~IsTask(StopMsg, t)
      BY MessageKinds, Fields DEF IsTask
    <2>4. /\ wire' \in [Senders \X Hosts -> Seq(Messages)]
          /\ \A f \in Senders, g \in Hosts : f # h => wire'[<<f, g>>] = wire[<<f, g>>]
          /\ \A f \in Senders, g \in Hosts, t \in Tasks :
               /\ Among(t, wire'[<<f, g>>]) <=> Among(t, wire[<<f, g>>])
               /\ Once(t, wire[<<f, g>>]) => Once(t, wire'[<<f, g>>])
      <3> DEFINE W == Post(h, OtherHosts(h), StopMsg)
      <3>1. /\ W \in [Senders \X Hosts -> Seq(Messages)]
            /\ \A f \in Senders, g \in Hosts : f # h => W[<<f, g>>] = wire[<<f, g>>]
        <4>1. W \in [Senders \X Hosts -> Seq(Messages)]
          BY <1>1, <2>3, Posted
        <4>2. \A f \in Senders, g \in Hosts : f # h => W[<<f, g>>] = wire[<<f, g>>]
          BY <1>1 DEF Post, TypeOK
        <4>. QED
          BY <4>1, <4>2
      <3>2. \A f \in Senders, g \in Hosts :
              /\ \A t : Among(t, W[<<f, g>>]) <=>
                          Among(t, wire[<<f, g>>]) \/ (f = h /\ g \in OtherHosts(h) \cap up /\ IsTask(StopMsg, t))
              /\ \A t : Once(t, wire[<<f, g>>]) /\ ~(Among(t, wire[<<f, g>>]) /\ IsTask(StopMsg, t))
                          => Once(t, W[<<f, g>>])
        BY <1>1, <2>3, PostedTasks
      <3>3. wire' = W
        BY <2>1
      <3>. HIDE DEF W
      <3>. QED
        BY <2>3, <3>1, <3>2, <3>3
    <2>5. Ending'
      BY <2>1, HostAssumption DEF Ending
    <2>6. TypeOK' /\ Shapes'
      BY <1>1, <2>1, <2>2, <2>4 DEF TypeOK, Shapes
    <2>7. \A t \in Tasks : NoNew(t)
      BY <2>1, <2>2, <2>4, NothingNew
    <2>8. \A t \in Tasks : /\ \A f \in Senders, g \in Hosts : Once(t, wire'[<<f, g>>])
                           /\ \A g \in Hosts : Once(t, closures'[g])
      BY <1>1, <2>1, <2>4 DEF Placed
    <2>9. Placed' /\ Quiet
      BY <2>2, <2>5, <2>7, <2>8, Dropped
    <2>10. Employer \in Senders /\ Primary \in Hosts /\ Main \in Tasks /\ Employer # h
      BY HostAssumption DEF Senders
    <2>11. EmployerSays'
      BY <1>1, <2>4, <2>10 DEF EmployerSays, Has
    <2>12. TableFirst'
      BY <2>1, <2>2, <2>4, <2>7, <2>10, TableKept
    <2>. QED
      BY <2>5, <2>6, <2>9, <2>11, <2>12 DEF HostInv, EndKnown
  <1>3. CASE ~(h \in up \/ OtherHosts(h) = {})
    <2>1. Die(h) /\ disturbed' = disturbed
      BY <1>3 DEF Terminate
    <2>2. Ending
      BY <1>1, <1>3, EndsIfDown
    <2>3. Ending' /\ disturbed' \in BOOLEAN
      BY <1>1, <2>1, <2>2 DEF Ending, Die, TypeOK
    <2>. QED
      BY <2>1, <2>3, DieStep
  <1>. QED
    BY <1>2, <1>3

\* A task that cannot be restored calls the computation off.
LEMMA FailedStep ==
  ASSUME HostInv, NEW h \in Hosts, TaskFailedToRestore(h)
  PROVE  HostInv' /\ Quiet
  <1>1. /\ closures[h] # <<>> /\ Head(closures[h]).kind = "failed" /\ wedged[h] = None
        /\ Terminate(h, ClosuresLeft(h))
    BY DEF TaskFailedToRestore, IsNext
  <1>2. TypeOK /\ Primary \in Hosts
    BY HostAssumption DEF HostInv
  <1>3. /\ ClosuresLeft(h) \in [Hosts -> Seq(Closures)]
        /\ \A g \in Hosts, t \in Tasks :
             /\ Among(t, ClosuresLeft(h)[g]) => Among(t, closures[g])
             /\ Once(t, closures[g]) => Once(t, ClosuresLeft(h)[g])
        /\ Follows(closures[Primary]) => Follows(ClosuresLeft(h)[Primary])
        /\ Has(closures[Primary], "table") => Has(ClosuresLeft(h)[Primary], "table")
    <2>1. /\ ClosuresLeft(h) \in [Hosts -> Seq(Closures)]
          /\ \A g \in Hosts, t \in Tasks :
               /\ Among(t, ClosuresLeft(h)[g]) => Among(t, closures[g])
               /\ Once(t, closures[g]) => Once(t, ClosuresLeft(h)[g])
      BY <1>1, <1>2, Taken
    <2>2. \A g \in Hosts : Follows(closures[g]) => Follows(ClosuresLeft(h)[g])
      BY <1>1, <1>2, Taken
    <2>3. \A g \in Hosts : Has(closures[g], "table") <=> Has(ClosuresLeft(h)[g], "table")
      BY <1>1, <1>2, Taken
    <2>. QED
      BY <1>2, <2>1, <2>2, <2>3
  <1>. QED
    BY <1>1, <1>3, TerminateStep

\* So may a task that has its output.
LEMMA DeclareStep ==
  ASSUME HostInv, NEW h \in Hosts, NEW t \in Tasks, DeclareOutputAndTerminate(h, t)
  PROVE  HostInv' /\ Quiet
  <1>1. wedged[h] = None /\ Terminate(h, closures)
    BY DEF DeclareOutputAndTerminate, DeclareOutput
  <1>2. closures \in [Hosts -> Seq(Closures)]
    BY DEF HostInv, TypeOK
  <1>. QED
    BY <1>1, <1>2, TerminateStep

\* The revision that finds no connection.
LEMMA RevisionFailsStep ==
  ASSUME HostInv, NEW h \in Hosts, RevisionFails(h)
  PROVE  HostInv' /\ Quiet
  <1>1. h \notin up /\ wedged[h] = None /\ Die(h) /\ disturbed' = disturbed
    BY DEF RevisionFails
  <1>2. Ending
    BY <1>1, EndsIfDown DEF HostInv
  <1>3. Ending' /\ disturbed' \in BOOLEAN
    BY <1>1, <1>2 DEF Ending, Die, HostInv, TypeOK
  <1>. QED
    BY <1>1, <1>3, DieStep

\* PerformTask without a table.
LEMMA NowhereStep ==
  ASSUME HostInv, NEW h \in Hosts, NEW c \in Tasks, PerformTaskNowhere(h, c)
  PROVE  HostInv' /\ Quiet
  <1>1. wedged[h] = None /\ Die(h) /\ disturbed' = TRUE
    BY DEF PerformTaskNowhere
  <1>2. Ending' /\ disturbed' \in BOOLEAN
    BY <1>1 DEF Ending
  <1>. QED
    BY <1>1, <1>2, DieStep

\* The handler learns that the connection is lost.
LEMMA ConnectionLostStep ==
  ASSUME HostInv, NEW h \in Hosts, ConnectionLost(h)
  PROVE  HostInv' /\ Quiet
  <1>1. /\ h \notin up /\ interrupt' = interrupt \cup {h}
        /\ UNCHANGED <<link, closures, env, work, loop, past>>
    BY DEF ConnectionLost
  <1>2. UNCHANGED <<wire, up, closures, table, view, pool, running, wedged, main, target, hand,
                    created, done, stopper, disturbed, failed>>
    BY <1>1 DEF link, env, work, loop, past
  <1>3. Ending /\ Ending'
    BY <1>1, <1>2, EndsIfDown DEF HostInv, Ending
  <1>4. \A t \in Tasks : NoNew(t)
    BY <1>2, NothingNew
  <1>5. Placed' /\ Quiet
    BY <1>2, <1>3, <1>4, Dropped DEF HostInv, Placed
  <1>6. TableFirst'
    BY <1>2, <1>4, HostAssumption, TableKept
  <1>. QED
    BY <1>1, <1>2, <1>3, <1>5, <1>6 DEF HostInv, TypeOK, Shapes, EmployerSays, EndKnown

\* The main thread shuts the pool down.
LEMMA ShutdownStep ==
  ASSUME HostInv, NEW h \in Hosts, Shutdown(h)
  PROVE  HostInv' /\ Quiet
  <1>1. /\ main[h] = "closing" /\ main' = [main EXCEPT ![h] = "joining"]
        /\ UNCHANGED <<wire, up, closures, table, view, pool, running, wedged, interrupt, target,
                       hand, created, done, stopper, disturbed, failed>>
    BY DEF Shutdown, link, env, work, past
  <1>2. Ending /\ Ending'
    BY <1>1, EndsIfDown DEF HostInv, Ending
  <1>3. \A t \in Tasks : NoNew(t)
    BY <1>1, NothingNew
  <1>4. Placed' /\ Quiet
    BY <1>1, <1>2, <1>3, Dropped DEF HostInv, Placed
  <1>5. TableFirst'
    BY <1>1, <1>3, HostAssumption, TableKept
  <1>6. TypeOK'
    BY <1>1 DEF HostInv, TypeOK
  <1>. QED
    BY <1>1, <1>2, <1>4, <1>5, <1>6 DEF HostInv, Shapes, EmployerSays, EndKnown

\* The main thread has waited for the workers and ends.
LEMMA ExitStep ==
  ASSUME HostInv, NEW h \in Hosts, Exit(h)
  PROVE  HostInv' /\ Quiet
  <1>1. /\ main[h] = "joining" /\ main' = [main EXCEPT ![h] = "ended"]
        /\ closures' = [closures EXCEPT ![h] = <<>>]
        /\ UNCHANGED <<wire, up, table, view, pool, running, wedged, interrupt, target,
                       hand, created, done, stopper, disturbed, failed>>
    BY DEF Exit, link, env, work, past
  <1>2. TypeOK /\ Placed
    BY DEF HostInv
  <1>3. \A g \in Hosts : closures'[g] = IF g = h THEN <<>> ELSE closures[g]
    BY <1>1, <1>2 DEF TypeOK
  <1>4. Ending /\ Ending'
    BY <1>1, EndsIfDown DEF HostInv, Ending
  <1>5. \A t \in Tasks : NoNew(t)
    BY <1>1, <1>3, Empty, NothingNew
  <1>6. \A t \in Tasks : \A g \in Hosts : Once(t, closures'[g])
    BY <1>2, <1>3, Empty DEF Placed
  <1>7. Placed' /\ Quiet
    BY <1>1, <1>2, <1>4, <1>5, <1>6, Dropped DEF Placed
  <1>8. EmployerSays'
    BY <1>1 DEF HostInv, EmployerSays
  <1>9. closures' \in [Hosts -> Seq(Closures)]
    BY <1>1, <1>2 DEF TypeOK
  <1>10. TypeOK' /\ Shapes'
    BY <1>1, <1>9 DEF HostInv, TypeOK, Shapes
  <1>11. TableFirst'
    BY <1>1, <1>3, <1>5, Empty, HostAssumption, TableKept DEF HostInv, Shapes
  <1>. QED
    BY <1>4, <1>7, <1>8, <1>10, <1>11 DEF HostInv, EndKnown

\* The main thread leaves its loop and disconnects.
LEMMA LeaveLoopStep ==
  ASSUME HostInv, NEW h \in Hosts, LeaveLoop(h)
  PROVE  HostInv' /\ Quiet
  <1>1. /\ h \in interrupt /\ main' = [main EXCEPT ![h] = "closing"] /\ main[h] = "loop"
        /\ up' = up \ {h} /\ wire' = Cut(wire, h)
        /\ UNCHANGED <<table, view, pool, running, wedged, interrupt, target, hand, created,
                       done, stopper, disturbed, failed>>
    BY DEF LeaveLoop, env, work, past
  <1>2. TypeOK /\ Shapes /\ Placed /\ EmployerSays
    BY DEF HostInv
  <1>3. /\ wire' \in [Senders \X Hosts -> Seq(Messages)]
        /\ \A f \in Senders, g \in Hosts : wire'[<<f, g>>] = IF g = h THEN <<>> ELSE wire[<<f, g>>]
    BY <1>1, <1>2, CutOff
  <1>4. /\ closures' \in [Hosts -> Seq(Closures)]
        /\ \A g \in Hosts : g # h => closures'[g] = closures[g]
        /\ \A t : Among(t, closures'[h]) => Among(t, closures[h])
        /\ \A t : Once(t, closures[h]) => Once(t, closures'[h])
        /\ Follows(closures[h]) => Follows(closures'[h])
    <2>1. PICK n \in {0, 1} :
            closures' = [closures EXCEPT ![h] = IF @ = <<>> THEN @ ELSE SubSeq(@, 1, n)]
      BY DEF LeaveLoop
    <2>2. CASE closures[h] = <<>>
      <3>1. closures' = closures
        BY <1>2, <2>1, <2>2 DEF TypeOK
      <3>. QED
        BY <1>2, <3>1 DEF TypeOK
    <2>3. CASE closures[h] # <<>>
      <3> DEFINE s == closures[h]
                 r == SubSeq(s, 1, n)
      <3>1. s \in Seq(Closures)
        BY <1>2 DEF TypeOK
      <3>2. /\ r \in Seq(Closures)
            /\ \A t : Among(t, r) => Among(t, s)
            /\ \A t : Once(t, r)
            /\ Follows(s) => Follows(r)
        <4>. HIDE DEF s
        <4>. QED
          BY <2>3, <3>1, Cropped DEF s
      <3>3. closures' = [closures EXCEPT ![h] = r]
        BY <2>1, <2>3
      <3>. HIDE DEF r
      <3>4. closures' \in [Hosts -> Seq(Closures)] /\ closures'[h] = r
            /\ \A g \in Hosts : g # h => closures'[g] = closures[g]
        BY <1>2, <3>2, <3>3 DEF TypeOK
      <3>. QED
        BY <3>2, <3>4
    <2>. QED
      BY <2>2, <2>3
  <1>5. Ending /\ Ending'
    BY <1>1, EndsIfDown DEF HostInv, Ending
  <1>6. \A t \in Tasks : NoNew(t)
    <2>. TAKE t \in Tasks
    <2>1. \A f \in Senders, g \in Hosts : Among(t, wire'[<<f, g>>]) => Among(t, wire[<<f, g>>])
      BY <1>3, Empty
    <2>2. \A g \in Hosts : Among(t, closures'[g]) => Among(t, closures[g])
      BY <1>4
    <2>. QED
      BY <1>1, <2>1, <2>2, NothingNew
  <1>7. \A t \in Tasks : /\ \A f \in Senders, g \in Hosts : Once(t, wire'[<<f, g>>])
                         /\ \A g \in Hosts : Once(t, closures'[g])
    BY <1>2, <1>3, <1>4, Empty DEF Placed
  <1>8. Placed' /\ Quiet
    BY <1>1, <1>5, <1>6, <1>7, Dropped
  <1>9. EmployerSays'
    BY <1>2, <1>3, Empty, HostAssumption DEF EmployerSays, Senders, Has
  <1>10. TypeOK'
    BY <1>1, <1>2, <1>3, <1>4 DEF TypeOK
  <1>11. Shapes'
    BY <1>1, <1>2 DEF Shapes, TypeOK
  <1>12. TableFirst'
    <2>1. Employer \in Senders /\ Primary \in Hosts /\ Main \in Tasks
      BY HostAssumption DEF Senders
    <2>. QED
      BY <1>1, <1>3, <1>4, <1>6, <2>1, TableKept
  <1>. QED
    BY <1>5, <1>8, <1>9, <1>10, <1>11, <1>12 DEF HostInv, EndKnown

\* A connection breaks.
LEMMA LinkLostStep ==
  ASSUME HostInv, NEW h \in Hosts, LinkLost(h)
  PROVE  HostInv' /\ Quiet
  <1>1. /\ failed' = failed \cup {h} /\ up' = up \ {h}
        /\ UNCHANGED <<closures, table, view, pool, running, wedged, interrupt, main, target,
                       hand, created, done, stopper, disturbed>>
    BY DEF LinkLost, env, work, loop
  <1>2. TypeOK /\ Shapes /\ Placed /\ EmployerSays
    BY DEF HostInv
  <1>3. PICK keep \in BOOLEAN :
          wire' = [p \in DOMAIN wire |-> IF p[2] = h \/ (p[1] = h /\ ~keep) THEN <<>> ELSE wire[p]]
    BY DEF LinkLost
  <1>4. /\ wire' \in [Senders \X Hosts -> Seq(Messages)]
        /\ \A f \in Senders, g \in Hosts :
             /\ wire'[<<f, g>>] = wire[<<f, g>>] \/ wire'[<<f, g>>] = <<>>
             /\ f # h /\ g # h => wire'[<<f, g>>] = wire[<<f, g>>]
    <2>1. DOMAIN wire = Senders \X Hosts /\ \A p \in Senders \X Hosts : wire[p] \in Seq(Messages)
      BY <1>2 DEF TypeOK
    <2>2. <<>> \in Seq(Messages)
      OBVIOUS
    <2>3. \A f \in Senders, g \in Hosts :
            <<f, g>> \in Senders \X Hosts /\ <<f, g>>[1] = f /\ <<f, g>>[2] = g
      OBVIOUS
    <2>. QED
      BY <1>3, <2>1, <2>2, <2>3
  <1>5. Ending'
    BY <1>1 DEF Ending
  <1>6. \A t \in Tasks : NoNew(t)
    <2>. TAKE t \in Tasks
    <2>1. \A f \in Senders, g \in Hosts : Among(t, wire'[<<f, g>>]) => Among(t, wire[<<f, g>>])
      BY <1>4, Empty
    <2>. QED
      BY <1>1, <2>1, NothingNew
  <1>7. \A t \in Tasks : /\ \A f \in Senders, g \in Hosts : Once(t, wire'[<<f, g>>])
                         /\ \A g \in Hosts : Once(t, closures'[g])
    BY <1>1, <1>2, <1>4, Empty DEF Placed
  <1>8. Placed' /\ Quiet
    BY <1>1, <1>5, <1>6, <1>7, Dropped
  <1>9. EmployerSays'
    BY <1>2, <1>4, Empty, HostAssumption DEF EmployerSays, Senders, Has
  <1>10. TypeOK'
    BY <1>1, <1>2, <1>4, HostAssumption DEF TypeOK
  <1>11. Shapes'
    BY <1>1, <1>2 DEF Shapes
  <1>12. TableFirst'
    <2>1. Employer \in Senders /\ Primary \in Hosts /\ Main \in Tasks /\ Employer # h
      BY HostAssumption DEF Senders
    <2>. QED
      BY <1>1, <1>4, <1>6, <2>1, TableKept
  <1>. QED
    BY <1>5, <1>8, <1>9, <1>10, <1>11, <1>12 DEF HostInv, EndKnown

-----------------------------------------------------------------------------
(* Steps in which every task stays in its box *)

\* The table arrives.
LEMMA InitPackageStep ==
  ASSUME HostInv, NEW h \in Hosts, ProcessInitPackage(h)
  PROVE  HostInv' /\ Quiet
  <1>1. /\ closures[h] # <<>> /\ Head(closures[h]).kind = "table" /\ closures' = ClosuresLeft(h)
        /\ table' = table \cup {h}
        /\ view' = [view EXCEPT ![h] = [g \in Hosts |-> 0]]
        /\ UNCHANGED <<wire, up, pool, running, wedged, interrupt, main, target, hand,
                       created, done, stopper, disturbed, failed>>
    BY DEF ProcessInitPackage, NextClosure, IsNext, link, work, loop, past
  <1>2. TypeOK /\ Shapes /\ Placed /\ EmployerSays
    BY DEF HostInv
  <1>3. /\ closures' \in [Hosts -> Seq(Closures)]
        /\ \A g \in Hosts : g # h => closures'[g] = closures[g]
        /\ \A g \in Hosts, t \in Tasks :
             /\ Among(t, closures'[g]) <=> Among(t, closures[g])
             /\ Once(t, closures[g]) => Once(t, closures'[g])
    BY <1>1, <1>2, Taken
  <1>4. \A g \in Hosts : Has(closures'[g], "failed") <=> Has(closures[g], "failed")
    BY <1>1, <1>2, Taken
  <1>5. \A t \in Tasks : Fixed(t) /\ NoNew(t)
    BY <1>1, <1>3, NothingMoves, NothingNew
  <1>6. Ending' <=> Ending
    BY <1>1 DEF Ending
  <1>7. \A t \in Tasks : /\ \A f \in Senders, g \in Hosts : Once(t, wire'[<<f, g>>])
                         /\ \A g \in Hosts : Once(t, closures'[g])
    BY <1>1, <1>2, <1>3 DEF Placed
  <1>8. Placed' /\ Quiet
    BY <1>1, <1>5, <1>6, <1>7, Dropped
  <1>9. TypeOK'
    <2>1. 0 \in Counts
      BY HostAssumption, FS_CardinalityType DEF Counts
    <2>. QED
      BY <1>1, <1>2, <1>3, <2>1 DEF TypeOK
  <1>10. Shapes' /\ EmployerSays'
    BY <1>1, <1>2 DEF Shapes, EmployerSays
  <1>11. EndKnown'
    BY <1>1, <1>4, <1>6 DEF HostInv, EndKnown
  <1>12. TableFirst'
    <2>1. CASE h = Primary
      BY <1>1, <2>1 DEF TableFirst
    <2>2. CASE h # Primary
      BY <1>1, <1>3, <1>5, <2>2, HostAssumption, TableKept
    <2>. QED
      BY <2>1, <2>2
  <1>. QED
    BY <1>8, <1>9, <1>10, <1>11, <1>12 DEF HostInv

\* The load of another host arrives.
LEMMA StatusPackageStep ==
  ASSUME HostInv, NEW h \in Hosts, ProcessStatusPackage(h)
  PROVE  HostInv' /\ Quiet
  <1>1. /\ closures[h] # <<>> /\ Head(closures[h]).kind = "status" /\ closures' = ClosuresLeft(h)
        /\ view' = IF h \in table
                   THEN [view EXCEPT ![h][Head(closures[h]).from] = Head(closures[h]).pending] ELSE view
        /\ UNCHANGED <<wire, up, table, pool, running, wedged, interrupt, main, target, hand,
                       created, done, stopper, disturbed, failed>>
    BY DEF ProcessStatusPackage, NextClosure, IsNext, link, work, loop, past
  <1>2. TypeOK /\ Shapes /\ Placed /\ EmployerSays
    BY DEF HostInv
  <1>3. /\ closures' \in [Hosts -> Seq(Closures)] /\ Head(closures[h]) \in Closures
        /\ \A g \in Hosts : g # h => closures'[g] = closures[g]
        /\ \A g \in Hosts, t \in Tasks :
             /\ Among(t, closures'[g]) <=> Among(t, closures[g])
             /\ Once(t, closures[g]) => Once(t, closures'[g])
    BY <1>1, <1>2, Taken
  <1>4. \A g \in Hosts : /\ Has(closures'[g], "failed") <=> Has(closures[g], "failed")
                         /\ Has(closures'[g], "table") <=> Has(closures[g], "table")
                         /\ Follows(closures[g]) => Follows(closures'[g])
    <2>1. \A g \in Hosts : \A k : Head(closures[h]).kind # k => (Has(closures'[g], k) <=> Has(closures[g], k))
      BY <1>1, <1>2, Taken
    <2>2. \A g \in Hosts : Follows(closures[g]) => Follows(closures'[g])
      BY <1>1, <1>2, Taken
    <2>. QED
      BY <1>1, <2>1, <2>2
  <1>5. \A t \in Tasks : Fixed(t) /\ NoNew(t)
    BY <1>1, <1>3, NothingMoves, NothingNew
  <1>6. Ending' <=> Ending
    BY <1>1 DEF Ending
  <1>7. \A t \in Tasks : /\ \A f \in Senders, g \in Hosts : Once(t, wire'[<<f, g>>])
                         /\ \A g \in Hosts : Once(t, closures'[g])
    BY <1>1, <1>2, <1>3 DEF Placed
  <1>8. Placed' /\ Quiet
    BY <1>1, <1>5, <1>6, <1>7, Dropped
  <1>9. TypeOK'
    <2>1. Head(closures[h]).from \in Hosts /\ Head(closures[h]).pending \in Counts
      BY <1>1, <1>3, ClosureKinds
    <2>2. view' \in [Hosts -> [Hosts -> Counts]]
      BY <1>1, <1>2, <2>1 DEF TypeOK
    <2>. QED
      BY <1>1, <1>2, <1>3, <2>2 DEF TypeOK
  <1>10. Shapes' /\ EmployerSays'
    BY <1>1, <1>2 DEF Shapes, EmployerSays
  <1>11. EndKnown'
    BY <1>1, <1>4, <1>6 DEF HostInv, EndKnown
  <1>12. TableFirst'
    BY <1>1, <1>4, <1>5, HostAssumption, TableKept
  <1>. QED
    BY <1>8, <1>9, <1>10, <1>11, <1>12 DEF HostInv

\* The status goes out; whether a task is to be moved is only decided.
LEMMA RevisionStep ==
  ASSUME HostInv, NEW h \in Hosts, PerformQueueRevision(h)
  PROVE  HostInv' /\ Quiet
  <1> DEFINE n == Cardinality(pool[h])
             W == Post(h, OtherHosts(h), StatusMsg(n))
  <1>1. /\ main[h] = "loop" /\ wire' = W
        /\ \/ UNCHANGED <<main, target>>
           \/ \E g \in LeastLoaded(h) : /\ target' = [target EXCEPT ![h] = g]
                                        /\ main' = [main EXCEPT ![h] = "dequeue"]
        /\ UNCHANGED <<up, closures, table, view, pool, running, wedged, interrupt, hand,
                       created, done, stopper, disturbed, failed>>
    BY DEF PerformQueueRevision, env, work, past
  <1>2. TypeOK /\ Shapes /\ Placed /\ EmployerSays
    BY DEF HostInv
  <1>3. n \in Counts
    <2>1. pool[h] \subseteq Tasks /\ IsFiniteSet(Tasks)
      BY <1>2, HostAssumption DEF TypeOK
    <2>2. IsFiniteSet(pool[h]) /\ n <= Cardinality(Tasks)
      BY <2>1, FS_Subset
    <2>3. n \in Nat /\ Cardinality(Tasks) \in Nat
      BY <2>1, <2>2, FS_CardinalityType
    <2>. QED
      BY <2>2, <2>3 DEF Counts
  <1>. HIDE DEF n
  <1>4. /\ StatusMsg(n) \in Messages /\ StatusMsg(n).kind = "status" /\ \A t : ~IsTask(StatusMsg(n), t)
    BY <1>3, MessageKinds, Fields DEF IsTask
  <1>5. /\ W \in [Senders \X Hosts -> Seq(Messages)]
        /\ \A f \in Senders, g \in Hosts : f # h => W[<<f, g>>] = wire[<<f, g>>]
    <2>1. W \in [Senders \X Hosts -> Seq(Messages)]
      BY <1>2, <1>4, Posted
    <2>2. \A f \in Senders, g \in Hosts : f # h => W[<<f, g>>] = wire[<<f, g>>]
      BY <1>2 DEF Post, TypeOK
    <2>. QED
      BY <2>1, <2>2
  <1>6. \A f \in Senders, g \in Hosts :
          /\ \A t : Among(t, W[<<f, g>>]) <=> Among(t, wire[<<f, g>>])
          /\ \A t : Once(t, wire[<<f, g>>]) => Once(t, W[<<f, g>>])
          /\ Has(W[<<f, g>>], "stop") => Has(wire[<<f, g>>], "stop")
    <2>1. \A f \in Senders, g \in Hosts :
            /\ \A t : Among(t, W[<<f, g>>]) <=>
                        Among(t, wire[<<f, g>>]) \/ (f = h /\ g \in OtherHosts(h) \cap up /\ IsTask(StatusMsg(n), t))
            /\ \A t : Once(t, wire[<<f, g>>]) /\ ~(Among(t, wire[<<f, g>>]) /\ IsTask(StatusMsg(n), t))
                        => Once(t, W[<<f, g>>])
      BY <1>2, <1>4, PostedTasks
    <2>2. \A f \in Senders, g \in Hosts :
            \A k : Has(W[<<f, g>>], k) => Has(wire[<<f, g>>], k) \/ (f = h /\ StatusMsg(n).kind = k)
      BY <1>2, <1>4, PostedTasks
    <2>. HIDE DEF W
    <2>. QED
      BY <1>4, <2>1, <2>2
  <1>. HIDE DEF W
  <1>7. \A t \in Tasks : Fixed(t) /\ NoNew(t)
    BY <1>1, <1>6, NothingMoves, NothingNew
  <1>8. Ending' <=> Ending
    BY <1>1 DEF Ending
  <1>9. \A t \in Tasks : /\ \A f \in Senders, g \in Hosts : Once(t, wire'[<<f, g>>])
                         /\ \A g \in Hosts : Once(t, closures'[g])
    BY <1>1, <1>2, <1>6 DEF Placed
  <1>10. Placed' /\ Quiet
    BY <1>1, <1>7, <1>8, <1>9, Dropped
  <1>11. LeastLoaded(h) \subseteq Hosts \ {h}
    BY DEF LeastLoaded, LeastOf, OtherHosts
  <1>12. TypeOK'
    <2>1. CASE UNCHANGED <<main, target>>
      BY <1>1, <1>2, <1>5, <2>1 DEF TypeOK
    <2>2. CASE \E g \in LeastLoaded(h) : /\ target' = [target EXCEPT ![h] = g]
                                         /\ main' = [main EXCEPT ![h] = "dequeue"]
      <3>1. PICK g \in Hosts \ {h} : /\ target' = [target EXCEPT ![h] = g]
                                     /\ main' = [main EXCEPT ![h] = "dequeue"]
        BY <1>11, <2>2
      <3>2. /\ main' \in [Hosts -> {"loop", "dequeue", "send", "closing", "joining", "ended"}]
            /\ \A k \in Hosts : main'[k] = IF k = h THEN "dequeue" ELSE main[k]
        BY <1>2, <3>1 DEF TypeOK
      <3>3. \A k \in Hosts : target'[k] = IF k = h THEN g ELSE target[k]
        BY <1>2, <3>1 DEF Shapes
      <3>. QED
        BY <1>1, <1>2, <1>5, <3>2, <3>3 DEF TypeOK
    <2>. QED
      BY <1>1, <2>1, <2>2
  <1>13. Shapes'
    BY <1>1, <1>2, <1>11 DEF Shapes, TypeOK
  <1>14. EmployerSays'
    <2>1. Employer \in Senders /\ Employer # h
      BY HostAssumption DEF Senders
    <2>. QED
      BY <1>1, <1>2, <1>5, <2>1 DEF EmployerSays
  <1>15. EndKnown'
    <2>1. \A g \in Hosts : main'[g] = main[g] \/ main'[g] = "dequeue"
      BY <1>1, <1>2 DEF TypeOK
    <2>. QED
      BY <1>1, <1>6, <1>8, <2>1 DEF HostInv, EndKnown
  <1>16. TableFirst'
    <2>1. Employer \in Senders /\ Primary \in Hosts /\ Main \in Tasks /\ Employer # h
      BY HostAssumption DEF Senders
    <2>. QED
      BY <1>1, <1>5, <1>7, <2>1, TableKept
  <1>. QED
    BY <1>10, <1>12, <1>13, <1>14, <1>15, <1>16 DEF HostInv

-----------------------------------------------------------------------------
(* Steps that take a task from one box to another *)

\* A task that enters one box.
LEMMA OneNew ==
  ASSUME NEW t, NEW c \in Boxes, NEW g \in Senders, NEW i \in Hosts, c # "wire" => g = i,
         \A k \in Senders, l \in Hosts :
           Among(t, wire'[<<k, l>>]) => Among(t, wire[<<k, l>>]) \/ (c = "wire" /\ k = g /\ l = i),
         \A l \in Hosts : Among(t, closures'[l]) => Among(t, closures[l]) \/ (c = "closures" /\ l = i),
         \A l \in Hosts : t \in pool'[l] => t \in pool[l] \/ (c = "pool" /\ l = i),
         \A l \in Hosts : t \in running'[l] => t \in running[l] \/ (c = "running" /\ l = i),
         \A l \in Hosts : t = hand'[l] => t = hand[l] \/ (c = "hand" /\ l = i)
  PROVE  Enters(t, c, g, i)
  <1>. SUFFICES ASSUME NEW e \in Boxes, NEW k \in Senders, NEW l \in Hosts, At(t, e, k, l)'
                PROVE  At(t, e, k, l) \/ (e = c /\ k = g /\ l = i)
    BY DEF Enters
  <1>1. \/ e = "wire" /\ Among(t, wire'[<<k, l>>])
        \/ e = "closures" /\ k = l /\ Among(t, closures'[l])
        \/ e = "pool" /\ k = l /\ t \in pool'[l]
        \/ e = "running" /\ k = l /\ t \in running'[l]
        \/ e = "hand" /\ k = l /\ t = hand'[l]
    BY DEF At, Among
  <1>. QED
    BY <1>1 DEF At

\* A step that moves task t, or loses it when the computation ends anyway.
LEMMA OneMoves ==
  ASSUME HostInv, NEW t \in Tasks,
         NEW b \in Boxes, NEW f \in Senders, NEW h \in Hosts, At(t, b, f, h), ~At(t, b, f, h)',
         NEW c \in Boxes, NEW g \in Senders, NEW i \in Hosts,
         Enters(t, c, g, i),
         At(t, c, g, i)' \/ Ending',
         running' = running, created' = created, done' = done, Ending => Ending',
         \A u \in Tasks \ {t} : Fixed(u),
         \A u \in Tasks : /\ \A k \in Senders, l \in Hosts : Once(u, wire'[<<k, l>>])
                          /\ \A l \in Hosts : Once(u, closures'[l])
  PROVE  Placed' /\ Quiet
  <1>1. Placed /\ Alone(t)
    BY DEF HostInv, Placed
  <1>2. t \in created /\ t \notin done
    BY <1>1 DEF Placed, Nowhere
  <1>3. Goes(t, c, g, i)
    BY <1>1, Shifted
  <1>4. Placed'
    BY <1>1, <1>2, <1>3, PlacedKept
  <1>5. Stay(t) \/ (Gone(t) /\ Ending')
    <2>1. CASE At(t, c, g, i)'
      BY <2>1 DEF Stay, Runs, Nowhere
    <2>2. CASE ~At(t, c, g, i)'
      <3>1. Gone(t)
        BY <1>3, <2>2 DEF Goes, Gone, Nowhere
      <3>. QED
        BY <2>2, <3>1
    <2>. QED
      BY <2>1, <2>2
  <1>6. Quiet
    BY <1>5, FixedStays DEF Quiet
  <1>. QED
    BY <1>4, <1>6

\* The first message is taken from a wire.
LEMMA Received ==
  ASSUME TypeOK, NEW f \in Senders, NEW h \in Hosts, wire[<<f, h>>] # <<>>,
         wire' = [wire EXCEPT ![<<f, h>>] = Tail(@)]
  PROVE  LET m == Head(wire[<<f, h>>]) IN
         /\ m \in Messages
         /\ wire' \in [Senders \X Hosts -> Seq(Messages)]
         /\ \A e \in Senders, g \in Hosts : ~(e = f /\ g = h) => wire'[<<e, g>>] = wire[<<e, g>>]
         /\ \A t : Among(t, wire[<<f, h>>]) <=> Among(t, wire'[<<f, h>>]) \/ IsTask(m, t)
         /\ \A t : Once(t, wire[<<f, h>>]) => Once(t, wire'[<<f, h>>])
         /\ \A t : Once(t, wire[<<f, h>>]) /\ IsTask(m, t) => ~Among(t, wire'[<<f, h>>])
         /\ \A k : Has(wire[<<f, h>>], k) <=> Has(wire'[<<f, h>>], k) \/ m.kind = k
         /\ Follows(wire[<<f, h>>]) => m.kind # "task"
         /\ Follows(wire[<<f, h>>]) /\ m.kind # "table" => Follows(wire'[<<f, h>>])
  <1> DEFINE s == wire[<<f, h>>]
  <1>1. s \in Seq(Messages) /\ s # <<>>
    BY Wires
  <1>2. Head(s) \in Messages /\ Tail(s) \in Seq(Messages)
    BY <1>1, TailRecord
  <1>3. /\ wire' \in [Senders \X Hosts -> Seq(Messages)] /\ wire'[<<f, h>>] = Tail(s)
        /\ \A e \in Senders, g \in Hosts : ~(e = f /\ g = h) => wire'[<<e, g>>] = wire[<<e, g>>]
    BY <1>2 DEF TypeOK
  <1>4. /\ \A t : Among(t, s) <=> Among(t, Tail(s)) \/ IsTask(Head(s), t)
        /\ \A t : Once(t, s) => Once(t, Tail(s))
        /\ \A t : Once(t, s) /\ IsTask(Head(s), t) => ~Among(t, Tail(s))
        /\ \A k : Has(s, k) <=> Has(Tail(s), k) \/ Head(s).kind = k
        /\ Follows(s) => Head(s).kind # "task"
        /\ Follows(s) /\ Head(s).kind # "table" => Follows(Tail(s))
    <2>. HIDE DEF s
    <2>. QED
      BY <1>1, Left
  <1>. QED
    BY <1>2, <1>3, <1>4

\* async_dispatch is given a closure.
LEMMA Submitted ==
  ASSUME TypeOK, NEW h \in Hosts, NEW c \in Closures, closures' = SubmitTask(h, c)
  PROVE  /\ closures' \in [Hosts -> Seq(Closures)]
         /\ \A g \in Hosts : g # h => closures'[g] = closures[g]
         /\ \A t : Among(t, closures'[h]) <=> Among(t, closures[h]) \/ IsTask(c, t)
         /\ \A t : Once(t, closures[h]) /\ ~(Among(t, closures[h]) /\ IsTask(c, t)) => Once(t, closures'[h])
         /\ \A k : Has(closures'[h], k) <=> Has(closures[h], k) \/ c.kind = k
         /\ Follows(closures[h]) /\ (c.kind = "task" => Has(closures[h], "table")) => Follows(closures'[h])
  <1> DEFINE s == closures[h]
  <1>1. s \in Seq(Closures)
    BY DEF TypeOK
  <1>2. Append(s, c) \in Seq(Closures)
    BY <1>1, AppendRecord
  <1>3. /\ closures' \in [Hosts -> Seq(Closures)] /\ closures'[h] = Append(s, c)
        /\ \A g \in Hosts : g # h => closures'[g] = closures[g]
    BY <1>2 DEF TypeOK, SubmitTask
  <1>4. /\ \A t : Among(t, Append(s, c)) <=> Among(t, s) \/ IsTask(c, t)
        /\ \A t : Once(t, s) /\ ~(Among(t, s) /\ IsTask(c, t)) => Once(t, Append(s, c))
        /\ \A k : Has(Append(s, c), k) <=> Has(s, k) \/ c.kind = k
        /\ Follows(s) /\ (c.kind = "task" => Has(s, "table")) => Follows(Append(s, c))
    <2>. HIDE DEF s
    <2>. QED
      BY <1>1, Joined
  <1>. QED
    BY <1>3, <1>4

\* A message that is not a task that can be restored.
LEMMA NoticeStep ==
  ASSUME HostInv, NEW f \in Senders, NEW h \in Hosts, HandleMessage(f, h),
         LET m == Head(wire[<<f, h>>]) IN m.kind = "task" => m.task \in Unknown
  PROVE  HostInv' /\ Quiet
  <1> DEFINE m == Head(wire[<<f, h>>])
  <1>1. /\ wire[<<f, h>>] # <<>> /\ wire' = [wire EXCEPT ![<<f, h>>] = Tail(@)]
        /\ UNCHANGED <<up, table, view, pool, running, wedged, main, target, hand, created,
                       done, stopper, failed>>
    BY DEF HandleMessage, env, work, loop
  <1>2. TypeOK /\ Shapes /\ Placed /\ EmployerSays /\ EndKnown
    BY DEF HostInv
  <1>3. /\ m \in Messages
        /\ wire' \in [Senders \X Hosts -> Seq(Messages)]
        /\ \A e \in Senders, g \in Hosts : ~(e = f /\ g = h) => wire'[<<e, g>>] = wire[<<e, g>>]
        /\ \A t : Among(t, wire[<<f, h>>]) <=> Among(t, wire'[<<f, h>>]) \/ IsTask(m, t)
        /\ \A t : Once(t, wire[<<f, h>>]) => Once(t, wire'[<<f, h>>])
        /\ \A k : Has(wire[<<f, h>>], k) <=> Has(wire'[<<f, h>>], k) \/ m.kind = k
        /\ Follows(wire[<<f, h>>]) => m.kind # "task"
        /\ Follows(wire[<<f, h>>]) /\ m.kind # "table" => Follows(wire'[<<f, h>>])
    BY <1>1, <1>2, Received
  <1>4. m.kind = "status" => f \in Hosts
    BY <1>2, <1>3 DEF EmployerSays, Senders
  <1>5. \/ /\ m.kind = "stop"
           /\ interrupt' = interrupt \cup {h} /\ closures' = closures /\ disturbed' = disturbed
        \/ \E c \in Closures :
             /\ closures' = SubmitTask(h, c) /\ interrupt' = interrupt
             /\ c.kind # "task" /\ (m.kind = "table" => c.kind = "table")
             /\ \/ disturbed' = disturbed /\ c.kind # "failed" /\ m.kind \in {"status", "table"}
                \/ disturbed' = TRUE
    <2>1. CASE m.kind = "stop" /\ interrupt' = interrupt \cup {h} /\ UNCHANGED <<closures, disturbed>>
      BY <2>1
    <2>2. CASE /\ m.kind = "task" /\ m.task \in Unknown
               /\ closures' = SubmitTask(h, [kind |-> "failed"])
               /\ disturbed' = TRUE /\ UNCHANGED interrupt
      <3>1. [kind |-> "failed"] \in Closures /\ [kind |-> "failed"].kind = "failed"
        BY ClosureKinds
      <3>. QED
        BY <2>2, <3>1
    <2>3. CASE /\ m.kind = "status"
               /\ closures' = SubmitTask(h, [kind |-> "status", pending |-> m.pending, from |-> f])
               /\ UNCHANGED <<interrupt, disturbed>>
      <3> DEFINE c == [kind |-> "status", pending |-> m.pending, from |-> f]
      <3>1. m.pending \in Counts
        BY <1>3, <2>3, MessageKinds
      <3>2. c \in Closures
        BY <1>4, <2>3, <3>1, ClosureKinds
      <3>3. c.kind = "status"
        OBVIOUS
      <3>. QED
        BY <2>3, <3>2, <3>3
    <2>4. CASE /\ m.kind = "table" \/ (m.kind = "task" /\ m.task \notin Unknown)
               /\ closures' = SubmitTask(h, m)
               /\ UNCHANGED <<interrupt, disturbed>>
      <3>1. m.kind = "table" /\ m = TableMsg
        BY <1>3, <2>4, MessageKinds
      <3>2. m \in Closures
        BY <3>1, ClosureKinds
      <3>. QED
        BY <2>4, <3>1, <3>2
    <2>. QED
      BY <2>1, <2>2, <2>3, <2>4 DEF HandleMessage
  <1>6. /\ closures' \in [Hosts -> Seq(Closures)]
        /\ \A g \in Hosts, t \in Tasks :
             /\ Among(t, closures'[g]) <=> Among(t, closures[g])
             /\ Once(t, closures[g]) => Once(t, closures'[g])
        /\ \A g \in Hosts : Follows(closures[g]) => Follows(closures'[g])
        /\ \A g \in Hosts : Has(closures[g], "table") => Has(closures'[g], "table")
        /\ m.kind = "table" => Has(closures'[h], "table")
    <2>1. CASE m.kind = "stop" /\ closures' = closures
      BY <1>2, <2>1 DEF TypeOK
    <2>2. CASE \E c \in Closures : /\ closures' = SubmitTask(h, c)
                                   /\ c.kind # "task" /\ (m.kind = "table" => c.kind = "table")
      <3>1. PICK c \in Closures : /\ closures' = SubmitTask(h, c)
                                  /\ c.kind # "task" /\ (m.kind = "table" => c.kind = "table")
        BY <2>2
      <3>2. \A t : ~IsTask(c, t)
        BY <3>1 DEF IsTask
      <3>3. /\ closures' \in [Hosts -> Seq(Closures)]
            /\ \A g \in Hosts : g # h => closures'[g] = closures[g]
            /\ \A t : Among(t, closures'[h]) <=> Among(t, closures[h]) \/ IsTask(c, t)
            /\ \A t : Once(t, closures[h]) /\ ~(Among(t, closures[h]) /\ IsTask(c, t)) => Once(t, closures'[h])
            /\ \A k : Has(closures'[h], k) <=> Has(closures[h], k) \/ c.kind = k
            /\ Follows(closures[h]) /\ (c.kind = "task" => Has(closures[h], "table")) => Follows(closures'[h])
        BY <1>2, <3>1, Submitted
      <3>. QED
        BY <3>1, <3>2, <3>3
    <2>. QED
      BY <1>5, <2>1, <2>2
  <1>. HIDE DEF m
  <1>7. /\ interrupt' \subseteq Hosts /\ disturbed' \in BOOLEAN
        /\ (Ending => Ending') /\ (m.kind \in {"table", "status"} \/ Ending')
    <2>1. m.kind = "stop" => Ending
      BY <1>2, <1>3 DEF EndKnown
    <2>. QED
      BY <1>1, <1>2, <1>5, <2>1 DEF Ending, TypeOK
  <1>8. \A t \in Tasks : NoNew(t)
    <2>. TAKE t \in Tasks
    <2>1. \A e \in Senders, g \in Hosts : Among(t, wire'[<<e, g>>]) => Among(t, wire[<<e, g>>])
      BY <1>3
    <2>. QED
      BY <1>1, <1>6, <2>1, NothingNew
  <1>9. (\A t \in Tasks : Fixed(t)) \/ Ending'
    <2>1. CASE m.kind # "task"
      <3>. SUFFICES ASSUME NEW t \in Tasks PROVE Fixed(t)
        OBVIOUS
      <3>1. ~IsTask(m, t)
        BY <2>1 DEF IsTask
      <3>2. \A e \in Senders, g \in Hosts : Among(t, wire'[<<e, g>>]) <=> Among(t, wire[<<e, g>>])
        BY <1>3, <3>1
      <3>. QED
        BY <1>1, <1>6, <3>2, NothingMoves
    <2>. QED
      BY <1>7, <2>1
  <1>10. \A t \in Tasks : /\ \A e \in Senders, g \in Hosts : Once(t, wire'[<<e, g>>])
                          /\ \A g \in Hosts : Once(t, closures'[g])
    BY <1>2, <1>3, <1>6 DEF Placed
  <1>11. Placed' /\ Quiet
    BY <1>1, <1>7, <1>8, <1>9, <1>10, Dropped
  <1>12. TypeOK' /\ Shapes'
    BY <1>1, <1>2, <1>3, <1>6, <1>7 DEF TypeOK, Shapes
  <1>13. EmployerSays'
    <2>1. Employer \in Senders
      BY DEF Senders
    <2>. QED
      BY <1>2, <1>3, <2>1 DEF EmployerSays
  <1>14. EndKnown'
    <2>. SUFFICES ASSUME ~Ending' PROVE EndKnown'
      BY DEF EndKnown
    <2>1. ~Ending /\ m.kind \in {"table", "status"} /\ disturbed' # TRUE
      BY <1>7 DEF Ending
    <2>2. PICK c \in Closures : closures' = SubmitTask(h, c) /\ interrupt' = interrupt /\ c.kind # "failed"
      BY <1>5, <2>1 DEF m
    <2>3. \A g \in Hosts : Has(closures'[g], "failed") => Has(closures[g], "failed")
      <3>1. /\ \A g \in Hosts : g # h => closures'[g] = closures[g]
            /\ \A k : Has(closures'[h], k) <=> Has(closures[h], k) \/ c.kind = k
        BY <1>2, <2>2, Submitted
      <3>. QED
        BY <2>2, <3>1
    <2>4. \A e \in Senders, g \in Hosts : Has(wire'[<<e, g>>], "stop") => Has(wire[<<e, g>>], "stop")
      BY <1>3
    <2>. QED
      BY <1>1, <1>2, <2>1, <2>2, <2>3, <2>4 DEF EndKnown
  <1>15. TableFirst'
    <2>1. Employer \in Senders /\ Primary \in Hosts /\ Main \in Tasks
      BY HostAssumption DEF Senders
    <2>2. Has(closures[Primary], "table") \/ Follows(wire[<<Employer, Primary>>]) =>
            Has(closures'[Primary], "table") \/ Follows(wire'[<<Employer, Primary>>])
      <3>1. CASE f = Employer /\ h = Primary
        BY <1>3, <1>6, <2>1, <3>1
      <3>2. CASE ~(f = Employer /\ h = Primary)
        BY <1>3, <1>6, <2>1, <3>2
      <3>. QED
        BY <3>1, <3>2
    <2>. QED
      BY <1>1, <1>6, <1>8, <2>1, <2>2, TableKept
  <1>. QED
    BY <1>11, <1>12, <1>13, <1>14, <1>15 DEF HostInv

\* A task that can be restored becomes a closure.
LEMMA TaskReceivedStep ==
  ASSUME HostInv, NEW f \in Senders, NEW h \in Hosts, HandleMessage(f, h),
         LET m == Head(wire[<<f, h>>]) IN m.kind = "task" /\ m.task \notin Unknown
  PROVE  HostInv' /\ Quiet
  <1> DEFINE m == Head(wire[<<f, h>>])
  <1>1. /\ wire[<<f, h>>] # <<>> /\ wire' = [wire EXCEPT ![<<f, h>>] = Tail(@)]
        /\ closures' = SubmitTask(h, m)
        /\ UNCHANGED <<up, table, view, pool, running, wedged, interrupt, main, target, hand,
                       created, done, stopper, disturbed, failed>>
    BY DEF HandleMessage, env, work, loop
  <1>2. TypeOK /\ Shapes /\ Placed /\ EmployerSays /\ TableFirst /\ EndKnown
    BY DEF HostInv
  <1>3. /\ m \in Messages
        /\ wire' \in [Senders \X Hosts -> Seq(Messages)]
        /\ \A e \in Senders, g \in Hosts : ~(e = f /\ g = h) => wire'[<<e, g>>] = wire[<<e, g>>]
        /\ \A u : Among(u, wire[<<f, h>>]) <=> Among(u, wire'[<<f, h>>]) \/ IsTask(m, u)
        /\ \A u : Once(u, wire[<<f, h>>]) => Once(u, wire'[<<f, h>>])
        /\ \A u : Once(u, wire[<<f, h>>]) /\ IsTask(m, u) => ~Among(u, wire'[<<f, h>>])
        /\ \A k : Has(wire[<<f, h>>], k) <=> Has(wire'[<<f, h>>], k) \/ m.kind = k
        /\ Follows(wire[<<f, h>>]) => m.kind # "task"
    BY <1>1, <1>2, Received
  <1>4. PICK t \in Tasks \ Unknown : m = TaskMsg(t) /\ m.kind = "task"
    BY <1>3, MessageKinds
  <1>5. m \in Closures
    BY <1>4, ClosureKinds
  <1>6. /\ closures' \in [Hosts -> Seq(Closures)]
        /\ \A g \in Hosts : g # h => closures'[g] = closures[g]
        /\ \A u : Among(u, closures'[h]) <=> Among(u, closures[h]) \/ IsTask(m, u)
        /\ \A u : Once(u, closures[h]) /\ ~(Among(u, closures[h]) /\ IsTask(m, u)) => Once(u, closures'[h])
        /\ \A k : Has(closures'[h], k) <=> Has(closures[h], k) \/ m.kind = k
        /\ Follows(closures[h]) /\ (m.kind = "task" => Has(closures[h], "table")) => Follows(closures'[h])
    BY <1>1, <1>2, <1>5, Submitted
  <1>7. \A u : IsTask(m, u) <=> u = t
    BY <1>4, Fields DEF IsTask
  <1>. HIDE DEF m
  <1>8. /\ "wire" \in Boxes /\ "closures" \in Boxes /\ h \in Senders /\ Employer \in Senders
        /\ Employer # h /\ Primary \in Hosts /\ Main \in Tasks
    BY HostAssumption DEF Boxes, Senders
  <1>9. Alone(t) /\ Once(t, wire[<<f, h>>]) /\ t \in Tasks
    BY <1>2, <1>4 DEF Placed
  <1>10. At(t, "wire", f, h) /\ ~At(t, "wire", f, h)' /\ At(t, "closures", h, h)'
    <2>1. Among(t, wire[<<f, h>>]) /\ ~Among(t, wire'[<<f, h>>]) /\ Among(t, closures'[h])
      BY <1>3, <1>6, <1>7, <1>9
    <2>. QED
      BY <2>1 DEF At, Among
  <1>11. Enters(t, "closures", h, h)
    <2>1. \A k \in Senders, l \in Hosts : Among(t, wire'[<<k, l>>]) => Among(t, wire[<<k, l>>])
      BY <1>3
    <2>2. \A l \in Hosts : Among(t, closures'[l]) => Among(t, closures[l]) \/ l = h
      BY <1>6
    <2>. QED
      BY <1>1, <1>8, <2>1, <2>2, OneNew
  <1>12. \A u \in Tasks \ {t} : Fixed(u)
    <2>. TAKE u \in Tasks \ {t}
    <2>1. \A k \in Senders, l \in Hosts : Among(u, wire'[<<k, l>>]) <=> Among(u, wire[<<k, l>>])
      BY <1>3, <1>7
    <2>2. \A l \in Hosts : Among(u, closures'[l]) <=> Among(u, closures[l])
      BY <1>6, <1>7
    <2>. QED
      BY <1>1, <2>1, <2>2, NothingMoves
  <1>13. \A u \in Tasks : /\ \A k \in Senders, l \in Hosts : Once(u, wire'[<<k, l>>])
                          /\ \A l \in Hosts : Once(u, closures'[l])
    <2>1. ~Among(t, closures[h])
      <3>1. ~At(t, "closures", h, h)
        BY <1>8, <1>9, <1>10 DEF Alone
      <3>. QED
        BY <3>1 DEF At
    <2>. QED
      BY <1>2, <1>3, <1>6, <1>7, <2>1 DEF Placed
  <1>14. Ending' <=> Ending
    BY <1>1 DEF Ending
  <1>15. Placed' /\ Quiet
    BY <1>1, <1>8, <1>9, <1>10, <1>11, <1>12, <1>13, <1>14, OneMoves
  <1>16. TypeOK' /\ Shapes'
    BY <1>1, <1>2, <1>3, <1>6 DEF TypeOK, Shapes
  <1>17. EmployerSays'
    BY <1>2, <1>3, <1>8 DEF EmployerSays
  <1>18. EndKnown'
    <2>1. \A g \in Hosts : Has(closures'[g], "failed") => Has(closures[g], "failed")
      BY <1>4, <1>6
    <2>2. \A e \in Senders, g \in Hosts : Has(wire'[<<e, g>>], "stop") => Has(wire[<<e, g>>], "stop")
      BY <1>3
    <2>. QED
      BY <1>1, <1>2, <1>14, <2>1, <2>2 DEF EndKnown
  <1>19. TableFirst'
    <2>. SUFFICES ASSUME Primary \notin table PROVE TableFirst'
      BY <1>1 DEF TableFirst
    <2>1. /\ created = {Main}
          /\ \A b \in Boxes, e \in Senders, g \in Hosts :
               At(Main, b, e, g) => g = Primary /\ (b = "closures" \/ (b = "wire" /\ e = Employer))
          /\ Follows(closures[Primary])
          /\ Primary \in up => Has(closures[Primary], "table") \/ Follows(wire[<<Employer, Primary>>])
      BY <1>2 DEF TableFirst
    <2>2. t = Main
      BY <1>2, <1>8, <1>9, <1>10, <2>1 DEF Placed, Nowhere
    <2>3. f = Employer /\ h = Primary
      BY <1>8, <1>10, <2>1, <2>2
    <2>4. h \in up
      BY DEF HandleMessage
    <2>5. Has(closures[Primary], "table")
      BY <1>3, <1>4, <2>1, <2>3, <2>4
    <2>6. Follows(closures'[Primary]) /\ Has(closures'[Primary], "table")
      BY <1>6, <2>1, <2>3, <2>5
    <2>7. \A b \in Boxes, e \in Senders, g \in Hosts :
            At(Main, b, e, g)' => g = Primary /\ (b = "closures" \/ (b = "wire" /\ e = Employer))
      BY <1>11, <2>1, <2>2, <2>3 DEF Enters
    <2>. QED
      BY <1>1, <2>1, <2>6, <2>7 DEF TableFirst, Follows, Has
  <1>. QED
    BY <1>15, <1>16, <1>17, <1>18, <1>19 DEF HostInv

\* A task goes from the closures into the pool.
LEMMA TaskArrivesStep ==
  ASSUME HostInv, NEW h \in Hosts, TaskArrives(h)
  PROVE  HostInv' /\ Quiet
  <1> DEFINE m == Head(closures[h])
  <1>1. /\ closures[h] # <<>> /\ m.kind = "task" /\ closures' = ClosuresLeft(h)
        /\ pool' = Enqueue(h, m.task)
        /\ UNCHANGED <<wire, up, table, view, running, wedged, interrupt, main, target, hand,
                       created, done, stopper, disturbed, failed>>
    BY DEF TaskArrives, NextClosure, IsNext, link, env, loop, past
  <1>2. TypeOK /\ Shapes /\ Placed /\ EmployerSays /\ TableFirst /\ EndKnown
    BY DEF HostInv
  <1>3. PICK t \in Tasks \ Unknown : m.task = t
    <2>1. m \in Closures
      BY <1>1, <1>2, Taken
    <2>. QED
      BY <1>1, <2>1, ClosureKinds
  <1>4. /\ closures' \in [Hosts -> Seq(Closures)]
        /\ \A g \in Hosts : g # h => closures'[g] = closures[g]
        /\ \A g \in Hosts, u \in Tasks :
             /\ Among(u, closures'[g]) => Among(u, closures[g])
             /\ Once(u, closures[g]) => Once(u, closures'[g])
    BY <1>1, <1>2, Taken
  <1>5. /\ \A g \in Hosts : \A k : Has(closures'[g], k) => Has(closures[g], k)
        /\ Follows(closures[h]) => m.kind # "task"
    BY <1>1, <1>2, Taken
  <1>6. Among(t, closures[h]) /\ ~Among(t, closures'[h])
    <2>1. Among(t, closures[h]) /\ (Once(t, closures[h]) => ~Among(t, ClosuresLeft(h)[h]))
      BY <1>1, <1>2, <1>3, Taken
    <2>. QED
      BY <1>1, <1>2, <2>1 DEF Placed
  <1>7. \A u \in Tasks \ {t} : Among(u, closures[h]) => Among(u, closures'[h])
    <2>1. closures[h] \in Seq(Closures)
      BY <1>2 DEF TypeOK
    <2>2. \A u : Among(u, closures[h]) <=> Among(u, Tail(closures[h])) \/ IsTask(m, u)
      <3> DEFINE s == closures[h]
      <3>1. s \in Seq(Closures) /\ s # <<>>
        BY <1>1, <2>1
      <3>. HIDE DEF s
      <3>2. \A u : Among(u, s) <=> Among(u, Tail(s)) \/ IsTask(Head(s), u)
        BY <3>1, Left
      <3>. QED
        BY <3>2 DEF s
    <2>3. closures'[h] = Tail(closures[h])
      BY <1>1, <1>2 DEF ClosuresLeft, TypeOK
    <2>. QED
      BY <1>3, <2>2, <2>3 DEF IsTask
  <1>8. /\ pool' \in [Hosts -> SUBSET (Tasks \ Unknown)]
        /\ \A g \in Hosts, u \in Tasks \ {t} : u \in pool'[g] <=> u \in pool[g]
        /\ \A g \in Hosts : g # h => pool'[g] = pool[g]
        /\ t \in pool'[h] \/ main[h] = "joining"
    BY <1>1, <1>2, <1>3 DEF Enqueue, TypeOK
  <1>. HIDE DEF m
  <1>9. /\ "pool" \in Boxes /\ "closures" \in Boxes /\ h \in Senders
        /\ Primary \in Hosts /\ Main \in Tasks /\ t \in Tasks
    BY HostAssumption DEF Boxes, Senders
  <1>10. At(t, "closures", h, h) /\ ~At(t, "closures", h, h)'
    BY <1>6 DEF At, Among
  <1>11. At(t, "pool", h, h)' \/ Ending'
    <2>1. CASE main[h] = "joining"
      <3>1. Ending
        BY <1>2, <2>1, EndsIfDown
      <3>. QED
        BY <1>1, <3>1 DEF Ending
    <2>2. CASE t \in pool'[h]
      BY <2>2 DEF At
    <2>. QED
      BY <1>8, <2>1, <2>2
  <1>12. Enters(t, "pool", h, h)
    <2>1. \A l \in Hosts : t \in pool'[l] => t \in pool[l] \/ l = h
      BY <1>8
    <2>2. \A l \in Hosts : Among(t, closures'[l]) => Among(t, closures[l])
      BY <1>4
    <2>. QED
      BY <1>1, <1>9, <2>1, <2>2, OneNew
  <1>13. \A u \in Tasks \ {t} : Fixed(u)
    <2>. TAKE u \in Tasks \ {t}
    <2>1. \A l \in Hosts : Among(u, closures'[l]) <=> Among(u, closures[l])
      BY <1>4, <1>7
    <2>2. \A l \in Hosts : u \in pool'[l] <=> u \in pool[l]
      BY <1>8
    <2>. QED
      BY <1>1, <2>1, <2>2, NothingMoves
  <1>14. \A u \in Tasks : /\ \A k \in Senders, l \in Hosts : Once(u, wire'[<<k, l>>])
                          /\ \A l \in Hosts : Once(u, closures'[l])
    BY <1>1, <1>2, <1>4 DEF Placed
  <1>15. Ending' <=> Ending
    BY <1>1 DEF Ending
  <1>16. Placed' /\ Quiet
    BY <1>1, <1>9, <1>10, <1>11, <1>12, <1>13, <1>14, <1>15, OneMoves
  <1>17. TypeOK' /\ Shapes'
    BY <1>1, <1>2, <1>4, <1>8 DEF TypeOK, Shapes
  <1>18. EmployerSays'
    BY <1>1, <1>2 DEF EmployerSays
  <1>19. EndKnown'
    <2>1. \A g \in Hosts : Has(closures'[g], "failed") => Has(closures[g], "failed")
      BY <1>5
    <2>. QED
      BY <1>1, <1>2, <1>15, <2>1 DEF EndKnown
  <1>20. TableFirst'
    <2>. SUFFICES ASSUME Primary \notin table PROVE FALSE
      BY <1>1 DEF TableFirst
    <2>1. /\ created = {Main}
          /\ \A b \in Boxes, e \in Senders, g \in Hosts :
               At(Main, b, e, g) => g = Primary /\ (b = "closures" \/ (b = "wire" /\ e = Employer))
          /\ Follows(closures[Primary])
      BY <1>2 DEF TableFirst
    <2>2. t = Main
      BY <1>2, <1>9, <1>10, <2>1 DEF Placed, Nowhere
    <2>3. h = Primary
      BY <1>9, <1>10, <2>1, <2>2
    <2>. QED
      BY <1>1, <1>5, <2>1, <2>3 DEF m
  <1>. QED
    BY <1>16, <1>17, <1>18, <1>19, <1>20 DEF HostInv

\* The main thread takes a task from the pool, or finds none.
LEMMA DequeueStep ==
  ASSUME HostInv, NEW h \in Hosts, DequeueTask(h)
  PROVE  HostInv' /\ Quiet
  <1>1. /\ main[h] = "dequeue"
        /\ UNCHANGED <<wire, up, closures, table, view, running, wedged, interrupt,
                       created, done, stopper, disturbed, failed>>
    BY DEF DequeueTask, link, env, past
  <1>2. TypeOK /\ Shapes /\ Placed /\ EmployerSays /\ TableFirst /\ EndKnown
    BY DEF HostInv
  <1>3. Ending' <=> Ending
    BY <1>1 DEF Ending
  <1>4. EmployerSays'
    BY <1>1, <1>2 DEF EmployerSays
  <1>5. \A u \in Tasks : /\ \A k \in Senders, l \in Hosts : Once(u, wire'[<<k, l>>])
                         /\ \A l \in Hosts : Once(u, closures'[l])
    BY <1>1, <1>2 DEF Placed
  <1>6. /\ "pool" \in Boxes /\ "hand" \in Boxes /\ h \in Senders
        /\ Primary \in Hosts /\ Main \in Tasks /\ Movable \subseteq Tasks
    BY HostAssumption DEF Boxes, Senders
  <1>7. CASE HandFilled(h)
    <2>1. PICK t \in pool[h] \cap Movable :
            /\ pool' = PoolLess(h, t) /\ hand' = [hand EXCEPT ![h] = t]
            /\ main' = [main EXCEPT ![h] = "send"] /\ target' = target
      BY <1>7 DEF DequeueTask
    <2>2. /\ \A g \in Hosts : pool'[g] = IF g = h THEN pool[h] \ {t} ELSE pool[g]
          /\ \A g \in Hosts : hand'[g] = IF g = h THEN t ELSE hand[g]
          /\ \A g \in Hosts : main'[g] = IF g = h THEN "send" ELSE main[g]
          /\ hand[h] = None
      BY <1>1, <1>2, <2>1 DEF PoolLess, TypeOK, Shapes
    <2>3. t \in Tasks
      BY <1>6
    <2>4. At(t, "pool", h, h) /\ ~At(t, "pool", h, h)' /\ At(t, "hand", h, h)'
      BY <2>2 DEF At
    <2>5. Enters(t, "hand", h, h)
      BY <1>1, <1>6, <2>2, OneNew
    <2>6. \A u \in Tasks \ {t} : Fixed(u)
      <3>. TAKE u \in Tasks \ {t}
      <3>1. u # None
        BY HostAssumption
      <3>. QED
        BY <1>1, <2>2, <3>1, NothingMoves
    <2>7. Placed' /\ Quiet
      BY <1>1, <1>3, <1>5, <1>6, <2>3, <2>4, <2>5, <2>6, OneMoves
    <2>8. TypeOK' /\ Shapes'
      <3>1. /\ main' \in [Hosts -> {"loop", "dequeue", "send", "closing", "joining", "ended"}]
            /\ pool' \in [Hosts -> SUBSET (Tasks \ Unknown)]
            /\ hand' \in [Hosts -> Tasks \cup {None}]
        BY <1>2, <2>1, <2>3 DEF TypeOK, Shapes, PoolLess
      <3>2. TypeOK'
        BY <1>1, <1>2, <2>1, <2>2, <3>1 DEF TypeOK
      <3>3. Shapes'
        BY <1>1, <1>2, <2>1, <2>2, <3>1 DEF Shapes
      <3>. QED
        BY <3>2, <3>3
    <2>9. EndKnown'
      BY <1>1, <1>2, <1>3, <2>2 DEF EndKnown
    <2>10. TableFirst'
      <3>. SUFFICES ASSUME Primary \notin table PROVE FALSE
        BY <1>1 DEF TableFirst
      <3>1. t = Main
        BY <1>2, <1>6, <2>3, <2>4 DEF TableFirst, Placed, Nowhere
      <3>. QED
        BY <1>2, <1>6, <2>4, <3>1 DEF TableFirst
    <2>. QED
      BY <1>4, <2>7, <2>8, <2>9, <2>10 DEF HostInv
  <1>8. CASE ~HandFilled(h)
    <2>1. /\ pool' = pool /\ hand' = hand
          /\ main' = [main EXCEPT ![h] = "loop"] /\ target' = [target EXCEPT ![h] = None]
      BY <1>8 DEF DequeueTask
    <2>2. \A t \in Tasks : Fixed(t) /\ NoNew(t)
      BY <1>1, <2>1, NothingMoves, NothingNew
    <2>3. Placed' /\ Quiet
      BY <1>1, <1>3, <1>5, <2>2, Dropped
    <2>4. /\ main' \in [Hosts -> {"loop", "dequeue", "send", "closing", "joining", "ended"}]
          /\ \A g \in Hosts : main'[g] = IF g = h THEN "loop" ELSE main[g]
          /\ \A g \in Hosts : target'[g] = IF g = h THEN None ELSE target[g]
          /\ target' \in [Hosts -> Hosts \cup {None}]
      BY <1>2, <2>1 DEF TypeOK, Shapes
    <2>5. TypeOK'
      BY <1>1, <1>2, <2>1, <2>4 DEF TypeOK
    <2>6. Shapes'
      BY <1>1, <1>2, <2>1, <2>4 DEF Shapes
    <2>7. EndKnown'
      BY <1>1, <1>2, <1>3, <2>4 DEF EndKnown
    <2>8. TableFirst'
      BY <1>1, <1>6, <2>2, TableKept
    <2>. QED
      BY <1>4, <2>3, <2>5, <2>6, <2>7, <2>8 DEF HostInv
  <1>. QED
    BY <1>7, <1>8

\* A task is sent: it is under way when both hosts are connected.
LEMMA Shipped ==
  ASSUME TypeOK, NEW h \in Hosts, NEW g \in Hosts, NEW t \in Tasks,
         wire' = IF h \in up THEN Post(h, {g}, TaskMsg(t)) ELSE wire
  PROVE  /\ wire' \in [Senders \X Hosts -> Seq(Messages)]
         /\ \A e \in Senders, k \in Hosts : e # h => wire'[<<e, k>>] = wire[<<e, k>>]
         /\ \A e \in Senders, k \in Hosts :
              /\ \A u : Among(u, wire'[<<e, k>>]) <=>
                          Among(u, wire[<<e, k>>]) \/ (e = h /\ k = g /\ u = t /\ h \in up /\ g \in up)
              /\ \A u : Once(u, wire[<<e, k>>]) /\ ~(Among(u, wire[<<e, k>>]) /\ u = t)
                          => Once(u, wire'[<<e, k>>])
              /\ Has(wire'[<<e, k>>], "stop") => Has(wire[<<e, k>>], "stop")
  <1>1. CASE h \in up
    <2> DEFINE m == TaskMsg(t)
               W == Post(h, {g}, m)
    <2>1. m \in Messages /\ m.kind = "task" /\ \A u : IsTask(m, u) <=> u = t
      BY MessageKinds, Fields DEF IsTask
    <2>. HIDE DEF m
    <2>2. W \in [Senders \X Hosts -> Seq(Messages)]
      BY <2>1, Posted
    <2>3. \A e \in Senders, k \in Hosts : e # h => W[<<e, k>>] = wire[<<e, k>>]
      BY DEF Post, TypeOK
    <2>4. \A e \in Senders, k \in Hosts :
            /\ \A u : Among(u, W[<<e, k>>]) <=>
                        Among(u, wire[<<e, k>>]) \/ (e = h /\ k \in {g} \cap up /\ IsTask(m, u))
            /\ \A u : Once(u, wire[<<e, k>>]) /\ ~(Among(u, wire[<<e, k>>]) /\ IsTask(m, u))
                        => Once(u, W[<<e, k>>])
      BY <2>1, PostedTasks
    <2>5. \A e \in Senders, k \in Hosts :
            \A n : Has(W[<<e, k>>], n) => Has(wire[<<e, k>>], n) \/ (e = h /\ m.kind = n)
      BY <2>1, PostedTasks
    <2>6. wire' = W
      BY <1>1 DEF m
    <2>. HIDE DEF W
    <2>. QED
      BY <1>1, <2>1, <2>2, <2>3, <2>4, <2>5, <2>6
  <1>2. CASE h \notin up
    BY <1>2 DEF TypeOK
  <1>. QED
    BY <1>1, <1>2

\* The main thread sends the task it has taken.
LEMMA SendStep ==
  ASSUME HostInv, NEW h \in Hosts, SendTask(h)
  PROVE  HostInv' /\ Quiet
  <1>1. /\ main[h] = "send"
        /\ main' = [main EXCEPT ![h] = "loop"]
        /\ target' = [target EXCEPT ![h] = None] /\ hand' = [hand EXCEPT ![h] = None]
        /\ UNCHANGED <<up, closures, table, view, pool, running, wedged, interrupt,
                       created, done, stopper, disturbed, failed>>
    BY DEF SendTask, env, work, past
  <1>2. TypeOK /\ Shapes /\ Placed /\ EmployerSays /\ TableFirst /\ EndKnown
    BY DEF HostInv
  <1>3. PICK t \in Tasks, g \in Hosts \ {h} : hand[h] = t /\ target[h] = g
    BY <1>1, <1>2, HostAssumption DEF TypeOK
  <1>0. wire' = IF h \in up THEN Post(h, {g}, TaskMsg(t)) ELSE wire
    BY <1>3 DEF SendTask
  <1>4. /\ wire' \in [Senders \X Hosts -> Seq(Messages)]
        /\ \A e \in Senders, k \in Hosts : e # h => wire'[<<e, k>>] = wire[<<e, k>>]
    BY <1>0, <1>2, Shipped
  <1>5. \A e \in Senders, k \in Hosts :
          /\ \A u : Among(u, wire'[<<e, k>>]) <=>
                      Among(u, wire[<<e, k>>]) \/ (e = h /\ k = g /\ u = t /\ h \in up /\ g \in up)
          /\ \A u : Once(u, wire[<<e, k>>]) /\ ~(Among(u, wire[<<e, k>>]) /\ u = t)
                      => Once(u, wire'[<<e, k>>])
          /\ Has(wire'[<<e, k>>], "stop") => Has(wire[<<e, k>>], "stop")
    BY <1>0, <1>2, Shipped
  <1>6. /\ \A k \in Hosts : hand'[k] = IF k = h THEN None ELSE hand[k]
        /\ \A k \in Hosts : main'[k] = IF k = h THEN "loop" ELSE main[k]
        /\ \A k \in Hosts : target'[k] = IF k = h THEN None ELSE target[k]
        /\ main' \in [Hosts -> {"loop", "dequeue", "send", "closing", "joining", "ended"}]
        /\ target' \in [Hosts -> Hosts \cup {None}] /\ hand' \in [Hosts -> Tasks \cup {None}]
    BY <1>1, <1>2 DEF TypeOK, Shapes
  <1>7. /\ "wire" \in Boxes /\ "hand" \in Boxes /\ h \in Senders /\ Employer \in Senders
        /\ Primary \in Hosts /\ Main \in Tasks /\ Employer # h /\ t # None
    BY HostAssumption DEF Boxes, Senders
  <1>8. At(t, "hand", h, h) /\ ~At(t, "hand", h, h)'
    BY <1>3, <1>6, <1>7 DEF At
  <1>9. Ending' <=> Ending
    BY <1>1 DEF Ending
  <1>10. At(t, "wire", h, g)' \/ Ending'
    <2>1. CASE h \in up /\ g \in up
      <3>1. Among(t, wire'[<<h, g>>])
        BY <1>5, <1>7, <2>1
      <3>. QED
        BY <3>1 DEF At, Among
    <2>2. CASE ~(h \in up /\ g \in up)
      BY <1>2, <1>9, <2>2, EndsIfDown
    <2>. QED
      BY <2>1, <2>2
  <1>11. Enters(t, "wire", h, g)
    <2>1. \A k \in Senders, l \in Hosts :
            Among(t, wire'[<<k, l>>]) => Among(t, wire[<<k, l>>]) \/ (k = h /\ l = g)
      BY <1>5
    <2>. QED
      BY <1>1, <1>6, <1>7, <2>1, OneNew
  <1>12. \A u \in Tasks \ {t} : Fixed(u)
    <2>. TAKE u \in Tasks \ {t}
    <2>1. \A k \in Senders, l \in Hosts : Among(u, wire'[<<k, l>>]) <=> Among(u, wire[<<k, l>>])
      <3>. TAKE k \in Senders, l \in Hosts
      <3>1. Among(u, wire'[<<k, l>>]) <=>
              Among(u, wire[<<k, l>>]) \/ (k = h /\ l = g /\ u = t /\ h \in up /\ g \in up)
        BY <1>5
      <3>. QED
        BY <3>1
    <2>2. u # None
      BY HostAssumption
    <2>. QED
      BY <1>1, <1>3, <1>6, <2>1, <2>2, NothingMoves
  <1>13. \A u \in Tasks : /\ \A k \in Senders, l \in Hosts : Once(u, wire'[<<k, l>>])
                          /\ \A l \in Hosts : Once(u, closures'[l])
    <2>1. \A k \in Senders, l \in Hosts : ~Among(t, wire[<<k, l>>])
      <3>1. \A k \in Senders, l \in Hosts : ~At(t, "wire", k, l)
        BY <1>2, <1>7, <1>8 DEF Placed, Alone
      <3>. QED
        BY <3>1 DEF At
    <2>. QED
      BY <1>1, <1>2, <1>5, <2>1 DEF Placed
  <1>14. Placed' /\ Quiet
    BY <1>1, <1>7, <1>8, <1>9, <1>10, <1>11, <1>12, <1>13, OneMoves
  <1>15. TypeOK'
    BY <1>1, <1>2, <1>4, <1>6 DEF TypeOK
  <1>16. Shapes'
    BY <1>1, <1>2, <1>6 DEF Shapes
  <1>17. EmployerSays'
    BY <1>2, <1>4, <1>7 DEF EmployerSays
  <1>18. EndKnown'
    BY <1>1, <1>2, <1>5, <1>6, <1>9 DEF EndKnown
  <1>19. TableFirst'
    <2>. SUFFICES ASSUME Primary \notin table PROVE FALSE
      BY <1>1 DEF TableFirst
    <2>1. t = Main
      BY <1>2, <1>7, <1>8 DEF TableFirst, Placed, Nowhere
    <2>. QED
      BY <1>2, <1>7, <1>8, <2>1 DEF TableFirst
  <1>. QED
    BY <1>14, <1>15, <1>16, <1>17, <1>18, <1>19 DEF HostInv

-----------------------------------------------------------------------------
(* Steps in which a task begins or ends its life *)

\* A task that stays in its box keeps its phase.
LEMMA SamePhase ==
  ASSUME TypeOK, TypeOK', NEW t \in Tasks, Fixed(t),
         t \in created' <=> t \in created, t \in done' <=> t \in done
  PROVE  PhaseOf(t)' = PhaseOf(t)
  <1>1. Stay(t)
    BY FixedStays
  <1>. QED
    BY <1>1, PhaseIs, PhaseAfter DEF Stay

\* A task that runs is created, and not done.
LEMMA RunningIs ==
  ASSUME HostInv, NEW t \in Tasks, NEW h \in Hosts, t \in running[h]
  PROVE  /\ At(t, "running", h, h) /\ ~Nowhere(t) /\ Runs(t)
         /\ t \in created /\ t \notin done /\ PhaseOf(t) = "running"
         /\ Primary \in table
  <1>1. TypeOK /\ Placed /\ TableFirst
    BY DEF HostInv
  <1>2. "running" \in Boxes /\ h \in Senders /\ Runs(t)
    BY DEF Boxes, Senders, Runs
  <1>3. At(t, "running", h, h)
    BY DEF At
  <1>4. ~Nowhere(t)
    BY <1>2, <1>3 DEF Nowhere
  <1>5. t \in created /\ t \notin done
    BY <1>1, <1>4 DEF Placed
  <1>6. PhaseOf(t) = "running"
    BY <1>1, <1>2, <1>5, PhaseIs
  <1>7. Primary \in table
    BY <1>1, <1>2, <1>3, <1>5 DEF TableFirst
  <1>. QED
    BY <1>2, <1>3, <1>4, <1>5, <1>6, <1>7

\* A worker takes a task from the pool.
LEMMA PopStep ==
  ASSUME HostInv, NEW h \in Hosts, Pop(h)
  PROVE  HostInv' /\ \E t \in Tasks : Promise!Start(t)
  <1>1. UNCHANGED <<wire, up, closures, table, view, wedged, interrupt, main, target, hand,
                    created, done, stopper, disturbed, failed>>
    BY DEF Pop, link, env, loop, past
  <1>2. TypeOK /\ Shapes /\ Placed /\ EmployerSays /\ TableFirst /\ EndKnown
    BY DEF HostInv
  <1>3. PICK t \in pool[h] : /\ pool' = [pool EXCEPT ![h] = @ \ {t}]
                             /\ running' = [running EXCEPT ![h] = @ \cup {t}]
    BY DEF Pop
  <1>4. /\ \A g \in Hosts : pool'[g] = IF g = h THEN pool[h] \ {t} ELSE pool[g]
        /\ \A g \in Hosts : running'[g] = IF g = h THEN running[h] \cup {t} ELSE running[g]
        /\ t \in Tasks \ Unknown
    BY <1>2, <1>3 DEF TypeOK
  <1>5. /\ "pool" \in Boxes /\ "running" \in Boxes /\ h \in Senders
        /\ Primary \in Hosts /\ Main \in Tasks
    BY HostAssumption DEF Boxes, Senders
  <1>6. At(t, "pool", h, h) /\ ~At(t, "pool", h, h)' /\ At(t, "running", h, h)'
    BY <1>4 DEF At
  <1>7. Enters(t, "running", h, h)
    BY <1>1, <1>4, <1>5, OneNew
  <1>8. Alone(t) /\ t \in created /\ t \notin done /\ ~Nowhere(t)
    BY <1>2, <1>4, <1>5, <1>6 DEF Placed, Nowhere
  <1>9. Goes(t, "running", h, h)
    BY <1>5, <1>6, <1>7, <1>8, Shifted
  <1>10. \A u \in Tasks \ {t} : Fixed(u)
    BY <1>1, <1>4, NothingMoves
  <1>11. \A u \in Tasks : /\ \A k \in Senders, l \in Hosts : Once(u, wire'[<<k, l>>])
                          /\ \A l \in Hosts : Once(u, closures'[l])
    BY <1>1, <1>2 DEF Placed
  <1>12. Placed'
    BY <1>1, <1>2, <1>5, <1>8, <1>9, <1>10, <1>11, PlacedKept
  <1>13. TypeOK' /\ Shapes'
    <2>1. /\ pool' \in [Hosts -> SUBSET (Tasks \ Unknown)]
          /\ running' \in [Hosts -> SUBSET (Tasks \ Unknown)]
      BY <1>2, <1>3, <1>4 DEF TypeOK
    <2>. QED
      BY <1>1, <1>2, <1>4, <2>1 DEF TypeOK, Shapes
  <1>14. Ending' <=> Ending
    BY <1>1 DEF Ending
  <1>15. EmployerSays' /\ EndKnown'
    BY <1>1, <1>2, <1>14 DEF EmployerSays, EndKnown
  <1>16. TableFirst'
    <2>. SUFFICES ASSUME Primary \notin table PROVE FALSE
      BY <1>1 DEF TableFirst
    <2>1. t = Main
      BY <1>2, <1>4, <1>8 DEF TableFirst
    <2>. QED
      BY <1>2, <1>5, <1>6, <2>1 DEF TableFirst
  <1>17. HostInv'
    BY <1>12, <1>13, <1>15, <1>16 DEF HostInv
  <1>18. PhaseOf(t) = "waiting" /\ PhaseOf(t)' = "running"
    <2>1. ~Runs(t)
      <3>1. \A g \in Hosts : g \in Senders /\ ~At(t, "running", g, g)
        BY <1>5, <1>6, <1>8 DEF Alone, Senders
      <3>. QED
        BY <3>1 DEF Runs, At
    <2>2. Runs(t)'
      BY <1>4 DEF Runs
    <2>. QED
      BY <1>1, <1>2, <1>4, <1>8, <1>13, <2>1, <2>2, PhaseIs, PhaseAfter
  <1>19. \A u \in Tasks \ {t} : PhaseOf(u)' = PhaseOf(u)
    BY <1>1, <1>2, <1>10, <1>13, SamePhase
  <1>20. Promise!Start(t)
    <2>1. [u \in Tasks |-> PhaseOf(u)]' = [[u \in Tasks |-> PhaseOf(u)] EXCEPT ![t] = PhaseOf(t)']
      BY <1>4, <1>19, OneChanges
    <2>2. Ending' = Ending
      BY <1>1 DEF Ending
    <2>. QED
      BY <1>4, <1>18, <2>1, <2>2 DEF Promise!Start
  <1>. QED
    BY <1>4, <1>17, <1>20

\* The task a worker runs returns.
LEMMA ReturnStep ==
  ASSUME HostInv, NEW h \in Hosts, NEW t \in Tasks, DoTaskReturns(h, t)
  PROVE  HostInv' /\ Promise!Finish(t)
  <1>1. /\ t \in running[h] /\ wedged[h] # t
        /\ running' = [running EXCEPT ![h] = @ \ {t}] /\ done' = done \cup {t}
        /\ UNCHANGED <<wire, up, closures, table, view, pool, wedged, interrupt, main, target, hand,
                       created, stopper, disturbed, failed>>
    BY DEF DoTaskReturns, link, env, loop
  <1>2. TypeOK /\ Shapes /\ Placed /\ EmployerSays /\ TableFirst /\ EndKnown
    BY DEF HostInv
  <1>3. \A g \in Hosts : running'[g] = IF g = h THEN running[h] \ {t} ELSE running[g]
    BY <1>1, <1>2 DEF TypeOK
  <1>4. /\ "running" \in Boxes /\ h \in Senders /\ Primary \in Hosts /\ Main \in Tasks
    BY HostAssumption DEF Boxes, Senders
  <1>5. /\ At(t, "running", h, h) /\ t \in created /\ t \notin done /\ PhaseOf(t) = "running"
        /\ Primary \in table
    BY <1>1, RunningIs
  <1>6. Gone(t)
    <2>1. NoNew(t)
      BY <1>1, <1>3, NothingNew
    <2>2. ~At(t, "running", h, h)'
      BY <1>3 DEF At
    <2>. QED
      BY <1>2, <1>4, <1>5, <2>1, <2>2, StaysOrGoes DEF Placed, Fixed
  <1>7. \A u \in Tasks \ {t} : Fixed(u)
    BY <1>1, <1>3, NothingMoves
  <1>8. \A u \in Tasks : /\ \A k \in Senders, l \in Hosts : Once(u, wire'[<<k, l>>])
                         /\ \A l \in Hosts : Once(u, closures'[l])
    BY <1>1, <1>2 DEF Placed
  <1>9. Placed'
    BY <1>1, <1>2, <1>6, <1>7, <1>8, PlacedKept
  <1>10. TypeOK' /\ Shapes'
    <2>1. running' \in [Hosts -> SUBSET (Tasks \ Unknown)]
      BY <1>1, <1>2 DEF TypeOK
    <2>2. \A g \in Hosts : wedged'[g] = None \/ wedged'[g] \in running'[g]
      BY <1>1, <1>2, <1>3 DEF TypeOK
    <2>. QED
      BY <1>1, <1>2, <1>5, <2>1, <2>2 DEF TypeOK, Shapes
  <1>11. Ending' <=> Ending
    BY <1>1 DEF Ending
  <1>12. EmployerSays' /\ EndKnown' /\ TableFirst'
    BY <1>1, <1>2, <1>5, <1>11 DEF EmployerSays, EndKnown, TableFirst
  <1>13. HostInv'
    BY <1>9, <1>10, <1>12 DEF HostInv
  <1>14. PhaseOf(t)' = "done"
    BY <1>1, <1>5, <1>10, PhaseAfter
  <1>15. \A u \in Tasks \ {t} : PhaseOf(u)' = PhaseOf(u)
    BY <1>1, <1>2, <1>7, <1>10, SamePhase
  <1>16. Promise!Finish(t)
    <2>1. [u \in Tasks |-> PhaseOf(u)]' = [[u \in Tasks |-> PhaseOf(u)] EXCEPT ![t] = PhaseOf(t)']
      BY <1>15, OneChanges
    <2>2. Ending' = Ending
      BY <1>1 DEF Ending
    <2>. QED
      BY <1>5, <1>14, <2>1, <2>2 DEF Promise!Finish
  <1>. QED
    BY <1>13, <1>16

\* A running task gives task t to PerformTask, which puts it into one box at most.
LEMMA Created ==
  ASSUME HostInv, TypeOK', NEW h \in Hosts, NEW c \in Tasks, c \in running[h],
         NEW t \in Tasks \ created, created' = created \cup {t}, done' = done,
         NEW b \in Boxes \ {"running"}, NEW f \in Senders, NEW i \in Hosts,
         Enters(t, b, f, i),
         \/ At(t, b, f, i)' /\ Ending' = Ending
         \/ ~At(t, b, f, i)' /\ Ending' = TRUE,
         \A u \in Tasks \ {t} : Fixed(u),
         \A u \in Tasks : /\ \A k \in Senders, l \in Hosts : Once(u, wire'[<<k, l>>])
                          /\ \A l \in Hosts : Once(u, closures'[l])
  PROVE  Placed' /\ [Promise!Next]_(Promise!vars)
  <1>1. TypeOK /\ Placed
    BY DEF HostInv
  <1>2. t \in Tasks /\ t \in created' /\ t \notin done' /\ Nowhere(t)
    BY <1>1 DEF Placed, TypeOK
  <1>3. Goes(t, b, f, i)
    BY <1>2 DEF Nowhere, Goes, Enters
  <1>4. Placed'
    BY <1>1, <1>2, <1>3, PlacedKept
  <1>5. \A u \in Tasks \ {t} : PhaseOf(u)' = PhaseOf(u)
    BY <1>1, SamePhase
  <1>6. PhaseOf(c) = "running"
    BY RunningIs
  <1>7. PhaseOf(t) = "new"
    BY <1>1, <1>2, PhaseIs
  <1>8. ~Runs(t)'
    <2>1. \A l \in Hosts : l \in Senders /\ "running" \in Boxes
      BY DEF Senders, Boxes
    <2>2. \A l \in Hosts : ~At(t, "running", l, l)'
      BY <1>3, <2>1 DEF Goes
    <2>. QED
      BY <2>2 DEF At, Runs
  <1>9. [u \in Tasks |-> PhaseOf(u)]' = [[u \in Tasks |-> PhaseOf(u)] EXCEPT ![t] = PhaseOf(t)']
    BY <1>2, <1>5, OneChanges
  <1>10. CASE At(t, b, f, i)' /\ Ending' = Ending
    <2>1. ~Nowhere(t)'
      BY <1>10 DEF Nowhere
    <2>2. PhaseOf(t)' = "waiting"
      BY <1>2, <1>8, <2>1, PhaseAfter
    <2>3. Promise!Create(t)
      BY <1>2, <1>6, <1>7, <1>9, <1>10, <2>2 DEF Promise!Create
    <2>. QED
      BY <1>2, <1>4, <2>3 DEF Promise!Next
  <1>11. CASE ~At(t, b, f, i)' /\ Ending' = TRUE
    <2>1. Nowhere(t)'
      BY <1>3, <1>11 DEF Nowhere, Goes
    <2>2. PhaseOf(t)' = "lost"
      BY <1>2, <1>8, <2>1, PhaseAfter
    <2>3. \A u \in Tasks : PhaseOf(u)' \in Promise!Phases
      BY PhaseAfter DEF Promise!Phases
    <2>4. Promise!End
      BY <1>5, <1>7, <1>11, <2>2, <2>3 DEF Promise!End
    <2>. QED
      BY <1>4, <2>4 DEF Promise!Next
  <1>. QED
    BY <1>10, <1>11

\* PerformTask for the host itself.
LEMMA HereStep ==
  ASSUME HostInv, NEW h \in Hosts, NEW c \in Tasks, NEW t \in Tasks, PerformTaskHere(h, c, t)
  PROVE  HostInv' /\ [Promise!Next]_(Promise!vars)
  <1>1. /\ h \in table /\ c \in running[h] /\ wedged[h] = None
        /\ t \in Tasks \ created /\ created' = created \cup {t}
        /\ UNCHANGED <<wire, up, closures, table, view, running, interrupt, main, target, hand,
                       done, stopper, failed>>
    BY DEF PerformTaskHere, Calls, link, env, loop
  <1>2. TypeOK /\ Shapes /\ Placed /\ EmployerSays /\ TableFirst /\ EndKnown
    BY DEF HostInv
  <1>3. \/ t \in Unknown /\ wedged' = [wedged EXCEPT ![h] = c] /\ disturbed' = TRUE /\ pool' = pool
        \/ /\ t \notin Unknown /\ wedged' = wedged /\ disturbed' = disturbed
           /\ pool' = IF main[h] = "joining" THEN pool ELSE [pool EXCEPT ![h] = @ \cup {t}]
    BY DEF PerformTaskHere, ReportMessage, Enqueue
  <1>4. /\ "pool" \in Boxes \ {"running"} /\ h \in Senders /\ Primary \in Hosts /\ Main \in Tasks
    BY HostAssumption DEF Boxes, Senders
  <1>5. Primary \in table
    BY <1>1, RunningIs
  <1>6. /\ pool' \in [Hosts -> SUBSET (Tasks \ Unknown)]
        /\ \A g \in Hosts, u \in Tasks : u \in pool'[g] => u \in pool[g] \/ (u = t /\ g = h)
        /\ \A g \in Hosts, u \in Tasks : u \in pool[g] => u \in pool'[g]
    <2>1. CASE pool' = pool
      BY <1>2, <2>1 DEF TypeOK
    <2>2. CASE t \notin Unknown /\ pool' = [pool EXCEPT ![h] = @ \cup {t}]
      <3>1. \A g \in Hosts : pool'[g] = IF g = h THEN pool[g] \cup {t} ELSE pool[g]
        BY <1>2, <2>2 DEF TypeOK
      <3>2. pool' \in [Hosts -> SUBSET (Tasks \ Unknown)]
        BY <1>1, <1>2, <2>2 DEF TypeOK
      <3>. QED
        BY <3>1, <3>2
    <2>. QED
      BY <1>3, <2>1, <2>2
  <1>7. TypeOK' /\ Shapes'
    <2>1. /\ wedged' \in [Hosts -> Tasks \cup {None}] /\ disturbed' \in BOOLEAN
          /\ \A g \in Hosts : wedged'[g] = None \/ wedged'[g] \in running'[g]
      <3>1. CASE wedged' = wedged /\ disturbed' = disturbed
        BY <1>1, <1>2, <3>1 DEF TypeOK, Shapes
      <3>2. CASE wedged' = [wedged EXCEPT ![h] = c] /\ disturbed' = TRUE
        BY <1>1, <1>2, <3>2 DEF TypeOK, Shapes
      <3>. QED
        BY <1>3, <3>1, <3>2
    <2>. QED
      BY <1>1, <1>2, <1>6, <2>1 DEF TypeOK, Shapes
  <1>8. \/ At(t, "pool", h, h)' /\ Ending' = Ending
        \/ ~At(t, "pool", h, h)' /\ Ending' = TRUE
    <2>1. t \notin pool[h]
      <3>1. Nowhere(t)
        BY <1>1, <1>2 DEF Placed
      <3>. QED
        BY <1>4, <3>1 DEF Nowhere, At
    <2>2. CASE t \in Unknown /\ disturbed' = TRUE /\ pool' = pool
      BY <2>1, <2>2 DEF At, Ending
    <2>3. CASE main[h] = "joining" /\ pool' = pool /\ disturbed' = disturbed
      <3>1. Ending
        BY <1>2, <2>3, EndsIfDown
      <3>2. Ending' /\ Ending' \in BOOLEAN
        BY <1>1, <1>7, <2>3, <3>1 DEF Ending, TypeOK
      <3>. QED
        BY <2>1, <2>3, <3>2 DEF At
    <2>4. CASE pool' = [pool EXCEPT ![h] = @ \cup {t}] /\ disturbed' = disturbed
      <3>1. t \in pool'[h]
        BY <1>2, <2>4 DEF TypeOK
      <3>2. Ending' = Ending
        BY <1>1, <2>4 DEF Ending
      <3>. QED
        BY <3>1, <3>2 DEF At
    <2>. QED
      BY <1>3, <2>2, <2>3, <2>4
  <1>9. Enters(t, "pool", h, h)
    BY <1>1, <1>4, <1>6, OneNew
  <1>10. \A u \in Tasks \ {t} : Fixed(u)
    <2>. TAKE u \in Tasks \ {t}
    <2>1. \A g \in Hosts : u \in pool'[g] <=> u \in pool[g]
      BY <1>6
    <2>. QED
      BY <1>1, <2>1, NothingMoves
  <1>11. \A u \in Tasks : /\ \A k \in Senders, l \in Hosts : Once(u, wire'[<<k, l>>])
                          /\ \A l \in Hosts : Once(u, closures'[l])
    BY <1>1, <1>2 DEF Placed
  <1>12. Placed' /\ [Promise!Next]_(Promise!vars)
    BY <1>1, <1>4, <1>7, <1>8, <1>9, <1>10, <1>11, Created
  <1>13. EmployerSays'
    BY <1>1, <1>2 DEF EmployerSays
  <1>14. TableFirst'
    BY <1>1, <1>5 DEF TableFirst
  <1>15. EndKnown'
    <2>. SUFFICES ASSUME ~Ending' PROVE EndKnown'
      BY DEF EndKnown
    <2>1. wedged' = wedged /\ disturbed' = disturbed
      BY <1>3 DEF Ending
    <2>2. ~Ending
      BY <1>1, <2>1 DEF Ending
    <2>. QED
      BY <1>1, <1>2, <2>1, <2>2 DEF EndKnown
  <1>. QED
    BY <1>7, <1>12, <1>13, <1>14, <1>15 DEF HostInv

\* PerformTask for another host.
LEMMA ThereStep ==
  ASSUME HostInv, NEW h \in Hosts, NEW c \in Tasks, NEW t \in Tasks, NEW g \in Hosts,
         PerformTaskThere(h, c, t, g)
  PROVE  HostInv' /\ [Promise!Next]_(Promise!vars)
  <1>0. wire' = IF h \in up THEN Post(h, {g}, TaskMsg(t)) ELSE wire
    BY DEF PerformTaskThere
  <1>1. /\ c \in running[h] /\ t \in Tasks \ created /\ created' = created \cup {t}
        /\ UNCHANGED <<up, closures, table, view, pool, running, wedged, interrupt, main, target,
                       hand, done, stopper, disturbed, failed>>
    BY DEF PerformTaskThere, Calls, env, work, loop
  <1>2. TypeOK /\ Shapes /\ Placed /\ EmployerSays /\ TableFirst /\ EndKnown
    BY DEF HostInv
  <1>3. /\ "wire" \in Boxes \ {"running"} /\ h \in Senders /\ Employer \in Senders
        /\ Primary \in Hosts /\ Main \in Tasks /\ Employer # h
    BY HostAssumption DEF Boxes, Senders
  <1>4. /\ wire' \in [Senders \X Hosts -> Seq(Messages)]
        /\ \A e \in Senders, k \in Hosts : e # h => wire'[<<e, k>>] = wire[<<e, k>>]
    BY <1>0, <1>2, Shipped
  <1>5. \A e \in Senders, k \in Hosts :
          /\ \A u : Among(u, wire'[<<e, k>>]) <=>
                      Among(u, wire[<<e, k>>]) \/ (e = h /\ k = g /\ u = t /\ h \in up /\ g \in up)
          /\ \A u : Once(u, wire[<<e, k>>]) /\ ~(Among(u, wire[<<e, k>>]) /\ u = t)
                      => Once(u, wire'[<<e, k>>])
          /\ Has(wire'[<<e, k>>], "stop") => Has(wire[<<e, k>>], "stop")
    BY <1>0, <1>2, Shipped
  <1>6. Primary \in table
    BY <1>1, RunningIs
  <1>7. TypeOK' /\ Shapes'
    BY <1>1, <1>2, <1>4 DEF TypeOK, Shapes
  <1>8. \A k \in Senders, l \in Hosts : ~Among(t, wire[<<k, l>>])
    <2>1. Nowhere(t)
      BY <1>1, <1>2 DEF Placed
    <2>. QED
      BY <1>3, <2>1 DEF Nowhere, At
  <1>9. \/ At(t, "wire", h, g)' /\ Ending' = Ending
        \/ ~At(t, "wire", h, g)' /\ Ending' = TRUE
    <2>1. CASE h \in up /\ g \in up
      <3>1. Among(t, wire'[<<h, g>>])
        BY <1>3, <1>5, <2>1
      <3>2. Ending' = Ending
        BY <1>1 DEF Ending
      <3>. QED
        BY <3>1, <3>2 DEF At, Among
    <2>2. CASE ~(h \in up /\ g \in up)
      <3>1. ~Among(t, wire'[<<h, g>>])
        BY <1>3, <1>5, <1>8, <2>2
      <3>2. Ending
        BY <1>2, <2>2, EndsIfDown
      <3>3. Ending' /\ Ending' \in BOOLEAN
        BY <1>1, <1>2, <3>2 DEF Ending, TypeOK
      <3>. QED
        BY <3>1, <3>3 DEF At, Among
    <2>. QED
      BY <2>1, <2>2
  <1>10. Enters(t, "wire", h, g)
    <2>1. \A k \in Senders, l \in Hosts :
            Among(t, wire'[<<k, l>>]) => Among(t, wire[<<k, l>>]) \/ (k = h /\ l = g)
      BY <1>5
    <2>. QED
      BY <1>1, <1>3, <2>1, OneNew
  <1>11. \A u \in Tasks \ {t} : Fixed(u)
    <2>. TAKE u \in Tasks \ {t}
    <2>1. \A k \in Senders, l \in Hosts : Among(u, wire'[<<k, l>>]) <=> Among(u, wire[<<k, l>>])
      <3>. TAKE k \in Senders, l \in Hosts
      <3>1. Among(u, wire'[<<k, l>>]) <=>
              Among(u, wire[<<k, l>>]) \/ (k = h /\ l = g /\ u = t /\ h \in up /\ g \in up)
        BY <1>5
      <3>. QED
        BY <3>1
    <2>. QED
      BY <1>1, <2>1, NothingMoves
  <1>12. \A u \in Tasks : /\ \A k \in Senders, l \in Hosts : Once(u, wire'[<<k, l>>])
                          /\ \A l \in Hosts : Once(u, closures'[l])
    BY <1>1, <1>2, <1>5, <1>8 DEF Placed
  <1>13. Placed' /\ [Promise!Next]_(Promise!vars)
    <2>1. c \in running[h] /\ t \in Tasks \ created /\ created' = created \cup {t} /\ done' = done
      BY <1>1
    <2>. QED
      BY <2>1, <1>3, <1>7, <1>9, <1>10, <1>11, <1>12, Created
  <1>14. EmployerSays'
    BY <1>2, <1>3, <1>4 DEF EmployerSays
  <1>15. TableFirst'
    BY <1>1, <1>6 DEF TableFirst
  <1>16. Ending' <=> Ending
    BY <1>1 DEF Ending
  <1>17. EndKnown'
    BY <1>1, <1>2, <1>5, <1>16 DEF EndKnown
  <1>. QED
    BY <1>7, <1>13, <1>14, <1>15, <1>17 DEF HostInv

-----------------------------------------------------------------------------
(* The invariant, and what follows from it *)

\* The computation begins with Main under way to the primary, behind the table.
LEMMA Beginning ==
  ASSUME Init
  PROVE  HostInv /\ Promise!Init
  <1> DEFINE s == <<TableMsg, TaskMsg(Main)>>
             r == <<TableMsg>>
  <1>1. /\ Primary \in Hosts /\ Main \in Tasks /\ Main \notin Unknown /\ Employer \notin Hosts
        /\ Employer \in Senders /\ None \notin Hosts /\ None \notin Tasks
        /\ 0 \in Counts
    BY HostAssumption, FS_CardinalityType DEF Senders, Counts
  <1>2. /\ s \in Seq(Messages) /\ r \in Seq(Messages) /\ <<>> \in Seq(Messages)
        /\ <<>> \in Seq(Closures)
    <2>1. TableMsg \in Messages /\ TaskMsg(Main) \in Messages
      BY <1>1, MessageKinds
    <2>. QED
      BY <2>1
  <1>3. /\ \A t : Among(t, s) <=> t = Main
        /\ \A t : Once(t, s) /\ Once(t, r) /\ ~Among(t, r)
        /\ ~Has(s, "status") /\ ~Has(s, "stop") /\ ~Has(r, "status") /\ ~Has(r, "stop")
        /\ Follows(s)
    <2>1. /\ DOMAIN s = {1, 2} /\ DOMAIN r = {1}
          /\ s[1] = TableMsg /\ s[2] = TaskMsg(Main) /\ r[1] = TableMsg
      OBVIOUS
    <2>2. /\ TableMsg.kind = "table" /\ TaskMsg(Main).kind = "task" /\ TaskMsg(Main).task = Main
      BY Fields
    <2>. HIDE DEF s, r
    <2>3. /\ \A t : Among(t, s) <=> t = Main
          /\ \A t : Once(t, s) /\ Once(t, r) /\ ~Among(t, r)
      BY <2>1, <2>2 DEF Among, Once, IsTask
    <2>4. ~Has(s, "status") /\ ~Has(s, "stop") /\ ~Has(r, "status") /\ ~Has(r, "stop")
      BY <2>1, <2>2 DEF Has
    <2>5. Follows(s)
      BY <2>1, <2>2 DEF Follows
    <2>. QED
      BY <2>3, <2>4, <2>5
  <1>. HIDE DEF s, r
  <1>4. /\ wire \in [Senders \X Hosts -> Seq(Messages)]
        /\ \A f \in Senders, h \in Hosts :
             wire[<<f, h>>] = IF f # Employer THEN <<>> ELSE IF h = Primary THEN s ELSE r
    <2>1. wire = [p \in Senders \X Hosts |->
                    IF p[1] # Employer THEN <<>> ELSE IF p[2] = Primary THEN s ELSE r]
      BY DEF Init, s, r
    <2>2. \A f \in Senders, h \in Hosts :
            <<f, h>> \in Senders \X Hosts /\ <<f, h>>[1] = f /\ <<f, h>>[2] = h
      OBVIOUS
    <2>. QED
      BY <1>2, <2>1, <2>2
  <1>5. /\ up = Hosts /\ closures = [h \in Hosts |-> <<>>]
        /\ table = {} /\ view = [h \in Hosts |-> [g \in Hosts |-> 0]]
        /\ pool = [h \in Hosts |-> {}] /\ running = [h \in Hosts |-> {}]
        /\ wedged = [h \in Hosts |-> None] /\ interrupt = {} /\ main = [h \in Hosts |-> "loop"]
        /\ target = [h \in Hosts |-> None] /\ hand = [h \in Hosts |-> None]
        /\ created = {Main} /\ done = {} /\ stopper = None /\ disturbed = FALSE /\ failed = {}
    BY DEF Init
  <1>6. TypeOK /\ Shapes
    BY <1>1, <1>2, <1>4, <1>5 DEF TypeOK, Shapes
  <1>7. \A t \in Tasks, b \in Boxes, f \in Senders, h \in Hosts :
          At(t, b, f, h) <=> t = Main /\ b = "wire" /\ f = Employer /\ h = Primary
    <2>. TAKE t \in Tasks, b \in Boxes, f \in Senders, h \in Hosts
    <2>1. Among(t, wire[<<f, h>>]) <=> t = Main /\ f = Employer /\ h = Primary
      BY <1>3, <1>4, Empty
    <2>2. ~Among(t, closures[h]) /\ t \notin pool[h] /\ t \notin running[h] /\ t # hand[h]
      BY <1>1, <1>5, Empty
    <2>. QED
      BY <2>1, <2>2 DEF At
  <1>8. Placed
    <2>1. \A t \in Tasks : Alone(t)
      BY <1>7 DEF Alone
    <2>2. \A t \in Tasks : \A f \in Senders, h \in Hosts : Once(t, wire[<<f, h>>])
      BY <1>3, <1>4, Empty
    <2>3. \A t \in Tasks : \A h \in Hosts : Once(t, closures[h])
      BY <1>5, Empty
    <2>4. \A t \in Tasks : t \notin created \/ t \in done => Nowhere(t)
      BY <1>5, <1>7 DEF Nowhere
    <2>. QED
      BY <2>1, <2>2, <2>3, <2>4 DEF Placed
  <1>9. EmployerSays
    BY <1>1, <1>3, <1>4 DEF EmployerSays
  <1>10. TableFirst
    BY <1>1, <1>3, <1>4, <1>5, <1>7, Empty DEF TableFirst
  <1>11. EndKnown
    <2>1. \A f \in Senders, h \in Hosts : ~Has(wire[<<f, h>>], "stop")
      BY <1>3, <1>4, Empty
    <2>2. \A h \in Hosts : ~Has(closures[h], "failed")
      BY <1>5, Empty
    <2>. QED
      BY <1>5, <2>1, <2>2 DEF EndKnown
  <1>12. HostInv
    BY <1>6, <1>8, <1>9, <1>10, <1>11 DEF HostInv
  <1>13. Promise!Init
    <2>1. ~Nowhere(Main)
      BY <1>1, <1>7 DEF Nowhere, Boxes
    <2>2. \A t \in Tasks : ~Runs(t)
      BY <1>5 DEF Runs
    <2>3. \A t \in Tasks : PhaseOf(t) = IF t = Main THEN "waiting" ELSE "new"
      BY <1>5, <1>6, <2>1, <2>2, PhaseIs
    <2>4. Ending = FALSE
      BY <1>5 DEF Ending
    <2>. QED
      BY <2>3, <2>4 DEF Promise!Init
  <1>. QED
    BY <1>12, <1>13

\* Each step keeps the invariant, and is a step of Computation or none.
LEMMA StepByStep ==
  ASSUME HostInv, [Next]_vars
  PROVE  HostInv' /\ [Promise!Next]_(Promise!vars)
  <1>1. HostInv' /\ Quiet => HostInv' /\ [Promise!Next]_(Promise!vars)
    BY QuietStep DEF HostInv
  <1>2. ASSUME NEW h \in Hosts, NEW f \in Senders, HandleMessage(f, h)
        PROVE  HostInv' /\ Quiet
    BY <1>2, NoticeStep, TaskReceivedStep
  <1>3. ASSUME NEW h \in Hosts, RunClosure(h)
        PROVE  HostInv' /\ Quiet
    BY <1>3, InitPackageStep, TaskArrivesStep, StatusPackageStep, FailedStep DEF RunClosure
  <1>4. ASSUME NEW h \in Hosts, MainThread(h)
        PROVE  HostInv' /\ Quiet
    BY <1>4, RevisionStep, RevisionFailsStep, DequeueStep, SendStep, LeaveLoopStep, ShutdownStep,
       ExitStep DEF MainThread
  <1>5. ASSUME NEW h \in Hosts, Worker(h)
        PROVE  HostInv' /\ [Promise!Next]_(Promise!vars)
    <2>1. CASE Pop(h)
      BY <2>1, PopStep DEF Promise!Next
    <2>2. CASE \E t \in Tasks : DoTaskReturns(h, t)
      BY <2>2, ReturnStep DEF Promise!Next
    <2>3. CASE \E t \in Tasks : DeclareOutputAndTerminate(h, t)
      BY <2>3, <1>1, DeclareStep
    <2>4. CASE \E c \in Tasks : PerformTaskNowhere(h, c)
      BY <2>4, <1>1, NowhereStep
    <2>5. CASE \E c, t \in Tasks : PerformTaskHere(h, c, t)
      BY <2>5, HereStep
    <2>6. CASE \E c, t \in Tasks, g \in Hosts : PerformTaskThere(h, c, t, g)
      BY <2>6, ThereStep
    <2>. QED
      BY <1>5, <2>1, <2>2, <2>3, <2>4, <2>5, <2>6 DEF Worker
  <1>6. CASE Next
    <2>1. PICK h \in Hosts : \/ \E f \in Senders : HandleMessage(f, h)
                             \/ ConnectionLost(h) \/ RunClosure(h) \/ Worker(h)
                             \/ MainThread(h) \/ LinkLost(h)
      BY <1>6 DEF Next
    <2>2. CASE ConnectionLost(h) \/ LinkLost(h)
      BY <2>2, <1>1, ConnectionLostStep, LinkLostStep
    <2>. QED
      BY <2>1, <2>2, <1>1, <1>2, <1>3, <1>4, <1>5
  <1>7. CASE UNCHANGED vars
    <2>1. UNCHANGED <<wire, up, closures, table, view, pool, running, wedged, interrupt, main,
                      target, hand, created, done, stopper, disturbed, failed>>
      BY <1>7 DEF vars, link, env, work, loop, past
    <2>2. \A t \in Tasks : Fixed(t) /\ NoNew(t)
      BY <2>1, NothingMoves, NothingNew
    <2>3. Ending' <=> Ending
      BY <2>1 DEF Ending
    <2>4. Placed' /\ Quiet
      BY <2>1, <2>2, <2>3, Dropped DEF HostInv, Placed
    <2>5. TypeOK' /\ Shapes' /\ EmployerSays' /\ EndKnown'
      BY <2>1, <2>3 DEF HostInv, TypeOK, Shapes, EmployerSays, EndKnown
    <2>6. TableFirst'
      BY <2>1, <2>2, HostAssumption, TableKept
    <2>. QED
      BY <1>1, <2>4, <2>5, <2>6 DEF HostInv
  <1>. QED
    BY <1>6, <1>7

\* HostInv holds of the computation at all times.
LEMMA InvariantHolds == Spec => []HostInv
  <1>1. Init => HostInv
    BY Beginning
  <1>2. HostInv /\ [Next]_vars => HostInv'
    BY StepByStep
  <1>. QED
    BY <1>1, <1>2, PTL DEF Spec

\* The variables of every host have their types: queues hold messages and closures, a hung
\* _sync is held by a task that runs, a task is in the hand of a main thread that sends it.
THEOREM TypeCorrect == Spec => []TypeOK
  BY InvariantHolds, PTL DEF HostInv

\* No task runs on the primary before it has the table, whichever order tables, tasks and
\* messages of other hosts arrive in.
THEOREM PrimaryIsReady == Spec => []PrimaryReady
  <1>1. HostInv => PrimaryReady
    <2>. SUFFICES ASSUME HostInv, running[Primary] # {}
                  PROVE  Primary \in table
      BY DEF PrimaryReady
    <2>1. PICK t \in Tasks : t \in running[Primary]
      BY HostAssumption DEF HostInv, TypeOK
    <2>. QED
      BY <2>1, RunningIs, HostAssumption
  <1>. QED
    BY <1>1, InvariantHolds, PTL

\* A task that was given to PerformTask is at one place of one queue at most, and at none
\* when DoTask has returned, however main threads, workers and messages hand it on.
THEOREM TaskAtOnePlace == Spec => []OnePlace
  <1>1. HostInv => OnePlace
    <2>. SUFFICES ASSUME HostInv, NEW t \in created
                  PROVE  /\ Cardinality(Sent(t)) + Cardinality(Holders(t)) <= 1
                         /\ \A h \in Holders(t) : Cardinality(HeldBy(t, h)) = 1
                         /\ t \in done => Sent(t) = {} /\ Holders(t) = {}
      BY DEF OnePlace
    <2>1. TypeOK /\ t \in Tasks /\ Alone(t) /\ (t \in done => Nowhere(t))
      BY DEF HostInv, TypeOK, Placed
    <2>2. Holders(t) # {} \/ Sent(t) # {} <=> ~Nowhere(t)
      BY <2>1, Located
    <2>3. Cardinality({}) = 0
      BY FS_EmptySet
    <2>4. CASE Nowhere(t)
      BY <2>2, <2>3, <2>4
    <2>5. CASE ~Nowhere(t)
      <3>1. PICK b \in Boxes, f \in Senders, h \in Hosts : At(t, b, f, h)
        BY <2>5 DEF Nowhere
      <3>2. \A c \in Boxes, g \in Senders, i \in Hosts : At(t, c, g, i) => c = b /\ g = f /\ i = h
        BY <2>1, <3>1 DEF Alone
      <3>3. \A g \in Hosts : g \in Senders
        BY DEF Senders
      <3>4. \A c \in Senders, g \in Hosts :
              <<c, g>> \in Sent(t) => b = "wire" /\ <<c, g>> = <<f, h>>
        <4>. SUFFICES ASSUME NEW c \in Senders, NEW g \in Hosts, <<c, g>> \in Sent(t)
                      PROVE  b = "wire" /\ c = f /\ g = h
          OBVIOUS
        <4>1. At(t, "wire", c, g)
          BY DEF Sent, At
        <4>. QED
          BY <4>1, <3>2 DEF Boxes
      <3>5. Sent(t) \subseteq {<<f, h>>} /\ (Sent(t) # {} => b = "wire")
        <4>1. \A p \in Sent(t) : \E c \in Senders, g \in Hosts : p = <<c, g>>
          BY <2>1 DEF Sent, TypeOK
        <4>. QED
          BY <3>4, <4>1
      <3>6. \A g \in Hosts, k \in 1..4 :
              k \in HeldBy(t, g) => /\ g = h
                                    /\ b = CASE k = 1 -> "closures" [] k = 2 -> "pool"
                                             [] k = 3 -> "running" [] k = 4 -> "hand"
        <4>. SUFFICES ASSUME NEW g \in Hosts, NEW k \in 1..4, k \in HeldBy(t, g)
                      PROVE  /\ g = h
                             /\ b = CASE k = 1 -> "closures" [] k = 2 -> "pool"
                                      [] k = 3 -> "running" [] k = 4 -> "hand"
          OBVIOUS
        <4>1. k = 1 \/ k = 2 \/ k = 3 \/ k = 4
          OBVIOUS
        <4>2. CASE k = 1
          BY <4>2, <3>2, <3>3 DEF HeldBy, At, Boxes
        <4>3. CASE k = 2
          BY <4>3, <3>2, <3>3 DEF HeldBy, At, Boxes
        <4>4. CASE k = 3
          BY <4>4, <3>2, <3>3 DEF HeldBy, At, Boxes
        <4>5. CASE k = 4
          BY <4>5, <3>2, <3>3 DEF HeldBy, At, Boxes
        <4>. QED
          BY <4>1, <4>2, <4>3, <4>4, <4>5
      <3>7. \A g \in Hosts : HeldBy(t, g) \subseteq 1..4
        BY DEF HeldBy
      <3>8. Holders(t) \subseteq {h} /\ (Holders(t) # {} => b # "wire")
        <4>. SUFFICES ASSUME NEW g \in Hosts, HeldBy(t, g) # {}
                      PROVE  g = h /\ b # "wire"
          BY DEF Holders
        <4>1. PICK k \in 1..4 : k \in HeldBy(t, g)
          BY <3>7
        <4>. QED
          BY <3>6, <4>1
      <3>9. \A g \in Holders(t) : Cardinality(HeldBy(t, g)) = 1
        <4>. TAKE g \in Holders(t)
        <4>1. g \in Hosts /\ HeldBy(t, g) # {}
          BY DEF Holders
        <4>2. PICK k \in 1..4 : k \in HeldBy(t, g)
          BY <4>1, <3>7
        <4>3. \A j \in 1..4 : j \in HeldBy(t, g) => j = k
          BY <3>6, <4>1, <4>2
        <4>4. HeldBy(t, g) = {k}
          BY <3>7, <4>1, <4>2, <4>3
        <4>. QED
          BY <4>4, FS_Singleton
      <3>10. /\ Sent(t) = {} \/ (Sent(t) = {<<f, h>>} /\ Holders(t) = {})
             /\ Holders(t) = {} \/ Holders(t) = {h}
        BY <3>5, <3>8
      <3>11. Cardinality({<<f, h>>}) = 1 /\ Cardinality({h}) = 1
        BY FS_Singleton
      <3>. QED
        BY <2>1, <2>3, <2>5, <3>9, <3>10, <3>11
    <2>. QED
      BY <2>4, <2>5
  <1>. QED
    BY <1>1, InvariantHolds, PTL

\* The hosts together keep the promise of Computation: each task is started once and by one
\* of the hosts, and none is lost before the computation is called off or disturbed.
THEOREM HostsImplementComputation == Spec => ImplementsComputation
  <1>1. Init => Promise!Init
    BY Beginning
  <1>2. HostInv /\ [Next]_vars => [Promise!Next]_(Promise!vars)
    BY StepByStep
  <1>. QED
    BY <1>1, <1>2, InvariantHolds, PTL DEF Spec, ImplementsComputation, Promise!Spec

=============================================================================
