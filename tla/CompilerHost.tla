----------------------------- MODULE CompilerHost -----------------------------
(***************************************************************************)
(* CompilerHostInstance of a node server (srvrsrvc.cxx).  An instance runs *)
(* a compiler process for a client.  Its work thread unpacks the sources,  *)
(* launches the process, waits for it, gives the process ten more seconds  *)
(* for its report (0x415) to arrive, and runs the exit task.  The client   *)
(* is answered with what the report has left in two strings.  The exit     *)
(* task reads them itself, or for a rent of computation it wakes the       *)
(* worker of the rent, which does.  No lock is held: the report may be     *)
(* written at the same time.  The watchdog thread of an instance tells the *)
(* client that work goes on.  Threads of the server that handle messages   *)
(* look an instance up in a list under `_sync`, and use it after `_sync`   *)
(* has been opened.                                                        *)
(*                                                                         *)
(* PerformCompilation and the look-ups hold `_sync` throughout and are one *)
(* step each.  Time is abstract: the ten seconds may end at any time.  A   *)
(* watchdog thread can be created if its work thread could.                *)
(***************************************************************************)
EXTENDS Integers, Sequences, FiniteSets, SequencesExt

CONSTANTS N,          \* the number of compilations, named in the order they start
          Clients,    \* the addresses that ask for them
          Rent,       \* the one of them that stands for the rent: GetLoopbackAddress()
          None,       \* no client, an empty string
          MaxStops    \* bound on the messages 0x414 and on the calls of TerminateAll

ASSUME CompilerAssumption ==
  N \in Nat /\ None \notin Nat /\ None \notin Clients /\ MaxStops \in Nat

Instances == 1..N

VARIABLES
  compilers,  \* _compilers
  client,     \* _client of each instance
  status,     \* _status: 0 working, 1 answered, 2 terminated, 3 ended
  exec, root, \* the two strings: whose report they come from
  work,       \* where the work thread of each instance stands
  watchdog,   \* its watchdog thread: "none", "run" or "gone"
  reply,      \* which string the one who answers its client reads next
  seen,       \* the second string as it was read for the answer
  host,       \* its process: "none", "run", "reported" or "exited"
  good,       \* the processes that have reported a success
  reports,    \* the messages 0x415 on their way, named by their process
  handlers,   \* threads in HandleCompilerResponce that have found an instance
  stoppers,   \* instances found by TerminateCompiler, not yet terminated
  stops,      \* what MaxStops bounds
  answers,    \* what the client has been told
  heard,      \* instances whose work thread has seen that the report has come
  stopped,    \* instances that have been terminated
  crossed,    \* clients that asked again while the report of an earlier instance of
              \* theirs could still come
  late        \* instances whose answer was read while the report was being written, or that
              \* have ended with a thread of the server holding them

strings == <<exec, root>>
reading == <<reply, seen>>
threads == <<work, watchdog>>
server  == <<handlers, stoppers>>
history == <<heard, stopped, crossed, late>>
vars == <<compilers, client, status, strings, threads, reading, host, good, reports, server,
          stops, answers, history>>

Listed(i) == i \in ToSet(compilers)
Writing(i) == \E h \in handlers : h.to = i
Open(i)    == Listed(i) \/ host[i] = "run" \/ i \in reports
Gone(i)    == work[i] = "gone" /\ watchdog[i] = "gone"

\* The first string of i has been written, and the second has not.
HalfWritten(i) == \E h \in handlers : h.to = i /\ h.at = 2

Init ==
  /\ compilers = <<>> /\ client = [i \in Instances |-> None]
  /\ status = [i \in Instances |-> 0]
  /\ exec = [i \in Instances |-> None] /\ root = [i \in Instances |-> None]
  /\ work = [i \in Instances |-> "none"] /\ watchdog = [i \in Instances |-> "none"]
  /\ reply = [i \in Instances |-> "none"] /\ seen = [i \in Instances |-> None]
  /\ host = [i \in Instances |-> "none"] /\ good = {} /\ reports = {}
  /\ handlers = {} /\ stoppers = {} /\ stops = 0
  /\ answers = [i \in Instances |-> <<>>]
  /\ heard = {} /\ stopped = {} /\ crossed = {} /\ late = {}

Goto(i, label) == work' = [work EXCEPT ![i] = label]

\* What the client is told, and whether the report was heard of.
Answer(i, first, second) ==
  answers' = [answers EXCEPT ![i] =
    Append(@, [exec |-> first, root |-> second, heard |-> i \in heard])]

-----------------------------------------------------------------------------
(* PerformCompilation: the message 0x413, or the worker of a rent *)

PerformCompilation(i, c) ==
  /\ \A j \in Instances : client[j] = None <=> j >= i
  /\ client' = [client EXCEPT ![i] = c]
  /\ compilers' = Append(compilers, i)
  /\ Goto(i, "extract")
  /\ watchdog' = [watchdog EXCEPT ![i] = "run"]
  /\ crossed' = crossed \cup ({c} \cap {client[j] : j \in {k \in Instances : Open(k)}})
  /\ UNCHANGED <<status, strings, reading, host, good, reports, server, stops, answers,
                 heard, stopped, late>>

\* No work thread; a watchdog thread that was created runs for an instance nobody knows.
LaunchFails(i, c) ==
  /\ \A j \in Instances : client[j] = None <=> j >= i
  /\ client' = [client EXCEPT ![i] = c]
  /\ \/ watchdog' = [watchdog EXCEPT ![i] = "run"]
     \/ UNCHANGED watchdog
  /\ Answer(i, exec[i], root[i])
  /\ UNCHANGED <<compilers, status, strings, work, reading, host, good, reports, server,
                 stops, history>>

-----------------------------------------------------------------------------
(* _work_thread_proc *)

\* The sources are unpacked, or not, or the thread finds the status changed.
ExtractFails(i) ==
  /\ work[i] = "extract"
  /\ Goto(i, "exit")
  /\ UNCHANGED <<compilers, client, status, strings, watchdog, reading, host, good, reports,
                 server, stops, answers, history>>

Launch(i) ==
  /\ work[i] = "extract" /\ status[i] = 0
  /\ host' = [host EXCEPT ![i] = "run"]
  /\ Goto(i, "poll")
  /\ UNCHANGED <<compilers, client, status, strings, watchdog, reading, good, reports,
                 server, stops, answers, history>>

\* The process has exited, or the status has changed.
PollEnds(i) ==
  /\ work[i] = "poll"
  /\ host[i] = "exited" \/ status[i] # 0
  /\ Goto(i, "decide")
  /\ UNCHANGED <<compilers, client, status, strings, watchdog, reading, host, good, reports,
                 server, stops, answers, history>>

\* The status is read again, and says whether to terminate the process; a variant that
\* waits for it in any case.
WaitAnyway(i) == FALSE
Terminated(i) == status[i] = 2

Decide(i) ==
  /\ work[i] = "decide"
  /\ IF Terminated(i) THEN host' = [host EXCEPT ![i] = "exited"] /\ Goto(i, "exit")
                      ELSE UNCHANGED host /\ Goto(i, "join")
  /\ UNCHANGED <<compilers, client, status, strings, watchdog, reading, good, reports,
                 server, stops, answers, history>>

HostWait(i) ==
  /\ work[i] = "join" /\ host[i] = "exited"
  /\ Goto(i, "grace")
  /\ UNCHANGED <<compilers, client, status, strings, watchdog, reading, host, good, reports,
                 server, stops, answers, history>>

\* The report has come, or somebody has terminated the instance, or time is up.
GraceEnds(i) ==
  /\ work[i] = "grace"
  /\ heard' = IF status[i] = 1 THEN heard \cup {i} ELSE heard
  /\ Goto(i, "exit")
  /\ UNCHANGED <<compilers, client, status, strings, watchdog, reading, host, good, reports,
                 server, stops, answers, stopped, crossed, late>>

\* _on_exit->DoTask(0), without `_sync`: from here on the strings are read.
Exit(i) ==
  /\ work[i] = "exit"
  /\ reply' = [reply EXCEPT ![i] = "root"]
  /\ Goto(i, "unregister")
  /\ UNCHANGED <<compilers, client, status, strings, watchdog, seen, host, good, reports,
                 server, stops, answers, history>>

\* Whether the second string is empty tells a failure from a success.
ReadRoot(i) ==
  /\ reply[i] = "root"
  /\ seen' = [seen EXCEPT ![i] = root[i]]
  /\ reply' = [reply EXCEPT ![i] = "exec"]
  /\ late' = IF HalfWritten(i) /\ i \notin heard THEN late \cup {i} ELSE late
  /\ UNCHANGED <<compilers, client, status, strings, threads, host, good, reports, server,
                 stops, answers, heard, stopped, crossed>>

ReadExec(i) ==
  /\ reply[i] = "exec"
  /\ Answer(i, exec[i], seen[i])
  /\ reply' = [reply EXCEPT ![i] = "done"]
  /\ UNCHANGED <<compilers, client, status, strings, threads, seen, host, good, reports,
                 server, stops, history>>

\* What the list loses when the instance at place k unregisters; a variant that loses
\* nothing.
StillListed(k)  == compilers
Unregistered(k) == RemoveAt(compilers, k)

\* Only the worker of the rent reads beside the work thread.
Unregister(i) ==
  /\ work[i] = "unregister" /\ (reply[i] = "done" \/ client[i] = Rent)
  /\ \E k \in DOMAIN compilers : compilers[k] = i /\ compilers' = Unregistered(k)
  /\ Goto(i, "end")
  /\ late' = IF Writing(i) \/ i \in stoppers THEN late \cup {i} ELSE late
  /\ UNCHANGED <<client, status, strings, watchdog, reading, host, good, reports, server,
                 stops, answers, heard, stopped, crossed>>

\* _status = 3; a variant that leaves it.
StatusLeft(i)  == status
StatusEnded(i) == [status EXCEPT ![i] = 3]

End(i) ==
  /\ work[i] = "end"
  /\ status' = StatusEnded(i)
  /\ Goto(i, "last")
  /\ UNCHANGED <<compilers, client, strings, watchdog, reading, host, good, reports, server,
                 stops, answers, history>>

\* _watchdog_thread->Wait(), and the instance is released
Release(i) ==
  /\ work[i] = "last" /\ watchdog[i] = "gone"
  /\ Goto(i, "gone")
  /\ UNCHANGED <<compilers, client, status, strings, watchdog, reading, host, good, reports,
                 server, stops, answers, history>>

\* _watchdog_thread_proc: as long as the status is below 2 the client is told.
WatchdogEnds(i) ==
  /\ watchdog[i] = "run" /\ status[i] >= 2
  /\ watchdog' = [watchdog EXCEPT ![i] = "gone"]
  /\ UNCHANGED <<compilers, client, status, strings, work, reading, host, good, reports,
                 server, stops, answers, history>>

-----------------------------------------------------------------------------
(* The compiler process: it reports once, at its end *)

HostReports(i, success) ==
  /\ host[i] = "run"
  /\ host' = [host EXCEPT ![i] = "reported"]
  /\ reports' = reports \cup {i}
  /\ good' = IF success THEN good \cup {i} ELSE good
  /\ UNCHANGED <<compilers, client, status, strings, threads, reading, server, stops,
                 answers, history>>

HostExits(i) ==
  /\ host[i] \in {"run", "reported"}
  /\ host' = [host EXCEPT ![i] = "exited"]
  /\ UNCHANGED <<compilers, client, status, strings, threads, reading, good, reports,
                 server, stops, answers, history>>

-----------------------------------------------------------------------------
(* HandleCompilerResponce: 0x415 *)

\* The first instance of the client c, as a set; a variant that takes the first one.
FirstOf(c) == {compilers[k] : k \in {1} \cap DOMAIN compilers}
Found(c) ==
  {compilers[k] : k \in {j \in DOMAIN compilers :
     /\ client[compilers[j]] = c
     /\ \A l \in 1..j - 1 : client[compilers[l]] # c}}

\* The report of process j names the client only.
Respond(j) ==
  /\ j \in reports
  /\ reports' = reports \ {j}
  /\ handlers' = handlers \cup {[from |-> j, to |-> i, at |-> 1] : i \in Found(client[j])}
  /\ UNCHANGED <<compilers, client, status, strings, threads, reading, host, good, stoppers,
                 stops, answers, history>>

\* The assignments of _handle_message in turn; a variant in which the status comes first.
StatusFirst == <<"status", "exec", "root">>
StatusLast  == <<"exec", "root", "status">>

\* One of them.  An instance that has been freed is no longer looked at: what a write to
\* it does is not defined, and it is in `late`, as is one whose strings are being read.
HandleMessage(h) ==
  /\ h \in handlers
  /\ handlers' = (handlers \ {h}) \cup
                 (IF h.at < 3 THEN {[h EXCEPT !.at = h.at + 1]} ELSE {})
  /\ LET writes(what) == StatusLast[h.at] = what /\ ~Gone(h.to)
     IN  /\ exec' = IF writes("exec") THEN [exec EXCEPT ![h.to] = h.from] ELSE exec
         /\ root' = IF writes("root")
                    THEN [root EXCEPT ![h.to] = IF h.from \in good THEN h.from ELSE None]
                    ELSE root
         /\ status' = IF writes("status") THEN [status EXCEPT ![h.to] = 1] ELSE status
  /\ late' = IF reply[h.to] = "exec" /\ h.at < 3 THEN late \cup {h.to} ELSE late
  /\ UNCHANGED <<compilers, client, threads, reading, host, good, reports, stoppers, stops,
                 answers, heard, stopped, crossed>>

-----------------------------------------------------------------------------
(* TerminateCompiler (0x414) and TerminateAll *)

StopRequest(c) ==
  /\ stops < MaxStops /\ Found(c) # {}
  /\ stops' = stops + 1
  /\ stoppers' = stoppers \cup Found(c)
  /\ UNCHANGED <<compilers, client, status, strings, threads, reading, host, good, reports,
                 handlers, answers, history>>

TerminateCompiler(i) ==
  /\ i \in stoppers
  /\ stoppers' = stoppers \ {i}
  /\ status' = IF Gone(i) THEN status ELSE [status EXCEPT ![i] = 2]
  /\ stopped' = stopped \cup {i}
  /\ UNCHANGED <<compilers, client, strings, threads, reading, host, good, reports,
                 handlers, stops, answers, heard, crossed, late>>

TerminateAll ==
  /\ stops < MaxStops /\ compilers # <<>>
  /\ stops' = stops + 1
  /\ status' = [i \in Instances |-> IF Listed(i) THEN 2 ELSE status[i]]
  /\ stopped' = stopped \cup ToSet(compilers)
  /\ UNCHANGED <<compilers, client, strings, threads, reading, host, good, reports, server,
                 answers, heard, crossed, late>>

-----------------------------------------------------------------------------

WorkStep(i) ==
  \/ ExtractFails(i) \/ Launch(i) \/ PollEnds(i) \/ Decide(i) \/ HostWait(i) \/ GraceEnds(i)
  \/ Exit(i) \/ ReadRoot(i) \/ ReadExec(i) \/ Unregister(i) \/ End(i) \/ Release(i)

Next ==
  \/ \E i \in Instances :
       \/ \E c \in Clients : PerformCompilation(i, c) \/ LaunchFails(i, c)
       \/ WorkStep(i) \/ WatchdogEnds(i)
       \/ \E success \in BOOLEAN : HostReports(i, success)
       \/ HostExits(i) \/ Respond(i) \/ TerminateCompiler(i)
  \/ \E h \in handlers : HandleMessage(h)
  \/ \E c \in Clients : StopRequest(c)
  \/ TerminateAll

Spec == Init /\ [][Next]_vars

-----------------------------------------------------------------------------
(* Properties *)

Answers == [exec : Instances \cup {None}, root : Instances \cup {None}, heard : BOOLEAN]

TypeOK ==
  /\ compilers \in Seq(Instances) /\ IsInjective(compilers)
  /\ \A i \in Instances :
       Listed(i) <=> work[i] \in {"extract", "poll", "decide", "join", "grace", "exit",
                                  "unregister"}
  /\ client \in [Instances -> Clients \cup {None}]
  /\ status \in [Instances -> 0..3]
  /\ exec \in [Instances -> Instances \cup {None}]
  /\ root \in [Instances -> Instances \cup {None}]
  /\ work \in [Instances -> {"none", "extract", "poll", "decide", "join", "grace", "exit",
                             "unregister", "end", "last", "gone"}]
  /\ watchdog \in [Instances -> {"none", "run", "gone"}]
  /\ reply \in [Instances -> {"none", "root", "exec", "done"}]
  /\ seen \in [Instances -> Instances \cup {None}]
  /\ host \in [Instances -> {"none", "run", "reported", "exited"}]
  /\ good \subseteq Instances /\ reports \subseteq Instances
  /\ handlers \subseteq [from : Instances, to : Instances, at : 1..3]
  /\ stoppers \subseteq Instances /\ stops \in 0..MaxStops
  /\ answers \in [Instances -> Seq(Answers)]
  /\ heard \subseteq Instances /\ stopped \subseteq Instances
  /\ crossed \subseteq Clients /\ late \subseteq Instances

\* The client is answered once, with nothing or the whole report of its own process:
\* never with half a report, which would read as a failure that quotes a path, and never
\* with nothing when the work thread has heard of the report.  It is not claimed for a
\* client that has asked again too early, since a report names its client only, nor when
\* the strings are read while a thread writes a report nobody waits for any more.
AnswerIsOwn ==
  \A i \in Instances : i \notin late /\ client[i] \notin crossed /\ answers[i] # <<>> =>
    LET a == Head(answers[i])
        whole == [exec |-> i, root |-> IF i \in good THEN i ELSE None, heard |-> a.heard]
        nothing == [exec |-> None, root |-> None, heard |-> FALSE]
    IN  Len(answers[i]) = 1 /\ a \in {whole, nothing}

\* The work thread does not wait for its watchdog thread for ever: when it has set the last
\* status nobody sets it back to one with which the watchdog thread runs on.  The exception
\* are the instances in `late`: a thread of the server that had found one before it was off
\* the list may do so.
WatchdogWillEnd ==
  \A i \in Instances :
    work[i] = "last" /\ watchdog[i] = "run" /\ i \notin late => status[i] >= 2

\* The work thread never waits for a process that was to be terminated and may run for
\* ever: a report that takes the termination back comes from a process about to end.
StopIsObeyed ==
  \A i \in Instances :
    i \in stopped /\ work[i] = "join" /\ host[i] = "run"
      => i \in late \/ client[i] \in crossed

=============================================================================
