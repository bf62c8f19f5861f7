----------------------------- MODULE Computation -----------------------------
(***************************************************************************)
(* What the hosts of a computation promise together: a task that is        *)
(* created while another one runs is executed once, on one host.  Only     *)
(* when the computation is called off or disturbed may tasks be lost.      *)
(***************************************************************************)

CONSTANTS Tasks,
          Main     \* the task the client starts the computation with

VARIABLES phase,   \* where each task is in its life
          ending   \* the computation has been called off or disturbed

vars == <<phase, ending>>

Phases == {"new", "waiting", "running", "done", "lost"}

Init ==
  /\ phase = [t \in Tasks |-> IF t = Main THEN "waiting" ELSE "new"]
  /\ ending = FALSE

Create(t) ==
  /\ phase[t] = "new"
  /\ \E c \in Tasks : phase[c] = "running"
  /\ phase' = [phase EXCEPT ![t] = "waiting"]
  /\ UNCHANGED ending

Start(t) ==
  /\ phase[t] = "waiting"
  /\ phase' = [phase EXCEPT ![t] = "running"]
  /\ UNCHANGED ending

Finish(t) ==
  /\ phase[t] = "running"
  /\ phase' = [phase EXCEPT ![t] = "done"]
  /\ UNCHANGED ending

\* Some tasks are lost with what held them; when none is, a call to stop.
End ==
  /\ ending' = TRUE
  /\ phase' \in [Tasks -> Phases]
  /\ \A t \in Tasks :
       phase'[t] = phase[t] \/ (phase'[t] = "lost" /\ phase[t] # "done")

Next == (\E t \in Tasks : Create(t) \/ Start(t) \/ Finish(t)) \/ End

Spec == Init /\ [][Next]_vars

=============================================================================
