---------------------------- MODULE TaskLifecycle ----------------------------
(***************************************************************************)
(* What the pool of a task host promises about the tasks given to it: each *)
(* task is executed at most once, or handed over to another host, or       *)
(* discarded when the pool closes, and never two of the three.             *)
(***************************************************************************)

CONSTANT Tasks

VARIABLES phase,    \* where each task is in its life
          closed    \* the pool has been shut down

vars == <<phase, closed>>

Phases == {"new", "queued", "running", "done", "migrated", "dropped"}

TypeOK == phase \in [Tasks -> Phases] /\ closed \in BOOLEAN

Init == phase = [t \in Tasks |-> "new"] /\ closed = FALSE

Move(t, from, to) ==
  /\ ~closed
  /\ phase[t] = from
  /\ phase' = [phase EXCEPT ![t] = to]
  /\ UNCHANGED closed

Submit(t)  == Move(t, "new", "queued")
Start(t)   == Move(t, "queued", "running")
Finish(t)  == Move(t, "running", "done")
Migrate(t) == Move(t, "queued", "migrated")

\* The pool closes only when no task is running; what is still queued is lost.
Close ==
  /\ ~closed
  /\ \A t \in Tasks : phase[t] # "running"
  /\ closed' = TRUE
  /\ phase' = [t \in Tasks |-> IF phase[t] = "queued" THEN "dropped" ELSE phase[t]]

Next ==
  \/ \E t \in Tasks : Submit(t) \/ Start(t) \/ Finish(t) \/ Migrate(t)
  \/ Close

Spec == Init /\ [][Next]_vars

=============================================================================
