-------------------------- MODULE MCHostEnvironment --------------------------
(* Two hosts with one worker each.  Main gives away two tasks that may be moved; one *)
(* of them names a class nobody knows, the other one ends the computation.          *)
EXTENDS HostEnvironment

CONSTANTS h1, h2, start, left, right, stray

MCHosts == {h1, h2}
MCTasks == {start, left, right, stray}
MCKids  == [t \in MCTasks |-> CASE t = start -> {left, right}
                               [] t = left  -> {stray}
                               [] OTHER     -> {}]

=============================================================================
