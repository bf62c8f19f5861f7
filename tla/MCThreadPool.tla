---------------------------- MODULE MCThreadPool ----------------------------
(* Two workers and three tasks that carry the flags in different combinations. *)
EXTENDS ThreadPool

CONSTANTS w1, w2, t1, t2, t3

MCWorkers == {w1, w2}
MCTasks == {t1, t2, t3}
MCMovable == {t1, t2}
MCUrgent == {t2}
MCAccounted == {t1, t3}

=============================================================================
