--------------------------- MODULE MCClientRequests ---------------------------
(* Two queries of the status of a node, and an enumeration of endpoints, which lists the   *)
(* nodes first, in a net of two.                                                           *)
EXTENDS ClientRequests

CONSTANTS status1, status2, list, ends, home, other, logger, host

MCCalls   == {status1, status2, list, ends}
MCKind    == [c \in MCCalls |-> CASE c = list -> "nodes"
                                 [] c = ends -> "endpoints"
                                 [] OTHER -> "status"]
MCLister  == [c \in {ends} |-> list]
MCTarget  == [c \in {status1, status2} |-> IF c = status1 THEN home ELSE other]
MCService == [c \in {ends} |-> "engine.cluster.worker"]
MCNodes   == {home, other}
MCClients == [n \in MCNodes |->
  {[address |-> host, service |-> "engine.cluster.worker"]} \cup
  (IF n = home THEN {[address |-> logger, service |-> "engine.cluster.logger"]} ELSE {})]

=============================================================================
