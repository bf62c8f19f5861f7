---------------------------- MODULE MCNetTopology ----------------------------
(* Two or three founders of a net, and other nodes that may join it. *)
EXTENDS NetTopology

CONSTANTS n1, n2, n3, n4

TwoFounders   == <<n1, n2>>
ThreeFounders == <<n1, n2, n3>>
ThreeNodes    == {n1, n2, n3}
FourNodes     == {n1, n2, n3, n4}

\* A session between the nodes n and m, with the indices i and j, at rest.
Session(n, m, i, j, label) ==
  [from |-> n, to |-> m,
   pc   |-> [e \in {n, m} |-> label],
   addr |-> [e \in {n, m} |-> IF e = n THEN j ELSE i],
   work |-> [e \in {n, m} |-> NoNet],
   box  |-> [e \in {n, m} |-> <<>>]]

-----------------------------------------------------------------------------
(* Two founders have the net switched off.  They were connected twice before, which    *)
(* leaves two attempts more, and the third node may join.                              *)
RestartInit ==
  /\ Founded(TwoFounders) /\ AllOff
  /\ sess = [s \in 1..2 |-> Session(n1, n2, 1, 2, "closed")]

(* Three founders have switched the net on, and are connected to each other: one       *)
(* attempt is left for a connection that is lost.                                      *)
Pairs == <<<<1, 2>>, <<1, 3>>, <<2, 3>>>>
MeshInit ==
  /\ Founded(ThreeFounders)
  /\ online = ThreeNodes /\ self = [n \in Nodes |-> IndexOf(n, n)]
  /\ sess = [s \in 1..3 |-> LET i == Pairs[s][1]  j == Pairs[s][2]
                            IN  Session(ThreeFounders[i], ThreeFounders[j], i, j, "read")]
  /\ sock = [n \in Nodes |-> [m \in Nodes |->
       IF n = m THEN None ELSE CHOOSE s \in DOMAIN sess : Ends(s) = {n, m}]]

(* One change of the net is under way at a time, a join or a removal.  When there is    *)
(* time for one change only, another one would be denied or given up.                  *)
OneChange ==
  Cardinality({n \in Nodes : edit[n] # NoNet}) + Cardinality({n \in Nodes : joining[n] # None}) <= 1

StartedSpec == (RestartInit \/ MeshInit) /\ [][NetNext]_netVars

=============================================================================
