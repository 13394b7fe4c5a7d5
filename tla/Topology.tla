------------------------------ MODULE Topology ------------------------------
(***************************************************************************)
(* What the port map promises: a table of the positions of the HDMI tree   *)
(* that says which device is at each.  A device behind another one is      *)
(* entered when the root above it is known, a root when it is free; a      *)
(* device that leaves takes the entry of its root with it.                 *)
(***************************************************************************)
CONSTANTS
  Devices, Nodes,
  Site,    \* the position of each device
  RootOf,  \* the position of the input's own device above each position
  Nobody

VARIABLE occupant

Init == occupant = [n \in Nodes |-> Nobody]

\* d reports its position.
Enter(d) ==
  LET root == RootOf[Site[d]] IN
    /\ IF Site[d] = root THEN occupant[root] \in {Nobody, d} ELSE occupant[root] \notin {Nobody, d}
    /\ occupant' = [occupant EXCEPT ![Site[d]] = d]

\* d is gone: its entry is cleared if its root is known, and its root is forgotten.
Leave(d) ==
  LET root == RootOf[Site[d]] IN
    occupant' = [n \in Nodes |->
                   IF n = root \/ (n = Site[d] /\ occupant[root] # Nobody) THEN Nobody ELSE occupant[n]]

Next == \E d \in Devices : Enter(d) \/ Leave(d)

Spec == Init /\ [][Next]_occupant

\* Whoever the table names is where the table says.
Placed == \A n \in Nodes : occupant[n] # Nobody => occupant[n] \in Devices /\ Site[occupant[n]] = n
=============================================================================
