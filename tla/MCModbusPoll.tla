---------------------------- MODULE MCModbusPoll ----------------------------
(* Instances of ModbusPoll for TLC. *)
EXTENDS ModbusPoll, TLC

\* Flow and stress change at any time; disp_test_addr reads the other slaves,
\* and disp_set_addr takes the displacement sensor away.
Changing == [readings |-> 1 :> {"f1", "f2"} @@ 2 :> {"d"} @@ 3 :> {"s", "none"} @@ 73 :> {"a"},
             unsteady |-> {}, testAddrs |-> {2, 3}, setAddrs |-> {2}, maxNoise |-> 0]

Steady == 1 :> {"f1"} @@ 2 :> {"d"} @@ 3 :> {"s"} @@ 73 :> {"a"}

\* Devices come and go; one reply is lost.
ComingAndGoing ==
  [readings |-> Steady, unsteady |-> {2, 3}, testAddrs |-> {2}, setAddrs |-> {}, maxNoise |-> 1]

\* The stress sensor comes back after an outage.
Outage == [readings |-> Steady, unsteady |-> {3}, testAddrs |-> {}, setAddrs |-> {}, maxNoise |-> 0]

BothWorlds == {Changing, ComingAndGoing}
OutageOnly == {Outage}
=============================================================================
