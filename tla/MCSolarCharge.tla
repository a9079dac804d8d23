---- MODULE MCSolarCharge ----
(* Instances of SolarCharge for TLC. *)
EXTENDS SolarCharge

Ample == [stale |-> FALSE, soc |-> 9, grid |-> FALSE, balance |-> FALSE,
          sunrise |-> 9, trough |-> Unknown, reserve |-> Unknown]
Floor == [Ample EXCEPT !.soc = 3]
Band == [Ample EXCEPT !.sunrise = 5]
MCConditions == {Ample, Floor}
MCHouseLoads == {0, 1}
====
