-------------------------- MODULE MCHealthSampling --------------------------
(* Instances of HealthSampling for TLC. *)
EXTENDS HealthSampling, TLC

\* config.json's thresholds, and a file whose bounds are the wrong way round.
Shipped ==
    [x \in Resource |->
        CASE x = "load"     -> [warning |-> 150,  critical |-> 300]
          [] x = "util"     -> [warning |-> 8000, critical |-> 9200]
          [] x = "ram"      -> [warning |-> 8000, critical |-> 9000]
          [] x = "swap"     -> [warning |-> 5000, critical |-> 7500]
          [] x = "capacity" -> [warning |-> 8000, critical |-> 9000]
          [] x = "inode"    -> [warning |-> 8500, critical |-> 9500]]
Inverted == [x \in Resource |-> [warning |-> 9000, critical |-> 8500]]
BothThresholds == {Shipped, Inverted}
ShippedOnly == {Shipped}

MountSymmetry == Permutations(Mount)

=============================================================================
