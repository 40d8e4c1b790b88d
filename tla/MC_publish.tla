---------------------------- MODULE MC_publish ----------------------------
(* Model values and symmetry for the runs of MqttPublish. *)
EXTENDS MqttPublish, TLC

Symmetry == Permutations(Threads) \cup Permutations(Msgs)

=============================================================================
