------------------------------ MODULE MC_conn ------------------------------
(* The runs of MqttConn; the constants are in the .cfg files. *)
EXTENDS MqttConn

=============================================================================
