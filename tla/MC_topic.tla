------------------------------ MODULE MC_topic ------------------------------
(* MqttTopic for TLC.                                                      *)
EXTENDS MqttTopic
=============================================================================
