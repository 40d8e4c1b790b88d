------------------------------- MODULE MC_coap -------------------------------
(* One thread of the application, the daemon and one peer. *)
EXTENDS CoapServer
=============================================================================
