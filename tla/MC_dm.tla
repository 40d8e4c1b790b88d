------------------------------- MODULE MC_dm -------------------------------
(* DmRequest for TLC.                                                      *)
EXTENDS DmRequest
=============================================================================
