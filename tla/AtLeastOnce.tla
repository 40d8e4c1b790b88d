---------------------------- MODULE AtLeastOnce ----------------------------
(***************************************************************************)
(* What IOT_MQTT_Publish promises for QoS 1, with no connection, packet id *)
(* list, lock or timer in sight: a request is accepted or refused; an      *)
(* accepted request is held by the client until it has been delivered; a   *)
(* refused one is never delivered.  Once request ids have been reused the  *)
(* client may let go of a request that was not delivered.                  *)
(***************************************************************************)
EXTENDS Naturals

CONSTANT Msgs

VARIABLES status,     \* of each request: new, calling, accepted, refused
          held,       \* requests the client keeps for sending again
          delivered,  \* requests the broker has processed
          reused      \* request ids have been used a second time

vars == <<status, held, delivered, reused>>

Init ==
    /\ status = [m \in Msgs |-> "new"]
    /\ held = {}
    /\ delivered = {}
    /\ reused = FALSE

\* The application asks for m to be published.
Call(m) ==
    /\ status[m] = "new"
    /\ status' = [status EXCEPT ![m] = "calling"]
    /\ UNCHANGED <<held, delivered, reused>>

\* The client takes the next request id.
Identify ==
    /\ reused' \in {reused, TRUE}
    /\ UNCHANGED <<status, held, delivered>>

\* The client takes charge of m.
Hold(m) ==
    /\ status[m] = "calling"
    /\ held' = held \cup {m}
    /\ UNCHANGED <<status, delivered, reused>>

\* The call returns a request id.
Accept(m) ==
    /\ status[m] = "calling"
    /\ m \in held \cup delivered \/ reused
    /\ status' = [status EXCEPT ![m] = "accepted"]
    /\ UNCHANGED <<held, delivered, reused>>

\* The call fails, perhaps after a request id was taken for it.
Refuse(m) ==
    /\ status[m] \in {"new", "calling"}
    /\ m \notin held \cup delivered
    /\ status' = [status EXCEPT ![m] = "refused"]
    /\ reused' \in {reused, TRUE}
    /\ UNCHANGED <<held, delivered>>

\* The broker processes m.
Deliver(m) ==
    /\ m \in held \/ reused
    /\ status[m] \in {"calling", "accepted"}
    /\ delivered' = delivered \cup {m}
    /\ UNCHANGED <<status, held, reused>>

\* The client forgets what has been acknowledged.
Release(S) ==
    /\ S \subseteq held
    /\ S \subseteq delivered \/ reused
    /\ held' = held \ S
    /\ UNCHANGED <<status, delivered, reused>>

Next ==
    \/ Identify
    \/ \E m \in Msgs : Call(m) \/ Hold(m) \/ Accept(m) \/ Refuse(m) \/ Deliver(m)
    \/ \E S \in SUBSET Msgs : Release(S)

Spec == Init /\ [][Next]_vars

=============================================================================
