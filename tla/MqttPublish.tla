---------------------------- MODULE MqttPublish ----------------------------
(***************************************************************************)
(* The QoS 1 publish pipeline of the MQTT client (iotx_mqtt_client.c):     *)
(* application threads call wrapper_mqtt_publish while one thread calls    *)
(* wrapper_mqtt_yield, which keeps the connection alive, reads PUBACKs and *)
(* republishes what was not acknowledged in time.                          *)
(*                                                                         *)
(* Two threads interleave at the points where the code releases its        *)
(* mutexes.  lock_list_pub is held during the whole of MQTTPubInfoProc and *)
(* of MQTTPublish; client_state is read and written under lock_generic one *)
(* access at a time, so a value read in one step may be stale in the next. *)
(*                                                                         *)
(* Time is abstract: a pending node becomes `late' when more than          *)
(* 2 * request_timeout_ms has passed since its pub_start_time.             *)
(* The TCP/TLS link and the broker are external: the link may break at any *)
(* time, losing everything in flight, and a failed write may leave part of *)
(* a packet in the stream (link "torn"), after which the broker can parse  *)
(* nothing more.                                                           *)
(***************************************************************************)
EXTENDS Naturals, Sequences, FiniteSets

CONSTANTS Threads,   \* application threads
          Msgs,      \* publish calls; each is one message
          RepubMax,  \* IOTX_MC_REPUB_NUM_MAX
          IdMax,     \* IOTX_MC_PACKET_ID_MAX
          NetCap,    \* bound: no time-out while this many packets are in flight
          MaxFaults, \* bound: faults of the link (breaks, failed writes and reads)
          NoMsg      \* "this thread has no call in progress"

ASSUME PublishAssumption ==
    /\ RepubMax \in Nat \ {0}
    /\ IdMax \in Nat \ {0}
    /\ NetCap \in Nat
    /\ MaxFaults \in Nat
    /\ IsFiniteSet(Msgs)
    /\ NoMsg \notin Msgs

VARIABLES
  client_state,   \* iotx_mc_client_t.client_state
  packet_id,      \* iotx_mc_client_t.packet_id
  node_state,     \* list_pub_wait_ack: "none" when the message has no node
  msg_id,         \* packet id taken by the message (0: none)
  late,           \* nodes whose pub_start_time is older than the time-out
  lock_list_pub,  \* TRUE while MQTTPubInfoProc holds the mutex
  pc, cur,        \* per application thread: next step, message
  ypc,            \* next step of the yielding thread
  yst,            \* its local copy of the client state
  todo,           \* nodes the current MQTTPubInfoProc pass has still to visit
  link,           \* "down"; "fresh": no CONNACK yet; "up"; "torn"
  toBroker,       \* packets in flight to the broker (messages)
  toClient,       \* PUBACK packet ids in flight to the client
  received,       \* messages the broker has processed
  accepted,       \* messages whose publish call returned a packet id
  closed,         \* messages whose publish call returned no packet id:
                  \* an error, or 0 for QoS 0
  faults,         \* faults that may still happen
  wrapped         \* history: packet_id has wrapped around

clientVars == <<client_state, packet_id, node_state, msg_id, late, lock_list_pub>>
appVars    == <<pc, cur, accepted, closed>>
yieldVars  == <<ypc, yst, todo>>
netVars    == <<link, toBroker, toClient, received, faults>>
vars == <<clientVars, appVars, yieldVars, netVars, wrapped>>

ClientStates == {"CONNECTED", "DISCONNECTED", "RECONNECTING"}

\* Every variable has values of its type; packet ids stay within 1..IdMax
\* however often iotx_mc_get_next_packetid wraps around.
TypeOK ==
    /\ client_state \in ClientStates
    /\ packet_id \in 0..IdMax
    /\ node_state \in [Msgs -> {"none", "NORMAL", "INVALID"}]
    /\ msg_id \in [Msgs -> 0..IdMax]
    /\ late \subseteq Msgs
    /\ lock_list_pub \in BOOLEAN
    /\ pc \in [Threads -> {"idle", "id", "send", "send0", "fail", "ret"}]
    /\ cur \in [Threads -> Msgs \cup {NoMsg}]
    /\ ypc \in {"idle", "state", "act", "connack", "again", "cycle", "read",
                "proc", "visit", "end"}
    /\ yst \in ClientStates
    /\ todo \subseteq Msgs
    /\ link \in {"down", "fresh", "up", "torn"}
    /\ toBroker \in Seq(Msgs)
    /\ toClient \in Seq(1..IdMax)
    /\ received \subseteq Msgs
    /\ accepted \subseteq Msgs
    /\ closed \subseteq Msgs
    /\ faults \in 0..MaxFaults
    /\ wrapped \in BOOLEAN

Init ==
    /\ client_state = "CONNECTED"
    /\ packet_id = 0
    /\ node_state = [m \in Msgs |-> "none"]
    /\ msg_id = [m \in Msgs |-> 0]
    /\ late = {}
    /\ lock_list_pub = FALSE
    /\ pc = [t \in Threads |-> "idle"]
    /\ cur = [t \in Threads |-> NoMsg]
    /\ ypc = "idle"
    /\ yst = "CONNECTED"
    /\ todo = {}
    /\ link = "up"
    /\ toBroker = <<>>
    /\ toClient = <<>>
    /\ received = {}
    /\ accepted = {}
    /\ closed = {}
    /\ faults = MaxFaults
    /\ wrapped = FALSE

-----------------------------------------------------------------------------
(* list_pub_wait_ack and the link *)

\* The nodes of list_pub_wait_ack.
Pending == {m \in Msgs : node_state[m] # "none"}

\* Publish calls that have begun.
Started == {m \in Msgs : \E t \in Threads : cur[t] = m} \cup accepted \cup closed

\* iotx_mc_send_packet succeeds: the whole packet was handed to the IP stack.
\* Before the CONNACK the broker takes it only if it follows the CONNECT; on a
\* torn link the broker will never make sense of it.
SendOk(m) ==
    /\ \/ /\ link \in {"fresh", "up"}
          /\ toBroker' = Append(toBroker, m)
          /\ UNCHANGED link
       \/ /\ link \in {"fresh", "torn"}
          /\ link' = "torn"
          /\ UNCHANGED toBroker
    /\ UNCHANGED <<toClient, received, faults>>

\* iotx_mc_send_packet fails: on a dead link, or by a fault after no byte or
\* some bytes of the packet were written.
SendFail ==
    /\ \/ /\ link \in {"down", "torn"}
          /\ UNCHANGED <<link, faults>>
       \/ /\ link \in {"fresh", "up"}
          /\ faults > 0
          /\ faults' = faults - 1
          /\ link' \in {link, "torn"}
    /\ UNCHANGED <<toBroker, toClient, received>>

\* ipstack.disconnect: everything in flight is gone.
CloseLink ==
    /\ link' = "down"
    /\ toBroker' = <<>>
    /\ toClient' = <<>>
    /\ UNCHANGED received

\* ipstack.disconnect and ipstack.connect.
NewLink ==
    /\ link' = "fresh"
    /\ toBroker' = <<>>
    /\ toClient' = <<>>
    /\ UNCHANGED received

-----------------------------------------------------------------------------
(* wrapper_mqtt_publish, on application thread t *)

\* The call returns without a packet id.
Close(t) ==
    /\ closed' = closed \cup {cur[t]}
    /\ pc' = [pc EXCEPT ![t] = "idle"]
    /\ cur' = [cur EXCEPT ![t] = NoMsg]
    /\ UNCHANGED accepted

\* Topic check and wrapper_mqtt_check_state; client_state may change right after.
PublishStart(t, m) ==
    /\ pc[t] = "idle"
    /\ m \notin Started
    /\ \/ /\ client_state = "CONNECTED"
          /\ \E next \in {"id", "send0"} : pc' = [pc EXCEPT ![t] = next]
          /\ cur' = [cur EXCEPT ![t] = m]
          /\ UNCHANGED closed
       \/ /\ client_state # "CONNECTED"        \* STATE_MQTT_IN_OFFLINE_STATUS
          /\ closed' = closed \cup {m}
          /\ UNCHANGED <<pc, cur>>
    /\ UNCHANGED <<clientVars, accepted, yieldVars, netVars, wrapped>>

\* The next packet id: 1..IdMax, round and round.
NextId == IF packet_id = IdMax THEN 1 ELSE packet_id + 1

\* iotx_mc_get_next_packetid; a QoS 2 message is refused with the id taken.
iotx_mc_get_next_packetid(t) ==
    /\ pc[t] = "id"
    /\ packet_id' = NextId
    /\ wrapped' = IF packet_id = IdMax THEN TRUE ELSE wrapped
    /\ \/ /\ msg_id' = [msg_id EXCEPT ![cur[t]] = NextId]
          /\ pc' = [pc EXCEPT ![t] = "send"]
          /\ UNCHANGED <<cur, accepted, closed>>
       \/ /\ Close(t)
          /\ UNCHANGED msg_id
    /\ UNCHANGED <<client_state, node_state, late, lock_list_pub, yieldVars, netVars>>

\* Mutant: a full list is not an error, the message just gets no node.
PushIgnoresFullList(m) ==
    /\ node_state' = IF Cardinality(Pending) < RepubMax
                     THEN [node_state EXCEPT ![m] = "NORMAL"] ELSE node_state
    /\ late' = late \ {m}

\* Mutant: the node is born acknowledged, so that it is never sent again.
PushInvalidNode(m) ==
    /\ Cardinality(Pending) < RepubMax
    /\ node_state' = [node_state EXCEPT ![m] = "INVALID"]
    /\ late' = late \ {m}

\* iotx_mc_push_pubInfo_to succeeds: the list has room.
iotx_mc_push_pubInfo_to(m) ==
    /\ Cardinality(Pending) < RepubMax
    /\ node_state' = [node_state EXCEPT ![m] = "NORMAL"]
    /\ late' = late \ {m}

\* Mutant: the node of a message that could not be sent stays in the list.
GiveUpLeavesNode(m) ==
    /\ node_state' = [node_state EXCEPT ![m] = "NORMAL"]
    /\ late' = late \ {m}

\* The node just pushed is deleted: "meaningless to wait QOS1 ack".
GiveUpWaiting(m) ==
    /\ node_state' = [node_state EXCEPT ![m] = "none"]
    /\ late' = late \ {m}

\* MQTTPublish of a QoS 1 message: push the node, send, and take the node
\* back when the packet could not be sent.
MQTTPublish(t) ==
    /\ pc[t] = "send"
    /\ ~lock_list_pub
    /\ \/ /\ iotx_mc_push_pubInfo_to(cur[t])
          /\ SendOk(cur[t])
          /\ pc' = [pc EXCEPT ![t] = "ret"]
          /\ UNCHANGED <<cur, accepted, closed>>
       \/ /\ Cardinality(Pending) < RepubMax
          /\ SendFail
          /\ GiveUpWaiting(cur[t])
          /\ pc' = [pc EXCEPT ![t] = "fail"]
          /\ UNCHANGED <<cur, accepted, closed>>
       \/ /\ Close(t)     \* list full, no memory, packet too long
          /\ UNCHANGED <<node_state, late, netVars>>
    /\ UNCHANGED <<client_state, packet_id, msg_id, lock_list_pub, yieldVars, wrapped>>

\* MQTTPublish of a QoS 0 message: no node, nothing to acknowledge.
MQTTPublishQos0(t) ==
    /\ pc[t] = "send0"
    /\ ~lock_list_pub
    /\ \/ /\ link # "down"
          /\ Close(t)
          /\ link' = IF link = "fresh" THEN "torn" ELSE link
          /\ UNCHANGED <<toBroker, toClient, received, faults>>
       \/ /\ SendFail
          /\ pc' = [pc EXCEPT ![t] = "fail"]
          /\ UNCHANGED <<cur, accepted, closed>>
       \/ /\ Close(t)
          /\ UNCHANGED netVars
    /\ UNCHANGED <<clientVars, yieldVars, wrapped>>

\* The caller of MQTTPublish reacts to STATE_SYS_DEPEND_NWK_CLOSE, perhaps
\* long after the write failed: whatever the state is by now is overwritten.
PublishFailed(t) ==
    /\ pc[t] = "fail"
    /\ client_state' = "DISCONNECTED"
    /\ Close(t)
    /\ UNCHANGED <<packet_id, node_state, msg_id, late, lock_list_pub, yieldVars, netVars, wrapped>>

\* The call returns its packet id.
PublishReturn(t) ==
    /\ pc[t] = "ret"
    /\ accepted' = accepted \cup {cur[t]}
    /\ pc' = [pc EXCEPT ![t] = "idle"]
    /\ cur' = [cur EXCEPT ![t] = NoMsg]
    /\ UNCHANGED <<clientVars, closed, yieldVars, netVars, wrapped>>

-----------------------------------------------------------------------------
(* wrapper_mqtt_yield, on the yielding thread *)

\* iotx_mc_keepalive_sub: a ping is sent when due; only a failed one matters
\* here (the probes are counted in MqttConn).
iotx_mc_keepalive_sub ==
    /\ ypc = "idle"
    /\ ypc' = "state"
    /\ \/ UNCHANGED <<client_state, netVars>>
       \/ /\ client_state = "CONNECTED"
          /\ SendFail
          /\ client_state' = "DISCONNECTED"
    /\ UNCHANGED <<packet_id, node_state, msg_id, late, lock_list_pub, appVars,
                   yst, todo, wrapped>>

\* iotx_mc_keepalive reads the state once and acts on that copy.
KeepaliveReadState ==
    /\ ypc = "state"
    /\ yst' = client_state
    /\ ypc' = IF client_state = "CONNECTED" THEN "cycle" ELSE "act"
    /\ UNCHANGED <<clientVars, appVars, todo, netVars, wrapped>>

\* Mutant: the state is not moved on, so no reconnection is ever tried.
HandleDisconnectedForgets ==
    /\ ypc = "act" /\ yst = "DISCONNECTED"
    /\ CloseLink
    /\ ypc' = "cycle"
    /\ UNCHANGED <<clientVars, faults, appVars, yst, todo, wrapped>>

\* DISCONNECTED: notify, close the socket, store RECONNECTING.
HandleDisconnected ==
    /\ ypc = "act" /\ yst = "DISCONNECTED"
    /\ CloseLink
    /\ client_state' = "RECONNECTING"
    /\ ypc' = "cycle"
    /\ UNCHANGED <<faults, packet_id, node_state, msg_id, late, lock_list_pub, appVars,
                   yst, todo, wrapped>>

\* RECONNECTING, but reconnect_next_time has not come.
ReconnectWait ==
    /\ ypc = "act" /\ yst = "RECONNECTING"
    /\ ypc' = "cycle"
    /\ UNCHANGED <<clientVars, appVars, yst, todo, netVars, wrapped>>

\* iotx_mc_attempt_reconnect: the old socket is closed and a new one opened.
\* A publisher that passed its state check earlier may write to it at once.
iotx_mc_attempt_reconnect ==
    /\ ypc = "act" /\ yst = "RECONNECTING"
    /\ NewLink
    /\ ypc' = "connack"
    /\ UNCHANGED <<clientVars, appVars, yst, todo, faults, wrapped>>

\* _mqtt_connect succeeds: CONNECT was sent, the CONNACK came.
ConnectAccepted ==
    /\ ypc = "connack" /\ link = "fresh"
    /\ link' = "up"
    /\ client_state' = "CONNECTED"
    /\ ypc' = "again"
    /\ UNCHANGED <<packet_id, node_state, msg_id, late, lock_list_pub, appVars,
                   yst, todo, toBroker, toClient, received, faults, wrapped>>

\* No CONNACK: _mqtt_connect closes the socket, opens a new one and tries again.
ConnectRetry ==
    /\ ypc = "connack" /\ link # "fresh"
    /\ NewLink
    /\ UNCHANGED <<clientVars, appVars, ypc, yst, todo, faults, wrapped>>

\* _mqtt_connect fails.  It has closed the socket, except when it ran out of
\* tries: then it leaves the last socket open.
ConnectFailed ==
    /\ ypc = "connack" /\ link # "fresh"
    /\ CloseLink \/ NewLink
    /\ ypc' = "cycle"
    /\ UNCHANGED <<clientVars, appVars, yst, todo, faults, wrapped>>

\* iotx_mc_handle_reconnect stores CONNECTED a second time.
HandleReconnectDone ==
    /\ ypc = "again"
    /\ client_state' = "CONNECTED"
    /\ ypc' = "cycle"
    /\ UNCHANGED <<packet_id, node_state, msg_id, late, lock_list_pub, appVars,
                   yst, todo, netVars, wrapped>>

\* Mutant: the acknowledgement of one message is taken for all of them.
MaskAllNodes(id) ==
    node_state' = [m \in Msgs |-> IF node_state[m] # "none"
                                  THEN "INVALID" ELSE node_state[m]]

\* iotx_mc_mask_pubInfo_from: every node with this packet id is marked.
iotx_mc_mask_pubInfo_from(id) ==
    node_state' = [m \in Msgs |-> IF node_state[m] # "none" /\ msg_id[m] = id
                                  THEN "INVALID" ELSE node_state[m]]

\* iotx_mc_cycle finds the client offline: nothing is read or republished.
CycleOffline ==
    /\ ypc = "cycle"
    /\ client_state # "CONNECTED"
    /\ ypc' = "end"
    /\ UNCHANGED <<clientVars, appVars, yst, todo, netVars, wrapped>>

\* iotx_mc_cycle finds the client connected and reads.
CycleOnline ==
    /\ ypc = "cycle"
    /\ client_state = "CONNECTED"
    /\ ypc' = "read"
    /\ UNCHANGED <<clientVars, appVars, yst, todo, netVars, wrapped>>

\* iotx_mc_read_packet fails because the connection is dead, which a silent
\* peer reveals only through unanswered keep-alive probes.
CycleReadError ==
    /\ ypc = "read"
    /\ link # "up"
    /\ client_state' = "DISCONNECTED"
    /\ ypc' = "end"
    /\ UNCHANGED <<packet_id, node_state, msg_id, late, lock_list_pub, appVars,
                   yst, todo, netVars, wrapped>>

\* It fails on a live connection; only STATE_SYS_DEPEND_NWK_CLOSE is taken for
\* a disconnection, any other error just skips the republishing.
CycleReadFault ==
    /\ ypc = "read"
    /\ faults > 0
    /\ faults' = faults - 1
    /\ client_state' \in {client_state, "DISCONNECTED"}
    /\ ypc' = "end"
    /\ UNCHANGED <<packet_id, node_state, msg_id, late, lock_list_pub, appVars,
                   yst, todo, link, toBroker, toClient, received, wrapped>>

\* The read times out, or yields a packet that is not a PUBACK.
CycleNothing ==
    /\ ypc = "read"
    /\ ypc' = "proc"
    /\ UNCHANGED <<clientVars, appVars, yst, todo, netVars, wrapped>>

\* iotx_mc_handle_recv_PUBACK.
iotx_mc_handle_recv_PUBACK ==
    /\ ypc = "read"
    /\ toClient # <<>>
    /\ iotx_mc_mask_pubInfo_from(Head(toClient))
    /\ toClient' = Tail(toClient)
    /\ ypc' = "proc"
    /\ UNCHANGED <<client_state, packet_id, msg_id, late, lock_list_pub, appVars,
                   yst, todo, link, toBroker, received, faults, wrapped>>

\* MQTTPubInfoProc locks the list and starts to walk it.
MQTTPubInfoProc ==
    /\ ypc = "proc"
    /\ lock_list_pub' = TRUE
    /\ todo' = Pending
    /\ ypc' = "visit"
    /\ UNCHANGED <<client_state, packet_id, node_state, msg_id, late, appVars,
                   yst, netVars, wrapped>>

\* An acknowledged node is removed.
VisitInvalid(m) ==
    /\ ypc = "visit" /\ m \in todo
    /\ node_state[m] = "INVALID"
    /\ node_state' = [node_state EXCEPT ![m] = "none"]
    /\ late' = late \ {m}
    /\ todo' = todo \ {m}
    /\ UNCHANGED <<client_state, packet_id, msg_id, lock_list_pub, appVars,
                   ypc, yst, netVars, wrapped>>

\* Nothing to do for a node that is not late, or while offline.
VisitKeep(m) ==
    /\ ypc = "visit" /\ m \in todo
    /\ node_state[m] = "NORMAL"
    /\ client_state # "CONNECTED" \/ m \notin late
    /\ todo' = todo \ {m}
    /\ UNCHANGED <<clientVars, appVars, ypc, yst, netVars, wrapped>>

\* Mutant: a late node is passed over, its packet is not sent again.
RePublishNothing(m) ==
    /\ ypc = "visit" /\ m \in todo
    /\ node_state[m] = "NORMAL"
    /\ client_state = "CONNECTED" /\ m \in late
    /\ todo' = todo \ {m}
    /\ UNCHANGED <<clientVars, appVars, ypc, yst, netVars, wrapped>>

\* MQTTRePublish; the timer restarts whether or not the packet was sent, and
\* a failure ends the walk.
MQTTRePublish(m) ==
    /\ ypc = "visit" /\ m \in todo
    /\ node_state[m] = "NORMAL"
    /\ client_state = "CONNECTED" /\ m \in late
    /\ late' = late \ {m}
    /\ \/ /\ SendOk(m)
          /\ todo' = todo \ {m}
          /\ UNCHANGED client_state
       \/ /\ SendFail
          /\ todo' = {}
          /\ client_state' = "DISCONNECTED"
    /\ UNCHANGED <<packet_id, node_state, msg_id, lock_list_pub, appVars,
                   ypc, yst, wrapped>>

\* The walk is over.
PubInfoProcDone ==
    /\ ypc = "visit" /\ todo = {}
    /\ lock_list_pub' = FALSE
    /\ ypc' = "end"
    /\ UNCHANGED <<client_state, packet_id, node_state, msg_id, late, appVars,
                   yst, todo, netVars, wrapped>>

\* _mqtt_cycle goes round again until its timer expires.
CycleAgain ==
    /\ ypc = "end"
    /\ ypc' = "cycle"
    /\ UNCHANGED <<clientVars, appVars, yst, todo, netVars, wrapped>>

\* wrapper_mqtt_yield returns, and is called again.
YieldReturn ==
    /\ ypc = "end"
    /\ ypc' = "idle"
    /\ UNCHANGED <<clientVars, appVars, yst, todo, netVars, wrapped>>

-----------------------------------------------------------------------------
(* Environment: broker, link, time *)

\* The broker processes a PUBLISH and acknowledges it.
BrokerReceive ==
    /\ link = "up"
    /\ toBroker # <<>>
    /\ toBroker' = Tail(toBroker)
    /\ received' = received \cup {Head(toBroker)}
    /\ toClient' = Append(toClient, msg_id[Head(toBroker)])
    /\ UNCHANGED <<clientVars, appVars, yieldVars, link, faults, wrapped>>

\* The connection breaks, with everything in flight.
LinkBreaks ==
    /\ link # "down"
    /\ faults > 0
    /\ faults' = faults - 1
    /\ CloseLink
    /\ UNCHANGED <<clientVars, appVars, yieldVars, wrapped>>

\* The acknowledgement of m is overdue.
TimeOut(m) ==
    /\ node_state[m] = "NORMAL"
    /\ m \notin late
    /\ Len(toBroker) + Len(toClient) < NetCap
    /\ late' = late \cup {m}
    /\ UNCHANGED <<client_state, packet_id, node_state, msg_id, lock_list_pub,
                   appVars, yieldVars, netVars, wrapped>>

-----------------------------------------------------------------------------
AppNext(t) ==
    \/ \E m \in Msgs : PublishStart(t, m)
    \/ iotx_mc_get_next_packetid(t)
    \/ MQTTPublish(t)
    \/ MQTTPublishQos0(t)
    \/ PublishFailed(t)
    \/ PublishReturn(t)

YieldNext ==
    \/ iotx_mc_keepalive_sub
    \/ KeepaliveReadState
    \/ HandleDisconnected
    \/ ReconnectWait
    \/ iotx_mc_attempt_reconnect
    \/ ConnectAccepted
    \/ ConnectRetry
    \/ ConnectFailed
    \/ HandleReconnectDone
    \/ CycleOffline
    \/ CycleOnline
    \/ CycleReadError
    \/ CycleReadFault
    \/ CycleNothing
    \/ iotx_mc_handle_recv_PUBACK
    \/ MQTTPubInfoProc
    \/ \E m \in Msgs : VisitInvalid(m) \/ VisitKeep(m) \/ MQTTRePublish(m)
    \/ PubInfoProcDone
    \/ CycleAgain
    \/ YieldReturn

Next ==
    \/ \E t \in Threads : AppNext(t)
    \/ YieldNext
    \/ BrokerReceive
    \/ LinkBreaks
    \/ \E m \in Msgs : TimeOut(m)

Spec == Init /\ [][Next]_vars

(***************************************************************************)
(* Fairness.  The yielding thread calls wrapper_mqtt_yield in a loop, as    *)
(* linkkit's and every example's main loop does.  Its inner loop ends when *)
(* cycle_timeout_ms has passed, reconnect_next_time comes at the latest    *)
(* after 30 s, a packet that has arrived is read before a later one, and a *)
(* dead connection is found out after IOTX_MC_KEEPALIVE_PROBE_MAX probes.  *)
(***************************************************************************)
Fairness ==
    /\ \A t \in Threads : WF_vars(\/ iotx_mc_get_next_packetid(t)
                                  \/ MQTTPublish(t) \/ MQTTPublishQos0(t)
                                  \/ PublishFailed(t) \/ PublishReturn(t))
    /\ WF_vars(YieldNext)
    /\ SF_vars(YieldReturn)
    /\ SF_vars(iotx_mc_attempt_reconnect)
    /\ SF_vars(CycleReadError)
    /\ SF_vars(iotx_mc_handle_recv_PUBACK)
    /\ WF_vars(BrokerReceive)
    /\ \A m \in Msgs : WF_vars(TimeOut(m))

FairSpec == Spec /\ Fairness

-----------------------------------------------------------------------------
(* Properties *)

\* At least once: while packet ids have not been reused, a message whose
\* publish call returned a packet id is kept for republishing until the broker
\* has processed it, whatever the link did (MQTTPublish, MQTTPubInfoProc).
NoSilentLoss ==
    ~wrapped => \A m \in accepted : node_state[m] = "NORMAL" \/ m \in received

\* Whatever happened to the packet ids, a message is only ever forgotten because
\* the broker acknowledged a message with the same id (iotx_mc_mask_pubInfo_from).
ForgottenOnlyByItsId ==
    \A m \in accepted : \/ node_state[m] = "NORMAL"
                        \/ \E n \in received : msg_id[n] = msg_id[m]

\* A message whose publish call failed has no node, so it is never sent again
\* behind the caller's back (MQTTPublish gives up waiting when the write fails).
ClosedNeverPending == \A m \in closed : node_state[m] = "none"

\* PUBLISH_SUCCESS is true: a node is marked acknowledged only when the broker
\* has processed that message, across reconnects and repeated PUBACKs.
AckedWasReceived ==
    ~wrapped => \A m \in Msgs : node_state[m] = "INVALID" => m \in received

\* list_pub_wait_ack never outgrows IOTX_MC_REPUB_NUM_MAX.
PubListBounded == Cardinality(Pending) <= RepubMax

\* What the walk of MQTTPubInfoProc relies on without looking: the list is
\* within its limit, it holds no message whose publish call failed, and what is
\* marked acknowledged was processed by the broker.
PublishInv == TypeOK /\ PubListBounded /\ ClosedNeverPending /\ AckedWasReceived

\* The abstract promise of IOT_MQTT_Publish, with QoS 1 requests as Msgs.
RequestStatus ==
    [m \in Msgs |-> IF m \in accepted THEN "accepted"
                    ELSE IF m \in closed THEN "refused"
                    ELSE IF \E t \in Threads : cur[t] = m THEN "calling"
                    ELSE "new"]

Promise == INSTANCE AtLeastOnce
             WITH status <- RequestStatus,
                  held <- {m \in Msgs : node_state[m] = "NORMAL"},
                  delivered <- received,
                  reused <- wrapped

\* The pipeline with its reconnections, races and retransmissions implements
\* the at-least-once promise: nothing accepted is let go before the broker has
\* it, and nothing refused is sent.
ImplementsPromise == Promise!Spec

\* Every accepted message reaches the broker once the link stops failing.
AcceptedIsReceived ==
    \A m \in Msgs : (m \in accepted) ~> (m \in received \/ wrapped)

\* The client always comes back: a stale DISCONNECTED or CONNECTED stored by a
\* racing thread never leaves it offline, or deaf on a dead link, for good.
AlwaysReconnects == []<>(client_state = "CONNECTED" /\ link = "up")

=============================================================================
