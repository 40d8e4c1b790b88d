------------------------- MODULE MqttPublish_proofs -------------------------
(***************************************************************************)
(* Proofs about MqttPublish for any number of threads, messages, list      *)
(* slots, packet ids and faults.                                           *)
(*                                                                         *)
(* NoSilentLoss is not inductive.  The strengthening says who may own a    *)
(* message (CallInv), that a message nobody has handed to the link leaves  *)
(* no trace (TraceInv), that every PUBACK and every acknowledged node goes *)
(* back to a received message with the same id (AckInv), and that ids are  *)
(* unique while packet_id only grows (IdInv).                              *)
(***************************************************************************)
EXTENDS MqttPublish, FiniteSetTheorems, SequenceTheorems, TLAPS

\* Messages handed to the link: accepted, or about to be.
Live == accepted \cup {m \in Msgs : \E t \in Threads : pc[t] = "ret" /\ cur[t] = m}

\* A message of which neither the client nor the broker has a copy.
Untouched(m) ==
    /\ node_state[m] = "none"
    /\ m \notin received
    /\ \A i \in 1..Len(toBroker) : toBroker[i] # m

\* The broker has processed a message with the packet id of m.
IdReceived(id) == \E n \in received : msg_id[n] = id

CallInv ==
    /\ \A t \in Threads : cur[t] \in Msgs <=> pc[t] # "idle"
    /\ \A t, u \in Threads : cur[t] = cur[u] /\ cur[t] # NoMsg => t = u
    /\ \A t \in Threads : cur[t] \notin accepted \cup closed
    /\ accepted \cap closed = {}

TraceInv == \A m \in Msgs \ Live : Untouched(m)

AckInv ==
    /\ \A i \in 1..Len(toClient) : IdReceived(toClient[i])
    /\ \A m \in Msgs : node_state[m] = "INVALID" => IdReceived(msg_id[m])
    /\ \A m \in Live : node_state[m] = "NORMAL" \/ IdReceived(msg_id[m])

IdInv ==
    /\ \A m \in Live : msg_id[m] # 0
    /\ \A t \in Threads : pc[t] = "send" => msg_id[cur[t]] # 0
    /\ ~wrapped => /\ \A m \in Msgs : msg_id[m] <= packet_id
                   /\ \A m, n \in Msgs : msg_id[m] # 0 /\ msg_id[m] = msg_id[n] => m = n

IInv == TypeOK /\ CallInv /\ TraceInv /\ AckInv /\ IdInv

-----------------------------------------------------------------------------
(* Type correctness *)

\* The shape of the network after a send, a failed send and a closed link.
LEMMA LinkTypes ==
    ASSUME TypeOK, NEW m \in Msgs
    PROVE  /\ SendOk(m) => /\ link' \in {"down", "fresh", "up", "torn"}
                           /\ toBroker' \in Seq(Msgs)
                           /\ toBroker' \in {toBroker, Append(toBroker, m)}
                           /\ UNCHANGED <<toClient, received, faults>>
           /\ SendFail => /\ link' \in {"down", "fresh", "up", "torn"}
                          /\ faults' \in 0..MaxFaults
                          /\ UNCHANGED <<toBroker, toClient, received>>
<1>1. ASSUME SendOk(m)
      PROVE  /\ link' \in {"down", "fresh", "up", "torn"}
             /\ toBroker' \in Seq(Msgs) /\ toBroker' \in {toBroker, Append(toBroker, m)}
             /\ UNCHANGED <<toClient, received, faults>>
  <2>1. Append(toBroker, m) \in Seq(Msgs) BY AppendProperties DEF TypeOK
  <2> QED BY <1>1, <2>1 DEF TypeOK, SendOk
<1>2. ASSUME SendFail
      PROVE  /\ link' \in {"down", "fresh", "up", "torn"}
             /\ faults' \in 0..MaxFaults
             /\ UNCHANGED <<toBroker, toClient, received>>
  <2>1. CASE link \in {"down", "torn"} BY <1>2, <2>1 DEF TypeOK, SendFail
  <2>2. CASE link \in {"fresh", "up"} BY <1>2, <2>2, PublishAssumption DEF TypeOK, SendFail
  <2> QED BY <2>1, <2>2 DEF TypeOK
<1> QED BY <1>1, <1>2

\* Closing or replacing the socket.
LEMMA CloseTypes ==
    ASSUME CloseLink \/ NewLink
    PROVE  /\ link' \in {"down", "fresh", "up", "torn"}
           /\ toBroker' \in Seq(Msgs) /\ toBroker' = <<>>
           /\ toClient' \in Seq(1..IdMax) /\ toClient' = <<>>
           /\ received' = received
  BY EmptySeq DEF CloseLink, NewLink

\* Every publish step keeps the types.
LEMMA AppTypes ==
    ASSUME IInv, NEW t \in Threads, AppNext(t)
    PROVE  TypeOK'
<1> USE PublishAssumption DEF TypeOK
<1>0. TypeOK BY DEF IInv
<1>1. ASSUME NEW m \in Msgs, PublishStart(t, m) PROVE TypeOK'
  <2>1. UNCHANGED <<clientVars, accepted, yieldVars, netVars, wrapped>>
    BY <1>1 DEF PublishStart
  <2>2. pc' \in [Threads -> {"idle", "id", "send", "send0", "fail", "ret"}]
    BY <1>0, <1>1 DEF PublishStart
  <2>3. cur' \in [Threads -> Msgs \cup {NoMsg}] /\ closed' \subseteq Msgs
    BY <1>0, <1>1 DEF PublishStart
  <2> QED BY <1>0, <2>1, <2>2, <2>3 DEF clientVars, yieldVars, netVars
<1>2. CASE iotx_mc_get_next_packetid(t)
  <2>1. cur[t] \in Msgs BY <1>0, <1>2 DEF iotx_mc_get_next_packetid, IInv, CallInv
  <2>2. wrapped' \in BOOLEAN BY <1>0, <1>2 DEF iotx_mc_get_next_packetid
  <2>3. NextId \in 0..IdMax BY <1>0 DEF NextId
  <2>4. CASE Close(t) /\ UNCHANGED msg_id
    BY <1>0, <1>2, <2>1, <2>2, <2>3, <2>4
       DEF iotx_mc_get_next_packetid, Close, yieldVars, netVars
  <2>5. CASE /\ msg_id' = [msg_id EXCEPT ![cur[t]] = NextId]
             /\ pc' = [pc EXCEPT ![t] = "send"]
             /\ UNCHANGED <<cur, accepted, closed>>
    BY <1>0, <1>2, <2>1, <2>2, <2>3, <2>5
       DEF iotx_mc_get_next_packetid, yieldVars, netVars
  <2> QED BY <1>2, <2>4, <2>5 DEF iotx_mc_get_next_packetid
<1>3. CASE MQTTPublish(t)
  <2>1. cur[t] \in Msgs BY <1>0, <1>3 DEF MQTTPublish, IInv, CallInv
  <2> QED BY <1>0, <1>3, <2>1, LinkTypes
          DEF MQTTPublish, iotx_mc_push_pubInfo_to, GiveUpWaiting, Close, yieldVars, netVars
<1>4. CASE MQTTPublishQos0(t)
  <2>1. cur[t] \in Msgs BY <1>0, <1>4 DEF MQTTPublishQos0, IInv, CallInv
  <2> QED BY <1>0, <1>4, <2>1, LinkTypes DEF MQTTPublishQos0, Close, clientVars, yieldVars, netVars
<1>5. CASE PublishFailed(t)
  <2>1. cur[t] \in Msgs BY <1>0, <1>5 DEF PublishFailed, IInv, CallInv
  <2> QED BY <1>0, <1>5, <2>1 DEF PublishFailed, Close, ClientStates, yieldVars, netVars
<1>6. CASE PublishReturn(t)
  <2>1. cur[t] \in Msgs BY <1>0, <1>6 DEF PublishReturn, IInv, CallInv
  <2> QED BY <1>0, <1>6, <2>1 DEF PublishReturn, clientVars, yieldVars, netVars
<1> QED BY <1>1, <1>2, <1>3, <1>4, <1>5, <1>6 DEF AppNext

\* Every step of the yielding thread and of the environment keeps the types.
LEMMA YieldTypes ==
    ASSUME IInv, YieldNext \/ BrokerReceive \/ LinkBreaks \/ \E m \in Msgs : TimeOut(m)
    PROVE  TypeOK'
<1> USE PublishAssumption DEF TypeOK
<1>0. TypeOK BY DEF IInv
<1>1. CASE iotx_mc_keepalive_sub
  <2>1. CASE UNCHANGED <<client_state, netVars>>
    BY <1>0, <1>1, <2>1 DEF iotx_mc_keepalive_sub, appVars, netVars
  <2>2. CASE SendFail /\ client_state' = "DISCONNECTED"
    BY <1>0, <1>1, <2>2 DEF iotx_mc_keepalive_sub, SendFail, appVars, ClientStates
  <2> QED BY <1>1, <2>1, <2>2 DEF iotx_mc_keepalive_sub
<1>2. CASE KeepaliveReadState
  BY <1>0, <1>2 DEF KeepaliveReadState, clientVars, appVars, netVars
<1>3. CASE HandleDisconnected \/ iotx_mc_attempt_reconnect \/ ConnectRetry \/ ConnectFailed
  <2>1. CloseLink \/ NewLink
    BY <1>3 DEF HandleDisconnected, iotx_mc_attempt_reconnect, ConnectRetry, ConnectFailed
  <2> QED BY <1>0, <1>3, <2>1, CloseTypes
          DEF HandleDisconnected, iotx_mc_attempt_reconnect, ConnectRetry, ConnectFailed,
              ClientStates, clientVars, appVars
<1>4. CASE ReconnectWait \/ ConnectAccepted \/ HandleReconnectDone
  BY <1>0, <1>4 DEF ReconnectWait, ConnectAccepted, HandleReconnectDone,
                    ClientStates, clientVars, appVars, netVars
<1>5. CASE CycleOffline \/ CycleOnline \/ CycleReadError \/ CycleReadFault \/ CycleNothing
  BY <1>0, <1>5 DEF CycleOffline, CycleOnline, CycleReadError, CycleReadFault, CycleNothing,
                    ClientStates, clientVars, appVars, netVars
<1>6. CASE iotx_mc_handle_recv_PUBACK
  BY <1>0, <1>6 DEF iotx_mc_handle_recv_PUBACK, iotx_mc_mask_pubInfo_from, appVars
<1>7. CASE MQTTPubInfoProc \/ PubInfoProcDone \/ CycleAgain \/ YieldReturn
  BY <1>0, <1>7 DEF MQTTPubInfoProc, PubInfoProcDone, CycleAgain, YieldReturn, Pending,
                    clientVars, appVars, netVars
<1>8. ASSUME NEW m \in Msgs, VisitInvalid(m) \/ VisitKeep(m) PROVE TypeOK'
  BY <1>0, <1>8 DEF VisitInvalid, VisitKeep, clientVars, appVars, netVars
<1>9. ASSUME NEW m \in Msgs, MQTTRePublish(m) PROVE TypeOK'
  BY <1>0, <1>9, LinkTypes DEF MQTTRePublish, ClientStates, appVars
<1>10. CASE BrokerReceive
  <2>1. Head(toBroker) \in Msgs /\ Tail(toBroker) \in Seq(Msgs)
    BY <1>0, <1>10 DEF BrokerReceive
  <2>2. Head(toBroker) = toBroker[1] /\ 1 \in 1..Len(toBroker)
    BY <1>0, <1>10 DEF BrokerReceive
  <2>3. Head(toBroker) \in Live
    BY <2>1, <2>2 DEF IInv, TraceInv, Untouched
  <2>4. msg_id[Head(toBroker)] \in 1..IdMax
    BY <1>0, <2>1, <2>3 DEF IInv, IdInv
  <2> QED BY <1>0, <1>10, <2>1, <2>4 DEF BrokerReceive, clientVars, appVars, yieldVars
<1>11. CASE LinkBreaks
  BY <1>0, <1>11, CloseTypes DEF LinkBreaks, clientVars, appVars, yieldVars
<1>12. ASSUME NEW m \in Msgs, TimeOut(m) PROVE TypeOK'
  BY <1>0, <1>12 DEF TimeOut, appVars, yieldVars, netVars
<1> QED BY <1>1, <1>2, <1>3, <1>4, <1>5, <1>6, <1>7, <1>8, <1>9, <1>10, <1>11, <1>12
        DEF YieldNext

-----------------------------------------------------------------------------
(* The inductive invariant *)

callState == <<pc, cur, accepted, closed>>
idState   == <<node_state, msg_id, packet_id, wrapped>>

\* Steps that only move the yielding thread, the clock or client_state, and at
\* most empty the link, keep the invariant.
LEMMA QuietStep ==
    ASSUME IInv, UNCHANGED <<callState, idState, received>>,
           toBroker' \in {toBroker, <<>>}, toClient' \in {toClient, <<>>}
    PROVE  (CallInv /\ TraceInv /\ AckInv /\ IdInv)'
<1> USE DEF callState, idState
<1>1. Live' = Live BY DEF Live
<1>2. CallInv' BY DEF IInv, CallInv
<1>3. TraceInv' BY <1>1, EmptySeq DEF IInv, TraceInv, Untouched
<1>4. AckInv' BY <1>1, EmptySeq DEF IInv, AckInv, IdReceived
<1>5. IdInv' BY <1>1 DEF IInv, IdInv
<1> QED BY <1>2, <1>3, <1>4, <1>5

\* A call that ends without a packet id leaves no trace.
LEMMA CloseStep ==
    ASSUME IInv, NEW t \in Threads, pc[t] \notin {"idle", "ret"}, Close(t),
           UNCHANGED <<node_state, msg_id, received, toBroker, toClient>>,
           wrapped' = wrapped /\ packet_id' = packet_id
    PROVE  (CallInv /\ TraceInv /\ AckInv /\ IdInv)'
<1>0. TypeOK /\ cur[t] \in Msgs BY DEF IInv, CallInv
<1>1. Live' = Live
  BY <1>0 DEF Live, Close, TypeOK
<1>2. CallInv'
  BY <1>0, PublishAssumption DEF IInv, CallInv, Close, TypeOK
<1>3. TraceInv' BY <1>1 DEF IInv, TraceInv, Untouched
<1>4. AckInv' BY <1>1 DEF IInv, AckInv, IdReceived
<1>5. IdInv' BY <1>0, <1>1 DEF IInv, IdInv, Close, TypeOK
<1> QED BY <1>2, <1>3, <1>4, <1>5

\* A call begins, or is refused because the client is offline.
LEMMA StartStep ==
    ASSUME IInv, NEW t \in Threads, NEW m \in Msgs, PublishStart(t, m)
    PROVE  (CallInv /\ TraceInv /\ AckInv /\ IdInv)'
<1> USE DEF clientVars, netVars
<1>0. TypeOK /\ pc[t] = "idle" /\ cur[t] = NoMsg /\ m \notin accepted \cup closed
      /\ \A u \in Threads : cur[u] # m
  BY DEF IInv, CallInv, TypeOK, PublishStart, Started
<1>1. Live' = Live
  BY <1>0 DEF Live, PublishStart, TypeOK
<1>2. CallInv'
  <2>1. CASE /\ \E next \in {"id", "send0"} : pc' = [pc EXCEPT ![t] = next]
             /\ cur' = [cur EXCEPT ![t] = m] /\ UNCHANGED <<accepted, closed>>
    <3>1. /\ pc'[t] # "idle" /\ cur'[t] = m
          /\ \A u \in Threads \ {t} : pc'[u] = pc[u] /\ cur'[u] = cur[u]
      BY <1>0, <2>1 DEF TypeOK
    <3>2. \A u \in Threads : cur'[u] \in Msgs <=> pc'[u] # "idle"
      BY <3>1 DEF IInv, CallInv
    <3>3. \A u, v \in Threads : cur'[u] = cur'[v] /\ cur'[u] # NoMsg => u = v
      BY <1>0, <3>1 DEF IInv, CallInv
    <3>4. \A u \in Threads : cur'[u] \notin accepted' \cup closed'
      BY <1>0, <2>1, <3>1 DEF IInv, CallInv
    <3> QED BY <2>1, <3>2, <3>3, <3>4 DEF IInv, CallInv
  <2>2. CASE closed' = closed \cup {m} /\ UNCHANGED <<pc, cur, accepted>>
    BY <1>0, <2>2 DEF IInv, CallInv
  <2> QED BY <2>1, <2>2 DEF PublishStart
<1>3. TraceInv' BY <1>1 DEF IInv, TraceInv, Untouched, PublishStart
<1>4. AckInv' BY <1>1 DEF IInv, AckInv, IdReceived, PublishStart
<1>5. IdInv' BY <1>0, <1>1 DEF IInv, IdInv, PublishStart, TypeOK
<1> QED BY <1>2, <1>3, <1>4, <1>5

\* A packet id is taken.  Its message has left no trace yet, so what the
\* invariant says of acknowledged ids does not change.
LEMMA IdStep ==
    ASSUME IInv, NEW t \in Threads, iotx_mc_get_next_packetid(t)
    PROVE  (CallInv /\ TraceInv /\ AckInv /\ IdInv)'
<1> USE DEF netVars
<1>0. TypeOK /\ pc[t] = "id" /\ cur[t] \in Msgs /\ cur[t] \notin accepted
  BY DEF IInv, CallInv, iotx_mc_get_next_packetid
<1>1. cur[t] \notin Live
  BY <1>0, PublishAssumption DEF IInv, CallInv, Live
<1>2. Untouched(cur[t])
  BY <1>0, <1>1 DEF IInv, TraceInv
<1>3. /\ NextId \in 1..IdMax
      /\ packet_id # IdMax => NextId = packet_id + 1
  BY <1>0, PublishAssumption DEF TypeOK, NextId
<1>4. UNCHANGED <<node_state, received, toBroker, toClient>> /\ packet_id' = NextId
      /\ wrapped' = IF packet_id = IdMax THEN TRUE ELSE wrapped
  BY DEF iotx_mc_get_next_packetid
<1>5. CASE Close(t) /\ UNCHANGED msg_id
  <2>1. Live' = Live BY <1>0, <1>5 DEF Live, Close, TypeOK
  <2>2. CallInv' BY <1>0, <1>5, PublishAssumption DEF IInv, CallInv, Close, TypeOK
  <2>3. TraceInv' BY <1>4, <2>1 DEF IInv, TraceInv, Untouched
  <2>4. AckInv' BY <1>4, <1>5, <2>1 DEF IInv, AckInv, IdReceived
  <2>5. IdInv' BY <1>0, <1>3, <1>4, <1>5, <2>1 DEF IInv, IdInv, Close, TypeOK
  <2> QED BY <2>2, <2>3, <2>4, <2>5
<1>6. CASE /\ msg_id' = [msg_id EXCEPT ![cur[t]] = NextId]
           /\ pc' = [pc EXCEPT ![t] = "send"]
           /\ UNCHANGED <<cur, accepted, closed>>
  <2>1. Live' = Live BY <1>0, <1>6 DEF Live, TypeOK
  <2>2. CallInv' BY <1>0, <1>6 DEF IInv, CallInv, TypeOK
  <2>3. TraceInv' BY <1>4, <2>1 DEF IInv, TraceInv, Untouched
  <2>4. \A n \in Msgs : n # cur[t] => msg_id'[n] = msg_id[n] BY <1>0, <1>6 DEF TypeOK
  <2>5. AckInv'
    <3>1. \A id : IdReceived(id) => IdReceived(id)'
      BY <1>0, <1>2, <1>4, <2>4 DEF IdReceived, Untouched, TypeOK
    <3>2. \A n \in Live : n # cur[t] /\ n \in Msgs BY <1>0, <1>1 DEF Live, TypeOK
    <3> QED BY <1>2, <1>4, <2>1, <2>4, <3>1, <3>2 DEF IInv, AckInv, Untouched
  <2>6. IdInv'
    <3>1. \A n \in Live : n # cur[t] /\ n \in Msgs BY <1>0, <1>1 DEF Live, TypeOK
    <3>2. \A n \in Live' : msg_id'[n] # 0 BY <2>1, <2>4, <3>1 DEF IInv, IdInv
    <3>3. msg_id'[cur[t]] = NextId BY <1>0, <1>6 DEF TypeOK
    <3>4. ASSUME NEW u \in Threads, pc'[u] = "send" PROVE msg_id'[cur'[u]] # 0
      <4>1. CASE u = t BY <1>3, <1>6, <3>3, <4>1
      <4>2. CASE u # t
        <5>1. pc[u] = "send" /\ cur[u] \in Msgs /\ cur[u] # cur[t]
          BY <1>0, <1>6, <3>4, <4>2, PublishAssumption DEF IInv, CallInv, TypeOK
        <5> QED BY <1>6, <2>4, <5>1 DEF IInv, IdInv
      <4> QED BY <4>1, <4>2
    <3>5. ASSUME ~wrapped'
          PROVE  /\ \A n \in Msgs : msg_id'[n] <= packet_id'
                 /\ \A n, k \in Msgs : msg_id'[n] # 0 /\ msg_id'[n] = msg_id'[k] => n = k
      <4>1. ~wrapped /\ NextId = packet_id + 1 /\ packet_id' = packet_id + 1
        BY <1>3, <1>4, <3>5
      <4>2. \A n \in Msgs : msg_id[n] <= packet_id /\ msg_id[n] \in Nat /\ packet_id \in Nat
        BY <1>0, <4>1 DEF IInv, IdInv, TypeOK
      <4>3. \A n \in Msgs : n # cur[t] => msg_id'[n] < msg_id'[cur[t]]
        BY <2>4, <3>3, <4>1, <4>2
      <4>4. \A n \in Msgs : msg_id'[n] <= packet_id'
        BY <2>4, <3>3, <4>1, <4>2
      <4>5. \A n, k \in Msgs : msg_id'[n] # 0 /\ msg_id'[n] = msg_id'[k] => n = k
        BY <2>4, <4>1, <4>2, <4>3, <3>3 DEF IInv, IdInv
      <4> QED BY <4>4, <4>5
    <3> QED BY <3>2, <3>4, <3>5 DEF IdInv
  <2> QED BY <2>2, <2>3, <2>5, <2>6
<1> QED BY <1>5, <1>6 DEF iotx_mc_get_next_packetid

\* What sending m adds to the packets in flight.
LEMMA AppendedElements ==
    ASSUME TypeOK, NEW m \in Msgs, toBroker' \in {toBroker, Append(toBroker, m)},
           NEW n \in Msgs, n # m, Untouched(n)
    PROVE  \A i \in 1..Len(toBroker') : toBroker'[i] # n
<1>1. CASE toBroker' = toBroker BY <1>1 DEF Untouched
<1>2. CASE toBroker' = Append(toBroker, m)
  <2>1. toBroker \in Seq(Msgs) BY DEF TypeOK
  <2>2. /\ Len(toBroker') = Len(toBroker) + 1
        /\ \A i \in 1..Len(toBroker) : toBroker'[i] = toBroker[i]
        /\ toBroker'[Len(toBroker) + 1] = m
    BY <1>2, <2>1, AppendProperties
  <2>3. Len(toBroker) \in Nat BY <2>1, LenProperties
  <2> QED BY <2>2, <2>3 DEF Untouched
<1> QED BY <1>1, <1>2

\* The node is pushed and the packet sent; or the call fails without a trace.
LEMMA PublishStep ==
    ASSUME IInv, NEW t \in Threads, MQTTPublish(t)
    PROVE  (CallInv /\ TraceInv /\ AckInv /\ IdInv)'
<1>0. /\ TypeOK /\ pc[t] = "send" /\ cur[t] \in Msgs /\ cur[t] \notin accepted
      /\ UNCHANGED <<msg_id, packet_id, wrapped>>
  BY DEF IInv, CallInv, MQTTPublish
<1>1. cur[t] \notin Live
  BY <1>0, PublishAssumption DEF IInv, CallInv, Live
<1>2. Untouched(cur[t])
  BY <1>0, <1>1 DEF IInv, TraceInv
<1>3. CASE /\ iotx_mc_push_pubInfo_to(cur[t]) /\ SendOk(cur[t])
           /\ pc' = [pc EXCEPT ![t] = "ret"]
           /\ UNCHANGED <<cur, accepted, closed>>
  <2>1. Live' = Live \cup {cur[t]}
    BY <1>0, <1>3 DEF Live, TypeOK
  <2>2. CallInv' BY <1>0, <1>3 DEF IInv, CallInv, TypeOK
  <2>3. /\ \A n \in Msgs : n # cur[t] => node_state'[n] = node_state[n]
        /\ node_state'[cur[t]] = "NORMAL"
        /\ UNCHANGED <<toClient, received>>
        /\ toBroker' \in {toBroker, Append(toBroker, cur[t])}
    BY <1>0, <1>3, LinkTypes DEF iotx_mc_push_pubInfo_to, TypeOK
  <2>4. TraceInv'
    <3>1. SUFFICES ASSUME NEW n \in Msgs, n \notin Live, n # cur[t] PROVE Untouched(n)'
      BY <2>1 DEF TraceInv
    <3>2. Untouched(n) BY <3>1 DEF IInv, TraceInv
    <3>3. \A i \in 1..Len(toBroker') : toBroker'[i] # n
      BY <1>0, <2>3, <3>1, <3>2, AppendedElements
    <3> QED BY <2>3, <3>1, <3>2, <3>3 DEF Untouched
  <2>5. AckInv'
    <3>1. Live \subseteq Msgs BY <1>0 DEF Live, TypeOK
    <3>2. UNCHANGED <<msg_id, received, toClient>> BY <1>0, <2>3
    <3>3. (\A i \in 1..Len(toClient) : IdReceived(toClient[i]))'
      BY <3>2 DEF IInv, AckInv, IdReceived
    <3>4. (\A n \in Msgs : node_state[n] = "INVALID" => IdReceived(msg_id[n]))'
      BY <2>3, <3>2 DEF IInv, AckInv, IdReceived
    <3>5. (\A n \in Live : node_state[n] = "NORMAL" \/ IdReceived(msg_id[n]))'
      BY <2>1, <2>3, <3>1, <3>2 DEF IInv, AckInv, IdReceived
    <3> QED BY <3>3, <3>4, <3>5 DEF AckInv
  <2>6. IdInv'
    BY <1>0, <1>3, <2>1 DEF IInv, IdInv, TypeOK
  <2> QED BY <2>2, <2>4, <2>5, <2>6
<1>4. CASE /\ SendFail /\ GiveUpWaiting(cur[t])
           /\ pc' = [pc EXCEPT ![t] = "fail"]
           /\ UNCHANGED <<cur, accepted, closed>>
  <2>1. Live' = Live BY <1>0, <1>4 DEF Live, TypeOK
  <2>2. CallInv' BY <1>0, <1>4 DEF IInv, CallInv, TypeOK
  <2>3. node_state' = node_state /\ UNCHANGED <<toBroker, toClient, received>>
    BY <1>0, <1>2, <1>4 DEF GiveUpWaiting, SendFail, Untouched, TypeOK
  <2>4. TraceInv' BY <2>1, <2>3 DEF IInv, TraceInv, Untouched
  <2>5. AckInv' BY <1>0, <2>1, <2>3 DEF IInv, AckInv, IdReceived
  <2>6. IdInv' BY <1>0, <1>4, <2>1 DEF IInv, IdInv, TypeOK
  <2> QED BY <2>2, <2>4, <2>5, <2>6
<1>5. CASE Close(t) /\ UNCHANGED <<node_state, late, netVars>>
  BY <1>0, <1>5, CloseStep DEF netVars
<1> QED BY <1>3, <1>4, <1>5 DEF MQTTPublish

\* The other steps of an application thread.
LEMMA OtherAppSteps ==
    ASSUME IInv, NEW t \in Threads,
           MQTTPublishQos0(t) \/ PublishFailed(t) \/ PublishReturn(t)
    PROVE  (CallInv /\ TraceInv /\ AckInv /\ IdInv)'
<1> USE DEF clientVars, netVars
<1>0. TypeOK BY DEF IInv
<1>1. CASE MQTTPublishQos0(t)
  <2>1. CASE Close(t) /\ UNCHANGED <<toBroker, toClient, received>>
    BY <1>1, <2>1, CloseStep DEF MQTTPublishQos0
  <2>2. CASE SendFail /\ pc' = [pc EXCEPT ![t] = "fail"] /\ UNCHANGED <<cur, accepted, closed>>
    <3>1. pc[t] = "send0" /\ UNCHANGED <<idState, received, toBroker, toClient>>
      BY <1>1, <2>2 DEF MQTTPublishQos0, SendFail, idState
    <3>2. Live' = Live BY <1>0, <2>2, <3>1 DEF Live, TypeOK
    <3>3. CallInv' BY <1>0, <2>2, <3>1 DEF IInv, CallInv, TypeOK
    <3>4. TraceInv' BY <3>1, <3>2 DEF IInv, TraceInv, Untouched, idState
    <3>5. AckInv' BY <3>1, <3>2 DEF IInv, AckInv, IdReceived, idState
    <3>6. IdInv' BY <1>0, <2>2, <3>1, <3>2 DEF IInv, IdInv, TypeOK, idState
    <3> QED BY <3>3, <3>4, <3>5, <3>6
  <2> QED BY <1>1, <2>1, <2>2 DEF MQTTPublishQos0
<1>2. CASE PublishFailed(t)
  BY <1>2, CloseStep DEF PublishFailed
<1>3. CASE PublishReturn(t)
  <2>1. cur[t] \in Msgs /\ pc[t] = "ret"
        /\ UNCHANGED <<idState, received, toBroker, toClient, closed>>
    BY <1>3 DEF PublishReturn, IInv, CallInv, idState
  <2>2. Live' = Live
    BY <1>0, <1>3, <2>1 DEF PublishReturn, Live, TypeOK
  <2>3. CallInv'
    BY <1>0, <1>3, <2>1, PublishAssumption DEF PublishReturn, IInv, CallInv, TypeOK
  <2>4. TraceInv' BY <2>1, <2>2 DEF IInv, TraceInv, Untouched, idState
  <2>5. AckInv' BY <2>1, <2>2 DEF IInv, AckInv, IdReceived, idState
  <2>6. IdInv' BY <1>0, <1>3, <2>1, <2>2 DEF PublishReturn, IInv, IdInv, TypeOK, idState
  <2> QED BY <2>3, <2>4, <2>5, <2>6
<1> QED BY <1>1, <1>2, <1>3

\* A PUBACK marks the nodes with its id; the broker has processed such a message.
LEMMA PubackStep ==
    ASSUME IInv, iotx_mc_handle_recv_PUBACK
    PROVE  (CallInv /\ TraceInv /\ AckInv /\ IdInv)'
<1>0. TypeOK /\ toClient \in Seq(1..IdMax) /\ toClient # <<>>
      /\ UNCHANGED <<callState, msg_id, packet_id, wrapped, received, toBroker>>
  BY DEF IInv, TypeOK, iotx_mc_handle_recv_PUBACK, appVars, callState
<1>1. Live' = Live /\ Live \subseteq Msgs BY <1>0 DEF Live, callState, TypeOK
<1>2. CallInv' BY <1>0 DEF IInv, CallInv, callState
<1>3. IdInv' BY <1>0, <1>1 DEF IInv, IdInv, callState
<1>4. /\ toClient' = Tail(toClient) /\ Head(toClient) = toClient[1]
      /\ 1 \in 1..Len(toClient) /\ Len(Tail(toClient)) = Len(toClient) - 1
      /\ \A i \in 1..Len(Tail(toClient)) : Tail(toClient)[i] = toClient[i + 1]
      /\ Len(toClient) \in Nat
  BY <1>0, HeadTailProperties, LenProperties, EmptySeq DEF iotx_mc_handle_recv_PUBACK
<1>5. IdReceived(Head(toClient)) BY <1>4 DEF IInv, AckInv
<1>6. \A m \in Msgs : \/ node_state'[m] = node_state[m]
                      \/ /\ node_state[m] # "none" /\ node_state'[m] = "INVALID"
                         /\ msg_id[m] = Head(toClient)
  BY DEF iotx_mc_handle_recv_PUBACK, iotx_mc_mask_pubInfo_from
<1>7. TraceInv' BY <1>0, <1>1, <1>6 DEF IInv, TraceInv, Untouched
<1>8. AckInv'
  <2>1. (\A i \in 1..Len(toClient) : IdReceived(toClient[i]))'
    <3>1. \A i \in 1..Len(toClient') : i + 1 \in 1..Len(toClient) /\ toClient'[i] = toClient[i + 1]
      BY <1>4
    <3> QED BY <1>0, <3>1 DEF IInv, AckInv, IdReceived
  <2>2. (\A m \in Msgs : node_state[m] = "INVALID" => IdReceived(msg_id[m]))'
    BY <1>0, <1>5, <1>6 DEF IInv, AckInv, IdReceived
  <2>3. (\A m \in Live : node_state[m] = "NORMAL" \/ IdReceived(msg_id[m]))'
    BY <1>0, <1>1, <1>5, <1>6 DEF IInv, AckInv, IdReceived
  <2> QED BY <2>1, <2>2, <2>3 DEF AckInv
<1> QED BY <1>2, <1>3, <1>7, <1>8

\* The node removed was acknowledged.
LEMMA RemoveStep ==
    ASSUME IInv, NEW m \in Msgs, VisitInvalid(m)
    PROVE  (CallInv /\ TraceInv /\ AckInv /\ IdInv)'
<1>0. /\ TypeOK /\ node_state[m] = "INVALID"
      /\ UNCHANGED <<callState, msg_id, packet_id, wrapped, received, toBroker, toClient>>
      /\ \A n \in Msgs : n # m => node_state'[n] = node_state[n]
      /\ node_state'[m] = "none"
  BY DEF IInv, TypeOK, VisitInvalid, appVars, callState, netVars
<1>1. Live' = Live /\ Live \subseteq Msgs BY <1>0 DEF Live, callState, TypeOK
<1>2. CallInv' BY <1>0 DEF IInv, CallInv, callState
<1>3. IdInv' BY <1>0, <1>1 DEF IInv, IdInv, callState
<1>4. TraceInv' BY <1>0, <1>1 DEF IInv, TraceInv, Untouched
<1>5. AckInv' BY <1>0, <1>1 DEF IInv, AckInv, IdReceived
<1> QED BY <1>2, <1>3, <1>4, <1>5

\* What is sent again was sent before.
LEMMA RePublishStep ==
    ASSUME IInv, NEW m \in Msgs, MQTTRePublish(m)
    PROVE  (CallInv /\ TraceInv /\ AckInv /\ IdInv)'
<1>0. /\ TypeOK /\ node_state[m] = "NORMAL"
      /\ UNCHANGED <<callState, idState, received, toClient>>
      /\ toBroker' \in {toBroker, Append(toBroker, m)}
  BY LinkTypes DEF IInv, MQTTRePublish, SendFail, appVars, callState, idState
<1>1. Live' = Live /\ Live \subseteq Msgs BY <1>0 DEF Live, callState, TypeOK
<1>2. CallInv' BY <1>0 DEF IInv, CallInv, callState
<1>3. IdInv' BY <1>0, <1>1 DEF IInv, IdInv, callState, idState
<1>4. TraceInv'
  <2>1. SUFFICES ASSUME NEW n \in Msgs, n \notin Live PROVE Untouched(n)'
    BY <1>1 DEF TraceInv
  <2>2. Untouched(n) BY <2>1 DEF IInv, TraceInv
  <2>3. n # m BY <1>0, <2>2 DEF Untouched
  <2>4. \A i \in 1..Len(toBroker') : toBroker'[i] # n
    BY <1>0, <2>2, <2>3, AppendedElements
  <2> QED BY <1>0, <2>2, <2>4 DEF Untouched, idState
<1>5. AckInv' BY <1>0, <1>1 DEF IInv, AckInv, IdReceived, idState
<1> QED BY <1>2, <1>3, <1>4, <1>5

\* The broker processes only live messages, and acknowledges them by their id.
LEMMA BrokerStep ==
    ASSUME IInv, BrokerReceive
    PROVE  (CallInv /\ TraceInv /\ AckInv /\ IdInv)'
<1> DEFINE h == Head(toBroker)
<1>0. /\ TypeOK /\ toBroker \in Seq(Msgs) /\ toBroker # <<>> /\ toClient \in Seq(1..IdMax)
      /\ UNCHANGED <<callState, idState>>
      /\ received' = received \cup {h} /\ toBroker' = Tail(toBroker)
      /\ toClient' = Append(toClient, msg_id[h])
  BY DEF IInv, TypeOK, BrokerReceive, clientVars, appVars, callState, idState
<1>1. Live' = Live /\ Live \subseteq Msgs BY <1>0 DEF Live, callState, TypeOK
<1>2. CallInv' BY <1>0 DEF IInv, CallInv, callState
<1>3. IdInv' BY <1>0, <1>1 DEF IInv, IdInv, callState, idState
<1>4. /\ h \in Msgs /\ h = toBroker[1] /\ 1 \in 1..Len(toBroker) /\ Len(toBroker) \in Nat
      /\ Len(Tail(toBroker)) = Len(toBroker) - 1
      /\ \A i \in 1..Len(Tail(toBroker)) : Tail(toBroker)[i] = toBroker[i + 1]
  BY <1>0, HeadTailProperties, LenProperties, EmptySeq
<1>5. h \in Live BY <1>4 DEF IInv, TraceInv, Untouched
<1>6. TraceInv'
  <2>1. \A i \in 1..Len(toBroker') : i + 1 \in 1..Len(toBroker) /\ toBroker'[i] = toBroker[i + 1]
    BY <1>0, <1>4
  <2> QED BY <1>0, <1>1, <1>5, <2>1 DEF IInv, TraceInv, Untouched, idState
<1>7. AckInv'
  <2>1. /\ msg_id[h] \in 1..IdMax
    BY <1>0, <1>4, <1>5 DEF IInv, IdInv, TypeOK
  <2>2. /\ Len(toClient') = Len(toClient) + 1 /\ Len(toClient) \in Nat
        /\ \A i \in 1..Len(toClient) : toClient'[i] = toClient[i]
        /\ toClient'[Len(toClient) + 1] = msg_id[h]
    BY <1>0, <2>1, AppendProperties, LenProperties
  <2>3. (\A i \in 1..Len(toClient) : IdReceived(toClient[i]))'
    <3>1. SUFFICES ASSUME NEW i \in 1..Len(toClient')
                   PROVE  \E n \in received' : msg_id'[n] = toClient'[i]
      BY DEF IdReceived
    <3>2. CASE i = Len(toClient) + 1 BY <1>0, <2>2, <3>2 DEF idState
    <3>3. CASE i \in 1..Len(toClient) BY <1>0, <2>2, <3>3 DEF idState, IInv, AckInv, IdReceived
    <3> QED BY <2>2, <3>2, <3>3
  <2>4. (\A m \in Msgs : node_state[m] = "INVALID" => IdReceived(msg_id[m]))'
    BY <1>0 DEF IInv, AckInv, IdReceived, idState
  <2>5. (\A m \in Live : node_state[m] = "NORMAL" \/ IdReceived(msg_id[m]))'
    BY <1>0, <1>1 DEF IInv, AckInv, IdReceived, idState
  <2> QED BY <2>3, <2>4, <2>5 DEF AckInv
<1> QED BY <1>2, <1>3, <1>6, <1>7

\* Every other step is quiet.
LEMMA QuietSteps ==
    ASSUME IInv,
           \/ iotx_mc_keepalive_sub \/ KeepaliveReadState \/ HandleDisconnected
           \/ ReconnectWait \/ iotx_mc_attempt_reconnect \/ ConnectAccepted
           \/ ConnectRetry \/ ConnectFailed \/ HandleReconnectDone \/ CycleOffline
           \/ CycleOnline \/ CycleReadError \/ CycleReadFault \/ CycleNothing
           \/ MQTTPubInfoProc \/ PubInfoProcDone \/ CycleAgain \/ YieldReturn
           \/ LinkBreaks \/ \E m \in Msgs : VisitKeep(m) \/ TimeOut(m)
    PROVE  (CallInv /\ TraceInv /\ AckInv /\ IdInv)'
<1>1. UNCHANGED <<callState, idState, received>>
      /\ toBroker' \in {toBroker, <<>>} /\ toClient' \in {toClient, <<>>}
  <2> USE DEF callState, idState, clientVars, appVars, netVars
  <2>1. CASE iotx_mc_keepalive_sub
    BY <2>1 DEF iotx_mc_keepalive_sub, SendFail
  <2>2. CASE HandleDisconnected \/ iotx_mc_attempt_reconnect \/ ConnectRetry \/ ConnectFailed
             \/ LinkBreaks
    BY <2>2 DEF HandleDisconnected, iotx_mc_attempt_reconnect, ConnectRetry, ConnectFailed,
                LinkBreaks, CloseLink, NewLink
  <2>3. CASE KeepaliveReadState \/ ReconnectWait \/ ConnectAccepted \/ HandleReconnectDone
             \/ CycleOffline \/ CycleOnline \/ CycleReadError \/ CycleReadFault \/ CycleNothing
    BY <2>3 DEF KeepaliveReadState, ReconnectWait, ConnectAccepted, HandleReconnectDone,
                CycleOffline, CycleOnline, CycleReadError, CycleReadFault, CycleNothing
  <2>4. CASE MQTTPubInfoProc \/ PubInfoProcDone \/ CycleAgain \/ YieldReturn
             \/ \E m \in Msgs : VisitKeep(m) \/ TimeOut(m)
    BY <2>4 DEF MQTTPubInfoProc, PubInfoProcDone, CycleAgain, YieldReturn, VisitKeep, TimeOut
  <2> QED BY <2>1, <2>2, <2>3, <2>4
<1> QED BY <1>1, QuietStep

\* The strengthened invariant holds initially.
LEMMA InitIInv == Init => IInv
<1> SUFFICES ASSUME Init PROVE IInv OBVIOUS
<1> USE PublishAssumption DEF Init
<1>1. TypeOK
  <2>1. toBroker \in Seq(Msgs) /\ toClient \in Seq(1..IdMax) BY EmptySeq
  <2>2. lock_list_pub \in BOOLEAN /\ wrapped \in BOOLEAN OBVIOUS
  <2> QED BY <2>1, <2>2 DEF TypeOK, ClientStates
<1>2. Live = {} BY DEF Live
<1>3. CallInv BY DEF CallInv
<1>4. TraceInv BY EmptySeq DEF TraceInv, Untouched
<1>5. AckInv BY <1>2, EmptySeq DEF AckInv
<1>6. IdInv BY <1>2 DEF IdInv
<1> QED BY <1>1, <1>3, <1>4, <1>5, <1>6 DEF IInv

\* It is inductive.
LEMMA NextIInv == IInv /\ [Next]_vars => IInv'
<1> SUFFICES ASSUME IInv, [Next]_vars PROVE IInv' OBVIOUS
<1>1. ASSUME NEW t \in Threads, AppNext(t) PROVE IInv'
  BY <1>1, AppTypes, StartStep, IdStep, PublishStep, OtherAppSteps DEF AppNext, IInv
<1>2. CASE YieldNext
  BY <1>2, YieldTypes, QuietSteps, PubackStep, RemoveStep, RePublishStep DEF YieldNext, IInv
<1>3. CASE BrokerReceive
  BY <1>3, YieldTypes, BrokerStep DEF IInv
<1>4. CASE LinkBreaks \/ \E m \in Msgs : TimeOut(m)
  BY <1>4, YieldTypes, QuietSteps DEF IInv
<1>5. CASE UNCHANGED vars
  <2>1. TypeOK' BY <1>5 DEF IInv, TypeOK, vars, clientVars, appVars, yieldVars, netVars
  <2>2. (CallInv /\ TraceInv /\ AckInv /\ IdInv)'
    BY <1>5, QuietStep DEF vars, clientVars, appVars, netVars, callState, idState
  <2> QED BY <2>1, <2>2 DEF IInv
<1> QED BY <1>1, <1>2, <1>3, <1>4, <1>5 DEF Next

\* The strengthened invariant holds of every reachable state.
THEOREM Invariance == Spec => []IInv
BY InitIInv, NextIInv, PTL DEF Spec

\* Type correctness of the publish pipeline (MqttPublish!TypeOK).
THEOREM TypeCorrect == Spec => []TypeOK
<1>1. IInv => TypeOK BY DEF IInv
<1> QED BY <1>1, Invariance, PTL

\* A message is forgotten only because the broker acknowledged a message with
\* its packet id, whatever the wrap-around of packet_id has done.
THEOREM ForgettingNeedsAck == Spec => []ForgottenOnlyByItsId
<1>1. IInv => ForgottenOnlyByItsId
  BY DEF IInv, AckInv, IdReceived, Live, ForgottenOnlyByItsId
<1> QED BY <1>1, Invariance, PTL

\* While packet ids have not been reused, a message with the id of m is m.
LEMMA SameIdSameMessage ==
    ASSUME IInv, ~wrapped, NEW m \in Live, IdReceived(msg_id[m])
    PROVE  m \in received
<1>1. PICK n \in received : msg_id[n] = msg_id[m] BY DEF IdReceived
<1>2. m \in Msgs /\ n \in Msgs BY DEF IInv, TypeOK, Live
<1> QED BY <1>1, <1>2 DEF IInv, IdInv

\* At least once: MQTTPublish and MQTTPubInfoProc keep an accepted message until
\* the broker has it.
THEOREM AtLeastOnceDelivery == Spec => []NoSilentLoss
<1>1. IInv => NoSilentLoss
  BY SameIdSameMessage DEF IInv, AckInv, Live, NoSilentLoss
<1> QED BY <1>1, Invariance, PTL

\* A failed publish leaves no node that a later MQTTPubInfoProc would send.
THEOREM NothingSentBehindTheCaller == Spec => []ClosedNeverPending
<1>1. IInv => ClosedNeverPending
  <2> SUFFICES ASSUME IInv, NEW m \in closed PROVE node_state[m] = "none"
    BY DEF ClosedNeverPending
  <2>1. m \in Msgs \ Live BY DEF IInv, CallInv, TypeOK, Live
  <2> QED BY <2>1 DEF IInv, TraceInv, Untouched
<1> QED BY <1>1, Invariance, PTL

\* A node is marked acknowledged only after the broker processed its message.
THEOREM AcknowledgedMeansReceived == Spec => []AckedWasReceived
<1>1. IInv => AckedWasReceived
  <2> SUFFICES ASSUME IInv, ~wrapped, NEW m \in Msgs, node_state[m] = "INVALID"
               PROVE  m \in received
    BY DEF AckedWasReceived
  <2>1. m \in Live BY DEF IInv, TraceInv, Untouched
  <2> QED BY <2>1, SameIdSameMessage DEF IInv, AckInv
<1> QED BY <1>1, Invariance, PTL

-----------------------------------------------------------------------------
(* The waiting list *)

\* Only iotx_mc_push_pubInfo_to makes the list longer, by one node.
LEMMA ListStep ==
    ASSUME IInv, [Next]_vars
    PROVE  \/ Pending' \subseteq Pending
           \/ Cardinality(Pending) < RepubMax /\ \E m \in Msgs : Pending' = Pending \cup {m}
<1>0. TypeOK BY DEF IInv
<1>1. CASE node_state' = node_state BY <1>1 DEF Pending
<1>2. ASSUME NEW t \in Threads, MQTTPublish(t), node_state' # node_state
      PROVE  Cardinality(Pending) < RepubMax /\ \E m \in Msgs : Pending' = Pending \cup {m}
  <2>1. cur[t] \in Msgs /\ cur[t] \notin Live
    BY <1>2, PublishAssumption DEF MQTTPublish, IInv, CallInv, Live
  <2>2. node_state[cur[t]] = "none" BY <2>1 DEF IInv, TraceInv, Untouched
  <2>3. iotx_mc_push_pubInfo_to(cur[t])
    BY <1>0, <1>2, <2>1, <2>2 DEF MQTTPublish, GiveUpWaiting, TypeOK
  <2>4. Pending' = Pending \cup {cur[t]}
    BY <1>0, <2>1, <2>3 DEF iotx_mc_push_pubInfo_to, Pending, TypeOK
  <2> QED BY <2>1, <2>3, <2>4 DEF iotx_mc_push_pubInfo_to
<1>3. CASE iotx_mc_handle_recv_PUBACK
  BY <1>3 DEF iotx_mc_handle_recv_PUBACK, iotx_mc_mask_pubInfo_from, Pending
<1>4. ASSUME NEW m \in Msgs, VisitInvalid(m) PROVE Pending' \subseteq Pending
  BY <1>0, <1>4 DEF VisitInvalid, Pending, TypeOK
<1>5. ASSUME NEW t \in Threads, AppNext(t), ~MQTTPublish(t) PROVE node_state' = node_state
  BY <1>5 DEF AppNext, PublishStart, iotx_mc_get_next_packetid, MQTTPublishQos0,
              PublishFailed, PublishReturn, clientVars
<1>6. ASSUME YieldNext, ~iotx_mc_handle_recv_PUBACK, ~ \E m \in Msgs : VisitInvalid(m)
      PROVE  node_state' = node_state
  BY <1>6 DEF YieldNext, iotx_mc_keepalive_sub, KeepaliveReadState, HandleDisconnected,
       ReconnectWait, iotx_mc_attempt_reconnect, ConnectAccepted, ConnectRetry, ConnectFailed,
       HandleReconnectDone, CycleOffline, CycleOnline, CycleReadError, CycleReadFault,
       CycleNothing, MQTTPubInfoProc, VisitKeep, MQTTRePublish, PubInfoProcDone, CycleAgain,
       YieldReturn, clientVars
<1>7. ASSUME BrokerReceive \/ LinkBreaks \/ (\E m \in Msgs : TimeOut(m)) \/ UNCHANGED vars
      PROVE  node_state' = node_state
  BY <1>7 DEF BrokerReceive, LinkBreaks, TimeOut, clientVars, vars
<1> QED BY <1>1, <1>2, <1>3, <1>4, <1>5, <1>6, <1>7 DEF Next

\* list_pub_wait_ack stays within IOTX_MC_REPUB_NUM_MAX: MQTTPublish holds
\* lock_list_pub from the count to the insertion.
THEOREM WaitingListBounded == Spec => []PubListBounded
<1>0. ASSUME TypeOK PROVE IsFiniteSet(Pending)
  BY PublishAssumption, FS_Subset DEF Pending
<1>1. Init => PubListBounded
  <2> SUFFICES ASSUME Init PROVE PubListBounded OBVIOUS
  <2>1. Pending = {} BY DEF Init, Pending
  <2> QED BY <2>1, FS_EmptySet, PublishAssumption DEF PubListBounded
<1>2. IInv /\ PubListBounded /\ [Next]_vars => PubListBounded'
  <2> SUFFICES ASSUME IInv, PubListBounded, [Next]_vars PROVE PubListBounded' OBVIOUS
  <2>1. IsFiniteSet(Pending) BY <1>0 DEF IInv
  <2>2. Cardinality(Pending) \in Nat BY <2>1, FS_CardinalityType
  <2>3. CASE Pending' \subseteq Pending
    <3>1. Cardinality(Pending') <= Cardinality(Pending) /\ Cardinality(Pending') \in Nat
      BY <2>1, <2>3, FS_Subset, FS_CardinalityType
    <3> QED BY <2>2, <3>1, PublishAssumption DEF PubListBounded
  <2>4. ASSUME Cardinality(Pending) < RepubMax, NEW m \in Msgs, Pending' = Pending \cup {m}
        PROVE  PubListBounded'
    <3>1. Cardinality(Pending \cup {m}) \in {Cardinality(Pending), Cardinality(Pending) + 1}
      BY <2>1, FS_AddElement
    <3> QED BY <2>2, <2>4, <3>1, PublishAssumption DEF PubListBounded
  <2> QED BY <2>3, <2>4, ListStep
<1> QED BY <1>1, <1>2, Invariance, PTL DEF Spec

\* Everything MQTTPubInfoProc relies on when it walks over list_pub_wait_ack.
THEOREM WaitingListSound == Spec => []PublishInv
  BY TypeCorrect, WaitingListBounded, NothingSentBehindTheCaller,
     AcknowledgedMeansReceived, PTL DEF PublishInv

-----------------------------------------------------------------------------
(***************************************************************************)
(* The publish pipeline implements AtLeastOnce.  Every step of MqttPublish *)
(* is, under the refinement mapping `Promise', a step of the abstract      *)
(* specification or leaves its variables alone; the inductive invariant    *)
(* above supplies the abstract guards.                                     *)
(***************************************************************************)

Held == {m \in Msgs : node_state[m] = "NORMAL"}

\* The status of a request depends on the calls only.
LEMMA StatusUnchanged ==
    ASSUME UNCHANGED <<cur, accepted, closed>>
    PROVE  RequestStatus' = RequestStatus
  BY DEF RequestStatus

\* The initial states correspond.
LEMMA PromiseInit == Init => Promise!Init
  BY PublishAssumption DEF Init, Promise!Init, RequestStatus

\* A call in progress: its message is "calling", and only it changes when the
\* call ends.
LEMMA EndOfCall ==
    ASSUME IInv, NEW t \in Threads, pc[t] # "idle",
           cur' = [cur EXCEPT ![t] = NoMsg]
    PROVE  /\ cur[t] \in Msgs /\ RequestStatus[cur[t]] = "calling"
           /\ closed' = closed \cup {cur[t]} /\ accepted' = accepted
              => RequestStatus' = [RequestStatus EXCEPT ![cur[t]] = "refused"]
           /\ accepted' = accepted \cup {cur[t]} /\ closed' = closed
              => RequestStatus' = [RequestStatus EXCEPT ![cur[t]] = "accepted"]
<1>0. /\ TypeOK /\ cur[t] \in Msgs /\ cur[t] \notin accepted \cup closed
      /\ \A u \in Threads : u # t => cur[u] # cur[t]
      /\ accepted \cap closed = {}
  BY PublishAssumption DEF IInv, CallInv
<1>1. \A m \in Msgs : m # cur[t] =>
        ((\E u \in Threads : cur'[u] = m) <=> (\E u \in Threads : cur[u] = m))
  BY <1>0, PublishAssumption DEF TypeOK
<1>2. RequestStatus[cur[t]] = "calling" BY <1>0 DEF RequestStatus
<1>3. ASSUME closed' = closed \cup {cur[t]}, accepted' = accepted
      PROVE  RequestStatus' = [RequestStatus EXCEPT ![cur[t]] = "refused"]
  BY <1>0, <1>1, <1>3 DEF RequestStatus
<1>4. ASSUME accepted' = accepted \cup {cur[t]}, closed' = closed
      PROVE  RequestStatus' = [RequestStatus EXCEPT ![cur[t]] = "accepted"]
  BY <1>0, <1>1, <1>4 DEF RequestStatus
<1> QED BY <1>0, <1>2, <1>3, <1>4

\* A call that ends without a packet id is refused.
LEMMA CloseRefuses ==
    ASSUME IInv, NEW t \in Threads, pc[t] \notin {"idle", "ret"}, Close(t),
           UNCHANGED <<node_state, received>>, wrapped' \in {wrapped, TRUE}
    PROVE  Promise!Next
<1>1. cur[t] \in Msgs /\ cur[t] \notin Live
  BY PublishAssumption DEF IInv, CallInv, Live
<1>2. Untouched(cur[t]) BY <1>1 DEF IInv, TraceInv
<1>3. Promise!Refuse(cur[t])
  BY <1>1, <1>2, EndOfCall DEF Close, Promise!Refuse, Untouched
<1> QED BY <1>1, <1>3 DEF Promise!Next

\* The steps of an application thread.
LEMMA AppRefines ==
    ASSUME IInv, NEW t \in Threads, AppNext(t)
    PROVE  [Promise!Next]_(Promise!vars)
<1> USE DEF clientVars, netVars
<1>0. TypeOK BY DEF IInv
<1>1. ASSUME NEW m \in Msgs, PublishStart(t, m) PROVE Promise!Next
  <2>1. /\ cur[t] = NoMsg /\ m \notin accepted \cup closed
        /\ \A u \in Threads : cur[u] # m
        /\ UNCHANGED <<node_state, received, wrapped, accepted>>
    BY <1>0, <1>1 DEF PublishStart, Started, IInv, CallInv, TypeOK
  <2>2. RequestStatus[m] = "new" BY <2>1 DEF RequestStatus
  <2>3. m \notin Live /\ Untouched(m)
    <3>1. m \notin Live BY <2>1 DEF Live
    <3> QED BY <3>1 DEF IInv, TraceInv
  <2>4. CASE client_state = "CONNECTED"
    <3>1. cur' = [cur EXCEPT ![t] = m] /\ closed' = closed BY <1>1, <2>4 DEF PublishStart
    <3>2. RequestStatus' = [RequestStatus EXCEPT ![m] = "calling"]
      BY <1>0, <2>1, <3>1, PublishAssumption DEF RequestStatus, TypeOK
    <3>3. Promise!Call(m) BY <2>1, <2>2, <3>2 DEF Promise!Call
    <3> QED BY <3>3 DEF Promise!Next
  <2>5. CASE client_state # "CONNECTED"
    <3>1. cur' = cur /\ closed' = closed \cup {m} BY <1>1, <2>5 DEF PublishStart
    <3>2. RequestStatus' = [RequestStatus EXCEPT ![m] = "refused"]
      BY <2>1, <3>1 DEF RequestStatus
    <3>3. Promise!Refuse(m) BY <2>1, <2>2, <2>3, <3>2 DEF Promise!Refuse, Untouched
    <3> QED BY <3>3 DEF Promise!Next
  <2> QED BY <2>4, <2>5
<1>2. CASE iotx_mc_get_next_packetid(t)
  <2>1. /\ pc[t] = "id" /\ UNCHANGED <<node_state, received>>
        /\ wrapped' \in {wrapped, TRUE}
    BY <1>2 DEF iotx_mc_get_next_packetid
  <2>2. CASE Close(t) BY <2>1, <2>2, CloseRefuses
  <2>3. CASE UNCHANGED <<cur, accepted, closed>>
    BY <2>1, <2>3, StatusUnchanged DEF Promise!Next, Promise!Identify
  <2> QED BY <1>2, <2>2, <2>3 DEF iotx_mc_get_next_packetid
<1>3. CASE MQTTPublish(t)
  <2>1. pc[t] = "send" /\ cur[t] \in Msgs /\ cur[t] \notin Live /\ wrapped' = wrapped
    BY <1>3, PublishAssumption DEF MQTTPublish, IInv, CallInv, Live
  <2>2. Untouched(cur[t]) BY <2>1 DEF IInv, TraceInv
  <2>3. CASE iotx_mc_push_pubInfo_to(cur[t]) /\ SendOk(cur[t]) /\ UNCHANGED <<cur, accepted, closed>>
    <3>1. Held' = Held \cup {cur[t]} /\ received' = received
      BY <1>0, <2>1, <2>3 DEF iotx_mc_push_pubInfo_to, SendOk, Held, TypeOK
    <3>2. RequestStatus[cur[t]] = "calling"
      BY <2>1 DEF RequestStatus, IInv, CallInv
    <3>3. Promise!Hold(cur[t])
      BY <2>1, <2>3, <3>1, <3>2, StatusUnchanged DEF Promise!Hold, Held
    <3>4. \E m \in Msgs : Promise!Hold(m) BY <2>1, <3>3 DEF Promise!Hold
    <3>5. Promise!Next BY <3>4 DEF Promise!Next
    <3> QED BY <3>5
  <2>4. CASE SendFail /\ GiveUpWaiting(cur[t]) /\ UNCHANGED <<cur, accepted, closed>>
    <3>1. node_state' = node_state /\ received' = received
      BY <1>0, <2>1, <2>2, <2>4 DEF GiveUpWaiting, SendFail, Untouched, TypeOK
    <3> QED BY <2>1, <2>4, <3>1, StatusUnchanged DEF Promise!vars
  <2>5. CASE Close(t) /\ UNCHANGED <<node_state, late, netVars>>
    BY <2>1, <2>5, CloseRefuses
  <2> QED BY <1>3, <2>3, <2>4, <2>5 DEF MQTTPublish
<1>4. CASE MQTTPublishQos0(t)
  <2>1. pc[t] = "send0" /\ UNCHANGED <<node_state, wrapped, received>>
    BY <1>4 DEF MQTTPublishQos0, SendFail
  <2>2. CASE Close(t) BY <2>1, <2>2, CloseRefuses
  <2>3. CASE UNCHANGED <<cur, accepted, closed>>
    BY <2>1, <2>3, StatusUnchanged DEF Promise!vars
  <2> QED BY <1>4, <2>2, <2>3 DEF MQTTPublishQos0
<1>5. CASE PublishFailed(t)
  BY <1>5, CloseRefuses DEF PublishFailed
<1>6. CASE PublishReturn(t)
  <2>1. /\ pc[t] = "ret" /\ UNCHANGED <<node_state, wrapped, received, closed>>
        /\ accepted' = accepted \cup {cur[t]} /\ cur' = [cur EXCEPT ![t] = NoMsg]
    BY <1>6 DEF PublishReturn
  <2>2. cur[t] \in Live /\ cur[t] \in Msgs BY <2>1 DEF IInv, CallInv, Live
  <2>3. node_state[cur[t]] = "NORMAL" \/ cur[t] \in received \/ wrapped
    BY <2>2, SameIdSameMessage DEF IInv, AckInv
  <2>4. Promise!Accept(cur[t])
    BY <2>1, <2>2, <2>3, EndOfCall DEF Promise!Accept
  <2> QED BY <2>2, <2>4 DEF Promise!Next
<1> QED BY <1>1, <1>2, <1>3, <1>4, <1>5, <1>6 DEF AppNext

\* The steps of the yielding thread and of the environment.
LEMMA YieldRefines ==
    ASSUME IInv, YieldNext \/ BrokerReceive \/ LinkBreaks \/ \E m \in Msgs : TimeOut(m)
    PROVE  [Promise!Next]_(Promise!vars)
<1>0. TypeOK /\ Live \subseteq Msgs BY DEF IInv, TypeOK, Live
<1>1. UNCHANGED <<cur, accepted, closed, wrapped>>
  BY DEF YieldNext, iotx_mc_keepalive_sub, KeepaliveReadState, HandleDisconnected,
       ReconnectWait, iotx_mc_attempt_reconnect, ConnectAccepted, ConnectRetry, ConnectFailed,
       HandleReconnectDone, CycleOffline, CycleOnline, CycleReadError, CycleReadFault,
       CycleNothing, iotx_mc_handle_recv_PUBACK, MQTTPubInfoProc, VisitInvalid, VisitKeep,
       MQTTRePublish, PubInfoProcDone, CycleAgain, YieldReturn, BrokerReceive, LinkBreaks,
       TimeOut, appVars
<1>2. RequestStatus' = RequestStatus BY <1>1, StatusUnchanged
<1>3. ASSUME Held' = Held, received' = received PROVE UNCHANGED Promise!vars
  BY <1>1, <1>2, <1>3 DEF Promise!vars, Held
<1>4. CASE iotx_mc_handle_recv_PUBACK
  <2> DEFINE S == {m \in Held : msg_id[m] = Head(toClient)}
  <2>1. received' = received /\ toClient \in Seq(1..IdMax) /\ toClient # <<>>
    BY <1>0, <1>4 DEF iotx_mc_handle_recv_PUBACK, TypeOK
  <2>2. Head(toClient) = toClient[1] /\ 1 \in 1..Len(toClient)
    BY <2>1, EmptySeq, LenProperties
  <2>3. IdReceived(Head(toClient)) BY <2>2 DEF IInv, AckInv
  <2>4. Held' = Held \ S
    BY <1>4 DEF iotx_mc_handle_recv_PUBACK, iotx_mc_mask_pubInfo_from, Held
  <2>5. ASSUME ~wrapped, NEW m \in S PROVE m \in received
    <3>1. m \in Live BY DEF IInv, TraceInv, Untouched, Held
    <3> QED BY <2>3, <2>5, <3>1, SameIdSameMessage
  <2>6. Promise!Release(S)
    BY <1>1, <1>2, <2>1, <2>4, <2>5 DEF Promise!Release, Held
  <2>7. \E T \in SUBSET Msgs : Promise!Release(T)
    <3>1. S \in SUBSET Msgs BY DEF Held
    <3> QED BY <2>6, <3>1 DEF Promise!Release
  <2>8. Promise!Next BY <2>7 DEF Promise!Next
  <2> QED BY <2>8
<1>5. CASE BrokerReceive
  <2> DEFINE h == Head(toBroker)
  <2>1. toBroker \in Seq(Msgs) /\ toBroker # <<>> BY <1>0, <1>5 DEF BrokerReceive, TypeOK
  <2>2. h = toBroker[1] /\ 1 \in 1..Len(toBroker) /\ h \in Msgs
    BY <2>1, EmptySeq, LenProperties, HeadTailProperties
  <2>3. h \in Live BY <2>2 DEF IInv, TraceInv, Untouched
  <2>4. /\ received' = received \cup {h} /\ node_state' = node_state
    BY <1>5 DEF BrokerReceive, clientVars
  <2>5. CASE h \in received
    <3>1. received' = received /\ Held' = Held BY <2>4, <2>5 DEF Held
    <3> QED BY <1>3, <3>1
  <2>6. CASE h \notin received
    <3>1. node_state[h] = "NORMAL" \/ wrapped
      BY <2>3, <2>6, SameIdSameMessage DEF IInv, AckInv
    <3>2. RequestStatus[h] \in {"calling", "accepted"}
      <4>1. h \notin closed BY <2>3 DEF IInv, CallInv, Live
      <4> QED BY <2>2, <2>3, <4>1 DEF RequestStatus, Live
    <3>3. Promise!Deliver(h)
      BY <1>1, <1>2, <2>2, <2>4, <3>1, <3>2 DEF Promise!Deliver
    <3>4. \E m \in Msgs : Promise!Deliver(m) BY <2>2, <3>3
    <3>5. Promise!Next BY <3>4 DEF Promise!Next
    <3> QED BY <3>5
  <2> QED BY <2>5, <2>6
<1>6. ASSUME NEW m \in Msgs, VisitInvalid(m) PROVE Held' = Held /\ received' = received
  BY <1>0, <1>6 DEF VisitInvalid, Held, netVars, TypeOK
<1>7. ASSUME ~iotx_mc_handle_recv_PUBACK, ~BrokerReceive, ~ \E m \in Msgs : VisitInvalid(m)
      PROVE  Held' = Held /\ received' = received
  BY <1>7 DEF YieldNext, iotx_mc_keepalive_sub, KeepaliveReadState, HandleDisconnected,
       ReconnectWait, iotx_mc_attempt_reconnect, ConnectAccepted, ConnectRetry, ConnectFailed,
       HandleReconnectDone, CycleOffline, CycleOnline, CycleReadError, CycleReadFault,
       CycleNothing, MQTTPubInfoProc, VisitKeep, MQTTRePublish, PubInfoProcDone, CycleAgain,
       YieldReturn, LinkBreaks, TimeOut, SendOk, SendFail, CloseLink, NewLink, clientVars,
       netVars, Held
<1> QED BY <1>3, <1>4, <1>5, <1>6, <1>7

\* MqttPublish implements the at-least-once promise of IOT_MQTT_Publish: the
\* links, locks, retransmissions and state races are invisible to the caller.
THEOREM PublishKeepsPromise == Spec => ImplementsPromise
<1>1. IInv /\ [Next]_vars => [Promise!Next]_(Promise!vars)
  <2> SUFFICES ASSUME IInv, [Next]_vars PROVE [Promise!Next]_(Promise!vars) OBVIOUS
  <2>1. CASE UNCHANGED vars
    <3>1. UNCHANGED <<cur, accepted, closed, node_state, received, wrapped>>
      BY <2>1 DEF vars, clientVars, appVars, netVars
    <3> QED BY <3>1, StatusUnchanged DEF Promise!vars
  <2> QED BY <2>1, AppRefines, YieldRefines DEF Next
<1> QED BY <1>1, PromiseInit, Invariance, PTL DEF Spec, Promise!Spec, ImplementsPromise

=============================================================================
