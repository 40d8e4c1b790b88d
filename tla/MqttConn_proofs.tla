-------------------------- MODULE MqttConn_proofs --------------------------
(***************************************************************************)
(* Proofs about MqttConn for every value of the constants: the connection  *)
(* invariant, the truth of the events and the back-off rule.               *)
(*                                                                         *)
(* None of the three is inductive alone.  They rest on what the owner's    *)
(* control point says about the shared fields: where the client may be     *)
(* CONNECTED at all, which steps hold a socket, when the keep-alive        *)
(* interval is the doubled one, and that the back-off pair is coherent     *)
(* from the moment an attempt can follow.                                  *)
(***************************************************************************)
EXTENDS MqttConn, TLAPS

\* The owner is inside _mqtt_nwk_connect or _mqtt_connect.
Attempting == {"nwk", "connect", "connack", "failed"}

\* Where the client may be CONNECTED: never while a socket is opened or
\* closed, whatever a publisher stores late.
ConnectedAt ==
    {"stored", "idle", "state", "cycle", "read", "end", "release"}

\* The handle is the one connection; there is none where one is about to be
\* opened or the client is gone.
SocketPart ==
    /\ OneConnection
    /\ handle <=> link # "none"
    /\ acked => handle
    /\ mpc \in {"construct", "nwk", "closing", "freed"} => ~handle
    /\ mpc \in {"connect", "connack"} => ~acked

\* CONNECTED is paired with an accepted session, at the points that allow it.
\* Only the owner leaves "stored", where the session is already accepted.
StatePart ==
    /\ client_state = "CONNECTED" => acked /\ mpc \in ConnectedAt
    /\ mpc = "stored" => acked /\ client_state # "RECONNECTING"

\* The doubled interval lives only until CONNECT is sent.
KeepAlivePart ==
    /\ mpc # "connect" => keepAliveInterval = KeepAlive
    /\ keepAliveInterval \in KeepAlive..KeepAliveMax
    /\ acked \/ mpc = "connack" => advertised \in KeepAlive..KeepAliveMax

\* A CONNECTED client leaves _mqtt_cycle with room for one more ping.
ProbePart ==
    client_state = "CONNECTED" /\ mpc \in {"read", "end", "idle"}
        => keepalive_probes <= ProbeMax

\* The one counter of both retry loops is within the limit of the loop it
\* counts for.
TriesPart ==
    /\ mpc = "construct" => caller = "construct" /\ tries = 1
    /\ mpc = "nwk" => tries <= NwkRetryMax
    /\ mpc \in {"connect", "connack"} => tries <= ConnRetryMax

\* The events lag behind the state only between the store of CONNECTED and
\* the event, and between the event and the store of RECONNECTING.
EventPart ==
    /\ client_state = "CONNECTED" /\ mpc # "stored" => reported = "online"
    /\ client_state = "RECONNECTING" \/ mpc = "closed" => reported = "offline"

\* From the DISCONNECT event until the session is back the wait is the
\* interval, capped.
BackoffPart ==
    \/ client_state = "RECONNECTING"
    \/ mpc \in {"closed", "reconnect"}
    \/ mpc \in Attempting /\ caller = "reconnect"
    => armed = IF IntervalMax < interval THEN IntervalMax ELSE interval

IInv == /\ TypeOK /\ SocketPart /\ StatePart /\ KeepAlivePart
        /\ ProbePart /\ TriesPart /\ EventPart /\ BackoffPart

\* The connect sequence keeps the invariant: a socket is opened only where none
\* is, and CONNECTED is stored only on an accepted session.
LEMMA ConnectingKeepsIInv ==
  ASSUME IInv, Connecting PROVE IInv'
<1> USE ConnAssumption DEF IInv, TypeOK, SocketPart, OneConnection, StatePart, KeepAlivePart,
          ProbePart, TriesPart, EventPart, BackoffPart, Attempting, ConnectedAt, States
<1>1. CASE NwkConnectOk
  <2>1. TypeOK'
    <3>1. connections' \in Nat
      BY <1>1 DEF NwkConnectOk, Goto, NetConnectOk, EnterMqttConnect,
         DoubledKeepAlive, timing, others
    <3>2. keepAliveInterval' \in {KeepAlive, 2 * KeepAlive, KeepAliveMax}
      BY <1>1 DEF NwkConnectOk, Goto, NetConnectOk, EnterMqttConnect,
         DoubledKeepAlive, timing, others
    <3>3. tries' \in 1..(NwkRetryMax + ConnRetryMax)
      BY <1>1 DEF NwkConnectOk, Goto, NetConnectOk, EnterMqttConnect,
         DoubledKeepAlive, timing, others
    <3> QED
      BY <1>1, <3>1, <3>2, <3>3 DEF NwkConnectOk, Goto, NetConnectOk,
         EnterMqttConnect, DoubledKeepAlive, timing, others
  <2>2. /\ SocketPart' /\ StatePart' /\ KeepAlivePart'
        /\ ProbePart' /\ TriesPart' /\ EventPart' /\ BackoffPart'
    BY <1>1 DEF NwkConnectOk, Goto, NetConnectOk, EnterMqttConnect,
       DoubledKeepAlive, timing, others
  <2> QED BY <2>1, <2>2
<1>2. CASE NwkConnectFail
  <2>1. TypeOK'
    <3>1. connections' \in Nat
      BY <1>2 DEF NwkConnectFail, Goto, NetConnectFail, EnterMqttConnect,
         DoubledKeepAlive, timing, others
    <3>2. keepAliveInterval' \in {KeepAlive, 2 * KeepAlive, KeepAliveMax}
      BY <1>2 DEF NwkConnectFail, Goto, NetConnectFail, EnterMqttConnect,
         DoubledKeepAlive, timing, others
    <3>3. tries' \in 1..(NwkRetryMax + ConnRetryMax)
      BY <1>2 DEF NwkConnectFail, Goto, NetConnectFail, EnterMqttConnect,
         DoubledKeepAlive, timing, others
    <3> QED
      BY <1>2, <3>1, <3>2, <3>3 DEF NwkConnectFail, Goto, NetConnectFail,
         EnterMqttConnect, DoubledKeepAlive, timing, others
  <2>2. /\ SocketPart' /\ StatePart' /\ KeepAlivePart'
        /\ ProbePart' /\ TriesPart' /\ EventPart' /\ BackoffPart'
    BY <1>2 DEF NwkConnectFail, Goto, NetConnectFail, EnterMqttConnect,
       DoubledKeepAlive, timing, others
  <2> QED BY <2>1, <2>2
<1>3. CASE SendConnect
  <2>1. TypeOK'
    <3>1. connections' \in Nat
      BY <1>3 DEF SendConnect, Goto, RestoreKeepAlive, CanWrite,
         iotx_net_disconnect, timing, call, others
    <3>2. keepAliveInterval' \in {KeepAlive, 2 * KeepAlive, KeepAliveMax}
      BY <1>3 DEF SendConnect, Goto, RestoreKeepAlive, CanWrite,
         iotx_net_disconnect, timing, call, others
    <3>3. advertised' \in Nat
      BY <1>3 DEF SendConnect, Goto, RestoreKeepAlive, CanWrite,
         iotx_net_disconnect, timing, call, others
    <3> QED
      BY <1>3, <3>1, <3>2, <3>3 DEF SendConnect, Goto, RestoreKeepAlive, CanWrite,
         iotx_net_disconnect, timing, call, others
  <2>2. /\ SocketPart' /\ StatePart' /\ KeepAlivePart'
        /\ ProbePart' /\ TriesPart' /\ EventPart' /\ BackoffPart'
    BY <1>3 DEF SendConnect, Goto, RestoreKeepAlive, CanWrite, iotx_net_disconnect,
       timing, call, others
  <2> QED BY <2>1, <2>2
<1>4. CASE ConnackAccepted
  BY <1>4 DEF ConnackAccepted, Goto, timing, call, others
<1>5. CASE ConnackRejected
  <2>1. TypeOK'
    <3>1. connections' \in Nat
      BY <1>5 DEF ConnackRejected, Goto, iotx_net_disconnect, pings, timing, call,
         others
    <3> QED
      BY <1>5, <3>1 DEF ConnackRejected, Goto, iotx_net_disconnect, pings, timing,
         call, others
  <2>2. /\ SocketPart' /\ StatePart' /\ KeepAlivePart'
        /\ ProbePart' /\ TriesPart' /\ EventPart' /\ BackoffPart'
    BY <1>5 DEF ConnackRejected, Goto, iotx_net_disconnect, pings, timing, call,
       others
  <2> QED BY <2>1, <2>2
<1>6. CASE ConnackTimeout
  <2>1. TypeOK'
    <3>1. connections' \in Nat
      BY <1>6 DEF ConnackTimeout, Goto, NetReplace, RetryExceeded, pings, timing,
         others
    <3>2. tries' \in 1..(NwkRetryMax + ConnRetryMax)
      BY <1>6 DEF ConnackTimeout, Goto, NetReplace, RetryExceeded, pings, timing,
         others
    <3> QED
      BY <1>6, <3>1, <3>2 DEF ConnackTimeout, Goto, NetReplace, RetryExceeded,
         pings, timing, others
  <2>2. /\ SocketPart' /\ StatePart' /\ KeepAlivePart'
        /\ ProbePart' /\ TriesPart' /\ EventPart' /\ BackoffPart'
    BY <1>6 DEF ConnackTimeout, Goto, NetReplace, RetryExceeded, pings, timing,
       others
  <2> QED BY <2>1, <2>2
<1>7. CASE ConnectFailed
  BY <1>7 DEF ConnectFailed, Goto, NextInterval, NextWait, net, pings, timing, call,
     others
<1>8. CASE ConnectDone
  BY <1>8 DEF ConnectDone, Goto, iotx_mc_reconnect_callback, net, pings, call
<1> QED BY <1>1, <1>2, <1>3, <1>4, <1>5, <1>6, <1>7, <1>8 DEF Connecting

\* Keep-alive, back-off and the read loop keep the invariant.
LEMMA YieldingKeepsIInv ==
  ASSUME IInv, Yielding PROVE IInv'
<1> USE ConnAssumption DEF IInv, TypeOK, SocketPart, OneConnection, StatePart, KeepAlivePart,
          ProbePart, TriesPart, EventPart, BackoffPart, Attempting, ConnectedAt, States
<1>1. CASE NoPing
  BY <1>1 DEF NoPing, Goto, net, pings, timing, call, others
<1>2. CASE Ping
  <2>1. CASE CanWrite /\ keepalive_probes' = keepalive_probes + 1
             /\ UNCHANGED <<client_state, net>>
    <3>1. keepalive_probes <= ProbeMax
      BY <1>2 DEF Ping
    <3>2. keepalive_probes' \in 0..(ProbeMax + 1)
      BY <2>1, <3>1
    <3> QED BY <1>2, <2>1, <3>2 DEF Ping, Goto, CanWrite, net, timing, call, others
  <2>2. CASE WriteFails /\ client_state' = "DISCONNECTED" /\ UNCHANGED keepalive_probes
    <3>1. /\ faults' \in 0..MaxFaults
          /\ link' \in {link, "dead"} /\ (~handle => link' = link)
          /\ UNCHANGED <<handle, connections, acked>>
      BY <2>2 DEF WriteFails, net
    <3> QED BY <1>2, <2>2, <3>1 DEF Ping, Goto, timing, call, others
  <2> QED BY <1>2, <2>1, <2>2 DEF Ping
<1>3. CASE iotx_mc_keepalive
  BY <1>3 DEF iotx_mc_keepalive, Goto, net, pings, timing, call, others
<1>4. CASE HandleDisconnected
  <2>1. TypeOK'
    <3>1. connections' \in Nat
      BY <1>4 DEF HandleDisconnected, Goto, iotx_net_disconnect, pings, call
    <3>2. interval' \in IntervalMin..(2 * IntervalMax) /\ armed' \in IntervalMin..IntervalMax
      BY <1>4 DEF HandleDisconnected, Goto, iotx_net_disconnect, pings, call
    <3> QED
      BY <1>4, <3>1, <3>2 DEF HandleDisconnected, Goto, iotx_net_disconnect, pings,
         call
  <2>2. /\ SocketPart' /\ StatePart' /\ KeepAlivePart'
        /\ ProbePart' /\ TriesPart' /\ EventPart' /\ BackoffPart'
    BY <1>4 DEF HandleDisconnected, Goto, iotx_net_disconnect, pings, call
  <2> QED BY <2>1, <2>2
<1>5. CASE StoreReconnecting
  BY <1>5 DEF StoreReconnecting, Goto, net, pings, timing, call, others
<1>6. CASE ReconnectWait
  BY <1>6 DEF ReconnectWait, Goto, net, pings, timing, call, others
<1>7. CASE iotx_mc_attempt_reconnect
  <2>1. TypeOK'
    <3>1. connections' \in Nat
      BY <1>7 DEF iotx_mc_attempt_reconnect, Goto, iotx_net_disconnect, pings,
         timing, others
    <3>2. tries' \in 1..(NwkRetryMax + ConnRetryMax)
      BY <1>7 DEF iotx_mc_attempt_reconnect, Goto, iotx_net_disconnect, pings,
         timing, others
    <3> QED
      BY <1>7, <3>1, <3>2 DEF iotx_mc_attempt_reconnect, Goto, iotx_net_disconnect,
         pings, timing, others
  <2>2. /\ SocketPart' /\ StatePart' /\ KeepAlivePart'
        /\ ProbePart' /\ TriesPart' /\ EventPart' /\ BackoffPart'
    BY <1>7 DEF iotx_mc_attempt_reconnect, Goto, iotx_net_disconnect, pings, timing,
       others
  <2> QED BY <2>1, <2>2
<1>8. CASE iotx_mc_cycle
  BY <1>8 DEF iotx_mc_cycle, Goto, ProbesExceeded, net, timing, call, others
<1>9. CASE ReadPacket
  BY <1>9 DEF ReadPacket, Goto, net, timing, call, others
<1>10. CASE ReadNothing
  BY <1>10 DEF ReadNothing, Goto, net, pings, timing, call, others
<1>11. CASE ReadError
  BY <1>11 DEF ReadError, Goto, net, pings, timing, call, others
<1>12. CASE CycleAgain
  BY <1>12 DEF CycleAgain, Goto, net, pings, timing, call, others
<1>13. CASE YieldReturn
  BY <1>13 DEF YieldReturn, Goto, net, pings, timing, call, others
<1> QED BY <1>1, <1>2, <1>3, <1>4, <1>5, <1>6, <1>7, <1>8, <1>9, <1>10, <1>11, <1>12, <1>13 DEF Yielding

\* Destruction, the publishing thread and the death of the connection do.
LEMMA OthersKeepIInv ==
  ASSUME IInv,
         \/ iotx_mc_init \/ Destroy \/ iotx_mc_disconnect \/ wrapper_mqtt_release
         \/ ConstructAgain \/ PublishCheck \/ PublishWrite \/ PublishFail \/ LinkDies
  PROVE  IInv'
<1> USE ConnAssumption DEF IInv, TypeOK, SocketPart, OneConnection, StatePart, KeepAlivePart,
          ProbePart, TriesPart, EventPart, BackoffPart, Attempting, ConnectedAt, States
<1>1. CASE iotx_mc_init
  BY <1>1 DEF iotx_mc_init, Goto, net, call, others
<1>2. CASE Destroy
  BY <1>2 DEF Destroy, Goto, net, pings, timing, call, others
<1>3. CASE iotx_mc_disconnect
  <2>1. TypeOK'
    <3>1. connections' \in Nat
      BY <1>3 DEF iotx_mc_disconnect, Goto, iotx_net_disconnect, pings, timing,
         call, others
    <3> QED
      BY <1>3, <3>1 DEF iotx_mc_disconnect, Goto, iotx_net_disconnect, pings,
         timing, call, others
  <2>2. /\ SocketPart' /\ StatePart' /\ KeepAlivePart'
        /\ ProbePart' /\ TriesPart' /\ EventPart' /\ BackoffPart'
    BY <1>3 DEF iotx_mc_disconnect, Goto, iotx_net_disconnect, pings, timing, call,
       others
  <2> QED BY <2>1, <2>2
<1>4. CASE wrapper_mqtt_release
  BY <1>4 DEF wrapper_mqtt_release, Goto, net, pings, timing, call, others
<1>5. CASE ConstructAgain
  BY <1>5 DEF ConstructAgain, Goto, net, pings, timing, others
<1>6. CASE PublishCheck
  BY <1>6 DEF PublishCheck, net, ownerVars, pings, timing, call
<1>7. CASE PublishWrite
  BY <1>7 DEF PublishWrite, CanWrite, WriteFails, net, ownerVars, pings, timing,
     call
<1>8. CASE PublishFail
  BY <1>8 DEF PublishFail, net, ownerVars, pings, timing, call
<1>9. CASE LinkDies
  BY <1>9 DEF LinkDies, ownerVars, pings, timing, call
<1> QED BY <1>1, <1>2, <1>3, <1>4, <1>5, <1>6, <1>7, <1>8, <1>9

LEMMA InitIInv == Init => IInv
<1> SUFFICES ASSUME Init PROVE IInv
  OBVIOUS
<1> USE ConnAssumption DEF Init
<1>1. TypeOK
  <2>1. /\ interval \in IntervalMin..(2 * IntervalMax)
        /\ armed \in IntervalMin..IntervalMax
        /\ tries \in 1..(NwkRetryMax + ConnRetryMax)
        /\ keepalive_probes \in 0..(ProbeMax + 1)
        /\ faults \in 0..MaxFaults
        /\ connections \in Nat /\ advertised \in Nat
    OBVIOUS
  <2> QED BY <2>1 DEF TypeOK, States
<1>2. SocketPart /\ StatePart /\ KeepAlivePart /\ ProbePart /\ TriesPart
  BY DEF SocketPart, OneConnection, StatePart, KeepAlivePart, ProbePart, TriesPart,
         ConnectedAt
<1>3. EventPart /\ BackoffPart
  BY DEF EventPart, BackoffPart, Attempting
<1> QED BY <1>1, <1>2, <1>3 DEF IInv

LEMMA StepIInv == IInv /\ [Next]_vars => IInv'
<1> SUFFICES ASSUME IInv, [Next]_vars PROVE IInv'
  OBVIOUS
<1>1. CASE Next
  BY <1>1, ConnectingKeepsIInv, YieldingKeepsIInv, OthersKeepIInv DEF Next
<1>2. CASE UNCHANGED vars
  BY <1>2 DEF vars, net, pings, timing, call, others, IInv, TypeOK, SocketPart,
     OneConnection, StatePart, KeepAlivePart, ProbePart, TriesPart, EventPart, BackoffPart
<1> QED BY <1>1, <1>2

\* The owner's control point and the shared fields agree in every reachable
\* state, whatever the publishing thread does in between.
THEOREM Inductive == Spec => []IInv
  BY InitIInv, StepIInv, PTL DEF Spec

LEMMA IInvImpliesConnInv == IInv => ConnInv
  BY ConnAssumption DEF IInv, ConnInv, TypeOK, SocketPart, StatePart, KeepAlivePart,
     ConnectedHasSession, PingsBeforeBrokerGivesUp, ConnectedAt

\* In every behaviour no socket is lost or closed twice, CONNECTED is only seen
\* on a session the broker accepted, and pings are never rarer than the broker
\* was told (iotx_mc_connect, iotx_mc_keepalive, iotx_mc_disconnect).
THEOREM ConnectionSafe == Spec => []ConnInv
  BY Inductive, IInvImpliesConnInv, PTL

LEMMA IInvImpliesEvents == IInv => EventsTellTheTruth
  BY DEF IInv, EventPart, EventsTellTheTruth

\* Between two calls of IOT_MQTT_Yield the DISCONNECT and RECONNECT events have
\* told the application the truth about the state.
THEOREM EventsTrue == Spec => []EventsTellTheTruth
  BY Inductive, IInvImpliesEvents, PTL

\* A step changes the wait only as the back-off rule says.
BackoffStep ==
    armed' # armed => \/ armed' = IntervalMin
                      \/ armed' = 2 * armed
                      \/ armed' = IntervalMax /\ 2 * armed > IntervalMax

\* Only two steps touch the wait.  A failed attempt of the reconnect loop finds
\* it equal to the capped interval, so that doubling the one doubles the other.
LEMMA StepBackoff == IInv /\ [Next]_vars => BackoffStep
<1> SUFFICES ASSUME IInv, [Next]_vars, armed' # armed PROVE BackoffStep
  BY DEF BackoffStep
<1>1. ConnectFailed \/ HandleDisconnected
  <2>1. CASE UNCHANGED vars
    BY <2>1 DEF vars, timing
  <2>2. CASE Connecting
    BY <2>2 DEF Connecting, NwkConnectOk, NwkConnectFail, SendConnect, ConnackAccepted,
       ConnackRejected, ConnackTimeout, ConnectDone, timing
  <2>3. CASE Yielding
    BY <2>3 DEF Yielding, NoPing, Ping, iotx_mc_keepalive, StoreReconnecting,
       ReconnectWait, iotx_mc_attempt_reconnect, iotx_mc_cycle, ReadPacket, ReadNothing,
       ReadError, CycleAgain, YieldReturn, timing
  <2>4. CASE iotx_mc_init \/ Destroy \/ iotx_mc_disconnect \/ wrapper_mqtt_release
             \/ ConstructAgain \/ PublishCheck \/ PublishWrite \/ PublishFail \/ LinkDies
    BY <2>4 DEF iotx_mc_init, Destroy, iotx_mc_disconnect, wrapper_mqtt_release,
       ConstructAgain, PublishCheck, PublishWrite, PublishFail, LinkDies, ownerVars, timing
  <2> QED BY <2>1, <2>2, <2>3, <2>4 DEF Next
<1>2. CASE ConnectFailed
  <2>1. /\ armed = IF IntervalMax < interval THEN IntervalMax ELSE interval
        /\ armed' = NextWait
    BY <1>2 DEF ConnectFailed, IInv, BackoffPart, Attempting, timing
  <2> QED BY <2>1, ConnAssumption DEF NextWait, NextInterval, BackoffStep, IInv, TypeOK
<1>3. CASE HandleDisconnected
  BY <1>3 DEF HandleDisconnected, BackoffStep
<1> QED BY <1>1, <1>2, <1>3

\* In every behaviour the wait before a reconnect attempt starts at the minimum,
\* doubles up to the maximum and starts afresh (iotx_mc_handle_reconnect),
\* wherever a publisher's late store of DISCONNECTED falls.
THEOREM BackoffRule == Spec => BackoffDoublesOrResets
<1>1. IInv /\ [Next]_vars => [BackoffStep]_vars
  BY StepBackoff
<1> QED BY <1>1, Inductive, PTL DEF Spec, BackoffDoublesOrResets, BackoffStep

=============================================================================
