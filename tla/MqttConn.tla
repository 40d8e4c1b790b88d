------------------------------ MODULE MqttConn ------------------------------
(***************************************************************************)
(* The life of one MQTT client: IOT_MQTT_Construct, the connect, keep-     *)
(* alive and reconnect logic that wrapper_mqtt_yield runs, and             *)
(* IOT_MQTT_Destroy, in the thread that owns the client, while another     *)
(* thread publishes (or subscribes, or unsubscribes: all of them check     *)
(* client_state, write, and store DISCONNECTED when the write fails).      *)
(*                                                                         *)
(* A step ends where the other thread can observe or disturb the owner:    *)
(* at every access to client_state and to the ipstack handle.  Durations   *)
(* are in units of IOTX_MC_RECONNECT_INTERVAL_MIN_MS; when a timer expires *)
(* is left open.  The connection itself and the broker are external.       *)
(***************************************************************************)
EXTENDS Naturals

CONSTANTS ProbeMax,      \* IOTX_MC_KEEPALIVE_PROBE_MAX
          NwkRetryMax,   \* retry_max of _mqtt_nwk_connect
          ConnRetryMax,  \* RETRY_TIME_LIMIT - 1
          IntervalMin,   \* IOTX_MC_RECONNECT_INTERVAL_MIN_MS
          IntervalMax,   \* IOTX_MC_RECONNECT_INTERVAL_MAX_MS
          KeepAlive,     \* keep-alive interval after iotx_mc_set_connect_params
          KeepAliveMax,  \* CONFIG_MQTT_KEEPALIVE_INTERVAL_MAX
          MaxFaults      \* bound: deaths of an established connection

ASSUME ConnAssumption ==
    /\ ProbeMax \in Nat
    /\ NwkRetryMax \in Nat \ {0}
    /\ ConnRetryMax \in Nat \ {0}
    /\ IntervalMin \in Nat \ {0} /\ IntervalMax \in Nat /\ IntervalMin <= IntervalMax
    /\ KeepAlive \in Nat \ {0} /\ KeepAliveMax \in Nat /\ KeepAlive <= KeepAliveMax
    /\ MaxFaults \in Nat

VARIABLES
  client_state,
  handle,             \* ipstack.handle # 0
  connections,        \* TLS connections the HAL holds open
  link,               \* the current connection, seen by the broker
  acked,              \* an accepting CONNACK was read from it
  keepalive_probes,
  keepAliveInterval,  \* connect_data.keepAliveInterval
  advertised,         \* the interval in the last CONNECT packet
  interval,           \* reconnect_param.reconnect_time_interval_ms
  armed,              \* the wait last put into reconnect_next_time
  mpc,                \* next step of the owner
  caller,             \* who called _mqtt_nwk_connect and _mqtt_connect
  tries,              \* retry_cnt or try_count
  reported,           \* what the DISCONNECT and RECONNECT events told the application
  ppc,                \* next step of the publishing thread
  faults

timing == <<interval, armed>>
net    == <<handle, connections, link, acked, faults>>
pings  == <<keepalive_probes, keepAliveInterval, advertised>>
call   == <<caller, tries>>
others == <<reported, ppc>>
vars   == <<client_state, net, pings, timing, mpc, call, others>>

States == {"INVALID", "INITIALIZED", "CONNECTED", "DISCONNECTED", "RECONNECTING"}

\* Every variable has values of its type; the wait before an attempt stays
\* between IntervalMin and IntervalMax and the probes within their limit.
TypeOK ==
    /\ client_state \in States
    /\ handle \in BOOLEAN
    /\ connections \in Nat
    /\ link \in {"none", "tcp", "asked", "session", "dead"}
    /\ acked \in BOOLEAN
    /\ keepalive_probes \in 0..(ProbeMax + 1)
    /\ keepAliveInterval \in {KeepAlive, 2 * KeepAlive, KeepAliveMax}
    /\ advertised \in Nat
    /\ interval \in IntervalMin..(2 * IntervalMax)
    /\ armed \in IntervalMin..IntervalMax
    /\ mpc \in {"construct", "nwk", "connect", "connack", "failed", "stored", "idle",
                "state", "disconnected", "closed", "reconnect", "cycle", "read", "end",
                "release", "closing", "freed"}
    /\ caller \in {"construct", "reconnect"}
    /\ tries \in 1..(NwkRetryMax + ConnRetryMax)
    /\ reported \in {"online", "offline"}
    /\ ppc \in {"idle", "write", "fail"}
    /\ faults \in 0..MaxFaults

Init ==
    /\ client_state = "INVALID"
    /\ handle = FALSE
    /\ connections = 0
    /\ link = "none"
    /\ acked = FALSE
    /\ keepalive_probes = 0
    /\ keepAliveInterval = KeepAlive
    /\ advertised = 0
    /\ interval = IntervalMin
    /\ armed = IntervalMin
    /\ mpc = "construct"
    /\ caller = "construct"
    /\ tries = 1
    /\ reported = "offline"
    /\ ppc = "idle"
    /\ faults = MaxFaults

-----------------------------------------------------------------------------
(* ipstack *)

Goto(label) == mpc' = label

\* iotx_net_connect: a handle that was still open would be overwritten.
NetConnectOk ==
    /\ handle' = TRUE
    /\ connections' = connections + 1
    /\ link' = "tcp"
    /\ acked' = FALSE

NetConnectFail ==
    /\ handle' = FALSE
    /\ link' = "none"
    /\ acked' = FALSE
    /\ UNCHANGED connections

\* iotx_net_disconnect destroys the connection, if there is one.
iotx_net_disconnect ==
    /\ handle' = FALSE
    /\ connections' = IF handle THEN connections - 1 ELSE connections
    /\ link' = "none"
    /\ acked' = FALSE

\* disconnect, then connect, whose result is ignored.
NetReplace ==
    /\ acked' = FALSE
    /\ \/ handle' = TRUE /\ link' = "tcp"
          /\ connections' = IF handle THEN connections ELSE connections + 1
       \/ handle' = FALSE /\ link' = "none"
          /\ connections' = IF handle THEN connections - 1 ELSE connections

\* A write succeeds: a dead connection may swallow packets for a while.
CanWrite == handle

\* A write fails on a connection that is gone, or costs a fault and leaves the
\* stream torn.
WriteFails ==
    \/ /\ ~handle \/ link = "dead"
       /\ UNCHANGED net
    \/ /\ handle /\ link # "dead"
       /\ faults > 0
       /\ faults' = faults - 1
       /\ link' = "dead"
       /\ UNCHANGED <<handle, connections, acked>>

-----------------------------------------------------------------------------
(* IOT_MQTT_Construct, wrapper_mqtt_connect and iotx_mc_attempt_reconnect *)

\* wrapper_mqtt_init and iotx_mc_init.
iotx_mc_init ==
    /\ mpc = "construct"
    /\ client_state' = "INITIALIZED"
    /\ keepalive_probes' = 0
    /\ keepAliveInterval' = KeepAlive
    /\ interval' = IntervalMin
    /\ Goto("nwk")
    /\ UNCHANGED <<net, advertised, armed, call, others>>

\* The broker is told twice the user's interval, capped.
DoubledKeepAlive ==
    IF 2 * keepAliveInterval > KeepAliveMax THEN KeepAliveMax ELSE 2 * keepAliveInterval

\* _mqtt_connect begins.
EnterMqttConnect ==
    /\ keepAliveInterval' = DoubledKeepAlive
    /\ tries' = 1
    /\ Goto("connect")

\* _mqtt_nwk_connect succeeds at this try.
NwkConnectOk ==
    /\ mpc = "nwk"
    /\ NetConnectOk
    /\ EnterMqttConnect
    /\ UNCHANGED <<client_state, faults, keepalive_probes, advertised, timing, caller,
                   others>>

\* This try fails.  After the last one IOT_MQTT_Construct gives up, while
\* iotx_mc_attempt_reconnect calls _mqtt_connect all the same.
NwkConnectFail ==
    /\ mpc = "nwk"
    /\ NetConnectFail
    /\ \/ /\ tries < NwkRetryMax
          /\ tries' = tries + 1
          /\ UNCHANGED <<mpc, keepAliveInterval>>
       \/ /\ tries = NwkRetryMax /\ caller = "construct"
          /\ Goto("release")
          /\ UNCHANGED <<tries, keepAliveInterval>>
       \/ /\ tries = NwkRetryMax /\ caller = "reconnect"
          /\ EnterMqttConnect
    /\ UNCHANGED <<client_state, faults, keepalive_probes, advertised, timing, caller,
                   others>>

\* connect_data.keepAliveInterval = userKeepAliveInterval
RestoreKeepAlive == keepAliveInterval' = KeepAlive

\* MQTTConnect sends the CONNECT packet; the user's interval is restored.  When
\* it cannot be sent the socket is closed and _mqtt_connect fails.
SendConnect ==
    /\ mpc = "connect"
    /\ advertised' = keepAliveInterval
    /\ RestoreKeepAlive
    /\ \/ /\ CanWrite
          /\ link' = IF link = "tcp" THEN "asked" ELSE link
          /\ Goto("connack")
          /\ UNCHANGED <<handle, connections, acked, faults>>
       \/ /\ iotx_net_disconnect
          /\ Goto("failed")
          /\ UNCHANGED faults
    /\ UNCHANGED <<client_state, keepalive_probes, timing, call, others>>

\* iotx_mc_wait_CONNACK reads an accepting CONNACK.
ConnackAccepted ==
    /\ mpc = "connack" /\ link = "asked"
    /\ link' = "session"
    /\ acked' = TRUE
    /\ keepalive_probes' = 0
    /\ client_state' = "CONNECTED"
    /\ Goto("stored")
    /\ UNCHANGED <<handle, connections, faults, keepAliveInterval, advertised, timing,
                   call, others>>

\* It reads one of the four refusals that end the attempt.
ConnackRejected ==
    /\ mpc = "connack" /\ link = "asked"
    /\ iotx_net_disconnect
    /\ Goto("failed")
    /\ UNCHANGED <<client_state, faults, pings, timing, call, others>>

\* STATE_MQTT_CONN_RETRY_EXCEED_MAX
RetryExceeded ==
    /\ Goto("failed")
    /\ UNCHANGED client_state

\* Anything else (no answer, read error, bad user data, unknown code): sleep,
\* replace the socket, try again.  After the last try the new socket is left open.
ConnackTimeout ==
    /\ mpc = "connack"
    /\ NetReplace
    /\ \/ /\ tries < ConnRetryMax
          /\ tries' = tries + 1
          /\ Goto("connect")
          /\ UNCHANGED client_state
       \/ /\ tries = ConnRetryMax
          /\ RetryExceeded
          /\ UNCHANGED tries
    /\ UNCHANGED <<faults, pings, timing, caller, others>>

\* Mutant: the interval grows by the minimum instead of doubling.
NextIntervalLinear ==
    IF IntervalMax > interval THEN interval + IntervalMin ELSE IntervalMax

\* iotx_mc_handle_reconnect doubles the interval ...
NextInterval == IF IntervalMax > interval THEN 2 * interval ELSE IntervalMax

\* ... and waits no longer than the maximum.
NextWait == IF IntervalMax < NextInterval THEN IntervalMax ELSE NextInterval

\* The attempt failed.  wrapper_mqtt_connect runs _mqtt_cycle once before it
\* returns the error; iotx_mc_handle_reconnect backs off.
ConnectFailed ==
    /\ mpc = "failed"
    /\ \/ /\ caller = "construct"
          /\ Goto("release")
          /\ UNCHANGED timing
       \/ /\ caller = "reconnect"
          /\ interval' = NextInterval
          /\ armed' = NextWait
          /\ Goto("cycle")
    /\ UNCHANGED <<client_state, net, pings, call, others>>

\* Mutant: the application is not told.
ReconnectSilently == UNCHANGED reported

\* iotx_mc_reconnect_callback raises IOTX_MQTT_EVENT_RECONNECT.
iotx_mc_reconnect_callback == reported' = "online"

\* The attempt succeeded.  iotx_mc_handle_reconnect stores CONNECTED a second
\* time, the RECONNECT event is raised and the back-off starts afresh.
ConnectDone ==
    /\ mpc = "stored"
    /\ \/ /\ caller = "construct"
          /\ reported' = "online"     \* IOT_MQTT_Construct returns a handle
          /\ UNCHANGED <<client_state, interval>>
       \/ /\ caller = "reconnect"
          /\ client_state' = "CONNECTED"
          /\ iotx_mc_reconnect_callback
          /\ interval' = IntervalMin
    /\ Goto("cycle")
    /\ UNCHANGED <<net, pings, armed, call, ppc>>

-----------------------------------------------------------------------------
(* wrapper_mqtt_yield *)

\* iotx_mc_keepalive_sub finds the client offline, or no ping due.
NoPing ==
    /\ mpc = "idle"
    /\ Goto("state")
    /\ UNCHANGED <<client_state, net, pings, timing, call, others>>

\* A ping is due: MQTTKeepalive.
Ping ==
    /\ mpc = "idle"
    /\ client_state = "CONNECTED"
    /\ \/ /\ CanWrite
          /\ keepalive_probes' = keepalive_probes + 1
          /\ UNCHANGED <<client_state, net>>
       \/ /\ WriteFails
          /\ client_state' = "DISCONNECTED"
          /\ UNCHANGED keepalive_probes
    /\ Goto("state")
    /\ UNCHANGED <<keepAliveInterval, advertised, timing, call, others>>

\* iotx_mc_keepalive reads the state once and acts on that copy, kept in mpc.
iotx_mc_keepalive ==
    /\ mpc = "state"
    /\ Goto(CASE client_state = "RECONNECTING" -> "reconnect"
              [] client_state = "DISCONNECTED" -> "disconnected"
              [] OTHER -> "cycle")
    /\ UNCHANGED <<client_state, net, pings, timing, call, others>>

\* DISCONNECTED: the event, the first wait, the socket is closed ...
HandleDisconnected ==
    /\ mpc = "disconnected"
    /\ reported' = "offline"
    /\ interval' = IntervalMin
    /\ armed' = IntervalMin
    /\ iotx_net_disconnect
    /\ Goto("closed")
    /\ UNCHANGED <<client_state, faults, pings, call, ppc>>

\* Mutant: the state is not moved on.
StoreNothing ==
    /\ mpc = "closed"
    /\ Goto("cycle")
    /\ UNCHANGED <<client_state, net, pings, timing, call, others>>

\* ... and RECONNECTING is stored.
StoreReconnecting ==
    /\ mpc = "closed"
    /\ client_state' = "RECONNECTING"
    /\ Goto("cycle")
    /\ UNCHANGED <<net, pings, timing, call, others>>

\* reconnect_next_time has not come.
ReconnectWait ==
    /\ mpc = "reconnect"
    /\ Goto("cycle")
    /\ UNCHANGED <<client_state, net, pings, timing, call, others>>

\* Mutant: iotx_mc_attempt_reconnect relies on the socket being closed already.
AttemptWithoutDisconnect ==
    /\ mpc = "reconnect"
    /\ caller' = "reconnect"
    /\ tries' = 1
    /\ Goto("nwk")
    /\ UNCHANGED <<client_state, net, pings, timing, others>>

\* It has: the old socket is closed, a new attempt begins.
iotx_mc_attempt_reconnect ==
    /\ mpc = "reconnect"
    /\ iotx_net_disconnect
    /\ caller' = "reconnect"
    /\ tries' = 1
    /\ Goto("nwk")
    /\ UNCHANGED <<client_state, faults, pings, timing, others>>

\* Mutant: the probes are cleared, the state stays CONNECTED.
ForgiveProbes ==
    /\ keepalive_probes' = 0
    /\ UNCHANGED client_state

\* More than IOTX_MC_KEEPALIVE_PROBE_MAX pings went unanswered.
ProbesExceeded ==
    /\ client_state' = "DISCONNECTED"
    /\ keepalive_probes' = 0

\* iotx_mc_cycle: offline; or too many pings unanswered; or go on and read.
iotx_mc_cycle ==
    /\ mpc = "cycle"
    /\ \/ /\ client_state # "CONNECTED"
          /\ Goto("end")
          /\ UNCHANGED <<client_state, keepalive_probes>>
       \/ /\ client_state = "CONNECTED" /\ ProbeMax < keepalive_probes
          /\ ProbesExceeded
          /\ Goto("end")
       \/ /\ client_state = "CONNECTED" /\ ProbeMax >= keepalive_probes
          /\ Goto("read")
          /\ UNCHANGED <<client_state, keepalive_probes>>
    /\ UNCHANGED <<net, keepAliveInterval, advertised, timing, call, others>>

\* A packet: any packet answers the pings.
ReadPacket ==
    /\ mpc = "read" /\ link = "session"
    /\ keepalive_probes' = 0
    /\ Goto("end")
    /\ UNCHANGED <<client_state, net, keepAliveInterval, advertised, timing, call,
                   others>>

\* A time-out.  The end of a TLS stream looks the same (_network_ssl_read).
ReadNothing ==
    /\ mpc = "read"
    /\ Goto("end")
    /\ UNCHANGED <<client_state, net, pings, timing, call, others>>

\* An error: the connection is known to be gone.
ReadError ==
    /\ mpc = "read" /\ link = "dead"
    /\ client_state' = "DISCONNECTED"
    /\ Goto("end")
    /\ UNCHANGED <<net, pings, timing, call, others>>

\* _mqtt_cycle goes round again ...
CycleAgain ==
    /\ mpc = "end"
    /\ Goto("cycle")
    /\ UNCHANGED <<client_state, net, pings, timing, call, others>>

\* ... or its time is up and the call returns.
YieldReturn ==
    /\ mpc = "end"
    /\ Goto("idle")
    /\ UNCHANGED <<client_state, net, pings, timing, call, others>>

-----------------------------------------------------------------------------
(* IOT_MQTT_Destroy: wrapper_mqtt_release *)

\* The application destroys the client; no other thread may still use it.
Destroy ==
    /\ mpc = "idle" /\ ppc = "idle"
    /\ Goto("release")
    /\ UNCHANGED <<client_state, net, pings, timing, call, others>>

\* iotx_mc_disconnect sends DISCONNECT, whatever comes of it, and closes.
iotx_mc_disconnect ==
    /\ mpc = "release"
    /\ iotx_net_disconnect
    /\ client_state' = "INITIALIZED"
    /\ Goto("closing")
    /\ UNCHANGED <<faults, pings, timing, call, others>>

\* The locks, lists, buffers and the client are freed.
wrapper_mqtt_release ==
    /\ mpc = "closing"
    /\ client_state' = "INVALID"
    /\ Goto("freed")
    /\ UNCHANGED <<net, pings, timing, call, others>>

\* The application constructs a client again.
ConstructAgain ==
    /\ mpc = "freed"
    /\ Goto("construct")
    /\ caller' = "construct"
    /\ tries' = 1
    /\ UNCHANGED <<client_state, net, pings, timing, others>>

-----------------------------------------------------------------------------
(* The publishing thread *)

ownerVars == <<pings, timing, mpc, call, reported>>

\* wrapper_mqtt_check_state: true now, perhaps not when the packet is written.
PublishCheck ==
    /\ ppc = "idle" /\ client_state = "CONNECTED"
    /\ mpc \notin {"release", "closing", "freed"}
    /\ ppc' = "write"
    /\ UNCHANGED <<client_state, net, ownerVars>>

\* The packet is written to whatever connection there is now.  A broker that
\* has not seen a CONNECT closes the connection.
PublishWrite ==
    /\ ppc = "write"
    /\ \/ /\ CanWrite
          /\ link' \in IF link \in {"tcp", "asked"} THEN {link, "dead"} ELSE {link}
          /\ ppc' = "idle"
          /\ UNCHANGED <<handle, connections, acked, faults>>
       \/ /\ WriteFails
          /\ ppc' = "fail"
    /\ UNCHANGED <<client_state, ownerVars>>

\* The failure is recorded, however late.
PublishFail ==
    /\ ppc = "fail"
    /\ client_state' = "DISCONNECTED"
    /\ ppc' = "idle"
    /\ UNCHANGED <<net, ownerVars>>

\* The connection dies, silently or not.
LinkDies ==
    /\ link \in {"tcp", "asked", "session"}
    /\ faults > 0
    /\ faults' = faults - 1
    /\ link' = "dead"
    /\ UNCHANGED <<client_state, handle, connections, acked, ownerVars, ppc>>

-----------------------------------------------------------------------------
Connecting == NwkConnectOk \/ NwkConnectFail \/ SendConnect \/ ConnackAccepted
              \/ ConnackRejected \/ ConnackTimeout \/ ConnectFailed \/ ConnectDone

Yielding == NoPing \/ Ping \/ iotx_mc_keepalive \/ HandleDisconnected \/ StoreReconnecting
            \/ ReconnectWait \/ iotx_mc_attempt_reconnect \/ iotx_mc_cycle \/ ReadPacket
            \/ ReadNothing \/ ReadError \/ CycleAgain \/ YieldReturn

Next ==
    \/ iotx_mc_init \/ Connecting \/ Yielding
    \/ Destroy \/ iotx_mc_disconnect \/ wrapper_mqtt_release \/ ConstructAgain
    \/ PublishCheck \/ PublishWrite \/ PublishFail
    \/ LinkDies

Spec == Init /\ [][Next]_vars

(***************************************************************************)
(* Fairness.  The owner keeps calling wrapper_mqtt_yield, whose loop is    *)
(* bounded by cycle_timeout_ms.  A publisher finishes its call.  Pings and *)
(* the end of the reconnect wait come due again and again; a reachable     *)
(* broker does not refuse or ignore the client for ever.                   *)
(***************************************************************************)
Fairness ==
    /\ WF_vars(iotx_mc_init \/ Connecting \/ Yielding \/ iotx_mc_disconnect
               \/ wrapper_mqtt_release)
    /\ WF_vars(PublishWrite \/ PublishFail)
    /\ SF_vars(Ping)
    /\ SF_vars(YieldReturn)
    /\ SF_vars(iotx_mc_attempt_reconnect)
    /\ SF_vars(NwkConnectOk)
    /\ SF_vars(SendConnect /\ handle')
    /\ SF_vars(ConnackAccepted)

FairSpec == Spec /\ Fairness

-----------------------------------------------------------------------------
(* Properties *)

\* The handle always stands for the one TLS connection that is open: no
\* reconnect overwrites an open handle, none is destroyed twice, whichever way
\* _mqtt_nwk_connect and _mqtt_connect failed before.
OneConnection == connections = IF handle THEN 1 ELSE 0

\* CONNECTED is only ever seen while the current connection has accepted our
\* CONNECT: neither the second store of iotx_mc_handle_reconnect nor the stale
\* stores of a publisher can pair it with a closed or a fresh socket.
ConnectedHasSession ==
    client_state = "CONNECTED" => handle /\ acked

\* Between calls the application's view, as told by the events, is the truth or
\* a disconnection about to be reported: a reconnect is never silent.
EventsTellTheTruth ==
    mpc = "idle" => /\ client_state = "CONNECTED" => reported = "online"
                    /\ client_state = "RECONNECTING" => reported = "offline"

\* Pings are sent at the user's interval and the broker was told no less,
\* across any number of failed and repeated attempts.
PingsBeforeBrokerGivesUp ==
    acked => /\ keepAliveInterval = KeepAlive
             /\ advertised >= KeepAlive
             /\ advertised <= KeepAliveMax

\* The connection is sound at every moment that another thread can see: no
\* socket is lost, CONNECTED is only seen on a connection the broker accepted,
\* and pings are never rarer than what the broker was told.
ConnInv ==
    TypeOK /\ OneConnection /\ ConnectedHasSession /\ PingsBeforeBrokerGivesUp

\* The wait before an attempt starts at the minimum, doubles up to the maximum
\* and starts afresh after a success (iotx_mc_handle_reconnect).
BackoffDoublesOrResets ==
    [][armed' # armed => \/ armed' = IntervalMin
                         \/ armed' = 2 * armed
                         \/ armed' = IntervalMax /\ 2 * armed > IntervalMax]_vars

\* A connection that died silently is found out by the keep-alive probes.
DeadPeerDetected ==
    (client_state = "CONNECTED" /\ link = "dead") ~> (link # "dead")

\* However attempts fail and stores race, a client that is not destroyed gets
\* its session back.
AlwaysBackOnline ==
    []<>(\/ mpc \in {"release", "closing", "freed"}
         \/ client_state = "CONNECTED" /\ link = "session")

=============================================================================
